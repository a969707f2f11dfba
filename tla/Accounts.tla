------------------------------ MODULE Accounts ------------------------------
(***************************************************************************)
(* What operators and CI jobs may rely on: accounts that are opened,       *)
(* closed and given a new secret in one step each, and runs recorded for   *)
(* an open account by someone who has known a secret of it.                *)
(***************************************************************************)
CONSTANTS
    Slugs,      \* names of accounts
    Ids,        \* identities; each is used once
    Secrets,
    Requests,   \* uploads
    NoId        \* the identity of an account that is closed

VARIABLES
    account,    \* the identity behind each name
    secret,     \* the secret of each open account
    known,      \* the secrets each identity has had
    used,       \* identities that have been given out
    recorded    \* runs: <<upload, identity, secret it came with>>

accountVars == <<account, secret, known, used, recorded>>

Open == {account[s] : s \in Slugs} \ {NoId}

Init ==
    /\ account = [s \in Slugs |-> NoId]
    /\ secret = [i \in {} |-> NoId]
    /\ known = [i \in Ids |-> {}]
    /\ used = {}
    /\ recorded = {}

OpenAccount(s, i, x) ==
    /\ account[s] = NoId
    /\ i \notin used
    /\ account' = [account EXCEPT ![s] = i]
    /\ secret' = [k \in Open \cup {i} |-> IF k = i THEN x ELSE secret[k]]
    /\ known' = [known EXCEPT ![i] = {x}]
    /\ used' = used \cup {i}
    /\ UNCHANGED recorded

ChangeSecret(s, x) ==
    /\ account[s] # NoId
    /\ secret' = [secret EXCEPT ![account[s]] = x]
    /\ known' = [known EXCEPT ![account[s]] = @ \cup {x}]
    /\ UNCHANGED <<account, used, recorded>>

CloseAccount(s) ==
    /\ account[s] # NoId
    /\ account' = [account EXCEPT ![s] = NoId]
    /\ secret' = [k \in Open \ {account[s]} |-> secret[k]]
    /\ recorded' = {run \in recorded : run[2] # account[s]}
    /\ UNCHANGED <<known, used>>

Record(r, i, x) ==
    /\ i \in Open
    /\ x \in known[i]
    /\ recorded' = recorded \cup {<<r, i, x>>}
    /\ UNCHANGED <<account, secret, known, used>>

Next ==
    \/ \E s \in Slugs :
          \/ \E x \in Secrets : ChangeSecret(s, x) \/ \E i \in Ids : OpenAccount(s, i, x)
          \/ CloseAccount(s)
    \/ \E r \in Requests, i \in Ids, x \in Secrets : Record(r, i, x)

Spec == Init /\ [][Next]_accountVars
=============================================================================
