---------------------------- MODULE PagesProofs ----------------------------
(***************************************************************************)
(* Proofs about Pages, for any number of runs, projects, tests and         *)
(* results, and any limits of lists and windows.                           *)
(*                                                                         *)
(* First what the operators return, from OrdersProofs: Arranged, the       *)
(* groups of a run page, and every ORDER BY.  Then the invariant: of the   *)
(* tables (TablesInv), of what the request has read and shown (VisitInv),  *)
(* and of the newest run that was listed (LatestIsKnown).  What others do  *)
(* while a request is handled is summed up in TablesMoveOn: runs come, and *)
(* go from the oldest on.                                                  *)
(***************************************************************************)
EXTENDS Pages, OrdersProofs

-----------------------------------------------------------------------------
(* Lists.                                                                  *)

\* LIMIT cuts a sequence, and only after the limit.
LEMMA FirstOfIsPrefix ==
    ASSUME NEW S, NEW seq \in Seq(S), NEW limit \in Nat
    PROVE  /\ FirstOf(seq, limit) \in Seq(S)
           /\ DOMAIN FirstOf(seq, limit) = 1 .. Len(FirstOf(seq, limit))
           /\ Len(FirstOf(seq, limit)) = IF limit < Len(seq) THEN limit ELSE Len(seq)
           /\ \A n \in DOMAIN FirstOf(seq, limit) :
                 n \in DOMAIN seq /\ FirstOf(seq, limit)[n] = seq[n]
<1> DEFINE len == IF limit < Len(seq) THEN limit ELSE Len(seq)
<1>1. len \in Nat /\ len <= Len(seq) /\ Len(seq) \in Nat
  OBVIOUS
<1>2. FirstOf(seq, limit) = SubSeq(seq, 1, len)
  BY DEF FirstOf
<1> HIDE DEF len
<1>3. FirstOf(seq, limit) = [n \in 1 .. len |-> seq[n]]
  BY <1>1, <1>2
<1>4. \A n \in 1 .. len : n \in 1 .. Len(seq) /\ seq[n] \in S
  BY <1>1
<1> QED BY <1>1, <1>3, <1>4 DEF len

\* A stable sort returns what it was given, in another order.
LEMMA ArrangedLists ==
    ASSUME NEW S, NEW rows, Lists(rows, S), NEW number,
           \A i \in DOMAIN rows : number[i] \in Int /\ rows[i].key \in Int
    PROVE  Lists(Arranged(rows, number), S)
<1> DEFINE before(i, j) ==
               \/ number[i] < number[j]
               \/ number[i] = number[j] /\ rows[i].key < rows[j].key
               \/ number[i] = number[j] /\ rows[i].key = rows[j].key /\ i < j
           I == DOMAIN rows
           R == {e \in I \X I : before(e[1], e[2])}
           at == InOrder(I, R)
<1>1. I \in SUBSET Int /\ IsFiniteSet(I)
  <2>1. rows \in Seq(S)
    BY DEF Lists
  <2>2. DOMAIN rows = 1 .. Len(rows) /\ Len(rows) \in Nat
    BY <2>1
  <2>3. IsFiniteSet(1 .. Len(rows))
    BY <2>2, FS_Interval
  <2> QED BY <2>2, <2>3
<1>2. Arranged(rows, number) = [n \in DOMAIN at |-> rows[at[n]]]
  BY DEF Arranged
<1>3. \A i, j \in I : <<i, j>> \in R <=> before(i, j)
  OBVIOUS
<1> HIDE DEF R
<1>4. StrictOrder(I, R)
  <2>1. \A i \in I : i \in Int /\ number[i] \in Int /\ rows[i].key \in Int
    BY <1>1
  <2>2. \A i \in I : ~ before(i, i)
    BY <2>1
  <2>3. \A i, j \in I : i # j => before(i, j) \/ before(j, i)
    BY <2>1
  <2>4. \A i, j, k \in I : before(i, j) /\ before(j, k) => before(i, k)
    BY <2>1
  <2> HIDE DEF before
  <2> QED BY <1>3, <2>2, <2>3, <2>4 DEF StrictOrder
<1>5. Lists(at, I)
  BY <1>1, <1>4, InOrderIsSorted
<1> HIDE DEF at
<1>6. Lists([n \in DOMAIN at |-> rows[at[n]]], {rows[i] : i \in I})
  BY <1>5, ListOfPlaces
<1>7. {rows[i] : i \in I} = S
  <2>1. rows \in Seq(S) /\ \A x \in S : \E n \in DOMAIN rows : rows[n] = x
    BY DEF Lists
  <2>2. \A i \in I : rows[i] \in S
    BY <2>1
  <2> QED BY <2>1, <2>2
<1> QED BY <1>2, <1>6, <1>7

\* The groups of a run page have each of its results in one place.
LEMMA GroupsArePartition ==
    ASSUME NEW S, NEW rows, Lists(rows, S)
    PROVE  LET groups == GroupRunResults(rows) IN
           /\ groups \in Seq(Seq(S))
           /\ \A x \in S : \E g \in DOMAIN groups : \E n \in DOMAIN groups[g] : groups[g][n] = x
           /\ \A g, h \in DOMAIN groups :
                 \A m \in DOMAIN groups[g], n \in DOMAIN groups[h] :
                    groups[g][m] = groups[h][n] => g = h /\ m = n
<1> DEFINE groups == GroupRunResults(rows)
           first == {i \in DOMAIN rows : \A j \in 1 .. i - 1 : rows[j].suite # rows[i].suite}
           of(name) == {i \in DOMAIN rows : rows[i].suite = name}
           names == Select(rows, first)
<1>1. /\ rows \in Seq(S)
      /\ \A x \in S : \E n \in DOMAIN rows : rows[n] = x
      /\ \A m, n \in DOMAIN rows : rows[m] = rows[n] => m = n
  BY DEF Lists
<1>2. DOMAIN rows = 1 .. Len(rows) /\ Len(rows) \in Nat /\ \A i \in DOMAIN rows : rows[i] \in S
  BY <1>1
<1>3. \E at : /\ Lists(at, first)
              /\ \A m, n \in DOMAIN at : m < n => at[m] < at[n]
              /\ Select(rows, first) = [n \in DOMAIN at |-> rows[at[n]]]
  <2>1. first \in SUBSET DOMAIN rows
    OBVIOUS
  <2> HIDE DEF first
  <2> QED BY <1>1, <2>1, SelectLists
<1>4. PICK at : /\ Lists(at, first)
                /\ names = [n \in DOMAIN at |-> rows[at[n]]]
  BY <1>3
<1>5. /\ at \in Seq(first)
      /\ \A i \in first : \E n \in DOMAIN at : at[n] = i
      /\ \A m, n \in DOMAIN at : at[m] = at[n] => m = n
  BY <1>4 DEF Lists
<1>6. DOMAIN at = 1 .. Len(at) /\ Len(at) \in Nat /\ \A n \in DOMAIN at : at[n] \in first
  BY <1>5
\* Every name has its first result, and no two of these have the same.
<1>7. \A i \in DOMAIN rows : \E j \in first : rows[j].suite = rows[i].suite
  <2> SUFFICES ASSUME NEW i \in DOMAIN rows PROVE \E j \in first : rows[j].suite = rows[i].suite
    OBVIOUS
  <2> DEFINE I == of(rows[i].suite)
  <2>1. I \in SUBSET Int /\ i \in I
    BY <1>2
  <2>2. IsFiniteSet(I)
    <3>1. IsFiniteSet(1 .. Len(rows)) /\ I \in SUBSET (1 .. Len(rows))
      BY <1>2, FS_Interval
    <3> QED BY <3>1, FS_Subset
  <2> HIDE DEF I
  <2>3. PICK j \in I : \A l \in I : j <= l
    BY <2>1, <2>2, LeastOf
  <2>4. j \in DOMAIN rows /\ rows[j].suite = rows[i].suite
    BY <2>3 DEF I
  <2>5. ASSUME NEW l \in 1 .. j - 1 PROVE rows[l].suite # rows[j].suite
    <3>1. l \in DOMAIN rows /\ l < j /\ l \in Int /\ j \in Int
      BY <1>2, <2>4
    <3>2. l \notin I
      BY <2>3, <3>1
    <3> QED BY <2>4, <3>1, <3>2 DEF I
  <2>6. j \in first
    BY <2>4, <2>5
  <2> QED BY <2>4, <2>6
<1>8. \A i, j \in first : rows[i].suite = rows[j].suite => i = j
  <2> SUFFICES ASSUME NEW i \in first, NEW j \in first, rows[i].suite = rows[j].suite PROVE i = j
    OBVIOUS
  <2>1. i \in 1 .. Len(rows) /\ j \in 1 .. Len(rows)
    BY <1>2
  <2>2. i \notin 1 .. j - 1 /\ j \notin 1 .. i - 1
    OBVIOUS
  <2> QED BY <1>2, <2>1, <2>2
<1> HIDE DEF first
\* Each bucket lists the results of its name.
<1>9. groups = [g \in DOMAIN names |-> Select(rows, of(names[g].suite))]
  BY DEF GroupRunResults, Bucket, first
<1> HIDE DEF groups, names
<1>10. \A g \in DOMAIN at : g \in DOMAIN names /\ names[g] = rows[at[g]]
  BY <1>4
<1>11. /\ DOMAIN groups = DOMAIN at
       /\ groups = [g \in DOMAIN groups |-> groups[g]]
       /\ \A g \in DOMAIN groups : groups[g] = Select(rows, of(rows[at[g]].suite))
  BY <1>4, <1>9, <1>10
<1>12. \A g \in DOMAIN groups : Lists(groups[g], {rows[i] : i \in of(rows[at[g]].suite)})
  <2> SUFFICES ASSUME NEW g \in DOMAIN groups
               PROVE  Lists(groups[g], {rows[i] : i \in of(rows[at[g]].suite)})
    OBVIOUS
  <2> DEFINE I == of(rows[at[g]].suite)
  <2>1. I \in SUBSET DOMAIN rows
    OBVIOUS
  <2>2. groups[g] = Select(rows, I)
    BY <1>11
  <2> HIDE DEF I
  <2>3. PICK places : /\ Lists(places, I)
                      /\ Select(rows, I) = [n \in DOMAIN places |-> rows[places[n]]]
    BY <1>1, <2>1, SelectLists
  <2>4. Lists(groups[g], {rows[i] : i \in I})
    BY <2>1, <2>2, <2>3, ListOfPlaces
  <2> QED BY <2>4 DEF I
<1> DEFINE bucket(g) == {rows[i] : i \in of(rows[at[g]].suite)}
<1>13. \A g \in DOMAIN groups :
          /\ groups[g] \in Seq(bucket(g))
          /\ \A x \in bucket(g) : \E n \in DOMAIN groups[g] : groups[g][n] = x
          /\ \A m, n \in DOMAIN groups[g] : groups[g][m] = groups[g][n] => m = n
  BY <1>12 DEF Lists
<1>14. \A g \in DOMAIN groups : bucket(g) \subseteq S
  BY <1>2
<1>15. \A g \in DOMAIN groups : \A x \in bucket(g) : x.suite = rows[at[g]].suite
  OBVIOUS
<1>16. \A x \in S : \E g \in DOMAIN groups : x \in bucket(g)
  <2> SUFFICES ASSUME NEW x \in S PROVE \E g \in DOMAIN groups : x \in bucket(g)
    OBVIOUS
  <2>1. PICK i \in DOMAIN rows : rows[i] = x
    BY <1>1
  <2>2. PICK j \in first : rows[j].suite = rows[i].suite
    BY <1>7
  <2>3. PICK g \in DOMAIN at : at[g] = j
    BY <1>5
  <2>4. i \in of(rows[at[g]].suite)
    BY <2>2, <2>3
  <2> QED BY <1>11, <2>1, <2>4
<1> HIDE DEF bucket, of
<1>17. groups \in Seq(Seq(S))
  <2>1. \A g \in DOMAIN groups : groups[g] \in Seq(S)
    BY <1>13, <1>14
  <2>2. DOMAIN groups = 1 .. Len(at)
    BY <1>6, <1>11
  <2>3. groups = [g \in DOMAIN groups |-> groups[g]]
    BY <1>11
  <2> QED BY <1>6, <2>1, <2>2, <2>3
<1>18. \A x \in S : \E g \in DOMAIN groups : \E n \in DOMAIN groups[g] : groups[g][n] = x
  BY <1>13, <1>16
<1>19. ASSUME NEW g \in DOMAIN groups, NEW h \in DOMAIN groups,
              NEW m \in DOMAIN groups[g], NEW n \in DOMAIN groups[h],
              groups[g][m] = groups[h][n]
       PROVE  g = h /\ m = n
  <2>1. groups[g][m] \in bucket(g) /\ groups[h][n] \in bucket(h)
    BY <1>13
  <2>2. rows[at[g]].suite = rows[at[h]].suite
    BY <1>15, <1>19, <2>1
  <2>3. at[g] = at[h]
    BY <1>6, <1>8, <1>11, <2>2
  <2>4. g = h
    BY <1>5, <1>11, <2>3
  <2> QED BY <1>13, <1>19, <2>4
<1> QED BY <1>17, <1>18, <1>19 DEF groups

-----------------------------------------------------------------------------
(* The tables.                                                             *)

Run == [project : Ids, branch : Branches, uploadedAt : Times, rows : Seq(Rows)]

TablesTypeOK ==
    /\ runs \in Seq(Run)
    /\ live \subseteq {r \in DOMAIN runs : runs[r].project \in projects}
    /\ slugOf \in Seq(Slugs)
    /\ projects \subseteq DOMAIN slugOf /\ projects \subseteq Ids
    /\ horizon \in Times

\* Results are told apart by their run and their place in it.
RowsKnowTheirPlace ==
    \A r \in DOMAIN runs : \A i \in DOMAIN runs[r].rows : runs[r].rows[i].id = <<r, i>>

UploadsAreApart ==
    \A r, q \in DOMAIN runs : runs[r].uploadedAt = runs[q].uploadedAt => r = q

\* The prune has taken all runs that are too old, and no other than old ones.
OldRunsAreGone == \A r \in live : runs[r].uploadedAt >= horizon

\* A project that is deleted does not come back: its number has been used.
ProjectsAreKnown == \A r \in DOMAIN runs : runs[r].project \in DOMAIN slugOf

TablesInv ==
    /\ TablesTypeOK
    /\ RowsKnowTheirPlace
    /\ UploadsAreApart
    /\ OldRunsAreGone
    /\ ProjectsAreKnown

LEMMA TablesInvInit == Init => TablesInv
<1> SUFFICES ASSUME Init PROVE TablesInv
  OBVIOUS
<1>1. runs = <<>> /\ live = {} /\ slugOf = <<>> /\ projects = {} /\ horizon = 1
  BY DEF Init
<1>2. <<>> \in Seq(Run) /\ <<>> \in Seq(Slugs) /\ DOMAIN <<>> = {}
  OBVIOUS
<1>3. 1 \in Times
  BY PagesAssumption DEF Times
<1> QED BY <1>1, <1>2, <1>3 DEF TablesInv, TablesTypeOK, RowsKnowTheirPlace, UploadsAreApart,
                                OldRunsAreGone, ProjectsAreKnown

\* CreateRun adds one run.
LEMMA CreateRunAppends ==
    ASSUME TablesTypeOK, NEW p \in Ids, NEW b \in Branches, NEW t \in Times, NEW rows \in Reports,
           CreateRun(p, b, t, rows)
    PROVE  LET r == Len(runs) + 1 IN
           /\ runs' \in Seq(Run)
           /\ DOMAIN runs' = DOMAIN runs \cup {r}
           /\ r \notin DOMAIN runs
           /\ \A q \in DOMAIN runs : runs'[q] = runs[q]
           /\ runs'[r].project = p /\ runs'[r].branch = b /\ runs'[r].uploadedAt = t
           /\ \A i \in DOMAIN runs'[r].rows : runs'[r].rows[i].id = <<r, i>>
<1> DEFINE r == Len(runs) + 1
           new == [i \in DOMAIN rows |-> [id |-> <<r, i>>, key |-> rows[i].key,
                                          status |-> rows[i].status, millis |-> rows[i].millis,
                                          suite |-> rows[i].suite]]
           run == [project |-> p, branch |-> b, uploadedAt |-> t, rows |-> new]
           Result == [key : Keys \cup {0}, status : Verdicts, millis : Nat, suite : Nat]
<1>1. runs' = Append(runs, run) /\ r \in RunIds
  BY DEF CreateRun
<1>2. rows \in Seq(Result)
  BY PagesAssumption
<1> HIDE DEF Result
<1>3. DOMAIN rows = 1 .. Len(rows) /\ Len(rows) \in Nat /\ \A i \in DOMAIN rows : rows[i] \in Result
  BY <1>2
<1>4. \A i \in DOMAIN rows : new[i] \in Rows
  <2> SUFFICES ASSUME NEW i \in DOMAIN rows PROVE new[i] \in Rows
    OBVIOUS
  <2>1. <<r, i>> \in RunIds \X (Nat \ {0})
    BY <1>1, <1>3
  <2>2. rows[i] \in Result
    BY <1>3
  <2>3. /\ rows[i].key \in Keys \cup {0} /\ rows[i].status \in Verdicts
        /\ rows[i].millis \in Nat /\ rows[i].suite \in Nat
    BY <2>2 DEF Result
  <2> HIDE DEF r
  <2> QED BY <2>1, <2>3 DEF Rows
<1>5. new \in Seq(Rows)
  <2> HIDE DEF r
  <2>1. new = [i \in 1 .. Len(rows) |-> new[i]]
    BY <1>3
  <2> HIDE DEF new
  <2> QED BY <1>3, <1>4, <2>1
<1>6. \A i \in DOMAIN new : new[i].id = <<r, i>>
  OBVIOUS
<1> HIDE DEF new
<1>7. run \in Run
  BY <1>5 DEF Run
<1>8. run.project = p /\ run.branch = b /\ run.uploadedAt = t /\ run.rows = new
  OBVIOUS
<1> HIDE DEF run, Run
<1>9. runs \in Seq(Run)
  BY DEF TablesTypeOK
<1>10. /\ runs' \in Seq(Run)
       /\ DOMAIN runs' = DOMAIN runs \cup {r}
       /\ r \notin DOMAIN runs
       /\ \A q \in DOMAIN runs : runs'[q] = runs[q]
       /\ runs'[r] = run
  BY <1>1, <1>7, <1>9
<1> QED BY <1>6, <1>8, <1>10

LEMMA TablesInvNext ==
    ASSUME TablesInv, [Next]_vars
    PROVE  TablesInv'
<1>1. ASSUME NEW s \in Slugs, CreateProject(s) PROVE TablesInv'
  <2> DEFINE p == Len(slugOf) + 1
  <2>1. /\ slugOf' = Append(slugOf, s) /\ projects' = projects \cup {p} /\ p \in Ids
        /\ UNCHANGED <<runs, live, horizon>>
    BY <1>1 DEF CreateProject
  <2>2. /\ slugOf' \in Seq(Slugs)
        /\ DOMAIN slugOf' = DOMAIN slugOf \cup {p}
    BY <2>1 DEF TablesInv, TablesTypeOK
  <2> HIDE DEF p
  <2> QED BY <2>1, <2>2 DEF TablesInv, TablesTypeOK, RowsKnowTheirPlace, UploadsAreApart,
                            OldRunsAreGone, ProjectsAreKnown
<1>2. ASSUME NEW p \in Ids, DeleteProject(p) PROVE TablesInv'
  BY <1>2 DEF DeleteProject, RunsLeft, TablesInv, TablesTypeOK, RowsKnowTheirPlace,
              UploadsAreApart, OldRunsAreGone, ProjectsAreKnown
<1>3. ASSUME NEW p \in Ids, NEW b \in Branches, NEW t \in Times, NEW rows \in Reports,
             CreateRun(p, b, t, rows)
      PROVE  TablesInv'
  <2> DEFINE r == Len(runs) + 1
  <2>1. /\ p \in projects /\ t >= horizon
        /\ \A q \in DOMAIN runs : runs[q].uploadedAt # t
        /\ live' = live \cup {r}
        /\ UNCHANGED <<slugOf, projects, horizon>>
    BY <1>3 DEF CreateRun
  <2>2. /\ runs' \in Seq(Run)
        /\ DOMAIN runs' = DOMAIN runs \cup {r}
        /\ r \notin DOMAIN runs
        /\ \A q \in DOMAIN runs : runs'[q] = runs[q]
        /\ runs'[r].project = p /\ runs'[r].branch = b /\ runs'[r].uploadedAt = t
        /\ \A i \in DOMAIN runs'[r].rows : runs'[r].rows[i].id = <<r, i>>
    BY <1>3, CreateRunAppends DEF TablesInv
  <2> HIDE DEF r
  <2>3. TablesTypeOK'
    BY <2>1, <2>2 DEF TablesInv, TablesTypeOK
  <2>4. RowsKnowTheirPlace'
    BY <2>2 DEF TablesInv, RowsKnowTheirPlace
  <2>5. UploadsAreApart'
    BY <2>1, <2>2 DEF TablesInv, UploadsAreApart
  <2>6. OldRunsAreGone'
    BY <2>1, <2>2 DEF TablesInv, TablesTypeOK, OldRunsAreGone
  <2>7. ProjectsAreKnown'
    BY <2>1, <2>2 DEF TablesInv, TablesTypeOK, ProjectsAreKnown
  <2> QED BY <2>3, <2>4, <2>5, <2>6, <2>7 DEF TablesInv
<1>4. ASSUME NEW cutoff \in Times, PruneRuns(cutoff) PROVE TablesInv'
  BY <1>4 DEF PruneRuns, TablesInv, TablesTypeOK, RowsKnowTheirPlace,
              UploadsAreApart, OldRunsAreGone, ProjectsAreKnown
<1>5. ASSUME UNCHANGED <<runs, live, slugOf, projects, horizon>> PROVE TablesInv'
  BY <1>5 DEF TablesInv, TablesTypeOK, RowsKnowTheirPlace,
              UploadsAreApart, OldRunsAreGone, ProjectsAreKnown
<1>6. CASE Others
  BY <1>1, <1>2, <1>3, <1>4, <1>6 DEF Others
<1>7. CASE Open \/ Handle \/ UNCHANGED vars
  BY <1>5, <1>7 DEF Open, Handle, vars, Reads, ListRuns, ReadFailing, ReadFlaky, ReadSlowest, GetRun,
                    ReadResults, ReadRecent, ReadHistory, ReadChart, QueryFails, Respond
<1> QED BY <1>6, <1>7 DEF Next

-----------------------------------------------------------------------------
(* What queries return.                                                    *)

AllRows == UNION {ToSet(runs[r].rows) : r \in DOMAIN runs}

LEMMA RunsAreFinite ==
    ASSUME TablesInv
    PROVE  IsFiniteSet(DOMAIN runs) /\ IsFiniteSet(live) /\ live \subseteq DOMAIN runs
<1>1. DOMAIN runs = 1 .. Len(runs) /\ Len(runs) \in Nat /\ live \in SUBSET DOMAIN runs
  BY DEF TablesInv, TablesTypeOK
<1>2. IsFiniteSet(1 .. Len(runs))
  BY <1>1, FS_Interval
<1> QED BY <1>1, <1>2, FS_Subset

\* Of each stored row its id says where it is.
LEMMA RowsAreStored ==
    ASSUME TablesInv, NEW x \in AllRows
    PROVE  /\ x \in Rows
           /\ x.id[1] \in DOMAIN runs
           /\ x.id[2] \in DOMAIN runs[x.id[1]].rows
           /\ x.id[1] \in Int /\ x.id[2] \in Int
           /\ x = runs[x.id[1]].rows[x.id[2]]
<1>1. PICK r \in DOMAIN runs : x \in ToSet(runs[r].rows)
  BY DEF AllRows
<1>2. PICK i \in DOMAIN runs[r].rows : x = runs[r].rows[i]
  BY <1>1 DEF ToSet
<1>3. x.id = <<r, i>>
  BY <1>2 DEF TablesInv, RowsKnowTheirPlace
<1>4. runs[r].rows \in Seq(Rows) /\ r \in Int
  <2>1. runs[r] \in Run /\ r \in Int
    BY DEF TablesInv, TablesTypeOK
  <2> QED BY <2>1 DEF Run
<1>5. x \in Rows /\ i \in Int
  BY <1>2, <1>4
<1> QED BY <1>2, <1>3, <1>4, <1>5

LEMMA RowsOfRun ==
    ASSUME TablesInv, NEW r \in DOMAIN runs
    PROVE  /\ runs[r].rows \in Seq(Rows)
           /\ Lists(runs[r].rows, ToSet(runs[r].rows))
           /\ \A x \in ToSet(runs[r].rows) : x \in AllRows /\ x.id[1] = r
<1> DEFINE rows == runs[r].rows
<1>1. rows \in Seq(Rows)
  <2>1. runs[r] \in Run
    BY DEF TablesInv, TablesTypeOK
  <2> QED BY <2>1 DEF Run
<1>2. \A i \in DOMAIN rows : rows[i].id = <<r, i>>
  BY DEF TablesInv, RowsKnowTheirPlace
<1>3. \A x \in ToSet(rows) : x \in AllRows /\ x.id[1] = r
  <2>1. \A x \in ToSet(rows) : x \in AllRows
    BY DEF AllRows
  <2>2. \A x \in ToSet(rows) : \E i \in DOMAIN rows : x = rows[i]
    BY DEF ToSet
  <2> QED BY <1>2, <2>1, <2>2
<1>4. \A m, n \in DOMAIN rows : rows[m] = rows[n] => m = n
  <2> SUFFICES ASSUME NEW m \in DOMAIN rows, NEW n \in DOMAIN rows, rows[m] = rows[n] PROVE m = n
    OBVIOUS
  <2>1. <<r, m>> = <<r, n>>
    BY <1>2
  <2> QED BY <2>1
<1> HIDE DEF rows
<1>5. rows \in Seq(ToSet(rows)) /\ \A x \in ToSet(rows) : \E n \in DOMAIN rows : rows[n] = x
  BY <1>1 DEF ToSet
<1> QED BY <1>1, <1>3, <1>4, <1>5 DEF Lists, rows

LEMMA RowsAreTimed ==
    TablesInv => \A x \in AllRows : x.id[1] \in DOMAIN runs /\ runs[x.id[1]].uploadedAt \in Int
<1> SUFFICES ASSUME TablesInv, NEW x \in AllRows
             PROVE  x.id[1] \in DOMAIN runs /\ runs[x.id[1]].uploadedAt \in Int
  OBVIOUS
<1>1. x.id[1] \in DOMAIN runs
  BY RowsAreStored
<1>2. runs[x.id[1]] \in Run
  BY <1>1 DEF TablesInv, TablesTypeOK
<1> QED BY <1>1, <1>2, PagesAssumption DEF Run, Times

LEMMA RowsAreFinite == TablesInv => IsFiniteSet(AllRows)
<1> SUFFICES ASSUME TablesInv PROVE IsFiniteSet(AllRows)
  OBVIOUS
<1> DEFINE id == [x \in AllRows |-> x.id]
           of == [r \in DOMAIN runs |-> {r} \X (DOMAIN runs[r].rows)]
           places == UNION {of[r] : r \in DOMAIN runs}
<1>1. \A r \in DOMAIN runs : IsFiniteSet(of[r])
  <2> SUFFICES ASSUME NEW r \in DOMAIN runs PROVE IsFiniteSet({r} \X (DOMAIN runs[r].rows))
    OBVIOUS
  <2>1. runs[r].rows \in Seq(Rows)
    BY RowsOfRun
  <2>2. DOMAIN runs[r].rows = 1 .. Len(runs[r].rows) /\ Len(runs[r].rows) \in Nat
    BY <2>1
  <2>3. IsFiniteSet(1 .. Len(runs[r].rows))
    BY <2>2, FS_Interval
  <2>4. IsFiniteSet(DOMAIN runs[r].rows)
    BY <2>2, <2>3
  <2>5. IsFiniteSet({r})
    BY FS_Singleton
  <2> QED BY <2>4, <2>5, FS_Product
<1>2. IsFiniteSet({of[r] : r \in DOMAIN runs})
  <2> DEFINE T == {of[r] : r \in DOMAIN runs}
  <2>1. of \in Surjection(DOMAIN runs, T)
    BY DEF Surjection
  <2> HIDE DEF T, of
  <2>2. IsFiniteSet(DOMAIN runs)
    BY RunsAreFinite
  <2>3. IsFiniteSet(T)
    BY <2>1, <2>2, FS_Surjection
  <2> QED BY <2>3 DEF T
<1>3. IsFiniteSet(places)
  <2> HIDE DEF of
  <2> QED BY <1>1, <1>2, FS_UNION
<1>4. \A x \in AllRows : x.id \in places
  <2> SUFFICES ASSUME NEW x \in AllRows PROVE x.id \in places
    OBVIOUS
  <2>1. /\ x \in Rows
        /\ x.id[1] \in DOMAIN runs
        /\ x.id[2] \in DOMAIN runs[x.id[1]].rows
    BY RowsAreStored
  <2>2. x.id = <<x.id[1], x.id[2]>>
    BY <2>1 DEF Rows
  <2>3. x.id \in of[x.id[1]]
    BY <2>1, <2>2
  <2> HIDE DEF of
  <2> QED BY <2>1, <2>3
<1>5. \A x, y \in AllRows : x.id = y.id => x = y
  BY RowsAreStored
<1> HIDE DEF places, of
<1>6. id \in Injection(AllRows, places)
  BY <1>4, <1>5 DEF Injection, IsInjective
<1> HIDE DEF id
<1> QED BY <1>3, <1>6, FS_Injection

\* ORDER BY uploaded_at DESC lists runs from the newest on.
LEMMA NewestListsRuns ==
    ASSUME TablesInv, NEW rs \in SUBSET DOMAIN runs
    PROVE  /\ Lists(Newest(rs), rs)
           /\ \A m, n \in DOMAIN Newest(rs) : m < n => Newer(Newest(rs)[m], Newest(rs)[n])
<1> DEFINE R == {e \in rs \X rs : Newer(e[1], e[2])}
<1>1. IsFiniteSet(rs)
  BY RunsAreFinite, FS_Subset
<1>2. \A r, q \in rs : <<r, q>> \in R <=> runs[r].uploadedAt > runs[q].uploadedAt
  BY DEF Newer
<1>3. \A r, q : <<r, q>> \in R => Newer(r, q)
  OBVIOUS
<1>4. Newest(rs) = InOrder(rs, R)
  BY DEF Newest
<1> HIDE DEF R
<1>5. \A r \in rs : runs[r].uploadedAt \in Int
  <2>1. \A r \in rs : runs[r] \in Run
    BY DEF TablesInv, TablesTypeOK
  <2> QED BY <2>1, PagesAssumption DEF Run, Times
<1>6. \A r, q \in rs : runs[r].uploadedAt = runs[q].uploadedAt => r = q
  BY DEF TablesInv, UploadsAreApart
<1>7. StrictOrder(rs, R)
  <2>1. \A r \in rs : <<r, r>> \notin R
    BY <1>2, <1>5
  <2>2. \A r, q \in rs : r # q => <<r, q>> \in R \/ <<q, r>> \in R
    BY <1>2, <1>5, <1>6
  <2>3. \A r, q, s \in rs : <<r, q>> \in R /\ <<q, s>> \in R => <<r, s>> \in R
    BY <1>2, <1>5
  <2> QED BY <2>1, <2>2, <2>3 DEF StrictOrder
<1> QED BY <1>1, <1>3, <1>4, <1>7, InOrderIsSorted

LEMMA ResultsAreRows ==
    ASSUME TablesInv, NEW p, NEW b, NEW k
    PROVE  /\ ResultsOf(p, b, k) \subseteq AllRows
           /\ \A x \in AllRows :
                 x \in ResultsOf(p, b, k) <=> x.id[1] \in RunsOf(p, b) /\ x.key = k
<1>1. RunsOf(p, b) \subseteq DOMAIN runs
  BY RunsAreFinite DEF RunsOf
<1>2. ResultsOf(p, b, k) \subseteq AllRows
  BY <1>1 DEF ResultsOf, AllRows
<1>3. ASSUME NEW x \in ResultsOf(p, b, k) PROVE x.id[1] \in RunsOf(p, b) /\ x.key = k
  <2>1. PICK r \in RunsOf(p, b) : x \in ToSet(runs[r].rows)
    BY DEF ResultsOf
  <2>2. x.id[1] = r
    BY <1>1, <2>1, RowsOfRun
  <2> QED BY <2>2 DEF ResultsOf
<1>4. ASSUME NEW x \in AllRows, x.id[1] \in RunsOf(p, b), x.key = k PROVE x \in ResultsOf(p, b, k)
  <2>1. x.id[2] \in DOMAIN runs[x.id[1]].rows /\ x = runs[x.id[1]].rows[x.id[2]]
    BY RowsAreStored
  <2>2. x \in ToSet(runs[x.id[1]].rows)
    BY <2>1 DEF ToSet
  <2> QED BY <1>4, <2>2 DEF ResultsOf
<1> QED BY <1>2, <1>3, <1>4

\* Results of any tests, from those of the newest run on; those of one run as scan
\* has them.
LEMMA NewestRowsLists ==
    ASSUME TablesInv, NEW rows \in SUBSET AllRows, NEW scan \in Scans
    PROVE  /\ Lists(NewestRows(rows, scan), rows)
           /\ \A m, n \in DOMAIN NewestRows(rows, scan) :
                 m < n => NewerRow(NewestRows(rows, scan)[m], NewestRows(rows, scan)[n], scan)
<1> DEFINE R == {e \in rows \X rows : NewerRow(e[1], e[2], scan)}
<1>1. IsFiniteSet(rows)
  BY RowsAreFinite, FS_Subset
<1>2. \A x, y \in rows : <<x, y>> \in R <=> NewerRow(x, y, scan)
  OBVIOUS
<1>3. \A x, y : <<x, y>> \in R => NewerRow(x, y, scan)
  OBVIOUS
<1>4. NewestRows(rows, scan) = InOrder(rows, R)
  BY DEF NewestRows
<1> HIDE DEF R
<1> DEFINE time(x) == runs[x.id[1]].uploadedAt
<1>5. \A x \in rows : time(x) \in Int /\ x.id[2] \in Int
  <2>1. \A x \in rows : x.id[1] \in DOMAIN runs /\ x.id[2] \in Int
    BY RowsAreStored
  <2>2. \A r \in DOMAIN runs : runs[r] \in Run
    BY DEF TablesInv, TablesTypeOK
  <2> QED BY <2>1, <2>2, PagesAssumption DEF Run, Times
<1>6. \A x, y \in rows : x.id[1] = y.id[1] <=> time(x) = time(y)
  <2>1. \A x \in rows : x.id[1] \in DOMAIN runs
    BY RowsAreStored
  <2> QED BY <2>1 DEF TablesInv, UploadsAreApart
<1>7. \A x, y \in rows : x.id[1] = y.id[1] /\ x.id[2] = y.id[2] => x = y
  BY RowsAreStored
<1>8. \A x, y \in rows : <<x, y>> \in R <=>
         \/ time(x) > time(y)
         \/ time(x) = time(y) /\ (IF scan = "forwards" THEN x.id[2] < y.id[2] ELSE x.id[2] > y.id[2])
  BY <1>2, <1>6 DEF NewerRow, Newer
<1> HIDE DEF time
<1>9. StrictOrder(rows, R)
  <2>1. \A x \in rows : <<x, x>> \notin R
    BY <1>5, <1>8
  <2>2. ASSUME NEW x \in rows, NEW y \in rows, x # y PROVE <<x, y>> \in R \/ <<y, x>> \in R
    <3>1. time(x) # time(y) \/ x.id[2] # y.id[2]
      BY <1>6, <1>7, <2>2
    <3> QED BY <1>5, <1>8, <3>1
  <2>3. ASSUME NEW x \in rows, NEW y \in rows, NEW z \in rows, <<x, y>> \in R, <<y, z>> \in R
        PROVE  <<x, z>> \in R
    BY <1>5, <1>8, <2>3
  <2> QED BY <2>1, <2>2, <2>3 DEF StrictOrder
<1> QED BY <1>1, <1>3, <1>4, <1>9, InOrderIsSorted

\* The same from those of the oldest run on.
LEMMA OldestRowsLists ==
    ASSUME TablesInv, NEW rows \in SUBSET AllRows, NEW scan \in Scans
    PROVE  /\ Lists(OldestRows(rows, scan), rows)
           /\ \A m, n \in DOMAIN OldestRows(rows, scan) :
                 m < n => NewerRow(OldestRows(rows, scan)[n], OldestRows(rows, scan)[m], scan)
<1> DEFINE seq == NewestRows(rows, scan)
           old == OldestRows(rows, scan)
<1>1. /\ Lists(seq, rows)
      /\ \A m, n \in DOMAIN seq : m < n => NewerRow(seq[m], seq[n], scan)
  BY NewestRowsLists
<1>2. old = [i \in 1 .. Len(seq) |-> seq[(Len(seq) - i) + 1]]
  BY DEF OldestRows, Reverse
<1> HIDE DEF seq, old
<1>3. seq \in Seq(rows)
  BY <1>1 DEF Lists
<1>4. Len(seq) \in Nat /\ DOMAIN seq = 1 .. Len(seq)
  BY <1>3
<1>5. DOMAIN old = DOMAIN seq /\ old \in Seq(rows)
  BY <1>2, <1>3, <1>4
<1>6. \A i \in DOMAIN seq : Len(seq) - i + 1 \in DOMAIN seq /\ old[i] = seq[Len(seq) - i + 1]
  BY <1>2, <1>4
<1>7. \A x \in rows : \E n \in DOMAIN old : old[n] = x
  <2> SUFFICES ASSUME NEW x \in rows PROVE \E n \in DOMAIN old : old[n] = x
    OBVIOUS
  <2>1. PICK m \in DOMAIN seq : seq[m] = x
    BY <1>1 DEF Lists
  <2>2. PICK n \in DOMAIN seq : Len(seq) - n + 1 = m
    <3>1. Len(seq) - m + 1 \in DOMAIN seq /\ Len(seq) - (Len(seq) - m + 1) + 1 = m
      BY <1>4
    <3> QED BY <3>1
  <2> QED BY <1>5, <1>6, <2>1, <2>2
<1>8. ASSUME NEW m \in DOMAIN old, NEW n \in DOMAIN old, old[m] = old[n] PROVE m = n
  <2>1. Len(seq) - m + 1 = Len(seq) - n + 1
    BY <1>1, <1>5, <1>6, <1>8 DEF Lists
  <2> QED BY <1>4, <1>5, <2>1
<1>9. ASSUME NEW m \in DOMAIN old, NEW n \in DOMAIN old, m < n
      PROVE  NewerRow(old[n], old[m], scan)
  <2>1. Len(seq) - n + 1 < Len(seq) - m + 1
    BY <1>4, <1>5, <1>9
  <2> QED BY <1>1, <1>5, <1>6, <2>1
<1>10. Lists(old, rows)
  BY <1>5, <1>7, <1>8 DEF Lists
<1> QED BY <1>9, <1>10 DEF old

LEMMA RowTypes ==
    ASSUME NEW x \in Rows
    PROVE  /\ x.key \in Int /\ x.status \in Verdicts
           /\ x.millis \in Int /\ x.suite \in Int
<1>1. /\ x.key \in Keys \cup {0} /\ x.status \in Verdicts
      /\ x.millis \in Nat /\ x.suite \in Nat
  BY DEF Rows
<1>2. \A k \in Keys : k \in Int
  BY AnalyticsAssumption
<1>3. x.key \in Int
  <2>1. CASE x.key = 0
    BY <2>1
  <2>2. CASE x.key \in Keys
    BY <1>2, <2>2
  <2> QED BY <1>1, <2>1, <2>2
<1> QED BY <1>1, <1>3

\* The listing of a stored run has its results, apart from those without a key.
LEMMA ListingIsWhole ==
    ASSUME TablesInv, NEW r \in live
    PROVE  Lists(ListRunResults(r), {row \in ToSet(runs[r].rows) : row.key # 0})
<1> DEFINE all == runs[r].rows
           I == {i \in DOMAIN all : all[i].key # 0}
           S == {row \in ToSet(all) : row.key # 0}
           rows == Select(all, I)
           number == [i \in DOMAIN rows |-> TextRank[rows[i].status]]
<1>1. r \in DOMAIN runs
  BY RunsAreFinite
<1>2. all \in Seq(Rows) /\ Lists(all, ToSet(all))
  BY <1>1, RowsOfRun
<1>3. ListRunResults(r) = Arranged(rows, number)
  BY DEF ListRunResults
<1>4. \A x \in Rows : x.key \in Int /\ x.status \in Verdicts
  BY RowTypes
<1>5. ToSet(all) \subseteq Rows
  BY <1>2 DEF ToSet
<1>6. {all[i] : i \in I} = S
  BY DEF ToSet
<1>7. I \in SUBSET DOMAIN all
  OBVIOUS
<1> HIDE DEF I, S, all
<1>8. Lists(rows, S)
  <2>1. PICK at : /\ Lists(at, I)
                  /\ Select(all, I) = [n \in DOMAIN at |-> all[at[n]]]
    BY <1>2, <1>7, SelectLists
  <2>2. Lists(rows, {all[i] : i \in I})
    BY <1>2, <1>7, <2>1, ListOfPlaces
  <2> QED BY <1>6, <2>2
<1> HIDE DEF rows
<1>9. \A i \in DOMAIN rows : number[i] \in Int /\ rows[i].key \in Int
  <2>1. rows \in Seq(S) /\ S \subseteq Rows
    BY <1>5, <1>8 DEF Lists, S
  <2>2. \A i \in DOMAIN rows : rows[i] \in Rows
    BY <2>1
  <2> QED BY <1>4, <2>2 DEF TextRank, Verdicts
<1> HIDE DEF number
<1> QED BY <1>3, <1>8, <1>9, ArrangedLists DEF S, all

\* sortRunResults loses no result.
LEMMA SortingKeepsResults ==
    ASSUME NEW S \in SUBSET Rows, NEW rows, Lists(rows, S), NEW sort
    PROVE  Lists(SortRunResults(rows, sort), S)
<1> DEFINE number == [i \in DOMAIN rows |->
                        CASE sort = "name" -> 0
                          [] sort = "status" -> StatusRank[rows[i].status]
                          [] sort = "slowest" -> -rows[i].millis
                          [] OTHER -> rows[i].suite]
<1>1. SortRunResults(rows, sort) = Arranged(rows, number)
  BY DEF SortRunResults
<1>2. \A x \in Rows : x.key \in Int /\ x.status \in Verdicts /\ x.millis \in Int /\ x.suite \in Int
  BY RowTypes
<1>3. \A i \in DOMAIN rows : rows[i] \in Rows
  BY DEF Lists
<1>4. \A i \in DOMAIN rows : StatusRank[rows[i].status] \in Int
  BY <1>2, <1>3 DEF StatusRank, Verdicts
<1>5. \A i \in DOMAIN rows : number[i] \in Int /\ rows[i].key \in Int
  BY <1>2, <1>3, <1>4
<1> HIDE DEF number
<1> QED BY <1>1, <1>5, ArrangedLists

-----------------------------------------------------------------------------
(* The request.                                                            *)

\* The fields of a request, and the queries that each page comes to.
Fields == {"page", "next", "project", "branch", "run", "key", "sort", "runs", "failing",
           "flaky", "slowest", "rows", "recent", "groups"}

StageOK ==
    \/ visit.page = "none" /\ visit.next \in {"none", "failed"}
    \/ visit.page = "dashboard" /\ visit.next \in {"runs", "failing", "flaky", "slowest", "answered"}
    \/ visit.page \in {"runs", "summary"} /\ visit.next \in {"runs", "answered"}
    \/ visit.page = "run" /\ visit.next \in {"run", "results", "recent", "answered"}
    \/ visit.page = "runAPI" /\ visit.next \in {"run", "results", "answered"}
    \/ visit.page = "test" /\ visit.next \in {"history", "answered"}
    \/ visit.page = "chart" /\ visit.next \in {"chart", "answered"}

VisitTypeOK ==
    /\ DOMAIN visit = Fields
    /\ visit.project \in Ids \cup {NoProject}
    /\ visit.runs \in Seq(DOMAIN runs)
    /\ visit.rows \in Seq(AllRows)
    /\ visit.groups \in Seq(Seq(Rows))

\* GetRun has checked that the run is one of the project.
RunIsFound ==
    (visit.page \in {"run", "runAPI"} /\ visit.next \in {"results", "recent", "answered"}) =>
        /\ visit.run \in DOMAIN runs
        /\ visit.project = runs[visit.run].project
        /\ visit.branch = runs[visit.run].branch

Keyed(r) == {row \in ToSet(runs[r].rows) : row.key # 0}

RunIsListed ==
    (visit.page = "run" /\ visit.next = "recent") =>
        \/ Lists(visit.rows, Keyed(visit.run))
        \/ visit.rows = <<>> /\ visit.run \notin live

ListingIsOnBranch ==
    visit.page = "dashboard" =>
        \A i \in DOMAIN visit.runs : OnBranch(visit.runs[i], visit.branch)

FailuresAreNamed ==
    \A k \in Keys :
        LET enough(item) == item.count >= Cardinality(ListedFailures(k)) IN
        ListedFailures(k) # {} =>
            \/ \E i \in DOMAIN visit.failing :
                  visit.failing[i].key = k /\ enough(visit.failing[i])
            \/ /\ Len(visit.failing) = TopLimit
               /\ \A i \in DOMAIN visit.failing : enough(visit.failing[i])

DashboardAgrees ==
    (visit.page = "dashboard" /\ visit.next \in {"flaky", "slowest", "answered"}) =>
        FailuresAreNamed

FailingAreCounted == \A i \in DOMAIN visit.failing : visit.failing[i].count \in Nat

VisitInv ==
    /\ VisitTypeOK /\ StageOK
    /\ FailingAreCounted
    /\ NothingForeignIsShown
    /\ RunIsFound /\ RunIsListed
    /\ ListingIsOnBranch /\ DashboardAgrees
    /\ RunPageIsWhole
    /\ OwnStatusIsRecent

LEMMA ResultsStayFinite ==
    /\ TablesInv => IsFiniteSet(AllRows)
    /\ TablesInv' => IsFiniteSet(AllRows')
<1>1. TablesInv => IsFiniteSet(AllRows)
  BY RowsAreFinite
<1>2. (TablesInv => IsFiniteSet(AllRows))'
  BY <1>1, PTL
<1> QED BY <1>1, <1>2

\* What others do to the tables while a request is handled: runs come, and runs
\* go, but none before all runs of its project that are older have gone.
TablesMoveOn ==
    /\ DOMAIN runs \subseteq DOMAIN runs'
    /\ \A r \in DOMAIN runs : runs'[r] = runs[r]
    /\ live' \cap DOMAIN runs \subseteq live
    /\ \A r \in live \cap live' : \A q \in live :
          (/\ runs[q].project = runs[r].project
           /\ runs[q].uploadedAt >= runs[r].uploadedAt) => q \in live'

LEMMA OthersMoveOn ==
    ASSUME TablesInv, Others
    PROVE  TablesMoveOn /\ UNCHANGED <<visit, latest>>
<1>1. live \subseteq DOMAIN runs
  BY RunsAreFinite
<1>2. \A r \in live : runs[r].uploadedAt \in Int
  <2>1. \A r \in live : runs[r] \in Run
    BY <1>1 DEF TablesInv, TablesTypeOK
  <2> QED BY <2>1, PagesAssumption DEF Run, Times
<1>3. ASSUME NEW s \in Slugs, CreateProject(s) PROVE TablesMoveOn /\ UNCHANGED <<visit, latest>>
  BY <1>1, <1>3 DEF CreateProject, TablesMoveOn
<1>4. ASSUME NEW p \in Ids, DeleteProject(p) PROVE TablesMoveOn /\ UNCHANGED <<visit, latest>>
  BY <1>1, <1>4 DEF DeleteProject, RunsLeft, TablesMoveOn
<1>5. ASSUME NEW p \in Ids, NEW b \in Branches, NEW t \in Times, NEW rows \in Reports,
             CreateRun(p, b, t, rows)
      PROVE  TablesMoveOn /\ UNCHANGED <<visit, latest>>
  <2> DEFINE r == Len(runs) + 1
  <2>1. live' = live \cup {r} /\ UNCHANGED <<visit, latest>>
    BY <1>5 DEF CreateRun
  <2>2. /\ DOMAIN runs' = DOMAIN runs \cup {r}
        /\ r \notin DOMAIN runs
        /\ \A q \in DOMAIN runs : runs'[q] = runs[q]
    BY <1>5, CreateRunAppends DEF TablesInv
  <2> HIDE DEF r
  <2> QED BY <1>1, <2>1, <2>2 DEF TablesMoveOn
<1>6. ASSUME NEW cutoff \in Times, PruneRuns(cutoff) PROVE TablesMoveOn /\ UNCHANGED <<visit, latest>>
  <2>1. /\ live' = {r \in live : runs[r].uploadedAt >= cutoff}
        /\ UNCHANGED <<runs, visit, latest>>
    BY <1>6 DEF PruneRuns
  <2>2. cutoff \in Int
    BY PagesAssumption DEF Times
  <2>3. ASSUME NEW r \in live \cap live', NEW q \in live, runs[q].uploadedAt >= runs[r].uploadedAt
        PROVE  q \in live'
    BY <1>2, <2>1, <2>2, <2>3
  <2> QED BY <2>1, <2>3 DEF TablesMoveOn
<1> QED BY <1>3, <1>4, <1>5, <1>6 DEF Others

\* What has been read and shown stays right while the tables move on.
LEMMA VisitInvWaits ==
    ASSUME TablesInv, TablesInv', VisitInv, TablesMoveOn, visit' = visit
    PROVE  VisitInv'
<1>1. visit' = visit /\ TablesMoveOn
  OBVIOUS
<1>2. /\ DOMAIN runs \subseteq DOMAIN runs'
      /\ \A r \in DOMAIN runs : runs'[r] = runs[r]
      /\ \A r \in DOMAIN runs : r \in live' => r \in live
  BY <1>1 DEF TablesMoveOn
<1>3. live \subseteq DOMAIN runs
  BY RunsAreFinite
<1>4. AllRows \subseteq AllRows'
  BY <1>2 DEF AllRows
<1>5. \A x \in AllRows : x.id[1] \in DOMAIN runs
  BY RowsAreStored
<1>6. /\ \A i \in DOMAIN visit.runs : visit.runs[i] \in DOMAIN runs
      /\ \A i \in DOMAIN visit.rows : visit.rows[i] \in AllRows
  BY DEF VisitInv, VisitTypeOK
<1>7. VisitTypeOK' /\ StageOK' /\ FailingAreCounted'
  <2>1. visit.runs \in Seq(DOMAIN runs') /\ visit.rows \in Seq(AllRows')
    BY <1>2, <1>4 DEF VisitInv, VisitTypeOK
  <2> QED BY <1>1, <2>1 DEF VisitInv, VisitTypeOK, StageOK, FailingAreCounted
<1>8. NothingForeignIsShown'
  BY <1>1, <1>2, <1>5, <1>6 DEF VisitInv, NothingForeignIsShown
<1>9. RunIsFound'
  BY <1>1, <1>2 DEF VisitInv, RunIsFound
<1>10. visit.run \in DOMAIN runs => Keyed(visit.run)' = Keyed(visit.run)
  BY <1>1, <1>2 DEF Keyed
<1>11. RunIsListed'
  <2> SUFFICES ASSUME visit.page = "run", visit.next = "recent"
               PROVE  \/ Lists(visit.rows, Keyed(visit.run)')
                      \/ visit.rows = <<>> /\ visit.run \notin live'
    BY <1>1 DEF RunIsListed
  <2>1. visit.run \in DOMAIN runs
    BY DEF VisitInv, RunIsFound
  <2>2. \/ Lists(visit.rows, Keyed(visit.run))
        \/ visit.rows = <<>> /\ visit.run \notin live
    BY DEF VisitInv, RunIsListed
  <2>3. visit.run \notin live => visit.run \notin live'
    BY <1>2, <2>1
  <2>4. Keyed(visit.run)' = Keyed(visit.run)
    BY <1>10, <2>1
  <2> QED BY <2>2, <2>3, <2>4
<1>12. ListingIsOnBranch'
  BY <1>1, <1>2, <1>6 DEF VisitInv, ListingIsOnBranch, OnBranch
<1>13. DashboardAgrees'
  <2>1. \A k : ListedFailures(k)' \subseteq ListedFailures(k)
    <3> SUFFICES ASSUME NEW k, NEW x \in ListedFailures(k)' PROVE x \in ListedFailures(k)
      OBVIOUS
    <3>1. PICK r \in live' \cap ToSet(visit.runs) : x \in ToSet(runs'[r].rows)
      BY <1>1 DEF ListedFailures
    <3>2. r \in DOMAIN runs
      BY <1>6 DEF ToSet
    <3>3. r \in live /\ x \in ToSet(runs[r].rows)
      BY <1>2, <3>1, <3>2
    <3> QED BY <3>1, <3>3 DEF ListedFailures
  <2>2. \A k : IsFiniteSet(ListedFailures(k))
    <3>1. \A k : ListedFailures(k) \in SUBSET AllRows
      BY <1>3 DEF ListedFailures, AllRows
    <3> QED BY <3>1, RowsAreFinite, FS_Subset
  <2>3. \A k : /\ Cardinality(ListedFailures(k)') <= Cardinality(ListedFailures(k))
               /\ Cardinality(ListedFailures(k)') \in Int
               /\ Cardinality(ListedFailures(k)) \in Int
    BY <2>1, <2>2, FS_Subset, FS_CardinalityType
  <2> SUFFICES ASSUME visit.page = "dashboard", visit.next \in {"flaky", "slowest", "answered"},
                      NEW k \in Keys, ListedFailures(k)' # {}
               PROVE  LET enough(item) == item.count >= Cardinality(ListedFailures(k)') IN
                      \/ \E i \in DOMAIN visit.failing :
                            visit.failing[i].key = k /\ enough(visit.failing[i])
                      \/ /\ Len(visit.failing) = TopLimit
                         /\ \A i \in DOMAIN visit.failing : enough(visit.failing[i])
    BY <1>1 DEF DashboardAgrees, FailuresAreNamed
  <2> DEFINE old == Cardinality(ListedFailures(k))
             new == Cardinality(ListedFailures(k)')
  <2>4. \/ \E i \in DOMAIN visit.failing : visit.failing[i].key = k /\ visit.failing[i].count >= old
        \/ /\ Len(visit.failing) = TopLimit
           /\ \A i \in DOMAIN visit.failing : visit.failing[i].count >= old
    BY <2>1 DEF VisitInv, DashboardAgrees, FailuresAreNamed
  <2>5. new <= old /\ new \in Int /\ old \in Int
    BY <2>3
  <2>6. \A i \in DOMAIN visit.failing : visit.failing[i].count \in Int
    BY DEF VisitInv, FailingAreCounted
  <2> HIDE DEF old, new
  <2>7. \A i \in DOMAIN visit.failing : visit.failing[i].count >= old => visit.failing[i].count >= new
    BY <2>5, <2>6
  <2> QED BY <2>4, <2>7 DEF new
<1>14. RunPageIsWhole'
  <2> SUFFICES ASSUME Answered("run") PROVE RunPageIsWhole'
    BY <1>1 DEF RunPageIsWhole, Answered
  <2>1. visit.run \in DOMAIN runs
    BY DEF VisitInv, RunIsFound, Answered
  <2>2. Places' = Places /\ Shown' = Shown /\ \A place : At(place)' = At(place)
    BY <1>1 DEF Places, Shown, At
  <2> QED BY <1>1, <1>2, <2>1, <2>2 DEF VisitInv, RunPageIsWhole
<1>15. OwnStatusIsRecent'
  <2> SUFFICES ASSUME Answered("run"), visit.run \in live', NEW row \in Shown
               PROVE  \/ row.status \in ToSet(visit.recent[row.key])
                      \/ Cardinality(NotOlder(visit.run, row.key)' \ {row}) >= RecentLimit
    BY <1>1 DEF OwnStatusIsRecent, Answered, Shown, Places, At
  <2> DEFINE r == visit.run
             old == NotOlder(r, row.key) \ {row}
             new == NotOlder(r, row.key)' \ {row}
  <2>1. r \in DOMAIN runs /\ r \in live
    BY <1>2 DEF VisitInv, RunIsFound, Answered
  <2>2. \/ row.status \in ToSet(visit.recent[row.key])
        \/ Cardinality(old) >= RecentLimit
    BY <2>1 DEF VisitInv, OwnStatusIsRecent
  <2>3. old \subseteq new
    <3> SUFFICES ASSUME NEW x \in NotOlder(r, row.key) PROVE x \in NotOlder(r, row.key)'
      OBVIOUS
    <3>1. /\ x \in ResultsOf(runs[r].project, runs[r].branch, row.key)
          /\ runs[x.id[1]].uploadedAt >= runs[r].uploadedAt
      BY DEF NotOlder
    <3>2. PICK q \in RunsOf(runs[r].project, runs[r].branch) : x \in ToSet(runs[q].rows)
      BY <3>1 DEF ResultsOf
    <3>3. q \in live /\ runs[q].project = runs[r].project /\ OnBranch(q, runs[r].branch)
      BY <3>2 DEF RunsOf
    <3>4. x.id[1] = q
      BY <1>3, <3>2, <3>3, RowsOfRun
    <3>5. q \in live'
      BY <1>1, <2>1, <3>1, <3>3, <3>4 DEF TablesMoveOn
    <3>6. runs'[q] = runs[q] /\ runs'[r] = runs[r]
      BY <1>2, <1>3, <2>1, <3>3
    <3>7. q \in RunsOf(runs[r].project, runs[r].branch)'
      BY <1>1, <3>3, <3>5, <3>6 DEF RunsOf, OnBranch
    <3>8. x \in ResultsOf(runs[r].project, runs[r].branch, row.key)'
      BY <3>1, <3>2, <3>6, <3>7 DEF ResultsOf
    <3>9. runs'[x.id[1]].uploadedAt >= runs'[r].uploadedAt
      BY <3>1, <3>4, <3>6
    <3> QED BY <1>1, <3>8, <3>9 DEF NotOlder
  <2>4. IsFiniteSet(new)
    <3>1. live' \subseteq DOMAIN runs'
      BY DEF TablesInv, TablesTypeOK
    <3>2. new \in SUBSET AllRows'
      BY <3>1 DEF NotOlder, ResultsOf, RunsOf, AllRows
    <3> QED BY <3>2, ResultsStayFinite, FS_Subset
  <2>5. /\ Cardinality(old) <= Cardinality(new)
        /\ Cardinality(old) \in Int /\ Cardinality(new) \in Int
    BY <2>3, <2>4, FS_Subset, FS_CardinalityType
  <2> HIDE DEF old, new
  <2>6. RecentLimit \in Int
    BY AnalyticsAssumption
  <2>7. Cardinality(old) >= RecentLimit => Cardinality(new) >= RecentLimit
    BY <2>5, <2>6
  <2> QED BY <2>2, <2>7 DEF new
<1> QED BY <1>7, <1>8, <1>9, <1>11, <1>12, <1>13, <1>14, <1>15 DEF VisitInv

\* The order of the queries, one by one.
LEMMA QueriesInOrder ==
    /\ After["dashboard"]["project"] = "runs" /\ After["dashboard"]["runs"] = "failing"
    /\ After["dashboard"]["failing"] = "flaky" /\ After["dashboard"]["flaky"] = "slowest"
    /\ After["dashboard"]["slowest"] = "answered"
    /\ After["runs"]["project"] = "runs" /\ After["runs"]["runs"] = "answered"
    /\ After["summary"]["project"] = "runs" /\ After["summary"]["runs"] = "answered"
    /\ After["run"]["project"] = "run" /\ After["run"]["run"] = "results"
    /\ After["run"]["results"] = "recent" /\ After["run"]["recent"] = "answered"
    /\ After["runAPI"]["project"] = "run" /\ After["runAPI"]["run"] = "results"
    /\ After["runAPI"]["results"] = "answered"
    /\ After["test"]["project"] = "history" /\ After["test"]["history"] = "answered"
    /\ After["chart"]["project"] = "chart" /\ After["chart"]["chart"] = "answered"
BY DEF After

Pages == {"dashboard", "runs", "summary", "run", "runAPI", "test", "chart"}

LEMMA UrlsNamePages == \A url \in Urls : url.page \in Pages
BY DEF Urls, Listings, Pages

LEMMA BlankFields ==
    /\ DOMAIN Blank = Fields
    /\ Blank.page = "none" /\ Blank.next = "none" /\ Blank.project = NoProject
    /\ Blank.runs = <<>> /\ Blank.rows = <<>> /\ Blank.groups = <<>> /\ Blank.failing = <<>>
BY DEF Blank, Fields

\* A request that has read nothing yet.
LEMMA FreshVisit ==
    ASSUME DOMAIN visit' = Fields,
           visit'.project \in Ids \cup {NoProject},
           visit'.runs = <<>>, visit'.rows = <<>>, visit'.groups = <<>>, visit'.failing = <<>>,
           StageOK',
           visit'.next \in {"none", "failed", "runs", "run", "history", "chart"}
    PROVE  VisitInv'
<1>1. VisitTypeOK'
  BY DEF VisitTypeOK
<1>2. NothingForeignIsShown' /\ ListingIsOnBranch' /\ FailingAreCounted'
  BY DEF NothingForeignIsShown, ListingIsOnBranch, FailingAreCounted
<1>3. RunIsFound' /\ RunIsListed' /\ DashboardAgrees'
  BY DEF RunIsFound, RunIsListed, DashboardAgrees
<1>4. RunPageIsWhole' /\ OwnStatusIsRecent'
  BY DEF RunPageIsWhole, OwnStatusIsRecent, Answered
<1> QED BY <1>1, <1>2, <1>3, <1>4 DEF VisitInv

LEMMA VisitInvEnds ==
    ASSUME visit' = Blank \/ visit' = [Blank EXCEPT !.next = "failed"]
    PROVE  VisitInv'
<1>1. /\ DOMAIN visit' = Fields
      /\ visit'.page = "none" /\ visit'.next \in {"none", "failed"} /\ visit'.project = NoProject
      /\ visit'.runs = <<>> /\ visit'.rows = <<>> /\ visit'.groups = <<>> /\ visit'.failing = <<>>
  BY BlankFields DEF Fields
<1>2. StageOK'
  BY <1>1 DEF StageOK
<1> QED BY <1>1, <1>2, FreshVisit

LEMMA VisitInvOpen ==
    ASSUME TablesInv, Open
    PROVE  VisitInv'
<1>1. PICK url \in Urls :
         LET found == {p \in projects : slugOf[p] = url.slug} IN
         visit' = IF found = {} THEN [Blank EXCEPT !.next = "failed"]
                  ELSE [Blank EXCEPT
                          !.page = url.page,
                          !.next = After[url.page].project,
                          !.project = CHOOSE p \in found : TRUE,
                          !.branch = url.branch,
                          !.run = url.run,
                          !.key = url.key,
                          !.sort = url.sort]
  BY DEF Open
<1> DEFINE found == {p \in projects : slugOf[p] = url.slug}
           chosen == CHOOSE p \in found : TRUE
<1>2. CASE found = {}
  BY <1>1, <1>2, VisitInvEnds
<1>3. CASE found # {}
  <2>1. chosen \in projects
    BY <1>3
  <2>2. projects \subseteq Ids
    BY DEF TablesInv, TablesTypeOK
  <2>3. visit' = [Blank EXCEPT !.page = url.page,
                               !.next = After[url.page].project,
                               !.project = chosen,
                               !.branch = url.branch,
                               !.run = url.run,
                               !.key = url.key,
                               !.sort = url.sort]
    BY <1>1, <1>3
  <2> HIDE DEF chosen
  <2>4. /\ DOMAIN visit' = Fields
        /\ visit'.page = url.page /\ visit'.next = After[url.page]["project"]
        /\ visit'.project = chosen
        /\ visit'.runs = <<>> /\ visit'.rows = <<>> /\ visit'.groups = <<>> /\ visit'.failing = <<>>
    BY <2>3, BlankFields DEF Fields
  <2>5. url.page \in Pages
    BY UrlsNamePages
  <2>6. StageOK' /\ visit'.next \in {"runs", "run", "history", "chart"}
    BY <2>4, <2>5, QueriesInOrder DEF Pages, StageOK
  <2> QED BY <2>1, <2>2, <2>4, <2>6, FreshVisit
<1> QED BY <1>2, <1>3

\* A query that is neither the last of a run page nor one that reads its run.
LEMMA OtherQueries ==
    ASSUME VisitInv, UNCHANGED runs, StageOK', VisitTypeOK', FailingAreCounted',
           NothingForeignIsShown', ListingIsOnBranch', DashboardAgrees',
           visit'.page \notin {"run", "runAPI"}
    PROVE  VisitInv'
BY DEF VisitInv, RunIsFound, RunIsListed, RunPageIsWhole, OwnStatusIsRecent, Answered

LEMMA VisitInvListRuns ==
    ASSUME TablesInv, VisitInv, ListRuns
    PROVE  VisitInv'
<1> DEFINE rs == RunsOf(visit.project, visit.branch)
           listed == FirstOf(Newest(rs), ListLimit)
           shown == IF visit.page = "summary" THEN Reverse(listed) ELSE listed
<1>1. /\ visit.next = "runs" /\ UNCHANGED <<runs, live>>
      /\ visit' = Go("runs", [visit EXCEPT !.runs = shown])
  BY DEF ListRuns, Reads
<1>2. rs \in SUBSET DOMAIN runs
  BY RunsAreFinite DEF RunsOf
<1>3. \A r \in rs : runs[r].project = visit.project /\ OnBranch(r, visit.branch)
  BY DEF RunsOf
<1> HIDE DEF rs
<1>4. Newest(rs) \in Seq(rs)
  BY <1>2, NewestListsRuns DEF Lists
<1>5. listed \in Seq(rs)
  BY <1>4, PagesAssumption, FirstOfIsPrefix
<1> HIDE DEF listed
<1>6. shown \in Seq(rs)
  BY <1>5 DEF Reverse
<1> HIDE DEF shown
<1>7. \A i \in DOMAIN shown : shown[i] \in rs
  BY <1>6
<1>8. visit.page \in {"dashboard", "runs", "summary"}
  BY <1>1 DEF VisitInv, StageOK
<1>9. /\ DOMAIN visit' = Fields
      /\ visit'.page = visit.page /\ visit'.next = After[visit.page]["runs"]
      /\ visit'.project = visit.project /\ visit'.branch = visit.branch
      /\ visit'.runs = shown /\ visit'.rows = visit.rows /\ visit'.groups = visit.groups
      /\ visit'.failing = visit.failing
  BY <1>1 DEF VisitInv, VisitTypeOK, Fields, Go
<1>10. StageOK' /\ visit'.next \in {"failing", "answered"} /\ (visit'.page = "dashboard" => visit'.next = "failing")
  BY <1>8, <1>9, QueriesInOrder DEF StageOK
<1>11. VisitTypeOK'
  <2>1. shown \in Seq(DOMAIN runs)
    BY <1>2, <1>6
  <2> QED BY <1>1, <1>9, <2>1 DEF VisitInv, VisitTypeOK, AllRows
<1>12. NothingForeignIsShown' /\ ListingIsOnBranch' /\ FailingAreCounted'
  BY <1>1, <1>3, <1>7, <1>9
  DEF VisitInv, NothingForeignIsShown, ListingIsOnBranch, OnBranch, FailingAreCounted
<1>13. DashboardAgrees'
  BY <1>10 DEF DashboardAgrees
<1> QED BY <1>1, <1>8, <1>9, <1>10, <1>11, <1>12, <1>13, OtherQueries

\* GetFlakyTests and GetSlowestTests change nothing of what is already read.
LEMMA VisitInvReadMore ==
    ASSUME TablesInv, VisitInv, ReadFlaky \/ ReadSlowest
    PROVE  VisitInv'
<1>1. /\ visit.next \in {"flaky", "slowest"} /\ UNCHANGED <<runs, live>>
  BY DEF ReadFlaky, ReadSlowest, Reads
<1>2. visit.page = "dashboard"
  BY <1>1 DEF VisitInv, StageOK
<1>3. /\ DOMAIN visit' = Fields
      /\ visit'.page = visit.page /\ visit'.next = After[visit.page][visit.next]
      /\ visit'.project = visit.project /\ visit'.branch = visit.branch
      /\ visit'.runs = visit.runs /\ visit'.rows = visit.rows /\ visit'.groups = visit.groups
      /\ visit'.failing = visit.failing
  <2>1. CASE ReadFlaky
    <3>1. PICK more : visit' = Go("flaky", [visit EXCEPT !.flaky = more]) /\ visit.next = "flaky"
      BY <2>1 DEF ReadFlaky, Reads
    <3> QED BY <3>1 DEF VisitInv, VisitTypeOK, Fields, Go
  <2>2. CASE ReadSlowest
    <3>1. PICK more : visit' = Go("slowest", [visit EXCEPT !.slowest = more]) /\ visit.next = "slowest"
      BY <2>2 DEF ReadSlowest, Reads
    <3> QED BY <3>1 DEF VisitInv, VisitTypeOK, Fields, Go
  <2> QED BY <2>1, <2>2
<1>4. StageOK' /\ visit'.next \in {"slowest", "answered"}
  BY <1>1, <1>2, <1>3, QueriesInOrder DEF StageOK
<1>5. VisitTypeOK'
  BY <1>1, <1>3 DEF VisitInv, VisitTypeOK, AllRows
<1>6. NothingForeignIsShown' /\ ListingIsOnBranch' /\ FailingAreCounted'
  BY <1>1, <1>3 DEF VisitInv, NothingForeignIsShown, ListingIsOnBranch, OnBranch, FailingAreCounted
<1>7. DashboardAgrees'
  <2>1. FailuresAreNamed
    BY <1>1, <1>2 DEF VisitInv, DashboardAgrees
  <2>2. \A k \in Keys : ListedFailures(k)' = ListedFailures(k)
    BY <1>1, <1>3 DEF ListedFailures
  <2>3. FailuresAreNamed'
    BY <1>3, <2>1, <2>2 DEF FailuresAreNamed
  <2> QED BY <2>3 DEF DashboardAgrees
<1> QED BY <1>1, <1>2, <1>3, <1>4, <1>5, <1>6, <1>7, OtherQueries

-----------------------------------------------------------------------------
(* The first ones of a list, and the failures of a dashboard.              *)

\* A place of a list that is none of its prefix.
LEMMA BeyondAPrefix ==
    ASSUME NEW a \in Nat, NEW b \in Nat, NEW m, m \in 1 .. b, m \notin 1 .. a
    PROVE  m > a /\ a < b
OBVIOUS

\* What a limit cuts off comes after all that it leaves, and these are as many as the
\* limit.
LEMMA FirstOfList ==
    ASSUME NEW S, NEW seq, Lists(seq, S), NEW limit \in Nat
    PROVE  LET list == FirstOf(seq, limit) IN
           /\ list \in Seq(S)
           /\ DOMAIN list = 1 .. Len(list) /\ Len(list) \in Nat /\ Len(list) <= limit
           /\ \A n \in DOMAIN list : n \in DOMAIN seq /\ list[n] = seq[n]
           /\ \A m, n \in DOMAIN list : list[m] = list[n] => m = n
           /\ \A x \in S : \/ \E n \in DOMAIN list : list[n] = x
                           \/ /\ Len(list) = limit
                              /\ \E m \in DOMAIN seq : seq[m] = x /\ \A n \in DOMAIN list : n < m
<1> DEFINE list == FirstOf(seq, limit)
           a == Len(list)
           b == Len(seq)
<1>2. /\ seq \in Seq(S)
      /\ \A x \in S : \E n \in DOMAIN seq : seq[n] = x
      /\ \A m, n \in DOMAIN seq : seq[m] = seq[n] => m = n
  BY DEF Lists
<1>3. /\ list \in Seq(S)
      /\ DOMAIN list = 1 .. a
      /\ a = IF limit < b THEN limit ELSE b
      /\ \A n \in DOMAIN list : n \in DOMAIN seq /\ list[n] = seq[n]
  BY <1>2, FirstOfIsPrefix
<1>4. b \in Nat /\ DOMAIN seq = 1 .. b
  BY <1>2
<1> HIDE DEF list, a, b
<1>5. /\ a \in Nat /\ a <= limit
      /\ a < b => a = limit
  <2>1. a = IF limit < b THEN limit ELSE b
    BY <1>3
  <2> QED BY <1>4, <2>1
<1>6. \A m, n \in DOMAIN list : list[m] = list[n] => m = n
  BY <1>2, <1>3
<1>7. ASSUME NEW x \in S, ~ \E n \in DOMAIN list : list[n] = x
      PROVE  /\ a = limit
             /\ \E m \in DOMAIN seq : seq[m] = x /\ \A n \in DOMAIN list : n < m
  <2>1. PICK m \in DOMAIN seq : seq[m] = x
    BY <1>2
  <2>2. m \notin DOMAIN list
    BY <1>3, <1>7, <2>1
  <2>3. m \in 1 .. b /\ m \notin 1 .. a
    BY <1>3, <1>4, <2>2
  <2>4. m > a /\ a < b
    BY <1>4, <1>5, <2>3, BeyondAPrefix
  <2>5. a = limit
    BY <1>5, <2>4
  <2>6. \A n \in 1 .. a : n < m
    BY <1>4, <1>5, <2>3, <2>4
  <2> QED BY <1>3, <2>1, <2>5, <2>6
<1> QED BY <1>3, <1>5, <1>6, <1>7 DEF list, a

\* The same of what a strict order has put into its order.
LEMMA FirstOnes ==
    ASSUME NEW S, IsFiniteSet(S), NEW R, StrictOrder(S, R), NEW limit \in Nat
    PROVE  LET list == FirstOf(InOrder(S, R), limit) IN
           /\ list \in Seq(S)
           /\ Len(list) <= limit
           /\ \A m, n \in DOMAIN list : list[m] = list[n] => m = n
           /\ \A x \in S : \/ \E n \in DOMAIN list : list[n] = x
                           \/ Len(list) = limit /\ \A n \in DOMAIN list : <<list[n], x>> \in R
<1> DEFINE seq == InOrder(S, R)
           list == FirstOf(seq, limit)
<1>1. /\ Lists(seq, S)
      /\ \A m, n \in DOMAIN seq : m < n => <<seq[m], seq[n]>> \in R
  BY InOrderIsSorted
<1> HIDE DEF seq
<1>2. /\ list \in Seq(S)
      /\ Len(list) <= limit
      /\ \A n \in DOMAIN list : n \in DOMAIN seq /\ list[n] = seq[n]
      /\ \A m, n \in DOMAIN list : list[m] = list[n] => m = n
      /\ \A x \in S : \/ \E n \in DOMAIN list : list[n] = x
                      \/ /\ Len(list) = limit
                         /\ \E m \in DOMAIN seq : seq[m] = x /\ \A n \in DOMAIN list : n < m
  BY <1>1, FirstOfList
<1> HIDE DEF list
<1>3. ASSUME NEW x \in S, ~ \E n \in DOMAIN list : list[n] = x
      PROVE  Len(list) = limit /\ \A n \in DOMAIN list : <<list[n], x>> \in R
  <2>1. PICK m \in DOMAIN seq : seq[m] = x /\ \A n \in DOMAIN list : n < m
    BY <1>2, <1>3
  <2> QED BY <1>1, <1>2, <1>3, <2>1
<1> QED BY <1>2, <1>3 DEF list, seq

LEMMA FailuresAreCounted ==
    ASSUME TablesInv, NEW p, NEW b, NEW k
    PROVE  /\ FailuresOf(p, b, k) \in Nat
           /\ IsFiniteSet({row \in ResultsOf(p, b, k) : row.status = "failed"})
<1>1. {row \in ResultsOf(p, b, k) : row.status = "failed"} \in SUBSET AllRows
  BY ResultsAreRows
<1>2. IsFiniteSet({row \in ResultsOf(p, b, k) : row.status = "failed"})
  BY <1>1, RowsAreFinite, FS_Subset
<1> QED BY <1>2, FS_CardinalityType DEF FailuresOf

\* A test that has failed is in the list of failing tests, or the list is full with
\* tests that have failed no less.
LEMMA TopFailingTests ==
    ASSUME TablesInv, NEW p, NEW b
    PROVE  LET list == GetTopFailingTests(p, b) IN
           /\ \A i \in DOMAIN list : list[i].count \in Nat
           /\ \A k \in Keys : FailuresOf(p, b, k) > 0 =>
                 \/ \E i \in DOMAIN list : list[i].key = k /\ list[i].count = FailuresOf(p, b, k)
                 \/ /\ Len(list) = TopLimit
                    /\ \A i \in DOMAIN list : list[i].count >= FailuresOf(p, b, k)
<1> DEFINE F(k) == FailuresOf(p, b, k)
           K == {l \in Keys : F(l) > 0}
           item == [k \in K |-> [key |-> k, count |-> F(k)]]
           failing == {[key |-> k, count |-> FailuresOf(p, b, k)] :
                          k \in {l \in Keys : FailuresOf(p, b, l) > 0}}
           R == {e \in failing \X failing : MoreFailures(e[1], e[2])}
           list == FirstOf(InOrder(failing, R), TopLimit)
<1>1. GetTopFailingTests(p, b) = list
  BY DEF GetTopFailingTests
<1>2. \A k : F(k) \in Nat
  BY FailuresAreCounted
<1>3. \A k \in Keys : k \in Int
  BY AnalyticsAssumption
<1> HIDE DEF F
<1>4. failing = {item[k] : k \in K}
  BY DEF F
<1>5. \A k \in K : item[k].key = k /\ item[k].count = F(k)
  OBVIOUS
<1> HIDE DEF item, failing
<1>6. IsFiniteSet(failing)
  <2>1. IsFiniteSet(K)
    BY AnalyticsAssumption, FS_Subset
  <2>2. item \in Surjection(K, failing)
    BY <1>4 DEF Surjection, item
  <2> QED BY <2>1, <2>2, FS_Surjection
<1>7. \A x \in failing : /\ x.key \in Keys /\ x.key \in Int /\ x.count = F(x.key) /\ x.count \in Nat
                         /\ x = item[x.key]
  BY <1>2, <1>3, <1>4, <1>5
<1>8. \A x, y \in failing : <<x, y>> \in R <=> MoreFailures(x, y)
  OBVIOUS
<1>9. \A x, y : <<x, y>> \in R => x.count > y.count \/ x.count = y.count
  BY DEF MoreFailures
<1> HIDE DEF R
<1>10. StrictOrder(failing, R)
  <2>1. \A x \in failing : <<x, x>> \notin R
    BY <1>7, <1>8 DEF MoreFailures
  <2>2. ASSUME NEW x \in failing, NEW y \in failing, x # y PROVE <<x, y>> \in R \/ <<y, x>> \in R
    <3>1. x.key # y.key
      BY <1>7, <2>2
    <3> QED BY <1>7, <1>8, <3>1 DEF MoreFailures
  <2>3. \A x, y, z \in failing : <<x, y>> \in R /\ <<y, z>> \in R => <<x, z>> \in R
    BY <1>7, <1>8 DEF MoreFailures
  <2> QED BY <2>1, <2>2, <2>3 DEF StrictOrder
<1>11. /\ list \in Seq(failing)
       /\ \A x \in failing :
             \/ \E n \in DOMAIN list : list[n] = x
             \/ Len(list) = TopLimit /\ \A n \in DOMAIN list : <<list[n], x>> \in R
  BY <1>6, <1>10, AnalyticsAssumption, FirstOnes
<1> HIDE DEF list
<1>12. \A i \in DOMAIN list : list[i] \in failing /\ list[i].count \in Nat
  BY <1>7, <1>11
<1>13. ASSUME NEW k \in Keys, F(k) > 0
       PROVE  \/ \E i \in DOMAIN list : list[i].key = k /\ list[i].count = F(k)
              \/ Len(list) = TopLimit /\ \A i \in DOMAIN list : list[i].count >= F(k)
  <2>1. item[k] \in failing /\ item[k].key = k /\ item[k].count = F(k)
    BY <1>4, <1>5, <1>13
  <2>2. CASE \E n \in DOMAIN list : list[n] = item[k]
    BY <2>1, <2>2
  <2>3. CASE Len(list) = TopLimit /\ \A n \in DOMAIN list : <<list[n], item[k]>> \in R
    <3>1. ASSUME NEW i \in DOMAIN list PROVE list[i].count >= F(k)
      <4>1. <<list[i], item[k]>> \in R
        BY <2>3
      <4>2. list[i].count > item[k].count \/ list[i].count = item[k].count
        BY <1>9, <4>1
      <4>3. list[i].count \in Nat /\ F(k) \in Nat
        BY <1>2, <1>12
      <4> QED BY <2>1, <4>2, <4>3
    <3> QED BY <2>3, <3>1
  <2> QED BY <1>11, <2>1, <2>2, <2>3
<1> QED BY <1>1, <1>12, <1>13 DEF F

LEMMA VisitInvReadFailing ==
    ASSUME TablesInv, VisitInv, ReadFailing
    PROVE  VisitInv'
<1> DEFINE list == GetTopFailingTests(visit.project, visit.branch)
           F(k) == FailuresOf(visit.project, visit.branch, k)
<1>1. /\ visit.next = "failing" /\ UNCHANGED <<runs, live>>
      /\ visit' = Go("failing", [visit EXCEPT !.failing = list])
  BY DEF ReadFailing, Reads
<1>2. /\ \A i \in DOMAIN list : list[i].count \in Nat
      /\ \A k \in Keys : F(k) > 0 =>
            \/ \E i \in DOMAIN list : list[i].key = k /\ list[i].count = F(k)
            \/ Len(list) = TopLimit /\ \A i \in DOMAIN list : list[i].count >= F(k)
  BY TopFailingTests
<1> HIDE DEF list
<1>3. visit.page = "dashboard"
  BY <1>1 DEF VisitInv, StageOK
<1>4. /\ DOMAIN visit' = Fields
      /\ visit'.page = visit.page /\ visit'.next = After[visit.page]["failing"]
      /\ visit'.project = visit.project /\ visit'.branch = visit.branch
      /\ visit'.runs = visit.runs /\ visit'.rows = visit.rows /\ visit'.groups = visit.groups
      /\ visit'.failing = list
  BY <1>1 DEF VisitInv, VisitTypeOK, Fields, Go
<1>5. StageOK' /\ visit'.next = "flaky"
  BY <1>3, <1>4, QueriesInOrder DEF StageOK
<1>6. VisitTypeOK'
  BY <1>1, <1>4 DEF VisitInv, VisitTypeOK, AllRows
<1>7. NothingForeignIsShown' /\ ListingIsOnBranch' /\ FailingAreCounted'
  BY <1>1, <1>2, <1>4 DEF VisitInv, NothingForeignIsShown, ListingIsOnBranch, OnBranch, FailingAreCounted
<1>8. ASSUME NEW k \in Keys
      PROVE  /\ Cardinality(ListedFailures(k)) <= F(k)
             /\ Cardinality(ListedFailures(k)) \in Nat
             /\ F(k) \in Nat
             /\ ListedFailures(k) # {} => F(k) > 0
  <2> DEFINE failures == {row \in ResultsOf(visit.project, visit.branch, k) : row.status = "failed"}
  <2>1. \A r \in live \cap ToSet(visit.runs) : r \in RunsOf(visit.project, visit.branch)
    BY <1>3 DEF VisitInv, NothingForeignIsShown, ListingIsOnBranch, RunsOf, ToSet
  <2>2. ListedFailures(k) \in SUBSET failures
    BY <2>1 DEF ListedFailures, ResultsOf
  <2>3. IsFiniteSet(failures) /\ F(k) = Cardinality(failures) /\ F(k) \in Nat
    BY FailuresAreCounted DEF FailuresOf
  <2> HIDE DEF failures
  <2>4. /\ Cardinality(ListedFailures(k)) <= F(k)
        /\ Cardinality(ListedFailures(k)) \in Nat
        /\ IsFiniteSet(ListedFailures(k))
    BY <2>2, <2>3, FS_Subset, FS_CardinalityType
  <2>5. ListedFailures(k) # {} => Cardinality(ListedFailures(k)) # 0
    BY <2>4, FS_EmptySet
  <2> HIDE DEF F
  <2> QED BY <2>3, <2>4, <2>5
<1>9. FailuresAreNamed'
  <2> HIDE DEF F
  <2>1. \A k \in Keys : ListedFailures(k)' = ListedFailures(k)
    BY <1>1, <1>4 DEF ListedFailures
  <2> SUFFICES ASSUME NEW k \in Keys, ListedFailures(k) # {}
               PROVE  LET enough(item) == item.count >= Cardinality(ListedFailures(k)) IN
                      \/ \E i \in DOMAIN list : list[i].key = k /\ enough(list[i])
                      \/ Len(list) = TopLimit /\ \A i \in DOMAIN list : enough(list[i])
    BY <1>4, <2>1 DEF FailuresAreNamed
  <2> DEFINE size == Cardinality(ListedFailures(k))
  <2>2. size <= F(k) /\ size \in Nat /\ F(k) \in Nat /\ F(k) > 0
    BY <1>8
  <2> HIDE DEF size
  <2>3. \A i \in DOMAIN list : list[i].count >= F(k) => list[i].count >= size
    BY <1>2, <2>2
  <2>4. \A i \in DOMAIN list : list[i].count = F(k) => list[i].count >= size
    BY <1>2, <2>2
  <2>5. \/ \E i \in DOMAIN list : list[i].key = k /\ list[i].count = F(k)
        \/ Len(list) = TopLimit /\ \A i \in DOMAIN list : list[i].count >= F(k)
    BY <1>2, <2>2
  <2> QED BY <2>3, <2>4, <2>5 DEF size
<1>10. DashboardAgrees'
  BY <1>9 DEF DashboardAgrees
<1> QED BY <1>1, <1>3, <1>4, <1>5, <1>6, <1>7, <1>10, OtherQueries

-----------------------------------------------------------------------------
(* Pages of a run and of a test.                                           *)

LEMMA VisitInvGetRun ==
    ASSUME TablesInv, VisitInv, GetRun
    PROVE  VisitInv'
<1>1. /\ visit.next = "run" /\ UNCHANGED <<runs, live>>
      /\ visit' = IF FoundRun(visit.run, visit.project)
                  THEN Go("run", [visit EXCEPT !.branch = runs[visit.run].branch])
                  ELSE [Blank EXCEPT !.next = "failed"]
  BY DEF GetRun, Reads
<1>2. CASE ~ FoundRun(visit.run, visit.project)
  BY <1>1, <1>2, VisitInvEnds
<1>3. CASE FoundRun(visit.run, visit.project)
  <2>1. visit.page \in {"run", "runAPI"}
    BY <1>1 DEF VisitInv, StageOK
  <2>2. /\ DOMAIN visit' = Fields
        /\ visit'.page = visit.page /\ visit'.next = After[visit.page]["run"]
        /\ visit'.project = visit.project /\ visit'.run = visit.run
        /\ visit'.branch = runs[visit.run].branch
        /\ visit'.runs = visit.runs /\ visit'.rows = visit.rows /\ visit'.groups = visit.groups
        /\ visit'.failing = visit.failing
    BY <1>1, <1>3 DEF VisitInv, VisitTypeOK, Fields, Go
  <2>3. StageOK' /\ visit'.next = "results"
    BY <2>1, <2>2, QueriesInOrder DEF StageOK
  <2>4. VisitTypeOK'
    BY <1>1, <2>2 DEF VisitInv, VisitTypeOK, AllRows
  <2>5. NothingForeignIsShown' /\ FailingAreCounted'
    BY <1>1, <2>2 DEF VisitInv, NothingForeignIsShown, FailingAreCounted
  <2>6. RunIsFound'
    <3>1. visit.run \in DOMAIN runs /\ runs[visit.run].project = visit.project
      BY <1>3, RunsAreFinite DEF FoundRun
    <3> QED BY <1>1, <2>2, <3>1 DEF RunIsFound
  <2>7. RunIsListed' /\ DashboardAgrees' /\ ListingIsOnBranch'
    BY <2>1, <2>2, <2>3 DEF RunIsListed, DashboardAgrees, ListingIsOnBranch
  <2>8. RunPageIsWhole' /\ OwnStatusIsRecent'
    BY <2>3 DEF RunPageIsWhole, OwnStatusIsRecent, Answered
  <2> QED BY <2>3, <2>4, <2>5, <2>6, <2>7, <2>8 DEF VisitInv
<1> QED BY <1>2, <1>3

\* What ListRunResults returns, also when the run has gone since it was read.
LEMMA ListingOfRun ==
    ASSUME TablesInv, NEW r \in DOMAIN runs
    PROVE  /\ \/ Lists(ListRunResults(r), Keyed(r))
              \/ ListRunResults(r) = <<>> /\ r \notin live
           /\ ListRunResults(r) \in Seq(Keyed(r))
           /\ Keyed(r) \subseteq AllRows
           /\ \A row \in Keyed(r) : row.id[1] = r
<1>1. \A row \in Keyed(r) : row \in AllRows /\ row.id[1] = r
  BY RowsOfRun DEF Keyed
<1>2. CASE r \in live
  BY <1>1, <1>2, ListingIsWhole DEF Keyed, Lists
<1>3. CASE r \notin live
  BY <1>1, <1>3 DEF ListRunResults
<1> QED BY <1>2, <1>3

LEMMA VisitInvReadResults ==
    ASSUME TablesInv, VisitInv, ReadResults
    PROVE  VisitInv'
<1> DEFINE rows == ListRunResults(visit.run)
<1>1. /\ visit.next = "results" /\ UNCHANGED <<runs, live>>
      /\ visit' = Go("results", [visit EXCEPT !.rows = rows])
  BY DEF ReadResults, Reads
<1>2. visit.page \in {"run", "runAPI"}
  BY <1>1 DEF VisitInv, StageOK
<1>3. /\ visit.run \in DOMAIN runs
      /\ visit.project = runs[visit.run].project
      /\ visit.branch = runs[visit.run].branch
  BY <1>1, <1>2 DEF VisitInv, RunIsFound
<1>4. /\ \/ Lists(rows, Keyed(visit.run))
         \/ rows = <<>> /\ visit.run \notin live
      /\ rows \in Seq(Keyed(visit.run))
      /\ Keyed(visit.run) \subseteq AllRows
      /\ \A row \in Keyed(visit.run) : row.id[1] = visit.run
  BY <1>3, ListingOfRun
<1> HIDE DEF rows
<1>5. /\ DOMAIN visit' = Fields
      /\ visit'.page = visit.page /\ visit'.next = After[visit.page]["results"]
      /\ visit'.project = visit.project /\ visit'.run = visit.run /\ visit'.branch = visit.branch
      /\ visit'.runs = visit.runs /\ visit'.rows = rows /\ visit'.groups = visit.groups
      /\ visit'.failing = visit.failing
  BY <1>1 DEF VisitInv, VisitTypeOK, Fields, Go
<1>6. StageOK' /\ (visit'.page = "run" => visit'.next = "recent")
  BY <1>2, <1>5, QueriesInOrder DEF StageOK
<1>7. VisitTypeOK'
  <2>1. rows \in Seq(AllRows)
    BY <1>4
  <2>2. AllRows' = AllRows
    BY <1>1 DEF AllRows
  <2> QED BY <1>1, <1>5, <2>1, <2>2 DEF VisitInv, VisitTypeOK
<1>8. NothingForeignIsShown' /\ FailingAreCounted'
  <2>1. \A i \in DOMAIN rows : rows[i].id[1] = visit.run
    BY <1>4
  <2> QED BY <1>1, <1>3, <1>5, <2>1 DEF VisitInv, NothingForeignIsShown, FailingAreCounted
<1>9. RunIsFound'
  BY <1>1, <1>3, <1>5 DEF RunIsFound
<1>10. RunIsListed'
  <2>1. Keyed(visit.run)' = Keyed(visit.run)
    BY <1>1, <1>5 DEF Keyed
  <2> QED BY <1>1, <1>4, <1>5, <2>1 DEF RunIsListed
<1>11. DashboardAgrees' /\ ListingIsOnBranch'
  BY <1>2, <1>5 DEF DashboardAgrees, ListingIsOnBranch
<1>12. RunPageIsWhole' /\ OwnStatusIsRecent'
  BY <1>6 DEF RunPageIsWhole, OwnStatusIsRecent, Answered
<1> QED BY <1>6, <1>7, <1>8, <1>9, <1>10, <1>11, <1>12 DEF VisitInv

LEMMA HistoryOfTest ==
    ASSUME TablesInv, NEW p, NEW k, NEW scan \in Scans, NEW scans \in Scans \X Scans
    PROVE  /\ TestHistory(p, k, scan) \in Seq(ResultsOf(p, NoBranch, k))
           /\ TestDurationChart(p, k, scans) \in Seq(ResultsOf(p, NoBranch, k))
           /\ ResultsOf(p, NoBranch, k) \subseteq AllRows
           /\ \A row \in ResultsOf(p, NoBranch, k) : runs[row.id[1]].project = p
<1> DEFINE rows == ResultsOf(p, NoBranch, k)
<1>1. rows \in SUBSET AllRows
  BY ResultsAreRows
<1>2. \A row \in rows : runs[row.id[1]].project = p
  BY <1>1, ResultsAreRows DEF RunsOf
<1>3. ASSUME NEW one \in Scans PROVE TestHistory(p, k, one) \in Seq(rows)
  <2>1. TestHistory(p, k, one) = FirstOf(NewestRows(rows, one), WindowLimit)
    BY DEF TestHistory
  <2> HIDE DEF rows
  <2>2. NewestRows(rows, one) \in Seq(rows)
    BY <1>1, NewestRowsLists DEF Lists
  <2> QED BY <2>1, <2>2, AnalyticsAssumption, FirstOfIsPrefix
<1>4. TestDurationChart(p, k, scans) \in Seq(rows)
  <2> DEFINE kept == ToSet(TestHistory(p, k, scans[1]))
  <2>1. scans[1] \in Scans /\ scans[2] \in Scans
    OBVIOUS
  <2> HIDE DEF rows
  <2>2. kept \subseteq rows
    BY <1>3, <2>1 DEF ToSet
  <2>3. TestDurationChart(p, k, scans) = OldestRows(kept, scans[2])
    BY DEF TestDurationChart
  <2> HIDE DEF kept
  <2>4. OldestRows(kept, scans[2]) \in Seq(kept)
    BY <1>1, <2>1, <2>2, OldestRowsLists DEF Lists
  <2> QED BY <2>2, <2>3, <2>4
<1> QED BY <1>1, <1>2, <1>3, <1>4 DEF rows

LEMMA VisitInvReadTest ==
    ASSUME TablesInv, VisitInv, ReadHistory \/ ReadChart
    PROVE  VisitInv'
<1> DEFINE S == ResultsOf(visit.project, NoBranch, visit.key)
<1>1. PICK rows \in Seq(S) :
         /\ visit.next \in {"history", "chart"} /\ UNCHANGED <<runs, live>>
         /\ visit' = Go(visit.next, [visit EXCEPT !.rows = rows])
  <2>1. <<"forwards", "forwards">> \in Scans \X Scans /\ "forwards" \in Scans
    BY DEF Scans
  <2>2. CASE ReadHistory
    BY <2>1, <2>2, HistoryOfTest DEF ReadHistory, Reads
  <2>3. CASE ReadChart
    BY <2>1, <2>3, HistoryOfTest DEF ReadChart, Reads
  <2> QED BY <2>2, <2>3
<1>2. S \subseteq AllRows /\ \A row \in S : runs[row.id[1]].project = visit.project
  <2>1. <<"forwards", "forwards">> \in Scans \X Scans /\ "forwards" \in Scans
    BY DEF Scans
  <2> QED BY <2>1, HistoryOfTest
<1> HIDE DEF S
<1>3. \/ visit.page = "test" /\ visit.next = "history"
      \/ visit.page = "chart" /\ visit.next = "chart"
  BY <1>1 DEF VisitInv, StageOK
<1>4. /\ DOMAIN visit' = Fields
      /\ visit'.page = visit.page /\ visit'.next = After[visit.page][visit.next]
      /\ visit'.project = visit.project /\ visit'.branch = visit.branch
      /\ visit'.runs = visit.runs /\ visit'.rows = rows /\ visit'.groups = visit.groups
      /\ visit'.failing = visit.failing
  BY <1>1 DEF VisitInv, VisitTypeOK, Fields, Go
<1>5. StageOK' /\ visit'.next = "answered"
  BY <1>3, <1>4, QueriesInOrder DEF StageOK
<1>6. VisitTypeOK'
  <2>1. rows \in Seq(AllRows)
    BY <1>1, <1>2
  <2>2. AllRows' = AllRows
    BY <1>1 DEF AllRows
  <2> QED BY <1>1, <1>4, <2>1, <2>2 DEF VisitInv, VisitTypeOK
<1>7. NothingForeignIsShown' /\ FailingAreCounted'
  <2>1. \A i \in DOMAIN rows : runs[rows[i].id[1]].project = visit.project
    BY <1>1, <1>2
  <2> QED BY <1>1, <1>4, <2>1 DEF VisitInv, NothingForeignIsShown, FailingAreCounted
<1>8. DashboardAgrees' /\ ListingIsOnBranch'
  BY <1>3, <1>4 DEF DashboardAgrees, ListingIsOnBranch
<1> QED BY <1>1, <1>3, <1>4, <1>5, <1>6, <1>7, <1>8, OtherQueries

\* Of a result that the first statuses leave out, these are all of other results
\* that are as new.
LEMMA RecentStatusesSuffice ==
    ASSUME TablesInv, NEW r \in live, NEW row \in Keyed(r), NEW scan \in Scans
    PROVE  \/ row.status \in ToSet(RecentStatuses(runs[r].project, runs[r].branch, row.key, scan))
           \/ Cardinality(NotOlder(r, row.key) \ {row}) >= RecentLimit
<1> DEFINE p == runs[r].project
           b == runs[r].branch
           S == ResultsOf(p, b, row.key)
           seq == NewestRows(S, scan)
           list == FirstOf(seq, RecentLimit)
           others == NotOlder(r, row.key) \ {row}
<1>1. r \in DOMAIN runs
  BY RunsAreFinite
<1>2. row \in AllRows /\ row.id[1] = r
  BY <1>1, ListingOfRun
<1>3. r \in RunsOf(p, b)
  BY DEF RunsOf, OnBranch
<1>4. S \in SUBSET AllRows /\ row \in S
  BY <1>2, <1>3, ResultsAreRows
<1>5. RecentStatuses(p, b, row.key, scan) = [i \in DOMAIN list |-> list[i].status]
  BY DEF RecentStatuses
<1>6. others = {x \in S : runs[x.id[1]].uploadedAt >= runs[r].uploadedAt} \ {row}
  BY DEF NotOlder
<1> HIDE DEF S
<1>7. /\ Lists(seq, S)
      /\ \A m, n \in DOMAIN seq : m < n => NewerRow(seq[m], seq[n], scan)
  BY <1>4, NewestRowsLists
<1> HIDE DEF seq
<1>8. /\ list \in Seq(S)
      /\ DOMAIN list = 1 .. Len(list)
      /\ \A n \in DOMAIN list : n \in DOMAIN seq /\ list[n] = seq[n]
      /\ \A m, n \in DOMAIN list : list[m] = list[n] => m = n
      /\ \A x \in S : \/ \E n \in DOMAIN list : list[n] = x
                      \/ /\ Len(list) = RecentLimit
                         /\ \E m \in DOMAIN seq : seq[m] = x /\ \A n \in DOMAIN list : n < m
  BY <1>7, FirstOfList, AnalyticsAssumption
<1> HIDE DEF list
<1>9. CASE \E n \in DOMAIN list : list[n] = row
  BY <1>5, <1>9 DEF ToSet
<1>10. CASE ~ \E n \in DOMAIN list : list[n] = row
  <2>1. DOMAIN list = 1 .. RecentLimit
    BY <1>4, <1>8, <1>10
  <2>2. \A n \in DOMAIN list : NewerRow(list[n], row, scan)
    <3>1. PICK m \in DOMAIN seq : seq[m] = row /\ \A n \in DOMAIN list : n < m
      BY <1>4, <1>8, <1>10
    <3> QED BY <1>7, <1>8, <3>1
  <2>3. \A x \in AllRows : runs[x.id[1]].uploadedAt \in Int
    BY RowsAreTimed
  <2>4. \A x \in AllRows : NewerRow(x, row, scan) => runs[x.id[1]].uploadedAt >= runs[r].uploadedAt
    BY <1>2, <2>3 DEF NewerRow, Newer
  <2>5. \A n \in DOMAIN list : list[n] \in others
    <3>1. \A n \in DOMAIN list : list[n] \in S
      BY <1>8
    <3> QED BY <1>4, <1>6, <1>10, <2>2, <2>4, <3>1
  <2>6. IsFiniteSet(others)
    <3>1. others \in SUBSET AllRows
      BY <1>4, <1>6
    <3> QED BY <3>1, RowsAreFinite, FS_Subset
  <2> HIDE DEF others
  <2>7. list \in Injection(1 .. RecentLimit, others)
    <3>1. list = [n \in DOMAIN list |-> list[n]]
      <4>1. list \in Seq(S)
        BY <1>8
      <4> QED BY <4>1
    <3>2. list \in [1 .. RecentLimit -> others]
      BY <2>1, <2>5, <3>1
    <3> QED BY <1>8, <2>1, <3>2 DEF Injection, IsInjective
  <2>8. Cardinality(1 .. RecentLimit) = RecentLimit
    BY AnalyticsAssumption, FS_Interval
  <2>9. RecentLimit <= Cardinality(others) /\ Cardinality(others) \in Nat
    BY <2>6, <2>7, <2>8, FS_Injection, FS_CardinalityType
  <2>10. Cardinality(others) >= RecentLimit
    BY <2>9, AnalyticsAssumption
  <2> QED BY <2>10 DEF others
<1> QED BY <1>9, <1>10

LEMMA VisitInvReadRecent ==
    ASSUME TablesInv, VisitInv, ReadRecent
    PROVE  VisitInv'
<1> DEFINE keys == {visit.rows[i].key : i \in DOMAIN visit.rows}
           statuses(scan) == [k \in keys |-> RecentStatuses(visit.project, visit.branch, k, scan)]
           groups == GroupRunResults(SortRunResults(visit.rows, visit.sort))
<1>1. PICK scan \in Scans :
         /\ visit.next = "recent" /\ UNCHANGED <<runs, live>>
         /\ visit' = Go("recent", [visit EXCEPT !.recent = statuses(scan), !.groups = groups])
  BY DEF ReadRecent, Reads
<1>2. visit.page = "run"
  BY <1>1 DEF VisitInv, StageOK
<1>3. /\ visit.run \in DOMAIN runs
      /\ visit.project = runs[visit.run].project
      /\ visit.branch = runs[visit.run].branch
  BY <1>1, <1>2 DEF VisitInv, RunIsFound
<1>4. PICK S \in SUBSET Keyed(visit.run) :
         /\ Lists(visit.rows, S)
         /\ S = Keyed(visit.run) \/ (S = {} /\ visit.run \notin live)
  <2>1. Lists(<<>>, {})
    BY DEF Lists
  <2>2. \/ Lists(visit.rows, Keyed(visit.run))
        \/ visit.rows = <<>> /\ visit.run \notin live
    BY <1>1, <1>2 DEF VisitInv, RunIsListed
  <2> QED BY <2>1, <2>2
<1>5. S \in SUBSET Rows
  BY <1>3, ListingOfRun, RowsAreStored
<1>6. Lists(SortRunResults(visit.rows, visit.sort), S)
  BY <1>4, <1>5, SortingKeepsResults
<1>7. /\ groups \in Seq(Seq(S))
      /\ \A x \in S : \E g \in DOMAIN groups : \E n \in DOMAIN groups[g] : groups[g][n] = x
      /\ \A g, h \in DOMAIN groups :
            \A m \in DOMAIN groups[g], n \in DOMAIN groups[h] :
               groups[g][m] = groups[h][n] => g = h /\ m = n
  BY <1>6, GroupsArePartition
<1> HIDE DEF groups
<1> DEFINE read == statuses(scan)
<1>8. /\ DOMAIN visit' = Fields
      /\ visit'.page = visit.page /\ visit'.next = After[visit.page]["recent"]
      /\ visit'.project = visit.project /\ visit'.run = visit.run /\ visit'.branch = visit.branch
      /\ visit'.runs = visit.runs /\ visit'.rows = visit.rows /\ visit'.failing = visit.failing
      /\ visit'.groups = groups /\ visit'.recent = read
  <2> HIDE DEF read
  <2>1. visit' = Go("recent", [visit EXCEPT !.recent = read, !.groups = groups])
    BY <1>1 DEF read
  <2> QED BY <2>1 DEF VisitInv, VisitTypeOK, Fields, Go
<1> HIDE DEF read, keys
<1>9. StageOK' /\ visit'.next = "answered"
  BY <1>2, <1>8, QueriesInOrder DEF StageOK
<1>10. VisitTypeOK'
  <2>1. groups \in Seq(Seq(Rows))
    <3>1. Seq(S) \subseteq Seq(Rows)
      BY <1>5
    <3> QED BY <1>7, <3>1
  <2> QED BY <1>1, <1>8, <2>1 DEF VisitInv, VisitTypeOK, AllRows
<1>11. NothingForeignIsShown' /\ FailingAreCounted'
  BY <1>1, <1>8 DEF VisitInv, NothingForeignIsShown, FailingAreCounted
<1>12. RunIsFound' /\ RunIsListed'
  BY <1>1, <1>3, <1>8, <1>9 DEF RunIsFound, RunIsListed
<1>13. DashboardAgrees' /\ ListingIsOnBranch'
  BY <1>2, <1>8 DEF DashboardAgrees, ListingIsOnBranch
<1>14. \A place \in Places' :
          \E g \in DOMAIN groups : \E n \in DOMAIN groups[g] :
             place = <<g, n>> /\ At(place)' = groups[g][n]
  BY <1>8 DEF Places, At
<1>15. Shown' = S
  <2>1. \A x : x \in Shown' => \E g \in DOMAIN groups : \E n \in DOMAIN groups[g] : x = groups[g][n]
    BY <1>14 DEF Shown, At
  <2>2. \A g \in DOMAIN groups : \A n \in DOMAIN groups[g] : groups[g][n] \in Shown'
    <3> SUFFICES ASSUME NEW g \in DOMAIN groups, NEW n \in DOMAIN groups[g]
                 PROVE  groups[g][n] \in Shown'
      OBVIOUS
    <3>1. <<g, n>> \in Places' /\ At(<<g, n>>)' = groups[g][n]
      BY <1>8 DEF Places, At
    <3> QED BY <3>1 DEF Shown
  <2>3. \A g \in DOMAIN groups : \A n \in DOMAIN groups[g] : groups[g][n] \in S
    <3>1. \A g \in DOMAIN groups : groups[g] \in Seq(S)
      BY <1>7
    <3> QED BY <3>1
  <2>4. \A x \in S : x \in Shown'
    BY <1>7, <2>2
  <2>5. \A x \in Shown' : x \in S
    BY <2>1, <2>3
  <2> HIDE DEF groups
  <2> QED BY <2>4, <2>5
<1>16. RunPageIsWhole'
  <2>1. \A place, other \in Places' : At(place)' = At(other)' => place = other
    <3> SUFFICES ASSUME NEW place \in Places', NEW other \in Places', At(place)' = At(other)'
                 PROVE  place = other
      OBVIOUS
    <3>1. PICK g \in DOMAIN groups : \E n \in DOMAIN groups[g] :
             place = <<g, n>> /\ At(place)' = groups[g][n]
      BY <1>14
    <3>2. PICK n \in DOMAIN groups[g] : place = <<g, n>> /\ At(place)' = groups[g][n]
      BY <3>1
    <3>3. PICK h \in DOMAIN groups : \E m \in DOMAIN groups[h] :
             other = <<h, m>> /\ At(other)' = groups[h][m]
      BY <1>14
    <3>4. PICK m \in DOMAIN groups[h] : other = <<h, m>> /\ At(other)' = groups[h][m]
      BY <3>3
    <3>5. groups[g][n] = groups[h][m]
      BY <3>2, <3>4
    <3>6. g = h /\ n = m
      BY <1>7, <3>5
    <3> QED BY <3>2, <3>4, <3>6
  <2>2. Shown' = {x \in ToSet(runs'[visit'.run].rows) : x.key # 0}
           \/ (Shown' = {} /\ visit'.run \notin live')
    BY <1>1, <1>4, <1>8, <1>15 DEF Keyed
  <2> QED BY <2>1, <2>2 DEF RunPageIsWhole
<1>17. OwnStatusIsRecent'
  <2> SUFFICES ASSUME visit.run \in live, NEW row \in S
               PROVE  \/ row.status \in ToSet(read[row.key])
                      \/ Cardinality(NotOlder(visit.run, row.key) \ {row}) >= RecentLimit
    <3>1. \A r, k : NotOlder(r, k)' = NotOlder(r, k)
      BY <1>1 DEF NotOlder, ResultsOf, RunsOf, OnBranch
    <3> QED BY <1>1, <1>8, <1>15, <3>1 DEF OwnStatusIsRecent
  <2>1. row \in Keyed(visit.run) /\ row.key \in keys
    BY <1>4 DEF Lists, keys
  <2>2. read[row.key] = RecentStatuses(runs[visit.run].project, runs[visit.run].branch, row.key, scan)
    BY <1>3, <2>1 DEF read
  <2> QED BY <2>1, <2>2, RecentStatusesSuffice
<1> QED BY <1>9, <1>10, <1>11, <1>12, <1>13, <1>16, <1>17 DEF VisitInv

-----------------------------------------------------------------------------
(* The newest run that was listed.                                         *)

\* It is there, or it is too old, or its project is gone for good.
LatestIsKnown ==
    /\ latest.run \in DOMAIN runs \cup {0}
    /\ latest.run # 0 =>
          /\ runs[latest.run].project = latest.project
          /\ \/ latest.run \in live
             \/ runs[latest.run].uploadedAt < horizon
             \/ latest.project \notin projects

\* The listing is of one project, and its first run is the newest.
LEMMA ListRunsLatest ==
    ASSUME TablesInv, ListRuns, visit.branch = NoBranch
    PROVE  LET rs == RunsOf(visit.project, NoBranch) IN
           /\ latest'.project = visit.project
           /\ \/ latest'.run = 0
              \/ /\ latest'.run \in rs
                 /\ \A r \in rs : r = latest'.run \/ Newer(latest'.run, r)
<1> DEFINE rs == RunsOf(visit.project, NoBranch)
           seq == Newest(rs)
           listed == FirstOf(seq, ListLimit)
<1>1. latest' = [project |-> visit.project, run |-> IF listed = <<>> THEN 0 ELSE listed[1]]
  BY DEF ListRuns
<1>2. rs \in SUBSET DOMAIN runs
  BY RunsAreFinite DEF RunsOf
<1> HIDE DEF rs
<1>3. /\ Lists(seq, rs)
      /\ \A m, n \in DOMAIN seq : m < n => Newer(seq[m], seq[n])
  BY <1>2, NewestListsRuns
<1> HIDE DEF seq
<1>4. seq \in Seq(rs) /\ \A r \in rs : \E n \in DOMAIN seq : seq[n] = r
  BY <1>3 DEF Lists
<1>5. /\ listed \in Seq(rs)
      /\ \A n \in DOMAIN listed : n \in DOMAIN seq /\ listed[n] = seq[n]
  BY <1>4, PagesAssumption, FirstOfIsPrefix
<1> HIDE DEF listed
<1>6. CASE listed = <<>>
  BY <1>1, <1>6
<1>7. CASE listed # <<>>
  <2>1. 1 \in DOMAIN listed
    BY <1>5, <1>7
  <2>2. 1 \in DOMAIN seq /\ listed[1] = seq[1] /\ listed[1] \in rs
    BY <1>5, <2>1
  <2>3. ASSUME NEW r \in rs PROVE r = seq[1] \/ Newer(seq[1], r)
    <3>1. PICK n \in DOMAIN seq : seq[n] = r
      BY <1>4
    <3>2. n = 1 \/ 1 < n
      <4>1. n \in 1 .. Len(seq) /\ Len(seq) \in Nat
        BY <1>4
      <4> QED BY <4>1
    <3> QED BY <1>3, <2>2, <3>1, <3>2
  <2> QED BY <1>1, <1>7, <2>2, <2>3 DEF rs
<1> QED BY <1>6, <1>7 DEF rs

LEMMA LatestInvNext ==
    ASSUME TablesInv, TablesInv', LatestIsKnown, [Next]_vars
    PROVE  LatestIsKnown'
<1>1. DOMAIN runs = 1 .. Len(runs) /\ 0 \notin DOMAIN runs /\ live \subseteq DOMAIN runs
  BY DEF TablesInv, TablesTypeOK
<1>2. CASE UNCHANGED <<runs, live, slugOf, projects, horizon, latest>>
  BY <1>2 DEF LatestIsKnown
<1>3. ASSUME NEW s \in Slugs, CreateProject(s) PROVE LatestIsKnown'
  <2>1. /\ projects' = projects \cup {Len(slugOf) + 1}
        /\ UNCHANGED <<runs, live, horizon, latest>>
    BY <1>3 DEF CreateProject
  <2>2. Len(slugOf) + 1 \notin DOMAIN slugOf
    BY DEF TablesInv, TablesTypeOK
  <2>3. latest.run # 0 => latest.project \in DOMAIN slugOf
    BY DEF LatestIsKnown, TablesInv, ProjectsAreKnown
  <2> QED BY <2>1, <2>2, <2>3 DEF LatestIsKnown
<1>4. ASSUME NEW p \in Ids, DeleteProject(p) PROVE LatestIsKnown'
  BY <1>4 DEF DeleteProject, RunsLeft, LatestIsKnown
<1>5. ASSUME NEW p \in Ids, NEW b \in Branches, NEW t \in Times, NEW rows \in Reports,
             CreateRun(p, b, t, rows)
      PROVE  LatestIsKnown'
  <2>1. /\ live \subseteq live' /\ UNCHANGED <<projects, horizon, latest>>
    BY <1>5 DEF CreateRun
  <2>2. /\ DOMAIN runs \subseteq DOMAIN runs'
        /\ \A q \in DOMAIN runs : runs'[q] = runs[q]
    BY <1>5, CreateRunAppends DEF TablesInv
  <2> QED BY <2>1, <2>2 DEF LatestIsKnown
<1>6. ASSUME NEW cutoff \in Times, PruneRuns(cutoff) PROVE LatestIsKnown'
  <2>1. /\ cutoff > horizon /\ horizon' = cutoff
        /\ live' = {r \in live : runs[r].uploadedAt >= cutoff}
        /\ UNCHANGED <<runs, projects, latest>>
    BY <1>6 DEF PruneRuns
  <2>2. cutoff \in Int /\ horizon \in Int
    BY PagesAssumption DEF Times, TablesInv, TablesTypeOK
  <2>3. latest.run # 0 => runs[latest.run].uploadedAt \in Int
    <3>1. \A r \in DOMAIN runs : runs[r] \in Run
      BY DEF TablesInv, TablesTypeOK
    <3> QED BY <3>1, PagesAssumption DEF LatestIsKnown, Run, Times
  <2> QED BY <2>1, <2>2, <2>3 DEF LatestIsKnown
<1>7. CASE ListRuns
  <2>1. UNCHANGED <<runs, live, slugOf, projects, horizon>>
    BY <1>7 DEF ListRuns, Reads
  <2>2. CASE visit.branch = NoBranch
    <3>1. latest'.run = 0 \/ (latest'.run \in live /\ runs[latest'.run].project = latest'.project)
      BY <1>7, <2>2, ListRunsLatest DEF RunsOf
    <3> QED BY <1>1, <2>1, <3>1 DEF LatestIsKnown
  <2>3. CASE visit.branch # NoBranch
    <3>1. latest' = latest
      BY <1>7, <2>3 DEF ListRuns
    <3> QED BY <1>2, <2>1, <3>1
  <2> QED BY <2>2, <2>3
<1>8. CASE Open \/ ReadFailing \/ ReadFlaky \/ ReadSlowest \/ GetRun \/ ReadResults \/ ReadRecent
           \/ ReadHistory \/ ReadChart \/ QueryFails \/ Respond
  BY <1>2, <1>8 DEF Open, ReadFailing, ReadFlaky, ReadSlowest, GetRun, ReadResults, ReadRecent,
                    ReadHistory, ReadChart, QueryFails, Respond, Reads
<1>9. CASE UNCHANGED vars
  BY <1>2, <1>9 DEF vars
<1> QED BY <1>3, <1>4, <1>5, <1>6, <1>7, <1>8, <1>9 DEF Next, Others, Handle

\* It is only replaced by one that is not older.
LEMMA LatestStep ==
    ASSUME TablesInv, LatestIsKnown, [Next]_vars,
           latest'.project = latest.project, latest.run # 0, latest'.run # 0
    PROVE  runs'[latest'.run].uploadedAt >= runs[latest.run].uploadedAt
<1>1. \A r \in DOMAIN runs : runs[r].uploadedAt \in Int
  <2>1. \A r \in DOMAIN runs : runs[r] \in Run
    BY DEF TablesInv, TablesTypeOK
  <2> QED BY <2>1, PagesAssumption DEF Run, Times
<1>2. latest.run \in DOMAIN runs /\ live \subseteq DOMAIN runs
  BY RunsAreFinite DEF LatestIsKnown
<1>3. CASE /\ latest' = latest
           /\ \A r \in DOMAIN runs : runs'[r] = runs[r]
  BY <1>1, <1>2, <1>3
<1>4. CASE Others
  BY <1>3, <1>4, OthersMoveOn DEF TablesMoveOn
<1>5. CASE ListRuns
  <2>1. UNCHANGED runs
    BY <1>5 DEF ListRuns, Reads
  <2>2. CASE visit.branch # NoBranch
    BY <1>3, <1>5, <2>1, <2>2 DEF ListRuns
  <2>3. CASE visit.branch = NoBranch
    <3> DEFINE rs == RunsOf(visit.project, NoBranch)
    <3>1. /\ latest'.project = visit.project
          /\ latest'.run \in rs
          /\ \A r \in rs : r = latest'.run \/ Newer(latest'.run, r)
      BY <1>5, <2>3, ListRunsLatest
    <3>2. latest'.run \in live /\ runs[latest'.run].project = latest.project
      BY <3>1 DEF RunsOf
    <3>3. CASE latest.run \in live
      <4>1. latest.run \in rs
        BY <3>1, <3>3 DEF RunsOf, OnBranch, LatestIsKnown
      <4>2. latest.run = latest'.run \/ Newer(latest'.run, latest.run)
        BY <3>1, <4>1
      <4> QED BY <1>1, <1>2, <2>1, <3>2, <4>2 DEF Newer
    <3>4. CASE runs[latest.run].uploadedAt < horizon
      <4>1. runs[latest'.run].uploadedAt >= horizon /\ horizon \in Int
        BY <3>2, PagesAssumption DEF TablesInv, OldRunsAreGone, TablesTypeOK, Times
      <4> QED BY <1>1, <1>2, <2>1, <3>2, <3>4, <4>1
    <3>5. CASE latest.project \notin projects
      BY <3>2, <3>5 DEF TablesInv, TablesTypeOK
    <3> QED BY <3>3, <3>4, <3>5 DEF LatestIsKnown
  <2> QED BY <2>2, <2>3
<1>6. CASE Open \/ ReadFailing \/ ReadFlaky \/ ReadSlowest \/ GetRun \/ ReadResults \/ ReadRecent
           \/ ReadHistory \/ ReadChart \/ QueryFails \/ Respond
  BY <1>3, <1>6 DEF Open, ReadFailing, ReadFlaky, ReadSlowest, GetRun, ReadResults, ReadRecent,
                    ReadHistory, ReadChart, QueryFails, Respond, Reads
<1>7. CASE UNCHANGED vars
  BY <1>3, <1>7 DEF vars
<1> QED BY <1>4, <1>5, <1>6, <1>7 DEF Next, Handle

-----------------------------------------------------------------------------
(* The specification.                                                      *)

LEMMA VisitInvInit == Init => VisitInv
<1> SUFFICES ASSUME Init PROVE VisitInv
  OBVIOUS
<1>1. visit = Blank
  BY DEF Init
<1>2. /\ DOMAIN visit = Fields /\ visit.page = "none" /\ visit.next = "none"
      /\ visit.project = NoProject
      /\ visit.runs = <<>> /\ visit.rows = <<>> /\ visit.groups = <<>> /\ visit.failing = <<>>
  BY <1>1, BlankFields
<1>3. VisitTypeOK /\ StageOK /\ FailingAreCounted
  BY <1>2 DEF VisitTypeOK, StageOK, FailingAreCounted
<1>4. NothingForeignIsShown /\ RunIsFound /\ RunIsListed /\ ListingIsOnBranch /\ DashboardAgrees
  BY <1>2 DEF NothingForeignIsShown, RunIsFound, RunIsListed, ListingIsOnBranch, DashboardAgrees
<1>5. RunPageIsWhole /\ OwnStatusIsRecent
  BY <1>2 DEF RunPageIsWhole, OwnStatusIsRecent, Answered
<1> QED BY <1>3, <1>4, <1>5 DEF VisitInv

LEMMA VisitInvNext ==
    ASSUME TablesInv, TablesInv', VisitInv, [Next]_vars
    PROVE  VisitInv'
<1>1. CASE Others
  BY <1>1, OthersMoveOn, VisitInvWaits
<1>2. CASE Open
  BY <1>2, VisitInvOpen
<1>3. CASE ListRuns
  BY <1>3, VisitInvListRuns
<1>4. CASE ReadFailing
  BY <1>4, VisitInvReadFailing
<1>5. CASE ReadFlaky \/ ReadSlowest
  BY <1>5, VisitInvReadMore
<1>6. CASE GetRun
  BY <1>6, VisitInvGetRun
<1>7. CASE ReadResults
  BY <1>7, VisitInvReadResults
<1>8. CASE ReadRecent
  BY <1>8, VisitInvReadRecent
<1>9. CASE ReadHistory \/ ReadChart
  BY <1>9, VisitInvReadTest
<1>10. CASE QueryFails
  BY <1>10, VisitInvEnds DEF QueryFails
<1>11. CASE Respond
  BY <1>11, VisitInvEnds DEF Respond
<1>12. CASE UNCHANGED vars
  <2>1. UNCHANGED <<runs, live, visit>>
    BY <1>12 DEF vars
  <2>2. TablesMoveOn
    BY <2>1 DEF TablesMoveOn
  <2> QED BY <2>1, <2>2, VisitInvWaits
<1> QED BY <1>1, <1>2, <1>3, <1>4, <1>5, <1>6, <1>7, <1>8, <1>9, <1>10, <1>11, <1>12
        DEF Next, Handle

\* What the proofs are by.
PagesInv == TablesInv /\ VisitInv /\ LatestIsKnown

LEMMA PagesInvHolds == Spec => []PagesInv
<1>1. Init => PagesInv
  <2>1. Init => LatestIsKnown
    BY DEF Init, LatestIsKnown
  <2> QED BY <2>1, TablesInvInit, VisitInvInit DEF PagesInv
<1>2. PagesInv /\ [Next]_vars => PagesInv'
  <2> SUFFICES ASSUME PagesInv, [Next]_vars PROVE PagesInv'
    OBVIOUS
  <2>1. TablesInv /\ VisitInv /\ LatestIsKnown
    BY DEF PagesInv
  <2>2. TablesInv'
    BY <2>1, TablesInvNext
  <2>3. VisitInv' /\ LatestIsKnown'
    BY <2>1, <2>2, VisitInvNext, LatestInvNext
  <2> QED BY <2>2, <2>3 DEF PagesInv
<1> QED BY <1>1, <1>2, PTL DEF Spec

\* Tables and what a request has read keep their types.
THEOREM PagesTypeCorrect == Spec => []TypeOK
<1>1. ASSUME PagesInv PROVE TypeOK
  <2>1. TablesInv /\ VisitInv /\ LatestIsKnown
    BY <1>1 DEF PagesInv
  <2>2. /\ runs \in Seq([project : Ids, branch : Branches, uploadedAt : Times, rows : Seq(Rows)])
        /\ live \subseteq {r \in DOMAIN runs : runs[r].project \in projects}
        /\ slugOf \in Seq(Slugs) /\ projects \subseteq DOMAIN slugOf /\ horizon \in Times
    BY <2>1 DEF TablesInv, TablesTypeOK, Run
  <2>3. visit.rows \in Seq(Rows)
    <3>1. AllRows \subseteq Rows
      BY <2>1, RowsAreStored
    <3>2. visit.rows \in Seq(AllRows)
      BY <2>1 DEF VisitInv, VisitTypeOK
    <3> QED BY <3>1, <3>2
  <2>4. /\ visit.project \in Ids \cup {NoProject}
        /\ visit.runs \in Seq(DOMAIN runs)
        /\ visit.groups \in Seq(Seq(Rows))
    BY <2>1 DEF VisitInv, VisitTypeOK
  <2>5. latest.run \in DOMAIN runs \cup {0}
    BY <2>1 DEF LatestIsKnown
  <2> QED BY <2>2, <2>3, <2>4, <2>5 DEF TypeOK
<1> QED BY <1>1, PagesInvHolds, PTL

\* A run page has every result with a key once, or none and then its run is gone,
\* whatever is uploaded, pruned or deleted between its three queries: each result
\* is in one group, and ORDER BY, the sort and the groups lose none.
THEOREM RunPagesAreWhole == Spec => []RunPageIsWhole
<1>1. PagesInv => RunPageIsWhole
  BY DEF PagesInv, VisitInv
<1> QED BY <1>1, PagesInvHolds, PTL

\* The statuses beside a result of a run that is still there have its own among
\* them, or at least RecentLimit other results of the test are as new.
THEOREM OwnStatusesAreRecent == Spec => []OwnStatusIsRecent
<1>1. PagesInv => OwnStatusIsRecent
  BY DEF PagesInv, VisitInv
<1> QED BY <1>1, PagesInvHolds, PTL

\* No page shows a run or a result of another project than the one it was asked
\* for, also when the slug names another one before the last query.
THEOREM NothingForeignIsEverShown == Spec => []NothingForeignIsShown
<1>1. PagesInv => NothingForeignIsShown
  BY DEF PagesInv, VisitInv
<1> QED BY <1>1, PagesInvHolds, PTL

\* The list of failing tests on a dashboard has the tests that failed in its list
\* of runs, though the two are read one after the other.
THEOREM DashboardsAgree == Spec => []ListedFailuresAreNamed
<1>1. ASSUME PagesInv PROVE ListedFailuresAreNamed
  <2>1. DashboardAgrees
    BY <1>1 DEF PagesInv, VisitInv
  <2>2. Answered("dashboard") => FailuresAreNamed
    BY <2>1 DEF DashboardAgrees, Answered
  <2> QED BY <2>2 DEF ListedFailuresAreNamed, FailuresAreNamed
<1> QED BY <1>1, PagesInvHolds, PTL

\* The newest run of a project, once listed, is never followed by an older one.
THEOREM NewestRunStaysNewest == Spec => LatestNeverGoesBack
<1>1. ASSUME PagesInv, [Next]_vars
      PROVE  (/\ latest'.project = latest.project
              /\ latest.run # 0 /\ latest'.run # 0) =>
                 runs'[latest'.run].uploadedAt >= runs[latest.run].uploadedAt
  BY <1>1, LatestStep DEF PagesInv
<1>2. PagesInv /\ [Next]_vars =>
         [(/\ latest'.project = latest.project
           /\ latest.run # 0 /\ latest'.run # 0) =>
              runs'[latest'.run].uploadedAt >= runs[latest.run].uploadedAt]_vars
  BY <1>1
<1> QED BY <1>2, PagesInvHolds, PTL DEF Spec, LatestNeverGoesBack

-----------------------------------------------------------------------------
(* Tests that are called flaky.                                            *)

\* A verdict that differs from the one at place i comes after a first one that does.
LEMMA ChangeAfter ==
    ASSUME NEW w, NEW i \in Nat, NEW j \in Nat, i < j, w[j].status # w[i].status
    PROVE  \E t \in i + 1 .. j : w[t].status # w[t - 1].status
<1> DEFINE I == {t \in i + 1 .. j : w[t].status # w[i].status}
<1>1. I \in SUBSET Int /\ j \in I
  OBVIOUS
<1>2. IsFiniteSet(I)
  <2>1. IsFiniteSet(i + 1 .. j)
    BY FS_Interval
  <2>2. I \in SUBSET (i + 1 .. j)
    OBVIOUS
  <2> QED BY <2>1, <2>2, FS_Subset
<1>3. PICK t \in I : \A u \in I : t <= u
  <2> HIDE DEF I
  <2> QED BY <1>1, <1>2, LeastOf
<1>4. t \in Int /\ i + 1 <= t /\ t <= j /\ w[t].status # w[i].status
  OBVIOUS
<1>5. t - 1 \notin I
  BY <1>3, <1>4
<1>6. t - 1 = i \/ t - 1 \in i + 1 .. j
  BY <1>4
<1>7. w[t - 1].status = w[i].status
  BY <1>5, <1>6
<1>8. t \in i + 1 .. j
  BY <1>4
<1> QED BY <1>4, <1>7, <1>8

\* More than one transition between two verdicts: one of them, then the other, then
\* the first again.
LEMMA FlakyAlternates ==
    ASSUME NEW w, DOMAIN w = 1 .. Len(w), Len(w) \in Nat,
           \A i \in DOMAIN w : w[i].status \in {"passed", "failed"}
    PROVE  IsFlaky(w) <=>
              \E i, j, l \in DOMAIN w : /\ i < j /\ j < l
                                        /\ w[i].status = w[l].status
                                        /\ w[i].status # w[j].status
<1> DEFINE T == {i \in 2 .. Len(w) : w[i].status # w[i - 1].status}
<1>1. IsFiniteSet(T) /\ Cardinality(T) \in Nat
  <2>1. IsFiniteSet(2 .. Len(w))
    BY FS_Interval
  <2>2. T \in SUBSET (2 .. Len(w))
    OBVIOUS
  <2> QED BY <2>1, <2>2, FS_Subset, FS_CardinalityType
<1>2. IsFlaky(w) <=> Cardinality(T) > 1
  BY DEF IsFlaky, Transitions
<1>3. \A t : t \in T <=> t \in 2 .. Len(w) /\ w[t].status # w[t - 1].status
  OBVIOUS
<1> HIDE DEF T
<1>4. ASSUME Cardinality(T) > 1
      PROVE  \E i, j, l \in DOMAIN w : /\ i < j /\ j < l
                                       /\ w[i].status = w[l].status
                                       /\ w[i].status # w[j].status
  <2>1. PICK s \in T, t \in T : s # t
    <3>1. ASSUME NEW x, T = {x} PROVE FALSE
      <4>1. Cardinality(T) = 1
        BY <3>1, FS_Singleton
      <4> QED BY <1>4, <4>1
    <3>2. ASSUME T = {} PROVE FALSE
      <4>1. Cardinality(T) = 0
        BY <3>2, FS_EmptySet
      <4> QED BY <1>4, <4>1
    <3>3. PICK s \in T : TRUE
      BY <3>2
    <3>4. T # {s}
      BY <3>1
    <3>5. PICK t \in T : t # s
      BY <3>4
    <3> QED BY <3>5
  <2>2. PICK i \in T, j \in T : i < j
    <3>1. s \in Int /\ t \in Int
      BY <1>3
    <3>2. s < t \/ t < s
      BY <2>1, <3>1
    <3> QED BY <3>2
  <2>3. /\ i \in 2 .. Len(w) /\ w[i].status # w[i - 1].status
        /\ j \in 2 .. Len(w) /\ w[j].status # w[j - 1].status
    BY <1>3
  <2>4. PICK h \in DOMAIN w : h = i - 1
    BY <2>3
  <2>5. PICK k \in DOMAIN w : k = j - 1
    BY <2>3
  <2>6. i \in DOMAIN w /\ j \in DOMAIN w /\ h < i /\ k < j /\ i <= k
    BY <2>2, <2>3, <2>4, <2>5
  <2>7. CASE w[j].status = w[h].status
    BY <2>2, <2>3, <2>4, <2>6, <2>7
  <2>8. CASE w[j].status # w[h].status
    <3>1. w[j].status = w[i].status /\ w[k].status # w[i].status
      BY <2>3, <2>4, <2>5, <2>6, <2>8
    <3>2. i < k
      <4>1. i # k
        BY <3>1
      <4> QED BY <2>3, <2>4, <2>5, <2>6, <4>1
    <3> QED BY <2>6, <3>1, <3>2
  <2> QED BY <2>7, <2>8
<1>5. ASSUME NEW i \in DOMAIN w, NEW j \in DOMAIN w, NEW l \in DOMAIN w, i < j, j < l,
             w[i].status = w[l].status, w[i].status # w[j].status
      PROVE  Cardinality(T) > 1
  <2>1. i \in Nat /\ j \in Nat /\ l \in Nat /\ 1 <= i /\ l <= Len(w)
    OBVIOUS
  <2>2. PICK t \in i + 1 .. j : w[t].status # w[t - 1].status
    BY <1>5, <2>1, ChangeAfter
  <2>3. PICK u \in j + 1 .. l : w[u].status # w[u - 1].status
    BY <1>5, <2>1, ChangeAfter
  <2>4. t \in 2 .. Len(w) /\ u \in 2 .. Len(w) /\ t # u
    BY <1>5, <2>1
  <2>5. t \in T /\ u \in T
    BY <1>3, <2>2, <2>3, <2>4
  <2>6. IsFiniteSet({t}) /\ Cardinality({t}) = 1
    BY FS_Singleton
  <2>7. {t} \subseteq T /\ {t} # T
    BY <2>4, <2>5
  <2>8. Cardinality({t}) < Cardinality(T)
    BY <1>1, <2>6, <2>7, FS_Subset
  <2> QED BY <1>1, <2>6, <2>8
<1> QED BY <1>2, <1>4, <1>5

\* Of results sorted from the newest run on, the first ones up to a limit leave out
\* none of which at most as many others are as new, and have none of which as many
\* are newer, whichever results of one run come first.
LEMMA NewestRowsSuffice ==
    ASSUME TablesInv, NEW rows \in SUBSET AllRows, NEW scan \in Scans
    PROVE  LET kept == ToSet(FirstOf(NewestRows(rows, scan), WindowLimit)) IN
           /\ InWindow(rows) \subseteq kept
           /\ kept \subseteq MaybeInWindow(rows)
<1> DEFINE seq == NewestRows(rows, scan)
           list == FirstOf(seq, WindowLimit)
           kept == ToSet(list)
<1>1. /\ Lists(seq, rows)
      /\ \A m, n \in DOMAIN seq : m < n => NewerRow(seq[m], seq[n], scan)
  BY NewestRowsLists
<1> HIDE DEF seq
<1>2. WindowLimit \in Nat
  BY AnalyticsAssumption
<1>3. /\ list \in Seq(rows)
      /\ DOMAIN list = 1 .. Len(list) /\ Len(list) \in Nat /\ Len(list) <= WindowLimit
      /\ \A n \in DOMAIN list : n \in DOMAIN seq /\ list[n] = seq[n]
      /\ \A m, n \in DOMAIN list : list[m] = list[n] => m = n
      /\ \A x \in rows : \/ \E n \in DOMAIN list : list[n] = x
                         \/ /\ Len(list) = WindowLimit
                            /\ \E m \in DOMAIN seq : seq[m] = x /\ \A n \in DOMAIN list : n < m
  BY <1>1, <1>2, FirstOfList
<1> HIDE DEF list
<1>4. IsFiniteSet(rows)
  BY RowsAreFinite, FS_Subset
<1>5. \A x, y \in rows : NewerRow(x, y, scan) => ~ Newer(y.id[1], x.id[1])
  BY RowsAreTimed DEF NewerRow, Newer
<1>6. ASSUME NEW x \in rows, x \notin kept
      PROVE  Cardinality({y \in rows : ~ Newer(x.id[1], y.id[1])}) > WindowLimit
  <2> DEFINE asNew == {y \in rows : ~ Newer(x.id[1], y.id[1])}
             others == asNew \ {x}
  <2>1. ~ \E n \in DOMAIN list : list[n] = x
    BY <1>6 DEF ToSet
  <2>2. PICK m \in DOMAIN seq : seq[m] = x /\ \A n \in DOMAIN list : n < m
    BY <1>3, <2>1
  <2>3. DOMAIN list = 1 .. WindowLimit
    BY <1>3, <2>1
  <2>4. \A n \in DOMAIN list : list[n] \in others
    <3> SUFFICES ASSUME NEW n \in DOMAIN list PROVE list[n] \in others
      OBVIOUS
    <3>1. list[n] \in rows /\ list[n] # x
      BY <1>3, <2>1
    <3>2. NewerRow(list[n], x, scan)
      BY <1>1, <1>3, <2>2
    <3> QED BY <1>5, <3>1, <3>2
  <2>5. x \in asNew
    BY RowsAreTimed DEF Newer
  <2>6. IsFiniteSet(asNew) /\ IsFiniteSet(others)
    <3>1. asNew \in SUBSET rows /\ others \in SUBSET rows
      OBVIOUS
    <3> QED BY <1>4, <3>1, FS_Subset
  <2>7. Cardinality(others) = Cardinality(asNew) - 1
    BY <2>5, <2>6, FS_RemoveElement
  <2> HIDE DEF others
  <2>8. list \in Injection(1 .. WindowLimit, others)
    <3>1. list \in [1 .. WindowLimit -> others]
      <4>1. list = [n \in DOMAIN list |-> list[n]]
        BY <1>3
      <4> QED BY <2>3, <2>4, <4>1
    <3> QED BY <1>3, <2>3, <3>1 DEF Injection, IsInjective
  <2>9. Cardinality(1 .. WindowLimit) = WindowLimit
    BY <1>2, FS_Interval
  <2>10. WindowLimit <= Cardinality(others)
    BY <2>6, <2>8, <2>9, FS_Injection
  <2>11. Cardinality(asNew) \in Nat
    BY <2>6, FS_CardinalityType
  <2> HIDE DEF asNew
  <2>12. Cardinality(asNew) > WindowLimit
    BY <1>2, <2>7, <2>10, <2>11
  <2> QED BY <2>12 DEF asNew
<1>7. ASSUME NEW x \in kept
      PROVE  x \in rows /\ Cardinality({y \in rows : Newer(y.id[1], x.id[1])}) < WindowLimit
  <2> DEFINE newer == {y \in rows : Newer(y.id[1], x.id[1])}
  <2>1. PICK n \in DOMAIN list : list[n] = x
    BY <1>7 DEF ToSet
  <2>2. x \in rows /\ n \in DOMAIN seq /\ seq[n] = x /\ n \in Nat /\ 1 <= n /\ n <= WindowLimit
    <3>1. n \in DOMAIN seq /\ seq[n] = x
      BY <1>3, <2>1
    <3>2. x \in rows
      BY <1>3, <2>1
    <3>3. n \in 1 .. Len(list) /\ Len(list) \in Nat /\ Len(list) <= WindowLimit
      BY <1>3, <2>1
    <3>4. n \in Nat /\ 1 <= n /\ n <= WindowLimit
      BY <1>2, <3>3
    <3> QED BY <3>1, <3>2, <3>4
  <2>3. \A y \in newer : \E m \in 1 .. n - 1 : seq[m] = y
    <3> SUFFICES ASSUME NEW y \in newer PROVE \E m \in 1 .. n - 1 : seq[m] = y
      OBVIOUS
    <3>1. PICK m \in DOMAIN seq : seq[m] = y
      BY <1>1 DEF Lists
    <3>2. seq \in Seq(rows)
      BY <1>1 DEF Lists
    <3>3. m \in Nat /\ 1 <= m
      BY <3>2
    <3>4. ~ NewerRow(x, y, scan)
      BY <1>5, <2>2
    <3>5. ~ (n < m)
      BY <1>1, <2>2, <3>1, <3>4
    <3>6. m # n
      <4>1. y # x
        BY RowsAreTimed, <2>2 DEF Newer
      <4> QED BY <2>2, <3>1, <4>1
    <3>7. m \in 1 .. n - 1
      BY <2>2, <3>3, <3>5, <3>6
    <3> QED BY <3>1, <3>7
  <2> DEFINE places == 1 .. n - 1
             at == [y \in newer |-> CHOOSE m \in places : seq[m] = y]
  <2>4. IsFiniteSet(places) /\ Cardinality(places) = n - 1
    BY <2>2, FS_Interval
  <2>5. \A y \in newer : at[y] \in places /\ seq[at[y]] = y
    BY <2>3
  <2>6. IsFiniteSet(newer)
    <3>1. newer \in SUBSET rows
      OBVIOUS
    <3> QED BY <1>4, <3>1, FS_Subset
  <2>7. at \in [newer -> places]
    BY <2>5
  <2> HIDE DEF at, places, newer
  <2>8. at \in Injection(newer, places)
    <3>1. \A y, z \in newer : at[y] = at[z] => y = z
      BY <2>5
    <3> QED BY <2>7, <3>1 DEF Injection, IsInjective
  <2>9. Cardinality(newer) <= n - 1
    BY <2>4, <2>6, <2>8, FS_Injection
  <2>10. Cardinality(newer) \in Nat
    BY <2>6, FS_CardinalityType
  <2>11. Cardinality(newer) < WindowLimit
    BY <1>2, <2>2, <2>9, <2>10
  <2> QED BY <2>2, <2>11 DEF newer
<1> HIDE DEF kept
<1>8. InWindow(rows) \subseteq kept
  <2> SUFFICES ASSUME NEW x \in InWindow(rows), x \notin kept PROVE FALSE
    OBVIOUS
  <2> DEFINE asNew == {y \in rows : ~ Newer(x.id[1], y.id[1])}
  <2>1. x \in rows /\ Cardinality(asNew) <= WindowLimit
    BY DEF InWindow
  <2>2. Cardinality(asNew) > WindowLimit
    BY <1>6, <2>1
  <2>3. Cardinality(asNew) \in Nat
    <3>1. asNew \in SUBSET rows
      OBVIOUS
    <3> QED BY <1>4, <3>1, FS_Subset, FS_CardinalityType
  <2> HIDE DEF asNew
  <2> QED BY <1>2, <2>1, <2>2, <2>3
<1>9. kept \subseteq MaybeInWindow(rows)
  BY <1>7 DEF MaybeInWindow
<1> QED BY <1>8, <1>9 DEF kept, list, seq

\* What is windowed of a test, from the oldest verdict on.
LEMMA WindowsOfVerdicts ==
    ASSUME TablesInv, NEW p, NEW b, NEW k, NEW scans \in Scans \X Scans
    PROVE  LET w == Window(p, b, k, scans)
               verdicts == VerdictsOn(p, b, k)
           IN  /\ DOMAIN w = 1 .. Len(w) /\ Len(w) \in Nat
               /\ \A i \in DOMAIN w : /\ w[i].status \in {"passed", "failed"}
                                     /\ w[i] \in MaybeInWindow(verdicts)
               /\ \A x \in InWindow(verdicts) : \E i \in DOMAIN w : w[i] = x
               /\ \A i, j \in DOMAIN w :
                     /\ w[i] = w[j] => i = j
                     /\ i < j => ~ Newer(w[i].id[1], w[j].id[1])
<1> DEFINE S == VerdictsOn(p, b, k)
           kept == ToSet(FirstOf(NewestRows(S, scans[1]), WindowLimit))
           w == Window(p, b, k, scans)
<1>1. S \in SUBSET AllRows /\ \A row \in S : row.status \in {"passed", "failed"}
  BY ResultsAreRows DEF VerdictsOn
<1>2. scans[1] \in Scans /\ scans[2] \in Scans
  OBVIOUS
<1>3. w = OldestRows(kept, scans[2])
  BY DEF Window
<1> HIDE DEF S
<1>4. InWindow(S) \subseteq kept /\ kept \subseteq MaybeInWindow(S)
  BY <1>1, <1>2, NewestRowsSuffice
<1> HIDE DEF kept, w
<1>5. kept \in SUBSET S
  BY <1>4 DEF MaybeInWindow
<1>6. kept \in SUBSET AllRows
  BY <1>1, <1>5
<1>7. /\ Lists(w, kept)
      /\ \A m, n \in DOMAIN w : m < n => NewerRow(w[n], w[m], scans[2])
  BY <1>2, <1>3, <1>6, OldestRowsLists
<1>8. w \in Seq(kept)
  BY <1>7 DEF Lists
<1>9. DOMAIN w = 1 .. Len(w) /\ Len(w) \in Nat /\ \A i \in DOMAIN w : w[i] \in kept
  BY <1>8
<1>10. \A i \in DOMAIN w : w[i].status \in {"passed", "failed"} /\ w[i] \in MaybeInWindow(S)
  BY <1>1, <1>4, <1>5, <1>9
<1>11. \A x \in InWindow(S) : \E i \in DOMAIN w : w[i] = x
  BY <1>4, <1>7 DEF Lists
<1>12. \A i, j \in DOMAIN w : w[i] = w[j] => i = j
  BY <1>7 DEF Lists
<1>13. ASSUME NEW i \in DOMAIN w, NEW j \in DOMAIN w, i < j
       PROVE  ~ Newer(w[i].id[1], w[j].id[1])
  <2>1. NewerRow(w[j], w[i], scans[2])
    BY <1>7, <1>13
  <2>2. w[i] \in AllRows /\ w[j] \in AllRows
    BY <1>6, <1>9
  <2> QED BY <2>1, <2>2, RowsAreTimed DEF NewerRow, Newer
<1> QED BY <1>9, <1>10, <1>11, <1>12, <1>13 DEF S, w

\* The verdicts of a window alternate only if those of its runs do, or a run has both
\* and is not alone; and they do if those of three of its runs do.
LEMMA RunsAlternate ==
    ASSUME TablesInv, NEW p, NEW b, NEW k, NEW scans \in Scans \X Scans
    PROVE  LET verdicts == VerdictsOn(p, b, k)
               last == MaybeInWindow(verdicts)
               flaky == IsFlaky(Window(p, b, k, scans))
           IN  /\ flaky => \/ WentToAndFro(last)
                           \/ IsDivided(last) /\ Cardinality(last) > 2
               /\ WentToAndFro(InWindow(verdicts)) => flaky
<1> DEFINE S == VerdictsOn(p, b, k)
           last == MaybeInWindow(S)
           w == Window(p, b, k, scans)
<1>1. /\ DOMAIN w = 1 .. Len(w) /\ Len(w) \in Nat
      /\ \A i \in DOMAIN w : w[i].status \in {"passed", "failed"} /\ w[i] \in last
      /\ \A x \in InWindow(S) : \E i \in DOMAIN w : w[i] = x
      /\ \A i, j \in DOMAIN w :
            /\ w[i] = w[j] => i = j
            /\ i < j => ~ Newer(w[i].id[1], w[j].id[1])
  BY WindowsOfVerdicts
<1>2. S \in SUBSET AllRows
  BY ResultsAreRows DEF VerdictsOn
<1>3. last \in SUBSET AllRows /\ InWindow(S) \in SUBSET AllRows
  BY <1>2 DEF MaybeInWindow, InWindow
<1> HIDE DEF S, last, w
<1>4. IsFlaky(w) <=> \E i, j, l \in DOMAIN w : /\ i < j /\ j < l
                                              /\ w[i].status = w[l].status
                                              /\ w[i].status # w[j].status
  <2>1. DOMAIN w = 1 .. Len(w) /\ Len(w) \in Nat
    BY <1>1
  <2>2. \A i \in DOMAIN w : w[i].status \in {"passed", "failed"}
    BY <1>1
  <2> QED BY <2>1, <2>2, FlakyAlternates, Zenon
\* Of rows of different runs one is newer, and never each of two.
<1>5. \A x, y \in AllRows :
         ~ Newer(x.id[1], y.id[1]) => x.id[1] = y.id[1] \/ Newer(y.id[1], x.id[1])
  BY RowsAreTimed DEF Newer, TablesInv, UploadsAreApart
<1>6. \A x, y \in AllRows : Newer(x.id[1], y.id[1]) => x # y /\ ~ Newer(y.id[1], x.id[1])
  BY RowsAreTimed DEF Newer
<1>7. ASSUME NEW i \in DOMAIN w, NEW j \in DOMAIN w, NEW l \in DOMAIN w, i < j, j < l,
             w[i].status = w[l].status, w[i].status # w[j].status
      PROVE  WentToAndFro(last) \/ (IsDivided(last) /\ Cardinality(last) > 2)
  <2> DEFINE x == w[i]
             y == w[j]
             z == w[l]
  <2>1. x \in last /\ y \in last /\ z \in last
    BY <1>1
  <2>2. x.status = z.status /\ x.status # y.status
    BY <1>7
  <2>3. ~ Newer(x.id[1], y.id[1]) /\ ~ Newer(y.id[1], z.id[1])
    BY <1>1, <1>7
  <2>4. x # y /\ y # z /\ x # z
    <3>1. i \in Nat /\ j \in Nat /\ l \in Nat
      BY <1>1
    <3>2. i # j /\ j # l /\ i # l
      BY <1>7, <3>1
    <3> QED BY <1>1, <3>2
  <2> HIDE DEF x, y, z
  <2>5. Cardinality(last) > 2
    <3>1. IsFiniteSet(last) /\ Cardinality(last) \in Nat
      BY <1>3, RowsAreFinite, FS_Subset, FS_CardinalityType
    <3>2. IsFiniteSet(last \ {x}) /\ Cardinality(last \ {x}) = Cardinality(last) - 1
      BY <2>1, <3>1, FS_RemoveElement
    <3>3. y \in last \ {x} /\ z \in (last \ {x}) \ {y}
      BY <2>1, <2>4
    <3>4. /\ IsFiniteSet((last \ {x}) \ {y})
          /\ Cardinality((last \ {x}) \ {y}) = Cardinality(last \ {x}) - 1
      BY <3>2, <3>3, FS_RemoveElement
    <3>5. Cardinality((last \ {x}) \ {y}) \in Nat /\ Cardinality((last \ {x}) \ {y}) # 0
      BY <3>3, <3>4, FS_CardinalityType, FS_EmptySet
    <3> QED BY <3>1, <3>2, <3>4, <3>5
  <2>6. CASE x.id[1] = y.id[1]
    BY <2>1, <2>2, <2>5, <2>6 DEF IsDivided
  <2>7. CASE y.id[1] = z.id[1]
    BY <2>1, <2>2, <2>5, <2>7 DEF IsDivided
  <2>8. CASE x.id[1] # y.id[1] /\ y.id[1] # z.id[1]
    <3>1. Newer(y.id[1], x.id[1]) /\ Newer(z.id[1], y.id[1])
      BY <1>3, <1>5, <2>1, <2>3, <2>8
    <3> QED BY <2>1, <2>2, <3>1 DEF WentToAndFro
  <2> QED BY <2>6, <2>7, <2>8
<1>8. ASSUME WentToAndFro(InWindow(S))
      PROVE  \E i, j, l \in DOMAIN w : /\ i < j /\ j < l
                                       /\ w[i].status = w[l].status
                                       /\ w[i].status # w[j].status
  <2>1. PICK x \in InWindow(S), y \in InWindow(S), z \in InWindow(S) :
           /\ Newer(y.id[1], x.id[1]) /\ Newer(z.id[1], y.id[1])
           /\ x.status = z.status /\ x.status # y.status
    BY <1>8 DEF WentToAndFro
  <2>2. PICK i \in DOMAIN w : w[i] = x
    BY <1>1
  <2>3. PICK j \in DOMAIN w : w[j] = y
    BY <1>1
  <2>4. PICK l \in DOMAIN w : w[l] = z
    BY <1>1
  <2>5. i \in Nat /\ j \in Nat /\ l \in Nat
    BY <1>1
  <2>6. x # y /\ y # z
    BY <1>3, <1>6, <2>1
  <2>7. ~ (j < i) /\ ~ (l < j)
    BY <1>1, <2>1, <2>2, <2>3, <2>4
  <2>8. i < j /\ j < l
    BY <2>2, <2>3, <2>4, <2>5, <2>6, <2>7
  <2> QED BY <2>1, <2>2, <2>3, <2>4, <2>8
<1> QED BY <1>4, <1>7, <1>8 DEF S, last, w

\* The list of flaky tests has only those, and all of them unless it is full.
LEMMA FlakyTestsListed ==
    ASSUME TablesInv, NEW p, NEW b, NEW scans \in Scans \X Scans, NEW k \in Keys
    PROVE  LET list == GetFlakyTests(p, b, scans)
               flaky == IsFlaky(Window(p, b, k, scans))
           IN  IF \E i \in DOMAIN list : list[i].key = k
               THEN flaky
               ELSE flaky => Len(list) = TopLimit
<1> DEFINE K == {l \in Keys : IsFlaky(Window(p, b, l, scans))}
           item == [l \in K |-> FlakyTest(l, Window(p, b, l, scans))]
           flaky == {FlakyTest(l, Window(p, b, l, scans)) :
                        l \in {l \in Keys : IsFlaky(Window(p, b, l, scans))}}
           R == {e \in flaky \X flaky : Flakier(e[1], e[2])}
           list == FirstOf(InOrder(flaky, R), TopLimit)
<1>1. GetFlakyTests(p, b, scans) = list
  BY DEF GetFlakyTests
<1>2. k \in K <=> IsFlaky(Window(p, b, k, scans))
  OBVIOUS
<1>3. flaky = {item[l] : l \in K}
  OBVIOUS
<1>4. \A l \in K : /\ item[l].key = l
                   /\ item[l].transitions \in Int
                   /\ item[l].failures \in Int
  <2> SUFFICES ASSUME NEW l \in K
               PROVE  LET w == Window(p, b, l, scans) IN
                      /\ FlakyTest(l, w).key = l
                      /\ FlakyTest(l, w).transitions \in Int
                      /\ FlakyTest(l, w).failures \in Int
    OBVIOUS
  <2> DEFINE w == Window(p, b, l, scans)
             T == {i \in 2 .. Len(w) : w[i].status # w[i - 1].status}
             F == {i \in DOMAIN w : w[i].status = "failed"}
  <2>1. DOMAIN w = 1 .. Len(w) /\ Len(w) \in Nat
    BY WindowsOfVerdicts
  <2> HIDE DEF w
  <2>2. FlakyTest(l, w) = [key |-> l, transitions |-> Cardinality(T),
                           failures |-> Cardinality(F), total |-> Len(w)]
    BY DEF FlakyTest, Transitions
  <2>3. IsFiniteSet(1 .. Len(w)) /\ IsFiniteSet(2 .. Len(w))
    BY <2>1, FS_Interval
  <2>4. T \in SUBSET (2 .. Len(w)) /\ F \in SUBSET (1 .. Len(w))
    BY <2>1
  <2> HIDE DEF T, F
  <2>5. Cardinality(T) \in Nat /\ Cardinality(F) \in Nat
    BY <2>3, <2>4, FS_Subset, FS_CardinalityType
  <2> QED BY <2>2, <2>5 DEF w
<1>5. K \subseteq Keys /\ \A l \in Keys : l \in Int
  BY AnalyticsAssumption
<1>6. item = [l \in K |-> item[l]]
  OBVIOUS
<1>7. \A x, y : <<x, y>> \in R <=> x \in flaky /\ y \in flaky /\ Flakier(x, y)
  OBVIOUS
<1> HIDE DEF K, item, flaky, R
<1>8. IsFiniteSet(flaky)
  <2>1. IsFiniteSet(K)
    BY <1>5, AnalyticsAssumption, FS_Subset
  <2>2. item \in Surjection(K, flaky)
    BY <1>3, <1>6 DEF Surjection
  <2> QED BY <2>1, <2>2, FS_Surjection
<1>9. \A x \in flaky : /\ x.key \in K /\ x = item[x.key]
                       /\ x.key \in Int /\ x.transitions \in Int /\ x.failures \in Int
  BY <1>3, <1>4, <1>5
<1>10. StrictOrder(flaky, R)
  <2>1. \A x \in flaky : <<x, x>> \notin R
    BY <1>7, <1>9 DEF Flakier
  <2>2. ASSUME NEW x \in flaky, NEW y \in flaky, x # y PROVE <<x, y>> \in R \/ <<y, x>> \in R
    <3>1. x.key # y.key
      BY <1>9, <2>2
    <3> QED BY <1>7, <1>9, <3>1 DEF Flakier
  <2>3. \A x, y, z \in flaky : <<x, y>> \in R /\ <<y, z>> \in R => <<x, z>> \in R
    BY <1>7, <1>9 DEF Flakier
  <2> QED BY <2>1, <2>2, <2>3 DEF StrictOrder
<1>11. /\ list \in Seq(flaky)
       /\ \A x \in flaky : (\E n \in DOMAIN list : list[n] = x) \/ Len(list) = TopLimit
  <2>1. TopLimit \in Nat
    BY AnalyticsAssumption
  <2> QED BY <1>8, <1>10, <2>1, FirstOnes
<1> HIDE DEF list
<1>12. ASSUME NEW i \in DOMAIN list, list[i].key = k PROVE k \in K
  BY <1>9, <1>11, <1>12
<1>13. ASSUME k \in K, ~ \E i \in DOMAIN list : list[i].key = k PROVE Len(list) = TopLimit
  <2>1. item[k] \in flaky /\ item[k].key = k
    BY <1>3, <1>4, <1>13
  <2> QED BY <1>11, <1>13, <2>1
<1> QED BY <1>1, <1>2, <1>12, <1>13

\* In whatever order the two sorts of GetFlakyTests put the results of a run: to break
\* once or to be repaired once makes no test flaky on which its runs are not divided,
\* and a test that went to and fro between runs is listed, unless the list is full;
\* at every step that reads the list, for windows and lists of any size.
THEOREM FlakyTestsHaveAlternated == Spec => FlakyTestsAlternate
<1> DEFINE verdicts(k) == VerdictsOn(visit.project, visit.branch, k)
           last(k) == MaybeInWindow(verdicts(k))
           suspect(k) == \/ WentToAndFro(last(k))
                         \/ IsDivided(last(k)) /\ Cardinality(last(k)) > 2
           sure(k) == WentToAndFro(InWindow(verdicts(k)))
           listed == \A k \in Keys :
                        IF \E i \in DOMAIN visit'.flaky : visit'.flaky[i].key = k
                        THEN suspect(k)
                        ELSE sure(k) => Len(visit'.flaky) = TopLimit
<1>1. ASSUME PagesInv, [Next]_vars, visit.next = "flaky", visit'.next = "slowest"
      PROVE  listed
  <2>1. TablesInv /\ VisitInv
    BY <1>1 DEF PagesInv
  <2>2. ReadFlaky
    <3>1. CASE Others \/ UNCHANGED vars
      BY <1>1, <2>1, <3>1, OthersMoveOn DEF vars
    <3>2. CASE Open \/ QueryFails \/ Respond
      BY <1>1, <3>2, BlankFields DEF Open, QueryFails, Respond, Ended, Fields
    <3>3. CASE ListRuns \/ ReadFailing \/ ReadSlowest \/ GetRun \/ ReadResults \/ ReadRecent
               \/ ReadHistory \/ ReadChart
      BY <1>1, <3>3 DEF ListRuns, ReadFailing, ReadSlowest, GetRun, ReadResults, ReadRecent,
                        ReadHistory, ReadChart, Reads
    <3> QED BY <1>1, <3>1, <3>2, <3>3 DEF Next, Handle
  <2>3. PICK scans \in Scans \X Scans :
           visit' = Go("flaky", [visit EXCEPT
                       !.flaky = GetFlakyTests(visit.project, visit.branch, scans)])
    BY <2>2 DEF ReadFlaky
  <2> DEFINE list == GetFlakyTests(visit.project, visit.branch, scans)
             flaky(k) == IsFlaky(Window(visit.project, visit.branch, k, scans))
  <2>4. visit'.flaky = list
    <3> HIDE DEF list
    <3>1. visit' = Go("flaky", [visit EXCEPT !.flaky = list])
      BY <2>3 DEF list
    <3> QED BY <2>1, <3>1 DEF VisitInv, VisitTypeOK, Fields, Go
  <2>5. ASSUME NEW k \in Keys
        PROVE  IF \E i \in DOMAIN list : list[i].key = k
               THEN suspect(k)
               ELSE sure(k) => Len(list) = TopLimit
    <3>1. (flaky(k) => suspect(k)) /\ (sure(k) => flaky(k))
      BY <2>1, RunsAlternate
    <3>2. IF \E i \in DOMAIN list : list[i].key = k
          THEN flaky(k)
          ELSE flaky(k) => Len(list) = TopLimit
      BY <2>1, FlakyTestsListed
    <3> HIDE DEF list, flaky, suspect, sure
    <3> QED BY <3>1, <3>2
  <2> HIDE DEF list, suspect, sure
  <2> QED BY <2>4, <2>5
<1>2. PagesInv /\ [Next]_vars =>
         [(visit.next = "flaky" /\ visit'.next = "slowest") => listed]_vars
  BY <1>1
<1>3. Spec => [][(visit.next = "flaky" /\ visit'.next = "slowest") => listed]_vars
  <2> HIDE DEF listed
  <2> QED BY <1>2, PagesInvHolds, PTL DEF Spec
<1> QED BY <1>3 DEF FlakyTestsAlternate
=============================================================================
