------------------------- MODULE ProjectTree_proofs -------------------------
(***************************************************************************)
(* Proofs about ProjectTree, for every number of folders, documents and    *)
(* transactions.                                                           *)
(***************************************************************************)
EXTENDS ProjectTree, FiniteSetTheorems, WellFoundedInduction, TLAPS

-----------------------------------------------------------------------------
(* The way up from a folder.  Induction is over the members of a set of    *)
(* numbers: one that were left out would make a least one.                 *)

LEMMA LeastNumber ==
  ASSUME NEW T \in SUBSET Nat, T # {}
  PROVE  \E n \in T : \A m \in T : n <= m
<1>1. PICK R : R = {pair \in Nat \X Nat : pair[1] < pair[2]}
  OBVIOUS
<1>2. IsWellFoundedOn(R, Nat)
  BY <1>1, NatLessThanWellFounded, Zenon DEF OpToRel
<1>3. PICK n \in T : \A m \in T : ~ (<<m, n>> \in R)
  BY <1>2, WFMin
<1>4. \A m, k \in Nat : <<m, k>> \in R <=> m < k
  BY <1>1
<1>5. ASSUME NEW m \in T PROVE n <= m
  <2>1. ~(m < n)
    BY <1>3, <1>4
  <2> QED BY <2>1
<1> QED BY <1>5

LEMMA CountingUp ==
  ASSUME NEW T, 0 \in T, \A n \in Nat : n \in T => n + 1 \in T
  PROVE  Nat \subseteq T
<1>1. SUFFICES ASSUME Nat \ T # {} PROVE FALSE
  OBVIOUS
<1>2. PICK n \in Nat \ T : \A m \in Nat \ T : n <= m
  BY <1>1, LeastNumber
<1>3. n # 0 /\ n - 1 \in Nat /\ ~(n <= n - 1) /\ (n - 1) + 1 = n
  BY <1>2
<1>4. n - 1 \in T
  BY <1>2, <1>3
<1> QED BY <1>2, <1>3, <1>4

(* One step up from a set of places, as in Upwards.                        *)
Up(r, S) == S \cup {r[f].parent : f \in S \cap Folders}

(* A way of n steps up from a place.                                       *)
IsWay(way, r, place, n) ==
  way = [m \in 0..n |-> IF m = 0 THEN {place} ELSE Up(r, way[m - 1])]

LEMMA WaysExist ==
  ASSUME NEW r, NEW place, NEW N \in Nat
  PROVE  \E way : IsWay(way, r, place, N)
<1>1. PICK T : T = {n \in Nat : \E way : IsWay(way, r, place, n)}
  OBVIOUS
<1>2. 0 \in T
  <2>1. PICK way : way = [m \in 0..0 |-> {place}]
    OBVIOUS
  <2>2. IsWay(way, r, place, 0)
    BY <2>1 DEF IsWay
  <2> QED BY <1>1, <2>2
<1>3. ASSUME NEW n \in Nat, n \in T PROVE n + 1 \in T
  <2>1. PICK way : IsWay(way, r, place, n)
    BY <1>1, <1>3
  <2>2. PICK more : more = [m \in 0..(n + 1) |->
                              IF m = n + 1 THEN Up(r, way[n]) ELSE way[m]]
    OBVIOUS
  <2>3. ASSUME NEW m \in 0..(n + 1)
        PROVE  more[m] = IF m = 0 THEN {place} ELSE Up(r, more[m - 1])
    <3>1. CASE m = n + 1
      <4>1. n \in 0..(n + 1) /\ n # n + 1 /\ m - 1 = n /\ m # 0
        BY <3>1
      <4>2. more[n] = way[n]
        BY <2>2, <4>1
      <4> QED BY <2>2, <3>1, <4>1, <4>2
    <3>2. CASE m # n + 1
      <4>1. m \in 0..n /\ more[m] = way[m]
        BY <2>2, <3>2
      <4>2. way[m] = IF m = 0 THEN {place} ELSE Up(r, way[m - 1])
        BY <2>1, <4>1 DEF IsWay
      <4>3. m # 0 => m - 1 \in 0..(n + 1) /\ m - 1 # n + 1
        BY <4>1
      <4>4. m # 0 => more[m - 1] = way[m - 1]
        BY <2>2, <4>3
      <4> QED BY <4>1, <4>2, <4>4
    <3> QED BY <3>1, <3>2
  <2>4. IsWay(more, r, place, n + 1)
    BY <2>2, <2>3 DEF IsWay
  <2> QED BY <1>1, <2>4
<1>4. Nat \subseteq T
  BY <1>2, <1>3, CountingUp
<1> QED BY <1>1, <1>4

LEMMA WaySteps ==
  ASSUME NEW way, NEW r, NEW place, NEW N \in Nat, IsWay(way, r, place, N)
  PROVE  /\ way[0] = {place}
         /\ \A n \in 0..N : n + 1 <= N => way[n + 1] = Up(r, way[n])
<1>1. way[0] = {place}
  <2>1. 0 \in 0..N
    OBVIOUS
  <2> QED BY <2>1 DEF IsWay
<1>2. ASSUME NEW n \in 0..N, n + 1 <= N PROVE way[n + 1] = Up(r, way[n])
  <2>1. n + 1 \in 0..N /\ n + 1 # 0 /\ (n + 1) - 1 = n
    BY <1>2
  <2> QED BY <2>1 DEF IsWay
<1> QED BY <1>1, <1>2

(* Upwards, of any rows.                                                   *)
Above(r, place) ==
  LET above[n \in 0..Cardinality(Folders)] ==
        IF n = 0 THEN {place}
        ELSE above[n - 1] \cup {r[f].parent : f \in above[n - 1] \cap Folders}
  IN  above[Cardinality(Folders)]

LEMMA AboveIsAWay ==
  ASSUME NEW r, NEW place
  PROVE  \E way : /\ IsWay(way, r, place, Cardinality(Folders))
                  /\ Above(r, place) = way[Cardinality(Folders)]
<1>1. Cardinality(Folders) \in Nat
  BY FoldersAssumption, FS_CardinalityType
<1>2. PICK N : N = Cardinality(Folders)
  OBVIOUS
<1>3. PICK some : IsWay(some, r, place, N)
  BY <1>1, <1>2, WaysExist
<1>4. PICK way : way = CHOOSE w : IsWay(w, r, place, N)
  OBVIOUS
<1>5. IsWay(way, r, place, N)
  BY <1>3, <1>4
<1>6. Above(r, place) = way[N]
  BY <1>2, <1>4 DEF Above, IsWay, Up
<1> QED BY <1>2, <1>5, <1>6

(* A set of places that the way up does not leave.                         *)
Closed(r, S) == \A f \in S \cap Folders : r[f].parent \in S

LEMMA UpTypes ==
  ASSUME NEW r \in [Rows -> Row], NEW S \in SUBSET Places
  PROVE  Up(r, S) \in SUBSET Places
<1>1. \A f \in Folders : r[f].parent \in Places
  BY DEF Rows, Row
<1> QED BY <1>1 DEF Up

(* Either nothing is new, or there is one more folder on the way.          *)
LEMMA UpGrows ==
  ASSUME NEW r \in [Rows -> Row], NEW S \in SUBSET Places, NEW n \in Nat,
         ~Closed(r, Up(r, S)), Cardinality(S \cap Folders) > n
  PROVE  Cardinality(Up(r, S) \cap Folders) > n + 1
<1>1. PICK g \in Up(r, S) \cap Folders : r[g].parent \notin Up(r, S)
  BY DEF Closed
<1>2. g \notin S
  BY <1>1 DEF Up
<1>3. PICK old : old = S \cap Folders
  OBVIOUS
<1>4. PICK new : new = Up(r, S) \cap Folders
  OBVIOUS
<1>5. IsFiniteSet(old) /\ IsFiniteSet(new) /\ old \cup {g} \subseteq new /\ g \notin old
  BY <1>1, <1>2, <1>3, <1>4, FoldersAssumption, FS_Subset DEF Up
<1>6. /\ Cardinality(old \cup {g}) = Cardinality(old) + 1
      /\ Cardinality(old \cup {g}) <= Cardinality(new)
  BY <1>5, FS_AddElement, FS_Subset
<1>7. /\ Cardinality(old) \in Nat
      /\ Cardinality(new) \in Nat
  BY <1>5, FS_CardinalityType
<1> QED BY <1>3, <1>4, <1>6, <1>7

LEMMA ClosedStays ==
  ASSUME NEW r, NEW S, Closed(r, S)
  PROVE  Up(r, S) = S
BY DEF Closed, Up

(* The way up ends after as many steps as there are folders.               *)
LEMMA WayEnds ==
  ASSUME NEW r \in [Rows -> Row], NEW place \in Places, NEW way,
         IsWay(way, r, place, Cardinality(Folders))
  PROVE  /\ way[Cardinality(Folders)] \in SUBSET Places
         /\ Closed(r, way[Cardinality(Folders)])
<1>1. PICK N \in Nat : N = Cardinality(Folders)
  BY FoldersAssumption, FS_CardinalityType
<1>2. /\ way[0] = {place}
      /\ \A n \in 0..N : n + 1 <= N => way[n + 1] = Up(r, way[n])
  BY <1>1, WaySteps
<1>3. PICK T : T = {n \in Nat : n <= N =>
                      /\ way[n] \in SUBSET Places
                      /\ Closed(r, way[n]) \/ Cardinality(way[n] \cap Folders) > n}
  OBVIOUS
<1>4. 0 \in T
  <2>1. CASE place \in Folders
    <3>1. {place} \cap Folders = {place} /\ Cardinality({place}) = 1
      BY <2>1, FS_Singleton
    <3>2. Cardinality(way[0] \cap Folders) > 0 /\ way[0] \in SUBSET Places
      BY <1>2, <3>1
    <3> QED BY <1>3, <3>2
  <2>2. CASE place \notin Folders
    <3>1. Closed(r, {place})
      BY <2>2 DEF Closed
    <3> QED BY <1>2, <1>3, <3>1
  <2> QED BY <2>1, <2>2
<1>5. ASSUME NEW n \in Nat, n \in T PROVE n + 1 \in T
  <2>1. CASE n + 1 <= N
    <3>1. n <= N /\ n \in 0..N
      BY <2>1
    <3>2. way[n + 1] = Up(r, way[n]) /\ way[n] \in SUBSET Places
      BY <1>2, <1>3, <1>5, <2>1, <3>1
    <3>3. way[n + 1] \in SUBSET Places
      BY <3>2, UpTypes
    <3>4. CASE Closed(r, way[n])
      <4>1. Closed(r, way[n + 1])
        BY <3>2, <3>4, ClosedStays
      <4> QED BY <1>3, <3>3, <4>1
    <3>5. CASE Cardinality(way[n] \cap Folders) > n
      <4>1. Closed(r, way[n + 1]) \/ Cardinality(way[n + 1] \cap Folders) > n + 1
        BY <3>2, <3>5, UpGrows
      <4> QED BY <1>3, <3>3, <4>1
    <3> QED BY <1>3, <1>5, <3>1, <3>4, <3>5
  <2>2. CASE ~(n + 1 <= N)
    BY <1>3, <2>2
  <2> QED BY <2>1, <2>2
<1>6. N \in T /\ N <= N
  BY <1>4, <1>5, CountingUp
<1>7. ~(Cardinality(way[N] \cap Folders) > N)
  <2>1. Cardinality(way[N] \cap Folders) <= Cardinality(Folders)
    BY FoldersAssumption, FS_Subset
  <2>2. Cardinality(way[N] \cap Folders) \in Nat
    BY FoldersAssumption, FS_Subset, FS_CardinalityType
  <2> QED BY <1>1, <2>1, <2>2
<1> QED BY <1>1, <1>3, <1>6, <1>7

(* The way up is the smallest set of places that holds its start and that  *)
(* it does not leave.                                                      *)
LEMMA AboveHolds ==
  ASSUME NEW r \in [Rows -> Row], NEW place \in Places
  PROVE  place \in Above(r, place) /\ Closed(r, Above(r, place))
<1>1. PICK N \in Nat : N = Cardinality(Folders)
  BY FoldersAssumption, FS_CardinalityType
<1>2. PICK way : IsWay(way, r, place, N) /\ Above(r, place) = way[N]
  BY <1>1, AboveIsAWay
<1>3. /\ way[0] = {place}
      /\ \A n \in 0..N : n + 1 <= N => way[n + 1] = Up(r, way[n])
  BY <1>2, WaySteps
<1>4. PICK T : T = {n \in Nat : n <= N => place \in way[n]}
  OBVIOUS
<1>5. 0 \in T
  BY <1>3, <1>4
<1>6. ASSUME NEW n \in Nat, n \in T PROVE n + 1 \in T
  <2>1. SUFFICES ASSUME n + 1 <= N PROVE place \in way[n + 1]
    BY <1>4
  <2>2. n \in 0..N /\ n <= N
    BY <2>1
  <2> QED BY <1>3, <1>4, <1>6, <2>1, <2>2 DEF Up
<1>7. N \in T /\ N <= N
  BY <1>5, <1>6, CountingUp
<1> QED BY <1>1, <1>2, <1>4, <1>7, WayEnds

LEMMA AboveLeast ==
  ASSUME NEW r \in [Rows -> Row], NEW place \in Places, NEW S, place \in S, Closed(r, S)
  PROVE  Above(r, place) \subseteq S
<1>1. PICK N \in Nat : N = Cardinality(Folders)
  BY FoldersAssumption, FS_CardinalityType
<1>2. PICK way : IsWay(way, r, place, N) /\ Above(r, place) = way[N]
  BY <1>1, AboveIsAWay
<1>3. /\ way[0] = {place}
      /\ \A n \in 0..N : n + 1 <= N => way[n + 1] = Up(r, way[n])
  BY <1>2, WaySteps
<1>4. PICK T : T = {n \in Nat : n <= N => way[n] \subseteq S}
  OBVIOUS
<1>5. 0 \in T
  BY <1>3, <1>4
<1>6. ASSUME NEW n \in Nat, n \in T PROVE n + 1 \in T
  <2>1. SUFFICES ASSUME n + 1 <= N PROVE way[n + 1] \subseteq S
    BY <1>4
  <2>2. n \in 0..N /\ n <= N
    BY <2>1
  <2> QED BY <1>3, <1>4, <1>6, <2>1, <2>2 DEF Up, Closed
<1>7. N \in T /\ N <= N
  BY <1>5, <1>6, CountingUp
<1> QED BY <1>1, <1>2, <1>4, <1>7

(* The folders stay a tree when a folder is put under a place that is not  *)
(* below it, and when no folder changes its parent.                        *)
LEMMA MoveKeepsTree ==
  ASSUME NEW r \in [Rows -> Row], NEW s \in [Rows -> Row], NEW n \in Folders,
         \A f \in Folders \ {n} : s[f].parent = r[f].parent,
         n \notin Above(r, s[n].parent), Root \in Above(r, s[n].parent),
         NEW f \in Folders, f # n => Root \in Above(r, f)
  PROVE  Root \in Above(s, f)
<1>1. PICK U : U = Above(s, f)
  OBVIOUS
<1>2. f \in U /\ Closed(s, U)
  BY <1>1, AboveHolds DEF Places
<1>3. CASE n \in U
  <2>1. PICK p \in Places : p = s[n].parent
    BY DEF Rows, Row
  <2>2. p \in U
    BY <1>2, <1>3, <2>1 DEF Closed
  <2>3. PICK A : A = Above(r, p)
    OBVIOUS
  <2>4. p \in A /\ Closed(r, A) /\ n \notin A /\ Root \in A
    BY <2>1, <2>3, AboveHolds
  <2>5. Closed(r, U \cap A)
    BY <1>2, <2>4 DEF Closed
  <2>6. A \subseteq U \cap A
    BY <2>2, <2>3, <2>4, <2>5, AboveLeast
  <2> QED BY <1>1, <2>4, <2>6
<1>4. CASE n \notin U
  <2>1. Closed(r, U)
    BY <1>2, <1>4 DEF Closed
  <2>2. Above(r, f) \subseteq U
    BY <1>2, <2>1, AboveLeast DEF Places
  <2> QED BY <1>1, <1>2, <1>4, <2>2
<1> QED BY <1>3, <1>4

LEMMA SameParentsKeepTree ==
  ASSUME NEW r \in [Rows -> Row], NEW s \in [Rows -> Row],
         \A f \in Folders : s[f].parent = r[f].parent,
         NEW f \in Folders, Root \in Above(r, f)
  PROVE  Root \in Above(s, f)
<1>1. f \in Above(s, f) /\ Closed(s, Above(s, f))
  BY AboveHolds DEF Places
<1>2. Closed(r, Above(s, f))
  BY <1>1 DEF Closed
<1> QED BY <1>1, <1>2, AboveLeast DEF Places

LEMMA UpwardsIsAbove ==
  /\ \A place : Upwards(place) = Above(row, place)
  /\ \A place : Upwards(place)' = Above(row', place)
<1>1. ASSUME NEW place PROVE Upwards(place) = Above(row, place)
  BY DEF Upwards, Above
<1>2. ASSUME NEW place PROVE Upwards(place)' = Above(row', place)
  BY DEF Upwards, Above
<1> QED BY <1>1, <1>2

-----------------------------------------------------------------------------
(* The inductive invariant.                                                *)

Active(t) == tx[t].step \in {"checked", "written"}

(* The row that a transaction has seen was there, or it is inserted; it is *)
(* still there unchanged if its updated_at has not moved on.               *)
SeenSound(t) ==
  tx[t].step # "idle" =>
    /\ tx[t].seen.state # "deleted"
    /\ tx[t].step = "seen" => ~Inserts(t)
    /\ Inserts(t) => row[tx[t].node] = tx[t].seen
    /\ ~Inserts(t) =>
         /\ row[tx[t].node].state # "absent"
         /\ tx[t].seen.stamp <= row[tx[t].node].stamp
         /\ Unchanged(t) => row[tx[t].node] = tx[t].seen

(* A written row replaces the very row that was seen and moves its         *)
(* updated_at on; no row is written back to what is not there.             *)
WriteSound(t) ==
  /\ Active(t) => tx[t].new.state # "absent"
  /\ tx[t].step = "written" =>
       /\ row[tx[t].node] = tx[t].seen
       /\ ~Inserts(t) => tx[t].seen.stamp < tx[t].new.stamp

(* A row is inserted by one transaction.                                   *)
OneInsert ==
  \A t, u \in Transactions :
    /\ Active(t) /\ Inserts(t)
    /\ Active(u) /\ Inserts(u)
    /\ tx[t].node = tx[u].node
    => t = u

(* What the checks of a transaction found that runs alone.                 *)
Sole(t) == \A u \in Transactions : Active(u) => u = t

MoveSound(t) ==
  Active(t) =>
    /\ Sole(t)
    /\ tx[t].node # Project /\ tx[t].new.state = "live" =>
         \/ ValidParent(tx[t].new.parent)
         \/ ~Inserts(t) /\ tx[t].new.parent = tx[t].seen.parent
    /\ tx[t].new.state = "deleted" =>
         /\ tx[t].new.parent = tx[t].seen.parent
         /\ \A n \in Folders \cup Documents : Live(n) => row[n].parent # tx[t].node
    /\ tx[t].step = "written" /\ tx[t].new.state = "live" =>
         PreventFolderCycle(tx[t].node, tx[t].new.parent)

Changing ==
  /\ \A t \in Transactions : SeenSound(t) /\ WriteSound(t)
  /\ OneInsert

Calm ==
  overlapped
    \/ (/\ FoldersFormTree /\ FoldersWithContentsLive
        /\ \A t \in Transactions : MoveSound(t))

IInv == TypeOK /\ Changing /\ Calm

-----------------------------------------------------------------------------
(* The invariant is inductive.                                             *)

LEMMA TxTypes ==
  ASSUME TypeOK, NEW t \in Transactions
  PROVE  /\ tx[t].step \in {"idle", "seen", "checked", "written"}
         /\ tx[t].step # "idle" => tx[t].node \in Rows /\ tx[t].seen \in Row
         /\ Active(t) => tx[t].new \in Row
         /\ tx[t] = Idle <=> tx[t].step = "idle"
<1>1. tx[t] \in Transaction
  BY DEF TypeOK
<1>2. CASE tx[t] \in [step : {"idle"}]
  BY <1>2 DEF Active, Idle
<1>3. CASE tx[t] \in [step : {"seen"}, node : Rows, seen : Row]
  BY <1>3 DEF Active, Idle
<1>4. CASE tx[t] \in [step : {"checked", "written"}, node : Rows, seen : Row, new : Row]
  BY <1>4 DEF Active, Idle
<1> QED BY <1>1, <1>2, <1>3, <1>4 DEF Transaction

LEMMA InitInv == Init => IInv
<1> SUFFICES ASSUME Init PROVE IInv
  OBVIOUS
<1>1. Root \in Places /\ 0 \in 0..MaxStamp
  BY MaxStampAssumption DEF Places
<1>2. Absent \in Row /\ [Absent EXCEPT !.state = "live"] \in Row
  BY <1>1 DEF Absent, Row
<1>3. row \in [Rows -> Row]
  BY <1>2 DEF Init
<1>4. \A t \in Transactions : tx[t] = Idle /\ tx[t].step = "idle"
  BY DEF Init, Idle
<1>5. tx \in [Transactions -> Transaction]
  BY DEF Init, Idle, Transaction
<1>6. TypeOK
  BY <1>3, <1>4, <1>5 DEF Init, TypeOK
<1>7. Changing
  BY <1>4 DEF Changing, SeenSound, WriteSound, OneInsert, Active
<1>8. \A n \in Rows : row[n].parent = Root
  BY DEF Init, Absent
<1>9. FoldersFormTree
  <2>1. \A n \in Folders \cup Documents : ~Live(n)
    BY RowsAssumption DEF Init, Absent, Rows, Live
  <2> QED BY <2>1 DEF FoldersFormTree
<1>10. FoldersWithContentsLive
  BY <1>8 DEF FoldersWithContentsLive, ValidParent, Rows
<1>11. \A t \in Transactions : MoveSound(t)
  BY <1>4 DEF MoveSound, Active
<1> QED BY <1>6, <1>7, <1>9, <1>10, <1>11 DEF IInv, Calm

(* What is true of a transaction stays true while it and the rows do.      *)
LEMMA Standing ==
  ASSUME NEW u, row' = row, tx'[u] = tx[u], SeenSound(u), WriteSound(u)
  PROVE  SeenSound(u)' /\ WriteSound(u)'
BY DEF SeenSound, WriteSound, Active, Inserts, Unchanged

LEMMA RowsStay ==
  ASSUME row' = row
  PROVE  /\ FoldersFormTree => FoldersFormTree'
         /\ FoldersWithContentsLive => FoldersWithContentsLive'
         /\ \A n, place : PreventFolderCycle(n, place) => PreventFolderCycle(n, place)'
         /\ \A place : ValidParent(place) => ValidParent(place)'
<1>1. \A place : Upwards(place)' = Upwards(place)
  <2>1. ASSUME NEW place PROVE Upwards(place)' = Upwards(place)
    BY UpwardsIsAbove
  <2> QED BY <2>1
<1>2. ASSUME NEW n, NEW place, PreventFolderCycle(n, place)
      PROVE  PreventFolderCycle(n, place)'
  BY <1>1, <1>2 DEF PreventFolderCycle
<1>3. ASSUME FoldersFormTree PROVE FoldersFormTree'
  BY <1>1, <1>3 DEF FoldersFormTree, Live
<1>4. ASSUME FoldersWithContentsLive PROVE FoldersWithContentsLive'
  BY <1>4 DEF FoldersWithContentsLive, ValidParent, Live
<1>5. \A place : ValidParent(place) => ValidParent(place)'
  BY DEF ValidParent, Live
<1> QED BY <1>2, <1>3, <1>4, <1>5

(* A step that ends, begins or rolls back: the transaction is not active.  *)
LEMMA QuietStep ==
  ASSUME IInv, NEW t \in Transactions, NEW new \in Transaction,
         tx' = [tx EXCEPT ![t] = new], UNCHANGED <<row, overlapped>>,
         new.step \in {"idle", "seen"}, SeenSound(t)'
  PROVE  IInv'
<1>1. /\ tx'[t] = new
      /\ \A u \in Transactions \ {t} : tx'[u] = tx[u]
      /\ tx' \in [Transactions -> Transaction]
  BY DEF IInv, TypeOK
<1>2. TypeOK'
  BY <1>1 DEF IInv, TypeOK
<1>3. \A u \in Transactions : SeenSound(u)' /\ WriteSound(u)'
  <2>1. ASSUME NEW u \in Transactions, u # t PROVE SeenSound(u)' /\ WriteSound(u)'
    BY <1>1, <2>1, Standing DEF IInv, Changing
  <2>2. WriteSound(t)'
    BY <1>1 DEF WriteSound, Active
  <2> QED BY <2>1, <2>2
<1>4. ~Active(t)' /\ \A u \in Transactions : Active(u)' => u # t /\ Active(u)
  BY <1>1 DEF Active
<1>5. OneInsert'
  BY <1>1, <1>4 DEF IInv, Changing, OneInsert, Inserts
<1>6. ASSUME ~overlapped PROVE \A u \in Transactions : MoveSound(u)'
  <2>1. ASSUME NEW u \in Transactions, Active(u)' PROVE MoveSound(u)'
    <3>1. u # t /\ Active(u) /\ tx'[u] = tx[u] /\ MoveSound(u)
      BY <1>1, <1>4, <1>6, <2>1 DEF IInv, Calm
    <3>2. Sole(u)'
      BY <1>4, <3>1 DEF MoveSound, Sole
    <3> QED BY <3>1, <3>2, RowsStay DEF MoveSound, Inserts, Live
  <2> QED BY <2>1 DEF MoveSound
<1>7. Calm'
  BY <1>6, RowsStay DEF IInv, Calm
<1> QED BY <1>2, <1>3, <1>5, <1>7 DEF IInv, Changing

LEMMA SeeInv ==
  ASSUME IInv, NEW t \in Transactions, NEW n \in Rows, See(t, n)
  PROVE  IInv'
<1>1. PICK new : new = [step |-> "seen", node |-> n, seen |-> row[n]]
  OBVIOUS
<1>2. row[n] \in Row /\ new \in Transaction
  BY <1>1 DEF IInv, TypeOK, Transaction
<1>3. tx' = [tx EXCEPT ![t] = new] /\ UNCHANGED <<row, overlapped>> /\ Live(n)
  BY <1>1 DEF See
<1>4. tx'[t] = new
  BY <1>3 DEF IInv, TypeOK
<1>5. row[n].stamp <= row[n].stamp
  BY <1>2, MaxStampAssumption DEF Row
<1>6. SeenSound(t)'
  BY <1>1, <1>3, <1>4, <1>5 DEF SeenSound, Inserts, Unchanged, Live
<1> QED BY <1>1, <1>2, <1>3, <1>6, QuietStep

LEMMA RollbackInv ==
  ASSUME IInv, NEW t \in Transactions, Rollback(t)
  PROVE  IInv'
<1>1. Idle \in Transaction /\ Idle.step = "idle"
  BY DEF Idle, Transaction
<1>2. tx' = [tx EXCEPT ![t] = Idle] /\ UNCHANGED <<row, overlapped>>
  BY DEF Rollback
<1>3. tx'[t] = Idle
  BY <1>2 DEF IInv, TypeOK
<1>4. SeenSound(t)'
  BY <1>1, <1>3 DEF SeenSound
<1> QED BY <1>1, <1>2, <1>4, QuietStep

(* The checks of a transaction pass: what its write relies on is sound.    *)
LEMMA PassesInv ==
  ASSUME IInv, NEW t \in Transactions, NEW n \in Rows, NEW seen \in Row, NEW new \in Row,
         Passes(t, n, seen, new),
         seen.state # "deleted", new.state # "absent",
         seen.state = "absent" =>
           row[n] = seen /\ \A u \in Others(t) : tx[u].node # n,
         seen.state # "absent" =>
           /\ row[n].state # "absent"
           /\ seen.stamp <= row[n].stamp
           /\ row[n].stamp = seen.stamp => row[n] = seen,
         n # Project /\ new.state = "live" =>
           ValidParent(new.parent) \/ (seen.state # "absent" /\ new.parent = seen.parent),
         new.state = "deleted" =>
           /\ new.parent = seen.parent
           /\ \A m \in Folders \cup Documents : Live(m) => row[m].parent # n
  PROVE  IInv'
<1>0. PICK value : value = [step |-> "checked", node |-> n, seen |-> seen, new |-> new]
  OBVIOUS
<1>1. value \in Transaction /\ value.step = "checked" /\ value.node = n
      /\ value.seen = seen /\ value.new = new
  BY <1>0 DEF Transaction
<1>2. /\ tx'[t] = value
      /\ \A u \in Transactions \ {t} : tx'[u] = tx[u]
      /\ tx' \in [Transactions -> Transaction]
      /\ row' = row
  BY <1>0, <1>1 DEF IInv, TypeOK, Passes
<1>3. overlapped' = (overlapped \/ Others(t) # {}) /\ overlapped \in BOOLEAN
  BY DEF Passes, IInv, TypeOK
<1>4. TypeOK'
  <2>1. overlapped' \in BOOLEAN
    BY <1>3
  <2>2. ASSUME NEW u \in Transactions, NEW v \in Transactions,
               tx'[u].step = "written", tx'[v].step = "written", tx'[u].node = tx'[v].node
        PROVE  u = v
    <3>1. u # t /\ v # t
      BY <1>1, <1>2, <2>2
    <3> QED BY <1>2, <2>2, <3>1 DEF IInv, TypeOK
  <2> QED BY <1>2, <2>1, <2>2 DEF IInv, TypeOK
<1>5. SeenSound(t)'
  BY <1>1, <1>2 DEF SeenSound, Inserts, Unchanged
<1>6. WriteSound(t)'
  BY <1>1, <1>2 DEF WriteSound, Active
<1>7. \A u \in Transactions : SeenSound(u)' /\ WriteSound(u)'
  <2>1. ASSUME NEW u \in Transactions, u # t PROVE SeenSound(u)' /\ WriteSound(u)'
    BY <1>2, <2>1, Standing DEF IInv, Changing
  <2> QED BY <1>5, <1>6, <2>1
<1>8. OneInsert'
  <2>1. \A u \in Transactions \ {t} : /\ Active(u)' = Active(u) /\ Inserts(u)' = Inserts(u)
                                      /\ Active(u) => u \in Others(t)
    BY <1>2 DEF Active, Inserts, Others
  <2>2. Inserts(t)' => seen.state = "absent"
    BY <1>1, <1>2 DEF Inserts
  <2> QED BY <1>1, <1>2, <2>1, <2>2 DEF IInv, Changing, OneInsert
<1>9. ASSUME ~overlapped' PROVE \A u \in Transactions : MoveSound(u)'
  <2>1. ~overlapped /\ Others(t) = {}
    BY <1>3, <1>9
  <2>2. \A u \in Transactions \ {t} : ~Active(u)'
    BY <1>2, <2>1 DEF Active, Others
  <2>3. Sole(t)'
    BY <2>2 DEF Sole
  <2>4. MoveSound(t)'
    BY <1>1, <1>2, <2>3, RowsStay DEF MoveSound, Inserts, Live
  <2> QED BY <2>2, <2>4 DEF MoveSound
<1>10. Calm'
  BY <1>2, <1>3, <1>9, RowsStay DEF IInv, Calm
<1> QED BY <1>4, <1>7, <1>8, <1>10 DEF IInv, Changing

(* A transaction that changes the row it has seen.                         *)
LEMMA ChangesInv ==
  ASSUME IInv, NEW t \in Transactions, NEW nodes, Begins(t, nodes),
         NEW new \in Row, Changes(t, new), new.state \in {"live", "deleted"},
         new.state = "live" =>
           ValidParent(new.parent) \/ new.parent = tx[t].seen.parent,
         new.state = "deleted" =>
           /\ new.parent = tx[t].seen.parent
           /\ \A m \in Folders \cup Documents : Live(m) => row[m].parent # tx[t].node
  PROVE  IInv'
<1>1. tx[t].step = "seen" /\ tx[t].node \in Rows /\ tx[t].seen \in Row
  BY TxTypes DEF IInv, Begins
<1>2. SeenSound(t)
  BY DEF IInv, Changing
<1>3. Passes(t, tx[t].node, tx[t].seen, new)
  BY DEF Changes
<1>4. tx[t].seen.state \notin {"deleted", "absent"}
  BY <1>1, <1>2 DEF SeenSound, Inserts
<1>5. /\ row[tx[t].node].state # "absent"
      /\ tx[t].seen.stamp <= row[tx[t].node].stamp
      /\ row[tx[t].node].stamp = tx[t].seen.stamp => row[tx[t].node] = tx[t].seen
  BY <1>1, <1>2, <1>4 DEF SeenSound, Inserts, Unchanged
<1>6. PICK n \in Rows, seen \in Row : n = tx[t].node /\ seen = tx[t].seen
  BY <1>1
<1> QED BY <1>3, <1>4, <1>5, <1>6, PassesInv

(* A change that keeps the parent and leaves no row without a parent.      *)
LEMMA KeepingInv ==
  ASSUME IInv, NEW t \in Transactions, NEW nodes, Begins(t, nodes),
         NEW new \in Row, Changes(t, new), new.state = "live",
         new.parent = tx[t].seen.parent
  PROVE  IInv'
BY ChangesInv

LEMMA CreatesInv ==
  ASSUME IInv, NEW t \in Transactions, NEW nodes \in SUBSET Rows, NEW place \in Places,
         Creates(t, nodes, place)
  PROVE  IInv'
<1>1. PICK n \in nodes :
        /\ row[n].state = "absent"
        /\ \A u \in Others(t) : tx[u].node # n
        /\ Passes(t, n, row[n], [row[n] EXCEPT !.state = "live", !.parent = place])
  BY DEF Creates
<1>2. ValidParent(place)
  BY DEF Creates
<1>3. PICK seen \in Row : seen = row[n]
  BY DEF IInv, TypeOK
<1>4. PICK new : new = [seen EXCEPT !.state = "live", !.parent = place]
  OBVIOUS
<1>5. new \in Row /\ new.state = "live" /\ new.parent = place
  BY <1>3, <1>4 DEF Row
<1>6. Passes(t, n, seen, new)
  BY <1>1, <1>3, <1>4
<1> QED BY <1>1, <1>2, <1>3, <1>5, <1>6, PassesInv

(* No row is in a document or in the project.                              *)
LEMMA OnlyFoldersHold ==
  ASSUME IInv, NEW n \in Rows \ Folders
  PROVE  \A m \in Rows : row[m].parent # n
<1>1. \A m \in Rows : row[m].parent \in Places
  BY DEF IInv, TypeOK, Row
<1> QED BY <1>1, RowsAssumption DEF Places

LEMMA OperationInv ==
  ASSUME IInv, NEW t \in Transactions, Operation(t)
  PROVE  IInv'
<1> PICK seen : seen = tx[t].seen
  OBVIOUS
<1>1. tx[t].step = "seen" =>
        seen \in Row /\ tx[t].node \in Rows /\ seen.state = "live"
  <2>1. tx[t].step = "seen" => seen \in Row /\ tx[t].node \in Rows
    BY TxTypes DEF IInv
  <2>2. SeenSound(t)
    BY DEF IInv, Changing
  <2> QED BY <2>1, <2>2 DEF SeenSound, Inserts, Row
<1>2. ASSUME NEW archived \in BOOLEAN, tx[t].step = "seen"
      PROVE  /\ [seen EXCEPT !.archived = archived] \in Row
             /\ [seen EXCEPT !.archived = archived].state = "live"
             /\ [seen EXCEPT !.archived = archived].parent = seen.parent
  BY <1>1, <1>2 DEF Row
<1>3. ASSUME tx[t].step = "seen"
      PROVE  /\ [seen EXCEPT !.state = "deleted"] \in Row
             /\ [seen EXCEPT !.state = "deleted"].state = "deleted"
             /\ [seen EXCEPT !.state = "deleted"].parent = seen.parent
  BY <1>1, <1>3 DEF Row
<1>4. ASSUME NEW place \in Places, tx[t].step = "seen"
      PROVE  /\ [seen EXCEPT !.parent = place] \in Row
             /\ [seen EXCEPT !.parent = place].state = "live"
             /\ [seen EXCEPT !.parent = place].parent = place
  BY <1>1, <1>4 DEF Row
<1>5. CASE UpdateProject(t)
  <2>1. Begins(t, {Project}) /\ Changes(t, seen)
    BY <1>5 DEF UpdateProject
  <2> QED BY <1>1, <2>1, KeepingInv DEF Begins
<1>6. CASE ArchiveProject(t)
  <2>1. PICK archived \in BOOLEAN :
          Begins(t, {Project}) /\ Changes(t, [seen EXCEPT !.archived = archived])
    BY <1>6 DEF ArchiveProject
  <2>2. PICK new : new = [seen EXCEPT !.archived = archived]
    OBVIOUS
  <2> QED BY <1>2, <2>1, <2>2, KeepingInv DEF Begins
<1>7. CASE DeleteProject(t)
  <2>1. Begins(t, {Project}) /\ Changes(t, [seen EXCEPT !.state = "deleted"])
    BY <1>7 DEF DeleteProject
  <2>2. PICK new : new = [seen EXCEPT !.state = "deleted"]
    OBVIOUS
  <2>3. tx[t].node = Project /\ Project \in Rows \ Folders
    BY <2>1, RowsAssumption DEF Begins, Rows
  <2>4. \A m \in Folders \cup Documents : row[m].parent # tx[t].node
    BY <2>3, OnlyFoldersHold DEF Rows
  <2> QED BY <1>3, <2>1, <2>2, <2>4, ChangesInv DEF Begins
<1>8. CASE CreateFolder(t)
  BY <1>8, CreatesInv DEF CreateFolder, Rows
<1>9. CASE UpdateFolder(t)
  <2>1. PICK place \in Places :
          /\ place # seen.parent => ValidParent(place)
          /\ Begins(t, Folders) /\ Changes(t, [seen EXCEPT !.parent = place])
    BY <1>9 DEF UpdateFolder
  <2>2. PICK new : new = [seen EXCEPT !.parent = place]
    OBVIOUS
  <2> QED BY <1>4, <2>1, <2>2, ChangesInv DEF Begins
<1>10. CASE DeleteFolder(t)
  <2>1. /\ Begins(t, Folders) /\ Changes(t, [seen EXCEPT !.state = "deleted"])
        /\ \A n \in Folders \cup Documents : Live(n) => row[n].parent # tx[t].node
    BY <1>10 DEF DeleteFolder
  <2>2. PICK new : new = [seen EXCEPT !.state = "deleted"]
    OBVIOUS
  <2> QED BY <1>3, <2>1, <2>2, ChangesInv DEF Begins
<1>11. CASE CreateDocument(t)
  BY <1>11, CreatesInv DEF CreateDocument, Rows
<1>12. CASE UpdateDocument(t)
  <2>1. PICK place \in Places :
          /\ place # seen.parent => ValidParent(place)
          /\ Begins(t, Documents) /\ Changes(t, [seen EXCEPT !.parent = place])
    BY <1>12 DEF UpdateDocument
  <2>2. PICK new : new = [seen EXCEPT !.parent = place]
    OBVIOUS
  <2> QED BY <1>4, <2>1, <2>2, ChangesInv DEF Begins
<1>13. CASE ArchiveDocument(t)
  <2>1. PICK archived \in BOOLEAN :
          Begins(t, Documents) /\ Changes(t, [seen EXCEPT !.archived = archived])
    BY <1>13 DEF ArchiveDocument
  <2>2. PICK new : new = [seen EXCEPT !.archived = archived]
    OBVIOUS
  <2> QED BY <1>2, <2>1, <2>2, KeepingInv DEF Begins
<1>14. CASE DeleteDocument(t)
  <2>1. Begins(t, Documents) /\ Changes(t, [seen EXCEPT !.state = "deleted"])
    BY <1>14 DEF DeleteDocument
  <2>2. PICK new : new = [seen EXCEPT !.state = "deleted"]
    OBVIOUS
  <2>3. tx[t].node \in Rows \ Folders
    BY <2>1, RowsAssumption DEF Begins, Rows
  <2>4. \A m \in Folders \cup Documents : row[m].parent # tx[t].node
    BY <2>3, OnlyFoldersHold DEF Rows
  <2> QED BY <1>3, <2>1, <2>2, <2>4, ChangesInv DEF Begins
<1> QED BY <1>5, <1>6, <1>7, <1>8, <1>9, <1>10, <1>11, <1>12, <1>13, <1>14 DEF Operation

LEMMA WriteInv ==
  ASSUME IInv, NEW t \in Transactions, NEW clock \in 0..MaxStamp, Write(t, clock)
  PROVE  IInv'
<1>1. /\ tx[t].step = "checked" /\ tx[t] \in Transaction
      /\ tx[t].node \in Rows /\ tx[t].seen \in Row /\ tx[t].new \in Row
  BY TxTypes DEF Write, IInv, TypeOK, Active
<1>2. PICK stamp : /\ stamp = IF Inserts(t) THEN clock ELSE Later(tx[t].seen.stamp, clock)
                   /\ stamp <= MaxStamp
                   /\ tx' = [tx EXCEPT ![t].step = "written", ![t].new.stamp = stamp]
  BY DEF Write
<1>3. stamp \in 0..MaxStamp /\ (~Inserts(t) => tx[t].seen.stamp < stamp)
  <2>1. tx[t].seen.stamp \in Nat /\ clock \in Nat
    BY <1>1 DEF Row
  <2> QED BY <1>2, <2>1, MaxStampAssumption DEF Later
<1>4. PICK old \in Transaction : old = tx[t]
  BY <1>1
<1>5. PICK value : value = [old EXCEPT !.step = "written", !.new.stamp = stamp]
  OBVIOUS
<1>6. PICK new : new = [old.new EXCEPT !.stamp = stamp]
  OBVIOUS
<1>7. new \in Row /\ new.state = old.new.state /\ new.parent = old.new.parent /\ new.stamp = stamp
  BY <1>1, <1>3, <1>4, <1>6 DEF Row
<1>8. old \in [step : {"checked", "written"}, node : Rows, seen : Row, new : Row]
  BY <1>1, <1>4 DEF Transaction
<1>9. /\ value \in Transaction /\ value.step = "written"
      /\ value.node = old.node /\ value.seen = old.seen /\ value.new = new
  BY <1>5, <1>6, <1>7, <1>8 DEF Transaction
<1>10. /\ tx'[t] = value
       /\ \A u \in Transactions \ {t} : tx'[u] = tx[u]
       /\ tx' \in [Transactions -> Transaction]
       /\ row' = row /\ overlapped' = overlapped
  BY <1>2, <1>4, <1>5, <1>9 DEF Write, IInv, TypeOK
<1>11. TypeOK'
  <2>1. ASSUME NEW u \in Transactions \ {t}, tx[u].step = "written"
        PROVE  tx[u].node # old.node
    BY <1>4, <2>1 DEF Write, Others
  <2>2. ASSUME NEW u \in Transactions, NEW v \in Transactions,
               tx'[u].step = "written", tx'[v].step = "written", tx'[u].node = tx'[v].node
        PROVE  u = v
    BY <1>9, <1>10, <2>1, <2>2 DEF IInv, TypeOK
  <2> QED BY <1>10, <2>2 DEF IInv, TypeOK
<1>12. row[old.node] = old.seen
  BY <1>1, <1>4 DEF Write, IInv, Changing, SeenSound
<1>13. SeenSound(t)' /\ WriteSound(t)'
  <2>1. SeenSound(t)
    BY DEF IInv, Changing
  <2>2. SeenSound(t)'
    BY <1>1, <1>4, <1>9, <1>10, <2>1 DEF SeenSound, Inserts, Unchanged
  <2>3. WriteSound(t)
    BY DEF IInv, Changing
  <2>4. WriteSound(t)'
    BY <1>1, <1>3, <1>4, <1>7, <1>9, <1>10, <1>12, <2>3 DEF WriteSound, Inserts, Active
  <2> QED BY <2>2, <2>4
<1>14. \A u \in Transactions : SeenSound(u)' /\ WriteSound(u)'
  <2>1. ASSUME NEW u \in Transactions, u # t PROVE SeenSound(u)' /\ WriteSound(u)'
    BY <1>10, <2>1, Standing DEF IInv, Changing
  <2> QED BY <1>13, <2>1
<1>15. \A u \in Transactions : /\ Active(u)' = Active(u) /\ Inserts(u)' = Inserts(u)
                               /\ Active(u) => tx'[u].node = tx[u].node
  BY <1>1, <1>4, <1>9, <1>10 DEF Active, Inserts
<1>16. OneInsert'
  BY <1>15 DEF IInv, Changing, OneInsert
<1>17. ASSUME ~overlapped PROVE \A u \in Transactions : MoveSound(u)'
  <2>1. ASSUME NEW u \in Transactions, Active(u)' PROVE MoveSound(u)'
    <3>1. Sole(u) /\ Active(u) /\ u = t /\ MoveSound(t)
      BY <1>1, <1>15, <1>17, <2>1 DEF IInv, Calm, MoveSound, Sole, Active
    <3>2. Sole(t)'
      BY <1>15, <3>1 DEF Sole
    <3>3. value.new.state = "live" => PreventFolderCycle(value.node, value.new.parent)
      BY <1>4, <1>7, <1>9 DEF Write
    <3>4. MoveSound(t)'
      BY <1>4, <1>7, <1>9, <1>10, <1>15, <3>1, <3>2, <3>3, RowsStay DEF MoveSound, Live
    <3> QED BY <3>1, <3>4
  <2> QED BY <2>1 DEF MoveSound
<1>18. Calm'
  BY <1>10, <1>17, RowsStay DEF IInv, Calm
<1> QED BY <1>11, <1>14, <1>16, <1>18 DEF IInv, Changing

(* The commit of a transaction that runs alone keeps the tree.             *)
LEMMA CommitKeepsTree ==
  ASSUME IInv, NEW t \in Transactions, Commit(t), ~overlapped
  PROVE  FoldersFormTree' /\ FoldersWithContentsLive'
<1>1. /\ tx[t].step = "written" /\ tx[t].node \in Rows
      /\ tx[t].seen \in Row /\ tx[t].new \in Row
  BY TxTypes DEF Commit, IInv, Active
<1>2. PICK n \in Rows, seen \in Row, new \in Row :
        n = tx[t].node /\ seen = tx[t].seen /\ new = tx[t].new
  BY <1>1
<1>3. /\ row \in [Rows -> Row] /\ row' \in [Rows -> Row]
      /\ row'[n] = new /\ \A m \in Rows \ {n} : row'[m] = row[m]
  BY <1>2 DEF Commit, IInv, TypeOK
<1>4. SeenSound(t) /\ WriteSound(t) /\ MoveSound(t) /\ Active(t)
  BY <1>1 DEF IInv, Changing, Calm, Active
<1>5. /\ row[n] = seen /\ seen.state # "deleted" /\ new.state # "absent"
      /\ Inserts(t) <=> seen.state = "absent"
  BY <1>1, <1>2, <1>4 DEF SeenSound, WriteSound, Inserts
<1>6. new.state = "live" =>
        /\ n # Project => ValidParent(new.parent)
        /\ PreventFolderCycle(n, new.parent)
  <2>1. ASSUME n # Project, ~Inserts(t) PROVE ValidParent(seen.parent)
    <3>1. n \in Folders \cup Documents
      BY <2>1 DEF Rows
    <3>2. Live(n)
      BY <1>5, <2>1 DEF Live, Row
    <3> QED BY <1>5, <3>1, <3>2 DEF IInv, Calm, FoldersWithContentsLive
  <2> QED BY <1>1, <1>2, <1>4, <2>1 DEF MoveSound
<1>7. new.state = "deleted" =>
        /\ new.parent = seen.parent
        /\ \A m \in Folders \cup Documents : Live(m) => row[m].parent # n
  BY <1>2, <1>4 DEF MoveSound
<1>8. new.state \in {"live", "deleted"}
  BY <1>5 DEF Row
<1>9. ASSUME NEW m \in Folders \cup Documents, Live(m)'
      PROVE  ValidParent(row[m].parent)'
  <2>1. row'[m].parent \in Places /\ m \in Rows
    BY <1>3 DEF Rows, Row
  <2>2. SUFFICES ASSUME NEW p \in Folders, p = row'[m].parent PROVE row'[p].state = "live"
    BY <2>1 DEF Places, ValidParent, Live
  <2>3. p \in Rows /\ p # Root
    BY RowsAssumption DEF Rows
  <2>4. CASE m = n
    <3>1. new.state = "live" /\ p = new.parent /\ n # Project
      BY <1>3, <1>9, <2>2, <2>4, RowsAssumption DEF Live
    <3>2. Live(p) /\ PreventFolderCycle(n, p)
      BY <1>6, <2>3, <3>1 DEF ValidParent
    <3>3. CASE p = n
      BY <1>3, <3>1, <3>3
    <3>4. CASE p # n
      BY <1>3, <2>3, <3>2, <3>4 DEF Live
    <3> QED BY <3>3, <3>4
  <2>5. CASE m # n
    <3>1. Live(m) /\ p = row[m].parent
      BY <1>3, <1>9, <2>1, <2>2, <2>5 DEF Live
    <3>2. Live(p)
      BY <2>3, <3>1 DEF IInv, Calm, FoldersWithContentsLive, ValidParent
    <3>3. CASE p = n
      BY <1>3, <1>7, <1>8, <3>1, <3>3
    <3>4. CASE p # n
      BY <1>3, <2>3, <3>2, <3>4 DEF Live
    <3> QED BY <3>3, <3>4
  <2> QED BY <2>4, <2>5
<1>10. ASSUME NEW f \in Folders, Live(f)' PROVE Root \in Above(row', f)
  <2>1. f # n => Root \in Above(row, f)
    <3>1. f # n => Live(f)
      BY <1>3, <1>10 DEF Live, Rows
    <3> QED BY <3>1, UpwardsIsAbove DEF IInv, Calm, FoldersFormTree
  <2>2. CASE n \in Folders /\ new.state = "live"
    <3>1. n \notin Above(row, new.parent) /\ Root \in Above(row, new.parent)
      <4>1. CASE new.parent = Root
        <5>1. Closed(row, {Root}) /\ Root \in Places /\ n # Root
          BY <2>2, RowsAssumption DEF Closed, Places, Rows
        <5>2. Root \in Above(row, Root) /\ Above(row, Root) \subseteq {Root}
          BY <1>3, <5>1, AboveHolds, AboveLeast
        <5> QED BY <4>1, <5>1, <5>2
      <4>2. CASE new.parent # Root
        BY <1>6, <2>2, <4>2, UpwardsIsAbove DEF PreventFolderCycle
      <4> QED BY <4>1, <4>2
    <3>2. \A g \in Folders \ {n} : row'[g].parent = row[g].parent
      BY <1>3 DEF Rows
    <3>3. PICK r \in [Rows -> Row], s \in [Rows -> Row] : r = row /\ s = row'
      BY <1>3
    <3>4. Root \in Above(s, f)
      BY <1>3, <2>1, <2>2, <3>1, <3>2, <3>3, MoveKeepsTree
    <3> QED BY <3>3, <3>4
  <2>3. CASE ~(n \in Folders /\ new.state = "live")
    <3>1. \A g \in Folders : row'[g].parent = row[g].parent
      BY <1>3, <1>5, <1>7, <1>8, <2>3 DEF Rows
    <3>2. Root \in Above(row, f)
      BY <1>3, <1>8, <1>10, <2>1, <2>3 DEF Live
    <3>3. PICK r \in [Rows -> Row], s \in [Rows -> Row] : r = row /\ s = row'
      BY <1>3
    <3>4. Root \in Above(s, f)
      BY <3>1, <3>2, <3>3, SameParentsKeepTree
    <3> QED BY <3>3, <3>4
  <2> QED BY <2>2, <2>3
<1>11. FoldersFormTree'
  BY <1>10, UpwardsIsAbove DEF FoldersFormTree
<1>12. FoldersWithContentsLive'
  BY <1>9 DEF FoldersWithContentsLive
<1> QED BY <1>11, <1>12

LEMMA CommitInv ==
  ASSUME IInv, NEW t \in Transactions, Commit(t)
  PROVE  IInv'
<1>1. /\ tx[t].step = "written" /\ tx[t].node \in Rows
      /\ tx[t].seen \in Row /\ tx[t].new \in Row
  BY TxTypes DEF Commit, IInv, Active
<1>2. PICK n \in Rows, seen \in Row, new \in Row :
        n = tx[t].node /\ seen = tx[t].seen /\ new = tx[t].new
  BY <1>1
<1>3. /\ row \in [Rows -> Row] /\ row' \in [Rows -> Row]
      /\ row'[n] = new /\ \A m \in Rows \ {n} : row'[m] = row[m]
      /\ overlapped' = overlapped
  BY <1>2 DEF Commit, IInv, TypeOK
<1>4. Idle \in Transaction /\ Idle.step = "idle"
  BY DEF Idle, Transaction
<1>5. /\ tx' \in [Transactions -> Transaction] /\ tx'[t] = Idle
      /\ \A u \in Transactions \ {t} : tx'[u] = tx[u]
  BY <1>4 DEF Commit, IInv, TypeOK
<1>6. TypeOK'
  <2>1. ASSUME NEW u \in Transactions, NEW v \in Transactions,
               tx'[u].step = "written", tx'[v].step = "written", tx'[u].node = tx'[v].node
        PROVE  u = v
    <3>1. u # t /\ v # t
      BY <1>4, <1>5, <2>1
    <3> QED BY <1>5, <2>1, <3>1 DEF IInv, TypeOK
  <2> QED BY <1>3, <1>5, <2>1 DEF IInv, TypeOK
<1>7. /\ row[n] = seen /\ seen.state # "deleted" /\ new.state # "absent"
      /\ Inserts(t) <=> seen.state = "absent"
      /\ seen.state # "absent" => seen.stamp < new.stamp
  <2>1. SeenSound(t) /\ WriteSound(t) /\ Active(t)
    BY <1>1 DEF IInv, Changing, Active
  <2> QED BY <1>1, <1>2, <2>1 DEF SeenSound, WriteSound, Inserts
<1>8. ASSUME NEW u \in Transactions, u # t PROVE SeenSound(u)' /\ WriteSound(u)'
  <2>1. SeenSound(u) /\ WriteSound(u) /\ tx'[u] = tx[u]
    BY <1>5, <1>8 DEF IInv, Changing
  <2>2. CASE tx[u].step = "idle"
    BY <2>1, <2>2 DEF SeenSound, WriteSound, Active
  <2>3. CASE tx[u].step # "idle" /\ tx[u].node # n
    <3>1. row'[tx[u].node] = row[tx[u].node]
      BY <1>3, <2>3, TxTypes DEF IInv
    <3> QED BY <2>1, <3>1 DEF SeenSound, WriteSound, Inserts, Unchanged, Active
  <2>4. CASE tx[u].step # "idle" /\ tx[u].node = n
    <3>1. tx[u].step # "written"
      BY <1>1, <1>2, <1>8, <2>4 DEF IInv, TypeOK
    <3>2. ~Inserts(u)
      <4>1. SUFFICES ASSUME Inserts(u) PROVE FALSE
        OBVIOUS
      <4>2. row[n] = tx[u].seen /\ seen.state = "absent" /\ tx[u].step # "seen"
        BY <1>7, <2>1, <2>4, <4>1 DEF SeenSound, Inserts
      <4>3. Active(u) /\ Active(t) /\ Inserts(t)
        BY <1>1, <1>7, <2>4, <4>2, TxTypes DEF IInv, Active
      <4> QED BY <1>2, <1>8, <2>4, <4>1, <4>3 DEF IInv, Changing, OneInsert
    <3>3. row[n].state # "absent" /\ tx[u].seen.stamp <= row[n].stamp /\ tx[u].seen.state # "deleted"
      BY <2>1, <2>4, <3>2 DEF SeenSound
    <3>4. row[n].stamp < new.stamp
      BY <1>7, <3>3
    <3>5. tx[u].seen.stamp \in Nat /\ row[n].stamp \in Nat /\ new.stamp \in Nat
      BY <1>2, <1>3, <2>4, TxTypes, MaxStampAssumption DEF IInv, Row
    <3>6. tx[u].seen.stamp < new.stamp
      BY <3>3, <3>4, <3>5
    <3>7. SeenSound(u)'
      BY <1>3, <1>7, <2>1, <2>4, <3>2, <3>3, <3>5, <3>6 DEF SeenSound, Inserts, Unchanged
    <3>8. WriteSound(u)'
      BY <2>1, <3>1 DEF WriteSound, Active
    <3> QED BY <3>7, <3>8
  <2> QED BY <2>2, <2>3, <2>4
<1>9. \A u \in Transactions : SeenSound(u)' /\ WriteSound(u)'
  <2>1. SeenSound(t)' /\ WriteSound(t)'
    BY <1>4, <1>5 DEF SeenSound, WriteSound, Active
  <2> QED BY <1>8, <2>1
<1>10. ~Active(t)' /\ \A u \in Transactions : Active(u)' => u # t /\ Active(u)
  BY <1>4, <1>5 DEF Active
<1>11. OneInsert'
  BY <1>5, <1>10 DEF IInv, Changing, OneInsert, Inserts
<1>12. ASSUME ~overlapped PROVE \A u \in Transactions : MoveSound(u)'
  <2>1. MoveSound(t) /\ Active(t)
    BY <1>1, <1>12 DEF IInv, Calm, Active
  <2>2. \A u \in Transactions : ~Active(u)'
    BY <1>10, <2>1 DEF MoveSound, Sole
  <2> QED BY <2>2 DEF MoveSound
<1>13. Calm'
  BY <1>3, <1>12, CommitKeepsTree DEF Calm
<1> QED BY <1>6, <1>9, <1>11, <1>13 DEF IInv, Changing

LEMMA NextInv == IInv /\ [Next]_vars => IInv'
<1> SUFFICES ASSUME IInv, [Next]_vars PROVE IInv'
  OBVIOUS
<1>1. CASE Next
  <2>1. PICK t \in Transactions :
          \/ \E n \in Rows : See(t, n)
          \/ Operation(t)
          \/ \E clock \in 0..MaxStamp : Write(t, clock)
          \/ Commit(t)
          \/ Rollback(t)
    BY <1>1 DEF Next
  <2> QED BY <2>1, SeeInv, OperationInv, WriteInv, CommitInv, RollbackInv
<1>2. CASE UNCHANGED vars
  <2>1. row' = row /\ tx' = tx /\ overlapped' = overlapped
    BY <1>2 DEF vars
  <2>2. TypeOK'
    BY <2>1 DEF IInv, TypeOK
  <2>3. Changing'
    BY <2>1 DEF IInv, Changing, SeenSound, WriteSound, OneInsert, Active, Inserts, Unchanged
  <2>4. ASSUME NEW t \in Transactions, MoveSound(t) PROVE MoveSound(t)'
    BY <2>1, <2>4, RowsStay DEF MoveSound, Sole, Active, Inserts, Live
  <2>5. Calm'
    BY <2>1, <2>4, RowsStay DEF IInv, Calm
  <2> QED BY <2>2, <2>3, <2>5 DEF IInv
<1> QED BY <1>1, <1>2

(* The rows, what the transactions have seen and written, and, while they  *)
(* run one after the other, the tree agree in every state.                 *)
THEOREM Invariance == Spec => []IInv
BY InitInv, NextInv, PTL DEF Spec

(* Rows and transactions keep their types, and a row is written by one     *)
(* transaction at a time.                                                  *)
THEOREM TypeCorrect == Spec => []TypeOK
<1>1. IInv => TypeOK
  BY DEF IInv
<1> QED BY <1>1, Invariance, PTL

(* While transactions run one after the other, every way up ends at the    *)
(* top, and nothing is left in a deleted folder.                           *)
THEOREM CalmTreeHolds == Spec => []CalmTree
<1>1. IInv => CalmTree
  BY DEF IInv, Calm, CalmTree
<1> QED BY <1>1, Invariance, PTL

LEMMA NextSeen == IInv /\ [Next]_vars => SeenChanges
<1> SUFFICES ASSUME IInv, [Next]_vars, NEW n \in Rows, row'[n] # row[n]
             PROVE  /\ row[n].state # "deleted"
                    /\ \E t \in Transactions :
                         /\ tx[t].step = "written" /\ tx'[t] = Idle
                         /\ tx[t].node = n /\ tx[t].seen = row[n]
  BY DEF SeenChanges, ChangesSeen
<1>1. PICK t \in Transactions : Commit(t)
  BY DEF Next, vars, See, Operation, Write, Rollback, Passes, Changes, Creates,
         UpdateProject, ArchiveProject, DeleteProject, CreateFolder, UpdateFolder,
         DeleteFolder, CreateDocument, UpdateDocument, ArchiveDocument, DeleteDocument
<1>2. tx[t].step = "written" /\ tx'[t] = Idle /\ tx[t].node = n
  BY <1>1 DEF Commit, IInv, TypeOK
<1>3. SeenSound(t) /\ WriteSound(t)
  BY DEF IInv, Changing
<1>4. row[n] = tx[t].seen /\ tx[t].seen.state # "deleted"
  BY <1>2, <1>3 DEF SeenSound, WriteSound
<1> QED BY <1>2, <1>4

(* A change is made to the very row its caller has seen, and never to a    *)
(* deleted one, however many transactions run at the same time.            *)
THEOREM UpdatesAreNotLost == Spec => NoLostUpdate
BY Invariance, NextSeen, PTL DEF Spec, NoLostUpdate

=============================================================================
