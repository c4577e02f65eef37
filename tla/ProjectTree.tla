---------------------------- MODULE ProjectTree ----------------------------
(***************************************************************************)
(* The folders and documents of one project, and the transactions that     *)
(* create, rename, move, archive and delete them                           *)
(* (services/api/src/projects/postgres-store.ts, with the trigger of       *)
(* services/api/drizzle/0001_good_kate_bishop.sql).                        *)
(*                                                                         *)
(* A caller reads a row and later sends a change of it with the            *)
(* updated_at it read.  The transaction first makes its checks, then       *)
(* writes the row, whose lock it keeps, and then commits: three actions,   *)
(* since at read committed each statement sees what others have committed  *)
(* by then, and nothing of what they have only written.                    *)
(*                                                                         *)
(* Names and their order in a folder are left out, and so are the keys of  *)
(* creations, which work as in ReviewApproval.                             *)
(*                                                                         *)
(* An operator whose name starts with Bug is the definition below it with  *)
(* a mistake someone could make there; it is used by no action.            *)
(***************************************************************************)
EXTENDS Naturals, FiniteSets

CONSTANTS
  Folders,
  Documents,
  Project,
  Root,          \* SQL null as a parent: the top of the project
  Transactions,  \* connections of the pool
  MaxStamp       \* bound on updated_at, in milliseconds

Places == Folders \cup {Root}
Rows == Folders \cup Documents \cup {Project}

ASSUME RowsAssumption ==
  /\ Root \notin Rows /\ Project \notin Folders \cup Documents
  /\ Folders \cap Documents = {}
ASSUME FoldersAssumption == IsFiniteSet(Folders)
ASSUME MaxStampAssumption == MaxStamp \in Nat

VARIABLES
  row,        \* projects, project_folders and documents
  tx,         \* the requests and their transactions
  overlapped  \* whether two transactions have ever run at the same time

vars == <<row, tx, overlapped>>

Row == [state : {"absent", "live", "deleted"}, parent : Places,
        archived : BOOLEAN, stamp : 0..MaxStamp]

(* A transaction, from the row that was read to the row that is written.   *)
Transaction ==
  [step : {"idle"}] \cup [step : {"seen"}, node : Rows, seen : Row]
    \cup [step : {"checked", "written"}, node : Rows, seen : Row, new : Row]

Absent == [state |-> "absent", parent |-> Root, archived |-> FALSE, stamp |-> 0]
Idle == [step |-> "idle"]

Init ==
  /\ row = [n \in Rows |-> IF n = Project THEN [Absent EXCEPT !.state = "live"]
                           ELSE Absent]
  /\ tx = [t \in Transactions |-> Idle]
  /\ overlapped = FALSE

-----------------------------------------------------------------------------
Live(n) == row[n].state = "live"

(* requireProjectAccess: only a project that is not deleted is found.      *)
Accessible == Live(Project)

(* validateFolderParent.                                                   *)
ValidParent(place) == place # Root => Live(place)

Others(t) == {u \in Transactions \ {t} : tx[u].step \in {"checked", "written"}}

(* A caller reads the row that it is going to change.                      *)
See(t, n) ==
  /\ tx[t] = Idle
  /\ Accessible
  /\ Live(n)
  /\ tx' = [tx EXCEPT ![t] = [step |-> "seen", node |-> n, seen |-> row[n]]]
  /\ UNCHANGED <<row, overlapped>>

(* The checks of a transaction have passed.  new is worked out from the row *)
(* that was seen: by the time it is written that is the row there is.      *)
Passes(t, n, seen, new) ==
  /\ tx' = [tx EXCEPT ![t] = [step |-> "checked", node |-> n,
                              seen |-> seen, new |-> new]]
  /\ overlapped' = (overlapped \/ Others(t) # {})
  /\ UNCHANGED row

(* What each operation reads before it changes the row it has seen.        *)
Begins(t, nodes) ==
  /\ tx[t].step = "seen"
  /\ tx[t].node \in nodes
  /\ Accessible

Changes(t, new) == Passes(t, tx[t].node, tx[t].seen, new)

(* A creation has seen no row.                                             *)
Creates(t, nodes, place) ==
  /\ tx[t] = Idle
  /\ Accessible
  /\ ValidParent(place)
  /\ \E n \in nodes :
       /\ row[n].state = "absent"
       /\ \A u \in Others(t) : tx[u].node # n
       /\ Passes(t, n, row[n], [row[n] EXCEPT !.state = "live", !.parent = place])

-----------------------------------------------------------------------------
(* The operations.  A rename changes nothing but updated_at.               *)

UpdateProject(t) == Begins(t, {Project}) /\ Changes(t, tx[t].seen)

ArchiveProject(t) ==
  /\ Begins(t, {Project})
  /\ \E archived \in BOOLEAN :
       Changes(t, [tx[t].seen EXCEPT !.archived = archived])

DeleteProject(t) ==
  /\ Begins(t, {Project})
  /\ Changes(t, [tx[t].seen EXCEPT !.state = "deleted"])

CreateFolder(t) == \E place \in Places : Creates(t, Folders, place)

UpdateFolder(t) ==
  /\ Begins(t, Folders)
  /\ Live(tx[t].node)
  /\ \E place \in Places :
       /\ place # tx[t].seen.parent => ValidParent(place)
       /\ Changes(t, [tx[t].seen EXCEPT !.parent = place])

DeleteFolder(t) ==
  /\ Begins(t, Folders)
  /\ Live(tx[t].node)
  /\ \A n \in Folders \cup Documents : Live(n) => row[n].parent # tx[t].node
  /\ Changes(t, [tx[t].seen EXCEPT !.state = "deleted"])

CreateDocument(t) == \E place \in Places : Creates(t, Documents, place)

UpdateDocument(t) ==
  /\ Begins(t, Documents)
  /\ Live(tx[t].node)
  /\ \E place \in Places :
       /\ place # tx[t].seen.parent => ValidParent(place)
       /\ Changes(t, [tx[t].seen EXCEPT !.parent = place])

ArchiveDocument(t) ==
  /\ Begins(t, Documents)
  /\ \E archived \in BOOLEAN :
       Changes(t, [tx[t].seen EXCEPT !.archived = archived])

DeleteDocument(t) ==
  /\ Begins(t, Documents)
  /\ Changes(t, [tx[t].seen EXCEPT !.state = "deleted"])

-----------------------------------------------------------------------------
(* The write.                                                              *)

(* The folder and what is above it, Root if the way up ends there.         *)
Upwards(place) ==
  LET above[n \in 0..Cardinality(Folders)] ==
        IF n = 0 THEN {place}
        ELSE above[n - 1] \cup {row[f].parent : f \in above[n - 1] \cap Folders}
  IN  above[Cardinality(Folders)]

BugPreventFolderCycle(n, place) ==
  n \in Folders /\ place # Root => row[place].state # "deleted"

(* The trigger on the parent of a folder: it walks up from the new parent, *)
(* and never comes back from a cycle that is there already.                *)
PreventFolderCycle(n, place) ==
  n \in Folders /\ place # Root =>
    /\ row[place].state # "deleted"
    /\ n \notin Upwards(place)
    /\ Root \in Upwards(place)

(* updated_at moves on by the clock, and by a millisecond at least.        *)
BugLater(old, clock) == IF clock > old THEN clock ELSE old

Later(old, clock) == IF clock > old THEN clock ELSE old + 1

Unchanged(t) == row[tx[t].node].stamp = tx[t].seen.stamp

Inserts(t) == tx[t].seen.state = "absent"

(* The row is locked, which waits for whoever else has written it.  An     *)
(* update changes nothing if the row was deleted or its updated_at is not  *)
(* what the caller has seen.                                               *)
Write(t, clock) ==
  /\ tx[t].step = "checked"
  /\ \A u \in Others(t) :
       tx[u].step = "written" => tx[u].node # tx[t].node
  /\ Inserts(t) \/ (Live(tx[t].node) /\ Unchanged(t))
  /\ tx[t].new.state = "live" =>
       PreventFolderCycle(tx[t].node, tx[t].new.parent)
  /\ LET stamp == IF Inserts(t) THEN clock ELSE Later(tx[t].seen.stamp, clock)
     IN  /\ stamp <= MaxStamp
         /\ tx' = [tx EXCEPT ![t].step = "written", ![t].new.stamp = stamp]
  /\ UNCHANGED <<row, overlapped>>

Commit(t) ==
  /\ tx[t].step = "written"
  /\ row' = [row EXCEPT ![tx[t].node] = tx[t].new]
  /\ tx' = [tx EXCEPT ![t] = Idle]
  /\ UNCHANGED overlapped

(* The request is refused or fails, or is never sent.                      *)
Rollback(t) ==
  /\ tx[t] # Idle
  /\ tx' = [tx EXCEPT ![t] = Idle]
  /\ UNCHANGED <<row, overlapped>>

-----------------------------------------------------------------------------
Operation(t) ==
  \/ UpdateProject(t) \/ ArchiveProject(t) \/ DeleteProject(t)
  \/ CreateFolder(t) \/ UpdateFolder(t) \/ DeleteFolder(t)
  \/ CreateDocument(t) \/ UpdateDocument(t) \/ ArchiveDocument(t)
  \/ DeleteDocument(t)

Next ==
  \E t \in Transactions :
    \/ \E n \in Rows : See(t, n)
    \/ Operation(t)
    \/ \E clock \in 0..MaxStamp : Write(t, clock)
    \/ Commit(t)
    \/ Rollback(t)

Spec == Init /\ [][Next]_vars

-----------------------------------------------------------------------------
(* Properties.                                                             *)

(* Rows have the shapes of the schema, and two transactions never hold a   *)
(* written version of the same row.                                        *)
TypeOK ==
  /\ row \in [Rows -> Row]
  /\ tx \in [Transactions -> Transaction]
  /\ overlapped \in BOOLEAN
  /\ \A t, u \in Transactions :
       /\ tx[t].step = "written" /\ tx[u].step = "written"
       /\ tx[t].node = tx[u].node
       => t = u

(* The change of a row that a transaction commits.                         *)
ChangesSeen(n) ==
  row'[n] # row[n] =>
    /\ row[n].state # "deleted"
    /\ \E t \in Transactions :
         /\ tx[t].step = "written" /\ tx'[t] = Idle
         /\ tx[t].node = n /\ tx[t].seen = row[n]

SeenChanges == \A n \in Rows : ChangesSeen(n)

(* No update is lost: a change is made to the very row its caller has      *)
(* seen, whatever others have changed and committed meanwhile, and a       *)
(* deleted row is never changed or revived.                                *)
NoLostUpdate == [][SeenChanges]_vars

(* The way up from a folder ends at the top.  Two moves at the same time   *)
(* may break it: see the known disagreements of the README.                *)
FoldersFormTree == \A f \in Folders : Live(f) => Root \in Upwards(f)

(* What is not deleted is not in a deleted folder.                         *)
FoldersWithContentsLive ==
  \A n \in Folders \cup Documents : Live(n) => ValidParent(row[n].parent)

(* As long as transactions run one after the other, the checks and the     *)
(* trigger keep the folders a tree and deleted folders empty.              *)
CalmTree == overlapped \/ (FoldersFormTree /\ FoldersWithContentsLive)

=============================================================================
