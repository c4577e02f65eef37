--------------------------- MODULE VersionHistory ---------------------------
(***************************************************************************)
(* The version history of one document on its main branch: pushes by       *)
(* staged uploads, restores and merges, and the idempotency records that   *)
(* make their repetition harmless (services/api/src/versions/              *)
(* postgres-store.ts, and completeMerge in services/worker/src/            *)
(* processing-store.ts).                                                   *)
(*                                                                         *)
(* A version is its sequence number; 0 is SQL null.  An upload is named by *)
(* the idempotency key of its intent.  An action is one transaction of a   *)
(* caller whom requireAccess lets write; what a transaction reads of the   *)
(* branch before it locks anything may be old.  A call that only throws is *)
(* not an action.                                                          *)
(***************************************************************************)
EXTENDS Naturals, Sequences, InspectionOutcome

CONSTANTS
  Uploads,      \* staged uploads that may be opened, by the key of their intent
  Keys,         \* idempotency keys of the client, one name space per operation
  MaxVersions,  \* bound on the versions created
  None          \* no record

ASSUME MaxVersionsAssumption == MaxVersions \in Nat
ASSUME UploadsAssumption == Uploads \cap {"restore", "merge"} = {}

VARIABLES
  history,  \* document_versions of the branch, by sequence
  head,     \* document_branches.head_version_id
  scan,     \* artifacts.scan_status of the file stored with each version
  upload,   \* staged_uploads
  merge,    \* merge_operations, by base, ours and theirs
  record    \* idempotency_records of finalizations, restores and merges

vars == <<history, head, scan, upload, merge, record>>

Numbers == 1..MaxVersions
Triples ==
  {t \in Numbers \X Numbers \X Numbers : t[1] # t[2] /\ t[1] # t[3] /\ t[2] # t[3]}
Operations == Uploads \cup {"restore", "merge"}

(* aside: created as a conflict.  The row says so in conflict_reason until *)
(* an inspection fails and erases it.                                      *)
Version == [source : {"push", "restore", "merge"}, parent : 0..MaxVersions,
            mergeParent : 0..MaxVersions, base : 0..MaxVersions,
            file : Numbers, aside : BOOLEAN, status : VersionStatus,
            job : Outcomes \cup {"open"}]

Upload == [status : {"absent", "pending", "finalized", "ended"},
           base : 0..MaxVersions, version : 0..MaxVersions]

Record(operation) ==
  IF operation = "merge"
  THEN [resource : Triples, response : {"accepted"}]
  ELSE [resource : Numbers, response : {"created", "conflict"}]

ASSUME NoneAssumption == \A operation \in Operations : None \notin Record(operation)

Merge == [status : {"absent", "open", "completed", "permanently_failed",
                    "manual_resolution_required"},
          result : 0..MaxVersions]

NoUpload == [status |-> "absent", base |-> 0, version |-> 0]
NoMerge == [status |-> "absent", result |-> 0]

Init ==
  /\ history = <<>>
  /\ head = 0
  /\ scan = [n \in Numbers |-> "pending"]
  /\ upload = [u \in Uploads |-> NoUpload]
  /\ merge = [t \in Triples |-> NoMerge]
  /\ record = [c \in Operations \X Keys |-> None]

-----------------------------------------------------------------------------
(* Idempotency records.  A record that is found is replayed.  After a day  *)
(* it is not found, but its row still occupies the unique index and saving *)
(* another one aborts the transaction: either way the operation writes     *)
(* nothing else, so the age of a record is left out.                       *)
Fresh(operation, key) == record[<<operation, key>>] = None

Saved(operation, key, resource, response) ==
  [record EXCEPT ![<<operation, key>>] =
     [resource |-> resource, response |-> response]]

-----------------------------------------------------------------------------
(* Staged uploads.                                                         *)

(* A call without a base has read an empty branch, perhaps long ago.       *)
CreateUpload(u, base) ==
  /\ upload[u].status = "absent"
  /\ base \in DOMAIN history \cup {0}
  /\ upload' = [upload EXCEPT ![u].status = "pending", ![u].base = base]
  /\ UNCHANGED <<history, head, scan, merge, record>>

(* The upload is cancelled, its inspection fails, or it expires.           *)
EndUpload(u) ==
  /\ upload[u].status = "pending"
  /\ upload' = [upload EXCEPT ![u].status = "ended"]
  /\ UNCHANGED <<history, head, scan, merge, record>>

-----------------------------------------------------------------------------
(* New versions.                                                           *)

NextSequence == Len(history) + 1

Adds(v) == NextSequence <= MaxVersions /\ history' = Append(history, v)

NewVersion ==
  [source |-> "push", parent |-> 0, mergeParent |-> 0, base |-> 0,
   file |-> NextSequence, aside |-> FALSE, status |-> "pending_processing",
   job |-> "open"]

Outcome(v) == IF history[v].status = "conflicted" THEN "conflict" ELSE "created"

BugStale(u) == upload[u].base # 0 /\ head # upload[u].base

Stale(u) == head # upload[u].base

BugFinalize(u, key) ==
  /\ Fresh(u, key)
  /\ upload[u].status \in {"pending", "finalized"}
  /\ Adds([NewVersion EXCEPT
             !.parent = IF upload[u].base # 0 THEN upload[u].base ELSE head,
             !.base = upload[u].base,
             !.aside = Stale(u),
             !.status = IF Stale(u) THEN "conflicted" ELSE @])
  /\ head' = IF Stale(u) THEN head ELSE NextSequence
  /\ upload' = [upload EXCEPT ![u].status = "finalized", ![u].version = NextSequence]
  /\ record' = Saved(u, key, NextSequence,
                     IF Stale(u) THEN "conflict" ELSE "created")
  /\ UNCHANGED <<scan, merge>>

(* A version is created for a pending upload: the next of the main line if *)
(* the head is still the base of the upload, a conflicted one beside it    *)
(* otherwise.                                                              *)
FinalizeUpload(u, key) ==
  /\ Fresh(u, key)
  /\ upload[u].status = "pending"
  /\ Adds([NewVersion EXCEPT
             !.parent = IF upload[u].base # 0 THEN upload[u].base ELSE head,
             !.base = upload[u].base,
             !.aside = Stale(u),
             !.status = IF Stale(u) THEN "conflicted" ELSE @])
  /\ head' = IF Stale(u) THEN head ELSE NextSequence
  /\ upload' = [upload EXCEPT ![u].status = "finalized", ![u].version = NextSequence]
  /\ record' = Saved(u, key, NextSequence,
                     IF Stale(u) THEN "conflict" ELSE "created")
  /\ UNCHANGED <<scan, merge>>

(* Another key for an upload that is finalized already.                    *)
FinalizeAgain(u, key) ==
  /\ Fresh(u, key)
  /\ upload[u].status = "finalized"
  /\ record' = Saved(u, key, upload[u].version, Outcome(upload[u].version))
  /\ UNCHANGED <<history, head, scan, upload, merge>>

BugRestoreVersion(v, key) ==
  /\ Fresh("restore", key)
  /\ v \in DOMAIN history
  /\ head' = v
  /\ record' = Saved("restore", key, v, "created")
  /\ UNCHANGED <<history, scan, upload, merge>>

(* The caller names the head it expects; another head is refused.          *)
RestoreVersion(v, key) ==
  /\ Fresh("restore", key)
  /\ v \in DOMAIN history
  /\ Adds([NewVersion EXCEPT !.source = "restore", !.parent = head,
                             !.base = head, !.file = history[v].file])
  /\ head' = NextSequence
  /\ record' = Saved("restore", key, NextSequence, "created")
  /\ UNCHANGED <<scan, upload, merge>>

(* The outcome of the inspection of a version.                             *)
Inspected(v, outcome) ==
  /\ v \in DOMAIN history
  /\ history[v].job = "open"
  /\ history' = [history EXCEPT
                   ![v].job = outcome,
                   ![v].status = VersionAfter(@, outcome)]
  /\ scan' = [scan EXCEPT ![history[v].file] = ScanAfter(@, outcome)]
  /\ UNCHANGED <<head, upload, merge, record>>

-----------------------------------------------------------------------------
(* Merges.                                                                 *)

Parents(v) == {history[v].parent, history[v].mergeParent} \ {0}

(* The version and its ancestors; parents have smaller numbers.            *)
Ancestry(v) ==
  LET upTo[n \in 0..Len(history)] ==
        IF n = 0 THEN {}
        ELSE {n} \cup UNION {upTo[p] : p \in Parents(n)}
  IN  upTo[v]

(* A call to createMerge first reads the head, before it looks for a       *)
(* record of its key, and refuses every other ours.                        *)
Refused(t) == t[2] # head

(* When the rest of the call runs, the head may have moved on.             *)
NotRefusedBefore(t) ==
  /\ {t[1], t[2], t[3]} \subseteq DOMAIN history
  /\ ~history[t[2]].aside
  /\ \A v \in DOMAIN history : t[2] < v /\ v < t[3] => history[v].aside

Usable(v, statuses) ==
  /\ history[v].status \in statuses
  /\ history[v].job = "completed"
  /\ scan[history[v].file] = "clean"

BugMergeable(t) ==
  /\ Usable(t[1], {"ready"})
  /\ Usable(t[2], {"ready"})
  /\ Usable(t[3], {"ready", "conflicted"})

Mergeable(t) ==
  /\ Usable(t[1], {"ready"})
  /\ Usable(t[2], {"ready"})
  /\ Usable(t[3], {"ready", "conflicted"})
  /\ t[1] \in Ancestry(t[2]) \cap Ancestry(t[3])

CreateMerge(t, key) ==
  /\ NotRefusedBefore(t)
  /\ Fresh("merge", key)
  /\ Mergeable(t)
  /\ merge' = IF merge[t].status # "absent" THEN merge
              ELSE [merge EXCEPT ![t].status = "open"]
  /\ record' = Saved("merge", key, t, "accepted")
  /\ UNCHANGED <<history, head, scan, upload>>

BugPublishMerge(t) ==
  /\ merge[t].status = "open"
  /\ Adds([NewVersion EXCEPT !.source = "merge", !.parent = t[2],
                             !.mergeParent = t[3], !.base = t[1]])
  /\ head' = NextSequence
  /\ merge' = [merge EXCEPT ![t] = [status |-> "completed", result |-> NextSequence]]
  /\ UNCHANGED <<scan, upload, record>>

(* The worker publishes the candidate, unless the head has moved on.       *)
PublishMerge(t) ==
  /\ merge[t].status = "open"
  /\ head = t[2]
  /\ Adds([NewVersion EXCEPT !.source = "merge", !.parent = t[2],
                             !.mergeParent = t[3], !.base = t[1]])
  /\ head' = NextSequence
  /\ merge' = [merge EXCEPT ![t] = [status |-> "completed", result |-> NextSequence]]
  /\ UNCHANGED <<scan, upload, record>>

(* The engine finds no automatic merge, the head has moved, the quota is   *)
(* full, or the attempts are used up.                                      *)
EndMerge(t, status) ==
  /\ merge[t].status = "open"
  /\ merge' = [merge EXCEPT ![t].status = status]
  /\ UNCHANGED <<history, head, scan, upload, record>>

-----------------------------------------------------------------------------
Push(u) ==
  \/ \E base \in 0..MaxVersions : CreateUpload(u, base)
  \/ EndUpload(u)
  \/ \E key \in Keys : FinalizeUpload(u, key) \/ FinalizeAgain(u, key)

MergeStep(t) ==
  \/ \E key \in Keys : CreateMerge(t, key)
  \/ PublishMerge(t)
  \/ \E status \in {"manual_resolution_required", "permanently_failed"} :
       EndMerge(t, status)

Next ==
  \/ \E u \in Uploads : Push(u)
  \/ \E v \in Numbers, key \in Keys : RestoreVersion(v, key)
  \/ \E v \in Numbers, outcome \in Outcomes : Inspected(v, outcome)
  \/ \E t \in Triples : MergeStep(t)

Spec == Init /\ [][Next]_vars

-----------------------------------------------------------------------------
(* Properties.                                                             *)

(* The rows have the shapes the schema and the code give them.             *)
TypeOK ==
  /\ history \in Seq(Version) /\ Len(history) <= MaxVersions
  /\ head \in 0..Len(history)
  /\ scan \in [Numbers -> ScanStatus]
  /\ upload \in [Uploads -> Upload]
  /\ merge \in [Triples -> Merge]
  /\ DOMAIN record = Operations \X Keys
  /\ \A c \in Operations \X Keys : record[c] \in Record(c[1]) \cup {None}

OnLine == {v \in DOMAIN history : ~history[v].aside}

(* The version before v on the line.                                       *)
Before(v) == CHOOSE w \in OnLine \cup {0} :
               w < v /\ \A other \in OnLine : other < v => other <= w

(* The history is one line plus the versions beside it: every version but  *)
(* the first has an older parent, the parent of a version on the line is   *)
(* the version before it on the line, and the head is the last of them.    *)
(* So no push, restore or merge ever replaces a version its author did not *)
(* build upon; and a push or a restore stands aside only if its base was   *)
(* not the head when it came.                                              *)
Linear ==
  /\ \A v \in DOMAIN history :
       /\ history[v].parent < v
       /\ history[v].parent = 0 => v = 1
       /\ history[v].source # "merge" =>
            (history[v].aside <=> history[v].base # Before(v))
       /\ ~history[v].aside => history[v].parent = Before(v)
  /\ head = Before(NextSequence)

(* Each request makes at most one version, whatever is repeated with which *)
(* key: pushed versions belong one to one to finalized uploads, restored   *)
(* ones to records of restores, merged ones to completed merges, and all   *)
(* records of one upload point to its version.                             *)
Makes(v) ==
  CASE history[v].source = "push" ->
         {u \in Uploads : upload[u].version = v}
    [] history[v].source = "restore" ->
         {k \in Keys : ~Fresh("restore", k) /\ record[<<"restore", k>>].resource = v}
    [] OTHER -> {t \in Triples : merge[t].result = v}

OncePerRequest ==
  /\ \A v \in DOMAIN history : \E x \in Makes(v) : Makes(v) = {x}
  /\ \A u \in Uploads :
       upload[u].version # 0 <=> upload[u].status = "finalized"
  /\ \A u \in Uploads, key \in Keys :
       ~Fresh(u, key) => record[<<u, key>>].resource = upload[u].version

(* A merge is made of versions that passed inspection, and its base is an  *)
(* ancestor of both sides, however old the head was that the call read.    *)
MergesAreSound ==
  \A t \in Triples :
    merge[t].status # "absent" =>
      /\ \A i \in 1..3 : history[t[i]].job = "completed"
      /\ t[1] \in Ancestry(t[2]) \cap Ancestry(t[3])

Published(v) == [v EXCEPT !.status = "", !.job = ""]

VersionsStay ==
  \A v \in DOMAIN history :
    /\ v \in DOMAIN history'
    /\ Published(history'[v]) = Published(history[v])
    /\ history[v].job # "open" => history'[v] = history[v]

EndsStay ==
  /\ \A u \in Uploads :
       upload[u].status \in {"finalized", "ended"} => upload'[u] = upload[u]
  /\ \A t \in Triples :
       merge[t].status \notin {"absent", "open"} => merge'[t] = merge[t]

HeadMovesOn ==
  head' # head => head' = Len(history') /\ Len(history') = Len(history) + 1

(* What has been published stays: no version loses its place, its file or  *)
(* its parents, a judged version is not judged again, a finished upload or *)
(* merge is not reopened, and the head only moves to a version that is     *)
(* created in the same step.                                               *)
HistoryKept == [][VersionsStay /\ EndsStay /\ HeadMovesOn]_vars

(* The line that parents trace from the head, with the versions beside it, *)
(* keeps the promise of MainLine.                                          *)
LineTo(v) ==
  LET upTo[n \in 0..Len(history)] ==
        IF n = 0 THEN <<>> ELSE Append(upTo[history[n].parent], n)
  IN  upTo[v]

Branch == INSTANCE MainLine WITH
  line <- LineTo(head),
  aside <- DOMAIN history \ OnLine

KeepsLine == Branch!Spec

(* docs/product/version-semantics.md: "Repeated finalization with the same *)
(* idempotency key returns the same outcome".  A replay answers with the   *)
(* outcome it reads off the version, the first call with the recorded one. *)
(* It does not hold: see the known disagreements of the README.            *)
SameOutcome ==
  \A u \in Uploads, key \in Keys :
    ~Fresh(u, key) =>
      Outcome(record[<<u, key>>].resource) = record[<<u, key>>].response

(* docs/product/conservative-merge.md: "Requests are idempotent".  A merge *)
(* request that was accepted is not refused when it is repeated.           *)
(* It does not hold: see the known disagreements of the README.            *)
MergeRequestsRepeat ==
  \A key \in Keys :
    ~Fresh("merge", key) => ~Refused(record[<<"merge", key>>].resource)

=============================================================================
