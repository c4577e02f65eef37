-------------------------- MODULE ArtifactStorage --------------------------
(***************************************************************************)
(* Object storage and the rows that refer to it: uploads and their         *)
(* finalization, and the cleanup that deletes what no row refers to        *)
(* (VersionService in services/api/src/versions/service.ts and the upload  *)
(* statements of versions/postgres-store.ts), together with the jobs of    *)
(* DerivedJobs, which put objects of their own.                            *)
(*                                                                         *)
(* Objects have an age: cleanup deletes only those last written more than  *)
(* an hour ago.  An object that an unfinished execution wrote is young.    *)
(* A client sends the same bytes whenever it repeats the put of an upload. *)
(***************************************************************************)
EXTENDS DerivedJobs

CONSTANTS
  Uploads,   \* staged_uploads
  Sent,      \* the bytes the client puts: the declared ones ("good") or others
  Attempts,  \* finalize requests, each with an artifact key of its own
  Outages    \* whether unfinished work may find objects older than the hour

ASSUME SentAssumption == Sent \in [Uploads -> {"good", "bad"}]

VARIABLES
  upload,    \* the rows of staged_uploads; overdue: expires_at has passed;
             \* caught: it did so under a finalization that had checked it
  attempt,   \* the finalize requests
  tidying,   \* uploads whose staging object a request is about to delete
  aged,      \* the keys of objects older than an hour
  cleaner    \* the cleanup timer

storageVars == <<upload, attempt, tidying, aged, cleaner>>
vars == <<derivedVars, storageVars>>

Staging(u) == <<"staging", u>>
Own(r) == <<"artifact", r>>

Resting == [pc |-> "idle", referenced |-> {}, doomed |-> {}]

Init ==
  /\ DerivedInit
  /\ upload = [u \in Uploads |-> [status |-> "absent", overdue |-> FALSE,
                                caught |-> FALSE]]
  /\ attempt = [r \in Attempts |-> [pc |-> "new", upload |-> None]]
  /\ tidying = {}
  /\ aged = {}
  /\ cleaner = Resting

Without(k) == [x \in DOMAIN object \ {k} |-> object[x]]

-----------------------------------------------------------------------------
(* Uploads.                                                                *)

Open(u) == upload[u].status = "pending" /\ ~upload[u].overdue

(* A finalization keeps the row of its upload from its check of it to its  *)
(* commit.  Others that lock or update the row wait; reading it, counting  *)
(* it and putting its bytes do not.                                        *)
Locked(u) ==
  \E r \in Attempts : attempt[r].pc = "checked" /\ attempt[r].upload = u

(* The quota of createUpload: files and the uploads that are still open.   *)
Reserved == Cardinality(artifact) + Cardinality({u \in Uploads : Open(u)})

CreateUpload(u) ==
  /\ upload[u].status = "absent"
  /\ Reserved + 1 <= Quota
  /\ upload' = [upload EXCEPT ![u].status = "pending"]
  /\ UNCHANGED <<derivedVars, attempt, tidying, aged, cleaner>>

(* The signed URL works until the upload expires, whatever its status.     *)
ClientPuts(u) ==
  /\ upload[u].status # "absent"
  /\ ~upload[u].overdue
  /\ object' = Stored(Staging(u), Sent[u])
  /\ aged' = aged \ {Staging(u)}
  /\ UNCHANGED <<jobRows, slot, upload, attempt, tidying, cleaner>>

(* "caught" is a history variable: nothing but QuotaKept reads it.         *)
FallsOverdue(u) ==
  /\ upload[u].status # "absent"
  /\ ~upload[u].overdue
  /\ upload' = [upload EXCEPT ![u].overdue = TRUE, ![u].caught = Locked(u)]
  /\ UNCHANGED <<derivedVars, attempt, tidying, aged, cleaner>>

(* The row first, the object afterwards.                                   *)
Cancel(u) ==
  /\ upload[u].status \notin {"absent", "finalized"}
  /\ ~Locked(u)
  /\ upload' = [upload EXCEPT ![u].status = IF @ = "pending" THEN "cancelled" ELSE @]
  /\ tidying' = tidying \cup {u}
  /\ UNCHANGED <<derivedVars, attempt, aged, cleaner>>

(* Deleting a staging object is tried once and its failure ignored.        *)
Tidy(u, works) ==
  /\ u \in tidying
  /\ tidying' = tidying \ {u}
  /\ object' = IF works THEN Without(Staging(u)) ELSE object
  /\ aged' = aged \cap DOMAIN object'
  /\ UNCHANGED <<jobRows, slot, upload, attempt, cleaner>>

-----------------------------------------------------------------------------
(* Finalization: look at the upload, inspect the staged bytes, copy them   *)
(* to a new key, and in one transaction check the upload and, when the     *)
(* lock of the branch is there, commit the file and its version.           *)

Step(r, pc) == attempt' = [attempt EXCEPT ![r].pc = pc]

BeginFinalize(r, u) ==
  /\ attempt[r].pc = "new"
  /\ Open(u)
  /\ attempt' = [attempt EXCEPT ![r] = [pc |-> "inspecting", upload |-> u]]
  /\ UNCHANGED <<derivedVars, upload, tidying, aged, cleaner>>

(* Without an upload that is open the request is refused, or replayed      *)
(* without touching an object.                                             *)

InspectPasses(r) ==
  LET k == Staging(attempt[r].upload)
  IN  /\ attempt[r].pc = "inspecting"
      /\ Exists(k)
      /\ object[k] = "good"
      /\ Step(r, "copying")
      /\ UNCHANGED <<derivedVars, upload, tidying, aged, cleaner>>

(* Any error fails the upload: wrong bytes, missing ones, or an object     *)
(* storage that could not be reached.                                      *)
InspectFails(r) ==
  /\ attempt[r].pc = "inspecting"
  /\ ~Locked(attempt[r].upload)
  /\ Step(r, "done")
  /\ upload' = [upload EXCEPT ![attempt[r].upload].status =
                  IF @ = "pending" THEN "failed" ELSE @]
  /\ UNCHANGED <<derivedVars, tidying, aged, cleaner>>

(* A failed copy leaves the upload as it is; if only the answer is lost,   *)
(* the copy is there.                                                      *)
Copy(r, answered) ==
  LET k == Staging(attempt[r].upload)
  IN  /\ attempt[r].pc = "copying"
      /\ Exists(k)
      /\ object' = Stored(Own(r), object[k])
      /\ Step(r, IF answered THEN "committing" ELSE "done")
      /\ UNCHANGED <<jobRows, slot, upload, tidying, aged, cleaner>>

CopyFails(r) ==
  /\ attempt[r].pc = "copying"
  /\ Step(r, "done")
  /\ UNCHANGED <<derivedVars, upload, tidying, aged, cleaner>>

BugCheckUnlocked(r) ==
  /\ attempt[r].pc = "committing"
  /\ Open(attempt[r].upload)
  /\ Step(r, "checked")
  /\ UNCHANGED <<derivedVars, upload, tidying, aged, cleaner>>

BugCheckStatusOnly(r) ==
  /\ attempt[r].pc = "committing"
  /\ upload[attempt[r].upload].status = "pending"
  /\ ~Locked(attempt[r].upload)
  /\ Step(r, "checked")
  /\ UNCHANGED <<derivedVars, upload, tidying, aged, cleaner>>

(* The row is locked and its expiry compared once, before the wait for the *)
(* lock of the branch.                                                     *)
CheckUpload(r) ==
  /\ attempt[r].pc = "committing"
  /\ Open(attempt[r].upload)
  /\ ~Locked(attempt[r].upload)
  /\ Step(r, "checked")
  /\ UNCHANGED <<derivedVars, upload, tidying, aged, cleaner>>

Commit(r, answered) ==
  LET u == attempt[r].upload
  IN  /\ attempt[r].pc = "checked"
      /\ upload' = [upload EXCEPT ![u].status = "finalized"]
      /\ artifact' = artifact \cup {<<Own(r), "good">>}
      /\ Step(r, "done")
      /\ tidying' = IF answered THEN tidying \cup {u} ELSE tidying
      /\ UNCHANGED <<job, shown, refers, object, finished, slot, aged, cleaner>>

(* Another request finalized the upload: this one answers with its version *)
(* and has a copy to delete.                                               *)
Replay(r) ==
  /\ attempt[r].pc = "committing"
  /\ upload[attempt[r].upload].status = "finalized"
  /\ Step(r, "undoing")
  /\ UNCHANGED <<derivedVars, upload, tidying, aged, cleaner>>

(* The upload is closed, or the database fails, which also gives up the    *)
(* lock: the copy is left to cleanup.                                      *)
CommitThrows(r) ==
  /\ attempt[r].pc \in {"committing", "checked"}
  /\ Step(r, "done")
  /\ UNCHANGED <<derivedVars, upload, tidying, aged, cleaner>>

Undo(r, works) ==
  /\ attempt[r].pc = "undoing"
  /\ object' = IF works THEN Without(Own(r)) ELSE object
  /\ Step(r, "done")
  /\ tidying' = IF works THEN tidying \cup {attempt[r].upload} ELSE tidying
  /\ UNCHANGED <<jobRows, slot, upload, aged, cleaner>>

-----------------------------------------------------------------------------
(* Cleanup, in the order of VersionService.cleanup: expire uploads, read   *)
(* the references, list the objects, delete one after the other.  Any of   *)
(* its calls may fail and end the pass.                                    *)

ExpireUploads ==
  LET due == {u \in Uploads : upload[u].status = "pending" /\ upload[u].overdue}
  IN  /\ cleaner.pc = "idle"
      /\ \A u \in due : ~Locked(u)
      /\ upload' = [u \in Uploads |->
                      IF u \in due THEN [upload[u] EXCEPT !.status = "expired"]
                      ELSE upload[u]]
      /\ tidying' = tidying \cup due
      /\ cleaner' = [Resting EXCEPT !.pc = "reading"]
      /\ UNCHANGED <<derivedVars, attempt, aged>>

BugForgetCandidates ==
  {a[1] : a \in artifact}
    \cup {Staging(u) : u \in {u \in Uploads : upload[u].status = "pending"}}
    \cup UNION {{p[1] : p \in refers[j]} : j \in Comparisons \cup Renditions}

References ==
  {a[1] : a \in artifact}
    \cup {Staging(u) : u \in {u \in Uploads : upload[u].status = "pending"}}
    \cup UNION {{p[1] : p \in refers[j]} : j \in Jobs}

ReadReferences ==
  /\ cleaner.pc = "reading"
  /\ cleaner' = [cleaner EXCEPT !.pc = "listing", !.referenced = References]
  /\ UNCHANGED <<derivedVars, upload, attempt, tidying, aged>>

ListObjects ==
  /\ cleaner.pc = "listing"
  /\ cleaner' = [cleaner EXCEPT !.pc = "deleting",
                                !.doomed = aged \ cleaner.referenced]
  /\ UNCHANGED <<derivedVars, upload, attempt, tidying, aged>>

DeleteOrphan(k) ==
  /\ cleaner.pc = "deleting"
  /\ k \in cleaner.doomed
  /\ object' = Without(k)
  /\ aged' = aged \ {k}
  /\ cleaner' = [cleaner EXCEPT !.doomed = @ \ {k}]
  /\ UNCHANGED <<jobRows, slot, upload, attempt, tidying>>

EndCleanup ==
  /\ cleaner.pc # "idle"
  /\ cleaner' = Resting
  /\ UNCHANGED <<derivedVars, upload, attempt, tidying, aged>>

(* An hour passes over an object.  No execution lasts that long after its  *)
(* put, and reading the references and listing the objects take less.      *)
(* Without outages no job comes an hour after one that failed and left the *)
(* object it will put behind, either.                                      *)
Wanted(k) ==
  \E j \in Jobs : /\ job[j].status \notin Endings
                  /\ \E c \in Contents : k \in KeysOf(j, c)

HourPasses(k) ==
  /\ k \in DOMAIN object \ aged
  /\ cleaner.pc # "listing"
  /\ \A s \in Slots : slot[s].pc = "idle" \/ k \notin slot[s].fresh
  /\ \A r \in Attempts : attempt[r].pc \in {"new", "done"} \/ k # Own(r)
  /\ Outages \/ k \in References \/ ~Wanted(k)
  /\ aged' = aged \cup {k}
  /\ UNCHANGED <<derivedVars, upload, attempt, tidying, cleaner>>

-----------------------------------------------------------------------------
Finalize(r) ==
  \/ \E u \in Uploads : BeginFinalize(r, u)
  \/ InspectPasses(r)
  \/ InspectFails(r)
  \/ \E answered \in BOOLEAN : Copy(r, answered) \/ Commit(r, answered)
  \/ CopyFails(r)
  \/ CheckUpload(r)
  \/ Replay(r)
  \/ CommitThrows(r)
  \/ \E works \in BOOLEAN : Undo(r, works)

Next ==
  \/ DerivedNext /\ UNCHANGED storageVars
  \/ \E u \in Uploads :
       \/ CreateUpload(u) \/ ClientPuts(u) \/ FallsOverdue(u) \/ Cancel(u)
       \/ \E works \in BOOLEAN : Tidy(u, works)
  \/ \E r \in Attempts : Finalize(r)
  \/ ExpireUploads
  \/ ReadReferences
  \/ ListObjects
  \/ \E k \in cleaner.doomed : DeleteOrphan(k)
  \/ EndCleanup
  \/ \E k \in DOMAIN object : HourPasses(k)

Spec == Init /\ [][Next]_vars

-----------------------------------------------------------------------------
(* Properties.                                                             *)

(* ResultsIntact again, now with a cleanup: it "never deletes keys         *)
(* referenced by retained artifacts" (docs/product/artifact-versioning.md), *)
(* nor those of results, pages and candidates, and neither do the requests  *)
(* that tidy up after themselves.                                           *)
ReferencesHold == ResultsIntact

(* The same of files alone, whatever the outages: the promise as           *)
(* artifact-versioning.md makes it.                                        *)
(* It does not hold: see the known disagreements of the README.            *)
FilesHold == \A a \in artifact : Exists(a[1])

(* An upload becomes one file or none, however many finalize requests,     *)
(* cancellations and expiries race, and only bytes that were inspected     *)
(* become a file (finalizeUpload, cancelUpload, failUpload, expireUploads).*)
FilesOf(u) ==
  {a \in artifact : \E r \in Attempts : a[1] = Own(r) /\ attempt[r].upload = u}

OneFilePerUpload ==
  \A u \in Uploads :
    /\ Cardinality(FilesOf(u)) = IF upload[u].status = "finalized" THEN 1 ELSE 0
    /\ upload[u].status = "finalized" => Sent[u] = "good"

(* The quota bounds the files and the uploads that may still become files, *)
(* but for two sorts of file.  Publishing a merge counts files only        *)
(* (completeMerge), so each may take a place that an open upload had       *)
(* reserved.  And an upload that falls overdue between the check of its    *)
(* finalization and the commit is counted by no createUpload in between.   *)
Published == {j \in Merges : job[j].status = "completed"}

Late == {u \in Uploads : upload[u].status = "finalized" /\ upload[u].caught}

QuotaKept == Reserved <= Quota + Cardinality(Published) + Cardinality(Late)

(* Uploads alone keep the quota (docs/phase-status.md: "serialized         *)
(* organization quota reservations").                                      *)
(* It does not hold: see the known disagreements of the README.            *)
ReservationsHold == Reserved <= Quota + Cardinality(Published)

=============================================================================
