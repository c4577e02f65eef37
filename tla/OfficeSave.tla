----------------------------- MODULE OfficeSave -----------------------------
(***************************************************************************)
(* Saving from the Office add-in (apps/office-addin/src): files in Word,   *)
(* Excel or PowerPoint linked to one document, each with a task pane that  *)
(* stores what the file holds as a version.                                *)
(*                                                                         *)
(* The browser remembers, for every file address, the version the file is  *)
(* based on; the API extends the main line only if that is its head.  A    *)
(* pane may be closed between any two steps, a call may fail, and its      *)
(* answer may be lost.  Versions are numbered from 1; 0 is null.           *)
(***************************************************************************)
EXTENDS Naturals, Sequences, FiniteSets

CONSTANTS
  Files,        \* addresses of files, all opened in one browser
  Edits,        \* changes people make; a file holds a set of them
  Runs,         \* calls of pushCurrentVersion and continueSaveCompare at once
  MaxVersions,  \* bound on the versions stored
  None          \* no file

ASSUME MaxVersionsAssumption == MaxVersions \in Nat

VARIABLES
  versions,  \* the versions the API has stored
  head,      \* the head of the document's branch
  content,   \* what each file holds
  linked,    \* files whose settings hold the link to the document
  base,      \* the stored base context of each file
  resumable, \* whether a workflow is stored for the document
  pane,      \* the task pane of each file
  run        \* calls under way

server == <<versions, head>>
stored == <<linked, base, resumable>>
vars == <<versions, head, content, linked, base, resumable, pane, run>>

Count == Len(versions)

(* aside: kept as a conflict.                                              *)
Version == [content : SUBSET Edits, aside : BOOLEAN]

(* seen: versions in the list the pane shows; busy: its controls are off.  *)
Pane == [open : BOOLEAN, seen : 0..MaxVersions, busy : BOOLEAN]

Run == [at : {"idle", "finalizing", "orphaned", "answered", "continuing"},
        file : Files \cup {None}, content : SUBSET Edits, base : 0..MaxVersions,
        version : 0..MaxVersions]

Idle ==
  [at |-> "idle", file |-> None, content |-> {}, base |-> 0, version |-> 0]
Continuing(f) == [Idle EXCEPT !.at = "continuing", !.file = f]

Closed == [open |-> FALSE, seen |-> 0, busy |-> FALSE]

Init ==
  /\ versions = <<>> /\ head = 0
  /\ content = [f \in Files |-> {}]
  /\ linked = {}
  /\ base = [f \in Files |-> 0]
  /\ resumable = FALSE
  /\ pane = [f \in Files |-> Closed]
  /\ run = [r \in Runs |-> Idle]

-----------------------------------------------------------------------------
(* The file and its pane.                                                  *)

Edit(f) ==
  /\ \E e \in Edits \ content[f] : content' = [content EXCEPT ![f] = @ \cup {e}]
  /\ UNCHANGED <<server, stored, pane, run>>

(* The pane is drawn from the list that boundDocumentState has just read.  *)
Rendered(f) ==
  pane' = [pane EXCEPT ![f] = [open |-> TRUE, seen |-> Count, busy |-> FALSE]]

Newest(numbers) == CHOOSE n \in numbers \cup {0} : \A m \in numbers : m <= n

(* The newest of the listed versions with exactly these bytes.             *)
Same(bytes, seen) == Newest({n \in 1..seen : versions[n].content = bytes})

(* A file is linked: its base is a version it is a copy of, or none.       *)
Link(f) ==
  /\ f \notin linked /\ ~pane[f].open
  /\ linked' = linked \cup {f}
  /\ base' = [base EXCEPT ![f] = Same(content[f], Count)]
  /\ Rendered(f)
  /\ UNCHANGED <<server, content, resumable, run>>

(* A pane that is opened resumes the workflow that is stored.              *)
Start(f) ==
  /\ f \in linked /\ ~pane[f].open
  /\ Rendered(f)
  /\ IF resumable
     THEN \E r \in Runs : run[r] = Idle /\ run' = [run EXCEPT ![r] = Continuing(f)]
     ELSE UNCHANGED run
  /\ UNCHANGED <<server, content, stored>>

(* A finalization that has been sent may still arrive.                     *)
Close(f) ==
  /\ pane[f].open \/ \E r \in Runs : run[r].file = f
  /\ pane' = [pane EXCEPT ![f] = Closed]
  /\ run' = [r \in Runs |->
       IF run[r].file # f THEN run[r]
       ELSE IF run[r].at = "finalizing"
       THEN [run[r] EXCEPT !.at = "orphaned", !.file = None]
       ELSE Idle]
  /\ UNCHANGED <<server, content, stored>>

(* The picker takes the place of the pane; calls under way go on and may   *)
(* draw the pane again.                                                    *)
Unlink(f) ==
  /\ pane[f].open /\ ~pane[f].busy
  /\ linked' = linked \ {f}
  /\ base' = [base EXCEPT ![f] = 0]
  /\ resumable' = FALSE
  /\ pane' = [pane EXCEPT ![f] = Closed]
  /\ UNCHANGED <<server, content, run>>

(* The exact copy is a new file, saved at an address that was not in use;  *)
(* the link in its settings comes with it, the base of the first file does *)
(* not.                                                                    *)
OpenCopy(f, g, n) ==
  /\ pane[f].open /\ ~pane[f].busy /\ n \in 1..pane[f].seen
  /\ g # f /\ g \notin linked /\ content[g] = {} /\ base[g] = 0
  /\ \A r \in Runs : run[r].file # g
  /\ content' = [content EXCEPT ![g] = versions[n].content]
  /\ linked' = linked \cup {g}
  /\ UNCHANGED <<server, base, resumable, pane, run>>

-----------------------------------------------------------------------------
(* pushCurrentVersion.                                                     *)

(* The bytes are stored already: their version becomes the base.           *)
Repeat(f) ==
  /\ pane[f].open /\ ~pane[f].busy
  /\ Same(content[f], pane[f].seen) # 0
  /\ base' = [base EXCEPT ![f] = Same(content[f], pane[f].seen)]
  /\ UNCHANGED <<server, content, linked, resumable, pane, run>>

BugStoredBase(f) == IF base[f] \in 1..pane[f].seen THEN base[f] ELSE pane[f].seen

(* The stored base counts only while its version is in the list.           *)
StoredBase(f) == IF base[f] \in 1..pane[f].seen THEN base[f] ELSE 0

(* An upload without a base is refused when there is a head.               *)
IntentAccepted(b) == b # 0 \/ head = 0

BugBeginSave(f, r) ==
  /\ pane[f].open /\ ~pane[f].busy /\ run[r] = Idle
  /\ IntentAccepted(StoredBase(f))
  /\ pane' = [pane EXCEPT ![f].busy = TRUE]
  /\ run' = [run EXCEPT ![r] = [Idle EXCEPT !.at = "finalizing", !.file = f,
                                  !.content = content[f], !.base = StoredBase(f)]]
  /\ UNCHANGED <<server, content, stored>>

(* The file is captured, and its upload announced and sent.                *)
BeginSave(f, r) ==
  /\ pane[f].open /\ ~pane[f].busy /\ run[r] = Idle
  /\ Same(content[f], pane[f].seen) = 0
  /\ IntentAccepted(StoredBase(f))
  /\ pane' = [pane EXCEPT ![f].busy = TRUE]
  /\ run' = [run EXCEPT ![r] = [Idle EXCEPT !.at = "finalizing", !.file = f,
                                  !.content = content[f], !.base = StoredBase(f)]]
  /\ UNCHANGED <<server, content, stored>>

Unlocked(f) == pane' = [pane EXCEPT ![f].busy = FALSE]

(* The upload fails or is cancelled; what is staged is cancelled too.      *)
SaveFails(r) ==
  /\ run[r].at = "finalizing"
  /\ Unlocked(run[r].file)
  /\ run' = [run EXCEPT ![r] = Idle]
  /\ UNCHANGED <<server, content, stored>>

(* The API adds the version: to the main line if the base is still its     *)
(* head, beside it as a conflict otherwise.                                *)
Stores(r) ==
  /\ Count < MaxVersions
  /\ versions' = Append(versions, [content |-> run[r].content, aside |-> head # run[r].base])
  /\ head' = IF head = run[r].base THEN Count + 1 ELSE head
  /\ UNCHANGED <<content, stored>>

Finalize(r) ==
  /\ run[r].at = "finalizing"
  /\ Stores(r)
  /\ run' = [run EXCEPT ![r].at = "answered", ![r].version = Count + 1]
  /\ UNCHANGED pane

(* The answer is lost; cancelling an upload that is finalized is refused.  *)
LoseAnswer(r) ==
  /\ run[r].at = "finalizing"
  /\ Stores(r)
  /\ Unlocked(run[r].file)
  /\ run' = [run EXCEPT ![r] = Idle]

(* The pane that sent it has been closed.                                  *)
FinalizeLate(r) ==
  /\ run[r].at = "orphaned"
  /\ Stores(r) \/ UNCHANGED <<server, content, stored>>
  /\ run' = [run EXCEPT ![r] = Idle]
  /\ UNCHANGED pane

(* A version of the main line becomes the base of the file, a conflict     *)
(* does not; the workflow is stored and goes on at once.                   *)
Keep(r) ==
  /\ run[r].at = "answered"
  /\ base' = IF versions[run[r].version].aside THEN base
             ELSE [base EXCEPT ![run[r].file] = run[r].version]
  /\ resumable' = TRUE
  /\ run' = [run EXCEPT ![r] = Continuing(run[r].file)]
  /\ UNCHANGED <<server, content, linked, pane>>

(* continueSaveCompare ends, stores what to resume, and draws the pane     *)
(* again, even while another save is under way in it, if it can read the   *)
(* document.                                                               *)
Continue(r) ==
  /\ run[r].at = "continuing"
  /\ Rendered(run[r].file) \/ UNCHANGED pane
  /\ resumable' = TRUE
  /\ run' = [run EXCEPT ![r] = Idle]
  /\ UNCHANGED <<server, content, linked, base>>

Next ==
  \/ \E f \in Files :
       \/ Edit(f) \/ Link(f) \/ Start(f) \/ Close(f) \/ Unlink(f) \/ Repeat(f)
       \/ \E g \in Files, n \in 1..Count : OpenCopy(f, g, n)
       \/ \E r \in Runs : BeginSave(f, r)
  \/ \E r \in Runs :
       \/ SaveFails(r) \/ Finalize(r) \/ LoseAnswer(r) \/ FinalizeLate(r)
       \/ Keep(r) \/ Continue(r)

Spec == Init /\ [][Next]_vars

-----------------------------------------------------------------------------
(* Properties.                                                             *)

TypeOK ==
  /\ versions \in Seq(Version) /\ Count <= MaxVersions
  /\ head \in 0..Count
  /\ content \in [Files -> SUBSET Edits]
  /\ linked \subseteq Files
  /\ base \in [Files -> 0..MaxVersions]
  /\ resumable \in BOOLEAN
  /\ pane \in [Files -> Pane]
  /\ run \in [Runs -> Run]

OnLine(m, n) == m < n /\ ~versions[m].aside /\ ~versions[n].aside

(* Nobody's save takes away what another has saved: a version of the main  *)
(* line holds every change of the versions before it.  The add-in relies   *)
(* on the base kept for the file's address (main.ts:822-827), the API on   *)
(* that base being the head.                                               *)
NothingOverwritten ==
  \A m, n \in 1..Count :
    OnLine(m, n) => versions[m].content \subseteq versions[n].content

(* "Stop without creating a duplicate" (docs/product/office-version-push.  *)
(* md): pressing Save & Compare again, after a lost answer, in another     *)
(* pane or with an old list, never puts the same bytes on the main line    *)
(* twice.                                                                  *)
NoDuplicateOnLine ==
  \A m, n \in 1..Count : OnLine(m, n) => versions[m].content # versions[n].content

=============================================================================
