------------------------- MODULE OfficeSave_proofs -------------------------
(***************************************************************************)
(* Proofs about the two clients.  First OfficeSave, the Office task pane,  *)
(* for every number of files, changes, calls and versions; then WebCache,  *)
(* a page of the web application, for every page, query, person and number *)
(* of mutations, changes and failures.                                     *)
(***************************************************************************)
EXTENDS OfficeSave, WebCache, SequenceTheorems, WellFoundedInduction, TLAPS

-----------------------------------------------------------------------------
(* The newest version with the same bytes.  A set of numbers has a least   *)
(* one because < is well-founded, so a bounded one has a greatest.         *)

LEMMA LeastNumber ==
  ASSUME NEW T \in SUBSET Nat, T # {}
  PROVE  \E n \in T : \A m \in T : n <= m
<1>1. PICK R : R = {pair \in Nat \X Nat : pair[1] < pair[2]}
  OBVIOUS
<1>2. IsWellFoundedOn(R, Nat)
  BY <1>1, NatLessThanWellFounded, Zenon DEF OpToRel
<1>3. PICK n \in T : \A m \in T : ~ (<<m, n>> \in R)
  BY <1>2, WFMin
<1>4. \A m, k \in Nat : <<m, k>> \in R <=> m < k
  BY <1>1
<1>5. ASSUME NEW m \in T PROVE n <= m
  <2>1. ~(m < n)
    BY <1>3, <1>4
  <2> QED BY <2>1
<1> QED BY <1>5

LEMMA GreatestNumber ==
  ASSUME NEW bound \in Nat, NEW T \in SUBSET (0..bound), T # {}
  PROVE  \E n \in T : \A m \in T : m <= n
<1>1. PICK D : D = {k \in 0..bound : bound - k \in T}
  OBVIOUS
<1>2. D \in SUBSET Nat
  BY <1>1
<1>3. PICK n \in T : TRUE
  OBVIOUS
<1>4. bound - n \in 0..bound /\ bound - (bound - n) = n
  BY <1>3
<1>5. bound - n \in D
  BY <1>1, <1>3, <1>4
<1>6. PICK k \in D : \A j \in D : k <= j
  BY <1>2, <1>5, LeastNumber
<1>7. bound - k \in T
  BY <1>1, <1>6
<1>8. ASSUME NEW m \in T PROVE m <= bound - k
  <2>1. m \in 0..bound /\ bound - m \in 0..bound /\ bound - (bound - m) = m
    OBVIOUS
  <2>2. bound - m \in D
    BY <1>1, <2>1
  <2>3. k \in Nat /\ k <= bound - m
    BY <1>2, <1>6, <2>2
  <2> QED BY <2>1, <2>3
<1> QED BY <1>7, <1>8

LEMMA NewestNumber ==
  ASSUME NEW bound \in Nat, NEW T \in SUBSET (1..bound)
  PROVE  /\ Newest(T) \in T \cup {0}
         /\ Newest(T) = 0 => T = {}
<1>1. T \cup {0} \in SUBSET (0..bound) /\ T \cup {0} # {}
  OBVIOUS
<1>2. PICK n \in T \cup {0} : \A m \in T \cup {0} : m <= n
  BY <1>1, GreatestNumber
<1>3. Newest(T) \in T \cup {0} /\ \A m \in T : m <= Newest(T)
  BY <1>2 DEF Newest
<1>4. ASSUME Newest(T) = 0, NEW m \in T PROVE FALSE
  BY <1>3, <1>4
<1> QED BY <1>3, <1>4

LEMMA SameVersion ==
  ASSUME TypeOK, NEW bytes, NEW seen \in 0..Count
  PROVE  /\ Same(bytes, seen) \in 0..seen
         /\ Same(bytes, seen) # 0 => versions[Same(bytes, seen)].content = bytes
         /\ Same(bytes, seen) = 0 => \A n \in 1..seen : versions[n].content # bytes
<1>1. PICK T : T = {n \in 1..seen : versions[n].content = bytes}
  OBVIOUS
<1>2. Count \in Nat /\ seen \in Nat
  BY LenProperties DEF TypeOK, Count
<1>3. T \in SUBSET (1..seen) /\ Same(bytes, seen) = Newest(T)
  BY <1>1 DEF Same
<1>4. Newest(T) \in T \cup {0} /\ (Newest(T) = 0 => T = {})
  BY <1>2, <1>3, NewestNumber
<1> QED BY <1>1, <1>2, <1>3, <1>4

-----------------------------------------------------------------------------
(* The inductive invariant.                                                *)

(* The head is the last version of the main line.                          *)
HeadIsLast ==
  /\ head # 0 => ~versions[head].aside
  /\ \A n \in 1..Count : ~versions[n].aside => n <= head

(* A file holds every change of the version it is based on.                *)
BasesHeld ==
  \A f \in Files :
    /\ base[f] \in 0..Count /\ pane[f].seen \in 0..Count
    /\ base[f] # 0 => versions[base[f]].content \subseteq content[f]

(* A save that has been sent carries every change of its base, and no      *)
(* version up to its base has its bytes; its file goes on to hold them.    *)
Sound(x) ==
  /\ x.at \in {"finalizing", "orphaned"} =>
       /\ x.base \in 0..Count
       /\ x.base # 0 => versions[x.base].content \subseteq x.content
       /\ \A n \in 1..x.base : versions[n].content # x.content
  /\ x.at \in {"finalizing", "answered", "continuing"} => x.file \in Files
  /\ x.at = "finalizing" => x.content \subseteq content[x.file]
  /\ x.at = "answered" =>
       /\ x.version \in 1..Count
       /\ versions[x.version].content \subseteq content[x.file]

RunsSound == \A r \in Runs : Sound(run[r])

IInv == TypeOK /\ HeadIsLast /\ BasesHeld /\ RunsSound
          /\ NothingOverwritten /\ NoDuplicateOnLine

LEMMA CountType ==
  ASSUME TypeOK
  PROVE  /\ Count \in Nat /\ MaxVersions \in Nat /\ Count <= MaxVersions
         /\ \A n \in 1..Count : versions[n] \in Version
         /\ 0..Count \subseteq 0..MaxVersions
BY MaxVersionsAssumption, LenProperties, ElementOfSeq DEF TypeOK, Count

LEMMA IdleSound == Idle \in Run /\ Sound(Idle)
BY MaxVersionsAssumption DEF Idle, Run, Sound

LEMMA ContinuingSound ==
  ASSUME NEW f \in Files
  PROVE  Continuing(f) \in Run /\ Sound(Continuing(f))
<1>1. PICK x : x = Continuing(f)
  OBVIOUS
<1>2. PICK y \in Run : y = Idle
  BY IdleSound
<1>3. x = [y EXCEPT !.at = "continuing", !.file = f]
  BY <1>1, <1>2 DEF Continuing
<1>4. x \in Run /\ x.at = "continuing" /\ x.file = f
  BY <1>3 DEF Run
<1> QED BY <1>1, <1>4 DEF Sound

(* Versions are only added and files only gain changes.                    *)
Grows ==
  /\ Count \in Nat /\ Count' \in Nat /\ Count <= Count'
  /\ \A n \in 1..Count : versions'[n] = versions[n]
  /\ \A f \in Files : content[f] \subseteq content'[f]

LEMMA SoundGrows ==
  ASSUME NEW x \in Run, Sound(x), Grows
  PROVE  Sound(x)'
<1>1. x.base \in Nat /\ x.version \in Nat
  BY MaxVersionsAssumption DEF Run
<1>2. \A n \in 1..Count : n \in 1..Count' /\ versions'[n] = versions[n]
  BY DEF Grows
<1>3. \A n \in 0..Count : n \in 0..Count' /\ (n # 0 => n \in 1..Count)
  BY DEF Grows
<1>4. ASSUME x.at \in {"finalizing", "orphaned"}
      PROVE  /\ x.base \in 0..Count'
             /\ x.base # 0 => versions'[x.base].content \subseteq x.content
             /\ \A n \in 1..x.base : versions'[n].content # x.content
  <2>1. x.base \in 0..Count
    BY <1>4 DEF Sound
  <2>2. \A n \in 1..x.base : n \in 1..Count
    BY <2>1 DEF Grows
  <2> QED BY <1>2, <1>3, <1>4, <2>1, <2>2 DEF Sound
<1>5. ASSUME x.at = "answered"
      PROVE  x.version \in 1..Count' /\ versions'[x.version].content \subseteq content'[x.file]
  BY <1>2, <1>5 DEF Sound, Grows
<1> QED BY <1>4, <1>5 DEF Sound, Grows

(* Nothing is stored: the line stays as it is.                             *)
LEMMA QuietStep ==
  ASSUME IInv, UNCHANGED server, TypeOK', BasesHeld', RunsSound'
  PROVE  IInv'
BY DEF IInv, server, HeadIsLast, NothingOverwritten, NoDuplicateOnLine, OnLine, Count

(* One call changes and the others go on.                                  *)
LEMMA RunChange ==
  ASSUME TypeOK, RunsSound, Grows, NEW r \in Runs, NEW x \in Run, Sound(x)',
         run' = [run EXCEPT ![r] = x]
  PROVE  run' \in [Runs -> Run] /\ RunsSound'
<1>1. run' \in [Runs -> Run]
  BY DEF TypeOK
<1>2. ASSUME NEW q \in Runs PROVE \E y \in Run : run'[q] = y /\ Sound(y)'
  <2>1. CASE q = r
    BY <2>1 DEF TypeOK
  <2>2. CASE q # r
    <3>1. PICK y \in Run : y = run[q]
      BY DEF TypeOK
    <3>2. Sound(y)
      BY <3>1 DEF RunsSound
    <3>3. Sound(y)'
      BY <3>2, SoundGrows
    <3> QED BY <2>2, <3>1, <3>3 DEF TypeOK
  <2> QED BY <2>1, <2>2
<1>3. RunsSound'
  BY <1>2 DEF RunsSound
<1> QED BY <1>1, <1>3

LEMMA RunsGrow ==
  ASSUME TypeOK, RunsSound, Grows, run' = run
  PROVE  RunsSound'
<1>1. ASSUME NEW q \in Runs PROVE \E y \in Run : run'[q] = y /\ Sound(y)'
  <2>1. PICK y \in Run : y = run[q]
    BY DEF TypeOK
  <2>2. Sound(y)
    BY <2>1 DEF RunsSound
  <2>3. Sound(y)'
    BY <2>2, SoundGrows
  <2> QED BY <2>1, <2>3
<1> QED BY <1>1 DEF RunsSound

-----------------------------------------------------------------------------
(* Storing a version: it is the next of the main line and holds all of the *)
(* line and something new, or it is kept aside.                            *)
LEMMA StoresVersion ==
  ASSUME IInv, NEW r \in Runs, run[r].at \in {"finalizing", "orphaned"}, Stores(r)
  PROVE  /\ versions' \in Seq(Version) /\ Count' = Count + 1 /\ Count' <= MaxVersions
         /\ head' \in 0..Count' /\ Grows /\ versions'[Count + 1].content = run[r].content
         /\ HeadIsLast' /\ NothingOverwritten' /\ NoDuplicateOnLine'
<1>t. TypeOK /\ Count \in Nat /\ MaxVersions \in Nat /\ run[r] \in Run /\ Sound(run[r])
      /\ head \in 0..Count
  BY CountType DEF IInv, TypeOK, RunsSound
<1>1. PICK x : x = [content |-> run[r].content, aside |-> head # run[r].base]
  OBVIOUS
<1>2. /\ x \in Version /\ x.content = run[r].content
      /\ x.aside <=> head # run[r].base
  BY <1>t, <1>1 DEF Version, Run
<1>3. PICK n : n = Count + 1
  OBVIOUS
<1>4. /\ versions' \in Seq(Version) /\ Count' = n /\ versions'[n] = x
      /\ \A m \in 1..Count : versions'[m] = versions[m]
      /\ n \in Nat /\ n # 0
  BY <1>t, <1>1, <1>2, <1>3, AppendProperties DEF Stores, TypeOK, Count
<1>5. \A m : m \in 1..Count' <=> m \in 1..Count \/ m = n
  BY <1>t, <1>3, <1>4
<1>6. Count' <= MaxVersions
  BY <1>t, <1>3, <1>4 DEF Stores
<1>7. Grows
  <2>1. content' = content /\ Count' \in Nat /\ Count <= Count'
    BY <1>t, <1>3, <1>4 DEF Stores
  <2> QED BY <1>t, <1>4, <2>1 DEF Grows
<1>8. head' = IF x.aside THEN head ELSE n
  BY <1>2, <1>3 DEF Stores
<1>9. head' \in 0..Count'
  BY <1>t, <1>3, <1>4, <1>8
<1>10. HeadIsLast'
  <2>1. head # 0 => head \in 1..Count
    BY <1>t
  <2>2. \A m \in 1..Count : m <= n
    BY <1>t, <1>3
  <2>3. head' # 0 => ~versions'[head'].aside
    BY <1>4, <1>8, <2>1 DEF IInv, HeadIsLast
  <2>4. \A m \in 1..Count' : ~versions'[m].aside => m <= head'
    BY <1>4, <1>5, <1>8, <2>2 DEF IInv, HeadIsLast
  <2> QED BY <2>3, <2>4 DEF HeadIsLast
<1>11. ASSUME NEW m \in 1..Count, ~versions[m].aside, ~x.aside
       PROVE  versions[m].content \subseteq x.content /\ versions[m].content # x.content
  <2>1. m <= head /\ head = run[r].base /\ head # 0 /\ m \in 1..head /\ head \in 1..Count
    BY <1>t, <1>2, <1>11 DEF IInv, HeadIsLast
  <2>2. versions[m].content # x.content
    BY <1>t, <1>2, <2>1 DEF Sound
  <2>3. versions[head].content \subseteq x.content
    BY <1>t, <1>2, <2>1 DEF Sound
  <2>4. versions[m].content \subseteq versions[head].content
    <3>1. CASE m = head
      BY <3>1
    <3>2. CASE m # head
      <4>1. m < head /\ ~versions[head].aside
        BY <1>t, <2>1, <3>2 DEF IInv, HeadIsLast
      <4> QED BY <1>11, <2>1, <4>1 DEF IInv, NothingOverwritten, OnLine
    <3> QED BY <3>1, <3>2
  <2> QED BY <2>2, <2>3, <2>4
<1>12. ASSUME NEW m \in 1..Count', NEW k \in 1..Count',
              m < k, ~versions'[m].aside, ~versions'[k].aside
       PROVE  /\ versions'[m].content \subseteq versions'[k].content
              /\ versions'[m].content # versions'[k].content
  <2>1. CASE k = n
    <3>1. m \in 1..Count
      BY <1>5, <1>12, <1>t, <1>4, <2>1
    <3> QED BY <1>4, <1>11, <1>12, <2>1, <3>1
  <2>2. CASE k # n
    <3>1. k \in 1..Count /\ m \in 1..Count
      BY <1>3, <1>5, <1>12, <1>t, <2>2
    <3> QED BY <1>4, <1>12, <3>1 DEF IInv, NothingOverwritten, NoDuplicateOnLine, OnLine
  <2> QED BY <2>1, <2>2
<1>13. NothingOverwritten' /\ NoDuplicateOnLine'
  BY <1>12 DEF NothingOverwritten, NoDuplicateOnLine, OnLine
<1> QED BY <1>2, <1>3, <1>4, <1>6, <1>7, <1>9, <1>10, <1>13

(* Files and panes keep what they hold when versions are added.            *)
LEMMA BasesGrow ==
  ASSUME TypeOK, BasesHeld, Grows, UNCHANGED base,
         \A f \in Files : pane'[f].seen \in 0..Count'
  PROVE  BasesHeld'
<1>1. ASSUME NEW f \in Files
      PROVE  /\ base'[f] \in 0..Count'
             /\ base'[f] # 0 => versions'[base'[f]].content \subseteq content'[f]
  <2>1. base[f] \in 0..Count /\ (base[f] # 0 => versions[base[f]].content \subseteq content[f])
    BY DEF BasesHeld
  <2>2. base[f] \in 0..Count' /\ (base[f] # 0 => base[f] \in 1..Count)
    BY <2>1 DEF Grows
  <2> QED BY <2>1, <2>2 DEF Grows
<1> QED BY <1>1 DEF BasesHeld

-----------------------------------------------------------------------------
(* The invariant is inductive.                                             *)

LEMMA InitInv == Init => IInv
<1> SUFFICES ASSUME Init PROVE IInv
  OBVIOUS
<1>1. Count = 0 /\ versions \in Seq(Version)
  BY EmptySeq DEF Init, Count
<1>2. Closed \in Pane /\ 0 \in 0..MaxVersions
  BY MaxVersionsAssumption DEF Closed, Pane
<1>5. TypeOK
  <2>1. versions \in Seq(Version) /\ Count <= MaxVersions /\ head \in 0..Count
    BY <1>1, MaxVersionsAssumption DEF Init
  <2>2. content \in [Files -> SUBSET Edits] /\ linked \subseteq Files
    BY DEF Init
  <2>3. base \in [Files -> 0..MaxVersions] /\ resumable \in BOOLEAN
    BY <1>2 DEF Init
  <2>4. pane \in [Files -> Pane]
    BY <1>2 DEF Init
  <2>5. run \in [Runs -> Run]
    BY IdleSound DEF Init
  <2> QED BY <2>1, <2>2, <2>3, <2>4, <2>5 DEF TypeOK
<1>3. HeadIsLast /\ BasesHeld /\ NothingOverwritten /\ NoDuplicateOnLine
  BY <1>1 DEF Init, HeadIsLast, BasesHeld, NothingOverwritten, NoDuplicateOnLine, Closed
<1>4. RunsSound
  BY IdleSound DEF Init, RunsSound
<1> QED BY <1>3, <1>4, <1>5 DEF IInv

LEMMA Standing ==
  ASSUME IInv, UNCHANGED server, \A f \in Files : content[f] \subseteq content'[f]
  PROVE  Grows /\ Count' = Count
<1>1. Count \in Nat /\ Count' = Count
  BY CountType DEF IInv, server, Count
<1> QED BY <1>1 DEF Grows, server

(* The pane of a file is drawn, or closed, or locked.                      *)
LEMMA PaneChange ==
  ASSUME IInv, NEW f \in Files, NEW p \in Pane, p.seen \in 0..Count,
         pane' = [pane EXCEPT ![f] = p]
  PROVE  pane' \in [Files -> Pane] /\ \A g \in Files : pane'[g].seen \in 0..Count
BY DEF IInv, TypeOK, BasesHeld

LEMMA PaneShapes ==
  ASSUME IInv, NEW f \in Files
  PROVE  /\ [open |-> TRUE, seen |-> Count, busy |-> FALSE] \in Pane
         /\ Closed \in Pane /\ Closed.seen \in 0..Count /\ Count \in 0..Count
         /\ pane[f] \in Pane /\ pane[f].seen \in 0..Count
         /\ \A b \in BOOLEAN : /\ [pane[f] EXCEPT !.busy = b] \in Pane
                               /\ [pane[f] EXCEPT !.busy = b].seen = pane[f].seen
<1>1. Count \in Nat /\ Count \in 0..Count /\ 0 \in 0..Count /\ Count \in 0..MaxVersions
  BY CountType DEF IInv
<1>2. /\ [open |-> TRUE, seen |-> Count, busy |-> FALSE] \in Pane
      /\ Closed \in Pane /\ Closed.seen \in 0..Count
  BY <1>1, MaxVersionsAssumption DEF Pane, Closed
<1>3. pane[f] \in Pane /\ pane[f].seen \in 0..Count
  BY DEF IInv, TypeOK, BasesHeld
<1>4. ASSUME NEW b \in BOOLEAN
      PROVE  /\ [pane[f] EXCEPT !.busy = b] \in Pane
             /\ [pane[f] EXCEPT !.busy = b].seen = pane[f].seen
  BY <1>3 DEF Pane
<1> QED BY <1>1, <1>2, <1>3, <1>4

LEMMA RenderedPane ==
  ASSUME IInv, NEW f \in Files, Rendered(f)
  PROVE  pane' \in [Files -> Pane] /\ \A g \in Files : pane'[g].seen \in 0..Count
<1>1. PICK p : p = [open |-> TRUE, seen |-> Count, busy |-> FALSE]
  OBVIOUS
<1>2. pane' = [pane EXCEPT ![f] = p] /\ p \in Pane /\ p.seen \in 0..Count
  BY <1>1, PaneShapes DEF Rendered
<1> QED BY <1>2, PaneChange

LEMMA BusyPane ==
  ASSUME IInv, NEW f \in Files, NEW b \in BOOLEAN, pane' = [pane EXCEPT ![f].busy = b]
  PROVE  pane' \in [Files -> Pane] /\ \A g \in Files : pane'[g].seen \in 0..Count
<1>1. PICK p : p = [pane[f] EXCEPT !.busy = b]
  OBVIOUS
<1>2. pane' = [pane EXCEPT ![f] = p] /\ p \in Pane /\ p.seen \in 0..Count
  BY <1>1, PaneShapes
<1> QED BY <1>2, PaneChange

(* A file whose base is a version it is a copy of, or none.                *)
LEMMA BaseChange ==
  ASSUME IInv, NEW f \in Files, NEW n \in 0..Count,
         n # 0 => versions[n].content \subseteq content[f],
         base' = [base EXCEPT ![f] = n], UNCHANGED <<server, content>>,
         \A g \in Files : pane'[g].seen \in 0..Count
  PROVE  base' \in [Files -> 0..MaxVersions] /\ BasesHeld'
<1>1. UNCHANGED versions /\ Count' = Count /\ n \in 0..MaxVersions
  BY CountType DEF IInv, server, Count
<1>2. base' \in [Files -> 0..MaxVersions]
  BY <1>1 DEF IInv, TypeOK
<1>3. ASSUME NEW g \in Files
      PROVE  /\ base'[g] \in 0..Count
             /\ base'[g] # 0 => versions[base'[g]].content \subseteq content[g]
  BY DEF IInv, TypeOK, BasesHeld
<1> QED BY <1>1, <1>2, <1>3 DEF BasesHeld

LEMMA NextInv == IInv /\ [Next]_vars => IInv'
<1> SUFFICES ASSUME IInv, [Next]_vars PROVE IInv'
  OBVIOUS
<1>t. TypeOK /\ BasesHeld /\ RunsSound
  BY DEF IInv
<1>c. Count \in Nat /\ 0..Count \subseteq 0..MaxVersions
  BY <1>t, CountType
<1>g. ASSUME UNCHANGED <<server, content>> PROVE Grows /\ Count' = Count
  BY <1>g, Standing
<1>1. ASSUME NEW f \in Files, Edit(f) PROVE IInv'
  <2>1. PICK e \in Edits : content' = [content EXCEPT ![f] = content[f] \cup {e}]
    BY <1>1 DEF Edit
  <2>2. UNCHANGED <<server, stored, pane, run>>
    BY <1>1 DEF Edit
  <2>3. content' \in [Files -> SUBSET Edits] /\ \A g \in Files : content[g] \subseteq content'[g]
    BY <2>1, <1>t DEF TypeOK
  <2>4. Grows /\ Count' = Count
    BY <2>2, <2>3, Standing
  <2>5. TypeOK' /\ BasesHeld' /\ RunsSound'
    BY <2>2, <2>3, <2>4, <1>t, BasesGrow, RunsGrow DEF TypeOK, BasesHeld, server, stored
  <2> QED BY <2>2, <2>5, QuietStep
<1>2. ASSUME NEW f \in Files, Link(f) PROVE IInv'
  <2>1. PICK n : n = Same(content[f], Count)
    OBVIOUS
  <2>2. n \in 0..Count /\ (n # 0 => versions[n].content = content[f])
    BY <2>1, <1>t, <1>c, SameVersion
  <2>3. /\ base' = [base EXCEPT ![f] = n] /\ linked' \subseteq Files /\ Rendered(f)
        /\ UNCHANGED <<server, content, resumable, run>>
    BY <1>2, <2>1, <1>t DEF Link, TypeOK
  <2>4. pane' \in [Files -> Pane] /\ \A g \in Files : pane'[g].seen \in 0..Count
    BY <2>3, RenderedPane
  <2>5. base' \in [Files -> 0..MaxVersions] /\ BasesHeld'
    BY <2>2, <2>3, <2>4, BaseChange
  <2>6. RunsSound'
    BY <2>3, <1>g, <1>t, RunsGrow
  <2>7. TypeOK'
    BY <2>3, <2>4, <2>5, <1>g, <1>t DEF TypeOK, server
  <2> QED BY <2>3, <2>5, <2>6, <2>7, QuietStep
<1>3. ASSUME NEW f \in Files, Start(f) PROVE IInv'
  <2>1. Rendered(f) /\ UNCHANGED <<server, content, stored>>
    BY <1>3 DEF Start
  <2>2. pane' \in [Files -> Pane] /\ \A g \in Files : pane'[g].seen \in 0..Count
    BY <2>1, RenderedPane
  <2>3. run' \in [Runs -> Run] /\ RunsSound'
    <3>1. CASE UNCHANGED run
      BY <2>1, <3>1, <1>g, <1>t, RunsGrow DEF TypeOK
    <3>2. CASE \E r \in Runs : run' = [run EXCEPT ![r] = Continuing(f)]
      <4>1. Continuing(f) \in Run /\ Sound(Continuing(f))
        BY ContinuingSound
      <4>2. PICK x \in Run : x = Continuing(f)
        BY <4>1
      <4>3. Sound(x)'
        BY <2>1, <4>1, <4>2, <1>g, SoundGrows
      <4> QED BY <2>1, <3>2, <4>2, <4>3, <1>g, <1>t, RunChange
    <3> QED BY <1>3, <3>1, <3>2 DEF Start
  <2>4. BasesHeld'
    BY <2>1, <2>2, <1>g, <1>t, BasesGrow DEF stored
  <2>5. TypeOK'
    BY <2>1, <2>2, <2>3, <1>g, <1>t DEF TypeOK, server, stored
  <2> QED BY <2>1, <2>3, <2>4, <2>5, QuietStep
<1>4. ASSUME NEW f \in Files, Close(f) PROVE IInv'
  <2>1. pane' = [pane EXCEPT ![f] = Closed] /\ UNCHANGED <<server, content, stored>>
    BY <1>4 DEF Close
  <2>2. pane' \in [Files -> Pane] /\ \A g \in Files : pane'[g].seen \in 0..Count
    BY <2>1, PaneShapes, PaneChange
  <2>3. ASSUME NEW r \in Runs PROVE \E x \in Run : run'[r] = x /\ Sound(x)
    <3>1. PICK y \in Run : y = run[r] /\ Sound(y)
      BY <1>t DEF TypeOK, RunsSound
    <3>2. CASE y.file # f
      BY <1>4, <3>1, <3>2 DEF Close
    <3>3. CASE y.file = f /\ y.at = "finalizing"
      <4>1. PICK x : x = [y EXCEPT !.at = "orphaned", !.file = None]
        OBVIOUS
      <4>2. /\ x \in Run /\ x.at = "orphaned" /\ x.content = y.content
            /\ x.base = y.base
        BY <4>1 DEF Run
      <4>3. run'[r] = x
        BY <1>4, <3>1, <3>3, <4>1 DEF Close
      <4> QED BY <3>1, <3>3, <4>2, <4>3 DEF Sound
    <3>4. CASE y.file = f /\ y.at # "finalizing"
      <4>1. run'[r] = Idle
        BY <1>4, <3>1, <3>4 DEF Close
      <4> QED BY <4>1, IdleSound
    <3> QED BY <3>2, <3>3, <3>4
  <2>4. ASSUME NEW r \in Runs PROVE \E x \in Run : run'[r] = x /\ Sound(x)'
    BY <2>1, <2>3, <1>g, SoundGrows
  <2>5. run' \in [Runs -> Run] /\ RunsSound'
    <3>1. run' = [r \in Runs |-> run'[r]]
      BY <1>4 DEF Close
    <3>2. RunsSound'
      BY <2>4 DEF RunsSound
    <3> QED BY <2>4, <3>1, <3>2
  <2>6. BasesHeld'
    BY <2>1, <2>2, <1>g, <1>t, BasesGrow DEF stored
  <2>7. TypeOK'
    BY <2>1, <2>2, <2>5, <1>g, <1>t DEF TypeOK, server, stored
  <2> QED BY <2>1, <2>5, <2>6, <2>7, QuietStep
<1>5. ASSUME NEW f \in Files, Unlink(f) PROVE IInv'
  <2>1. /\ linked' \subseteq Files /\ base' = [base EXCEPT ![f] = 0] /\ resumable' = FALSE
        /\ pane' = [pane EXCEPT ![f] = Closed] /\ UNCHANGED <<server, content, run>>
    BY <1>5, <1>t DEF Unlink, TypeOK
  <2>2. pane' \in [Files -> Pane] /\ \A g \in Files : pane'[g].seen \in 0..Count
    BY <2>1, PaneShapes, PaneChange
  <2>3. base' \in [Files -> 0..MaxVersions] /\ BasesHeld'
    <3>1. 0 \in 0..Count
      BY <1>c
    <3> QED BY <2>1, <2>2, <3>1, BaseChange
  <2>4. RunsSound'
    BY <2>1, <1>g, <1>t, RunsGrow
  <2>5. TypeOK'
    BY <2>1, <2>2, <2>3, <1>g, <1>t DEF TypeOK, server
  <2> QED BY <2>1, <2>3, <2>4, <2>5, QuietStep
<1>6. ASSUME NEW f \in Files, NEW g \in Files, NEW n \in 1..Count, OpenCopy(f, g, n)
      PROVE  IInv'
  <2>1. /\ content' = [content EXCEPT ![g] = versions[n].content] /\ content[g] = {}
        /\ linked' \subseteq Files /\ UNCHANGED <<server, base, resumable, pane, run>>
    BY <1>6, <1>t DEF OpenCopy, TypeOK
  <2>2. versions[n].content \subseteq Edits
    BY <1>t, CountType DEF Version
  <2>3. content' \in [Files -> SUBSET Edits] /\ \A h \in Files : content[h] \subseteq content'[h]
    BY <2>1, <2>2, <1>t DEF TypeOK
  <2>4. Grows /\ Count' = Count
    BY <2>1, <2>3, Standing
  <2>5. TypeOK' /\ BasesHeld' /\ RunsSound'
    BY <2>1, <2>3, <2>4, <1>t, BasesGrow, RunsGrow DEF TypeOK, BasesHeld, server
  <2> QED BY <2>1, <2>5, QuietStep
<1>7. ASSUME NEW f \in Files, Repeat(f) PROVE IInv'
  <2>1. PICK n : n = Same(content[f], pane[f].seen)
    OBVIOUS
  <2>2. pane[f].seen \in 0..Count
    BY PaneShapes
  <2>3. n \in 0..Count /\ (n # 0 => versions[n].content = content[f])
    <3>1. n \in 0..pane[f].seen /\ (n # 0 => versions[n].content = content[f])
      BY <2>1, <2>2, <1>t, SameVersion
    <3> QED BY <2>2, <3>1, <1>c
  <2>4. /\ base' = [base EXCEPT ![f] = n]
        /\ UNCHANGED <<server, content, linked, resumable, pane, run>>
    BY <1>7, <2>1 DEF Repeat
  <2>5. base' \in [Files -> 0..MaxVersions] /\ BasesHeld'
    BY <2>3, <2>4, <1>t, BaseChange DEF BasesHeld
  <2>6. RunsSound'
    BY <2>4, <1>g, <1>t, RunsGrow
  <2>7. TypeOK'
    BY <2>4, <2>5, <1>g, <1>t DEF TypeOK, server
  <2> QED BY <2>4, <2>5, <2>6, <2>7, QuietStep
<1>8. ASSUME NEW f \in Files, NEW r \in Runs, BeginSave(f, r) PROVE IInv'
  <2>1. PICK b : b = StoredBase(f)
    OBVIOUS
  <2>2. pane[f].seen \in 0..Count /\ base[f] \in 0..Count
    BY PaneShapes, <1>t DEF BasesHeld
  <2>3. /\ b \in 0..Count /\ b \in 0..pane[f].seen
        /\ b # 0 => versions[b].content \subseteq content[f]
    BY <2>1, <2>2, <1>c, <1>t DEF StoredBase, BasesHeld
  <2>4. PICK x : x = [Idle EXCEPT !.at = "finalizing", !.file = f,
                                  !.content = content[f], !.base = b]
    OBVIOUS
  <2>5. x \in Run /\ x.at = "finalizing" /\ x.file = f /\ x.content = content[f] /\ x.base = b
    <3>1. PICK y \in Run : y = Idle
      BY IdleSound
    <3>2. b \in 0..MaxVersions /\ content[f] \in SUBSET Edits
      BY <2>3, <1>c, <1>t DEF TypeOK
    <3> QED BY <2>4, <3>1, <3>2 DEF Run
  <2>6. \A n \in 1..b : versions[n].content # content[f]
    <3>1. Same(content[f], pane[f].seen) = 0
      BY <1>8 DEF BeginSave
    <3>2. \A n \in 1..pane[f].seen : versions[n].content # content[f]
      BY <2>2, <3>1, <1>t, SameVersion
    <3> QED BY <2>2, <2>3, <3>2, <1>c
  <2>7. Sound(x)
    BY <2>3, <2>5, <2>6 DEF Sound
  <2>8. /\ pane' = [pane EXCEPT ![f].busy = TRUE] /\ run' = [run EXCEPT ![r] = x]
        /\ UNCHANGED <<server, content, stored>>
    BY <1>8, <2>1, <2>4 DEF BeginSave
  <2>9. pane' \in [Files -> Pane] /\ \A g \in Files : pane'[g].seen \in 0..Count
    BY <2>8, BusyPane
  <2>10. run' \in [Runs -> Run] /\ RunsSound'
    <3>1. Sound(x)'
      BY <2>5, <2>7, <2>8, <1>g, SoundGrows
    <3> QED BY <2>5, <2>8, <3>1, <1>g, <1>t, RunChange
  <2>11. BasesHeld'
    BY <2>8, <2>9, <1>g, <1>t, BasesGrow DEF stored
  <2>12. TypeOK'
    BY <2>8, <2>9, <2>10, <1>g, <1>t DEF TypeOK, server, stored
  <2> QED BY <2>8, <2>10, <2>11, <2>12, QuietStep
<1>i. ASSUME NEW r \in Runs, run' = [run EXCEPT ![r] = Idle], Grows
      PROVE  run' \in [Runs -> Run] /\ RunsSound'
  <2>1. PICK x \in Run : x = Idle /\ Sound(x)
    BY IdleSound
  <2>2. Sound(x)'
    BY <2>1, <1>i, SoundGrows
  <2> QED BY <1>i, <2>1, <2>2, <1>t, RunChange
<1>9. ASSUME NEW r \in Runs, SaveFails(r) PROVE IInv'
  <2>1. PICK f \in Files : f = run[r].file
    BY <1>9, <1>t DEF SaveFails, RunsSound, Sound
  <2>2. /\ pane' = [pane EXCEPT ![f].busy = FALSE] /\ run' = [run EXCEPT ![r] = Idle]
        /\ UNCHANGED <<server, content, stored>>
    BY <1>9, <2>1 DEF SaveFails, Unlocked
  <2>3. pane' \in [Files -> Pane] /\ \A g \in Files : pane'[g].seen \in 0..Count
    BY <2>2, BusyPane
  <2>4. run' \in [Runs -> Run] /\ RunsSound'
    BY <2>2, <1>g, <1>i
  <2>5. BasesHeld'
    BY <2>2, <2>3, <1>g, <1>t, BasesGrow DEF stored
  <2>6. TypeOK'
    BY <2>2, <2>3, <2>4, <1>g, <1>t DEF TypeOK, server, stored
  <2> QED BY <2>2, <2>4, <2>5, <2>6, QuietStep
(* A version is stored, and the call ends or goes on.                      *)
<1>s. ASSUME NEW r \in Runs, run[r].at \in {"finalizing", "orphaned"}, Stores(r),
             run' \in [Runs -> Run], RunsSound', pane' \in [Files -> Pane],
             \A g \in Files : pane'[g].seen \in 0..Count
      PROVE  IInv'
  <2>1. /\ versions' \in Seq(Version) /\ Count' = Count + 1 /\ Count' <= MaxVersions
        /\ head' \in 0..Count' /\ Grows
        /\ HeadIsLast' /\ NothingOverwritten' /\ NoDuplicateOnLine'
    BY <1>s, StoresVersion
  <2>2. UNCHANGED <<content, stored>>
    BY <1>s DEF Stores
  <2>3. BasesHeld'
    <3>1. \A g \in Files : pane'[g].seen \in 0..Count'
      BY <2>1, <1>s, <1>c
    <3> QED BY <2>1, <2>2, <3>1, <1>t, BasesGrow DEF stored
  <2>4. TypeOK'
    BY <2>1, <2>2, <1>s, <1>t DEF TypeOK, stored
  <2> QED BY <2>1, <2>3, <2>4, <1>s DEF IInv
<1>10. ASSUME NEW r \in Runs, Finalize(r) PROVE IInv'
  <2>1. /\ run[r].at = "finalizing" /\ Stores(r) /\ pane' = pane
        /\ run' = [run EXCEPT ![r].at = "answered", ![r].version = Count + 1]
    BY <1>10 DEF Finalize
  <2>2. /\ Grows /\ Count' = Count + 1 /\ Count' <= MaxVersions
        /\ versions'[Count + 1].content = run[r].content
    BY <2>1, StoresVersion
  <2>3. PICK y \in Run : y = run[r] /\ Sound(y)
    BY <1>t DEF TypeOK, RunsSound
  <2>4. PICK x : x = [y EXCEPT !.at = "answered", !.version = Count + 1]
    OBVIOUS
  <2>5. /\ x \in Run /\ x.at = "answered" /\ x.version = Count + 1 /\ x.file = y.file
        /\ x.file \in Files /\ run[r].content \subseteq content[x.file]
    <3>1. Count + 1 \in 0..MaxVersions
      BY <2>2, <1>c, <1>t, CountType
    <3>2. x \in Run /\ x.at = "answered" /\ x.version = Count + 1 /\ x.file = y.file
      BY <2>4, <3>1 DEF Run
    <3>3. y.file \in Files /\ y.content \subseteq content[y.file]
      BY <2>1, <2>3 DEF Sound
    <3> QED BY <2>3, <3>2, <3>3
  <2>6. run' = [run EXCEPT ![r] = x]
    BY <2>1, <2>3, <2>4, <1>t DEF TypeOK
  <2>7. Sound(x)'
    <3>1. x.version \in 1..Count'
      BY <2>2, <2>5, <1>c
    <3>2. versions'[x.version].content \subseteq content'[x.file]
      BY <2>2, <2>5 DEF Grows
    <3> QED BY <2>5, <3>1, <3>2 DEF Sound
  <2>8. run' \in [Runs -> Run] /\ RunsSound'
    BY <2>2, <2>5, <2>6, <2>7, <1>t, RunChange
  <2> QED BY <2>1, <2>8, <1>s, <1>t DEF TypeOK, BasesHeld
<1>11. ASSUME NEW r \in Runs, LoseAnswer(r) PROVE IInv'
  <2>1. PICK f \in Files : f = run[r].file
    BY <1>11, <1>t DEF LoseAnswer, RunsSound, Sound
  <2>2. /\ run[r].at = "finalizing" /\ Stores(r) /\ pane' = [pane EXCEPT ![f].busy = FALSE]
        /\ run' = [run EXCEPT ![r] = Idle]
    BY <1>11, <2>1 DEF LoseAnswer, Unlocked
  <2>3. Grows
    BY <2>2, StoresVersion
  <2>4. run' \in [Runs -> Run] /\ RunsSound'
    BY <2>2, <2>3, <1>i
  <2>5. pane' \in [Files -> Pane] /\ \A g \in Files : pane'[g].seen \in 0..Count
    BY <2>2, BusyPane
  <2> QED BY <2>2, <2>4, <2>5, <1>s
<1>12. ASSUME NEW r \in Runs, FinalizeLate(r) PROVE IInv'
  <2>1. /\ run[r].at = "orphaned" /\ pane' = pane /\ run' = [run EXCEPT ![r] = Idle]
        /\ Stores(r) \/ UNCHANGED <<server, content, stored>>
    BY <1>12 DEF FinalizeLate
  <2>2. CASE Stores(r)
    <3>1. run' \in [Runs -> Run] /\ RunsSound'
      BY <2>1, <2>2, <1>i, StoresVersion
    <3> QED BY <2>1, <2>2, <3>1, <1>s, <1>t DEF TypeOK, BasesHeld
  <2>3. CASE UNCHANGED <<server, content, stored>>
    <3>1. run' \in [Runs -> Run] /\ RunsSound'
      BY <2>1, <2>3, <1>g, <1>i
    <3>2. BasesHeld'
      BY <2>1, <2>3, <1>g, <1>t, BasesGrow DEF stored, BasesHeld
    <3>3. TypeOK'
      BY <2>1, <2>3, <3>1, <1>g, <1>t DEF TypeOK, server, stored
    <3> QED BY <2>3, <3>1, <3>2, <3>3, QuietStep
  <2> QED BY <2>1, <2>2, <2>3
<1>k. ASSUME NEW r \in Runs, NEW f \in Files, run' = [run EXCEPT ![r] = Continuing(f)], Grows
      PROVE  run' \in [Runs -> Run] /\ RunsSound'
  <2>1. PICK x \in Run : x = Continuing(f) /\ Sound(x)
    BY ContinuingSound
  <2>2. Sound(x)'
    BY <2>1, <1>k, SoundGrows
  <2> QED BY <1>k, <2>1, <2>2, <1>t, RunChange
<1>13. ASSUME NEW r \in Runs, Keep(r) PROVE IInv'
  <2>1. PICK f \in Files : f = run[r].file
    BY <1>13, <1>t DEF Keep, RunsSound, Sound
  <2>2. PICK n \in 1..Count : n = run[r].version /\ versions[n].content \subseteq content[f]
    BY <1>13, <2>1, <1>t DEF Keep, RunsSound, Sound
  <2>3. /\ resumable' = TRUE /\ run' = [run EXCEPT ![r] = Continuing(f)]
        /\ base' = base \/ base' = [base EXCEPT ![f] = n]
        /\ UNCHANGED <<server, content, linked, pane>>
    BY <1>13, <2>1, <2>2 DEF Keep
  <2>4. run' \in [Runs -> Run] /\ RunsSound'
    BY <2>3, <1>g, <1>k
  <2>5. base' \in [Files -> 0..MaxVersions] /\ BasesHeld'
    <3>1. CASE base' = base
      BY <2>3, <3>1, <1>g, <1>t, BasesGrow DEF BasesHeld, TypeOK
    <3>2. CASE base' = [base EXCEPT ![f] = n]
      <4>1. n \in 0..Count
        BY <1>c
      <4> QED BY <2>2, <2>3, <3>2, <4>1, <1>t, BaseChange DEF BasesHeld
    <3> QED BY <2>3, <3>1, <3>2
  <2>6. TypeOK'
    BY <2>3, <2>4, <2>5, <1>g, <1>t DEF TypeOK, server
  <2> QED BY <2>3, <2>4, <2>5, <2>6, QuietStep
<1>14. ASSUME NEW r \in Runs, Continue(r) PROVE IInv'
  <2>1. PICK f \in Files : f = run[r].file
    BY <1>14, <1>t DEF Continue, RunsSound, Sound
  <2>2. /\ resumable' = TRUE /\ run' = [run EXCEPT ![r] = Idle]
        /\ Rendered(f) \/ UNCHANGED pane
        /\ UNCHANGED <<server, content, linked, base>>
    BY <1>14, <2>1 DEF Continue
  <2>3. run' \in [Runs -> Run] /\ RunsSound'
    BY <2>2, <1>g, <1>i
  <2>4. pane' \in [Files -> Pane] /\ \A g \in Files : pane'[g].seen \in 0..Count
    BY <2>2, <1>t, RenderedPane DEF TypeOK, BasesHeld
  <2>5. BasesHeld'
    BY <2>2, <2>4, <1>g, <1>t, BasesGrow
  <2>6. TypeOK'
    BY <2>2, <2>3, <2>4, <1>g, <1>t DEF TypeOK, server
  <2> QED BY <2>2, <2>3, <2>5, <2>6, QuietStep
<1>15. CASE UNCHANGED vars
  <2>1. UNCHANGED <<server, content, stored, pane, run>>
    BY <1>15 DEF vars, server, stored
  <2>2. RunsSound' /\ BasesHeld'
    BY <2>1, <1>g, <1>t, RunsGrow, BasesGrow DEF stored, BasesHeld
  <2>3. TypeOK'
    BY <2>1, <1>g, <1>t DEF TypeOK, server, stored
  <2> QED BY <2>1, <2>2, <2>3, QuietStep
<1> QED
  BY <1>1, <1>2, <1>3, <1>4, <1>5, <1>6, <1>7, <1>8, <1>9, <1>10, <1>11, <1>12, <1>13,
     <1>14, <1>15 DEF Next

(* The line, the bases of the files and the saves under way agree in every *)
(* state.                                                                  *)
THEOREM Invariance == Spec => []IInv
BY InitInv, NextInv, PTL DEF Spec

(* Versions, files, panes and calls keep their types.                      *)
THEOREM TypeCorrect == Spec => []TypeOK
<1>1. IInv => TypeOK
  BY DEF IInv
<1> QED BY <1>1, Invariance, PTL

(* A version of the main line holds every change of the versions before    *)
(* it, whatever panes and calls are interrupted or repeated.               *)
THEOREM NothingIsOverwritten == Spec => []NothingOverwritten
<1>1. IInv => NothingOverwritten
  BY DEF IInv
<1> QED BY <1>1, Invariance, PTL

(* The same bytes are never on the main line twice.                        *)
THEOREM NothingIsDuplicated == Spec => []NoDuplicateOnLine
<1>1. IInv => NoDuplicateOnLine
  BY DEF IInv
<1> QED BY <1>1, Invariance, PTL

-----------------------------------------------------------------------------
(* A page of the web application (WebCache).  Its inductive invariant.     *)
Effects == [may : BOOLEAN, changes : BOOLEAN, starts : BOOLEAN, ends : BOOLEAN,
            once : BOOLEAN, sets : BOOLEAN, invalidates : BOOLEAN]
CallStates == [at : {"idle", "sent", "answered", "done"}, effect : Effects,
               loaded : BOOLEAN, must : BOOLEAN, seen : Snapshot,
               changed : BOOLEAN]

WebTypes ==
  /\ user \in Users
  /\ \E page \in Pages : query \in page.queries /\ offered \subseteq page.mutations
  /\ served \in Snapshot
  /\ cache \in [has : BOOLEAN, seen : Snapshot, invalid : BOOLEAN]
  /\ fetch \in [at : {"idle", "asked", "answered", "refused"}, seen : Snapshot]
  /\ call \in [Calls -> CallStates]
  /\ owed \in 0..MaxChanges /\ failures \in 0..MaxFailures

(* A call under way is one that the page offers.                           *)
CallsOffered ==
  \A c \in Calls : call[c].at \in {"sent", "answered"} =>
    \E m \in offered : /\ call[c].effect = Effect(m)
                       /\ call[c].must <=> <<m, query>> \notin LeftStale

(* What the page shows, is about to show or owes has happened, and data    *)
(* once there stays.                                                       *)
NothingAhead ==
  /\ owed <= served.n
  /\ \A c \in Calls : call[c].seen.n <= served.n
  /\ \A c \in Calls : call[c].loaded => cache.has

(* Data of a rendition shows that there is one, for good.                  *)
DataHasJob ==
  /\ query.polls # "rendition" => served.job # "absent"
  /\ cache.has => served.job # "absent"
  /\ fetch.at = "answered" => served.job # "absent"
  /\ \A c \in Calls :
       call[c].at = "answered" /\ call[c].effect.sets => served.job # "absent"

(* A call that changed something has an effect on the query that may       *)
(* change it, and created nothing if the page had the data.                *)
ChangedByEffect ==
  \A c \in Calls : call[c].at = "answered" /\ call[c].changed =>
    /\ call[c].effect.changes
    /\ call[c].effect.once => ~call[c].loaded

(* Nothing is owed where no mutation owes anything, and an answer under    *)
(* way shows what is owed.                                                 *)
OwedIsComing ==
  /\ Owing(query, offered) = {} => owed = 0
  /\ fetch.at = "answered" => owed <= fetch.seen.n

WebInv ==
  /\ WebTypes /\ CallsOffered /\ NothingAhead /\ DataHasJob /\ ChangedByEffect
  /\ OwedIsComing /\ OwnChangesShown

-----------------------------------------------------------------------------
(* The types of an open page.                                              *)

LEMMA SnapshotsExist == Before \in Snapshot
BY BoundsAssumption DEF Before, Snapshot

LEMMA JobsTyped ==
  ASSUME NEW q
  PROVE  /\ JobStates(q) \subseteq {"none", "absent", "ended"} \cup Unfinished
         /\ q.polls # "rendition" => "absent" \notin JobStates(q)
BY DEF JobStates, Unfinished

LEMMA EffectTyped ==
  ASSUME NEW m
  PROVE  Effect(m) \in Effects
BY DEF Effect, Effects, Changes, Creates, SetsData, Invalidates

LEMMA NoCallTyped == NoCall \in CallStates
BY SnapshotsExist, EffectTyped DEF NoCall, CallStates

LEMMA HoldingTyped ==
  ASSUME NEW seen \in Snapshot
  PROVE  Holding(seen) \in [has : BOOLEAN, seen : Snapshot, invalid : BOOLEAN]
BY DEF Holding

LEMMA FetchTyped ==
  /\ NoFetch \in [at : {"idle", "asked", "answered", "refused"}, seen : Snapshot]
  /\ Asked \in [at : {"idle", "asked", "answered", "refused"}, seen : Snapshot]
BY SnapshotsExist DEF NoFetch, Asked

(* The server after a call: as it was, or one change later.                *)
LEMMA AfterTyped ==
  ASSUME NEW e \in Effects, served \in Snapshot,
         NEW after \in After(e), after.n <= MaxChanges
  PROVE  /\ after \in Snapshot
         /\ served.n <= after.n
         /\ served.job # "absent" => after.job # "absent"
         /\ after # served => e.changes /\ (e.once => served.job = "absent")
         /\ e.changes /\ e.once => after.job # "absent"
<1>1. served.n \in 0..MaxChanges
      /\ served.job \in {"none", "absent", "ended"} \cup Unfinished
  BY DEF Snapshot
<1>2. CASE ~e.changes \/ (e.once /\ served.job # "absent")
  <2>1. after = served
    BY <1>2 DEF After
  <2> QED
    BY <1>1, <1>2, <2>1 DEF Effects
<1>3. CASE e.changes /\ (e.once => served.job = "absent")
  <2> DEFINE jobs == CASE e.once -> {"running", "ended"}
                       [] e.starts /\ ~e.once -> {"running"}
                       [] e.ends -> {"running", "ended"}
                       [] OTHER -> {served.job}
  <2>1. PICK j \in jobs : after = [n |-> served.n + 1, job |-> j]
    BY <1>3 DEF After
  <2>2. after.n = served.n + 1 /\ after.job = j
    BY <2>1
  <2>3. j \in {"running", "ended", served.job}
    BY DEF Effects
  <2>4. e.once => j \in {"running", "ended"}
    BY DEF Effects
  <2>5. after \in Snapshot
    <3>1. served.n + 1 \in 0..MaxChanges
      BY <1>1, <2>2, BoundsAssumption
    <3>2. j \in {"none", "absent", "ended"} \cup Unfinished
      BY <1>1, <2>3 DEF Unfinished
    <3> QED
      BY <2>1, <3>1, <3>2 DEF Snapshot
  <2> HIDE DEF jobs
  <2> QED
    BY <1>1, <1>3, <2>2, <2>3, <2>4, <2>5, BoundsAssumption DEF Effects
<1> QED
  BY <1>2, <1>3 DEF Effects

(* A call, changed in some of its parts.                                   *)
LEMMA CallUpdate ==
  ASSUME NEW c \in Calls, call \in [Calls -> CallStates], NEW x \in CallStates,
         call' = [call EXCEPT ![c] = x]
  PROVE  /\ call' \in [Calls -> CallStates]
         /\ call'[c] = x
         /\ \A d \in Calls \ {c} : call'[d] = call[d]
OBVIOUS

LEMMA SubmitCall ==
  ASSUME WebTypes, NEW c \in Calls, Submit(c)
  PROVE  \E m \in offered :
           /\ call' \in [Calls -> CallStates]
           /\ call'[c].at = "sent" /\ call'[c].effect = Effect(m)
           /\ call'[c].loaded <=> cache.has
           /\ call'[c].must <=> <<m, query>> \notin LeftStale
           /\ call'[c].seen = call[c].seen
           /\ \A d \in Calls \ {c} : call'[d] = call[d]
<1>1. PICK m \in offered :
        call' = [call EXCEPT ![c] =
                  [@ EXCEPT !.at = "sent", !.effect = Effect(m),
                            !.loaded = cache.has,
                            !.must = <<m, query>> \notin LeftStale]]
  BY DEF Submit
<1> DEFINE x == [call[c] EXCEPT !.at = "sent", !.effect = Effect(m),
                                !.loaded = cache.has,
                                !.must = <<m, query>> \notin LeftStale]
<1>2. call[c] \in CallStates /\ Effect(m) \in Effects /\ cache.has \in BOOLEAN
  BY EffectTyped DEF WebTypes
<1>3. x \in CallStates
  BY <1>2 DEF CallStates
<1>4. /\ x.at = "sent" /\ x.effect = Effect(m) /\ x.loaded = cache.has
      /\ x.must <=> <<m, query>> \notin LeftStale
      /\ x.seen = call[c].seen
  BY <1>2 DEF CallStates
<1>5. call' = [call EXCEPT ![c] = x]
  BY <1>1
<1> HIDE DEF x
<1>6. /\ call' \in [Calls -> CallStates] /\ call'[c] = x
      /\ \A d \in Calls \ {c} : call'[d] = call[d]
  BY <1>3, <1>5, CallUpdate DEF WebTypes
<1> QED
  BY <1>4, <1>6

LEMMA PerformCall ==
  ASSUME WebTypes, NEW c \in Calls, Perform(c)
  PROVE  /\ call[c].at = "sent"
         /\ served' \in After(call[c].effect) /\ served'.n <= MaxChanges
         /\ call' \in [Calls -> CallStates]
         /\ call'[c].at = "answered" /\ call'[c].effect = call[c].effect
         /\ call'[c].loaded = call[c].loaded /\ call'[c].must = call[c].must
         /\ call'[c].seen = served'
         /\ call'[c].changed <=> served' # served
         /\ \A d \in Calls \ {c} : call'[d] = call[d]
         /\ UNCHANGED <<opened, cache, fetch, owed, failures>>
<1> DEFINE e == call[c].effect
<1>1. PICK after \in After(e) :
        /\ after.n <= MaxChanges
        /\ served' = after
        /\ call' = [call EXCEPT ![c] =
                     [@ EXCEPT !.at = "answered", !.seen = after,
                               !.changed = after # served]]
  BY DEF Perform
<1>2. call[c].at = "sent" /\ UNCHANGED <<opened, cache, fetch, owed, failures>>
  BY DEF Perform
<1>3. call[c] \in CallStates /\ e \in Effects /\ served \in Snapshot
  BY DEF WebTypes, CallStates
<1>4. after \in Snapshot
  BY <1>1, <1>3, AfterTyped
<1> DEFINE x == [call[c] EXCEPT !.at = "answered", !.seen = after,
                                !.changed = after # served]
<1>5. x \in CallStates
  BY <1>3, <1>4 DEF CallStates
<1>6. /\ x.at = "answered" /\ x.effect = e /\ x.loaded = call[c].loaded
      /\ x.must = call[c].must /\ x.seen = after
      /\ x.changed <=> after # served
  BY <1>3 DEF CallStates
<1>7. call' = [call EXCEPT ![c] = x]
  BY <1>1
<1> HIDE DEF x
<1>8. /\ call' \in [Calls -> CallStates] /\ call'[c] = x
      /\ \A d \in Calls \ {c} : call'[d] = call[d]
  BY <1>5, <1>7, CallUpdate DEF WebTypes
<1> QED
  BY <1>1, <1>2, <1>6, <1>8

LEMMA DoneCall ==
  ASSUME WebTypes, NEW c \in Calls,
         call' = [call EXCEPT ![c] = [NoCall EXCEPT !.at = "done"]]
  PROVE  /\ call' \in [Calls -> CallStates]
         /\ call'[c].at = "done" /\ ~call'[c].loaded /\ call'[c].seen = Before
         /\ \A d \in Calls \ {c} : call'[d] = call[d]
<1> DEFINE x == [NoCall EXCEPT !.at = "done"]
<1>1. x \in CallStates
  BY NoCallTyped DEF CallStates
<1>2. x.at = "done" /\ ~x.loaded /\ x.seen = Before
  BY DEF NoCall
<1>3. call' = [call EXCEPT ![c] = x]
  OBVIOUS
<1> HIDE DEF x
<1>4. /\ call' \in [Calls -> CallStates] /\ call'[c] = x
      /\ \A d \in Calls \ {c} : call'[d] = call[d]
  BY <1>1, <1>3, CallUpdate DEF WebTypes
<1> QED
  BY <1>2, <1>4

(* What is kept when an answer of a mutation arrives.                      *)
LEMMA SettleKeeps ==
  ASSUME WebTypes, NEW c \in Calls, Settle(c)
  PROVE  LET e == call[c].effect
             raised == /\ call[c].changed /\ call[c].loaded /\ call[c].must
                       /\ owed < call[c].seen.n
         IN  /\ call[c].at = "answered"
             /\ cache' \in [has : BOOLEAN, seen : Snapshot, invalid : BOOLEAN]
             /\ cache'.has <=> e.sets \/ cache.has
             /\ cache'.seen = IF e.sets THEN call[c].seen ELSE cache.seen
             /\ cache'.invalid <=> e.invalidates \/ (~e.sets /\ cache.invalid)
             /\ fetch' \in {fetch, Asked}
             /\ e.invalidates /\ cache.has => fetch' = Asked
             /\ owed' = IF raised THEN call[c].seen.n ELSE owed
             /\ call' = [call EXCEPT ![c] = [NoCall EXCEPT !.at = "done"]]
             /\ UNCHANGED <<opened, served, failures>>
<1> DEFINE e == call[c].effect
           kept == IF e.sets THEN Holding(call[c].seen) ELSE cache
<1>1. /\ call[c].at = "answered"
      /\ cache' = [kept EXCEPT !.invalid = @ \/ e.invalidates]
      /\ fetch' = IF e.invalidates /\ (kept.has \/ fetch = NoFetch)
                  THEN Asked ELSE fetch
      /\ call' = [call EXCEPT ![c] = [NoCall EXCEPT !.at = "done"]]
      /\ UNCHANGED <<opened, served, failures>>
  BY DEF Settle
<1>2. owed' = IF call[c].changed /\ call[c].loaded /\ call[c].must
                   /\ owed < call[c].seen.n
                THEN call[c].seen.n ELSE owed
  BY DEF Settle
<1>3. e \in Effects /\ call[c].seen \in Snapshot
  BY DEF WebTypes, CallStates
<1>4. kept \in [has : BOOLEAN, seen : Snapshot, invalid : BOOLEAN]
  BY <1>3, HoldingTyped DEF WebTypes
<1>5. /\ kept.has <=> e.sets \/ cache.has
      /\ kept.seen = IF e.sets THEN call[c].seen ELSE cache.seen
      /\ kept.invalid <=> ~e.sets /\ cache.invalid
  BY <1>3 DEF Holding, Effects, WebTypes
<1> HIDE DEF kept
<1>6. /\ cache' \in [has : BOOLEAN, seen : Snapshot, invalid : BOOLEAN]
      /\ cache'.has = kept.has /\ cache'.seen = kept.seen
      /\ cache'.invalid <=> kept.invalid \/ e.invalidates
  BY <1>1, <1>3, <1>4 DEF Effects
<1> QED
  BY <1>1, <1>2, <1>3, <1>5, <1>6

-----------------------------------------------------------------------------
(* The steps of a page.  The page, its query and its mutations stay.       *)

LEMMA PageStays ==
  ASSUME UNCHANGED opened
  PROVE  /\ query' = query /\ offered' = offered /\ user' = user
         /\ \A m : Effect(m)' = Effect(m)
BY DEF opened, Effect

(* What the tables say of a page holds of the mutations that mean          *)
(* something for the query.                                                *)
LEMMA PageFollows ==
  ASSUME WebTypes
  PROVE  Followed(query, offered)
<1>1. PICK page \in Pages : query \in page.queries /\ offered \subseteq page.mutations
  BY DEF WebTypes
<1>2. Followed(query, page.mutations)
  BY <1>1, TablesAssumption
<1>3. Owing(query, offered) \subseteq Owing(query, page.mutations)
  BY <1>1 DEF Owing
<1> QED
  BY <1>1, <1>2, <1>3 DEF Followed

LEMMA WebInitTyped == WebInit => WebTypes
<1> SUFFICES ASSUME WebInit PROVE WebTypes
  OBVIOUS
<1>1. served \in Snapshot
  BY DEF WebInit
<1>2. call = [c \in Calls |-> NoCall] /\ owed = 0 /\ failures = 0
  BY DEF WebInit
<1>3. user \in Users
      /\ \E page \in Pages : query \in page.queries /\ offered \subseteq page.mutations
  BY DEF WebInit
<1>4. Empty \in [has : BOOLEAN, seen : Snapshot, invalid : BOOLEAN]
  BY SnapshotsExist DEF Empty
<1>5. cache \in [has : BOOLEAN, seen : Snapshot, invalid : BOOLEAN]
  BY <1>1, <1>4, HoldingTyped DEF WebInit
<1>6. fetch \in [at : {"idle", "asked", "answered", "refused"}, seen : Snapshot]
  BY FetchTyped DEF WebInit
<1>7. call \in [Calls -> CallStates]
  BY <1>2, NoCallTyped
<1> QED
  BY <1>1, <1>2, <1>3, <1>5, <1>6, <1>7, BoundsAssumption DEF WebTypes

LEMMA WebInitInv == WebInit => WebInv
<1> SUFFICES ASSUME WebInit PROVE WebInv
  OBVIOUS
<1>1. served \in Snapshot /\ served.n = 0 /\ served.job \in JobStates(query)
  BY DEF WebInit
<1>2. \/ cache = Empty /\ fetch = Asked
      \/ Answers /\ cache = Holding(served) /\ fetch = NoFetch
  BY DEF WebInit
<1>3. call = [c \in Calls |-> NoCall] /\ owed = 0 /\ failures = 0
  BY DEF WebInit
<1>4. WebTypes
  BY WebInitTyped
<1>5. \A c \in Calls : /\ call[c].at = "idle" /\ ~call[c].loaded
                       /\ call[c].seen.n = 0
  BY <1>3 DEF NoCall, Before
<1>6. fetch.at # "answered"
  BY <1>2 DEF Asked, NoFetch
<1>7. cache.has => served.job # "absent" /\ cache.seen.n = 0
  BY <1>1, <1>2 DEF Empty, Holding, Answers
<1>8. query.polls # "rendition" => served.job # "absent"
  BY <1>1, JobsTyped
<1> QED
  BY <1>1, <1>3, <1>4, <1>5, <1>6, <1>7, <1>8
     DEF WebInv, CallsOffered, NothingAhead, DataHasJob, ChangedByEffect,
         OwedIsComing, OwnChangesShown

(* A fetch is started: nothing is under way that could arrive.             *)
LEMMA AskInv ==
  ASSUME WebInv, fetch' = Asked \/ fetch' = NoFetch,
         UNCHANGED <<opened, served, cache, call, owed>>,
         failures' \in 0..MaxFailures
  PROVE  WebInv'
<1>1. UNCHANGED opened /\ served' = served /\ cache' = cache /\ call' = call
      /\ owed' = owed
  OBVIOUS
<1>2. /\ query' = query /\ offered' = offered /\ user' = user
      /\ \A m : Effect(m)' = Effect(m)
  BY <1>1, PageStays
<1>3. fetch'.at # "answered"
      /\ fetch' \in [at : {"idle", "asked", "answered", "refused"}, seen : Snapshot]
  BY FetchTyped DEF Asked, NoFetch
<1>4. WebTypes'
  BY <1>1, <1>2, <1>3 DEF WebInv, WebTypes
<1>5. CallsOffered'
  BY <1>1, <1>2 DEF WebInv, CallsOffered
<1>6. NothingAhead' /\ DataHasJob' /\ ChangedByEffect' /\ OwnChangesShown'
  BY <1>1, <1>2, <1>3 DEF WebInv, NothingAhead, DataHasJob, ChangedByEffect,
                          OwnChangesShown
<1>7. OwedIsComing'
  BY <1>1, <1>2, <1>3 DEF WebInv, OwedIsComing
<1> QED
  BY <1>2, <1>4, <1>5, <1>6, <1>7 DEF WebInv

LEMMA ServeInv ==
  ASSUME WebInv, Serve
  PROVE  WebInv'
<1>1. UNCHANGED opened /\ served' = served /\ cache' = cache /\ call' = call
      /\ owed' = owed /\ failures' = failures
  BY DEF Serve
<1>2. /\ query' = query /\ offered' = offered /\ user' = user
      /\ \A m : Effect(m)' = Effect(m)
  BY <1>1, PageStays
<1>3. \/ fetch' = [at |-> "answered", seen |-> served] /\ served.job # "absent"
      \/ fetch' = [Asked EXCEPT !.at = "refused"]
  BY DEF Serve, Answers
<1>4. /\ fetch' \in [at : {"idle", "asked", "answered", "refused"}, seen : Snapshot]
      /\ fetch'.at = "answered" =>
           fetch'.seen = served /\ served.job # "absent"
  BY <1>3, SnapshotsExist DEF Asked, WebInv, WebTypes
<1>5. WebTypes'
  BY <1>1, <1>2, <1>4 DEF WebInv, WebTypes
<1>6. CallsOffered'
  BY <1>1, <1>2 DEF WebInv, CallsOffered
<1>7. NothingAhead' /\ DataHasJob' /\ ChangedByEffect' /\ OwnChangesShown'
  BY <1>1, <1>2, <1>4 DEF WebInv, NothingAhead, DataHasJob, ChangedByEffect,
                          OwnChangesShown
<1>8. OwedIsComing'
  BY <1>1, <1>2, <1>4 DEF WebInv, OwedIsComing, NothingAhead
<1> QED
  BY <1>2, <1>5, <1>6, <1>7, <1>8 DEF WebInv

LEMMA ArriveInv ==
  ASSUME WebInv, Arrive
  PROVE  WebInv'
<1>1. UNCHANGED opened /\ served' = served /\ fetch' = NoFetch /\ call' = call
      /\ owed' = owed /\ failures' = failures
  BY DEF Arrive
<1>2. /\ query' = query /\ offered' = offered /\ user' = user
      /\ \A m : Effect(m)' = Effect(m)
  BY <1>1, PageStays
<1>3. \/ cache' = cache
      \/ fetch.at = "answered" /\ cache' = Holding(fetch.seen)
  BY DEF Arrive
<1>4. /\ cache' \in [has : BOOLEAN, seen : Snapshot, invalid : BOOLEAN]
      /\ cache.has => cache'.has
      /\ \/ cache' = cache
         \/ fetch.at = "answered" /\ cache'.has /\ cache'.seen = fetch.seen
  <2>1. fetch.seen \in Snapshot
        /\ cache \in [has : BOOLEAN, seen : Snapshot, invalid : BOOLEAN]
    BY DEF WebInv, WebTypes
  <2>2. CASE cache' = cache
    BY <2>1, <2>2
  <2>3. CASE fetch.at = "answered" /\ cache' = Holding(fetch.seen)
    <3>1. cache'.has /\ cache'.seen = fetch.seen
      BY <2>3 DEF Holding
    <3> QED
      BY <2>1, <2>3, <3>1, HoldingTyped
  <2> QED
    BY <1>3, <2>2, <2>3
<1>5. fetch'.at # "answered"
      /\ fetch' \in [at : {"idle", "asked", "answered", "refused"}, seen : Snapshot]
  BY <1>1, FetchTyped DEF NoFetch
<1>6. WebTypes'
  BY <1>1, <1>2, <1>4, <1>5 DEF WebInv, WebTypes
<1>7. CallsOffered'
  BY <1>1, <1>2 DEF WebInv, CallsOffered
<1>8. NothingAhead' /\ ChangedByEffect' /\ OwedIsComing'
  BY <1>1, <1>2, <1>4, <1>5 DEF WebInv, NothingAhead, ChangedByEffect, OwedIsComing
<1>9. DataHasJob'
  BY <1>1, <1>2, <1>4, <1>5 DEF WebInv, DataHasJob
<1>10. OwnChangesShown'
  BY <1>1, <1>4 DEF WebInv, OwnChangesShown, OwedIsComing
<1> QED
  BY <1>2, <1>6, <1>7, <1>8, <1>9, <1>10 DEF WebInv

LEMMA SubmitInv ==
  ASSUME WebInv, NEW c \in Calls, Submit(c)
  PROVE  WebInv'
<1>1. UNCHANGED opened /\ served' = served /\ cache' = cache /\ fetch' = fetch
      /\ owed' = owed /\ failures' = failures
  BY DEF Submit
<1>2. /\ query' = query /\ offered' = offered /\ user' = user
      /\ \A m : Effect(m)' = Effect(m)
  BY <1>1, PageStays
<1>3. PICK m \in offered :
        /\ call' \in [Calls -> CallStates]
        /\ call'[c].at = "sent" /\ call'[c].effect = Effect(m)
        /\ call'[c].loaded <=> cache.has
        /\ call'[c].must <=> <<m, query>> \notin LeftStale
        /\ call'[c].seen = call[c].seen
        /\ \A d \in Calls \ {c} : call'[d] = call[d]
  BY SubmitCall DEF WebInv
<1>4. WebTypes'
  BY <1>1, <1>2, <1>3 DEF WebInv, WebTypes
<1>5. CallsOffered'
  <2> SUFFICES ASSUME NEW d \in Calls, call'[d].at \in {"sent", "answered"}
               PROVE  \E n \in offered :
                        /\ call'[d].effect = Effect(n)
                        /\ call'[d].must <=> <<n, query>> \notin LeftStale
    BY <1>2 DEF CallsOffered
  <2>1. CASE d = c
    BY <1>3, <2>1
  <2>2. CASE d # c
    BY <1>3, <2>2 DEF WebInv, CallsOffered
  <2> QED
    BY <2>1, <2>2
<1>6. NothingAhead'
  BY <1>1, <1>3 DEF WebInv, NothingAhead
<1>7. DataHasJob'
  BY <1>1, <1>2, <1>3 DEF WebInv, DataHasJob
<1>8. ChangedByEffect'
  BY <1>3 DEF WebInv, ChangedByEffect
<1>9. OwedIsComing' /\ OwnChangesShown'
  BY <1>1, <1>2 DEF WebInv, OwedIsComing, OwnChangesShown
<1> QED
  BY <1>2, <1>4, <1>5, <1>6, <1>7, <1>8, <1>9 DEF WebInv

LEMMA PerformInv ==
  ASSUME WebInv, NEW c \in Calls, Perform(c)
  PROVE  WebInv'
<1> DEFINE e == call[c].effect
<1>1. /\ call[c].at = "sent"
      /\ served' \in After(e) /\ served'.n <= MaxChanges
      /\ call' \in [Calls -> CallStates]
      /\ call'[c].at = "answered" /\ call'[c].effect = e
      /\ call'[c].loaded = call[c].loaded /\ call'[c].must = call[c].must
      /\ call'[c].seen = served'
      /\ call'[c].changed <=> served' # served
      /\ \A d \in Calls \ {c} : call'[d] = call[d]
      /\ UNCHANGED <<opened, cache, fetch, owed, failures>>
  BY PerformCall DEF WebInv
<1>2. UNCHANGED opened /\ cache' = cache /\ fetch' = fetch /\ owed' = owed
      /\ failures' = failures
  BY <1>1
<1>3. /\ query' = query /\ offered' = offered /\ user' = user
      /\ \A m : Effect(m)' = Effect(m)
  BY <1>2, PageStays
<1>4. e \in Effects /\ served \in Snapshot
  BY DEF WebInv, WebTypes, CallStates
<1>5. /\ served' \in Snapshot
      /\ served.n <= served'.n
      /\ served.job # "absent" => served'.job # "absent"
      /\ served' # served => e.changes /\ (e.once => served.job = "absent")
      /\ e.changes /\ e.once => served'.job # "absent"
  BY <1>1, <1>4, AfterTyped
<1>6. PICK m \in offered : /\ e = Effect(m)
                           /\ call[c].must <=> <<m, query>> \notin LeftStale
  BY <1>1 DEF WebInv, CallsOffered
<1>7. served.n \in Nat /\ served'.n \in Nat /\ owed \in Nat
      /\ \A d \in Calls : call[d].seen.n \in Nat
  BY <1>4, <1>5, BoundsAssumption DEF WebInv, WebTypes, CallStates, Snapshot
<1>8. WebTypes'
  BY <1>1, <1>2, <1>3, <1>5 DEF WebInv, WebTypes
<1>9. CallsOffered'
  <2> SUFFICES ASSUME NEW d \in Calls, call'[d].at \in {"sent", "answered"}
               PROVE  \E n \in offered :
                        /\ call'[d].effect = Effect(n)
                        /\ call'[d].must <=> <<n, query>> \notin LeftStale
    BY <1>3 DEF CallsOffered
  <2>1. CASE d = c
    BY <1>1, <1>6, <2>1
  <2>2. CASE d # c
    BY <1>1, <2>2 DEF WebInv, CallsOffered
  <2> QED
    BY <2>1, <2>2
<1>10. NothingAhead'
  <2>1. owed' <= served'.n
    BY <1>2, <1>5, <1>7 DEF WebInv, NothingAhead
  <2>2. ASSUME NEW d \in Calls PROVE call'[d].seen.n <= served'.n
    BY <1>1, <1>5, <1>7 DEF WebInv, NothingAhead
  <2>3. ASSUME NEW d \in Calls, call'[d].loaded PROVE cache'.has
    BY <1>1, <1>2, <2>3 DEF WebInv, NothingAhead
  <2> QED
    BY <2>1, <2>2, <2>3 DEF NothingAhead
<1>11. DataHasJob'
  <2>1. e.sets /\ query.polls = "rendition" => e.changes /\ e.once
    BY <1>6, PageFollows DEF WebInv, Followed, Effect
  <2>2. e.sets => served'.job # "absent"
    BY <1>5, <2>1 DEF WebInv, DataHasJob
  <2> QED
    BY <1>1, <1>2, <1>3, <1>5, <2>2 DEF WebInv, DataHasJob
<1>12. ChangedByEffect'
  <2>1. call[c].loaded => served.job # "absent"
    BY DEF WebInv, NothingAhead, DataHasJob
  <2> QED
    BY <1>1, <1>5, <2>1 DEF WebInv, ChangedByEffect
<1>13. OwedIsComing' /\ OwnChangesShown'
  BY <1>2, <1>3 DEF WebInv, OwedIsComing, OwnChangesShown
<1> QED
  BY <1>3, <1>8, <1>9, <1>10, <1>11, <1>12, <1>13 DEF WebInv

LEMMA CallFailsInv ==
  ASSUME WebInv, NEW c \in Calls, CallFails(c)
  PROVE  WebInv'
<1>1. UNCHANGED opened /\ served' = served /\ cache' = cache /\ fetch' = fetch
      /\ owed' = owed /\ failures' = failures
  BY DEF CallFails
<1>2. /\ query' = query /\ offered' = offered /\ user' = user
      /\ \A m : Effect(m)' = Effect(m)
  BY <1>1, PageStays
<1>3. /\ call' \in [Calls -> CallStates]
      /\ call'[c].at = "done" /\ ~call'[c].loaded /\ call'[c].seen = Before
      /\ \A d \in Calls \ {c} : call'[d] = call[d]
  BY DoneCall DEF CallFails, WebInv
<1>4. served.n \in Nat /\ 0 <= served.n
  BY BoundsAssumption DEF WebInv, WebTypes, Snapshot
<1>5. WebTypes'
  BY <1>1, <1>2, <1>3 DEF WebInv, WebTypes
<1>6. CallsOffered'
  BY <1>2, <1>3 DEF WebInv, CallsOffered
<1>7. NothingAhead'
  BY <1>1, <1>3, <1>4 DEF WebInv, NothingAhead, Before
<1>8. DataHasJob' /\ ChangedByEffect'
  BY <1>1, <1>2, <1>3 DEF WebInv, DataHasJob, ChangedByEffect
<1>9. OwedIsComing' /\ OwnChangesShown'
  BY <1>1, <1>2 DEF WebInv, OwedIsComing, OwnChangesShown
<1> QED
  BY <1>2, <1>5, <1>6, <1>7, <1>8, <1>9 DEF WebInv

(* A change that comes to be owed is one whose mutation invalidates the    *)
(* query, and the page has data to mark: the fetch under way is abandoned. *)
LEMMA SettleInv ==
  ASSUME WebInv, NEW c \in Calls, Settle(c)
  PROVE  WebInv'
<1> DEFINE e == call[c].effect
           raised == /\ call[c].changed /\ call[c].loaded /\ call[c].must
                     /\ owed < call[c].seen.n
<1>1. /\ call[c].at = "answered"
      /\ cache' \in [has : BOOLEAN, seen : Snapshot, invalid : BOOLEAN]
      /\ cache'.has <=> e.sets \/ cache.has
      /\ cache'.seen = IF e.sets THEN call[c].seen ELSE cache.seen
      /\ cache'.invalid <=> e.invalidates \/ (~e.sets /\ cache.invalid)
      /\ fetch' \in {fetch, Asked}
      /\ e.invalidates /\ cache.has => fetch' = Asked
      /\ owed' = IF raised THEN call[c].seen.n ELSE owed
      /\ call' = [call EXCEPT ![c] = [NoCall EXCEPT !.at = "done"]]
      /\ UNCHANGED <<opened, served, failures>>
  BY SettleKeeps DEF WebInv
<1>2. /\ call' \in [Calls -> CallStates]
      /\ call'[c].at = "done" /\ ~call'[c].loaded /\ call'[c].seen = Before
      /\ \A d \in Calls \ {c} : call'[d] = call[d]
  BY <1>1, DoneCall DEF WebInv
<1>3. UNCHANGED opened /\ served' = served /\ failures' = failures
  BY <1>1
<1>4. /\ query' = query /\ offered' = offered /\ user' = user
      /\ \A m : Effect(m)' = Effect(m)
  BY <1>3, PageStays
<1>5. PICK m \in offered : /\ e = Effect(m)
                           /\ call[c].must <=> <<m, query>> \notin LeftStale
  BY <1>1 DEF WebInv, CallsOffered
<1>6. /\ served.n \in Nat /\ owed \in 0..MaxChanges
      /\ call[c].seen.n \in 0..MaxChanges
      /\ call[c].seen.n <= served.n /\ owed <= served.n
  BY BoundsAssumption DEF WebInv, WebTypes, CallStates, Snapshot, NothingAhead
<1>7. raised => m \in Owing(query, offered) /\ e.invalidates /\ cache.has
  <2>1. raised => e.changes /\ ~e.once
    BY <1>1 DEF WebInv, ChangedByEffect
  <2>2. raised => m \in Owing(query, offered)
    BY <1>5, <2>1 DEF Effect, Owing
  <2>3. raised => e.invalidates
    BY <1>5, <2>2, PageFollows DEF WebInv, Followed, Effect
  <2>4. raised => cache.has
    BY DEF WebInv, NothingAhead
  <2> QED
    BY <2>2, <2>3, <2>4
<1>8. e.sets => e.invalidates \/ Owing(query, offered) = {}
  BY <1>5, PageFollows DEF WebInv, Followed, Effect
<1>9. fetch'.at = "answered" => fetch' = fetch /\ ~raised
  BY <1>1, <1>7 DEF Asked
<1>10. fetch' \in [at : {"idle", "asked", "answered", "refused"}, seen : Snapshot]
  BY <1>1, FetchTyped DEF WebInv, WebTypes
<1>11. owed' \in 0..MaxChanges /\ owed' <= served'.n
  BY <1>1, <1>3, <1>6
<1>12. WebTypes'
  BY <1>1, <1>2, <1>3, <1>4, <1>10, <1>11 DEF WebInv, WebTypes
<1>13. CallsOffered'
  BY <1>2, <1>4 DEF WebInv, CallsOffered
<1>14. NothingAhead'
  <2>1. ASSUME NEW d \in Calls PROVE call'[d].seen.n <= served'.n
    BY <1>2, <1>3, <1>6 DEF WebInv, NothingAhead, Before
  <2>2. ASSUME NEW d \in Calls, call'[d].loaded PROVE cache'.has
    BY <1>1, <1>2, <2>2 DEF WebInv, NothingAhead
  <2> QED
    BY <1>11, <2>1, <2>2 DEF NothingAhead
<1>15. DataHasJob'
  <2>1. e.sets => served.job # "absent"
    BY <1>1 DEF WebInv, DataHasJob
  <2> QED
    BY <1>1, <1>2, <1>3, <1>4, <1>9, <2>1 DEF WebInv, DataHasJob
<1>16. ChangedByEffect'
  BY <1>2 DEF WebInv, ChangedByEffect
<1>17. OwedIsComing'
  <2>1. Owing(query, offered) = {} => owed' = 0
    BY <1>1, <1>7 DEF WebInv, OwedIsComing
  <2>2. fetch'.at = "answered" => owed' <= fetch'.seen.n
    BY <1>1, <1>9 DEF WebInv, OwedIsComing
  <2> QED
    BY <1>4, <2>1, <2>2 DEF OwedIsComing
<1>18. OwnChangesShown'
  <2>1. CASE e.invalidates
    BY <1>1, <2>1 DEF OwnChangesShown
  <2>2. CASE ~e.invalidates /\ e.sets
    <3>1. Owing(query, offered) = {} /\ ~raised
      BY <1>7, <1>8, <2>2
    <3>2. owed' = 0
      BY <1>1, <3>1 DEF WebInv, OwedIsComing
    <3>3. cache'.seen.n \in Nat /\ 0 <= cache'.seen.n
      BY <1>1, BoundsAssumption DEF Snapshot
    <3> QED
      BY <3>2, <3>3 DEF OwnChangesShown
  <2>3. CASE ~e.invalidates /\ ~e.sets
    BY <1>1, <1>7, <2>3 DEF WebInv, OwnChangesShown
  <2> QED
    BY <2>1, <2>2, <2>3
<1> QED
  BY <1>4, <1>12, <1>13, <1>14, <1>15, <1>16, <1>17, <1>18 DEF WebInv

LEMMA OthersChangeInv ==
  ASSUME WebInv, OthersChange
  PROVE  WebInv'
<1>1. UNCHANGED opened /\ cache' = cache /\ fetch' = fetch /\ call' = call
      /\ owed' = owed /\ failures' = failures
  BY DEF OthersChange
<1>2. /\ query' = query /\ offered' = offered /\ user' = user
      /\ \A m : Effect(m)' = Effect(m)
  BY <1>1, PageStays
<1>3. PICK j \in JobStates(query) :
        /\ served.n < MaxChanges
        /\ served.job # "absent" => j # "absent"
        /\ served' = [n |-> served.n + 1, job |-> j]
  BY DEF OthersChange
<1>4. served.n \in 0..MaxChanges
  BY DEF WebInv, WebTypes, Snapshot
<1>5. served'.n = served.n + 1 /\ served'.job = j
  BY <1>3
<1>6. served.n + 1 \in 0..MaxChanges
  BY <1>3, <1>4, BoundsAssumption
<1>7. served' \in Snapshot
  BY <1>3, <1>6, JobsTyped DEF Snapshot
<1>8. /\ owed \in Nat /\ \A c \in Calls : call[c].seen.n \in Nat
  BY BoundsAssumption DEF WebInv, WebTypes, CallStates, Snapshot
<1>9. WebTypes'
  BY <1>1, <1>2, <1>7 DEF WebInv, WebTypes
<1>10. CallsOffered'
  BY <1>1, <1>2 DEF WebInv, CallsOffered
<1>11. NothingAhead'
  BY <1>1, <1>4, <1>5, <1>8, BoundsAssumption DEF WebInv, NothingAhead
<1>12. DataHasJob'
  BY <1>1, <1>2, <1>3, <1>5 DEF WebInv, DataHasJob
<1>13. ChangedByEffect' /\ OwedIsComing' /\ OwnChangesShown'
  BY <1>1, <1>2 DEF WebInv, ChangedByEffect, OwedIsComing, OwnChangesShown
<1> QED
  BY <1>2, <1>9, <1>10, <1>11, <1>12, <1>13 DEF WebInv

(* Every step of an open page keeps the invariant.                         *)
THEOREM WebInvariant == WebSpec => []WebInv
<1>1. WebInv /\ [WebNext]_webVars => WebInv'
  <2> SUFFICES ASSUME WebInv, [WebNext]_webVars PROVE WebInv'
    OBVIOUS
  <2>1. failures \in 0..MaxFailures
    BY DEF WebInv, WebTypes
  <2>2. CASE Poll \/ Refocus
    BY <2>1, <2>2, AskInv DEF Poll, Refocus
  <2>3. CASE Fail
    <3>1. failures' \in 0..MaxFailures
      BY <2>1, <2>3, BoundsAssumption DEF Fail
    <3> QED
      BY <2>3, <3>1, AskInv DEF Fail
  <2>4. CASE Serve
    BY <2>4, ServeInv
  <2>5. CASE Arrive
    BY <2>5, ArriveInv
  <2>6. ASSUME NEW c \in Calls,
               Submit(c) \/ Perform(c) \/ CallFails(c) \/ Settle(c)
        PROVE  WebInv'
    BY <2>6, SubmitInv, PerformInv, CallFailsInv, SettleInv
  <2>7. CASE OthersChange
    BY <2>7, OthersChangeInv
  <2>8. CASE UNCHANGED webVars
    <3>1. UNCHANGED opened /\ served' = served /\ cache' = cache /\ fetch' = fetch
          /\ call' = call /\ owed' = owed /\ failures' = failures
      BY <2>8 DEF webVars, opened
    <3>2. /\ query' = query /\ offered' = offered /\ user' = user
          /\ \A m : Effect(m)' = Effect(m)
      BY <3>1, PageStays
    <3>3. WebTypes' /\ CallsOffered'
      BY <3>1, <3>2 DEF WebInv, WebTypes, CallsOffered
    <3> QED
      BY <3>1, <3>2, <3>3 DEF WebInv, NothingAhead, DataHasJob, ChangedByEffect,
                              OwedIsComing, OwnChangesShown
  <2> QED
    BY <2>2, <2>3, <2>4, <2>5, <2>6, <2>7, <2>8 DEF WebNext
<1>2. WebInit => WebInv
  BY WebInitInv
<1> QED
  BY <1>1, <1>2, PTL DEF WebSpec

(* The type invariant of an open page, whatever its mutations invalidate.  *)
THEOREM WebTypeCorrect == WebSpec => []WebTypeOK
<1>1. WebInit => WebTypes
  BY WebInitTyped
<1>2. WebTypes /\ [WebNext]_webVars => WebTypes'
  <2> SUFFICES ASSUME WebTypes, [WebNext]_webVars PROVE WebTypes'
    OBVIOUS
  <2>1. UNCHANGED opened
    BY DEF WebNext, Poll, Refocus, Serve, Arrive, Fail, Submit, Perform,
           CallFails, Settle, OthersChange, webVars, opened
  <2>2. query' = query /\ offered' = offered /\ user' = user
    BY <2>1 DEF opened
  <2>3. served' \in Snapshot
    <3>1. CASE \E c \in Calls : Perform(c)
      BY <3>1, PerformCall, AfterTyped DEF WebTypes, CallStates
    <3>2. CASE OthersChange
      <4>1. PICK j \in JobStates(query) :
              served.n < MaxChanges /\ served' = [n |-> served.n + 1, job |-> j]
        BY <3>2 DEF OthersChange
      <4>2. served.n + 1 \in 0..MaxChanges
        BY <4>1, BoundsAssumption DEF WebTypes, Snapshot
      <4> QED
        BY <4>1, <4>2, JobsTyped DEF Snapshot
    <3>3. CASE served' = served
      BY <3>3 DEF WebTypes
    <3> QED
      BY <3>1, <3>2, <3>3 DEF WebNext, Poll, Refocus, Serve, Arrive, Fail,
                              Submit, CallFails, Settle, webVars
  <2>4. /\ cache' \in [has : BOOLEAN, seen : Snapshot, invalid : BOOLEAN]
        /\ owed' \in 0..MaxChanges
    <3>1. CASE \E c \in Calls : Settle(c)
      <4>1. PICK c \in Calls : Settle(c)
        BY <3>1
      <4>2. /\ cache' \in [has : BOOLEAN, seen : Snapshot, invalid : BOOLEAN]
            /\ owed' \in {owed, call[c].seen.n}
        BY <4>1, SettleKeeps
      <4> QED
        BY <4>2 DEF WebTypes, CallStates, Snapshot
    <3>2. CASE Arrive
      BY <3>2, HoldingTyped DEF Arrive, WebTypes
    <3>3. CASE cache' = cache /\ owed' = owed
      BY <3>3 DEF WebTypes
    <3> QED
      BY <3>1, <3>2, <3>3 DEF WebNext, Poll, Refocus, Serve, Fail, Submit,
                              Perform, CallFails, OthersChange, webVars
  <2>5. fetch' \in [at : {"idle", "asked", "answered", "refused"}, seen : Snapshot]
    <3>1. fetch' \in {fetch, Asked, NoFetch, [Asked EXCEPT !.at = "refused"],
                     [at |-> "answered", seen |-> served]}
      BY DEF WebNext, Poll, Refocus, Serve, Arrive, Fail, Submit, Perform,
             CallFails, Settle, OthersChange, webVars
    <3>2. [Asked EXCEPT !.at = "refused"]
            \in [at : {"idle", "asked", "answered", "refused"}, seen : Snapshot]
      BY SnapshotsExist DEF Asked
    <3> QED
      BY <3>1, <3>2, FetchTyped DEF WebTypes
  <2>6. call' \in [Calls -> CallStates]
    <3>1. ASSUME NEW c \in Calls,
                 Submit(c) \/ Perform(c) \/ CallFails(c) \/ Settle(c)
          PROVE  call' \in [Calls -> CallStates]
      BY <3>1, SubmitCall, PerformCall, DoneCall DEF CallFails, Settle
    <3>2. CASE call' = call
      BY <3>2 DEF WebTypes
    <3> QED
      BY <3>1, <3>2 DEF WebNext, Poll, Refocus, Serve, Arrive, Fail,
                        OthersChange, webVars
  <2>7. failures' \in 0..MaxFailures
    <3>1. CASE Fail
      BY <3>1, BoundsAssumption DEF Fail, WebTypes
    <3>2. CASE failures' = failures
      BY <3>2 DEF WebTypes
    <3> QED
      BY <3>1, <3>2 DEF WebNext, Poll, Refocus, Serve, Arrive, Submit, Perform,
                        CallFails, Settle, OthersChange, webVars
  <2> QED
    BY <2>2, <2>3, <2>4, <2>5, <2>6, <2>7 DEF WebTypes
<1>3. WebTypes => WebTypeOK
  BY DEF WebTypes, WebTypeOK, CallStates
<1> QED
  BY <1>1, <1>2, <1>3, PTL DEF WebSpec

(* A page shows the person's own changes, or is about to fetch them,       *)
(* whatever answers arrive in whatever order (onSuccess of the mutations,  *)
(* queries.ts).                                                            *)
THEOREM OwnChangesAreShown == WebSpec => []OwnChangesShown
<1>1. WebInv => OwnChangesShown
  BY DEF WebInv
<1> QED
  BY <1>1, WebInvariant, PTL

=============================================================================
