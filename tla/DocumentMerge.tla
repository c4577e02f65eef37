---------------------------- MODULE DocumentMerge ----------------------------
(***************************************************************************)
(* The document engine's three-way merge of Office packages, and the       *)
(* comparison it rests on (services/document-engine: OoxmlMerger.cs,       *)
(* PowerPointMerger.cs, ExcelMerger.cs, MergeAnalysisBuilder.cs,           *)
(* OoxmlComparator.cs, OoxmlInspector.cs).                                 *)
(*                                                                         *)
(* A package is its targets (paragraphs, shapes or cells, by path), the    *)
(* markup around them in the same parts (the frame), the order of its      *)
(* targets, its other parts, and how it is packed: two packages have the   *)
(* same hash when all of these agree.  A target is its text, how the text  *)
(* is distributed over the text nodes, and the rest of its markup.  The    *)
(* snapshot the inspector takes of a package sees only some of this, and   *)
(* the merge decides on snapshots, on hashes of parts and on markup.       *)
(***************************************************************************)
EXTENDS Naturals, FiniteSets, Sequences

CONSTANTS
  Kinds,            \* kinds of documents that are merged
  MaxTarget,        \* bound on the targets of a document
  Words,            \* texts
  Blank,            \* no text node
  Nothing,
  Inputs            \* for each kind, the bases and heads that are tried

AllKinds == {"word", "slides", "sheets"}
Targets == 1 .. MaxTarget
Target == [text : Words \cup {Blank}, split : {1, 2},
           markup : {"plain", "styled", "special"}]
Document == [target : [Targets -> Target \cup {Nothing}],
             frame : {"plain", "counted", "uncounted"},
             order : {"up", "down"},
             parts : {1, 2},
             packing : {"first", "second", "engine"},
             coverage : {"complete", "partial", "unreadable"}]

(* A paragraph's path is its place, which leaves no gaps; fewer than two   *)
(* shapes have one order only.                                             *)
Possible(k, d) ==
  /\ k = "word" =>
       /\ d.order = "up"
       /\ \A p, q \in Targets :
            p < q /\ d.target[q] # Nothing => d.target[p] # Nothing
  /\ k = "slides" =>
       \/ d.order = "up"
       \/ \E p, q \in Targets :
            p # q /\ Nothing \notin {d.target[p], d.target[q]}

ASSUME KindsAssumption == Kinds \subseteq AllKinds
ASSUME MaxTargetAssumption == MaxTarget \in Nat
ASSUME NothingAssumption == Nothing \notin Target /\ Blank \notin Words
ASSUME InputsAssumption ==
  \A k \in Kinds : \A i \in Inputs[k] : \A d \in {i.base, i.ours, i.theirs} :
    d \in Document /\ Possible(k, d)

VARIABLES
  kind, base, ours, theirs,  \* a merge request
  result                     \* the engine's answer, or Nothing

mergeVars == <<kind, base, ours, theirs, result>>
request == <<kind, base, ours, theirs>>

MergeInit ==
  /\ kind \in Kinds
  /\ \E i \in Inputs[kind] :
       base = i.base /\ ours = i.ours /\ theirs = i.theirs
  /\ result = Nothing

-----------------------------------------------------------------------------
(* What the inspector lists: the paragraphs of a Word document, the shapes *)
(* of the slides, the cells of the sheets that show something.             *)
Listed(k, t) == t # Nothing /\ (k = "sheets" => t.text # Blank)

(* The fingerprint of a target; that of a cell has its value, not its      *)
(* markup hash.                                                            *)
Fingerprint(k, t) ==
  IF ~Listed(k, t) THEN Nothing
  ELSE IF k = "sheets" THEN [t EXCEPT !.split = 1]
  ELSE t

Display(k, t) == IF Listed(k, t) THEN t.text ELSE Nothing

(* The counts and properties that the structure entities show.             *)
Structure(k, d) ==
  <<d.frame = "counted",
    IF k = "word" THEN Cardinality({p \in Targets : d.target[p] # Nothing}) ELSE 0>>

Position(d, S, p) ==
  Cardinality({q \in S : IF d.order = "up" THEN q <= p ELSE q >= p})

(* OoxmlComparator.Compare; a change of structure is at 0.                 *)
Change(type, p, before, after) ==
  [type |-> type, at |-> p, before |-> before, after |-> after]

Changes(k, a, b) ==
  LET A == {p \in Targets : Listed(k, a.target[p])}
      B == {p \in Targets : Listed(k, b.target[p])}
      Type(p) == IF p \notin A THEN "added"
                 ELSE IF p \notin B THEN "removed" ELSE "modified"
  IN  {Change(Type(p), p, Display(k, a.target[p]), Display(k, b.target[p])) :
         p \in {q \in A \cup B :
                  Fingerprint(k, a.target[q]) # Fingerprint(k, b.target[q])}}
      \cup {Change("moved", p, Nothing, Nothing) :
              p \in {q \in A \cap B : k = "slides"
                       /\ Position(a, A, q) # Position(b, B, q)}}
      \cup {Change("modified", 0, Nothing, Nothing) :
              x \in {1} \cap (IF Structure(k, a) # Structure(k, b)
                              THEN {1} ELSE {})}

Paths(changes) == {c.at : c \in changes}
At(changes, p) == {c \in changes : c.at = p}

(* Modified contents of listed targets, and at least one.                  *)
MergeableChanges(changes) ==
  changes # {} /\ \A c \in changes : c.type = "modified" /\ c.at # 0

(* Both sides changed the same target, and not in the same way.            *)
TrueConflict(oc, tc) ==
  \E p \in Paths(oc) \cap Paths(tc) : At(oc, p) # At(tc, p)

-----------------------------------------------------------------------------
(* What the mergers read again in the packages themselves.                 *)

(* Pictures, tables and groups are not among the shapes of ShapeMap.       *)
Located(k, d) ==
  {p \in Targets : /\ d.target[p] # Nothing
                   /\ k = "slides" => d.target[p].markup # "special"}

StableIdentity(k, docs) ==
  \A d, e \in docs :
    /\ Located(k, d) = Located(k, e)
    /\ \A p \in Located(k, d) :
         Position(d, Located(k, d), p) = Position(e, Located(k, e), p)

(* Nothing but the text in its text nodes differs; a cell with a formula   *)
(* or a shared string has no text of its own.                              *)
TextOnly(k, before, after) ==
  /\ Nothing \notin {before, after}
  /\ Blank \notin {before.text, after.text}
  /\ before.markup = after.markup
  /\ k = "sheets" => before.markup # "special"

BugTextOnlyAt(k, b, o, t, paths) ==
  \A p \in paths :
    /\ p \in Located(k, b)
    /\ TextOnly(k, b.target[p], t.target[p])

TextOnlyAt(k, b, o, t, paths) ==
  \A p \in paths :
    /\ p \in Located(k, b)
    /\ TextOnly(k, b.target[p], o.target[p])
    /\ TextOnly(k, b.target[p], t.target[p])

(* The worksheets with the approved values blanked.                        *)
BugSkeleton(d, paths) ==
  [p \in Targets |->
     IF p \in paths /\ d.target[p] # Nothing
     THEN [d.target[p] EXCEPT !.text = Blank, !.split = 1]
     ELSE d.target[p]]

Skeleton(d, paths) ==
  <<d.frame, d.order,
    [p \in Targets |->
       IF p \in paths /\ d.target[p] # Nothing
       THEN [d.target[p] EXCEPT !.text = Blank, !.split = 1]
       ELSE d.target[p]]>>

SkeletonsEqual(docs, paths) ==
  \A d, e \in docs : Skeleton(d, paths) = Skeleton(e, paths)

(* A copy of ours with targets of theirs.                                  *)
CandidateOf(b, o, t, applied) ==
  [o EXCEPT !.target =
              [p \in Targets |->
                 IF p \in applied THEN t.target[p] ELSE o.target[p]],
            !.packing = "engine"]

(* The exact union of both change sets.                                    *)
Verified(k, b, oc, tc, candidate) ==
  Changes(k, b, candidate) = {c \in oc : c.at \notin Paths(tc)} \cup tc

-----------------------------------------------------------------------------
(* Decisions: the first check that fails gives the answer.                 *)

Check(code, fails) == [code |-> code, fails |-> fails]
Failing(checks) == {i \in DOMAIN checks : checks[i].fails}
FirstFailure(checks) ==
  checks[CHOOSE i \in Failing(checks) : \A j \in Failing(checks) : i <= j].code

Answer(outcome, why, eligible, candidate) ==
  [outcome |-> outcome, why |-> why, eligible |-> eligible,
   candidate |-> candidate]
Manual(why, eligible) == Answer("manual", why, eligible, Nothing)
Completed(why, eligible, d) == Answer("completed", why, eligible, d)

WordChecks(b, o, t, oc, tc) ==
  <<Check("merge_supporting_parts_changed",
          ~(b.parts = o.parts /\ o.parts = t.parts)),
    Check("merge_change_shape_unsupported",
          ~(MergeableChanges(oc) /\ MergeableChanges(tc))),
    Check("merge_changes_overlap", Paths(oc) \cap Paths(tc) # {}),
    Check("merge_word_markup_unsupported",
          ~(TextOnlyAt("word", b, o, o, Paths(oc) \ {0})
            /\ TextOnlyAt("word", b, t, t, Paths(tc) \ {0})))>>

(* Word: the answer to a candidate that fails keeps the candidate.         *)
WordMerge(b, o, t, valid) ==
  LET oc == Changes("word", b, o)
      tc == Changes("word", b, t)
      candidate == CandidateOf(b, o, t, Paths(tc))
      checks == WordChecks(b, o, t, oc, tc)
      Rejected(why) == Answer("manual", why, FALSE, candidate)
  IN  IF Failing(checks) # {} THEN Manual(FirstFailure(checks), FALSE)
      ELSE IF ~valid THEN Rejected("merge_candidate_validation_failed")
      ELSE IF ~Verified("word", b, oc, tc, candidate)
           THEN Rejected("merge_candidate_verification_failed")
      ELSE Completed("disjoint_word_text", FALSE, candidate)

(* Slides and sheets: what is eligible is analysed whether or not the      *)
(* organization has automatic merges, and merged only if it has.           *)
StableChecks(k, b, o, t, oc, tc) ==
  LET docs == {b, o, t}
      paths == Paths(oc) \cup Paths(tc)
  IN  <<Check("changes_conflict", TrueConflict(oc, tc)),
        Check("package_change_unsupported",
              ~(b.parts = o.parts /\ o.parts = t.parts)),
        Check("change_unsupported",
              ~(MergeableChanges(oc) /\ MergeableChanges(tc))),
        Check("match_ambiguous", ~StableIdentity(k, docs)),
        Check("worksheet_structure_changed",
              k = "sheets" /\ ~SkeletonsEqual(docs, paths)),
        Check("markup_unsupported", ~TextOnlyAt(k, b, o, t, paths \ {0}))>>

Overlapping(o, t, oc, tc) ==
  \E p \in (Paths(oc) \cap Paths(tc)) \ {0} : o.target[p] # t.target[p]

BugStableMerge(k, b, o, t, enabled, valid) ==
  LET oc == Changes(k, b, o)
      tc == Changes(k, b, t)
      candidate == CandidateOf(b, o, t, Paths(tc) \ Paths(oc))
      checks == StableChecks(k, b, o, t, oc, tc)
  IN  IF Failing(checks) # {} THEN Manual(FirstFailure(checks), FALSE)
      ELSE IF ~enabled THEN Manual("automatic_merge_disabled", TRUE)
      ELSE IF Overlapping(o, t, oc, tc) THEN Manual("changes_conflict", FALSE)
      ELSE IF ~valid THEN Manual("candidate_validation_failed", FALSE)
      ELSE IF ~Verified(k, b, oc, tc, candidate)
           THEN Manual("candidate_verification_failed", FALSE)
      ELSE Completed("disjoint", TRUE, candidate)

StableMerge(k, b, o, t, enabled, valid) ==
  LET oc == Changes(k, b, o)
      tc == Changes(k, b, t)
      candidate == CandidateOf(b, o, t, Paths(tc) \ Paths(oc))
      checks == StableChecks(k, b, o, t, oc, tc)
  IN  IF Failing(checks) # {} THEN Manual(FirstFailure(checks), FALSE)
      ELSE IF Overlapping(o, t, oc, tc) THEN Manual("changes_conflict", FALSE)
      ELSE IF ~enabled THEN Manual("automatic_merge_disabled", TRUE)
      ELSE IF ~valid THEN Manual("candidate_validation_failed", FALSE)
      ELSE IF ~Verified(k, b, oc, tc, candidate)
           THEN Manual("candidate_verification_failed", FALSE)
      ELSE Completed("disjoint", TRUE, candidate)

(* OoxmlMerger.Merge: equal hashes are settled without looking further.    *)
Decide(k, b, o, t, enabled, valid) ==
  LET docs == {b, o, t}
  IN  IF "unreadable" \in {d.coverage : d \in docs}
      THEN Manual("merge_source_rejected", FALSE)
      ELSE IF "partial" \in {d.coverage : d \in docs}
      THEN Manual("merge_coverage_incomplete", FALSE)
      ELSE IF o = t THEN Completed("identical_heads", FALSE, o)
      ELSE IF b = o THEN Completed("fast_forward_theirs", FALSE, t)
      ELSE IF b = t THEN Completed("retain_ours", FALSE, o)
      ELSE IF k = "word" THEN WordMerge(b, o, t, valid)
      ELSE StableMerge(k, b, o, t, enabled, valid)

(* valid: whether the generated candidate passes inspection, Open XML      *)
(* validation and the comparison of its untouched parts.                   *)
MergeAsync(enabled, valid) ==
  /\ result = Nothing
  /\ result' = Decide(kind, base, ours, theirs, enabled, valid)
  /\ UNCHANGED request

MergeNext == \E enabled, valid \in BOOLEAN : MergeAsync(enabled, valid)

MergeSpec == MergeInit /\ [][MergeNext]_mergeVars

-----------------------------------------------------------------------------
(* Properties.                                                             *)

MergeTypeOK ==
  /\ kind \in Kinds
  /\ \A d \in {base, ours, theirs} : d \in Document /\ Possible(kind, d)
  /\ result # Nothing =>
       /\ result.outcome \in {"completed", "manual"}
       /\ result.candidate \in Document \cup {Nothing}

(* The three-way merge of one thing, or Nothing if both sides changed it.     *)
ThreeWay(b, o, t) ==
  IF o = b THEN <<t>> ELSE IF t = b \/ o = t THEN <<o>> ELSE Nothing

(* What a reader of a document sees of a target.                           *)
Content(t) == IF t = Nothing THEN Nothing ELSE <<t.text, t.markup>>

MergesTo(d) ==
  /\ \A p \in Targets :
       ThreeWay(Content(base.target[p]), Content(ours.target[p]),
                Content(theirs.target[p])) = <<Content(d.target[p])>>
  /\ ThreeWay(base.order, ours.order, theirs.order) = <<d.order>>
  /\ ThreeWay(base.parts, ours.parts, theirs.parts) = <<d.parts>>

FrameMergesTo(d) == ThreeWay(base.frame, ours.frame, theirs.frame) = <<d.frame>>

IsCompleted == result # Nothing /\ result.outcome = "completed"

(* A merge that completes is the three-way merge: it has every change of   *)
(* either side, no other, and there was none to choose between; in sheets  *)
(* this holds of everything around the cells too (OoxmlMerger.Merge,       *)
(* ExcelMerger.Merge, PowerPointMerger.Merge).                             *)
MergedRight ==
  IsCompleted =>
    /\ MergesTo(result.candidate)
    /\ kind = "sheets" => FrameMergesTo(result.candidate)

(* It does not matter which of two heads is ours: they merge or they do    *)
(* not, and to the same contents (the checks of both sides are the same,   *)
(* though the candidate is a copy of ours).                                *)
EitherOrder ==
  result = Nothing => \A enabled \in BOOLEAN :
    LET r == Decide(kind, base, ours, theirs, enabled, TRUE)
        s == Decide(kind, base, theirs, ours, enabled, TRUE)
    IN  /\ r.outcome = s.outcome
        /\ r.eligible <=> s.eligible
        /\ r.outcome = "completed" =>
             \A p \in Targets : Content(r.candidate.target[p])
                                  = Content(s.candidate.target[p])

(* An analysis that calls a merge of slides or sheets eligible is kept: an *)
(* organization without automatic merges is told so of exactly the merges  *)
(* that complete in one that has them (MergeAnalysis.Eligible).            *)
EligibleMeans ==
  result = Nothing /\ kind # "word" /\ Cardinality({base, ours, theirs}) = 3 =>
    (Decide(kind, base, ours, theirs, FALSE, TRUE).eligible
       <=> Decide(kind, base, ours, theirs, TRUE, TRUE).outcome = "completed")

(* Changes around the paragraphs of a Word document, like those of the     *)
(* margins of a section, are not lost: they merge or need manual           *)
(* resolution.                                                             *)
(* It does not hold: see the known disagreements of the README.            *)
FrameKept == IsCompleted /\ kind = "word" => FrameMergesTo(result.candidate)

=============================================================================
