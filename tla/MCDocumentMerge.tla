-------------------------- MODULE MCDocumentMerge --------------------------
(***************************************************************************)
(* Three targets, three texts; bases with a target of each sort, heads     *)
(* that differ from their base in one or two respects.                     *)
(***************************************************************************)
EXTENDS DocumentMerge

T(text, markup) == [text |-> text, split |-> 1, markup |-> markup]

Plain(target) ==
  [target |-> target, frame |-> "plain", order |-> "up", parts |-> 1,
   packing |-> "first", coverage |-> "complete"]

SomeBases(k) ==
  {Plain(<<T("a", "plain"), T("b", "plain"), last>>) :
     last \in {T("a", "special"),
               IF k = "sheets" THEN T(Blank, "plain") ELSE Nothing}}

(* What one edit may do to a document.                                     *)
EditsOf(k, d) ==
  {e \in
     {[d EXCEPT !.target[p] = t] : p \in Targets, t \in
        {Nothing, T("a", "plain"), T("c", "plain"),
         [T("b", "plain") EXCEPT !.split = 2],
         [T("c", "plain") EXCEPT !.split = 2],
         T("c", "styled"), T("b", "special"), T(Blank, "plain")}}
     \cup {[d EXCEPT !.frame = f] : f \in {"plain", "counted", "uncounted"}}
     \cup {[d EXCEPT !.order = "down"], [d EXCEPT !.parts = 2],
           [d EXCEPT !.packing = "second"], [d EXCEPT !.coverage = "partial"],
           [d EXCEPT !.coverage = "unreadable"]}
   : Possible(k, e)}

TwoEdits(k, d) == UNION {EditsOf(k, e) : e \in EditsOf(k, d)}

(* Two edits on one side and one on the other.                             *)
SomeInputs == [k \in AllKinds |->
  UNION {LET near == EditsOf(k, b)
             far == TwoEdits(k, b)
         IN  [base : {b}, ours : near, theirs : far]
               \cup [base : {b}, ours : far, theirs : near]
         : b \in SomeBases(k)}]

=============================================================================
