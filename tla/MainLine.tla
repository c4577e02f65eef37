------------------------------ MODULE MainLine ------------------------------
(***************************************************************************)
(* What a document branch promises to the people who push to it: versions  *)
(* are numbered as they arrive, each one either becomes the next of the    *)
(* main line or is kept aside, and neither is ever taken back.  Nobody's   *)
(* version replaces a version its author has not seen.                     *)
(***************************************************************************)
EXTENDS Naturals, Sequences, FiniteSets

VARIABLES
  line,   \* the main line, oldest version first
  aside   \* versions kept although they did not extend the line

lineVars == <<line, aside>>

NextNumber == Len(line) + Cardinality(aside) + 1

Init == line = <<>> /\ aside = {}

Extend == line' = Append(line, NextNumber) /\ UNCHANGED aside
KeepAside == aside' = aside \cup {NextNumber} /\ UNCHANGED line

Spec == Init /\ [][Extend \/ KeepAside]_lineVars

=============================================================================
