------------------------- MODULE MCDocumentPipeline -------------------------
(***************************************************************************)
(* One version, two processes that each run a dispatcher and a handler.    *)
(***************************************************************************)
EXTENDS DocumentPipeline, TLC

CONSTANTS v1, file, w1, w2, s1, s2

OneFile == [v \in Versions |-> file]
OneEach == s1 :> w1 @@ s2 :> w2

Clean == {[hash |-> "h1", outcome |-> "completed"]}

=============================================================================
