--------------------------- MODULE MCFuzzerSession ---------------------------
(* Model-checking instance of FuzzerSession: the thread set and the bound  *)
(* on intercepted calls come from the .cfg files.                          *)
EXTENDS CaptureRefinement, TLC

\* The threads are interchangeable: no action names a particular one.
ThreadSymmetry == Permutations(Threads)

=============================================================================
