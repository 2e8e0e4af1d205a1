----------------------------- MODULE MCCallLength -----------------------------
(* CallLength for TLC: reads and views of up to MaxLen bytes with pages of *)
(* PageSize bytes, so that a short view is rounded up past the file.       *)
EXTENDS CallLength

=============================================================================
