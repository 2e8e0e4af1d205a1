--------------------------- MODULE CaptureRefinement ---------------------------
(***************************************************************************)
(* The run session of FuzzerSession seen as the crash lifecycle of        *)
(* CrashCapture.  The stage is read off phase; the latch off the code's   *)
(* own state: crashed for a capture, the dump attempt for a report, and   *)
(* an abort while exiting for a double fault.  The history variable       *)
(* faulted is not used, so a crashed flag cleared by another thread shows *)
(* up as the latch going back from Captured to Armed.                     *)
(***************************************************************************)
EXTENDS FuzzerSession

AbsStage ==
  CASE phase \in {"init", "running"} -> "Running"
    [] phase = "exit"                -> "Exiting"
    [] phase = "terminated"          -> "Terminated"
    [] phase = "aborted"             -> "Killed"

AbsCapture ==
  IF phase = "aborted" /\ exiting THEN "FatalDoubleFault"
  ELSE IF dump.status # "none" THEN "Reported"
  ELSE IF crashed THEN "Captured"
  ELSE "Armed"

CC == INSTANCE CrashCapture WITH stage <- AbsStage, capture <- AbsCapture

(* The session implements the crash lifecycle of spec section 4.5: every  *)
(* step of on_exception, the post hooks, mutate and on_dr_exit is a step  *)
(* of CrashCapture or leaves it unchanged, and under the hooks' and the   *)
(* exit handler's fairness a started teardown reaches its end.            *)
CaptureRefinement == CC!FairSpec

\* The safety part of the same refinement.
CaptureSafety == CC!Spec

(* The invariant the refinement rests on when the target has one thread:  *)
(* a set crashed flag belongs to the thread inside on_exception, so no    *)
(* mutation of another thread can clear it; the dump exists exactly when  *)
(* on_dr_exit is past its dump step in a crashed run; nothing of the exit *)
(* handler has happened while the process runs.                           *)
RefInv ==
  /\ crashed => phase # "init"
  /\ \A t \in Threads :
       (crashed /\ phase = "running") => pc[t] \in {"e_tid", "e_ctx", "e_rec", "e_exit"}
  /\ dump.status # "none" => crashed /\ exitPc \in {"cov", "close"}
  /\ (exitPc \in {"cov", "close"} /\ crashed) => dump.status # "none"
  /\ phase \in {"init", "running"} => exitPc = "begin" /\ ~exiting
  /\ phase = "terminated" => exitPc = "close"

=============================================================================
