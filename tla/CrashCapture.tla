---------------------------- MODULE CrashCapture ----------------------------
(***************************************************************************)
(* What the run session promises about crashes (spec sections 4.5 and     *)
(* 4.6), as a state machine of two variables: the stage of the run and    *)
(* the state of the crash latch.                                          *)
(*                                                                         *)
(*   stage:   Running -> Exiting -> Terminated, or Killed when the process *)
(*            ends without completing teardown;                           *)
(*   capture: Armed -> Captured -> Reported, or FatalDoubleFault when an   *)
(*            exception arrives during teardown.                          *)
(*                                                                         *)
(* A capture happens only while running and ends the run; teardown        *)
(* reports a captured crash before it terminates; a run is killed before  *)
(* teardown only while nothing is captured.  The spec's lifecycle lists   *)
(* only Armed -> FatalDoubleFault, but its on_exception rule aborts on    *)
(* any exception during teardown, so DoubleFault is allowed from every    *)
(* capture state.                                                         *)
(***************************************************************************)
VARIABLES stage, capture

vars == <<stage, capture>>

Init == stage = "Running" /\ capture = "Armed"

\* A first-chance exception is captured while the run is armed.
Capture ==
  /\ stage = "Running" /\ capture = "Armed"
  /\ capture' = "Captured"
  /\ UNCHANGED stage

\* The process-exit notification: teardown starts, exactly once.
Exit ==
  /\ stage = "Running"
  /\ stage' = "Exiting"
  /\ UNCHANGED capture

\* Teardown writes (or tries to write) the dump of the captured crash.
Report ==
  /\ stage = "Exiting" /\ capture = "Captured"
  /\ capture' = "Reported"
  /\ UNCHANGED stage

\* Teardown completes; a captured crash must have been reported first.
Finish ==
  /\ stage = "Exiting" /\ capture # "Captured"
  /\ stage' = "Terminated"
  /\ UNCHANGED capture

\* An exception during teardown aborts the process.
DoubleFault ==
  /\ stage = "Exiting"
  /\ stage' = "Killed" /\ capture' = "FatalDoubleFault"

\* Start-up fails, or the client itself faults, before anything is captured.
Kill ==
  /\ stage = "Running" /\ capture = "Armed"
  /\ stage' = "Killed"
  /\ UNCHANGED capture

Next == Capture \/ Exit \/ Report \/ Finish \/ DoubleFault \/ Kill

Spec == Init /\ [][Next]_vars

\* Teardown, once started, runs to its end unless it faults.
FairSpec == Spec /\ WF_vars(Report) /\ WF_vars(Finish)

=============================================================================
