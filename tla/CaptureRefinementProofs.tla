----------------------- MODULE CaptureRefinementProofs -----------------------
(***************************************************************************)
(* Proof that, for a target with a single thread, the run session of       *)
(* FuzzerSession implements the safety part of the crash lifecycle of      *)
(* CrashCapture.  With two threads it does not: a failed mutation on one   *)
(* thread clears the crashed flag another thread set (run                  *)
(* session_race_crash_lost).                                               *)
(***************************************************************************)
EXTENDS FuzzerSessionProofs, CaptureRefinement

-----------------------------------------------------------------------------
(* RefInv is inductive when the target has one thread: the only thread    *)
(* that can clear crashed (in mutate's failure path) is the one that set  *)
(* it, and that thread never leaves on_exception while the process runs.  *)
LEMMA RefInvInductive ==
  ASSUME NEW t0, Threads = {t0}
  PROVE  TypeOK /\ RefInv /\ [Next]_vars => RefInv'
<1> SUFFICES ASSUME TypeOK, RefInv, [Next]_vars PROVE RefInv'
  OBVIOUS
<1> USE DEF RefInv
<1>1. CASE ClientMain
  BY <1>1 DEF ClientMain
<1>2. ASSUME NEW t \in Threads, ThreadStep(t) PROVE RefInv'
  <2>0. t = t0
    OBVIOUS
  <2>1. CASE WrapPostGeneric(t) \/ WrapPostMapViewOfFile(t)
    BY <2>0, <2>1 DEF WrapPostGeneric, WrapPostMapViewOfFile, PostHook, Goto, serverVars
  <2>2. CASE MutateReadCount(t) \/ MutateWriteCount(t)
    BY <2>0, <2>2 DEF MutateReadCount, MutateWriteCount, Goto, serverVars
  <2>3. CASE MutateRegister(t)
    BY <2>0, <2>3 DEF MutateRegister
  <2>4. CASE OnException(t)
    BY <2>0, <2>4 DEF OnException, Goto, serverVars, TypeOK
  <2>5. CASE OnExceptionSaveTid(t) \/ OnExceptionSaveCtx(t) \/ OnExceptionSaveRecord(t)
    BY <2>0, <2>5 DEF OnExceptionSaveTid, OnExceptionSaveCtx, OnExceptionSaveRecord,
                      Goto, serverVars, TypeOK
  <2>6. CASE OnExceptionExit(t) \/ AppExit(t)
    BY <2>0, <2>6 DEF OnExceptionExit, AppExit, serverVars
  <2>7. QED
    BY <1>2, <2>1, <2>2, <2>3, <2>4, <2>5, <2>6 DEF ThreadStep
<1>3. CASE OnExitBegin
  BY <1>3 DEF OnExitBegin, serverVars
<1>4. CASE OnExitDump
  BY <1>4 DEF OnExitDump
<1>5. CASE OnExitCoverage
  BY <1>5 DEF OnExitCoverage
<1>6. CASE OnExitClose
  BY <1>6 DEF OnExitClose, serverVars
<1>7. CASE OnExceptionWhileExiting
  BY <1>7 DEF OnExceptionWhileExiting, serverVars
<1>8. CASE Terminated \/ UNCHANGED vars
  BY <1>8 DEF Terminated, vars
<1>9. QED
  BY <1>1, <1>2, <1>3, <1>4, <1>5, <1>6, <1>7, <1>8 DEF Next

-----------------------------------------------------------------------------
(* Every step of the session maps to a step of CrashCapture or to a       *)
(* stutter of its two variables.                                          *)
LEMMA RefStep ==
  ASSUME NEW t0, Threads = {t0}
  PROVE  TypeOK /\ RefInv /\ [Next]_vars => [CC!Next]_CC!vars
<1> SUFFICES ASSUME TypeOK, RefInv, [Next]_vars PROVE [CC!Next]_CC!vars
  OBVIOUS
<1> USE DEF RefInv, CC!vars, AbsStage, AbsCapture
<1>1. CASE ClientMain
  BY <1>1 DEF ClientMain, CC!Next, CC!Kill
<1>2. ASSUME NEW t \in Threads, ThreadStep(t) PROVE [CC!Next]_CC!vars
  <2>0. t = t0
    OBVIOUS
  <2>1. CASE WrapPostGeneric(t) \/ WrapPostMapViewOfFile(t)
    <3>1. PICK mutated : PostHook(t, mutated)
      BY <2>1 DEF WrapPostGeneric, WrapPostMapViewOfFile
    <3>2. CASE phase' = "aborted"
      <4>1. ~crashed /\ dump.status = "none" /\ ~exiting /\ phase = "running"
        BY <2>0, <3>1, <3>2 DEF PostHook, Goto
      <4>2. QED
        BY <3>1, <3>2, <4>1 DEF PostHook, serverVars, CC!Next, CC!Kill
    <3>3. CASE phase' # "aborted"
      BY <3>1, <3>3 DEF PostHook, serverVars
    <3>4. QED
      BY <3>2, <3>3
  <2>2. CASE MutateReadCount(t) \/ MutateWriteCount(t)
    BY <2>2 DEF MutateReadCount, MutateWriteCount, serverVars
  <2>3. CASE MutateRegister(t)
    BY <2>0, <2>3 DEF MutateRegister, CC!Next, CC!Exit
  <2>4. CASE OnException(t)
    BY <2>0, <2>4 DEF OnException, Goto, serverVars, CC!Next, CC!Capture
  <2>5. CASE OnExceptionSaveTid(t) \/ OnExceptionSaveCtx(t) \/ OnExceptionSaveRecord(t)
    BY <2>5 DEF OnExceptionSaveTid, OnExceptionSaveCtx, OnExceptionSaveRecord, serverVars
  <2>6. CASE OnExceptionExit(t) \/ AppExit(t)
    BY <2>6 DEF OnExceptionExit, AppExit, serverVars, CC!Next, CC!Exit
  <2>7. QED
    BY <1>2, <2>1, <2>2, <2>3, <2>4, <2>5, <2>6 DEF ThreadStep
<1>3. CASE OnExitBegin
  BY <1>3 DEF OnExitBegin, serverVars
<1>4. CASE OnExitDump
  <2>1. CASE crashed
    BY <1>4, <2>1 DEF OnExitDump, CC!Next, CC!Report
  <2>2. CASE ~crashed
    BY <1>4, <2>2 DEF OnExitDump
  <2>3. QED
    BY <2>1, <2>2
<1>5. CASE OnExitCoverage
  BY <1>5 DEF OnExitCoverage
<1>6. CASE OnExitClose
  BY <1>6 DEF OnExitClose, serverVars, CC!Next, CC!Finish
<1>7. CASE OnExceptionWhileExiting
  BY <1>7 DEF OnExceptionWhileExiting, serverVars, CC!Next, CC!DoubleFault
<1>8. CASE Terminated \/ UNCHANGED vars
  <2>1. UNCHANGED <<phase, exiting, dump, crashed>>
    BY <1>8 DEF Terminated, vars
  <2>2. QED
    BY <2>1
<1>9. QED
  BY <1>1, <1>2, <1>3, <1>4, <1>5, <1>6, <1>7, <1>8 DEF Next

-----------------------------------------------------------------------------
(* For a single-threaded target, the session implements the crash         *)
(* lifecycle: on_exception captures only while the run is armed,          *)
(* on_dr_exit reports a captured crash before it closes, and a fault in   *)
(* teardown is a double fault; no step of the code moves the latch back.  *)
THEOREM SessionRefinesCapture ==
  ASSUME NEW t0, Threads = {t0}
  PROVE  Spec => CaptureSafety
<1>1. Init => CC!Init
  BY DEF Init, CC!Init, AbsStage, AbsCapture
<1>2. Init => RefInv
  BY DEF Init, RefInv
<1>3. QED
  BY <1>1, <1>2, RefInvInductive, RefStep, TypeCorrect, PTL
  DEF Spec, CaptureSafety, CC!Spec
=============================================================================
