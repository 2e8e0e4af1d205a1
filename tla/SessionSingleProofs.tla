------------------------- MODULE SessionSingleProofs -------------------------
(***************************************************************************)
(* Proofs of the crash-report invariants for a target with a single       *)
(* thread: a dump for every captured crash, across a failed mutation, a   *)
(* failed dump and a fault during exit, and a dump that describes one     *)
(* captured exception.  With two threads both fail (runs                  *)
(* session_race_crash_lost and session_race_torn_dump).                   *)
(***************************************************************************)
EXTENDS FuzzerSessionProofs

\* The program points of on_exception after crashed was set.
Capturing == {"e_tid", "e_ctx", "e_rec", "e_exit"}

(* The strengthening for the crash report.  A thread whose exception was  *)
(* captured never leaves on_exception while the process runs, so the only *)
(* thread that can clear crashed (mutate's failure path) is never the one *)
(* that set it; the process leaves the running phase with crashed set only*)
(* from on_exception's dr_exit_process, after all three fields of         *)
(* fuzz_exception_ctx were written; and the dump, written once in         *)
(* on_dr_exit, copies that context.                                       *)
CrashInv(t0) ==
  /\ \A t \in faulted : pc[t] \in Capturing
  /\ crashed <=> faulted # {}
  /\ phase = "init" => faulted = {}
  /\ pc[t0] \in {"e_ctx", "e_rec", "e_exit"} => fuzz_exception_ctx.thread_id = t0
  /\ pc[t0] \in {"e_rec", "e_exit"} => fuzz_exception_ctx.thread_ctx = t0
  /\ pc[t0] = "e_exit" => fuzz_exception_ctx.record = t0
  /\ phase \in {"init", "running"} => exitPc = "begin" /\ dump.status = "none"
  /\ (phase = "exit" /\ crashed) => pc[t0] = "e_exit"
  /\ (exitPc \in {"cov", "close"} /\ crashed) => dump.status # "none"
  /\ dump.status # "none" =>
       /\ dump.ctx = [thread_id |-> t0, thread_ctx |-> t0, record |-> t0]
       /\ t0 \in faulted
  /\ phase = "terminated" => exitPc = "close"

-----------------------------------------------------------------------------
(* What the post-call hook prologue changes: the call count, the phase    *)
(* (when the uninitialised cleanup kills the process) and, when the call  *)
(* is mutated, the thread's entry into mutate.                            *)
LEMMA PostHookFrame ==
  ASSUME TypeOK, NEW t \in Threads, NEW mutated, PostHook(t, mutated)
  PROVE  /\ phase = "running" /\ phase' \in {"running", "aborted"}
         /\ \/ pc' = pc
            \/ pc[t] = "app" /\ pc' = [pc EXCEPT ![t] = "m_read"] /\ phase' = "running"
         /\ UNCHANGED <<exitPc, crashed, exiting, mut_count, tmp, coverage_guided,
                        fuzz_exception_ctx, faulted, serverVars>>
BY DEF PostHook, Goto

-----------------------------------------------------------------------------
(* The only thread is never both captured and outside on_exception.       *)
LEMMA NotFaultedOutside ==
  ASSUME NEW t0, Threads = {t0}, TypeOK, CrashInv(t0), pc[t0] \notin Capturing
  PROVE  faulted = {} /\ ~crashed
BY DEF CrashInv, TypeOK

(* CrashInv is preserved.  The steps that matter: the single thread can   *)
(* take mutate's failure path (clearing crashed) or exit from the target  *)
(* only when it was never captured; on_exception writes the three fields  *)
(* in turn before dr_exit_process; on_dr_exit dumps that context.         *)
LEMMA CrashStep ==
  ASSUME NEW t0, Threads = {t0}, TypeOK, CrashInv(t0), [Next]_vars
  PROVE  CrashInv(t0)'
<1> USE DEF CrashInv
<1>1. CASE ClientMain
  BY <1>1 DEF ClientMain
<1>2. ASSUME NEW t \in Threads, ThreadStep(t) PROVE CrashInv(t0)'
  <2>0. t = t0
    OBVIOUS
  <2>1. CASE WrapPostGeneric(t) \/ WrapPostMapViewOfFile(t)
    <3>1. PICK mutated : PostHook(t, mutated)
      BY <2>1 DEF WrapPostGeneric, WrapPostMapViewOfFile
    <3>2. CASE pc' = pc
      BY <3>1, <3>2, PostHookFrame DEF serverVars
    <3>3. CASE pc[t] = "app" /\ pc' = [pc EXCEPT ![t] = "m_read"] /\ phase' = "running"
      <4>1. faulted = {} /\ ~crashed
        BY <2>0, <3>3, NotFaultedOutside DEF Capturing
      <4>2. QED
        BY <2>0, <3>1, <3>3, <4>1, PostHookFrame DEF serverVars, TypeOK
    <3>4. QED
      BY <3>1, <3>2, <3>3, PostHookFrame
  <2>2. CASE MutateReadCount(t) \/ MutateWriteCount(t)
    <3>1. faulted = {} /\ ~crashed
      BY <2>0, <2>2, NotFaultedOutside DEF MutateReadCount, MutateWriteCount, Goto, Capturing
    <3>2. QED
      BY <2>0, <2>2, <3>1 DEF MutateReadCount, MutateWriteCount, Goto, serverVars, TypeOK
  <2>3. CASE MutateRegister(t)
    <3>1. faulted = {} /\ ~crashed
      BY <2>0, <2>3, NotFaultedOutside DEF MutateRegister, Capturing
    <3>2. QED
      BY <2>0, <2>3, <3>1 DEF MutateRegister, TypeOK
  <2>4. CASE OnException(t)
    BY <2>0, <2>4 DEF OnException, Goto, serverVars, TypeOK, Capturing
  <2>5. CASE OnExceptionSaveTid(t)
    BY <2>0, <2>5 DEF OnExceptionSaveTid, Goto, serverVars, TypeOK, Capturing, CrashCtx
  <2>6. CASE OnExceptionSaveCtx(t)
    BY <2>0, <2>6 DEF OnExceptionSaveCtx, Goto, serverVars, TypeOK, Capturing, CrashCtx
  <2>7. CASE OnExceptionSaveRecord(t)
    BY <2>0, <2>7 DEF OnExceptionSaveRecord, Goto, serverVars, TypeOK, Capturing, CrashCtx
  <2>8. CASE OnExceptionExit(t)
    BY <2>0, <2>8 DEF OnExceptionExit, serverVars
  <2>9. CASE AppExit(t)
    <3>1. faulted = {} /\ ~crashed
      BY <2>0, <2>9, NotFaultedOutside DEF AppExit, Capturing
    <3>2. QED
      BY <2>9, <3>1 DEF AppExit, serverVars
  <2>10. QED
    BY <1>2, <2>1, <2>2, <2>3, <2>4, <2>5, <2>6, <2>7, <2>8, <2>9 DEF ThreadStep
<1>3. CASE OnExitBegin
  BY <1>3 DEF OnExitBegin, serverVars
<1>4. CASE OnExitDump
  <2>1. CASE crashed
    <3>1. pc[t0] = "e_exit" /\ t0 \in faulted
      BY <1>4, <2>1 DEF OnExitDump, TypeOK
    <3>2. fuzz_exception_ctx = [thread_id |-> t0, thread_ctx |-> t0, record |-> t0]
      BY <3>1 DEF TypeOK, CrashCtx
    <3>3. QED
      BY <1>4, <2>1, <3>1, <3>2 DEF OnExitDump
  <2>2. CASE ~crashed
    BY <1>4, <2>2 DEF OnExitDump
  <2>3. QED
    BY <2>1, <2>2
<1>5. CASE OnExitCoverage \/ OnExitClose \/ OnExceptionWhileExiting
  BY <1>5 DEF OnExitCoverage, OnExitClose, OnExceptionWhileExiting, serverVars
<1>6. CASE Terminated \/ UNCHANGED vars
  BY <1>6 DEF Terminated, vars
<1>7. QED
  BY <1>1, <1>2, <1>3, <1>4, <1>5, <1>6 DEF Next

-----------------------------------------------------------------------------
(* For a single-threaded target CrashInv holds in every state.            *)
LEMMA SingleInvariant ==
  ASSUME NEW t0, Threads = {t0}
  PROVE  Spec => [](TypeOK /\ CrashInv(t0))
<1>1. Init => CrashInv(t0)
  BY DEF Init, CrashInv
<1>2. TypeOK /\ CrashInv(t0) /\ [Next]_vars => CrashInv(t0)'
  BY CrashStep
<1>3. QED
  BY <1>1, <1>2, TypeCorrect, PTL DEF Spec

(* A crash that on_exception captured in a single-threaded target is      *)
(* always dumped by on_dr_exit before the process terminates.             *)
THEOREM CrashReportedHolds ==
  ASSUME NEW t0, Threads = {t0}
  PROVE  Spec => []CrashReported
<1>1. CrashInv(t0) => CrashReported
  BY DEF CrashInv, CrashReported
<1>2. QED
  BY <1>1, SingleInvariant, PTL

(* The minidump on_dr_exit writes for a single-threaded target holds the  *)
(* thread id, register context and exception record of one captured       *)
(* exception.                                                             *)
THEOREM DumpMatchesFaultHolds ==
  ASSUME NEW t0, Threads = {t0}
  PROVE  Spec => []DumpMatchesFault
<1>1. CrashInv(t0) => DumpMatchesFault
  BY DEF CrashInv, DumpMatchesFault
<1>2. QED
  BY <1>1, SingleInvariant, PTL

=============================================================================
