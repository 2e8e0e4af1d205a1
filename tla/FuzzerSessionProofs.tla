------------------------- MODULE FuzzerSessionProofs -------------------------
(***************************************************************************)
(* Proofs about FuzzerSession, for every set of threads and every bound on *)
(* the intercepted calls.                                                  *)
(***************************************************************************)
EXTENDS FuzzerSession, TLAPS

-----------------------------------------------------------------------------
(* The captured context stays a CrashCtx whichever field a thread of       *)
(* on_exception overwrites.                                                *)
LEMMA CtxUpdate ==
  ASSUME NEW c \in CrashCtx, NEW v \in ThreadId
  PROVE  /\ [c EXCEPT !.thread_id = v] \in CrashCtx
         /\ [c EXCEPT !.thread_ctx = v] \in CrashCtx
         /\ [c EXCEPT !.record = v] \in CrashCtx
BY DEF CrashCtx

\* A dump of any status holding a CrashCtx is a DumpState.
LEMMA DumpRecord ==
  ASSUME NEW c \in CrashCtx, NEW st \in {"none", "failed", "written"}
  PROVE  [status |-> st, ctx |-> c] \in DumpState
BY DEF DumpState

LEMMA EmptyCtxType == EmptyCtx \in CrashCtx
BY DEF EmptyCtx, CrashCtx, ThreadId

(* The post-call hook prologue keeps the types, whether the call ends, the *)
(* uninitialised cleanup kills the process or mutate is entered.           *)
LEMMA PostHookType ==
  ASSUME TypeOK, NEW t \in Threads, NEW mutated, PostHook(t, mutated)
  PROVE  TypeOK'
<1>1. ncalls' \in Nat
  BY DEF PostHook, TypeOK
<1>2. pc' \in [Threads -> ThreadPc]
  BY DEF PostHook, Goto, TypeOK, ThreadPc
<1>3. phase' \in {"init", "running", "exit", "terminated", "aborted"}
  BY DEF PostHook
<1>4. QED
  BY <1>1, <1>2, <1>3 DEF PostHook, TypeOK, serverVars

-----------------------------------------------------------------------------
(* Type correctness: every step of the session keeps every variable in its *)
(* type, whichever threads take it.                                        *)
THEOREM TypeCorrect == Spec => []TypeOK
<1>1. Init => TypeOK
  <2> SUFFICES ASSUME Init PROVE TypeOK
    OBVIOUS
  <2>1. dump \in DumpState
    BY EmptyCtxType, DumpRecord DEF Init
  <2>2. pc \in [Threads -> ThreadPc] /\ tmp \in [Threads -> Nat]
    BY DEF Init, ThreadPc
  <2>3. registered \in Seq(Nat)
    BY DEF Init
  <2>4. QED
    BY <2>1, <2>2, <2>3, EmptyCtxType DEF Init, TypeOK
<1>2. TypeOK /\ [Next]_vars => TypeOK'
  <2> SUFFICES ASSUME TypeOK, [Next]_vars PROVE TypeOK'
    OBVIOUS
  <2> USE DEF TypeOK, ThreadPc
  <2>1. CASE ClientMain
    BY <2>1 DEF ClientMain
  <2>2. ASSUME NEW t \in Threads, ThreadStep(t) PROVE TypeOK'
    <3>1. CASE WrapPostGeneric(t)
      BY <3>1, PostHookType DEF WrapPostGeneric
    <3>2. CASE WrapPostMapViewOfFile(t)
      BY <3>2, PostHookType DEF WrapPostMapViewOfFile
    <3>3. CASE MutateReadCount(t)
      BY <3>3 DEF MutateReadCount, Goto, serverVars
    <3>4. CASE MutateWriteCount(t)
      BY <3>4 DEF MutateWriteCount, Goto, serverVars
    <3>5. CASE MutateRegister(t)
      <4>1. tmp[t] \in Nat
        OBVIOUS
      <4>2. Append(registered, tmp[t]) \in Seq(Nat)
        BY <4>1
      <4>3. [pc EXCEPT ![t] = "app"] \in [Threads -> ThreadPc]
        OBVIOUS
      <4>4. QED
        BY <3>5, <4>2, <4>3 DEF MutateRegister
    <3>6. CASE OnException(t)
      BY <3>6 DEF OnException, Goto, serverVars
    <3>7. CASE OnExceptionSaveTid(t)
      BY <3>7, CtxUpdate DEF OnExceptionSaveTid, Goto, serverVars, ThreadId
    <3>8. CASE OnExceptionSaveCtx(t)
      BY <3>8, CtxUpdate DEF OnExceptionSaveCtx, Goto, serverVars, ThreadId
    <3>9. CASE OnExceptionSaveRecord(t)
      BY <3>9, CtxUpdate DEF OnExceptionSaveRecord, Goto, serverVars, ThreadId
    <3>10. CASE OnExceptionExit(t)
      BY <3>10 DEF OnExceptionExit, serverVars
    <3>11. CASE AppExit(t)
      BY <3>11 DEF AppExit, serverVars
    <3>12. QED
      BY <2>2, <3>1, <3>2, <3>3, <3>4, <3>5, <3>6, <3>7, <3>8, <3>9, <3>10, <3>11
      DEF ThreadStep
  <2>3. CASE OnExitBegin
    BY <2>3 DEF OnExitBegin, serverVars
  <2>4. CASE OnExitDump
    BY <2>4, DumpRecord DEF OnExitDump
  <2>5. CASE OnExitCoverage
    BY <2>5 DEF OnExitCoverage
  <2>6. CASE OnExitClose
    BY <2>6 DEF OnExitClose, serverVars
  <2>7. CASE OnExceptionWhileExiting
    BY <2>7 DEF OnExceptionWhileExiting, serverVars
  <2>8. CASE Terminated \/ UNCHANGED vars
    BY <2>8 DEF Terminated, vars
  <2>9. QED
    BY <2>1, <2>2, <2>3, <2>4, <2>5, <2>6, <2>7, <2>8 DEF Next
<1>3. QED
  BY <1>1, <1>2, PTL DEF Spec

-----------------------------------------------------------------------------
(* The strengthening of ArenaContract.  ArenaContract alone is not         *)
(* inductive: it says nothing about where on_dr_exit is, so it does not    *)
(* exclude a state about to register the arena a second time.  ArenaInv    *)
(* ties the arena's registration to the exit handler's position: the arena *)
(* is registered exactly when on_dr_exit is past its coverage step in a    *)
(* coverage-guided run, and the handler has not begun before the process   *)
(* runs.                                                                   *)
ArenaInv ==
  /\ coverage_queries = arena_registered
  /\ arena_registered = (IF exitPc = "close" /\ coverage_guided THEN 1 ELSE 0)
  /\ coverage_guided => arena_requested
  /\ phase \in {"init", "running"} => exitPc = "begin"
  /\ phase = "terminated" => exitPc = "close"

LEMMA ArenaInvInductive == TypeOK /\ ArenaInv /\ [Next]_vars => ArenaInv'
<1> SUFFICES ASSUME TypeOK, ArenaInv, [Next]_vars PROVE ArenaInv'
  OBVIOUS
<1> USE DEF ArenaInv
<1>1. CASE ClientMain
  BY <1>1 DEF ClientMain
<1>2. ASSUME NEW t \in Threads, ThreadStep(t) PROVE ArenaInv'
  <2>1. CASE WrapPostGeneric(t) \/ WrapPostMapViewOfFile(t)
    BY <2>1 DEF WrapPostGeneric, WrapPostMapViewOfFile, PostHook, serverVars
  <2>2. CASE MutateReadCount(t) \/ MutateWriteCount(t)
    BY <2>2 DEF MutateReadCount, MutateWriteCount, serverVars
  <2>3. CASE MutateRegister(t)
    BY <2>3 DEF MutateRegister
  <2>4. CASE OnException(t) \/ OnExceptionSaveTid(t) \/ OnExceptionSaveCtx(t)
             \/ OnExceptionSaveRecord(t)
    BY <2>4 DEF OnException, OnExceptionSaveTid, OnExceptionSaveCtx,
                OnExceptionSaveRecord, serverVars
  <2>5. CASE OnExceptionExit(t) \/ AppExit(t)
    BY <2>5 DEF OnExceptionExit, AppExit, serverVars
  <2>6. QED
    BY <1>2, <2>1, <2>2, <2>3, <2>4, <2>5 DEF ThreadStep
<1>3. CASE OnExitBegin
  BY <1>3 DEF OnExitBegin, serverVars
<1>4. CASE OnExitDump
  BY <1>4 DEF OnExitDump
<1>5. CASE OnExitCoverage
  BY <1>5 DEF OnExitCoverage, TypeOK
<1>6. CASE OnExitClose
  BY <1>6 DEF OnExitClose, serverVars
<1>7. CASE OnExceptionWhileExiting
  BY <1>7 DEF OnExceptionWhileExiting, serverVars
<1>8. CASE Terminated \/ UNCHANGED vars
  BY <1>8 DEF Terminated, vars
<1>9. QED
  BY <1>1, <1>2, <1>3, <1>4, <1>5, <1>6, <1>7, <1>8 DEF Next

(* The arena contract of dr_client_main and on_dr_exit holds in every run, *)
(* for any number of threads: the arena is registered and scored at most   *)
(* once, only in a coverage-guided run whose arena was requested, and      *)
(* exactly once in such a run that terminates.                             *)
THEOREM ArenaContractHolds == Spec => []ArenaContract
<1>1. Init => ArenaInv
  BY DEF Init, ArenaInv
<1>2. ArenaInv => ArenaContract
  BY DEF ArenaInv, ArenaContract
<1>3. QED
  BY <1>1, <1>2, ArenaInvInductive, TypeCorrect, PTL DEF Spec

-----------------------------------------------------------------------------
(* The strengthening of DumpOnlyAfterCapture: crashed is only ever set by  *)
(* on_exception capturing a fault, so while it is set some fault was       *)
(* captured, and on_dr_exit only dumps while it is set.                    *)
CaptureInv ==
  /\ crashed => faulted # {}
  /\ DumpOnlyAfterCapture

LEMMA CaptureInvInductive == TypeOK /\ CaptureInv /\ [Next]_vars => CaptureInv'
<1> SUFFICES ASSUME TypeOK, CaptureInv, [Next]_vars PROVE CaptureInv'
  OBVIOUS
<1> USE DEF CaptureInv, DumpOnlyAfterCapture
<1>1. CASE ClientMain
  BY <1>1 DEF ClientMain
<1>2. ASSUME NEW t \in Threads, ThreadStep(t) PROVE CaptureInv'
  <2>1. CASE WrapPostGeneric(t) \/ WrapPostMapViewOfFile(t)
    BY <2>1 DEF WrapPostGeneric, WrapPostMapViewOfFile, PostHook, serverVars
  <2>2. CASE MutateReadCount(t) \/ MutateWriteCount(t)
    BY <2>2 DEF MutateReadCount, MutateWriteCount, serverVars
  <2>3. CASE MutateRegister(t)
    BY <2>3 DEF MutateRegister
  <2>4. CASE OnException(t)
    BY <2>4 DEF OnException, serverVars
  <2>5. CASE OnExceptionSaveTid(t) \/ OnExceptionSaveCtx(t) \/ OnExceptionSaveRecord(t)
    BY <2>5 DEF OnExceptionSaveTid, OnExceptionSaveCtx, OnExceptionSaveRecord, serverVars
  <2>6. CASE OnExceptionExit(t) \/ AppExit(t)
    BY <2>6 DEF OnExceptionExit, AppExit, serverVars
  <2>7. QED
    BY <1>2, <2>1, <2>2, <2>3, <2>4, <2>5, <2>6 DEF ThreadStep
<1>3. CASE OnExitBegin
  BY <1>3 DEF OnExitBegin, serverVars
<1>4. CASE OnExitDump
  BY <1>4 DEF OnExitDump
<1>5. CASE OnExitCoverage
  BY <1>5 DEF OnExitCoverage
<1>6. CASE OnExitClose
  BY <1>6 DEF OnExitClose, serverVars
<1>7. CASE OnExceptionWhileExiting
  BY <1>7 DEF OnExceptionWhileExiting, serverVars
<1>8. CASE Terminated \/ UNCHANGED vars
  BY <1>8 DEF Terminated, vars
<1>9. QED
  BY <1>1, <1>2, <1>3, <1>4, <1>5, <1>6, <1>7, <1>8 DEF Next

(* For any number of threads, on_dr_exit attempts a crash dump only in a   *)
(* run where on_exception captured a fault: a failed mutation or a normal  *)
(* exit never leaves a crash artefact.                                     *)
THEOREM DumpOnlyAfterCaptureHolds == Spec => []DumpOnlyAfterCapture
<1>1. Init => CaptureInv
  BY DEF Init, CaptureInv, DumpOnlyAfterCapture
<1>2. QED
  BY <1>1, CaptureInvInductive, TypeCorrect, PTL DEF Spec, CaptureInv

=============================================================================
