---------------------------- MODULE FuzzerSession ----------------------------
(***************************************************************************)
(* The run session of the fuzzer client (src/fuzzer/fuzzer.cpp): start-up  *)
(* (dr_client_main), the post-call hooks that mutate a targeted call's     *)
(* buffer (wrap_post_Generic, wrap_post_MapViewOfFile, mutate), crash      *)
(* capture (on_exception) and exit handling (on_dr_exit).                  *)
(*                                                                         *)
(* The hooks run on the target's own threads and share the globals         *)
(* crashed, exiting, mut_count and fuzz_exception_ctx without any lock, so *)
(* every access to them that the code makes separately is a step of its    *)
(* own.  mut_count++ is a read followed by a write.  Once a thread calls   *)
(* dr_exit_process, DynamoRIO suspends the other threads and runs the exit *)
(* event: the other threads take no further step.                          *)
(*                                                                         *)
(* The control server is represented by what it has been told: the         *)
(* mutation counters registered, the arena registrations, the coverage     *)
(* queries and the crash dump written from the captured context.           *)
(***************************************************************************)
EXTENDS Naturals, Sequences, Functions

CONSTANTS
  Threads,   \* the target's threads (model values)
  NoThread,  \* the zero thread id of a fuzz_exception_ctx never written
  MaxCalls   \* bound on the intercepted calls of a run

ASSUME ThreadsAssumption == Threads # {} /\ NoThread \notin Threads
ASSUME MaxCallsAssumption == MaxCalls \in Nat

VARIABLES
  phase,            \* "init", "running", "exit", "terminated", "aborted"
  exitPc,           \* where on_dr_exit is: "begin", "dump", "cov", "close"
  pc,               \* pc[t]: where thread t is in a hook, "app" outside them
  crashed,          \* static bool crashed
  exiting,          \* static bool exiting
  mut_count,        \* static uint32_t mut_count
  tmp,              \* tmp[t]: the value of mut_count thread t read
  coverage_guided,  \* static bool coverage_guided
  fuzz_exception_ctx, \* [thread_id, thread_ctx, record]: whose state each holds
  ncalls,           \* intercepted calls so far (bounded by MaxCalls)
  faulted,          \* history: threads whose exception on_exception captured
  registered,       \* server: counters of the registered mutations, in order
  arena_requested,  \* server: sl2_conn_request_arena was called
  arena_registered, \* server: number of sl2_conn_register_arena calls
  coverage_queries, \* server: number of sl2_conn_get_coverage calls
  dump              \* [status: "none", "failed", "written"; ctx: what it holds]

vars == <<phase, exitPc, pc, crashed, exiting, mut_count, tmp, coverage_guided,
          fuzz_exception_ctx, ncalls, faulted, registered, arena_requested,
          arena_registered, coverage_queries, dump>>

serverVars == <<registered, arena_requested, arena_registered, coverage_queries, dump>>

ThreadId == Threads \cup {NoThread}

CrashCtx == [thread_id : ThreadId, thread_ctx : ThreadId, record : ThreadId]

\* What the server holds of the crash dump of a run.
DumpState == [status : {"none", "failed", "written"}, ctx : CrashCtx]

\* The zero-initialised static sl2_exception_ctx.
EmptyCtx == [thread_id |-> NoThread, thread_ctx |-> NoThread, record |-> NoThread]

ThreadPc == {"app", "m_read", "m_write", "m_reg", "e_tid", "e_ctx", "e_rec", "e_exit"}

-----------------------------------------------------------------------------
(* dr_client_main: the start-up checks abort the process on a missing      *)
(* target file or run id, unloadable targets or no server connection;      *)
(* otherwise the run id and pid are registered and coverage is enabled     *)
(* when an arena id was given and -n was not.                              *)
ClientMain ==
  /\ phase = "init"
  /\ \E targetGiven, runIdGiven, targetsLoaded, connOpened, arenaGiven, noCoverage \in BOOLEAN :
       IF targetGiven /\ runIdGiven /\ targetsLoaded /\ connOpened
         THEN /\ phase' = "running"
              /\ coverage_guided' = (arenaGiven /\ ~noCoverage)
              /\ arena_requested' = coverage_guided'
         ELSE /\ phase' = "aborted"
              /\ UNCHANGED <<coverage_guided, arena_requested>>
  /\ UNCHANGED <<exitPc, pc, crashed, exiting, mut_count, tmp, fuzz_exception_ctx,
                 ncalls, faulted, registered, arena_registered, coverage_queries, dump>>

Goto(t, from, to) == pc[t] = from /\ pc' = [pc EXCEPT ![t] = to]

(* The post-call hook's prologue, shared by both hooks: is_sane_post_hook  *)
(* failing jumps to cleanup past the initialisation of info, so cleanup    *)
(* reads an uninitialised pointer: either it happens to be harmless or the *)
(* client faults and DynamoRIO kills the process.  Otherwise a call that   *)
(* is not to be mutated ends, and one that is enters mutate.               *)
PostHook(t, mutated) ==
  /\ phase = "running"
  /\ ncalls < MaxCalls
  /\ ncalls' = ncalls + 1
  /\ \/ /\ pc[t] = "app"
        /\ \/ UNCHANGED <<phase, pc>>       \* not sane, harmless; or not mutated
           \/ phase' = "aborted" /\ UNCHANGED pc  \* not sane, client fault
     \/ /\ mutated
        /\ Goto(t, "app", "m_read")
        /\ UNCHANGED phase
  /\ UNCHANGED <<exitPc, crashed, exiting, mut_count, tmp, coverage_guided,
                 fuzz_exception_ctx, faulted, serverVars>>

(* wrap_post_Generic: the call is mutated iff it is targeted; its length   *)
(* is clamped to the bytes read, which changes no state modelled here.     *)
WrapPostGeneric(t) ==
  \E targeted \in BOOLEAN : PostHook(t, targeted)

(* wrap_post_MapViewOfFile: the call is mutated iff the mapped file's name *)
(* was found and the call is targeted.                                     *)
WrapPostMapViewOfFile(t) ==
  \E fileNameFound, targeted \in BOOLEAN : PostHook(t, fileNameFound /\ targeted)

(* mutate: mut_count++ in the initialiser of the sl2_mutation is an        *)
(* unsynchronised read of the counter ...                                  *)
MutateReadCount(t) ==
  /\ phase = "running"
  /\ Goto(t, "m_read", "m_write")
  /\ tmp' = [tmp EXCEPT ![t] = mut_count]
  /\ UNCHANGED <<phase, exitPc, crashed, exiting, mut_count, coverage_guided,
                 fuzz_exception_ctx, ncalls, faulted, serverVars>>

\* Variant of the write of mut_count that decrements it.
MutateWriteCountDec(t) ==
  /\ phase = "running"
  /\ Goto(t, "m_write", "m_reg")
  /\ mut_count' = tmp[t] - 1
  /\ UNCHANGED <<phase, exitPc, crashed, exiting, tmp, coverage_guided,
                 fuzz_exception_ctx, ncalls, faulted, serverVars>>

(* ... and a write of the value read plus one.                             *)
MutateWriteCount(t) ==
  /\ phase = "running"
  /\ Goto(t, "m_write", "m_reg")
  /\ mut_count' = tmp[t] + 1
  /\ UNCHANGED <<phase, exitPc, crashed, exiting, tmp, coverage_guided,
                 fuzz_exception_ctx, ncalls, faulted, serverVars>>

(* mutate, continued: the mutation (advised by the server when coverage    *)
(* guided) is applied and registered under the counter value read.  When   *)
(* the server refuses it, the post hook sets crashed = false and exits the *)
(* process.                                                                *)
MutateRegister(t) ==
  /\ phase = "running"
  /\ pc[t] = "m_reg"
  /\ \/ /\ registered' = Append(registered, tmp[t])
        /\ pc' = [pc EXCEPT ![t] = "app"]
        /\ UNCHANGED <<phase, crashed>>
     \/ /\ crashed' = FALSE
        /\ phase' = "exit"
        /\ UNCHANGED <<pc, registered>>
  /\ UNCHANGED <<exitPc, exiting, mut_count, tmp, coverage_guided, fuzz_exception_ctx,
                 ncalls, faulted, arena_requested, arena_registered, coverage_queries, dump>>

\* Variant of on_exception that forgets to set crashed.
OnExceptionNoFlag(t) ==
  /\ phase = "running"
  /\ ~exiting
  /\ Goto(t, "app", "e_tid")
  /\ faulted' = faulted \cup {t}
  /\ UNCHANGED <<phase, exitPc, crashed, exiting, mut_count, tmp, coverage_guided,
                 fuzz_exception_ctx, ncalls, serverVars>>

(* on_exception while the process runs: exiting is false, so crashed is    *)
(* set and the capture of the context begins.                              *)
OnException(t) ==
  /\ phase = "running"
  /\ ~exiting
  /\ Goto(t, "app", "e_tid")
  /\ crashed' = TRUE
  /\ faulted' = faulted \cup {t}
  /\ UNCHANGED <<phase, exitPc, exiting, mut_count, tmp, coverage_guided,
                 fuzz_exception_ctx, ncalls, serverVars>>

\* fuzz_exception_ctx.thread_id = GetCurrentThreadId()
OnExceptionSaveTid(t) ==
  /\ phase = "running"
  /\ Goto(t, "e_tid", "e_ctx")
  /\ fuzz_exception_ctx' = [fuzz_exception_ctx EXCEPT !.thread_id = t]
  /\ UNCHANGED <<phase, exitPc, crashed, exiting, mut_count, tmp, coverage_guided,
                 ncalls, faulted, serverVars>>

\* dr_mcontext_to_context(&fuzz_exception_ctx.thread_ctx, excpt->mcontext)
OnExceptionSaveCtx(t) ==
  /\ phase = "running"
  /\ Goto(t, "e_ctx", "e_rec")
  /\ fuzz_exception_ctx' = [fuzz_exception_ctx EXCEPT !.thread_ctx = t]
  /\ UNCHANGED <<phase, exitPc, crashed, exiting, mut_count, tmp, coverage_guided,
                 ncalls, faulted, serverVars>>

\* Variant without the copy of the exception record.
OnExceptionSaveRecordNoCopy(t) ==
  /\ phase = "running"
  /\ Goto(t, "e_rec", "e_exit")
  /\ UNCHANGED <<phase, exitPc, crashed, exiting, mut_count, tmp, coverage_guided,
                 fuzz_exception_ctx, ncalls, faulted, serverVars>>

\* memcpy(&fuzz_exception_ctx.record, excpt->record, ...)
OnExceptionSaveRecord(t) ==
  /\ phase = "running"
  /\ Goto(t, "e_rec", "e_exit")
  /\ fuzz_exception_ctx' = [fuzz_exception_ctx EXCEPT !.record = t]
  /\ UNCHANGED <<phase, exitPc, crashed, exiting, mut_count, tmp, coverage_guided,
                 ncalls, faulted, serverVars>>

\* Variant that returns to the target instead of exiting the process.
OnExceptionExitResume(t) ==
  /\ phase = "running"
  /\ Goto(t, "e_exit", "app")
  /\ UNCHANGED <<phase, exitPc, crashed, exiting, mut_count, tmp, coverage_guided,
                 fuzz_exception_ctx, ncalls, faulted, serverVars>>

\* The exception is logged and dr_exit_process(1) is called.
OnExceptionExit(t) ==
  /\ phase = "running"
  /\ pc[t] = "e_exit"
  /\ phase' = "exit"
  /\ UNCHANGED <<exitPc, pc, crashed, exiting, mut_count, tmp, coverage_guided,
                 fuzz_exception_ctx, ncalls, faulted, serverVars>>

\* The target exits on its own: DynamoRIO runs the exit event.
AppExit(t) ==
  /\ phase = "running"
  /\ pc[t] = "app"
  /\ phase' = "exit"
  /\ UNCHANGED <<exitPc, pc, crashed, exiting, mut_count, tmp, coverage_guided,
                 fuzz_exception_ctx, ncalls, faulted, serverVars>>

-----------------------------------------------------------------------------
\* on_dr_exit: exiting = true.
OnExitBegin ==
  /\ phase = "exit"
  /\ exitPc = "begin"
  /\ exiting' = TRUE
  /\ exitPc' = "dump"
  /\ UNCHANGED <<phase, pc, crashed, mut_count, tmp, coverage_guided,
                 fuzz_exception_ctx, ncalls, faulted, serverVars>>

\* Variant of the dump step that does not test crashed.
OnExitDumpAlways ==
  /\ phase = "exit"
  /\ exitPc = "dump"
  /\ exitPc' = "cov"
  /\ \E written \in BOOLEAN :
       dump' = [status |-> IF written THEN "written" ELSE "failed",
                ctx |-> fuzz_exception_ctx]
  /\ UNCHANGED <<phase, pc, crashed, exiting, mut_count, tmp, coverage_guided,
                 fuzz_exception_ctx, ncalls, faulted, registered, arena_requested,
                 arena_registered, coverage_queries>>

(* on_dr_exit, if crashed: the dump paths are requested and a minidump of  *)
(* fuzz_exception_ctx is written; a file that cannot be created or a write *)
(* that fails is logged and teardown goes on.                              *)
OnExitDump ==
  /\ phase = "exit"
  /\ exitPc = "dump"
  /\ exitPc' = "cov"
  /\ IF crashed
       THEN \E written \in BOOLEAN :
              dump' = [status |-> IF written THEN "written" ELSE "failed",
                       ctx |-> fuzz_exception_ctx]
       ELSE UNCHANGED dump
  /\ UNCHANGED <<phase, pc, crashed, exiting, mut_count, tmp, coverage_guided,
                 fuzz_exception_ctx, ncalls, faulted, registered, arena_requested,
                 arena_registered, coverage_queries>>

\* Variant of the coverage step that does not test coverage_guided.
OnExitCoverageAlways ==
  /\ phase = "exit"
  /\ exitPc = "cov"
  /\ exitPc' = "close"
  /\ arena_registered' = arena_registered + 1
  /\ coverage_queries' = coverage_queries + 1
  /\ UNCHANGED <<phase, pc, crashed, exiting, mut_count, tmp, coverage_guided,
                 fuzz_exception_ctx, ncalls, faulted, registered, arena_requested, dump>>

\* on_dr_exit, if coverage_guided: the arena is registered and scored.
OnExitCoverage ==
  /\ phase = "exit"
  /\ exitPc = "cov"
  /\ exitPc' = "close"
  /\ IF coverage_guided
       THEN /\ arena_registered' = arena_registered + 1
            /\ coverage_queries' = coverage_queries + 1
       ELSE UNCHANGED <<arena_registered, coverage_queries>>
  /\ UNCHANGED <<phase, pc, crashed, exiting, mut_count, tmp, coverage_guided,
                 fuzz_exception_ctx, ncalls, faulted, registered, arena_requested, dump>>

\* on_dr_exit: the connection is closed and the module copies freed.
OnExitClose ==
  /\ phase = "exit"
  /\ exitPc = "close"
  /\ phase' = "terminated"
  /\ UNCHANGED <<exitPc, pc, crashed, exiting, mut_count, tmp, coverage_guided,
                 fuzz_exception_ctx, ncalls, faulted, serverVars>>

(* on_exception while exiting: a fault inside the exit handler (in the     *)
(* minidump write or after it) is taken for an instrumentation failure and *)
(* dr_abort() ends the process at once.                                    *)
OnExceptionWhileExiting ==
  /\ phase = "exit"
  /\ exiting
  /\ phase' = "aborted"
  /\ UNCHANGED <<exitPc, pc, crashed, exiting, mut_count, tmp, coverage_guided,
                 fuzz_exception_ctx, ncalls, faulted, serverVars>>

\* The process is gone: nothing happens any more.
Terminated ==
  /\ phase \in {"terminated", "aborted"}
  /\ UNCHANGED vars

-----------------------------------------------------------------------------
Init ==
  /\ phase = "init"
  /\ exitPc = "begin"
  /\ pc = [t \in Threads |-> "app"]
  /\ crashed = FALSE
  /\ exiting = FALSE
  /\ mut_count = 0
  /\ tmp = [t \in Threads |-> 0]
  /\ coverage_guided = FALSE
  /\ fuzz_exception_ctx = EmptyCtx
  /\ ncalls = 0
  /\ faulted = {}
  /\ registered = <<>>
  /\ arena_requested = FALSE
  /\ arena_registered = 0
  /\ coverage_queries = 0
  /\ dump = [status |-> "none", ctx |-> EmptyCtx]

ThreadStep(t) ==
  \/ WrapPostGeneric(t)
  \/ WrapPostMapViewOfFile(t)
  \/ MutateReadCount(t)
  \/ MutateWriteCount(t)
  \/ MutateRegister(t)
  \/ OnException(t)
  \/ OnExceptionSaveTid(t)
  \/ OnExceptionSaveCtx(t)
  \/ OnExceptionSaveRecord(t)
  \/ OnExceptionExit(t)
  \/ AppExit(t)

Next ==
  \/ ClientMain
  \/ \E t \in Threads : ThreadStep(t)
  \/ OnExitBegin
  \/ OnExitDump
  \/ OnExitCoverage
  \/ OnExitClose
  \/ OnExceptionWhileExiting
  \/ Terminated

Spec == Init /\ [][Next]_vars

(* The steps a hook takes once it has begun: none of them waits on         *)
(* anything but the server's answer, which the transport delivers or fails.*)
HookSteps(t) ==
  \/ MutateReadCount(t)
  \/ MutateWriteCount(t)
  \/ MutateRegister(t)
  \/ OnExceptionSaveTid(t)
  \/ OnExceptionSaveCtx(t)
  \/ OnExceptionSaveRecord(t)
  \/ OnExceptionExit(t)

ExitSteps == OnExitBegin \/ OnExitDump \/ OnExitCoverage \/ OnExitClose

(* A thread inside a hook, and the thread running the exit event, keep     *)
(* being scheduled; whether the target calls, faults or exits is its own   *)
(* choice and carries no fairness.                                         *)
FairSpec ==
  /\ Spec
  /\ \A t \in Threads : WF_vars(HookSteps(t))
  /\ WF_vars(ExitSteps)

-----------------------------------------------------------------------------
TypeOK ==
  /\ phase \in {"init", "running", "exit", "terminated", "aborted"}
  /\ exitPc \in {"begin", "dump", "cov", "close"}
  /\ pc \in [Threads -> ThreadPc]
  /\ crashed \in BOOLEAN
  /\ exiting \in BOOLEAN
  /\ mut_count \in Nat
  /\ tmp \in [Threads -> Nat]
  /\ coverage_guided \in BOOLEAN
  /\ fuzz_exception_ctx \in CrashCtx
  /\ ncalls \in Nat
  /\ faulted \subseteq Threads
  /\ registered \in Seq(Nat)
  /\ arena_requested \in BOOLEAN
  /\ arena_registered \in Nat
  /\ coverage_queries \in Nat
  /\ dump \in DumpState

(* Every mutation registered with the server carries its own counter value *)
(* (mutate's mut_count++ is the only allocation of mutation ids): the      *)
(* server never sees two mutations of a run under one id.                  *)
MutationIdsUnique == IsInjective(registered)

(* A crash that on_exception captured is always dumped: when the exit      *)
(* handler has run to its end and some thread's exception was captured,    *)
(* on_dr_exit made a dump attempt.                                         *)
CrashReported ==
  (phase = "terminated" /\ faulted # {}) => dump.status # "none"

(* The minidump on_dr_exit writes describes one captured exception: its    *)
(* thread id, register context and exception record all come from the     *)
(* same faulting thread.                                                   *)
DumpMatchesFault ==
  dump.status = "written" =>
    /\ dump.ctx.thread_id \in faulted
    /\ dump.ctx.thread_ctx = dump.ctx.thread_id
    /\ dump.ctx.record = dump.ctx.thread_id

(* on_dr_exit tries to write a dump only when an exception was captured   *)
(* in this run: a run that ends by a failed mutation or a normal exit      *)
(* leaves no crash artefact.                                               *)
DumpOnlyAfterCapture == dump.status # "none" => faulted # {}

(* A captured exception ends the run: once on_exception has begun to save  *)
(* a thread's context, the process eventually terminates or aborts, and    *)
(* the target never runs on past the fault.                                *)
CaptureEndsRun ==
  \A t \in Threads : pc[t] = "e_tid" ~> phase \in {"terminated", "aborted"}

(* The arena contract of on_dr_exit and dr_client_main: the arena is       *)
(* registered and scored only in coverage-guided runs whose arena was      *)
(* requested at start-up, at most once, scored only after it was           *)
(* registered, and exactly once in a coverage-guided run that terminated.  *)
ArenaContract ==
  /\ arena_registered <= 1
  /\ coverage_queries = arena_registered
  /\ arena_registered = 1 => coverage_guided /\ arena_requested
  /\ (phase = "terminated" /\ coverage_guided) => arena_registered = 1

=============================================================================
