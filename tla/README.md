# TLA+ verification of the fuzzer client (src/fuzzer/fuzzer.cpp)

The fuzzer is a DynamoRIO client. It runs inside the target process. It intercepts the
target's input calls (ReadFile, registry reads, MapViewOfFile, ...), mutates their output
buffers, reports every mutation to a control server, captures the first exception, writes a
minidump at exit, and, in coverage-guided runs, counts basic-block executions in a shared
"arena" that is merged and scored by the server at exit.

## Inventory of the code

| Part | Code | State | Operations |
|---|---|---|---|
| Run session | `dr_client_main` 645-721, `on_dr_exit` 130-198 | `crashed`, `exiting`, `coverage_guided`, server connection | start-up checks and aborts; exit: dump, arena registration and scoring, teardown |
| Mutation engine | `wrap_post_Generic` 405-446, `wrap_post_MapViewOfFile` 452-505, `mutate` 205-237 | `mut_count` (uint32) | post-call hook; counter allocation; register mutation; exit on failure |
| Crash capture | `on_exception` 102-128 | `fuzz_exception_ctx` | capture on any thread; abort if already exiting |
| Target call filter | `on_module_load` 520-641 | pre-hook table, parsed target list | choose which functions to wrap per loaded module |
| Module map | `on_module_load` 509-518, `get_base_pc` 48-67 | `seen_modules[]`, `nmodules` | record non-system modules up to a capacity; first-match lookup |
| Coverage arena | `on_bb_instrument` 74-100 | `arena.map` (bytes) | compute offset, plant an 8-bit increment |

Interactions: all hooks run on the target's own threads, concurrently, and share the globals
`crashed`, `exiting`, `mut_count`, `fuzz_exception_ctx` without a lock. Any thread may end the
run (`dr_exit_process` on a fault or a failed mutation, or the target's own exit); DynamoRIO then
suspends the other threads and runs `on_dr_exit`, which reads what the hooks left behind.
Module loads feed both the hook selection and the module map that the instrumentation reads.

## Modules

* **FuzzerSession** — run session, mutation engine, crash capture.
  Variables: `phase` (init/running/exit/terminated/aborted), `exitPc` (position in
  `on_dr_exit`), `pc[t]` (position of thread t inside a hook), the globals under their own
  names, `tmp[t]` (the value of `mut_count` thread t read), and the server's view
  (`registered`, `arena_requested`, `arena_registered`, `coverage_queries`, `dump`).
  `faulted` is a history variable (threads whose fault was captured); `ncalls` bounds the calls.
  Every separate access of the code to shared state is its own step: `mut_count++` is
  `MutateReadCount` then `MutateWriteCount`; the three field copies of `on_exception` are
  `OnExceptionSaveTid/Ctx/Record`. Buffers, lengths and mutation strategies are abstracted away.
  `PostHook` models the uninitialised `info` on the `goto cleanup` path (lines 408-445) as a
  nondeterministic choice between a harmless cleanup and a client fault that kills the process.
* **HookSelect** — the pre-hook table and the loop over the target list (603-620), written
  as a recursive function over the list so that the module stays provable. `SpecTargeted`
  is the spec's filter (section 4.3), used only by the properties.
* **ModuleMap** — module loads with the exclusion filter and the capacity check, `get_base_pc`,
  the offset computation `(pc - base) & (FUZZ_ARENA_SIZE-1)` stored in a uint16, and the
  planted byte increment wrapping at 256. `hits` is a history counting executions at the
  spec's offset (`SpecOffset`) in the block's true module, independent of the code's offset.
* **ModuleReuse** — ModuleMap plus module unloads, which the client does not handle (only a
  module-load event is registered, line 720).
* **ModuleTable** — `seen_modules` and `nmodules` as shared memory. The one statement
  `seen_modules[nmodules++] = ...` (516) becomes the capacity check (510-513), a read of the
  index, and two racy stores, the slot and the count. The build may make either store visible
  first. Each module-load event runs on its own loading thread (`lpc[m]`). Readers run
  `get_base_pc`'s loop one iteration at a time (`ScanStep`, 51-56), re-reading `nmodules`.
  `Serialized` is a setting of the environment, not a lock the code takes. With `FALSE`, load
  events run concurrently, as spec section 5 allows for every callback. `TRUE` delivers one
  load event at a time, and is used only to show that the NULL read needs no second loader.
* **CallLength** — the byte count `mutate` is handed by the two post hooks. `GenericLength` is
  the clamp of 422-426, which applies only when the pre-hook set `lpNumberOfBytesRead`.
  `MapViewLength` is the `dwNumberOfBytesToMap = 0` case of 469-474, which uses the
  page-rounded `RegionSize`. A failed map has no file name and is not mutated (479-484).
  Each record keeps the requested length, the bytes produced and the length given.
* **CrashCapture** — the abstract crash lifecycle, which is not code. The stage is Running,
  Exiting, Terminated or Killed. The capture latch is Armed, Captured, Reported or
  FatalDoubleFault. The latch never goes back.
* **CaptureRefinement** — the refinement mapping from FuzzerSession onto CrashCapture.
  `AbsStage` is read off `phase`. `AbsCapture` is read off `crashed`, the dump attempt, and
  an abort while `exiting`. `CaptureRefinement == CC!FairSpec` is the property.
* **MCFuzzerSession, MCHookSelect, MCModuleMap, MCModuleTable** — constants and symmetry for TLC.

## Runs

| Run | Config | Expect | Shows |
|---|---|---|---|
| session_single | FuzzerSession_single.cfg | pass | 1 thread, 3 calls, fair: TypeOK, CrashReported, DumpMatchesFault, and CaptureRefinement (the session implements CrashCapture's FairSpec) |
| session_threads | FuzzerSession_threads.cfg | pass | 2 threads, 2 calls, fair: DumpOnlyAfterCapture, ArenaContract, CaptureEndsRun |
| session_race_ids | FuzzerSession_race_MutationIdsUnique.cfg | violation | two concurrent `mut_count++` give one id twice |
| session_race_crash_lost | FuzzerSession_race_CrashReported.cfg | violation | failed mutation on t1 clears `crashed` set by t2's fault: no dump |
| session_race_torn_dump | FuzzerSession_race_DumpMatchesFault.cfg | violation | exit on another thread dumps a half-copied context |
| hooks | HookSelect.cfg | pass | no untargeted function is ever wrapped |
| coverage | ModuleMap.cfg | pass | arena cells count exactly the tracked executions; system code invisible (proved for all constants, including the 8-bit wrap, in ModuleMapProofs) |
| module_reuse | ModuleReuse.cfg | violation | a stale record makes a system DLL at a reused address visible |
| module_table_lost | ModuleTable_lost.cfg | violation | two concurrent load events read one `nmodules` and store into one slot: a record is lost (NoLostRecord) |
| module_table_overflow | ModuleTable_overflow.cfg | violation | three concurrent loads pass the check of a 2-slot table and the last stores past the end (SlotsInBounds) |
| module_table_null | ModuleTable_null.cfg | violation | a reader sees the new `nmodules` before the slot store and dereferences NULL |
| call_length_nullcount | CallLength_nullcount.cfg | violation | with `lpNumberOfBytesRead` NULL, a short read is mutated over the full request |

Bounds. Two threads are the smallest number for every race found. Three (single) or
two (threads) calls let a thread mutate, fault and exit, and let two mutations overlap.
The arena has two cells, so blocks of different modules collide in a cell. Module layouts
have a module of several blocks, a second module after it and an excluded one. The 8-bit
wrap of a cell needs 256 executions, beyond a useful run; `ArenaCountsVisitsHolds` proves
it for every number of executions. A target list of two entries covers both entry orders
and the Generic+variant combinations. Symmetry over threads is used only in the safety-only
violation runs; the liveness runs do without it. ModuleTable's runs are violations only:
two loads are the fewest that lose a record, and three loads into a table of capacity 2
(one usable slot under the check `nmodules < SL2_MAX_MODULES - 1`) the fewest that write
past it. With pages of 2 bytes and lengths up to 3, CallLength lets a read produce fewer
bytes than it requested.

The refinement is checked with one target thread. With two threads, a failed mutation on
one thread clears `crashed` for the other, so the latch goes back from Captured to Armed
and the refinement fails. This is the same code path as finding 2.

Fairness. `FairSpec` has weak fairness for each thread's steps inside a hook (a hook, once
entered, runs to its end: nothing in it waits, and the server call either answers or fails)
and for the exit handler's steps. The target's own choices (calling, faulting, exiting)
carry no fairness: a target may run forever without exiting. Deadlock is checked: the only
terminal states (terminated/aborted, all calls used) have the `Terminated`/`Done`/`AllLoaded`
stutter steps, which represent a process that is gone or a target that has stopped calling.

Assumption. Once a thread calls `dr_exit_process` (or the target exits), the other threads
take no further step before `on_dr_exit`. This is DynamoRIO's documented behaviour of
suspending all threads at process exit. A fault inside `on_dr_exit` is `OnExceptionWhileExiting`.

## Findings

1. `mut_count++` (line 212) is not atomic: two threads can register two mutations under one id.
2. `crashed = false` on a failed mutation (line 430) can erase another thread's captured crash.
3. `fuzz_exception_ctx` is filled field by field without a lock (lines 114-120): the dump can
   mix threads or be empty.
4. No unload handler: stale `seen_modules` records attribute later code at a reused address.
5. `get_base_pc` (52) can pass a NULL slot to `dr_module_contains_addr`. The two stores of
   `seen_modules[nmodules++]` are unordered and the scan takes no lock, so this can happen
   even with one load event at a time.
6. `seen_modules[nmodules++]` (516) takes no lock: two concurrent load events read one
   `nmodules`, store into one slot, and one module's record is lost (spec 4.1 drops records
   only at capacity; spec 5 allows concurrent callbacks).
7. The capacity check (510) and the index read are separate unlocked reads: concurrent loads
   near capacity all pass it and the last writes past the end of `seen_modules`.
8. The length clamp (424) needs `lpNumberOfBytesRead`. Without it, a short read is mutated
   past the bytes produced, which diverges from spec section 4.3.

Each finding is the counterexample of a violation run: `session_race_ids`,
`session_race_crash_lost`, `session_race_torn_dump`, `module_reuse`, `module_table_null`,
`module_table_lost`, `module_table_overflow` and `call_length_nullcount`.

## Proofs (checked by tlapm)

### FuzzerSessionProofs

* `TypeCorrect`: `Spec => []TypeOK`, for every set of threads and every `MaxCalls`. It uses the
  lemmas `CtxUpdate`, `DumpRecord` and `EmptyCtxType`, which say the context and the dump stay typed.
* `ArenaContractHolds`: `Spec => []ArenaContract`. ArenaContract alone is not inductive,
  because it does not say where `on_dr_exit` is. The inductive `ArenaInv` ties
  `arena_registered` to `exitPc = "close" /\ coverage_guided`, and `exitPc` to the phase.
  TLC checked it first as an invariant.
* `DumpOnlyAfterCaptureHolds`: `Spec => []DumpOnlyAfterCapture`. The inductive `CaptureInv`
  adds `crashed => faulted # {}`: only `on_exception` sets `crashed`.

### CaptureRefinementProofs

* `SessionRefinesCapture`: if `Threads = {t0}`, then `Spec => CaptureSafety`, the safety part
  of `CC!Spec`. It holds for every `MaxCalls`. The argument is the standard one:
  * `Init` maps to `CC!Init`.
  * Every step maps to a step of CrashCapture or to a stutter (lemma `RefStep`).
  * Both facts rest on the inductive `TypeOK /\ RefInv` (lemma `RefInvInductive`).

  `RefInv` has three parts:
  * A set `crashed` flag belongs to the only thread, which stays inside `on_exception`
    until the process exits.
  * A dump exists exactly when a crashed run is past the dump step of `on_dr_exit`.
  * Nothing of `on_dr_exit` has happened while the process runs.

  With two threads the first part is false, and so is the theorem.

### ModuleMapProofs

* `MapTypeCorrect`, `ArenaCountsVisitsHolds` and `ExcludedInvisibleHolds` are
  `Spec => []TypeOK`, `[]ArenaCountsVisits` and `[]ExcludedInvisible` of ModuleMap. They hold
  for every layout of modules, every capacity and every arena size up to 65536.
* They rest on the inductive `MapInv`, which adds four facts to the two properties:
  * live modules are disjoint;
  * every record is of a live, non-excluded module;
  * a built block lies in a live module;
  * a block of module m carries an increment exactly when m is recorded, and then at
    `SpecOffset`.
* The lemmas:
  * `LeastElement` gives the least index, via `WFMin` on `<` over Nat.
  * `GetBasePcSpec` says `get_base_pc` finds a record containing the address, or returns NULL.
  * `OffsetFits`: the uint16 truncation is the identity when the arena is at most 65536.
  * `ByteWrap` and `ByteStays` cover the 8-bit wrap.
  * `SameOwner`: disjointness makes the first match the true owner.

### SessionSingleProofs

This module covers the two crash-report invariants that hold only for a single-threaded
target. Each theorem has the hypothesis `Threads = {t0}`, the case of the session_single run.
With two threads each is false: see runs session_race_crash_lost and session_race_torn_dump.
The hypothesis is therefore the content of the result, not a convenience.

* `CrashReportedHolds` and `DumpMatchesFaultHolds`: `Spec => []CrashReported` and
  `[]DumpMatchesFault`. They rest on the inductive `CrashInv` (lemma `CrashStep`):
  * a captured thread stays in `on_exception` (`Capturing`);
  * `crashed` holds exactly when a fault was captured;
  * the fields of `fuzz_exception_ctx` are written in the order of the thread's program points;
  * in the exit phase, a set `crashed` means the thread stopped at `dr_exit_process` after
    all three copies;
  * a dump exists once `on_dr_exit` is past its dump step of a crashed run, and it holds the
    thread's complete context.

  With one thread, the only thread that can clear `crashed` is the one that set it, which can
  no longer be in `mutate`.
* Lemma `SingleInvariant` gives `Spec => [](TypeOK /\ CrashInv(t0))`; TLC checked the
  conjunction first as an invariant.

### HookSelectProofs

* `WrappedOnlyIfTargetedHolds`: `Spec => []WrappedOnlyIfTargeted`. It holds for every target
  list up to `MaxTargets`, every hook table and every order of module loads.
* The loop result `Hook(fn)` is a recursive function over the list index. TLAPS knows it only
  as a CHOOSE of a solution of its defining equation `LoopEq`, so the proof has two parts:
  * `ClosedSolves` exhibits a solution, `Closed`: some iteration set `hook`, and no later one
    cleared it. TLC checked that `Closed` solves the equation and equals `Hook`.
  * `HookSelected` argues about any solution. The least index whose value is TRUE without a
    selected entry of fn before it cannot exist: its iteration neither sets nor clears, so its
    predecessor would be a smaller such index. The least index comes from `WFMin`, lemma
    `LeastIndex`, not from an induction scheme.
* `HookInv`, "wrapped functions are in the pre-hook table and selected by the loop", is
  inductive because the list and the registry option never change after start-up.

### What stays with TLC

The proofs use these assumptions of the modules they prove about: `ThreadsAssumption`,
`MaxCallsAssumption`, `HookAssumption` and `ModuleMapAssumption`. The last includes that
`ArenaSize` is a power of two, which makes the code's mask `& (FUZZ_ARENA_SIZE-1)` equal to the
remainder `%` the model uses.

Only TLC checks the following:
* Liveness: `CaptureEndsRun`, and the fair part of `CaptureRefinement`. Liveness under
  fairness and ENABLED are out of the prover's reach.
* The multi-thread behaviour of the session invariants above, ModuleTable's concurrent loads
  and CallLength's missing clamp. These are violations, shown by their runs.
* ModuleReuse (a stale record after an unload), which is a violation run.

Every invariant that a passing run checks has a theorem.

## Not modelled

* Buffer contents and mutation strategies (`do_mutation`, in SL2Client).
* How CallLength's lengths feed FuzzerSession's mutations. CallLength is separate because
  lengths do not interact with the races FuzzerSession is about.
* Concurrent arena increments, which lose updates. The design accepts this.
* Memory past the end of `seen_modules`. ModuleTable stops at the write (`oob`).
* HookSelect is checked for safety only (nothing untargeted is wrapped). Whether every selected
  function gets wrapped depends on the order of the target list for the registry variants
  (611-620), and no property of the project states it.
* Wrap of `mut_count` after 2^32 mutations, which is out of reach of any run.
* Code outside src/: SL2Client, the server, the `wrap_pre_*` forwarders, the __fastfail and
  Application Verifier wrappers, and option parsing and logging.

## Plan for later sittings

1. Compose HookSelect's decision into the session, so that a call is mutated iff its
   function is wrapped.
2. Look for action properties of the session that a reviewer would argue about, and prove
   them from `SingleInv` or `ArenaInv`.
3. Add the fix the findings call for (a lock around the capacity check and the store of
   `seen_modules[nmodules++]`) as a variant of ModuleTable, and check it against the
   atomic `OnModuleLoad` of ModuleMap by a refinement.
