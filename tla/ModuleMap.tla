------------------------------ MODULE ModuleMap ------------------------------
(***************************************************************************)
(* The module map and the coverage arena of src/fuzzer/fuzzer.cpp:         *)
(* on_module_load records a copy of every module outside the system        *)
(* directory and DynamoRIO's own DLLs while fewer than SL2_MAX_MODULES - 1 *)
(* are recorded; on_bb_instrument resolves a basic block's address to the  *)
(* first recorded module containing it (get_base_pc) and plants an 8-bit   *)
(* increment of the arena cell (address - base) & (FUZZ_ARENA_SIZE - 1);   *)
(* every later execution of the block runs that increment.                 *)
(*                                                                         *)
(* A module instance is a model value with a fixed address range; the      *)
(* loader only maps a module where no live module is.  Concurrent          *)
(* increments may lose updates, which the design accepts, so executions    *)
(* are modelled one at a time.                                             *)
(***************************************************************************)
EXTENDS Integers, Sequences, FiniteSets

CONSTANTS
  Mods,        \* module instances (model values)
  Base,        \* Base[m]: start address of m
  Size,        \* Size[m]: length of m's address range
  Excluded,    \* modules under C:\Windows\ or DynamoRIO's and the client's DLLs
  MaxModules,  \* SL2_MAX_MODULES
  ArenaSize,   \* FUZZ_ARENA_SIZE, a power of two
  CellMod,     \* 2^8: an arena cell is one byte
  MaxExec      \* bound on block executions

ASSUME ModuleMapAssumption ==
  /\ Base \in [Mods -> Nat \ {0}] /\ Size \in [Mods -> Nat \ {0}]
  /\ Excluded \subseteq Mods
  /\ MaxModules \in Nat \ {0}
  /\ ArenaSize \in Nat \ {0} /\ ArenaSize <= 65536
  /\ ArenaSize \in {2^k : k \in 0..16}
  /\ CellMod = 256
  /\ MaxExec \in Nat

AddrRange(m) == Base[m] .. (Base[m] + Size[m] - 1)

Addr == UNION {AddrRange(m) : m \in Mods}

Offsets == 0 .. (ArenaSize - 1)

\* The NULL get_base_pc returns when no recorded module contains an address;
\* no module is mapped at the zero page.
NULL == 0

\* A block not yet instrumented, and one instrumented without an increment.
NoBlock == -2
Untracked == -1

VARIABLES
  live,          \* modules currently mapped
  seen_modules,  \* the recorded module copies, in load order
  cache,         \* cache[a]: the arena offset planted in block a's code
  arena,         \* arena.map
  hits,          \* history: executions of tracked blocks, per true offset
  nexec          \* block executions so far

vars == <<live, seen_modules, cache, arena, hits, nexec>>

\* Variants of the offset: the base not subtracted, the mask left out.
ArenaOffsetNoBase(a, base) == (a % ArenaSize) % 65536

ArenaOffsetNoMask(a, base) == (a - base) % 65536

\* The arena offset of address a in a module starting at base: the uint16_t
\* offset = (start_pc - base_pc) & (FUZZ_ARENA_SIZE - 1), which is the
\* remainder modulo FUZZ_ARENA_SIZE since that size is a power of two.
ArenaOffset(a, base) == ((a - base) % ArenaSize) % 65536

(* get_base_pc: the base of the first recorded module containing a, or     *)
(* NULL when none does.                                                    *)
GetBasePc(a) ==
  LET idx == {i \in 1..Len(seen_modules) : a \in AddrRange(seen_modules[i])}
  IN IF idx = {} THEN NULL
     ELSE Base[seen_modules[CHOOSE i \in idx : \A j \in idx : i <= j]]

\* The spec's arena offset of a in module m: (address - module_base) mod ARENA_SIZE.
SpecOffset(a, m) == (a - Base[m]) % ArenaSize

\* The live module a belongs to.
Owner(a) == CHOOSE m \in live : a \in AddrRange(m)

Recorded == {seen_modules[i] : i \in 1..Len(seen_modules)}

\* Variant of on_module_load that records excluded modules too.
OnModuleLoadNoFilter(m) ==
  /\ m \notin live
  /\ \A n \in live : AddrRange(n) \cap AddrRange(m) = {}
  /\ live' = live \cup {m}
  /\ seen_modules' = IF Len(seen_modules) < MaxModules - 1
                       THEN Append(seen_modules, m)
                       ELSE seen_modules
  /\ UNCHANGED <<cache, arena, hits, nexec>>

(* on_module_load for module m mapped by the loader: a copy is recorded    *)
(* when m is not excluded and nmodules < SL2_MAX_MODULES - 1.              *)
OnModuleLoad(m) ==
  /\ m \notin live
  /\ \A n \in live : AddrRange(n) \cap AddrRange(m) = {}
  /\ live' = live \cup {m}
  /\ seen_modules' = IF Len(seen_modules) < MaxModules - 1 /\ m \notin Excluded
                       THEN Append(seen_modules, m)
                       ELSE seen_modules
  /\ UNCHANGED <<cache, arena, hits, nexec>>

(* on_bb_instrument for the block at a, the first time it is built: no     *)
(* increment when get_base_pc finds no module, else one of its offset.     *)
OnBBInstrument(a) ==
  /\ \E m \in live : a \in AddrRange(m)
  /\ cache[a] = NoBlock
  /\ cache' = [cache EXCEPT ![a] =
                 LET base == GetBasePc(a) IN
                 IF base = NULL THEN Untracked ELSE ArenaOffset(a, base)]
  /\ UNCHANGED <<live, seen_modules, arena, hits, nexec>>

\* Variant whose increment saturates at 255 instead of wrapping.
ExecuteBlockSaturating(a) ==
  /\ nexec < MaxExec
  /\ \E m \in live : a \in AddrRange(m)
  /\ cache[a] # NoBlock
  /\ nexec' = nexec + 1
  /\ arena' = IF cache[a] = Untracked THEN arena
              ELSE [arena EXCEPT ![cache[a]] = IF @ = CellMod - 1 THEN @ ELSE @ + 1]
  /\ hits' = IF Owner(a) \in Recorded
               THEN [hits EXCEPT ![SpecOffset(a, Owner(a))] = @ + 1]
               ELSE hits
  /\ UNCHANGED <<live, seen_modules, cache>>

(* The block at a runs: the planted inc byte ptr [arena.map + offset], if  *)
(* any, wraps at 256.  The history counts the execution at the spec's      *)
(* offset in its true module when that module is recorded.                 *)
ExecuteBlock(a) ==
  /\ nexec < MaxExec
  /\ \E m \in live : a \in AddrRange(m)
  /\ cache[a] # NoBlock
  /\ nexec' = nexec + 1
  /\ arena' = IF cache[a] = Untracked THEN arena
              ELSE [arena EXCEPT ![cache[a]] = (@ + 1) % CellMod]
  /\ hits' = IF Owner(a) \in Recorded
               THEN [hits EXCEPT ![SpecOffset(a, Owner(a))] = @ + 1]
               ELSE hits
  /\ UNCHANGED <<live, seen_modules, cache>>

Init ==
  /\ live = {}
  /\ seen_modules = <<>>
  /\ cache = [a \in Addr |-> NoBlock]
  /\ arena = [o \in Offsets |-> 0]
  /\ hits = [o \in Offsets |-> 0]
  /\ nexec = 0

\* The target has run as long as the model lets it.
Done ==
  /\ nexec = MaxExec
  /\ UNCHANGED vars

Next ==
  \/ \E m \in Mods : OnModuleLoad(m)
  \/ \E a \in Addr : OnBBInstrument(a) \/ ExecuteBlock(a)
  \/ Done

Spec == Init /\ [][Next]_vars

-----------------------------------------------------------------------------
TypeOK ==
  /\ live \subseteq Mods
  /\ seen_modules \in Seq(Mods)
  /\ cache \in [Addr -> Offsets \cup {NoBlock, Untracked}]
  /\ arena \in [Offsets -> 0 .. (CellMod - 1)]
  /\ hits \in [Offsets -> Nat]
  /\ nexec \in Nat

(* Every arena cell holds, modulo 256, the number of executions of blocks  *)
(* of recorded modules whose offset from their own module's base maps to   *)
(* that cell: get_base_pc's first match, the offset mask and the 8-bit     *)
(* wrap together count each execution once, in the right cell.             *)
ArenaCountsVisits == \A o \in Offsets : arena[o] = hits[o] % CellMod

(* Code of an excluded module (system or instrumentation DLL) never        *)
(* reaches the arena: no block of it carries an increment.                 *)
ExcludedInvisible ==
  \A a \in Addr :
    (\E m \in live \cap Excluded : a \in AddrRange(m)) => cache[a] \in {NoBlock, Untracked}

=============================================================================
