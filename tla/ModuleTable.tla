----------------------------- MODULE ModuleTable -----------------------------
(***************************************************************************)
(* The module table of src/fuzzer/fuzzer.cpp as shared memory: the array  *)
(* seen_modules and its count nmodules, written by on_module_load and      *)
(* scanned by get_base_pc, with no lock on either side.                    *)
(*                                                                         *)
(* A module-load event runs on the thread that maps the module: under the  *)
(* loader lock one at a time, or several at once when the parallel loader  *)
(* maps dependencies on worker threads (Serialized = FALSE).  Basic blocks *)
(* are built, and get_base_pc called, on any thread at any time.           *)
(*                                                                         *)
(*   if (nmodules < SL2_MAX_MODULES - 1 && ...)                            *)
(*     seen_modules[nmodules++] = dr_copy_module_data(mod);                *)
(*                                                                         *)
(* is a read of nmodules for the check, a second read for the index, a     *)
(* store into the slot and a store of the incremented count.  The two     *)
(* stores are unsequenced and racy, so the build may make either visible   *)
(* first.  The copy of the module data touches no shared state.            *)
(***************************************************************************)
EXTENDS Naturals

CONSTANTS
  Loads,       \* module instances, each loaded by its own loading thread
  Excluded,    \* the system and instrumentation DLLs on_module_load skips
  Readers,     \* threads building basic blocks
  MaxModules,  \* SL2_MAX_MODULES: the length of seen_modules
  NULL,        \* an empty slot of the zero-initialised static array
  Serialized   \* TRUE when the loader lock serialises module-load events

(* The constants are used with Excluded \subseteq Loads, NULL \notin     *)
(* Loads, MaxModules \in Nat \ {0} and Serialized \in BOOLEAN.           *)

Slots == 0 .. (MaxModules - 1)

VARIABLES
  slots,     \* seen_modules
  nmodules,  \* nmodules
  lpc,       \* lpc[m]: where the load of m is
  lidx,      \* lidx[m]: the index the load of m read
  pending,   \* pending[m]: the stores of the load of m not yet visible
  oob,       \* loads whose store fell past the end of seen_modules
  rpc,       \* rpc[r]: "idle", "scan" or "done"
  target,    \* target[r]: the module of the block reader r is building
  ri,        \* ri[r]: the loop index i of get_base_pc
  nullRead   \* readers that dereferenced an empty slot

vars == <<slots, nmodules, lpc, lidx, pending, oob, rpc, target, ri, nullRead>>

loadVars == <<slots, nmodules, lpc, lidx, pending, oob>>
readVars == <<rpc, target, ri, nullRead>>

Mapped == {m \in Loads : lpc[m] # "unmapped"}

InFlight == {m \in Loads : lpc[m] \notin {"unmapped", "done", "skipped"}}

\* The module is mapped and its load event starts (under the loader lock
\* when no other load is in flight).
MapModule(m) ==
  /\ lpc[m] = "unmapped"
  /\ Serialized => InFlight = {}
  /\ lpc' = [lpc EXCEPT ![m] = "check"]
  /\ UNCHANGED <<slots, nmodules, lidx, pending, oob>> /\ UNCHANGED readVars

\* nmodules < SL2_MAX_MODULES - 1 and the path filters.
CheckCapacity(m) ==
  /\ lpc[m] = "check"
  /\ lpc' = [lpc EXCEPT ![m] =
               IF nmodules < MaxModules - 1 /\ m \notin Excluded THEN "index" ELSE "skipped"]
  /\ UNCHANGED <<slots, nmodules, lidx, pending, oob>> /\ UNCHANGED readVars

\* nmodules++ reads the count that indexes the slot.
ReadIndex(m) ==
  /\ lpc[m] = "index"
  /\ lidx' = [lidx EXCEPT ![m] = nmodules]
  /\ pending' = [pending EXCEPT ![m] = {"slot", "count"}]
  /\ lpc' = [lpc EXCEPT ![m] = "store"]
  /\ UNCHANGED <<slots, nmodules, oob>> /\ UNCHANGED readVars

\* Ends the load event once both stores are visible.
Finish(m, left) ==
  /\ pending' = [pending EXCEPT ![m] = left]
  /\ lpc' = [lpc EXCEPT ![m] = IF left = {} THEN "done" ELSE "store"]

\* seen_modules[i] = copy: past the end of the array it corrupts memory.
StoreSlot(m) ==
  /\ lpc[m] = "store" /\ "slot" \in pending[m]
  /\ IF lidx[m] \in Slots
       THEN slots' = [slots EXCEPT ![lidx[m]] = m] /\ UNCHANGED oob
       ELSE oob' = oob \cup {m} /\ UNCHANGED slots
  /\ Finish(m, pending[m] \ {"slot"})
  /\ UNCHANGED <<nmodules, lidx>> /\ UNCHANGED readVars

\* nmodules = i + 1, from the value read, whatever other loads did since.
StoreCount(m) ==
  /\ lpc[m] = "store" /\ "count" \in pending[m]
  /\ nmodules' = lidx[m] + 1
  /\ Finish(m, pending[m] \ {"count"})
  /\ UNCHANGED <<slots, lidx, oob>> /\ UNCHANGED readVars

-----------------------------------------------------------------------------
\* on_bb_instrument calls get_base_pc for a block of a mapped module.
StartLookup(r, m) ==
  /\ rpc[r] = "idle" /\ m \in Mapped
  /\ rpc' = [rpc EXCEPT ![r] = "scan"]
  /\ target' = [target EXCEPT ![r] = m]
  /\ ri' = [ri EXCEPT ![r] = 0]
  /\ UNCHANGED nullRead /\ UNCHANGED loadVars

(* One iteration of get_base_pc's loop: i < nmodules re-reads the count;  *)
(* dr_module_contains_addr dereferences the slot, which faults the client  *)
(* when the slot is still empty.  Memory past the array is not modelled:   *)
(* the scan stops there.                                                   *)
ScanStep(r) ==
  /\ rpc[r] = "scan"
  /\ LET i == ri[r] IN
     IF i < nmodules /\ i \in Slots
       THEN IF slots[i] = NULL
              THEN /\ nullRead' = nullRead \cup {r}
                   /\ rpc' = [rpc EXCEPT ![r] = "done"]
                   /\ UNCHANGED ri
              ELSE /\ rpc' = [rpc EXCEPT ![r] = IF slots[i] = target[r] THEN "done" ELSE "scan"]
                   /\ ri' = [ri EXCEPT ![r] = i + 1]
                   /\ UNCHANGED nullRead
       ELSE /\ rpc' = [rpc EXCEPT ![r] = "done"]
            /\ UNCHANGED <<ri, nullRead>>
  /\ UNCHANGED target /\ UNCHANGED loadVars

\* Every load has completed and no lookup is under way.
Quiescent ==
  /\ \A m \in Loads : lpc[m] \in {"done", "skipped"}
  /\ \A r \in Readers : rpc[r] # "scan"
  /\ UNCHANGED vars

Init ==
  /\ slots = [i \in Slots |-> NULL]
  /\ nmodules = 0
  /\ lpc = [m \in Loads |-> "unmapped"]
  /\ lidx = [m \in Loads |-> 0]
  /\ pending = [m \in Loads |-> {}]
  /\ oob = {}
  /\ rpc = [r \in Readers |-> "idle"]
  /\ target = [r \in Readers |-> CHOOSE m \in Loads : TRUE]
  /\ ri = [r \in Readers |-> 0]
  /\ nullRead = {}

Next ==
  \/ \E m \in Loads :
       MapModule(m) \/ CheckCapacity(m) \/ ReadIndex(m) \/ StoreSlot(m) \/ StoreCount(m)
  \/ \E r \in Readers : ScanStep(r) \/ \E m \in Loads : StartLookup(r, m)
  \/ Quiescent

Spec == Init /\ [][Next]_vars

-----------------------------------------------------------------------------
(* on_module_load never writes past the end of seen_modules: a module     *)
(* beyond the capacity is dropped (spec section 4.1), however many         *)
(* module-load events run at once (section 5).                             *)
SlotsInBounds == oob = {}

(* Every module whose load event decided to record it is in the table,   *)
(* below nmodules, once the event is over, also when load events run at   *)
(* once (spec section 5): only a full table drops a record (section 4.1). *)
NoLostRecord ==
  \A m \in Loads :
    (lpc[m] = "done" /\ m \notin oob) => \E i \in Slots : i < nmodules /\ slots[i] = m

(* get_base_pc never dereferences an empty slot: every slot below the     *)
(* nmodules it reads already holds a module copy.                          *)
NoNullRead == nullRead = {}

=============================================================================
