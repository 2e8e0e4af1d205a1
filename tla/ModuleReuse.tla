----------------------------- MODULE ModuleReuse -----------------------------
(***************************************************************************)
(* ModuleMap with modules unloaded by the target.  fuzzer.cpp registers no *)
(* module-unload event: the copy recorded in seen_modules stays, while     *)
(* DynamoRIO drops the unloaded range's code from its cache, and the       *)
(* loader may map another module into the freed range.                     *)
(***************************************************************************)
EXTENDS ModuleMap

(* The target unloads m: its blocks leave the code cache; seen_modules is  *)
(* left as it is, since the client has no handler for the event.           *)
ModuleUnload(m) ==
  /\ m \in live
  /\ live' = live \ {m}
  /\ cache' = [a \in Addr |-> IF a \in AddrRange(m) THEN NoBlock ELSE cache[a]]
  /\ UNCHANGED <<seen_modules, arena, hits, nexec>>

NextReuse == Next \/ \E m \in Mods : ModuleUnload(m)

SpecReuse == Init /\ [][NextReuse]_vars

=============================================================================
