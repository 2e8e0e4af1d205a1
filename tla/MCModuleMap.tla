---------------------------- MODULE MCModuleMap ----------------------------
(* Address layouts for ModuleMap and ModuleReuse.  Layout: the target exe  *)
(* at 1..3, a DLL at 4..5 and a system DLL at 6; with an arena of 2 cells  *)
(* blocks of both tracked modules collide in the arena.                    *)
EXTENDS ModuleReuse

MCBase == [m \in Mods |-> CASE m = "exe" -> 1 [] m = "dll" -> 4 [] m = "sys" -> 6]
MCSize == [m \in Mods |-> CASE m = "exe" -> 3 [] m = "dll" -> 2 [] m = "sys" -> 1]

(* Reuse layout: a system DLL mapped where the DLL was after it unloads.   *)
ReuseBase == [m \in Mods |-> CASE m = "dll" -> 1 [] m = "sys" -> 1]
ReuseSize == [m \in Mods |-> CASE m = "dll" -> 2 [] m = "sys" -> 1]

=============================================================================
