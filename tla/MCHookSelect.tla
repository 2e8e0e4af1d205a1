---------------------------- MODULE MCHookSelect ----------------------------
(* HookSelect on a file-read primitive and the two registry variants,      *)
(* exported by two modules, with target lists of up to MaxTargets entries. *)
EXTENDS HookSelect

MCHookNames == {"ReadFile", "RegQueryValueExW", "RegQueryValueExA"}
MCRegistryHooks == {"RegQueryValueExW", "RegQueryValueExA"}
MCMods == {"KERNEL32.DLL", "ADVAPI32.DLL"}
MCModuleOf == [fn \in MCHookNames |-> IF fn = "ReadFile" THEN "KERNEL32.DLL" ELSE "ADVAPI32.DLL"]

=============================================================================
