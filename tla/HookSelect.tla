----------------------------- MODULE HookSelect -----------------------------
(***************************************************************************)
(* Which intercepted functions on_module_load wraps (src/fuzzer/fuzzer.cpp *)
(* lines 509-642): for every function of the pre-hook table that lives in  *)
(* the module just loaded, the loop over the parsed target list decides    *)
(* whether to wrap it.  The registry variants RegQueryValueExW/A are in    *)
(* the table only with the registry option, and the loop has a special     *)
(* case for them and for the logical name RegQueryValueEx.                 *)
(*                                                                         *)
(* The target list is read once at start-up and never changes; the        *)
(* modules are loaded one at a time in any order.                          *)
(***************************************************************************)
EXTENDS Naturals, Sequences

CONSTANTS
  HookNames,      \* functions with a pre-hook in the table
  RegistryHooks,  \* RegQueryValueExW and RegQueryValueExA
  Generic,        \* the logical name "RegQueryValueEx"
  Mods,           \* modules that export hooked functions
  ModuleOf,       \* ModuleOf[f]: the module function_is_in_expected_module wants
  MaxTargets      \* bound on the length of the target list

ASSUME HookAssumption ==
  /\ RegistryHooks \subseteq HookNames
  /\ Generic \notin HookNames
  /\ ModuleOf \in [HookNames -> Mods]
  /\ MaxTargets \in Nat

\* A targetFunction of client.parsedJson.
Descriptor == [functionName : HookNames \cup {Generic}, selected : BOOLEAN]

TargetLists == UNION {[1..n -> Descriptor] : n \in 0..MaxTargets}

VARIABLES
  targets,   \* client.parsedJson
  registry,  \* op_registry
  loaded,    \* modules whose load event has run
  wrapped    \* functions drwrap_wrap has wrapped

vars == <<targets, registry, loaded, wrapped>>

\* The pre-hook table built in on_module_load.
PreHooks == IF registry THEN HookNames ELSE HookNames \ RegistryHooks

\* Variant of the loop that matches an entry by name whether selected or not.
HookIgnoringSelected(fn) ==
  LET h[i \in 0..Len(targets)] ==
        IF i = 0 THEN FALSE
        ELSE LET t == targets[i] IN
             IF t.functionName = fn THEN TRUE
             ELSE IF t.selected /\ fn \in RegistryHooks /\ t.functionName # Generic
                  THEN FALSE
                  ELSE h[i - 1]
  IN h[Len(targets)]

(* The loop over parsedJson deciding hook for function_name fn: a selected *)
(* entry of that name sets it, and for a registry variant any selected     *)
(* entry of another name except RegQueryValueEx clears it again.           *)
Hook(fn) ==
  LET h[i \in 0..Len(targets)] ==
        IF i = 0 THEN FALSE
        ELSE LET t == targets[i] IN
             IF t.selected /\ t.functionName = fn THEN TRUE
             ELSE IF t.selected /\ fn \in RegistryHooks /\ t.functionName # Generic
                  THEN FALSE
                  ELSE h[i - 1]
  IN h[Len(targets)]

(* on_module_load for module m: every pre-hooked function m is expected to *)
(* export and the loop selects is wrapped (drwrap_wrap of a function       *)
(* already wrapped fails and changes nothing).                             *)
OnModuleLoad(m) ==
  /\ m \notin loaded
  /\ loaded' = loaded \cup {m}
  /\ wrapped' = wrapped \cup {fn \in PreHooks : ModuleOf[fn] = m /\ Hook(fn)}
  /\ UNCHANGED <<targets, registry>>

\* Every module has loaded.
AllLoaded ==
  /\ loaded = Mods
  /\ UNCHANGED vars

Init ==
  /\ targets \in TargetLists
  /\ registry \in BOOLEAN
  /\ loaded = {}
  /\ wrapped = {}

Next == (\E m \in Mods : OnModuleLoad(m)) \/ AllLoaded

Spec == Init /\ [][Next]_vars

-----------------------------------------------------------------------------
\* The target list names fn in a selected entry.
Selected(fn) == \E i \in DOMAIN targets : targets[i].selected /\ targets[i].functionName = fn

(* The target call filter as the spec states it: a function is targeted if *)
(* it is selected, and a registry variant also when the logical name is    *)
(* selected and its sibling variant is not selected explicitly.            *)
SpecTargeted(fn) ==
  \/ Selected(fn)
  \/ /\ fn \in RegistryHooks
     /\ Selected(Generic)
     /\ \A g \in RegistryHooks \ {fn} : ~Selected(g)

(* A function is wrapped only if the target list targets it, and a         *)
(* registry variant only with the registry option: on_module_load never    *)
(* hooks a function nobody selected, whatever the order of the list.       *)
WrappedOnlyIfTargeted ==
  \A fn \in wrapped :
    /\ SpecTargeted(fn)
    /\ fn \in RegistryHooks => registry

=============================================================================
