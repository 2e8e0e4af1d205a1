-------------------------- MODULE HookSelectProofs --------------------------
(***************************************************************************)
(* Proof that on_module_load wraps only the functions the target list     *)
(* selects, for every target list, hook table and module order.           *)
(*                                                                         *)
(* Hook(fn) is the value of the loop over parsedJson, written as a         *)
(* recursive function over the loop index.  TLAPS knows such a function    *)
(* only as a CHOOSE of a solution of its defining equation, so the proof   *)
(* first exhibits a solution (the loop's result in closed form) and then   *)
(* argues about any solution by a least counterexample on the index.       *)
(***************************************************************************)
EXTENDS HookSelect, WellFoundedInduction, TLAPS

\* Iteration i of the loop sets hook for fn ...
SetsHook(fn, i) == targets[i].selected /\ targets[i].functionName = fn

\* ... or clears it: a selected entry of another name, for a registry variant.
ClearsHook(fn, i) ==
  targets[i].selected /\ fn \in RegistryHooks /\ targets[i].functionName # Generic

\* The loop's defining equation, for a candidate h of the iterations' results.
LoopEq(fn, h) ==
  h = [i \in 0..Len(targets) |->
         IF i = 0 THEN FALSE
         ELSE LET t == targets[i] IN
              IF t.selected /\ t.functionName = fn THEN TRUE
              ELSE IF t.selected /\ fn \in RegistryHooks /\ t.functionName # Generic
                   THEN FALSE
                   ELSE h[i - 1]]

\* The function Hook's LET defines.
HookFn(fn) == CHOOSE h : LoopEq(fn, h)

(* The loop's result after i iterations in closed form: some iteration    *)
(* set hook and none after it cleared it.                                 *)
Closed(fn) ==
  [i \in 0..Len(targets) |->
     \E j \in 1..i : SetsHook(fn, j) /\ \A k \in j + 1..i : SetsHook(fn, k) \/ ~ClearsHook(fn, k)]

(* A function is wrapped only if the loop selected it and it is in the    *)
(* pre-hook table.                                                        *)
HookInv ==
  /\ targets \in TargetLists
  /\ wrapped \subseteq {fn \in PreHooks : Hook(fn)}

-----------------------------------------------------------------------------
\* A target list is a sequence of descriptors.
LEMMA TargetsSeq ==
  ASSUME targets \in TargetLists
  PROVE  /\ targets \in Seq(Descriptor)
         /\ Len(targets) \in Nat
         /\ DOMAIN targets = 1..Len(targets)
<1>1. PICK n \in 0..MaxTargets : targets \in [1..n -> Descriptor]
  BY DEF TargetLists
<1>2. n \in Nat
  BY HookAssumption
<1>3. QED
  BY <1>1, <1>2

\* A non-empty set of naturals has a least element.
LEMMA LeastIndex ==
  ASSUME NEW T \in SUBSET Nat, T # {}
  PROVE  \E k \in T : \A j \in T : k <= j
<1>1. IsWellFoundedOn(OpToRel(<, Nat), Nat)
  BY NatLessThanWellFounded
<1>2. PICK k \in T : \A j \in T : ~(<<j, k>> \in OpToRel(<, Nat))
  BY <1>1, WFMin, Zenon
<1>3. \A j \in T : ~(j < k)
  BY <1>2 DEF OpToRel
<1>4. QED
  BY <1>3

(* The closed form solves the loop's equation: at each iteration a        *)
(* selected entry of fn sets hook, a clearing entry resets it, and any    *)
(* other entry keeps the value of the iterations before.                  *)
LEMMA ClosedSolves ==
  ASSUME NEW fn, targets \in TargetLists
  PROVE  LoopEq(fn, Closed(fn))
<1> DEFINE c == Closed(fn)
           n == Len(targets)
<1>0. n \in Nat
  BY TargetsSeq
<1>1. ASSUME NEW i \in 0..n
      PROVE  c[i] = IF i = 0 THEN FALSE
                    ELSE IF SetsHook(fn, i) THEN TRUE
                    ELSE IF ClearsHook(fn, i) THEN FALSE
                    ELSE c[i - 1]
  <2>1. CASE i = 0
    BY <2>1 DEF Closed
  <2>2. CASE i # 0 /\ SetsHook(fn, i)
    <3>1. c[i]
      BY <2>2, <1>0 DEF Closed
    <3>2. QED
      BY <2>2, <3>1
  <2>3. CASE i # 0 /\ ~SetsHook(fn, i) /\ ClearsHook(fn, i)
    <3>1. c[i] = FALSE
      BY <2>3, <1>0 DEF Closed
    <3>2. QED
      BY <2>3, <3>1
  <2>4. CASE i # 0 /\ ~SetsHook(fn, i) /\ ~ClearsHook(fn, i)
    <3>1. i - 1 \in 0..n
      BY <2>4, <1>0
    <3>2. c[i] = \E j \in 1..i : SetsHook(fn, j) /\ \A k \in j + 1..i : SetsHook(fn, k) \/ ~ClearsHook(fn, k)
      BY DEF Closed
    <3>3. c[i - 1] = \E j \in 1..i - 1 : SetsHook(fn, j) /\ \A k \in j + 1..i - 1 : SetsHook(fn, k) \/ ~ClearsHook(fn, k)
      BY <3>1 DEF Closed
    <3>4. c[i] = c[i - 1]
      BY <2>4, <3>2, <3>3, <1>0
    <3>5. QED
      BY <2>4, <3>4
  <2>5. QED
    BY <2>1, <2>2, <2>3, <2>4
<1>2. c = [i \in 0..n |-> c[i]]
  BY DEF Closed
<1>3. QED
  BY <1>1, <1>2 DEF LoopEq, SetsHook, ClearsHook

(* The loop of on_module_load sets hook for fn only if some selected entry *)
(* of the target list names fn: a clearing entry never sets it, and the    *)
(* least iteration whose result is TRUE without such an entry before it    *)
(* cannot exist.                                                           *)
LEMMA HookSelected ==
  ASSUME NEW fn, targets \in TargetLists, Hook(fn)
  PROVE  Selected(fn)
<1> DEFINE h == HookFn(fn)
           n == Len(targets)
<1>0. n \in Nat /\ DOMAIN targets = 1..n
  BY TargetsSeq
<1>1. LoopEq(fn, h)
  BY ClosedSolves DEF HookFn
<1>2. h[n]
  BY DEF Hook, HookFn, LoopEq
<1> DEFINE T == {i \in 0..n : h[i] /\ ~\E j \in 1..i : SetsHook(fn, j)}
<1>3. T = {}
  <2> SUFFICES ASSUME T # {} PROVE FALSE
    OBVIOUS
  <2>0. T \in SUBSET Nat /\ T # {}
    BY <1>0
  <2>1. PICK k \in T : \A j \in T : k <= j
    BY <2>0, LeastIndex
  <2>2. k \in 0..n /\ h[k] /\ ~\E j \in 1..k : SetsHook(fn, j)
    BY <2>1
  <2>3. h[k] = IF k = 0 THEN FALSE
               ELSE IF SetsHook(fn, k) THEN TRUE
               ELSE IF ClearsHook(fn, k) THEN FALSE
               ELSE h[k - 1]
    BY <1>1, <2>2 DEF LoopEq, SetsHook, ClearsHook
  <2>4. k # 0
    BY <2>2, <2>3
  <2>5. ~SetsHook(fn, k)
    BY <2>2, <2>4, <1>0
  <2>6. ~ClearsHook(fn, k) /\ h[k - 1]
    BY <2>2, <2>3, <2>4, <2>5
  <2>7. k - 1 \in 0..n /\ ~\E j \in 1..k - 1 : SetsHook(fn, j)
    BY <2>2, <2>4, <1>0
  <2>8. k - 1 \in T
    BY <2>6, <2>7
  <2>9. QED
    BY <2>1, <2>8, <2>7, <1>0
<1>4. \E j \in 1..n : SetsHook(fn, j)
  BY <1>0, <1>2, <1>3
<1>5. QED
  BY <1>0, <1>4 DEF Selected, SetsHook

-----------------------------------------------------------------------------
(* HookInv holds in every state: the target list and the registry option  *)
(* never change after start-up, and a module load adds only the functions *)
(* of its pre-hook table that the loop selects.                           *)
LEMMA HookInvariant == Spec => []HookInv
<1>1. Init => HookInv
  BY DEF Init, HookInv
<1>2. HookInv /\ [Next]_vars => HookInv'
  <2> SUFFICES ASSUME HookInv, [Next]_vars PROVE HookInv'
    OBVIOUS
  <2>1. ASSUME NEW m \in Mods, OnModuleLoad(m) PROVE HookInv'
    <3>1. UNCHANGED <<targets, registry>>
      BY <2>1 DEF OnModuleLoad
    <3>2. {fn \in PreHooks : Hook(fn)}' = {fn \in PreHooks : Hook(fn)}
      BY <3>1 DEF PreHooks, Hook
    <3>3. QED
      BY <2>1, <3>1, <3>2 DEF OnModuleLoad, HookInv
  <2>2. CASE AllLoaded \/ UNCHANGED vars
    <3>1. UNCHANGED vars
      BY <2>2 DEF AllLoaded
    <3>2. {fn \in PreHooks : Hook(fn)}' = {fn \in PreHooks : Hook(fn)}
      BY <3>1 DEF vars, PreHooks, Hook
    <3>3. QED
      BY <3>1, <3>2 DEF vars, HookInv
  <2>3. QED
    BY <2>1, <2>2 DEF Next
<1>3. QED
  BY <1>1, <1>2, PTL DEF Spec

(* on_module_load wraps a function only if a selected entry of the target *)
(* list names it, and a registry variant only with the registry option,   *)
(* for every target list, hook table and order of module loads.           *)
THEOREM WrappedOnlyIfTargetedHolds == Spec => []WrappedOnlyIfTargeted
<1>1. HookInv => WrappedOnlyIfTargeted
  <2> SUFFICES ASSUME HookInv, NEW fn \in wrapped
               PROVE  SpecTargeted(fn) /\ (fn \in RegistryHooks => registry)
    BY DEF WrappedOnlyIfTargeted
  <2>1. fn \in PreHooks /\ Hook(fn) /\ targets \in TargetLists
    BY DEF HookInv
  <2>2. Selected(fn)
    BY <2>1, HookSelected
  <2>3. QED
    BY <2>1, <2>2 DEF SpecTargeted, PreHooks
<1>2. QED
  BY <1>1, HookInvariant, PTL

=============================================================================
