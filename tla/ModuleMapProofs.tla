--------------------------- MODULE ModuleMapProofs ---------------------------
(***************************************************************************)
(* Proofs about ModuleMap, for every layout of modules, every capacity    *)
(* and every arena size up to 65536: the module map and the planted       *)
(* increments keep system code out of the arena and make every cell count *)
(* its executions modulo 256.                                             *)
(***************************************************************************)
EXTENDS ModuleMap, WellFoundedInduction, TLAPS

\* The live modules occupy disjoint address ranges.
Disjoint ==
  \A m, n \in live : m # n => AddrRange(m) \cap AddrRange(n) = {}

(* The strengthening of ExcludedInvisible and ArenaCountsVisits.  The     *)
(* recorded copies are of live modules outside the excluded set; a block  *)
(* is built only in a live module; an instrumented block of module m      *)
(* carries an increment exactly when m was recorded, and then of the      *)
(* spec's offset of the block in m.  The arena part is the property       *)
(* itself.                                                                 *)
MapInv ==
  /\ TypeOK
  /\ Disjoint
  /\ \A i \in 1..Len(seen_modules) : seen_modules[i] \in live \ Excluded
  /\ \A a \in Addr : cache[a] # NoBlock => \E m \in live : a \in AddrRange(m)
  /\ \A m \in live : \A a \in AddrRange(m) :
       /\ cache[a] \in Offsets => m \in Recorded /\ cache[a] = SpecOffset(a, m)
       /\ cache[a] = Untracked => m \notin Recorded
  /\ ArenaCountsVisits

-----------------------------------------------------------------------------
\* A non-empty set of naturals has a least element.
LEMMA LeastElement ==
  ASSUME NEW T \in SUBSET Nat, T # {}
  PROVE  \E i \in T : \A j \in T : i <= j
<1>1. \E i \in T : \A j \in T : ~(<<j, i>> \in OpToRel(<, Nat))
  <2>1. IsWellFoundedOn(OpToRel(<, Nat), Nat)
    BY NatLessThanWellFounded
  <2>2. QED
    BY <2>1, WFMin, Zenon
<1>2. PICK i \in T : \A j \in T : ~(<<j, i>> \in OpToRel(<, Nat))
  BY <1>1
<1>3. ASSUME NEW j \in T PROVE i <= j
  <2>1. ~(<<j, i>> \in OpToRel(<, Nat))
    BY <1>2
  <2>2. ~(j < i)
    BY <2>1 DEF OpToRel
  <2>3. QED
    BY <2>2
<1>4. QED
  BY <1>3

(* get_base_pc returns the base of a recorded module containing the       *)
(* address when there is one, and NULL otherwise.                          *)
LEMMA GetBasePcSpec ==
  ASSUME seen_modules \in Seq(Mods), NEW a
  PROVE  /\ (\E i \in 1..Len(seen_modules) : a \in AddrRange(seen_modules[i]))
             => \E i \in 1..Len(seen_modules) :
                  a \in AddrRange(seen_modules[i]) /\ GetBasePc(a) = Base[seen_modules[i]]
         /\ (~\E i \in 1..Len(seen_modules) : a \in AddrRange(seen_modules[i]))
             => GetBasePc(a) = NULL
<1> DEFINE idx == {i \in 1..Len(seen_modules) : a \in AddrRange(seen_modules[i])}
<1>1. CASE idx # {}
  <2>0. idx \in SUBSET Nat
    OBVIOUS
  <2>1. \E i \in idx : \A j \in idx : i <= j
    BY <1>1, <2>0, LeastElement
  <2>2. (CHOOSE i \in idx : \A j \in idx : i <= j) \in idx
    BY <2>1
  <2>3. QED
    BY <1>1, <2>2 DEF GetBasePc
<1>2. CASE idx = {}
  BY <1>2 DEF GetBasePc
<1>3. QED
  BY <1>1, <1>2

(* The planted offset is an arena index, and the uint16_t truncation never *)
(* changes it while FUZZ_ARENA_SIZE is at most 65536.                      *)
LEMMA OffsetFits ==
  ASSUME NEW x \in Int
  PROVE  /\ x % ArenaSize \in Offsets
         /\ (x % ArenaSize) % 65536 = x % ArenaSize
BY ModuleMapAssumption DEF Offsets

\* One more execution keeps an 8-bit counter equal to the count modulo 256.
LEMMA ByteWrap ==
  ASSUME NEW h \in Nat
  PROVE  ((h % 256) + 1) % 256 = (h + 1) % 256
OBVIOUS

\* An 8-bit cell incremented with wrap-around stays a byte.
LEMMA ByteStays ==
  ASSUME NEW x \in 0 .. 255
  PROVE  (x + 1) % 256 \in 0 .. 255
OBVIOUS

\* Two live modules sharing an address are the same module.
LEMMA SameOwner ==
  ASSUME Disjoint, NEW m \in live, NEW n \in live, NEW a \in AddrRange(m), a \in AddrRange(n)
  PROVE  m = n
BY DEF Disjoint

-----------------------------------------------------------------------------
\* The module map and the arena start empty.
LEMMA MapInvInit == Init => MapInv
<1> SUFFICES ASSUME Init PROVE MapInv
  OBVIOUS
<1>1. TypeOK
  BY ModuleMapAssumption DEF Init, TypeOK, Offsets
<1>2. ArenaCountsVisits
  BY ModuleMapAssumption DEF Init, ArenaCountsVisits
<1>3. QED
  BY <1>1, <1>2 DEF Init, MapInv, Disjoint, Recorded, NoBlock, Untracked, Offsets

(* on_module_load: the loader maps m where nothing is mapped, so no block  *)
(* of m exists yet, and a copy it records is of a live, non-excluded       *)
(* module.                                                                 *)
LEMMA LoadStep ==
  ASSUME MapInv, NEW m \in Mods, OnModuleLoad(m)
  PROVE  MapInv'
<1> USE DEF MapInv
<1>1. /\ seen_modules' \in Seq(Mods)
      /\ Recorded \subseteq Recorded'
      /\ Recorded' \subseteq Recorded \cup {m}
      /\ \A i \in 1..Len(seen_modules') : seen_modules'[i] \in live' \ Excluded
  <2>1. CASE Len(seen_modules) < MaxModules - 1 /\ m \notin Excluded
    <3>1. seen_modules' = Append(seen_modules, m)
      BY <2>1 DEF OnModuleLoad
    <3>2. QED
      BY <3>1 DEF TypeOK, Recorded, OnModuleLoad
  <2>2. CASE ~(Len(seen_modules) < MaxModules - 1 /\ m \notin Excluded)
    BY <2>2 DEF TypeOK, Recorded, OnModuleLoad
  <2>3. QED
    BY <2>1, <2>2
<1>2. TypeOK'
  BY <1>1 DEF TypeOK, OnModuleLoad
<1>3. Disjoint'
  BY DEF Disjoint, OnModuleLoad
<1>4. \A a \in Addr : cache'[a] # NoBlock => \E n \in live' : a \in AddrRange(n)
  BY DEF OnModuleLoad
<1>5. ASSUME NEW n \in live', NEW a \in AddrRange(n)
      PROVE  /\ cache'[a] \in Offsets => n \in Recorded' /\ cache'[a] = SpecOffset(a, n)
             /\ cache'[a] = Untracked => n \notin Recorded'
  <2>0. a \in Addr
    BY <1>2 DEF Addr, TypeOK
  <2>1. CASE n = m
    <3>1. cache[a] = NoBlock
      BY <2>0, <2>1 DEF OnModuleLoad
    <3>2. QED
      BY <3>1 DEF OnModuleLoad, NoBlock, Untracked, Offsets
  <2>2. CASE n # m
    BY <1>1, <2>2 DEF OnModuleLoad
  <2>3. QED
    BY <2>1, <2>2
<1>6. ArenaCountsVisits'
  BY DEF OnModuleLoad, ArenaCountsVisits
<1>7. QED
  BY <1>1, <1>2, <1>3, <1>4, <1>5, <1>6

(* on_bb_instrument: get_base_pc's first match is the one live module      *)
(* containing the block, so the planted offset is the spec's offset in it; *)
(* with no match the block is left without an increment.                   *)
LEMMA InstrumentStep ==
  ASSUME MapInv, NEW a \in Addr, OnBBInstrument(a)
  PROVE  MapInv'
<1> USE DEF MapInv
<1>1. PICK m0 \in live : a \in AddrRange(m0)
  BY DEF OnBBInstrument
<1> DEFINE v == LET base == GetBasePc(a) IN
                IF base = NULL THEN Untracked ELSE ArenaOffset(a, base)
<1>2. cache' = [cache EXCEPT ![a] = v]
  BY DEF OnBBInstrument
<1>3. m0 \in Recorded => v \in Offsets /\ v = SpecOffset(a, m0)
  <2> SUFFICES ASSUME m0 \in Recorded PROVE v \in Offsets /\ v = SpecOffset(a, m0)
    OBVIOUS
  <2>1. \E i \in 1..Len(seen_modules) : a \in AddrRange(seen_modules[i])
    BY <1>1 DEF Recorded
  <2>2. PICK i \in 1..Len(seen_modules) :
           a \in AddrRange(seen_modules[i]) /\ GetBasePc(a) = Base[seen_modules[i]]
    BY <2>1, GetBasePcSpec DEF TypeOK
  <2>3. seen_modules[i] = m0
    BY <1>1, <2>2, SameOwner
  <2>4. GetBasePc(a) = Base[m0] /\ Base[m0] # NULL /\ Base[m0] \in Nat
    BY <2>2, <2>3, ModuleMapAssumption DEF NULL, TypeOK
  <2>5. a \in Int
    BY ModuleMapAssumption DEF Addr, AddrRange
  <2>6. QED
    BY <2>4, <2>5, OffsetFits DEF ArenaOffset, SpecOffset
<1>4. m0 \notin Recorded => v = Untracked
  <2> SUFFICES ASSUME m0 \notin Recorded PROVE v = Untracked
    OBVIOUS
  <2>1. ~\E i \in 1..Len(seen_modules) : a \in AddrRange(seen_modules[i])
    BY <1>1, SameOwner DEF Recorded
  <2>2. QED
    BY <2>1, GetBasePcSpec DEF TypeOK
<1>5. TypeOK'
  BY <1>2, <1>3, <1>4 DEF TypeOK, OnBBInstrument
<1>6. \A b \in Addr : cache'[b] # NoBlock => \E n \in live' : b \in AddrRange(n)
  BY <1>1, <1>2 DEF OnBBInstrument, TypeOK
<1>7. ASSUME NEW n \in live', NEW b \in AddrRange(n)
      PROVE  /\ cache'[b] \in Offsets => n \in Recorded' /\ cache'[b] = SpecOffset(b, n)
             /\ cache'[b] = Untracked => n \notin Recorded'
  <2>1. CASE b = a
    <3>1. n = m0
      BY <1>1, <2>1, SameOwner DEF OnBBInstrument
    <3>2. QED
      BY <1>2, <1>3, <1>4, <2>1, <3>1 DEF OnBBInstrument, TypeOK, Recorded, Untracked, Offsets
  <2>2. CASE b # a
    BY <1>2, <2>2 DEF OnBBInstrument, TypeOK, Recorded
  <2>3. QED
    BY <2>1, <2>2
<1>8. QED
  BY <1>5, <1>6, <1>7 DEF OnBBInstrument, Disjoint, ArenaCountsVisits

(* An executed block bumps, modulo 256, the cell of its own module's       *)
(* offset exactly when that module is recorded, which is the cell the      *)
(* history counts.                                                         *)
LEMMA ExecuteStep ==
  ASSUME MapInv, NEW a \in Addr, ExecuteBlock(a)
  PROVE  MapInv'
<1> USE DEF MapInv
<1>1. PICK m0 \in live : a \in AddrRange(m0)
  BY DEF ExecuteBlock
<1>2. Owner(a) = m0
  <2>1. Owner(a) \in live /\ a \in AddrRange(Owner(a))
    BY <1>1 DEF Owner
  <2>2. QED
    BY <1>1, <2>1, SameOwner
<1>3. MapInv' <=> /\ arena' \in [Offsets -> 0 .. (CellMod - 1)]
                  /\ hits' \in [Offsets -> Nat]
                  /\ ArenaCountsVisits'
  <2>1. nexec' \in Nat /\ UNCHANGED <<live, seen_modules, cache>>
    BY DEF ExecuteBlock, TypeOK
  <2>2. /\ live' \subseteq Mods
        /\ seen_modules' \in Seq(Mods)
        /\ cache' \in [Addr -> Offsets \cup {NoBlock, Untracked}]
    BY <2>1 DEF TypeOK
  <2>3. Disjoint'
    BY <2>1 DEF Disjoint
  <2>4. \A i \in 1..Len(seen_modules') : seen_modules'[i] \in live' \ Excluded
    BY <2>1
  <2>5. \A b \in Addr : cache'[b] # NoBlock => \E n \in live' : b \in AddrRange(n)
    BY <2>1
  <2>6. \A n \in live' : \A b \in AddrRange(n) :
          /\ cache'[b] \in Offsets => n \in Recorded' /\ cache'[b] = SpecOffset(b, n)
          /\ cache'[b] = Untracked => n \notin Recorded'
    BY <2>1 DEF Recorded
  <2>7. QED
    BY <2>1, <2>2, <2>3, <2>4, <2>5, <2>6 DEF TypeOK
<1>4. CASE cache[a] = Untracked
  <2>1. m0 \notin Recorded
    BY <1>1, <1>4
  <2>2. arena' = arena /\ hits' = hits
    BY <1>2, <1>4, <2>1 DEF ExecuteBlock
  <2>3. QED
    BY <1>3, <2>2 DEF TypeOK, ArenaCountsVisits
<1>5. CASE cache[a] \in Offsets
  <2> DEFINE o == cache[a]
  <2>1. m0 \in Recorded /\ o = SpecOffset(a, m0)
    BY <1>1, <1>5
  <2>2. /\ arena' = [arena EXCEPT ![o] = (@ + 1) % CellMod]
        /\ hits' = [hits EXCEPT ![o] = @ + 1]
    BY <1>2, <1>5, <2>1 DEF ExecuteBlock, Untracked, Offsets
  <2>3. arena'[o] = hits'[o] % CellMod
    BY <1>5, <2>2, ByteWrap, ModuleMapAssumption DEF TypeOK, ArenaCountsVisits
  <2>4. ArenaCountsVisits'
    BY <1>5, <2>2, <2>3 DEF TypeOK, ArenaCountsVisits
  <2>5. arena'[o] \in 0 .. (CellMod - 1)
    <3>1. CellMod = 256
      BY ModuleMapAssumption
    <3>2. arena[o] \in 0 .. 255
      BY <1>5, <3>1 DEF TypeOK
    <3>3. arena'[o] = (arena[o] + 1) % 256
      BY <1>5, <2>2, <3>1 DEF TypeOK
    <3>4. arena'[o] \in 0 .. 255
      BY <3>2, <3>3, ByteStays
    <3>5. QED
      BY <3>1, <3>4
  <2>6. arena' \in [Offsets -> 0 .. (CellMod - 1)]
    BY <1>5, <2>2, <2>5 DEF TypeOK
  <2>8. hits' \in [Offsets -> Nat]
    BY <1>5, <2>2 DEF TypeOK
  <2>7. QED
    BY <1>3, <2>4, <2>6, <2>8
<1>6. QED
  BY <1>4, <1>5 DEF ExecuteBlock, TypeOK, NoBlock, Untracked, Offsets

\* MapInv holds in every reachable state.
LEMMA MapInvInvariant == Spec => []MapInv
<1>1. MapInv /\ [Next]_vars => MapInv'
  <2> SUFFICES ASSUME MapInv, [Next]_vars PROVE MapInv'
    OBVIOUS
  <2>1. CASE \E m \in Mods : OnModuleLoad(m)
    BY <2>1, LoadStep
  <2>2. CASE \E a \in Addr : OnBBInstrument(a)
    BY <2>2, InstrumentStep
  <2>3. CASE \E a \in Addr : ExecuteBlock(a)
    BY <2>3, ExecuteStep
  <2>4. CASE Done \/ UNCHANGED vars
    <3>1. UNCHANGED vars
      BY <2>4 DEF Done
    <3>2. QED
      BY <3>1 DEF vars, MapInv, TypeOK, Disjoint, Recorded, ArenaCountsVisits
  <2>5. QED
    BY <2>1, <2>2, <2>3, <2>4 DEF Next
<1>2. QED
  BY <1>1, MapInvInit, PTL DEF Spec

-----------------------------------------------------------------------------
(* The module map keeps its type under every sequence of module loads,    *)
(* block builds and executions, for every layout and capacity.             *)
THEOREM MapTypeCorrect == Spec => []TypeOK
BY MapInvInvariant, PTL DEF MapInv

(* For every layout of modules, every capacity and every arena size up to *)
(* 65536, the 8-bit cells planted by on_bb_instrument count the executions *)
(* of recorded modules' blocks at their spec offset, modulo 256.           *)
THEOREM ArenaCountsVisitsHolds == Spec => []ArenaCountsVisits
BY MapInvInvariant, PTL DEF MapInv

(* No block of an excluded (system or instrumentation) module ever gets an *)
(* arena increment: on_module_load never records it and get_base_pc can    *)
(* only match a recorded module, which cannot overlap it.                   *)
THEOREM ExcludedInvisibleHolds == Spec => []ExcludedInvisible
<1>1. MapInv => ExcludedInvisible
  <2> SUFFICES ASSUME MapInv, NEW a \in Addr, NEW m \in live \cap Excluded,
                      a \in AddrRange(m)
               PROVE  cache[a] \in {NoBlock, Untracked}
    BY DEF ExcludedInvisible
  <2>1. cache[a] \in Offsets => m \in Recorded
    BY DEF MapInv
  <2>2. m \notin Recorded
    BY DEF MapInv, Recorded
  <2>3. QED
    BY <2>1, <2>2 DEF MapInv, TypeOK
<1>2. QED
  BY <1>1, MapInvInvariant, PTL

=============================================================================
