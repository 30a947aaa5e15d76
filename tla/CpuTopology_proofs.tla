-------------------------- MODULE CpuTopology_proofs --------------------------
(***************************************************************************)
(* Proofs about the check boxes and the topology they are made from, for   *)
(* every set of logical processors and every arrangement of them: first    *)
(* what ProcessorBoxes promises, then how CpuSets.Init builds it.          *)
(***************************************************************************)
EXTENDS CpuTopology, NumberLemmas

\* The boxes: what is checked is what is stored.
IInv == TypeOK /\ BoxesShowMask

\* The presets never set or clear anything but logical processors.
LEMMA PresetTypes ==
  ASSUME NEW preset \in Presets
  PROVE  preset.on \subseteq Thread /\ preset.off \subseteq Thread
<1>1. Boxes \subseteq Thread /\ NotFirst \subseteq Thread
  BY DEF Boxes, NotFirst
<1>2. \A n : OfCache(n) \subseteq Thread /\ OfClass(n) \subseteq Thread
  BY DEF OfCache, OfClass, Boxes
<1>3. preset \in {allOn, allOff, htOff, pCoreOnly, eCoreOnly, LLC(0), LLC(1)}
  BY Zenon DEF Presets
<1> QED
  BY <1>1, <1>2, <1>3 DEF allOn, allOff, htOff, pCoreOnly, eCoreOnly, LLC

LEMMA InitIInv == Init => IInv
  BY DEF Init, IInv, TypeOK, BoxesShowMask, Boxes

\* A preset that meets a processor without a box ends the window, and any
\* other does the same to boxes and bits.
LEMMA PressStep ==
  ASSUME IInv, NEW preset \in Presets, Press(preset)
  PROVE  IInv'
<1>1. preset.on \subseteq Thread /\ preset.off \subseteq Thread
  BY PresetTypes
<1>2. Boxes' = Boxes
  BY DEF Press, Boxes, HasBox, Classes, SameCache
<1>3. checked = bits \intersect Boxes
  BY DEF IInv, BoxesShowMask, Press
<1>4. TypeOK'
  BY <1>1, <1>2 DEF IInv, TypeOK, Press, Mask, Crashes
<1>5. BoxesShowMask'
  BY <1>2, <1>3 DEF BoxesShowMask, Press, Mask
<1> QED
  BY <1>4, <1>5 DEF IInv

LEMMA ClickStep ==
  ASSUME IInv, NEW t \in Thread, Click(t)
  PROVE  IInv'
<1>1. Boxes' = Boxes
  BY DEF Click, Boxes, HasBox, Classes, SameCache
<1>2. checked = bits \intersect Boxes /\ t \in Boxes
  BY DEF IInv, BoxesShowMask, Click
<1>3. TypeOK'
  BY <1>1, <1>2 DEF IInv, TypeOK, Click
<1>4. checked' = bits' \intersect Boxes
  <2>1. CASE t \in bits
    BY <1>2, <2>1 DEF Click
  <2>2. CASE t \notin bits
    BY <1>2, <2>2 DEF Click
  <2> QED
    BY <2>1, <2>2
<1> QED
  BY <1>1, <1>3, <1>4 DEF IInv, BoxesShowMask

LEMMA NextKeepsIInv ==
  ASSUME IInv, [Next]_vars
  PROVE  IInv'
<1>1. CASE \E preset \in Presets : Press(preset)
  BY <1>1, PressStep
<1>2. CASE \E t \in Thread : Click(t)
  BY <1>2, ClickStep
<1>3. CASE UNCHANGED vars
  BY <1>3 DEF IInv, TypeOK, BoxesShowMask, Boxes, HasBox, Classes, SameCache, vars
<1> QED
  BY <1>1, <1>2, <1>3 DEF Next

LEMMA Invariance == Spec => []IInv
<1>1. IInv /\ [Next]_vars => IInv'
  BY NextKeepsIInv
<1> QED
  BY <1>1, InitIInv, PTL DEF Spec

(***************************************************************************)
(* The variables have their types, on any processor.                       *)
(***************************************************************************)
THEOREM TypeCorrect == Spec => []TypeOK
<1>1. IInv => TypeOK
  BY DEF IInv
<1> QED
  BY <1>1, Invariance, PTL

(***************************************************************************)
(* The boxes that are checked are the bits of the mask, on any processor,  *)
(* those with boxes missing included, as long as the window lives          *)
(* (CheckBoxList, dialog.go 558-789).                                      *)
(***************************************************************************)
THEOREM BoxesShowMaskAlways == Spec => []BoxesShowMask
<1>1. IInv => BoxesShowMask
  BY DEF IInv
<1> QED
  BY <1>1, Invariance, PTL

-----------------------------------------------------------------------------
(***************************************************************************)
(* The presets.  What a button promises does not hold on every processor,  *)
(* so each theorem names the arrangement it needs.                         *)
(***************************************************************************)

\* Every preset can be pressed where every processor has a box.
THEOREM PresetsWorkWithBoxes == Spec => [](Boxes = Thread => PresetsWork)
<1> DEFINE Inv == IInv /\ (Boxes = Thread => ~crashed)
<1>1. Init => Inv
  BY InitIInv DEF Init
<1>2. Inv /\ [Next]_vars => Inv'
  <2> SUFFICES ASSUME Inv, [Next]_vars
               PROVE  Inv'
    OBVIOUS
  <2>1. IInv'
    BY NextKeepsIInv
  <2>2. cpu' = cpu
    BY DEF Next, Press, Click, vars
  <2>3. Boxes' = Boxes
    BY <2>2 DEF Boxes, HasBox, Classes, SameCache
  <2>4. ASSUME Boxes = Thread
        PROVE  ~crashed'
    <3>1. CASE \E preset \in Presets : Press(preset)
      BY <2>4, <3>1, PresetTypes DEF Press, Crashes
    <3>2. CASE \E t \in Thread : Click(t)
      BY <2>4, <3>2 DEF Click
    <3>3. CASE UNCHANGED vars
      BY <2>4, <3>3 DEF vars
    <3> QED
      BY <3>1, <3>2, <3>3 DEF Next
  <2> QED
    BY <2>1, <2>3, <2>4
<1>3. Inv => (Boxes = Thread => PresetsWork)
  BY DEF PresetsWork
<1> QED
  BY <1>1, <1>2, <1>3, PTL DEF Spec

(***************************************************************************)
(* "HT Off" leaves one thread of each core where all threads with one core *)
(* index are of one node, cache and class, and have boxes.                 *)
(***************************************************************************)
CoresApart == \A t, u \in Thread : cpu[t].core = cpu[u].core => SameCore(t, u)

THEOREM OneThreadPerCoreAlways ==
  Spec => [](Boxes = Thread /\ CoresApart => OneThreadPerCore)
<1>1. IInv => (Boxes = Thread /\ CoresApart => OneThreadPerCore)
  <2> SUFFICES ASSUME IInv, Boxes = Thread, CoresApart
               PROVE  OneThreadPerCore
    OBVIOUS
  <2>1. Mask(htOff) = bits \ NotFirst /\ bits \subseteq Thread
    BY DEF Mask, htOff, IInv, TypeOK
  <2>2. ASSUME NEW t \in Mask(htOff), NEW u \in Mask(htOff), cpu[t].core = cpu[u].core
        PROVE  t = u
    <3>1. t \in Thread /\ u \in Thread /\ t \notin NotFirst /\ u \notin NotFirst
      BY <2>1
    <3>2. SameCore(t, u) /\ SameCore(u, t)
      BY <2>2, <3>1 DEF CoresApart
    <3>3. ~(u < t) /\ ~(t < u)
      BY <3>1, <3>2 DEF NotFirst
    <3> QED
      BY <3>1, <3>3, BoxesAssumption
  <2>3. ASSUME NEW t \in bits, \A u \in Thread : cpu[u].core = cpu[t].core => t <= u
        PROVE  t \in Mask(htOff)
    <3>1. ASSUME t \in NotFirst
          PROVE  FALSE
      <4>1. PICK u \in Thread : SameCore(t, u) /\ u < t
        BY <3>1 DEF NotFirst
      <4>2. t <= u
        BY <2>3, <4>1 DEF SameCore
      <4> QED
        BY <2>1, <4>1, <4>2, BoxesAssumption
    <3> QED
      BY <2>1, <3>1
  <2> QED
    BY <2>2, <2>3 DEF OneThreadPerCore
<1> QED
  BY <1>1, Invariance, PTL

(***************************************************************************)
(* The class buttons leave the fastest and the slowest processors where    *)
(* there is no class above one and every processor has a box.              *)
(***************************************************************************)
THEOREM ClassPresetsAlways ==
  Spec => [](Boxes = Thread /\ (\A t \in Thread : cpu[t].class <= 1) => ClassPresets)
<1>1. IInv => (Boxes = Thread /\ (\A t \in Thread : cpu[t].class <= 1) => ClassPresets)
  <2> SUFFICES ASSUME IInv, Boxes = Thread, \A t \in Thread : cpu[t].class <= 1,
                      EfficiencyClass
               PROVE  Mask(pCoreOnly) = Fastest /\ Mask(eCoreOnly) = Slowest
    BY DEF ClassPresets
  <2>1. \A t \in Thread : cpu[t].class \in {0, 1}
    BY BoxesAssumption DEF IInv, TypeOK, Place
  <2>2. PICK p \in Thread : cpu[p].class = 1
    BY <2>1 DEF EfficiencyClass
  <2>3. PICK e \in Thread : cpu[e].class = 0
    <3> SUFFICES ASSUME \A v \in Thread : cpu[v].class # 0
                 PROVE  FALSE
      OBVIOUS
    <3>1. Classes(p) \in SUBSET {1}
      BY <2>1 DEF Classes
    <3>2. IsFiniteSet({1}) /\ Cardinality({1}) = 1
      BY FS_Singleton, Zenon
    <3>3. Cardinality(Classes(p)) <= 1 /\ IsFiniteSet(Classes(p))
      BY <3>1, <3>2, FS_Subset
    <3>4. Cardinality(Classes(p)) \in Nat
      BY <3>3, FS_CardinalityType
    <3>5. 1 < Cardinality(Classes(p))
      BY <2>2 DEF Boxes, HasBox
    <3> QED
      BY <3>3, <3>4, <3>5
  <2>4. OfClass(1) = Fastest
    BY <2>1, <2>2 DEF OfClass, Fastest
  <2>5. OfClass(0) = Slowest
    BY <2>1, <2>3 DEF OfClass, Slowest
  <2>6. bits \subseteq OfClass(0) \union OfClass(1) /\ OfClass(0) \intersect OfClass(1) = {}
    BY <2>1 DEF OfClass, IInv, TypeOK
  <2>7. Mask(pCoreOnly) = OfClass(1) /\ Mask(eCoreOnly) = OfClass(0)
    BY <2>6 DEF Mask, pCoreOnly, eCoreOnly
  <2> QED
    BY <2>4, <2>5, <2>7
<1> QED
  BY <1>1, Invariance, PTL

(***************************************************************************)
(* The cache buttons leave one cache each where there is one node only, at *)
(* least two caches, and every processor has a box.                        *)
(***************************************************************************)
OneNode       == \A t, u \in Thread : cpu[t].numa = cpu[u].numa
SeveralCaches == \E t, u \in Thread : cpu[t].cache # cpu[u].cache

\* None of a set of numbers is below the least, and one below the next.
LEMMA FirstTwo ==
  ASSUME NEW C \in SUBSET Nat, NEW c \in C,
         NEW m0 \in C, \A k \in C : m0 <= k,
         NEW m1 \in C \ {m0}, \A k \in C \ {m0} : m1 <= k
  PROVE  /\ Cardinality({k \in C : k < c}) = 0 <=> c = m0
         /\ Cardinality({k \in C : k < c}) = 1 <=> c = m1
<1> DEFINE Below == {k \in C : k < c}
<1>0. /\ \A k \in C : k \in Nat
      /\ \A k : k \in Below <=> k \in C /\ k < c
      /\ \A k \in C : k # m0 => m1 <= k
      /\ m1 \in C /\ m1 # m0
  OBVIOUS
<1> HIDE DEF Below
<1>1. IsFiniteSet(Below)
  <2>1. ASSUME NEW k \in Below
        PROVE  k \in 0 .. c
    <3>1. k \in Nat /\ c \in Nat /\ k < c
      BY <1>0
    <3> QED
      BY <3>1
  <2>2. IsFiniteSet(0 .. c)
    BY <1>0, FS_Interval
  <2>3. Below \in SUBSET (0 .. c)
    BY <2>1, Zenon
  <2> QED
    BY <2>2, <2>3, FS_Subset, Zenon
<1>2. Below = {} <=> c = m0
  <2>1. ASSUME Below = {}
        PROVE  c = m0
    <3>1. ~(m0 < c)
      BY <1>0, <2>1
    <3> QED
      BY <1>0, <3>1
  <2>2. ASSUME c = m0
        PROVE  Below = {}
    <3>1. ASSUME NEW k \in Below
          PROVE  FALSE
      <4>1. k \in C /\ k < c /\ k \in Nat /\ m0 \in Nat
        BY <1>0, Zenon
      <4>2. m0 <= k
        BY <4>1, Zenon
      <4> QED
        BY <2>2, <4>1, <4>2
    <3> QED
      BY <3>1, Zenon
  <2> QED
    BY <2>1, <2>2
<1>3. ASSUME c = m1
      PROVE  Below = {m0}
  <2>1. m0 < c /\ \A k \in C : k < c => k = m0
    BY <1>0, <1>3
  <2> QED
    BY <1>0, <2>1
<1>4. ASSUME NEW x, Below = {x}
      PROVE  c = m1
  <2>1. c # m0 /\ m0 < c
    BY <1>0, <1>2, <1>4
  <2>2. ~(m1 < c)
    BY <1>0, <1>4, <2>1
  <2> QED
    BY <1>0, <2>1, <2>2
<1>5. Cardinality(Below) = 0 <=> Below = {}
  BY <1>1, FS_EmptySet
<1>6. Cardinality(Below) = 1 <=> \E x : Below = {x}
  BY <1>1, FS_Singleton
<1>7. /\ Cardinality(Below) = 0 <=> c = m0
      /\ Cardinality(Below) = 1 <=> c = m1
  BY <1>2, <1>3, <1>4, <1>5, <1>6
<1> QED
  BY <1>7 DEF Below

THEOREM CachePresetsAlways ==
  Spec => [](Boxes = Thread /\ OneNode /\ SeveralCaches => CachePresets)
<1>1. IInv => (Boxes = Thread /\ OneNode /\ SeveralCaches => CachePresets)
  <2> SUFFICES ASSUME IInv, Boxes = Thread, OneNode, SeveralCaches, NEW n \in {0, 1}
               PROVE  \E t \in Thread : Mask(LLC(n)) = {u \in Thread : SameCache(t, u)}
    BY DEF CachePresets
  <2> DEFINE Caches == {cpu[t].cache : t \in Thread}
  <2>1. TypeOK /\ Caches \in SUBSET Nat
    BY BoxesAssumption DEF IInv, TypeOK, Place
  <2>2. PICK m0 \in Caches : \A k \in Caches : m0 <= k
    BY <2>1, LeastElement DEF SeveralCaches
  <2>3. PICK m1 \in Caches \ {m0} : \A k \in Caches \ {m0} : m1 <= k
    <3>1. Caches \ {m0} \in SUBSET Nat /\ Caches \ {m0} # {}
      BY <2>1 DEF SeveralCaches
    <3> QED
      BY <3>1, LeastElement
  <2>4. \A t \in Thread : /\ CacheIndex(t) = 0 <=> cpu[t].cache = m0
                          /\ CacheIndex(t) = 1 <=> cpu[t].cache = m1
    <3> SUFFICES ASSUME NEW t \in Thread
                 PROVE  /\ CacheIndex(t) = 0 <=> cpu[t].cache = m0
                        /\ CacheIndex(t) = 1 <=> cpu[t].cache = m1
      OBVIOUS
    <3>1. {cpu[u].cache : u \in {v \in Thread : cpu[v].numa = cpu[t].numa
                                                /\ cpu[v].cache < cpu[t].cache}}
            = {k \in Caches : k < cpu[t].cache}
      BY DEF OneNode
    <3>2. CacheIndex(t) = Cardinality({k \in Caches : k < cpu[t].cache})
      BY <3>1 DEF CacheIndex
    <3>3. cpu[t].cache \in Caches
      OBVIOUS
    <3> HIDE DEF Caches
    <3>4. ASSUME NEW c \in Caches
          PROVE  /\ Cardinality({k \in Caches : k < c}) = 0 <=> c = m0
                 /\ Cardinality({k \in Caches : k < c}) = 1 <=> c = m1
      <4>1. Caches \in SUBSET Nat
        BY <2>1
      <4>2. m0 \in Caches /\ m1 \in Caches \ {m0}
        OBVIOUS
      <4>3. \A k \in Caches : m0 <= k
        BY <2>2
      <4>4. \A k \in Caches \ {m0} : m1 <= k
        BY <2>3
      <4> QED
        BY <4>1, <4>2, <4>3, <4>4, FirstTwo, Zenon
    <3> QED
      BY <3>2, <3>3, <3>4
  <2>5. Mask(LLC(n)) = OfCache(n)
    BY DEF Mask, LLC, OfCache, IInv, TypeOK
  <2>6. PICK t \in Thread : cpu[t].cache = IF n = 0 THEN m0 ELSE m1
    BY <2>2, <2>3
  <2>7. OfCache(n) = {u \in Thread : cpu[u].cache = cpu[t].cache}
    BY <2>4, <2>6 DEF OfCache
  <2> QED
    BY <2>5, <2>7 DEF SameCache, OneNode
<1> QED
  BY <1>1, Invariance, PTL

-----------------------------------------------------------------------------
(***************************************************************************)
(* The inductive invariant: what holds of the processors added so far.     *)
(***************************************************************************)
Seen == 0 .. added - 1

AddedOK ==
  /\ added \in Nat /\ Seen \subseteq Thread
  /\ CoreGroups # <<>> => added = Processors

\* A row for each core seen, its threads in the order of their numbers.
LayoutOK ==
  /\ DOMAIN layout = {Row(t) : t \in Seen}
  /\ \A row \in DOMAIN layout :
       /\ layout[row] \in Seq(Seen)
       /\ \A i, j \in 1 .. Len(layout[row]) : i < j => layout[row][i] < layout[row][j]
       /\ \A t \in Seen : Row(t) = row <=> \E i \in 1 .. Len(layout[row]) : layout[row][i] = t

FlagsOK ==
  /\ "HyperThreading" \in flags <=> \E t \in Seen : cpu[t].core # t
  /\ "EfficiencyClass" \in flags <=> \E t \in Seen : cpu[t].class # 0
  /\ "LastLevelCache" \in flags <=> \E t \in Seen : cpu[t].cache # 0

LInv == IInv /\ AddedOK /\ LayoutOK /\ FlagsOK

-----------------------------------------------------------------------------
LEMMA TopologyStep ==
  ASSUME [NextTopology]_allVars
  PROVE  [Next]_vars
  BY DEF NextTopology, AddProcessor, ChooseGrid, allVars

(***************************************************************************)
(* Building the topology is no step of the boxes, and the dialog takes     *)
(* clicks as ProcessorBoxes says: what is proved of Spec holds here.       *)
(***************************************************************************)
THEOREM TopologyImplementsBoxes == SpecTopology => Spec
<1>1. InitTopology => Init
  BY DEF InitTopology
<1>2. [NextTopology]_allVars => [Next]_vars
  BY TopologyStep
<1> QED
  BY <1>1, <1>2, PTL DEF SpecTopology, Spec

-----------------------------------------------------------------------------
\* As many as there are were added only when all were.
LEMMA AllSeen ==
  ASSUME AddedOK, added = Processors
  PROVE  Seen = Thread
<1>1. added \in Nat /\ Seen \in SUBSET Thread
  BY DEF AddedOK
<1>2. Cardinality(0 .. added - 1) = added
  BY <1>1, FS_Interval
<1>3. Cardinality(Seen) = Cardinality(Thread)
  BY <1>2 DEF Seen, Processors
<1> QED
  BY <1>1, <1>3, BoxesAssumption, FS_Subset

\* The processors stay where they are.
LEMMA SamePlaces ==
  ASSUME [NextTopology]_allVars
  PROVE  cpu' = cpu
<1>1. [Next]_vars
  BY TopologyStep
<1> QED
  BY <1>1 DEF Next, Press, Click, vars

LEMMA InitLInv == InitTopology => LInv
<1> SUFFICES ASSUME InitTopology
             PROVE  LInv
  OBVIOUS
<1>1. IInv
  BY InitIInv DEF InitTopology
<1>2. added = 0 /\ Seen = {} /\ CoreGroups = <<>> /\ flags = {}
  BY DEF InitTopology, Seen
<1>3. DOMAIN layout = {}
  BY DEF InitTopology
<1> QED
  BY <1>1, <1>2, <1>3 DEF LInv, AddedOK, LayoutOK, FlagsOK

\* The next processor goes to the end of the row of its core.
LEMMA AddLayout ==
  ASSUME LInv, cpu' = cpu, NEW t \in Thread, AddProcessor(t)
  PROVE  LayoutOK'
<1>1. t = added /\ added' = added + 1 /\ added \in Nat /\ Seen' = Seen \union {t} /\ t \notin Seen
      /\ Seen \subseteq Nat
  BY DEF LInv, AddedOK, AddProcessor, Seen
<1>2. \A u : Row(u)' = Row(u)
  BY DEF Row
<1>3. layout' = [row \in DOMAIN layout \union {Row(t)} |->
         IF row = Row(t) THEN Append(Held(layout, row, <<>>), t) ELSE layout[row]]
  BY DEF AddProcessor, add
<1>4. (DOMAIN layout)' = {Row(u)' : u \in Seen'}
  <2>1. DOMAIN layout' = {Row(u) : u \in Seen} \union {Row(t)}
    BY <1>3 DEF LInv, LayoutOK
  <2> QED
    BY <1>1, <1>2, <2>1
<1>5. ASSUME NEW row \in DOMAIN layout'
      PROVE  /\ layout'[row] \in Seq(Seen')
             /\ \A i, j \in 1 .. Len(layout'[row]) : i < j => layout'[row][i] < layout'[row][j]
             /\ \A u \in Seen' :
                  Row(u) = row <=> \E i \in 1 .. Len(layout'[row]) : layout'[row][i] = u
  <2>1. CASE row # Row(t)
    <3>1. layout'[row] = layout[row] /\ row \in DOMAIN layout
      BY <1>3, <1>5, <2>1
    <3>2. layout[row] \in Seq(Seen) /\ layout[row] \in Seq(Seen')
      BY <1>1, <3>1 DEF LInv, LayoutOK
    <3>3. ~\E i \in 1 .. Len(layout[row]) : layout[row][i] = t
      BY <1>1, <3>2
    <3> QED
      BY <1>1, <2>1, <3>1, <3>2, <3>3 DEF LInv, LayoutOK
  <2>2. CASE row = Row(t) /\ row \in DOMAIN layout
    <3> DEFINE old == layout[row]
    <3>1. layout'[row] = Append(old, t)
      BY <1>3, <2>2 DEF Held
    <3>2. /\ old \in Seq(Seen)
          /\ \A i, j \in 1 .. Len(old) : i < j => old[i] < old[j]
          /\ \A u \in Seen : Row(u) = row <=> \E i \in 1 .. Len(old) : old[i] = u
      BY <2>2 DEF LInv, LayoutOK
    <3> HIDE DEF old
    <3>3. /\ Append(old, t) \in Seq(Seen')
          /\ Len(Append(old, t)) = Len(old) + 1
          /\ \A i \in 1 .. Len(old) : Append(old, t)[i] = old[i]
          /\ Append(old, t)[Len(old) + 1] = t
          /\ Len(old) \in Nat
      BY <1>1, <3>2
    <3>4. \A i \in 1 .. Len(old) : old[i] \in Nat /\ old[i] < t
      BY <1>1, <3>2 DEF Seen
    <3>5. \A i, j \in 1 .. Len(old) + 1 : i < j => Append(old, t)[i] < Append(old, t)[j]
      BY <3>2, <3>3, <3>4
    <3>6. \A u \in Seen' :
            Row(u) = row <=> \E i \in 1 .. Len(old) + 1 : Append(old, t)[i] = u
      BY <1>1, <2>2, <3>2, <3>3
    <3> QED
      BY <3>1, <3>3, <3>5, <3>6
  <2>3. CASE row = Row(t) /\ row \notin DOMAIN layout
    <3>1. layout'[row] = <<t>>
      BY <1>3, <2>3 DEF Held
    <3>2. \A u \in Seen : Row(u) # row
      BY <2>3 DEF LInv, LayoutOK
    <3> QED
      BY <1>1, <2>3, <3>1, <3>2
  <2> QED
    BY <2>1, <2>2, <2>3
<1> QED
  BY <1>2, <1>4, <1>5 DEF LayoutOK

LEMMA AddFlags ==
  ASSUME LInv, cpu' = cpu, NEW t \in Thread, AddProcessor(t)
  PROVE  FlagsOK'
<1>1. Seen' = Seen \union {t}
  BY DEF LInv, AddedOK, AddProcessor, Seen
<1>2. flags' = flags \union (IF cpu[t].core # t THEN {"HyperThreading"} ELSE {})
                    \union (IF cpu[t].class # 0 THEN {"EfficiencyClass"} ELSE {})
                    \union (IF cpu[t].cache # 0 THEN {"LastLevelCache"} ELSE {})
                    \union (IF cpu[t].numa # 0 THEN {"NumaNode"} ELSE {})
  BY DEF AddProcessor
<1> QED
  BY <1>1, <1>2 DEF FlagsOK, LInv

\* No processor is added after the grid was chosen, and none twice.
LEMMA AddBeforeGrid ==
  ASSUME LInv, NEW t \in Thread, AddProcessor(t)
  PROVE  CoreGroups = <<>> /\ CoreGroups' = <<>>
<1>1. t = added /\ CoreGroups' = CoreGroups /\ t \notin Seen
  BY DEF AddProcessor, LInv, AddedOK, Seen
<1>2. ASSUME added = Processors
      PROVE  FALSE
  <2>1. Seen = Thread
    BY <1>2, AllSeen DEF LInv
  <2> QED
    BY <1>1, <2>1
<1> QED
  BY <1>1, <1>2 DEF LInv, AddedOK

LEMMA AddAdded ==
  ASSUME LInv, NEW t \in Thread, AddProcessor(t)
  PROVE  AddedOK'
<1>1. t = added /\ added' = added + 1
  BY DEF AddProcessor
<1>2. Seen' = Seen \union {t} /\ added' \in Nat /\ Seen \subseteq Thread
  BY <1>1 DEF LInv, AddedOK, Seen
<1> QED
  BY <1>1, <1>2, AddBeforeGrid DEF AddedOK

LEMMA NextKeepsLInv ==
  ASSUME LInv, [NextTopology]_allVars
  PROVE  LInv'
<1>1. IInv'
  BY TopologyStep, NextKeepsIInv DEF LInv
<1>2. cpu' = cpu
  BY SamePlaces
<1>3. CASE \E t \in Thread : AddProcessor(t)
  BY <1>1, <1>2, <1>3, AddLayout, AddFlags, AddAdded DEF LInv
<1>4. CASE UNCHANGED <<added, layout, flags>> /\ (CoreGroups' = CoreGroups \/ added = Processors)
  <2>1. Seen' = Seen /\ \A t : Row(t)' = Row(t)
    BY <1>2, <1>4 DEF Seen, Row
  <2>2. LayoutOK'
    BY <1>4, <2>1 DEF LInv, LayoutOK
  <2>3. FlagsOK'
    BY <1>2, <1>4, <2>1 DEF LInv, FlagsOK
  <2>4. AddedOK'
    BY <1>4, <2>1 DEF LInv, AddedOK
  <2> QED
    BY <1>1, <2>2, <2>3, <2>4 DEF LInv
<1> QED
  BY <1>3, <1>4 DEF NextTopology, ChooseGrid, topologyVars, allVars

LEMMA TopologyInvariance == SpecTopology => []LInv
<1>1. LInv /\ [NextTopology]_allVars => LInv'
  BY NextKeepsLInv
<1> QED
  BY <1>1, InitLInv, PTL DEF SpecTopology

-----------------------------------------------------------------------------
\* When the grid is chosen the rows hold all processors, each its own core's.
LEMMA RowsWhole ==
  ASSUME LInv, CoreGroups # <<>>
  PROVE  /\ Seen = Thread
         /\ DOMAIN layout = {Row(t) : t \in Thread}
         /\ \A t \in Thread : ToSet(layout[Row(t)]) = {u \in Thread : Row(u) = Row(t)}
<1>1. Seen = Thread
  BY AllSeen DEF LInv, AddedOK
<1>2. ASSUME NEW t \in Thread
      PROVE  ToSet(layout[Row(t)]) = {u \in Thread : Row(u) = Row(t)}
  <2>1. Row(t) \in DOMAIN layout
    BY <1>1 DEF LInv, LayoutOK
  <2>2. /\ layout[Row(t)] \in Seq(Thread)
        /\ \A u \in Thread : Row(u) = Row(t)
             <=> \E i \in 1 .. Len(layout[Row(t)]) : layout[Row(t)][i] = u
    BY <1>1, <2>1 DEF LInv, LayoutOK
  <2>3. ToSet(layout[Row(t)])
          = {layout[Row(t)][i] : i \in 1 .. Len(layout[Row(t)])}
    BY <2>2 DEF ToSet
  <2> QED
    BY <2>2, <2>3
<1> QED
  BY <1>1, <1>2 DEF LInv, LayoutOK

LEMMA RowIsCore ==
  ASSUME NEW t, NEW u
  PROVE  Row(t) = Row(u) <=> SameCore(t, u)
  BY DEF Row, SameCore, SameCache

\* The classes of a cache are those of its processors, and only a class below
\* their number is found.
LEMMA FoundHasBox ==
  ASSUME LInv, CoreGroups # <<>>, NEW t \in Thread
  PROVE  FoundBy(Row(t)) <=> t \in Boxes
<1>1. Row(t)[1] = cpu[t].numa /\ Row(t)[2] = cpu[t].cache /\ Row(t)[3] = cpu[t].class
  BY DEF Row
<1>2. ClassesOf(Row(t)[1], Row(t)[2]) = Classes(t)
  <2>1. DOMAIN layout = {Row(u) : u \in Thread}
    BY RowsWhole
  <2>2. \A u : Row(u)[1] = cpu[u].numa /\ Row(u)[2] = cpu[u].cache /\ Row(u)[3] = cpu[u].class
    BY DEF Row
  <2>3. ClassesOf(Row(t)[1], Row(t)[2])
          = {Row(u)[3] : u \in {v \in Thread : Row(v)[1] = Row(t)[1] /\ Row(v)[2] = Row(t)[2]}}
    BY <2>1 DEF ClassesOf
  <2> QED
    BY <2>2, <2>3 DEF Classes, SameCache
<1>3. Cardinality(Classes(t)) \in Nat
  <2> DEFINE Mates == {v \in Thread : SameCache(t, v)}
             class == [v \in Mates |-> cpu[v].class]
  <2>1. IsFiniteSet(Mates)
    BY BoxesAssumption, FS_Subset
  <2>2. class \in Surjection(Mates, Classes(t))
    BY DEF Surjection, Classes
  <2>3. IsFiniteSet(Classes(t))
    BY <2>1, <2>2, FS_Surjection
  <2> QED
    BY <2>3, FS_CardinalityType
<1>4. cpu[t].class \in Nat
  BY BoxesAssumption DEF LInv, IInv, TypeOK, Place
<1> QED
  BY <1>1, <1>2, <1>3, <1>4 DEF FoundBy, Boxes, HasBox

\* All but the first of a row are those that follow another of their core.
LEMMA TailFollows ==
  ASSUME LInv, CoreGroups # <<>>, NEW t \in Thread
  PROVE  ToSet(Tail(layout[Row(t)]))
           = {u \in Thread : Row(u) = Row(t) /\ \E v \in Thread : Row(v) = Row(t) /\ v < u}
<1> DEFINE row == layout[Row(t)]
<1>1. /\ row \in Seq(Thread)
      /\ \A i, j \in 1 .. Len(row) : i < j => row[i] < row[j]
      /\ \A u \in Thread : Row(u) = Row(t) <=> \E i \in 1 .. Len(row) : row[i] = u
  BY RowsWhole DEF LInv, LayoutOK
<1> HIDE DEF row
<1>2. row # <<>> /\ Len(row) \in Nat \ {0}
  BY <1>1
<1>3. ToSet(Tail(row)) = {row[i] : i \in 2 .. Len(row)}
  <2>1. /\ Tail(row) \in Seq(Thread)
        /\ Len(Tail(row)) = Len(row) - 1
        /\ \A i \in 1 .. Len(row) - 1 : Tail(row)[i] = row[i + 1]
    BY <1>1, <1>2
  <2>2. ToSet(Tail(row)) = {Tail(row)[i] : i \in 1 .. Len(row) - 1}
    BY <2>1 DEF ToSet
  <2>3. ASSUME NEW i \in 2 .. Len(row)
        PROVE  row[i] \in ToSet(Tail(row))
    <3>1. i - 1 \in 1 .. Len(row) - 1 /\ (i - 1) + 1 = i
      BY <1>2
    <3> QED
      BY <2>1, <2>2, <3>1
  <2>4. ASSUME NEW i \in 1 .. Len(row) - 1
        PROVE  Tail(row)[i] \in {row[j] : j \in 2 .. Len(row)}
    <3>1. i + 1 \in 2 .. Len(row)
      BY <1>2
    <3> QED
      BY <2>1, <3>1
  <2> QED
    BY <2>2, <2>3, <2>4
<1>4. ASSUME NEW i \in 2 .. Len(row)
      PROVE  /\ row[i] \in Thread /\ Row(row[i]) = Row(t)
             /\ \E v \in Thread : Row(v) = Row(t) /\ v < row[i]
  <2>1. row[1] < row[i] /\ row[1] \in Thread /\ row[i] \in Thread
    BY <1>1, <1>2
  <2> QED
    BY <1>1, <1>2, <2>1
<1>5. ASSUME NEW u \in Thread, NEW v \in Thread, Row(u) = Row(t), Row(v) = Row(t), v < u
      PROVE  \E i \in 2 .. Len(row) : u = row[i]
  <2>1. PICK i \in 1 .. Len(row) : row[i] = u
    BY <1>1, <1>5
  <2>2. PICK j \in 1 .. Len(row) : row[j] = v
    BY <1>1, <1>5
  <2>3. i # 1
    BY <1>1, <1>2, <1>5, <2>1, <2>2, BoxesAssumption
  <2> QED
    BY <1>2, <2>1, <2>3
<1>6. ToSet(Tail(row))
        = {u \in Thread : Row(u) = Row(t) /\ \E v \in Thread : Row(v) = Row(t) /\ v < u}
  BY <1>3, <1>4, <1>5
<1> QED
  BY <1>6 DEF row

(***************************************************************************)
(* The layout CpuSets.Init builds processor by processor is the one the    *)
(* boxes and presets are about (CoreLayout.add, CheckBoxList.create), on   *)
(* any processor.                                                          *)
(***************************************************************************)
THEOREM LayoutIsRightAlways == SpecTopology => []LayoutIsRight
<1>1. LInv => LayoutIsRight
  <2> SUFFICES ASSUME LInv, CoreGroups # <<>>
               PROVE  LayoutIsRight
    BY DEF LayoutIsRight
  <2>1. /\ Seen = Thread
        /\ DOMAIN layout = {Row(t) : t \in Thread}
        /\ \A t \in Thread : ToSet(layout[Row(t)]) = {u \in Thread : Row(u) = Row(t)}
    BY RowsWhole
  <2>2. \A t, u \in Thread :
          SameCore(t, u) <=> \E row \in DOMAIN layout : {t, u} \subseteq ToSet(layout[row])
    <3> SUFFICES ASSUME NEW t \in Thread, NEW u \in Thread
                 PROVE  SameCore(t, u)
                          <=> \E row \in DOMAIN layout : {t, u} \subseteq ToSet(layout[row])
      OBVIOUS
    <3>1. Row(t) = Row(u) <=> SameCore(t, u)
      BY RowIsCore
    <3> QED
      BY <2>1, <3>1
  <2>3. \A row \in DOMAIN layout : \A i, j \in DOMAIN layout[row] :
          i < j => layout[row][i] < layout[row][j]
    BY DEF LInv, LayoutOK
  <2>4. {r \in DOMAIN layout : FoundBy(r)} = {Row(t) : t \in Boxes}
    <3>1. \A t \in Thread : FoundBy(Row(t)) <=> t \in Boxes
      BY FoundHasBox
    <3>2. Boxes \subseteq Thread
      BY DEF Boxes
    <3> QED
      BY <2>1, <3>1, <3>2
  <2>5. \A t, u \in Thread : Row(t) = Row(u) => (t \in Boxes <=> u \in Boxes)
    BY FoundHasBox
  <2>6. Boxes = UNION {ToSet(layout[row]) : row \in {r \in DOMAIN layout : FoundBy(r)}}
    <3>1. {ToSet(layout[row]) : row \in {r \in DOMAIN layout : FoundBy(r)}}
            = {{u \in Thread : Row(u) = Row(t)} : t \in Boxes}
      BY <2>1, <2>4 DEF Boxes
    <3>2. Boxes = UNION {{u \in Thread : Row(u) = Row(t)} : t \in Boxes}
      BY <2>5 DEF Boxes
    <3> QED
      BY <3>1, <3>2
  <2>7. NotFirst = UNION {ToSet(Tail(layout[row])) : row \in {r \in DOMAIN layout : FoundBy(r)}}
    <3> DEFINE Later(t) ==
          {u \in Thread : Row(u) = Row(t) /\ \E v \in Thread : Row(v) = Row(t) /\ v < u}
    <3>1. \A t \in Boxes : ToSet(Tail(layout[Row(t)])) = Later(t)
      BY TailFollows DEF Boxes
    <3> HIDE DEF Later
    <3>2. {ToSet(Tail(layout[row])) : row \in {r \in DOMAIN layout : FoundBy(r)}}
            = {Later(t) : t \in Boxes}
      BY <2>4, <3>1
    <3>3. NotFirst = {t \in Boxes : \E v \in Thread : Row(v) = Row(t) /\ v < t}
      BY RowIsCore DEF NotFirst, SameCore, SameCache
    <3>4. NotFirst = UNION {Later(t) : t \in Boxes}
      BY <2>5, <3>3 DEF Later, Boxes
    <3> QED
      BY <3>2, <3>4
  <2>8. /\ HyperThreading <=> "HyperThreading" \in flags
        /\ EfficiencyClass <=> "EfficiencyClass" \in flags
        /\ LastLevelCache <=> "LastLevelCache" \in flags
    BY <2>1 DEF LInv, FlagsOK, HyperThreading, EfficiencyClass, LastLevelCache
  <2> QED
    BY <2>2, <2>3, <2>6, <2>7, <2>8 DEF LayoutIsRight
<1> QED
  BY <1>1, TopologyInvariance, PTL

-----------------------------------------------------------------------------
(***************************************************************************)
(* Where a core has one thread or two with numbers next to each other, as  *)
(* Windows numbers them, MaxThreadsPerCore is two from the first second    *)
(* thread on.                                                              *)
(***************************************************************************)
CoresOfTwo ==
  \A t \in Thread :
    \/ cpu[t].core = t
    \/ t - 1 \in Thread /\ cpu[t].core = t - 1 /\ SameCore(t, t - 1)

CInv ==
  CoresOfTwo => MaxThreadsPerCore = IF \E t \in Seen : cpu[t].core # t THEN 2 ELSE 0

LEMMA AddCounts ==
  ASSUME LInv, CInv, cpu' = cpu, NEW t \in Thread, AddProcessor(t)
  PROVE  CInv'
<1>1. CoresOfTwo' = CoresOfTwo
  BY DEF CoresOfTwo, SameCore, SameCache
<1>2. Seen' = Seen \union {t} /\ t \in Nat
  BY BoxesAssumption DEF LInv, AddedOK, AddProcessor, Seen
<1>3. MaxThreadsPerCore' = ThreadsUpTo(MaxThreadsPerCore, (t - cpu[t].core) % 256)
  BY DEF AddProcessor
<1> SUFFICES ASSUME CoresOfTwo
             PROVE  MaxThreadsPerCore' = IF \E u \in Seen' : cpu[u].core # u THEN 2 ELSE 0
  BY <1>1 DEF CInv
<1>4. MaxThreadsPerCore = IF \E u \in Seen : cpu[u].core # u THEN 2 ELSE 0
  BY DEF CInv
<1>5. CASE cpu[t].core = t
  <2>1. (t - cpu[t].core) % 256 = 0
    BY <1>2, <1>5
  <2>2. MaxThreadsPerCore' = MaxThreadsPerCore
    BY <1>3, <1>4, <2>1 DEF ThreadsUpTo
  <2>3. (\E u \in Seen' : cpu[u].core # u) <=> (\E u \in Seen : cpu[u].core # u)
    BY <1>2, <1>5
  <2> QED
    BY <1>4, <2>2, <2>3
<1>6. CASE cpu[t].core = t - 1
  <2>1. (t - cpu[t].core) % 256 = 1
    BY <1>2, <1>6
  <2>2. MaxThreadsPerCore' = 2
    BY <1>3, <1>4, <2>1 DEF ThreadsUpTo
  <2>3. \E u \in Seen' : cpu[u].core # u
    BY <1>2, <1>6
  <2> QED
    BY <2>2, <2>3
<1> QED
  BY <1>5, <1>6 DEF CoresOfTwo

LEMMA CountsInvariance == SpecTopology => []CInv
<1>1. InitTopology => CInv
  BY DEF InitTopology, CInv, Seen
<1>2. LInv /\ CInv /\ [NextTopology]_allVars => CInv'
  <2> SUFFICES ASSUME LInv, CInv, [NextTopology]_allVars
               PROVE  CInv'
    OBVIOUS
  <2>1. cpu' = cpu
    BY SamePlaces
  <2>2. CASE \E t \in Thread : AddProcessor(t)
    BY <2>1, <2>2, AddCounts
  <2>3. CASE UNCHANGED <<added, MaxThreadsPerCore>>
    BY <2>1, <2>3 DEF CInv, CoresOfTwo, SameCore, SameCache, Seen
  <2> QED
    BY <2>2, <2>3 DEF NextTopology, ChooseGrid, topologyVars, allVars
<1> QED
  BY <1>1, <1>2, TopologyInvariance, PTL DEF SpecTopology

(***************************************************************************)
(* The margins are scaled by the threads of the largest core on every      *)
(* processor of such cores (MaxThreadsPerCore, cpusetinformation.go 109).  *)
(***************************************************************************)
THEOREM LargestCoreCountedAlways == SpecTopology => [](CoresOfTwo => LargestCoreCounted)
<1>1. LInv /\ CInv => (CoresOfTwo => LargestCoreCounted)
  <2> SUFFICES ASSUME LInv, CInv, CoresOfTwo, CoreGroups # <<>>, HyperThreading
               PROVE  /\ \A row \in DOMAIN layout : Len(layout[row]) <= MaxThreadsPerCore
                      /\ \E row \in DOMAIN layout : Len(layout[row]) = MaxThreadsPerCore
    BY DEF LargestCoreCounted
  <2>1. Seen = Thread /\ DOMAIN layout = {Row(t) : t \in Thread}
    BY RowsWhole
  <2>2. MaxThreadsPerCore = 2
    BY <2>1 DEF CInv, HyperThreading
  <2>3. \A row \in DOMAIN layout :
          /\ layout[row] \in Seq(Thread)
          /\ \A i, j \in 1 .. Len(layout[row]) : i < j => layout[row][i] < layout[row][j]
          /\ \A t \in Thread : Row(t) = row <=> \E i \in 1 .. Len(layout[row]) : layout[row][i] = t
    BY <2>1 DEF LInv, LayoutOK
  <2>4. ASSUME NEW row \in DOMAIN layout
        PROVE  Len(layout[row]) <= 2
    <3> DEFINE s == layout[row]
    <3>1. /\ s \in Seq(Thread)
          /\ \A i, j \in 1 .. Len(s) : i < j => s[i] < s[j]
          /\ \A t \in Thread : Row(t) = row <=> \E i \in 1 .. Len(s) : s[i] = t
      BY <2>3
    <3> HIDE DEF s
    <3>2. ASSUME Len(s) > 2
          PROVE  FALSE
      <4>1. /\ s[1] \in Thread /\ s[2] \in Thread /\ s[3] \in Thread
            /\ s[1] < s[2] /\ s[2] < s[3]
            /\ Row(s[1]) = row /\ Row(s[2]) = row /\ Row(s[3]) = row
        BY <3>1, <3>2
      <4>2. cpu[s[1]].core = cpu[s[2]].core /\ cpu[s[2]].core = cpu[s[3]].core
        BY <4>1 DEF Row
      <4>3. \A t \in Thread : t \in Nat /\ (cpu[t].core = t \/ cpu[t].core = t - 1)
        BY BoxesAssumption DEF CoresOfTwo
      <4> QED
        BY <4>1, <4>2, <4>3
    <3>3. Len(s) \in Nat
      BY <3>1
    <3> QED
      BY <3>2, <3>3 DEF s
  <2>5. PICK t \in Thread : t - 1 \in Thread /\ SameCore(t, t - 1)
    BY DEF HyperThreading, CoresOfTwo
  <2>6. Row(t - 1) = Row(t) /\ Row(t) \in DOMAIN layout
    BY <2>1, <2>5, RowIsCore
  <2>7. /\ layout[Row(t)] \in Seq(Thread)
        /\ \E i \in 1 .. Len(layout[Row(t)]) : layout[Row(t)][i] = t
        /\ \E i \in 1 .. Len(layout[Row(t)]) : layout[Row(t)][i] = t - 1
    BY <2>3, <2>5, <2>6
  <2>8. t # t - 1
    BY BoxesAssumption
  <2>9. Len(layout[Row(t)]) \in Nat /\ Len(layout[Row(t)]) > 1
    BY <2>7, <2>8
  <2>10. Len(layout[Row(t)]) = 2
    <3>1. Row(t) \in DOMAIN layout
      BY <2>6
    <3>2. Len(layout[Row(t)]) <= 2
      BY <2>4, <3>1, Zenon
    <3>3. \A n : n \in Nat /\ n > 1 /\ n <= 2 => n = 2
      OBVIOUS
    <3> QED
      BY <2>9, <3>2, <3>3, Zenon
  <2> QED
    BY <2>2, <2>4, <2>6, <2>10
<1> QED
  BY <1>1, TopologyInvariance, CountsInvariance, PTL

-----------------------------------------------------------------------------
(***************************************************************************)
(* The grid.  First what the loop over the rows finds, for any distances.  *)
(***************************************************************************)
BestUpto(best, M, d) ==
  \A r \in 0 .. M :
    best[r] = IF r = 0 THEN 0
              ELSE IF best[r - 1] = 0 \/ d[r] < d[best[r - 1]] THEN r ELSE best[r - 1]

LEMMA BestExists ==
  ASSUME NEW M \in Nat, NEW d
  PROVE  \E best : DOMAIN best = 0 .. M /\ best = [r \in 0 .. M |-> best[r]] /\ BestUpto(best, M, d)
<1> DEFINE Known == {m \in Nat : \E best : best = [r \in 0 .. m |-> best[r]] /\ BestUpto(best, m, d)}
<1>1. 0 \in Known
  <2> DEFINE none == [r \in 0 .. 0 |-> 0]
  <2>1. none = [r \in 0 .. 0 |-> none[r]] /\ BestUpto(none, 0, d)
    BY DEF BestUpto
  <2> HIDE DEF none
  <2> QED
    BY <2>1
<1>2. ASSUME NEW m \in Known
      PROVE  m + 1 \in Known
  <2>1. PICK best : best = [r \in 0 .. m |-> best[r]] /\ BestUpto(best, m, d)
    OBVIOUS
  <2> DEFINE next == IF best[m] = 0 \/ d[m + 1] < d[best[m]] THEN m + 1 ELSE best[m]
             more == [r \in 0 .. m + 1 |-> IF r = m + 1 THEN next ELSE best[r]]
  <2>2. \A r \in 0 .. m : more[r] = best[r] /\ r \in 0 .. m + 1 /\ r # m + 1
    OBVIOUS
  <2>3. more[m + 1] = next
    OBVIOUS
  <2>4. more = [r \in 0 .. m + 1 |-> more[r]]
    OBVIOUS
  <2> HIDE DEF more
  <2>5. BestUpto(more, m + 1, d)
    <3> SUFFICES ASSUME NEW r \in 0 .. m + 1
                 PROVE  more[r] = IF r = 0 THEN 0
                          ELSE IF more[r - 1] = 0 \/ d[r] < d[more[r - 1]] THEN r ELSE more[r - 1]
      BY DEF BestUpto
    <3>1. CASE r = m + 1
      <4>1. r # 0 /\ r - 1 = m /\ m \in 0 .. m
        BY <3>1
      <4> QED
        BY <2>2, <2>3, <3>1, <4>1
    <3>2. CASE r # m + 1
      <4>1. r \in 0 .. m /\ (r # 0 => r - 1 \in 0 .. m)
        BY <3>2
      <4> QED
        BY <2>1, <2>2, <4>1 DEF BestUpto
    <3> QED
      BY <3>1, <3>2
  <2> QED
    BY <2>4, <2>5
<1>3. Nat \subseteq Known
  <2> HIDE DEF Known
  <2> QED
    BY <1>1, <1>2, SetInduction
<1> QED
  BY <1>3

LEMMA BestIsLeast ==
  ASSUME NEW M \in Nat, NEW d \in [Nat -> Int], NEW best, BestUpto(best, M, d), NEW r \in 1 .. M
  PROVE  best[r] \in 1 .. r /\ \A k \in 1 .. r : d[best[r]] <= d[k]
<1> DEFINE Holds(n) == best[n] \in 1 .. n /\ \A k \in 1 .. n : d[best[n]] <= d[k]
           Known == {n \in Nat : n \in 1 .. M => Holds(n)}
<1>1. 0 \in Known
  OBVIOUS
<1>2. ASSUME NEW n \in Known
      PROVE  n + 1 \in Known
  <2> SUFFICES ASSUME n + 1 \in 1 .. M
               PROVE  Holds(n + 1)
    OBVIOUS
  <2>1. best[n + 1] = IF best[n] = 0 \/ d[n + 1] < d[best[n]] THEN n + 1 ELSE best[n]
    <3>1. n + 1 \in 0 .. M /\ n + 1 # 0 /\ (n + 1) - 1 = n
      OBVIOUS
    <3> QED
      BY <3>1 DEF BestUpto
  <2>2. CASE n = 0
    <3>1. best[0] = 0
      BY DEF BestUpto
    <3> QED
      BY <2>1, <2>2, <3>1
  <2>3. CASE n # 0
    <3>1. n \in 1 .. M
      BY <2>3
    <3>2. Holds(n)
      BY <3>1
    <3>3. best[n] \in Nat /\ best[n] # 0 /\ d[best[n]] \in Int /\ d[n + 1] \in Int
      BY <3>2
    <3>4. \A k \in 1 .. n + 1 : k \in 1 .. n \/ k = n + 1
      OBVIOUS
    <3>5. CASE d[n + 1] < d[best[n]]
      BY <2>1, <3>2, <3>3, <3>4, <3>5
    <3>6. CASE ~(d[n + 1] < d[best[n]])
      BY <2>1, <3>2, <3>3, <3>4, <3>6
    <3> QED
      BY <3>5, <3>6
  <2> QED
    BY <2>2, <2>3
<1>3. Nat \subseteq Known
  <2> HIDE DEF Known
  <2> QED
    BY <1>1, <1>2, SetInduction
<1> QED
  BY <1>3

\* The largest class is no smaller than any.
LEMMA MaxRowsBounds ==
  ASSUME NEW groups, IsFiniteSet(DOMAIN groups), groups \in [DOMAIN groups -> Nat]
  PROVE  MaxRows(groups) \in Nat /\ \A c \in DOMAIN groups : groups[c] <= MaxRows(groups)
<1> DEFINE S == {0} \union Range(groups)
<1>1. S \in SUBSET Nat /\ S # {} /\ \A c \in DOMAIN groups : groups[c] \in S
  BY DEF Range
<1>2. IsFiniteSet(S)
  <2>1. groups \in Surjection(DOMAIN groups, Range(groups))
    BY DEF Surjection, Range
  <2>2. IsFiniteSet(Range(groups))
    BY <2>1, FS_Surjection
  <2> QED
    BY <2>2, FS_Singleton, FS_Union
<1> HIDE DEF S
<1>3. \E x \in S : \A y \in S : x >= y
  BY <1>1, <1>2, GreatestElement
<1>4. Max(S) \in S /\ \A y \in S : Max(S) >= y
  BY <1>3, Zenon DEF Max
<1>5. MaxRows(groups) = Max(S)
  BY DEF MaxRows, S
<1>6. Max(S) \in Nat /\ \A y \in S : y \in Nat /\ y <= Max(S)
  BY <1>1, <1>4
<1> QED
  BY <1>1, <1>5, <1>6

LEMMA Columns ==
  ASSUME NEW groups, groups \in [DOMAIN groups -> Nat], NEW rows \in Nat \ {0}
  PROVE  /\ \A c \in DOMAIN groups : mathCeilInInt(groups[c], rows) \in Nat
         /\ \A c \in DOMAIN groups :
              /\ mathCeilInInt(groups[c], rows) = (groups[c] + rows - 1) \div rows
              /\ rows * mathCeilInInt(groups[c], rows) >= groups[c]
              /\ groups[c] > rows * (mathCeilInInt(groups[c], rows) - 1)
<1> SUFFICES ASSUME NEW c \in DOMAIN groups
             PROVE  /\ mathCeilInInt(groups[c], rows) \in Nat
                    /\ mathCeilInInt(groups[c], rows) = (groups[c] + rows - 1) \div rows
                    /\ rows * mathCeilInInt(groups[c], rows) >= groups[c]
                    /\ groups[c] > rows * (mathCeilInInt(groups[c], rows) - 1)
  OBVIOUS
<1> DEFINE n == groups[c]
<1>1. n \in Nat
  OBVIOUS
<1> HIDE DEF n
<1>2. mathCeilInInt(n, rows) = (n + rows - 1) \div rows
  BY <1>1, RoundedUp DEF mathCeilInInt
<1>3. n \div rows \in Nat /\ n % rows \in 0 .. rows - 1 /\ n = rows * (n \div rows) + (n % rows)
  BY <1>1, Quotient
<1> DEFINE p == n \div rows
           s == n % rows
<1>4. mathCeilInInt(n, rows) = p + (IF s = 0 THEN 0 ELSE 1)
  BY DEF mathCeilInInt
<1>5. p \in Nat /\ s \in 0 .. rows - 1 /\ n = rows * p + s
  BY <1>3
<1> HIDE DEF p, s
<1>6. CASE s = 0
  BY <1>2, <1>4, <1>5, <1>6 DEF n
<1>7. CASE s # 0
  <2>1. rows * (p + 1) = rows * p + rows
    BY <1>5
  <2> QED
    BY <1>2, <1>4, <1>5, <1>7, <2>1 DEF n
<1> QED
  BY <1>6, <1>7

LEMMA DiffType ==
  ASSUME NEW groups, IsFiniteSet(DOMAIN groups), groups \in [DOMAIN groups -> Nat],
         NEW rows \in Nat \ {0}
  PROVE  TotalCols(groups, rows) \in Nat /\ Diff(groups, rows) \in Nat
<1> DEFINE f == [c \in DOMAIN groups |-> mathCeilInInt(groups[c], rows)]
<1>1. f \in [DOMAIN f -> Nat] /\ IsFiniteSet(DOMAIN f)
  BY Columns
<1>2. TotalCols(groups, rows) = SumFunction(f)
  BY DEF TotalCols
<1>3. TotalCols(groups, rows) \in Nat
  BY <1>1, <1>2, SumType
<1> QED
  BY <1>3 DEF Diff

\* The loop tries every number of rows up to the largest class, and finds one
\* when there is any processor.
LEMMA BestRowsLeast ==
  ASSUME NEW groups, IsFiniteSet(DOMAIN groups), groups \in [DOMAIN groups -> Nat],
         MaxRows(groups) # 0
  PROVE  /\ BestRows(groups) \in 1 .. MaxRows(groups)
         /\ \A r \in 1 .. MaxRows(groups) : Diff(groups, BestRows(groups)) <= Diff(groups, r)
<1> DEFINE M == MaxRows(groups)
           d == [r \in Nat |-> IF r = 0 THEN 0 ELSE Diff(groups, r)]
           Loop(best) == [r \in 0 .. M |->
             IF r = 0 THEN 0
             ELSE IF best[r - 1] = 0 \/ Diff(groups, r) < Diff(groups, best[r - 1])
                  THEN r ELSE best[r - 1]]
           best == CHOOSE best : best = Loop(best)
<1>1. M \in Nat /\ M # 0
  BY MaxRowsBounds
<1>2. d \in [Nat -> Int]
  BY DiffType
<1>3. BestRows(groups) = best[M]
  BY DEF BestRows
<1>4. \E f : f = Loop(f)
  <2>1. PICK f : f = [r \in 0 .. M |-> f[r]] /\ BestUpto(f, M, d)
    BY <1>1, BestExists
  <2>2. \A r \in 1 .. M : f[r] \in 1 .. r
    BY <1>1, <1>2, <2>1, BestIsLeast
  <2>3. ASSUME NEW r \in 0 .. M
        PROVE  f[r] = Loop(f)[r]
    <3>1. CASE r = 0
      BY <2>1, <3>1 DEF BestUpto
    <3>2. CASE r # 0
      <4>1. r \in 1 .. M /\ r \in Nat /\ r - 1 \in 0 .. M
        BY <1>1, <3>2
      <4>2. d[r] = Diff(groups, r)
        BY <3>2, <4>1
      <4>3. f[r - 1] # 0 => d[f[r - 1]] = Diff(groups, f[r - 1])
        <5> SUFFICES ASSUME f[r - 1] # 0
                     PROVE  d[f[r - 1]] = Diff(groups, f[r - 1])
          OBVIOUS
        <5>1. r - 1 # 0
          BY <1>1, <2>1, <4>1 DEF BestUpto
        <5>2. f[r - 1] \in 1 .. r - 1
          BY <1>1, <2>2, <4>1, <5>1
        <5> QED
          BY <1>1, <4>1, <5>2
      <4>4. f[r] = IF f[r - 1] = 0 \/ d[r] < d[f[r - 1]] THEN r ELSE f[r - 1]
        BY <2>1, <3>2, <4>1 DEF BestUpto
      <4> HIDE DEF d
      <4> QED
        BY <3>2, <4>2, <4>3, <4>4
    <3> QED
      BY <3>1, <3>2
  <2>4. f = Loop(f)
    BY <2>1, <2>3
  <2> QED
    BY <2>4
<1>5. best = Loop(best)
  BY <1>4
<1> HIDE DEF best
<1>6. \A r \in 0 .. M :
        best[r] = IF r = 0 THEN 0
                  ELSE IF best[r - 1] = 0 \/ Diff(groups, r) < Diff(groups, best[r - 1])
                       THEN r ELSE best[r - 1]
  BY <1>5
<1>7. \A r \in 0 .. M : best[r] \in 0 .. r
  <2> DEFINE Known == {n \in Nat : n \in 0 .. M => best[n] \in 0 .. n}
  <2>1. 0 \in Known
    BY <1>6
  <2>2. ASSUME NEW n \in Known
        PROVE  n + 1 \in Known
    <3> SUFFICES ASSUME n + 1 \in 0 .. M
                 PROVE  best[n + 1] \in 0 .. n + 1
      OBVIOUS
    <3>1. n \in 0 .. M /\ best[n] \in 0 .. n /\ n + 1 # 0 /\ (n + 1) - 1 = n
      BY <1>1
    <3>2. best[n + 1] = n + 1 \/ best[n + 1] = best[n]
      BY <1>6, <3>1
    <3> QED
      BY <3>1, <3>2
  <2>3. Nat \subseteq Known
    <3> HIDE DEF Known
    <3> QED
      BY <2>1, <2>2, SetInduction
  <2> QED
    BY <1>1, <2>3
<1>8. BestUpto(best, M, d)
  <2> SUFFICES ASSUME NEW r \in 0 .. M
               PROVE  best[r] = IF r = 0 THEN 0
                        ELSE IF best[r - 1] = 0 \/ d[r] < d[best[r - 1]] THEN r ELSE best[r - 1]
    BY DEF BestUpto
  <2>1. CASE r = 0
    BY <1>6, <2>1
  <2>2. CASE r # 0
    <3>1. r \in Nat /\ r - 1 \in 0 .. M /\ best[r - 1] \in Nat
      BY <1>1, <1>7, <2>2
    <3>2. d[r] = Diff(groups, r) /\ (best[r - 1] # 0 => d[best[r - 1]] = Diff(groups, best[r - 1]))
      BY <2>2, <3>1
    <3> HIDE DEF d
    <3> QED
      BY <1>6, <2>2, <3>2
  <2> QED
    BY <2>1, <2>2
<1>9. best[M] \in 1 .. M /\ \A k \in 1 .. M : d[best[M]] <= d[k]
  <2>1. M \in 1 .. M
    BY <1>1
  <2> HIDE DEF M, d
  <2> QED
    BY <1>1, <1>2, <1>8, <2>1, BestIsLeast
<1>10. \A k \in 1 .. M : d[k] = Diff(groups, k)
  BY <1>1
<1> HIDE DEF d
<1> QED
  BY <1>3, <1>9, <1>10

\* What getLayout returns for any numbers of processors, if there is one.
LEMMA GridFits ==
  ASSUME NEW groups, IsFiniteSet(DOMAIN groups), groups \in [DOMAIN groups -> Nat],
         NEW x \in DOMAIN groups, groups[x] # 0
  PROVE  /\ getLayout(groups).rows \in 1 .. MaxRows(groups)
         /\ \A r \in 1 .. MaxRows(groups) :
              Diff(groups, getLayout(groups).rows) <= Diff(groups, r)
         /\ \A c \in DOMAIN groups :
              /\ getLayout(groups).rows * getLayout(groups).columns[c] >= groups[c]
              /\ groups[c] > getLayout(groups).rows * (getLayout(groups).columns[c] - 1)
<1> DEFINE rows == BestRows(groups)
<1>1. MaxRows(groups) \in Nat /\ MaxRows(groups) # 0
  BY MaxRowsBounds
<1>2. rows \in 1 .. MaxRows(groups)
      /\ \A r \in 1 .. MaxRows(groups) : Diff(groups, rows) <= Diff(groups, r)
  BY <1>1, BestRowsLeast
<1>3. rows \in Nat \ {0}
  BY <1>1, <1>2
<1>4. /\ getLayout(groups).rows = rows
      /\ \A c \in DOMAIN groups :
           getLayout(groups).columns[c] = mathCeilInInt(groups[c], rows)
  BY DEF getLayout
<1> HIDE DEF rows
<1>5. \A c \in DOMAIN groups : /\ rows * mathCeilInInt(groups[c], rows) >= groups[c]
                               /\ groups[c] > rows * (mathCeilInInt(groups[c], rows) - 1)
  BY <1>3, Columns
<1> QED
  BY <1>2, <1>4, <1>5

\* getLayout is right about the numbers it is given as input.
LEMMA GridsBest == AllGridsBest
<1> SUFFICES ASSUME NEW groups \in LayoutInput
             PROVE  LET count == [c \in 0 .. Len(groups) - 1 |-> groups[c + 1]]
                        grid == getLayout(count)
                        size(rows) == SumFunction([c \in DOMAIN count |->
                                        (count[c] + rows - 1) \div rows])
                        far(rows) == LET d == 9 * size(rows) - 16 * rows
                                     IN IF d < 0 THEN -d ELSE d
                    IN  /\ \A c \in DOMAIN count :
                             /\ grid.rows * grid.columns[c] >= count[c]
                             /\ count[c] > grid.rows * (grid.columns[c] - 1)
                        /\ \A rows \in 1 .. Largest(groups) : far(grid.rows) <= far(rows)
  BY DEF AllGridsBest
<1> DEFINE count == [c \in 0 .. Len(groups) - 1 |-> groups[c + 1]]
           size(rows) == SumFunction([c \in DOMAIN count |-> (count[c] + rows - 1) \div rows])
           far(rows) == LET d == 9 * size(rows) - 16 * rows IN IF d < 0 THEN -d ELSE d
<1>1. groups \in Seq(Nat) /\ \E i \in DOMAIN groups : groups[i] # 0
  BY LayoutAssumption
<1>2. count \in [DOMAIN count -> Nat] /\ IsFiniteSet(DOMAIN count)
  <2>1. Len(groups) \in Nat /\ Len(groups) - 1 \in Int
    BY <1>1
  <2>2. IsFiniteSet(0 .. Len(groups) - 1)
    BY <2>1, FS_Interval
  <2> QED
    BY <1>1, <2>1, <2>2
<1>3. PICK x \in DOMAIN count : count[x] # 0
  <2>1. PICK i \in 1 .. Len(groups) : groups[i] # 0
    BY <1>1
  <2>2. i - 1 \in DOMAIN count /\ count[i - 1] = groups[i]
    BY <1>1, <2>1
  <2> QED
    BY <2>1, <2>2
<1>4. Largest(groups) \in Nat /\ Largest(groups) <= MaxRows(count)
  <2>1. ToSet(groups) \in SUBSET Nat /\ ToSet(groups) # {}
    BY <1>1 DEF ToSet
  <2>2. IsFiniteSet(ToSet(groups))
    <3>1. Len(groups) \in Nat /\ DOMAIN groups = 1 .. Len(groups)
          /\ groups \in [1 .. Len(groups) -> Nat]
      BY <1>1
    <3>2. ToSet(groups) = {groups[i] : i \in 1 .. Len(groups)}
      BY <3>1 DEF ToSet
    <3>3. groups \in Surjection(1 .. Len(groups), ToSet(groups))
      BY <3>1, <3>2 DEF Surjection
    <3>4. IsFiniteSet(1 .. Len(groups))
      BY <3>1, FS_Interval
    <3> QED
      BY <3>3, <3>4, FS_Surjection
  <2>3. PICK m \in ToSet(groups) : \A k \in ToSet(groups) : m >= k
    BY <2>1, <2>2, GreatestElement
  <2>4. \A k \in ToSet(groups) : k <= m
    BY <2>1, <2>3
  <2>5. Largest(groups) \in ToSet(groups)
    BY <2>3, <2>4, Zenon DEF Largest
  <2>6. PICK i \in 1 .. Len(groups) : groups[i] = Largest(groups)
    BY <1>1, <2>5 DEF ToSet
  <2>7. i - 1 \in DOMAIN count /\ count[i - 1] = Largest(groups)
    BY <1>1, <2>6
  <2> HIDE DEF count
  <2>8. count[i - 1] <= MaxRows(count)
    BY <1>2, <2>7, MaxRowsBounds
  <2> QED
    BY <2>1, <2>5, <2>7, <2>8
<1> HIDE DEF count
<1>5. ASSUME NEW rows \in Nat \ {0}
      PROVE  far(rows) = Diff(count, rows)
  <2>1. [c \in DOMAIN count |-> (count[c] + rows - 1) \div rows]
          = [c \in DOMAIN count |-> mathCeilInInt(count[c], rows)]
    BY <1>2, Columns
  <2>2. size(rows) = TotalCols(count, rows)
    BY <2>1 DEF TotalCols
  <2>3. TotalCols(count, rows) \in Nat
    BY <1>2, DiffType
  <2> HIDE DEF size
  <2>4. 9 * size(rows) - 16 * rows = TotalCols(count, rows) * 9 - rows * 16
    BY <2>2, <2>3
  <2> QED
    BY <2>4 DEF Diff
<1>6. /\ getLayout(count).rows \in 1 .. MaxRows(count)
      /\ \A r \in 1 .. MaxRows(count) : Diff(count, getLayout(count).rows) <= Diff(count, r)
      /\ \A c \in DOMAIN count :
           /\ getLayout(count).rows * getLayout(count).columns[c] >= count[c]
           /\ count[c] > getLayout(count).rows * (getLayout(count).columns[c] - 1)
  BY <1>2, <1>3, GridFits
<1>7. ASSUME NEW rows \in 1 .. Largest(groups)
      PROVE  far(getLayout(count).rows) <= far(rows)
  <2>1. rows \in 1 .. MaxRows(count) /\ MaxRows(count) \in Nat
    BY <1>2, <1>4, MaxRowsBounds
  <2>2. rows \in Nat \ {0} /\ getLayout(count).rows \in Nat \ {0}
    BY <1>6, <2>1
  <2> HIDE DEF far
  <2> QED
    BY <1>5, <1>6, <2>1, <2>2
<1> QED
  BY <1>6, <1>7 DEF count

-----------------------------------------------------------------------------
\* Some class has a processor as soon as one was added, and the grid is the
\* one getLayout returned for the classes.
GroupsOK ==
  /\ IsFiniteSet(DOMAIN ClassGroup) /\ ClassGroup \in [DOMAIN ClassGroup -> Nat]
  /\ DOMAIN ClassGroup # {} => \E c \in DOMAIN ClassGroup : ClassGroup[c] # 0

GridOK ==
  CoreGroups # <<>> =>
    CoreGroups = [c \in DOMAIN ClassGroup |-> [Rows |-> getLayout(ClassGroup).rows,
                                               Cols |-> getLayout(ClassGroup).columns[c]]]

LEMMA AddGroups ==
  ASSUME LInv, GroupsOK, NEW t \in Thread, AddProcessor(t)
  PROVE  GroupsOK'
<1> DEFINE class == cpu[t].class
<1>1. class \in Nat
  <2>1. cpu \in [Thread -> Place]
    BY BoxesAssumption DEF LInv, IInv, TypeOK
  <2> QED
    BY <2>1 DEF Place
<1>2. ClassGroup' = [c \in DOMAIN ClassGroup \union 0 .. class |->
                       Held(ClassGroup, c, 0) + (IF c = class THEN 1 ELSE 0)]
  BY DEF AddProcessor
<1> HIDE DEF class
<1>3. \A c : Held(ClassGroup, c, 0) \in Nat
  BY DEF GroupsOK, Held
<1>4. IsFiniteSet(DOMAIN ClassGroup \union 0 .. class)
  <2>1. IsFiniteSet(0 .. class)
    BY <1>1, FS_Interval
  <2> QED
    BY <2>1, FS_Union DEF GroupsOK
<1>5. class \in DOMAIN ClassGroup' /\ ClassGroup'[class] # 0
  BY <1>1, <1>2, <1>3
<1>6. ClassGroup' \in [DOMAIN ClassGroup' -> Nat]
  BY <1>2, <1>3
<1> QED
  BY <1>2, <1>4, <1>5, <1>6 DEF GroupsOK

LEMMA GridInvariance == SpecTopology => [](GroupsOK /\ GridOK)
<1>1. InitTopology => GroupsOK /\ GridOK
  BY FS_EmptySet DEF InitTopology, GroupsOK, GridOK
<1>2. LInv /\ GroupsOK /\ GridOK /\ [NextTopology]_allVars => (GroupsOK /\ GridOK)'
  <2> SUFFICES ASSUME LInv, GroupsOK, GridOK, [NextTopology]_allVars
               PROVE  GroupsOK' /\ GridOK'
    OBVIOUS
  <2>1. CASE \E t \in Thread : AddProcessor(t)
    BY <2>1, AddGroups, AddBeforeGrid DEF GridOK
  <2>2. CASE ChooseGrid
    BY <2>2 DEF ChooseGrid, GroupsOK, GridOK
  <2>3. CASE UNCHANGED <<ClassGroup, CoreGroups>>
    BY <2>3 DEF GroupsOK, GridOK
  <2> QED
    BY <2>1, <2>2, <2>3 DEF NextTopology, topologyVars, allVars
<1> QED
  BY <1>1, <1>2, TopologyInvariance, PTL DEF SpecTopology

(***************************************************************************)
(* The chosen grid has a cell for every processor of each class, and       *)
(* getLayout finds the best number of rows for any numbers of processors   *)
(* of which one is not zero (calculateLayout.go 14-46).                    *)
(***************************************************************************)
THEOREM GridIsBestAlways == SpecTopology => []GridIsBest
<1>1. GroupsOK /\ GridOK => GridIsBest
  <2> SUFFICES ASSUME GroupsOK, GridOK, CoreGroups # <<>>, NEW c \in DOMAIN ClassGroup
               PROVE  CoreGroups[c].Rows * CoreGroups[c].Cols >= ClassGroup[c]
    BY GridsBest DEF GridIsBest
  <2>1. PICK x \in DOMAIN ClassGroup : ClassGroup[x] # 0
    BY DEF GroupsOK
  <2>2. getLayout(ClassGroup).rows * getLayout(ClassGroup).columns[c] >= ClassGroup[c]
    BY <2>1, GridFits DEF GroupsOK
  <2>3. /\ CoreGroups[c].Rows = getLayout(ClassGroup).rows
        /\ CoreGroups[c].Cols = getLayout(ClassGroup).columns[c]
    BY DEF GridOK
  <2> QED
    BY <2>2, <2>3
<1> QED
  BY <1>1, GridInvariance, PTL
=============================================================================
