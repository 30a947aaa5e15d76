---------------------------- MODULE ProcessorBoxes ----------------------------
(***************************************************************************)
(* The processors in the dialog: one check box for each logical processor, *)
(* grouped by NUMA node, last level cache, efficiency class and core, and  *)
(* the preset buttons.  The handlers keep two things, the boxes that are   *)
(* checked and the bits of the draft's mask; only the bits are stored.     *)
(***************************************************************************)
EXTENDS Naturals, FiniteSets

CONSTANTS
  Thread,   \* the logical processors, numbered as Windows numbers them
  Topology  \* the processors the program may find itself on

Place == [numa : Nat, cache : Nat, class : Nat, core : Nat]

ASSUME BoxesAssumption ==
  /\ Thread \subseteq Nat /\ IsFiniteSet(Thread)
  /\ Topology \subseteq [Thread -> Place]

VARIABLES
  cpu,     \* where each logical processor is
  bits,    \* the mask of the draft
  checked, \* the boxes that are checked
  crashed  \* a handler called a box that was never made

vars == <<cpu, bits, checked, crashed>>

-----------------------------------------------------------------------------
(***************************************************************************)
(* The layout CoreLayout.add builds: a core is a row of one class of one   *)
(* cache of one node, its threads in the order of their numbers.           *)
(***************************************************************************)
SameCache(t, u) == cpu[t].numa = cpu[u].numa /\ cpu[t].cache = cpu[u].cache
SameCore(t, u)  == /\ SameCache(t, u)
                   /\ cpu[t].class = cpu[u].class
                   /\ cpu[t].core = cpu[u].core

Classes(t) == {cpu[u].class : u \in {v \in Thread : SameCache(t, v)}}

\* The classes of a cache are looked up from their number less one down to
\* zero; a processor of a class beyond has no box.
HasBoxButFirst(t) == cpu[t].class + 1 < Cardinality(Classes(t))
HasBox(t) == cpu[t].class < Cardinality(Classes(t))
Boxes     == {t \in Thread : HasBox(t)}

\* The caches are counted anew in each node.
CacheIndex(t) ==
  Cardinality({cpu[u].cache : u \in {v \in Thread : cpu[v].numa = cpu[t].numa
                                                    /\ cpu[v].cache < cpu[t].cache}})
OfCache(n)  == {t \in Boxes : CacheIndex(t) = n}
OfClass(n)  == {t \in Thread : cpu[t].class = n}
NotFirst    == {t \in Boxes : \E u \in Thread : SameCore(t, u) /\ u < t}

\* Which presets there are: CpuSets.Init compares every processor with zero,
\* and with its own number, because it never updates what it compares with.
HyperThreading  == \E t \in Thread : cpu[t].core # t
EfficiencyClass == \E t \in Thread : cpu[t].class # 0
LastLevelCache  == \E t \in Thread : cpu[t].cache # 0

Init ==
  /\ cpu \in Topology
  /\ bits \in SUBSET Thread
  /\ checked = bits \intersect Boxes
  /\ crashed = FALSE

-----------------------------------------------------------------------------
(***************************************************************************)
(* The presets: the processors a button sets and those it clears.          *)
(***************************************************************************)
allOnBeyond == [on |-> Thread \union {Cardinality(Thread)}, off |-> {}]
allOn  == [on |-> Thread, off |-> {}]
allOff == [on |-> {}, off |-> Thread]

htOffFirst == [on |-> {}, off |-> Boxes \ NotFirst]
htOff      == [on |-> {}, off |-> NotFirst]

pCoreOnlyAdds == [on |-> OfClass(1), off |-> {}]
pCoreOnly     == [on |-> OfClass(1), off |-> OfClass(0)]
eCoreOnly     == [on |-> OfClass(0), off |-> OfClass(1)]

LLCAdds(n) == [on |-> OfCache(n), off |-> {}]
LLC(n)     == [on |-> OfCache(n), off |-> Boxes \ OfCache(n)]

Presets ==
  {allOn, allOff}
    \union (IF HyperThreading THEN {htOff} ELSE {})
    \union (IF EfficiencyClass THEN {pCoreOnly, eCoreOnly} ELSE {})
    \union (IF LastLevelCache THEN {LLC(0), LLC(1)} ELSE {})

\* The mask after a preset, and whether it meets a processor without a box.
MaskToggled(preset) ==
  ((bits \ preset.off) \union (preset.off \ bits)) \union preset.on
Mask(preset)    == (bits \ preset.off) \union preset.on
Crashes(preset) == ~(preset.on \union preset.off \subseteq Boxes)

Press(preset) ==
  /\ ~crashed
  /\ bits' = Mask(preset)
  /\ checked' = (checked \ preset.off) \union (preset.on \intersect Boxes)
  /\ crashed' = Crashes(preset)
  /\ UNCHANGED cpu

Click(t) ==
  LET toggled(S) == IF t \in S THEN S \ {t} ELSE S \union {t} IN
  /\ ~crashed
  /\ t \in Boxes
  /\ checked' = toggled(checked)
  /\ bits' = toggled(bits)
  /\ UNCHANGED <<cpu, crashed>>

Next ==
  \/ \E preset \in Presets : Press(preset)
  \/ \E t \in Thread : Click(t)

Spec == Init /\ [][Next]_vars

-----------------------------------------------------------------------------
TypeOK ==
  /\ cpu \in Topology
  /\ bits \subseteq Thread
  /\ checked \subseteq Boxes
  /\ crashed \in BOOLEAN

(***************************************************************************)
(* What the user sees is what is stored: through any number of clicks and  *)
(* presets the boxes that are checked are the bits of the mask, although   *)
(* each handler updates the two in its own way (Toggle, Set, SetChecked).  *)
(***************************************************************************)
BoxesShowMask == ~crashed => checked = bits \intersect Boxes

(***************************************************************************)
(* "HT Off" (dialog.go:320) leaves at most one thread of each core, and    *)
(* every core that was on keeps one if its first thread was on.  Threads   *)
(* are of one core when Windows gives them one core index.                 *)
(***************************************************************************)
OneThreadPerCore ==
  HyperThreading =>
    /\ \A t, u \in Mask(htOff) : cpu[t].core = cpu[u].core => t = u
    /\ \A t \in bits : (\A u \in Thread : cpu[u].core = cpu[t].core => t <= u)
                         => t \in Mask(htOff)

(***************************************************************************)
(* "CPU Sets with higher numerical values of this field have home         *)
(* processors that are faster but less power-efficient"                    *)
(* (cpusetinformation.go:24): "P-Core Only" leaves exactly the processors  *)
(* of the highest class there is, "E-Core Only" exactly those of the       *)
(* lowest, whatever was checked before.                                    *)
(***************************************************************************)
Fastest == {t \in Thread : \A u \in Thread : cpu[u].class <= cpu[t].class}
Slowest == {t \in Thread : \A u \in Thread : cpu[t].class <= cpu[u].class}

ClassPresets ==
  EfficiencyClass => Mask(pCoreOnly) = Fastest /\ Mask(eCoreOnly) = Slowest

(***************************************************************************)
(* "This value is the same for all CPU Sets in a group that are on         *)
(* processors that share cache with each other" (cpusetinformation.go:23): *)
(* the button of a last level cache leaves exactly the processors of one   *)
(* cache.                                                                  *)
(***************************************************************************)
CachePresets ==
  LastLevelCache =>
    \A n \in {0, 1} : \E t \in Thread : Mask(LLC(n)) = {u \in Thread : SameCache(t, u)}

\* Every preset there is can be pressed, "All On" (dialog.go:306) among them:
\* no handler calls a box that was never made.
PresetsWork == ~crashed
=============================================================================
