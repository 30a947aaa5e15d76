--------------------------- MODULE MCProcessorBoxes ---------------------------
(***************************************************************************)
(* Small processors of the kinds the debug builds of the program fake.     *)
(***************************************************************************)
EXTENDS CpuTopology

At(numa, cache, class, core) == [numa |-> numa, cache |-> cache, class |-> class, core |-> core]

PairOf(t) == t - (t % 2)

\* GetCpuInformation.11400.go: every core with two threads.
TwoThreads == [t \in Thread |-> At(0, 0, 0, PairOf(t))]
\* GetCpuInformation.13600KF.go: fast cores with two threads, slow ones with one.
Hybrid == [t \in Thread |-> IF t < 4 THEN At(0, 0, 1, PairOf(t)) ELSE At(0, 0, 0, t)]
\* GetCpuInformation.9950X3D.go: two caches, numbered from one.
TwoCaches == [t \in Thread |-> At(0, IF t < 4 THEN 1 ELSE 4, 0, PairOf(t))]

Shipped == {TwoThreads, Hybrid, TwoCaches}

\* GetCpuInformation.FakeNumaCCD12Core.go: a cache in each of two nodes.
TwoNodes == [t \in Thread |-> IF t < 3 THEN At(0, 0, 0, t) ELSE At(3, 3, 0, t)]
Nodes    == {TwoNodes}

\* Numbers of processors of one to three classes, not all of them zero.
Layouts == {groups \in UNION {[1 .. n -> 0 .. 32 \div n] : n \in 1 .. 3} :
              \E i \in DOMAIN groups : groups[i] # 0}
=============================================================================
