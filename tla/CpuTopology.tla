----------------------------- MODULE CpuTopology -----------------------------
(***************************************************************************)
(* CpuSets.Init: the processors are added to the layout one by one, in the *)
(* order of their numbers, then the grid of each efficiency class is       *)
(* chosen.  The boxes of ProcessorBoxes are made from what it leaves, so   *)
(* the dialog takes clicks only after it.                                  *)
(***************************************************************************)
EXTENDS ProcessorBoxes, Integers, SequencesExt

CONSTANT LayoutInput  \* numbers of processors of each class, for getLayout

ASSUME LayoutAssumption ==
  \A groups \in LayoutInput : groups \in Seq(Nat) /\ \E i \in DOMAIN groups : groups[i] # 0

VARIABLES
  added,             \* how many processors were added
  layout,            \* CoreLayout: the rows of threads that are not empty
  ClassGroup,        \* how many processors each class has
  MaxThreadsPerCore, \* as is
  flags,             \* the flags of CpuSets that are set
  CoreGroups         \* rows and columns for each class, none at first

topologyVars == <<added, layout, ClassGroup, MaxThreadsPerCore, flags, CoreGroups>>
allVars      == <<vars, topologyVars>>

Processors == Cardinality(Thread)

InitTopology ==
  /\ Init
  /\ added = 0 /\ layout = [row \in {} |-> <<>>] /\ ClassGroup = [c \in {} |-> 0]
  /\ MaxThreadsPerCore = 0 /\ flags = {} /\ CoreGroups = <<>>

-----------------------------------------------------------------------------
(***************************************************************************)
(* One processor.  A row is named by node, cache, class and core.          *)
(***************************************************************************)
RowOfThread(t) == <<cpu[t].numa, cpu[t].cache, cpu[t].class, t>>
Row(t) == <<cpu[t].numa, cpu[t].cache, cpu[t].class, cpu[t].core>>

Held(f, x, none) == IF x \in DOMAIN f THEN f[x] ELSE none

add(t) ==
  layout' = [row \in DOMAIN layout \union {Row(t)} |->
               IF row = Row(t) THEN Append(Held(layout, row, <<>>), t) ELSE layout[row]]

\* The distance of a processor from the first of its core, in a byte.
ThreadsUpToDistance(max, distance) == IF max < distance THEN distance ELSE max
ThreadsUpTo(max, distance) == IF max < distance THEN distance + 1 ELSE max

AddProcessor(t) ==
  /\ t = added /\ t \in Thread
  /\ add(t)
  /\ MaxThreadsPerCore' = ThreadsUpTo(MaxThreadsPerCore, (t - cpu[t].core) % 256)
  /\ ClassGroup' = [c \in DOMAIN ClassGroup \union 0 .. cpu[t].class |->
                      Held(ClassGroup, c, 0) + (IF c = cpu[t].class THEN 1 ELSE 0)]
  /\ flags' = flags \union (IF cpu[t].core # t THEN {"HyperThreading"} ELSE {})
                    \union (IF cpu[t].class # 0 THEN {"EfficiencyClass"} ELSE {})
                    \union (IF cpu[t].cache # 0 THEN {"LastLevelCache"} ELSE {})
                    \union (IF cpu[t].numa # 0 THEN {"NumaNode"} ELSE {})
  /\ added' = added + 1
  /\ UNCHANGED <<vars, CoreGroups>>

-----------------------------------------------------------------------------
(***************************************************************************)
(* The grid: of all numbers of rows up to the largest class, the first for *)
(* which the columns of all classes beside each other come nearest to 16:9.*)
(***************************************************************************)
mathCeilInInt(n, d) == (n \div d) + (IF n % d = 0 THEN 0 ELSE 1)

MaxRows(groups) == Max({0} \union Range(groups))
TotalCols(groups, rows) == SumFunction([c \in DOMAIN groups |-> mathCeilInInt(groups[c], rows)])

Diff(groups, rows) ==
  LET d == TotalCols(groups, rows) * 9 - rows * 16 IN IF d < 0 THEN -d ELSE d

\* The best number of rows up to r; zero while none was tried.
BestRowsButLast(groups) == MaxRows(groups)
BestRows(groups) ==
  LET best[r \in 0 .. MaxRows(groups)] ==
        IF r = 0 THEN 0
        ELSE LET last == best[r - 1] IN
             IF last = 0 \/ Diff(groups, r) < Diff(groups, last) THEN r ELSE last
  IN  best[MaxRows(groups)]

getLayout(groups) ==
  LET rows == BestRows(groups) IN
  [rows |-> rows, columns |-> [c \in DOMAIN groups |-> mathCeilInInt(groups[c], rows)]]

ChooseGrid ==
  /\ added = Processors
  /\ CoreGroups = <<>>
  /\ CoreGroups' = LET grid == getLayout(ClassGroup) IN
                   [c \in DOMAIN ClassGroup |-> [Rows |-> grid.rows, Cols |-> grid.columns[c]]]
  /\ UNCHANGED <<vars, added, layout, ClassGroup, MaxThreadsPerCore, flags>>

NextTopology ==
  \/ \E t \in Thread : AddProcessor(t)
  \/ ChooseGrid
  \/ CoreGroups # <<>> /\ Next /\ UNCHANGED topologyVars

SpecTopology == InitTopology /\ [][NextTopology]_allVars

-----------------------------------------------------------------------------
(***************************************************************************)
(* The layout built processor by processor is the one the boxes and the    *)
(* presets are about: rows are cores, each processor is in one row, the    *)
(* first of a row has the least number, createCCD finds a class of a cache *)
(* exactly for the processors that have boxes, and the flags tell which    *)
(* presets there are (CoreLayout.add, CpuSets.Init, CheckBoxList.create).  *)
(***************************************************************************)
ClassesOf(numa, cache) == {row[3] : row \in {r \in DOMAIN layout : r[1] = numa /\ r[2] = cache}}

FoundBy(row) == \E i \in 0 .. Cardinality(ClassesOf(row[1], row[2])) - 1 : i = row[3]

LayoutIsRight ==
  CoreGroups # <<>> =>
    /\ \A t, u \in Thread :
         SameCore(t, u) <=> \E row \in DOMAIN layout : {t, u} \subseteq ToSet(layout[row])
    /\ \A row \in DOMAIN layout : \A i, j \in DOMAIN layout[row] :
         i < j => layout[row][i] < layout[row][j]
    /\ Boxes = UNION {ToSet(layout[row]) : row \in {r \in DOMAIN layout : FoundBy(r)}}
    /\ NotFirst = UNION {ToSet(Tail(layout[row])) : row \in {r \in DOMAIN layout : FoundBy(r)}}
    /\ HyperThreading <=> "HyperThreading" \in flags
    /\ EfficiencyClass <=> "EfficiencyClass" \in flags
    /\ LastLevelCache <=> "LastLevelCache" \in flags

(***************************************************************************)
(* Margins are scaled by the number of threads of the largest core         *)
(* (CalculateMargins, dialog.go 814-827): with hyper-threading that is     *)
(* MaxThreadsPerCore, though it is taken from distances between numbers.   *)
(***************************************************************************)
LargestCoreCounted ==
  CoreGroups # <<>> /\ HyperThreading =>
    /\ \A row \in DOMAIN layout : Len(layout[row]) <= MaxThreadsPerCore
    /\ \E row \in DOMAIN layout : Len(layout[row]) = MaxThreadsPerCore

\* The largest class, and whether getLayout is right about all classes given.
Largest(groups) == CHOOSE n \in ToSet(groups) : \A m \in ToSet(groups) : m <= n

AllGridsBest ==
  \A groups \in LayoutInput :
    LET count == [c \in 0 .. Len(groups) - 1 |-> groups[c + 1]]
        grid == getLayout(count)
        size(rows) == SumFunction([c \in DOMAIN count |-> (count[c] + rows - 1) \div rows])
        far(rows) == LET d == 9 * size(rows) - 16 * rows IN IF d < 0 THEN -d ELSE d
    IN  /\ \A c \in DOMAIN count :
             /\ grid.rows * grid.columns[c] >= count[c]
             /\ count[c] > grid.rows * (grid.columns[c] - 1)
        /\ \A rows \in 1 .. Largest(groups) : far(grid.rows) <= far(rows)

(***************************************************************************)
(* Where a grid was chosen, getLayout gives every processor a cell and     *)
(* leaves no column empty, and no other number of rows, of those up to the *)
(* largest class, comes nearer to 16:9 (calculateLayout.go 14-46), for the *)
(* classes that were found and for those of LayoutInput.                   *)
(***************************************************************************)
GridIsBest ==
  CoreGroups # <<>> =>
    /\ \A c \in DOMAIN ClassGroup : CoreGroups[c].Rows * CoreGroups[c].Cols >= ClassGroup[c]
    /\ AllGridsBest
=============================================================================
