------------------------------ MODULE TopoSort ------------------------------
(***************************************************************************)
(* EmDaemon::TopoSort (middleware/exec/src/em_daemon.cpp): the launch      *)
(* order of a table of processes, by Kahn's algorithm.                     *)
(*                                                                         *)
(* A table is any assignment of names and dependency names to its rows:    *)
(* two rows may have one name, a dependency may name nothing, and rows may *)
(* depend on each other in a circle.  A name written twice in a depends_on *)
(* adds and removes one edge twice, so depends_on is a set here.           *)
(***************************************************************************)
EXTENDS Naturals, Sequences, FiniteSets

CONSTANTS
  Rows,    \* rows of the table
  Names    \* process names

ASSUME TableIsFinite == Rows \in Nat /\ IsFiniteSet(Names)

Row == 1..Rows

VARIABLES
  name, dependsOn,   \* the table
  sortPc,            \* where the algorithm is, then its verdict
  row,               \* the row at which a loop over the table stands
  index,             \* index[n]: the row found under a name, 0 when there is none
  indeg,             \* indeg[v]: edges into v not yet removed
  q, qi,             \* the queue, and how much of it has been taken
  todo,              \* rows of adj[q[qi]] still to be visited
  ordered            \* the result

table == <<name, dependsOn>>
sortVars == <<table, sortPc, row, index, indeg, q, qi, todo, ordered>>

----------------------------------------------------------------------------
\* A second row of a name takes the place of the first.
Index ==
  /\ sortPc = "index" /\ row <= Rows
  /\ index' = [index EXCEPT ![name[row]] = row]
  /\ row' = row + 1
  /\ UNCHANGED <<table, sortPc, indeg, q, qi, todo, ordered>>

IndexDone ==
  /\ sortPc = "index" /\ row > Rows
  /\ sortPc' = "build"
  /\ UNCHANGED <<table, row, index, indeg, q, qi, todo, ordered>>

Adj(u) == {v \in Row : \E d \in dependsOn[v] : index[d] = u}

Unknown == \E v \in Row : \E d \in dependsOn[v] : index[d] = 0

BuildUnknown ==
  /\ sortPc = "build" /\ Unknown
  /\ sortPc' = "unknown"
  /\ UNCHANGED <<table, row, index, indeg, q, qi, todo, ordered>>

Build ==
  /\ sortPc = "build" /\ ~Unknown
  /\ indeg' = [v \in Row |-> Cardinality(dependsOn[v])]
  /\ sortPc' = "fill" /\ row' = 1
  /\ UNCHANGED <<table, index, q, qi, todo, ordered>>

Fill ==
  /\ sortPc = "fill" /\ row <= Rows
  /\ q' = IF indeg[row] = 0 THEN Append(q, row) ELSE q
  /\ row' = row + 1
  /\ UNCHANGED <<table, sortPc, index, indeg, qi, todo, ordered>>

FillDone ==
  /\ sortPc = "fill" /\ row > Rows
  /\ sortPc' = "take"
  /\ UNCHANGED <<table, row, index, indeg, q, qi, todo, ordered>>

Take ==
  /\ sortPc = "take" /\ qi < Len(q)
  /\ qi' = qi + 1
  /\ ordered' = Append(ordered, q[qi + 1])
  /\ todo' = Adj(q[qi + 1])
  /\ sortPc' = "visit"
  /\ UNCHANGED <<table, row, index, indeg, q>>

VisitTestsFirst(v) ==   \* mutant: indeg is tested before it is decremented
  /\ sortPc = "visit" /\ v \in todo /\ \A w \in todo : v <= w
  /\ indeg' = [indeg EXCEPT ![v] = @ - 1]
  /\ q' = IF indeg[v] = 0 THEN Append(q, v) ELSE q
  /\ todo' = todo \ {v}
  /\ UNCHANGED <<table, sortPc, row, index, qi, ordered>>

Visit(v) ==
  /\ sortPc = "visit" /\ v \in todo /\ \A w \in todo : v <= w
  /\ indeg' = [indeg EXCEPT ![v] = @ - 1]
  /\ q' = IF indeg[v] = 1 THEN Append(q, v) ELSE q
  /\ todo' = todo \ {v}
  /\ UNCHANGED <<table, sortPc, row, index, qi, ordered>>

VisitDone ==
  /\ sortPc = "visit" /\ todo = {}
  /\ sortPc' = "take"
  /\ UNCHANGED <<table, row, index, indeg, q, qi, todo, ordered>>

Finish ==
  /\ sortPc = "take" /\ qi = Len(q)
  /\ sortPc' = IF Len(ordered) = Rows THEN "ordered" ELSE "cycle"
  /\ UNCHANGED <<table, row, index, indeg, q, qi, todo, ordered>>

----------------------------------------------------------------------------
SortStopped == sortPc \in {"ordered", "cycle", "unknown"} /\ UNCHANGED sortVars

SortInit ==
  /\ name \in [Row -> Names] /\ dependsOn \in [Row -> SUBSET Names]
  /\ sortPc = "index" /\ row = 1 /\ index = [n \in Names |-> 0]
  /\ indeg = [v \in Row |-> 0] /\ q = << >> /\ qi = 0 /\ todo = {} /\ ordered = << >>

SortNext ==
  \/ Index \/ IndexDone \/ BuildUnknown \/ Build \/ Fill \/ FillDone
  \/ Take \/ VisitDone \/ Finish \/ SortStopped
  \/ \E v \in Row : Visit(v)

SortSpec == SortInit /\ [][SortNext]_sortVars

----------------------------------------------------------------------------
(* Properties *)

\* Every variable keeps its shape; no row loses more edges than it has.
SortTypeOK ==
  /\ name \in [Row -> Names] /\ dependsOn \in [Row -> SUBSET Names]
  /\ sortPc \in {"index", "build", "fill", "take", "visit", "ordered", "cycle", "unknown"}
  /\ row \in 1..(Rows + 1) /\ index \in [Names -> 0..Rows]
  /\ indeg \in [Row -> Nat] /\ q \in Seq(Row) /\ qi \in 0..Len(q)
  /\ todo \in SUBSET Row /\ ordered \in Seq(Row)

\* An accepted table comes out with every row once.
OrderIsPermutation ==
  sortPc = "ordered" =>
    /\ Len(ordered) = Rows
    /\ \A r \in Row : \E k \in Row : ordered[k] = r
    /\ \A k, m \in Row : ordered[k] = ordered[m] => k = m

\* In an accepted table each process comes after those it depends on, which is
\* what StartAll relies on.
DependenciesComeFirst ==
  sortPc = "ordered" =>
    \A k \in Row : \A d \in dependsOn[ordered[k]] :
      \E m \in 1..(k - 1) : name[ordered[m]] = d

\* A table is refused as cyclic only when some of its rows wait for each other.
CycleIsReal ==
  sortPc = "cycle" =>
    \E C \in SUBSET Row : /\ C # {}
                          /\ \A v \in C : \E d \in dependsOn[v] : \E u \in C : name[u] = d

\* Configure accepts or refuses a table rightly: an accepted one comes out
\* whole and in the order StartAll needs, a refused one has a circle.
SortSound == OrderIsPermutation /\ DependenciesComeFirst /\ CycleIsReal
=============================================================================
