----------------------------- MODULE Hungarian -----------------------------
(***************************************************************************)
(* The assignment of rows to columns at least cost (hungarian in           *)
(* crates/bloqade-lanes-search/src/ops/entangling.rs), a column at a time. *)
(*                                                                         *)
(* Rows are taken one after the other.  For each a shortest path is grown  *)
(* from a virtual column 0 over reduced costs, the cost of a cell less the *)
(* duals u of its row and v of its column, until it meets a free column;   *)
(* then the columns along the path are handed on.  The matrix is a         *)
(* sequence of rows.  Rows and columns count from 1 and 0 is no row.       *)
(***************************************************************************)
EXTENDS Integers, Sequences, FiniteSets

CONSTANT Inf   \* i64::MAX / 2: more than any path costs

ASSUME InfAssumption == Inf \in Nat

VARIABLES solving,    \* "idle", "relax", "augment", "assigned" or "panicked"
          matrix, u, v, colToRow,
          row,        \* the row that is being assigned
          minCost, visited, prev,   \* of the path from `row`
          curCol

dualVars == <<u, v>>
pathVars == <<minCost, visited, prev>>
hungarianVars == <<solving, matrix, dualVars, colToRow, row, pathVars, curCol>>

Rows == DOMAIN matrix
Width(m) == Len(m[1])
Cols == 1..Width(matrix)
ColsAndZero == 0..Width(matrix)

NoMatrix == << <<0>> >>
Zeros(S) == [i \in S |-> 0]

HungarianIdle ==
    /\ solving = "idle" /\ matrix = NoMatrix
    /\ u = Zeros({1}) /\ v = Zeros(0..1) /\ colToRow = Zeros(0..1) /\ row = 1
    /\ minCost = [j \in 0..1 |-> Inf] /\ visited = {} /\ prev = Zeros(0..1) /\ curCol = 0

\* A path begins at column 0, which is linked to the row.
FreshPath(cols) ==
    /\ minCost' = [j \in cols |-> Inf] /\ visited' = {} /\ prev' = Zeros(cols)
    /\ curCol' = 0

\* What hungarian is called with: a row of costs for each, of the columns' number.
\* A cost is a u32, and Inf is beyond the sum of two of them.
Proper(m) ==
    /\ m \in Seq(Seq(Nat)) /\ m # << >>
    /\ \A i \in DOMAIN m : Len(m[i]) = Width(m) /\ \A j \in 1..Width(m) : 2 * m[i][j] < Inf

\* hungarian is called: it panics with more rows than columns.
Assign(m) ==
    /\ matrix' = m
    /\ u' = Zeros(DOMAIN m) /\ v' = Zeros(0..Width(m))
    /\ colToRow' = [j \in 0..Width(m) |-> IF j = 0 THEN 1 ELSE 0]
    /\ row' = 1
    /\ FreshPath(0..Width(m))
    /\ solving' = IF Len(m) <= Width(m) THEN "relax" ELSE "panicked"

----------------------------------------------------------------------------
Reduced(i, j) == matrix[i][j] - u[i] - v[j]

\* The first of the cheapest columns.
Cheapest(dist, open) ==
    CHOOSE j \in open : \A k \in open : dist[j] < dist[k] \/ (dist[j] = dist[k] /\ j <= k)

\* Plausible bug: a column that has a row is not asked to give it up.
OpenFree(done) == {j \in Cols \ done : colToRow[j] = 0}
Open(done) == Cols \ done

\* One turn of the loop: the path goes on from curCol, and the duals of all it
\* has visited are shifted by as much as the next column is away.
Relax ==
    /\ solving = "relax"
    /\ LET done == visited \cup {curCol}
           open == Open(done)
           i == colToRow[curCol]
           closer == {j \in open : Reduced(i, j) < minCost[j]}
           dist == [j \in ColsAndZero |-> IF j \in closer THEN Reduced(i, j) ELSE minCost[j]]
           next == Cheapest(dist, open)
           linked == {colToRow[j] : j \in done}
       IN  /\ visited' = done
           /\ prev' = [j \in ColsAndZero |-> IF j \in closer THEN curCol ELSE prev[j]]
           /\ u' = [k \in Rows |-> IF k \in linked THEN u[k] + dist[next] ELSE u[k]]
           /\ v' = [j \in ColsAndZero |-> IF j \in done THEN v[j] - dist[next] ELSE v[j]]
           /\ minCost' = [j \in ColsAndZero |-> IF j \in done THEN dist[j] ELSE dist[j] - dist[next]]
           /\ curCol' = next
           /\ solving' = IF colToRow[next] = 0 THEN "augment" ELSE "relax"
    /\ UNCHANGED <<matrix, colToRow, row>>

\* The column takes the row of the one before it on the path.  At column 0 the
\* next row is begun.
Augment ==
    /\ solving = "augment"
    /\ LET before == prev[curCol]
           handed == [colToRow EXCEPT ![curCol] = colToRow[before]]
       IN  IF before # 0
           THEN /\ colToRow' = handed /\ curCol' = before
                /\ UNCHANGED <<solving, row, pathVars>>
           ELSE IF row = Len(matrix)
           THEN /\ colToRow' = handed /\ curCol' = 0 /\ solving' = "assigned"
                /\ UNCHANGED <<row, pathVars>>
           ELSE /\ row' = row + 1
                /\ colToRow' = [handed EXCEPT ![0] = row + 1]
                /\ FreshPath(ColsAndZero)
                /\ solving' = "relax"
    /\ UNCHANGED <<matrix, dualVars>>

HungarianNext == Relax \/ Augment

\* The column of every row.
ColumnOf == [i \in Rows |-> CHOOSE j \in Cols : colToRow[j] = i]

----------------------------------------------------------------------------
Price(choice) ==
    LET upTo[i \in 0..Len(matrix)] == IF i = 0 THEN 0 ELSE upTo[i - 1] + matrix[i][choice[i]]
    IN  upTo[Len(matrix)]
OwnColumns == {c \in [Rows -> Cols] : \A i, k \in Rows : c[i] = c[k] => i = k}

\* The whole assignment is at least cost: no other way to give the rows columns
\* of their own is cheaper, whatever was handed on along the paths.
AssignmentOptimal ==
    solving = "assigned" =>
        /\ ColumnOf \in OwnColumns
        /\ \A c \in OwnColumns : Price(ColumnOf) <= Price(c)
=============================================================================
