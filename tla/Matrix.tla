------------------------------- MODULE Matrix -------------------------------
(***************************************************************************)
(* The integer build of src/platform/src/util/matrix.c, which makefile:12  *)
(* selects.  A matrix is its rows, its columns and its store, of which the *)
(* first rows*columns entries are in use.  The asserts of the code assign  *)
(* (`=` for `==`): a call whose operands do not fit changes the shape of   *)
(* its first operand and goes on.  The output may be an operand: a loop    *)
(* then reads what its turns before wrote.                                 *)
(*                                                                         *)
(* MatrixInversion is left out: it eliminates with the right half of a     *)
(* matrix on the stack of which only the diagonal was written.  Numbers    *)
(* stay small: the overflow of an int is not modelled.                     *)
(***************************************************************************)
EXTENDS Integers, FiniteSets, Functions

CONSTANTS Matrices,    \* struct matrix variables of the caller, at zero at first
          Dimensions,  \* bound: the rows and columns asked for
          DataArrays,  \* what MatrixCreate copies: functions from indices to integers
          Halves,      \* the scales, in halves
          MaxCalls     \* bound on the calls

Dim == CHOOSE d \in Dimensions : \A e \in Dimensions : e <= d
Store == 0 .. Dim * Dim - 1

ASSUME MatrixAssumption ==
    /\ Dimensions \subseteq Nat \ {0} /\ Dimensions # {} /\ IsFiniteSet(Dimensions)
    /\ DataArrays \subseteq [Store -> Int]
    /\ Halves \subseteq Int
    /\ MaxCalls \in Nat

VARIABLES
    matrix,        \* the matrices
    return_value,  \* what the last MatrixTrace or DeterminantValue stored
    trapped,       \* the program ended: a division by zero or a failed assertion
    output,        \* history: the matrix the last call wrote
    wanted,        \* history: its entries, or the number, the call is to give; or Unsaid
    subtracting,   \* history: the last result is of MatrixSubtraction
    calls          \* calls made

matrixVars == <<matrix, return_value, trapped, output, wanted, subtracting, calls>>

\* The code gives no meaning to the result, or gives it to none.
Unsaid == <<>>

MatrixInit ==
    /\ matrix = [x \in Matrices |-> [rows |-> 0, columns |-> 0, store |-> [i \in Store |-> 0]]]
    /\ return_value = 0
    /\ trapped = FALSE
    /\ output \in Matrices
    /\ wanted = Unsaid
    /\ subtracting = FALSE
    /\ calls = 0

\* Entry (r, c), counted from 0, as GetMatrixValue finds it.
Index(m, r, c) == r * m.columns + c
GetMatrixValue(m, r, c) == m.store[Index(m, r, c)]

\* A matrix as mathematics has it.
Places(rows, columns) == (0 .. rows - 1) \X (0 .. columns - 1)
Entries(m) == [p \in Places(m.rows, m.columns) |-> GetMatrixValue(m, p[1], p[2])]

\* The store after f(row, column) is written row by row, stride entries to a
\* row; the rest of it stays.
Stored(m, rows, stride, f(_, _)) ==
    [i \in Store |-> IF i < rows * stride THEN f(i \div stride, i % stride) ELSE m.store[i]]

MatrixClear(m) == Stored(m, m.rows, m.columns, LAMBDA r, c : 0)

\* The matrices after a loop over rows and columns: its turn at (r, c) writes
\* value(m, r, c) at place(r, c) of the store of z, m being the matrices the
\* turns before left.
Loop(shaped, z, rows, columns, place(_, _), value(_, _, _)) ==
    LET after[i \in 0 .. rows * columns] ==
            IF i = 0 THEN shaped
            ELSE LET m == after[i - 1]
                     r == (i - 1) \div columns
                     c == (i - 1) % columns
                 IN  [m EXCEPT ![z].store[place(r, c)] = value(m, r, c)]
    IN  after[rows * columns]

\* The product of the values of a function.
ProductOf(f) == FoldFunction(LAMBDA a, b : a * b, 1, f)

\* Integer division of C: towards zero.
Quotient(a, b) ==
    LET q == (IF a < 0 THEN -a ELSE a) \div (IF b < 0 THEN -b ELSE b)
    IN  IF (a < 0) = (b < 0) THEN q ELSE -q

Called ==
    /\ ~trapped
    /\ calls < MaxCalls
    /\ calls' = calls + 1

\* A call that writes z, and leaves the matrices so.
Leaves(z, matrices, want) ==
    /\ Called
    /\ matrix' = matrices
    /\ output' = z
    /\ wanted' = want
    /\ UNCHANGED <<return_value, trapped>>

Writes(z, matrices, want) == Leaves(z, matrices, want) /\ subtracting' = FALSE

\* A call that ends the program.
Trapped ==
    /\ Called
    /\ trapped' = TRUE
    /\ UNCHANGED <<matrix, return_value, output, wanted, subtracting>>

\* Operands the caller filled before.
Filled(x) == matrix[x].rows > 0
-----------------------------------------------------------------------------
MatrixCreate(z, row, column, data_array) ==
    Writes(z, [matrix EXCEPT ![z] = [rows |-> row, columns |-> column,
               store |-> Stored(@, row, column, LAMBDA r, c : data_array[r * column + c])]],
           [p \in Places(row, column) |-> data_array[p[1] * column + p[2]]])

UnitMatrixCreate(z, dimension) ==
    Writes(z, [matrix EXCEPT ![z] = [rows |-> dimension, columns |-> dimension,
               store |-> Stored(@, dimension, dimension, LAMBDA r, c : IF r = c THEN 1 ELSE 0)]],
           [p \in Places(dimension, dimension) |-> IF p[1] = p[2] THEN 1 ELSE 0])

\* What MatrixAdd and MatrixSubtraction both do, word for word: the output is
\* given as many columns as rows, and the sum.
Summed(x, y, z) ==
    LET in1 == [matrix EXCEPT ![x].rows = matrix[y].rows, ![x].columns = matrix[y].columns]
        shaped == [in1 EXCEPT ![z].rows = in1[x].rows, ![z].columns = in1[x].rows]
    IN  Loop(shaped, z, shaped[x].rows, shaped[x].columns,
             LAMBDA r, c : Index(shaped[x], r, c),
             LAMBDA m, r, c : GetMatrixValue(m[x], r, c) + GetMatrixValue(m[y], r, c))

\* Square operands of one shape; the output may be one of them.
SquareAlike(x, y) ==
    matrix[x].rows = matrix[y].rows /\ matrix[x].columns = matrix[y].columns /\ matrix[x].rows = matrix[x].columns

MatrixAdd(x, y, z) ==
    /\ Filled(x) /\ Filled(y)
    /\ Writes(z, Summed(x, y, z),
              IF SquareAlike(x, y)
              THEN [p \in DOMAIN Entries(matrix[y]) |-> Entries(matrix[x])[p] + Entries(matrix[y])[p]]
              ELSE Unsaid)

MatrixSubtraction(x, y, z) ==
    /\ Filled(x) /\ Filled(y)
    /\ Leaves(z, Summed(x, y, z),
              IF SquareAlike(x, y)
              THEN [p \in DOMAIN Entries(matrix[y]) |-> Entries(matrix[x])[p] - Entries(matrix[y])[p]]
              ELSE Unsaid)
    /\ subtracting' = TRUE

(* Mutant: the row of the second factor is taken for its column.            *)
ProductEntryFlipped(a, b, total_counts, r, c) ==
    SumFunction([k \in 0 .. total_counts - 1 |-> GetMatrixValue(a, r, k) * GetMatrixValue(b, c, k)])

ProductEntry(a, b, total_counts, r, c) ==
    SumFunction([k \in 0 .. total_counts - 1 |-> GetMatrixValue(a, r, k) * GetMatrixValue(b, k, c)])

\* Entry (r, c) of the product of a and b in mathematics.
RowByColumn(a, b, n, r, c) == SumFunction([k \in 0 .. n - 1 |-> a[<<r, k>>] * b[<<k, c>>]])

\* The output is cleared before the operands are read: an operand that is the
\* output is lost.
MatrixMultiplication(x, y, z) ==
    LET in1 == [matrix EXCEPT ![x].columns = matrix[y].rows]
        shaped == [in1 EXCEPT ![z].rows = in1[x].rows, ![z].columns = in1[y].columns]
        clear == [shaped EXCEPT ![z].store = MatrixClear(shaped[z])]
    IN  /\ Filled(x) /\ Filled(y)
        /\ Writes(z, Loop(clear, z, clear[z].rows, clear[z].columns,
                          LAMBDA r, c : Index(clear[z], r, c),
                          LAMBDA m, r, c : ProductEntry(m[x], m[y], clear[x].columns, r, c)),
                  IF z \notin {x, y} /\ matrix[x].columns = matrix[y].rows
                  THEN [p \in Places(matrix[x].rows, matrix[y].columns) |->
                           RowByColumn(Entries(matrix[x]), Entries(matrix[y]), matrix[y].rows, p[1], p[2])]
                  ELSE Unsaid)

\* GetMatrixValue(m, row+start_row, ...) multiplies only start_row by the
\* columns: the part is right when it has one row or the matrix one column,
\* and the output, shaped first, is another matrix.
GetChildMatrix(x, start_row, end_row, start_column, end_column, z) ==
    LET a == matrix[x]
        rows == end_row - start_row + 1
        columns == end_column - start_column + 1
        shaped == [matrix EXCEPT ![z].rows = rows, ![z].columns = columns]
    IN  /\ Filled(x)
        /\ IF end_row < a.rows /\ end_column < a.columns
           THEN Writes(z,
                       Loop(shaped, z, rows, columns,
                            LAMBDA r, c : Index(shaped[z], r, c),
                            LAMBDA m, r, c : m[x].store[r + start_row * m[x].columns + c + start_column]),
                       IF z # x /\ (rows = 1 \/ a.columns = 1)
                       THEN [p \in Places(rows, columns) |-> Entries(a)[<<p[1] + start_row, p[2] + start_column>>]]
                       ELSE Unsaid)
           ELSE Trapped

\* The product with a double is cut to an int.
MatrixScale(z, halves) ==
    LET a == matrix[z]
    IN  /\ Filled(z)
        /\ Writes(z, [matrix EXCEPT ![z].store =
                         Stored(a, a.rows, a.columns, LAMBDA r, c : Quotient(GetMatrixValue(a, r, c) * halves, 2))],
                  IF halves % 2 = 0
                  THEN [p \in DOMAIN Entries(a) |-> Entries(a)[p] * (halves \div 2)]
                  ELSE Unsaid)

\* In place, the columns are the rows before the rows are set to them, and the
\* entries above the diagonal are copied below it before they are read.
MatrixTranspose(x, z) ==
    LET a == matrix[x]
        turned == [matrix EXCEPT ![z].columns = a.rows]
        shaped == [turned EXCEPT ![z].rows = turned[x].columns]
    IN  /\ Filled(x)
        /\ Writes(z, Loop(shaped, z, shaped[x].rows, shaped[x].columns,
                          LAMBDA r, c : Index(shaped[z], c, r),
                          LAMBDA m, r, c : GetMatrixValue(m[x], r, c)),
                  IF z # x
                  THEN [p \in Places(a.columns, a.rows) |-> Entries(a)[<<p[2], p[1]>>]]
                  ELSE Unsaid)
-----------------------------------------------------------------------------
\* A call that stores a number; it leaves x in the shape in1 has.
Gives(x, in1, value, want) ==
    /\ Called
    /\ matrix' = [matrix EXCEPT ![x] = in1]
    /\ return_value' = value
    /\ wanted' = want
    /\ subtracting' = FALSE
    /\ UNCHANGED <<trapped, output>>

\* A number, told from the entries of a matrix by its one, empty, place.
Number(v) == [p \in {<<>>} |-> v]

MatrixTrace(x) ==
    LET in1 == [matrix[x] EXCEPT !.rows = matrix[x].columns]
        diagonal == [k \in 0 .. in1.rows - 1 |-> GetMatrixValue(in1, k, k)]
    IN  /\ Filled(x)
        /\ Gives(x, in1, SumFunction(diagonal),
                 IF matrix[x] = in1
                 THEN Number(SumFunction([k \in 0 .. in1.rows - 1 |-> Entries(in1)[<<k, k>>]]))
                 ELSE Unsaid)

\* One probe of the elimination: the row has its multiple of row level taken
\* from it.  base_value held the entry on the diagonal for the first probe; after it
\* it holds the last product.  exact says that it still is that entry, and divides.
Probe(s, level, probe, n) ==
    LET below == s.store[probe * n + level]
        scale == Quotient(below, s.base_value)
    IN  IF below = 0 \/ s.stopped THEN s
        ELSE IF s.base_value = 0 THEN [s EXCEPT !.stopped = TRUE]
        ELSE [stopped |-> FALSE,
              base_value |-> scale * s.store[level * n + n - 1],
              exact |-> s.exact /\ s.base_value = s.store[level * n + level] /\ scale * s.base_value = below,
              store |-> [i \in Store |->
                           IF i \in probe * n + level .. probe * n + n - 1
                           THEN s.store[i] - scale * s.store[level * n + (i % n)]
                           ELSE s.store[i]]]

\* The walk over the entries of the columns: it starts a level on its diagonal
\* and probes the rows below it.
EliminateEntry(s, level, probe, n) ==
    IF probe = level THEN [s EXCEPT !.base_value = s.store[level * n + level]]
    ELSE IF probe > level THEN Probe(s, level, probe, n)
    ELSE s

\* The entries below the diagonal, level by level.
Eliminate(store, n) ==
    LET after[i \in 0 .. n * n] ==
            IF i = 0 THEN [store |-> store, base_value |-> 0, exact |-> TRUE, stopped |-> FALSE]
            ELSE EliminateEntry(after[i - 1], (i - 1) \div n, (i - 1) % n, n)
    IN  after[n * n]

\* The determinant: over the permutations, the signed products.
Inversions(p, n) == {q \in (0 .. n - 1) \X (0 .. n - 1) : q[1] < q[2] /\ p[q[1]] > p[q[2]]}
Sign(p, n) == IF Cardinality(Inversions(p, n)) % 2 = 0 THEN 1 ELSE -1
Determinant(e, n) ==
    SumFunction([p \in Bijection(0 .. n - 1, 0 .. n - 1) |-> Sign(p, n) * ProductOf([i \in 0 .. n - 1 |-> e[<<i, p[i]>>]])])

\* The second elimination changes only entries above the diagonal, and
\* returns 0 early where the product of the diagonal is 0.
DeterminantValue(x) ==
    LET in1 == [matrix[x] EXCEPT !.rows = matrix[x].columns]
        n == in1.rows
        done == Eliminate(in1.store, n)
        value == ProductOf([k \in 0 .. n - 1 |-> done.store[k * n + k]])
    IN  /\ Filled(x)
        /\ IF done.stopped
           THEN Trapped
           ELSE Gives(x, in1, value,
                      IF matrix[x] = in1 /\ done.exact THEN Number(Determinant(Entries(in1), n)) ELSE Unsaid)
-----------------------------------------------------------------------------
MatrixNext ==
    \/ \E z \in Matrices :
          \/ \E row, column \in Dimensions, data_array \in DataArrays : MatrixCreate(z, row, column, data_array)
          \/ \E dimension \in Dimensions : UnitMatrixCreate(z, dimension)
          \/ \E halves \in Halves : MatrixScale(z, halves)
          \/ MatrixTrace(z) \/ DeterminantValue(z)
    \/ \E x, z \in Matrices :
          \/ MatrixTranspose(x, z)
          \/ \E end_row \in 0 .. matrix[x].rows, end_column \in 0 .. matrix[x].columns :
                \E start_row \in 0 .. end_row, start_column \in 0 .. end_column :
                    GetChildMatrix(x, start_row, end_row, start_column, end_column, z)
          \/ \E y \in Matrices : MatrixAdd(x, y, z) \/ MatrixSubtraction(x, y, z) \/ MatrixMultiplication(x, y, z)

MatrixSpec == MatrixInit /\ [][MatrixNext]_matrixVars
-----------------------------------------------------------------------------
\* The last call gave what it is to give, if that is said.
ResultRight ==
    wanted # Unsaid =>
        IF DOMAIN wanted = {<<>>} THEN wanted = Number(return_value)
        ELSE Entries(matrix[output]) = wanted

\* A call gives the sum, the product, the part, the multiple, the transpose,
\* the trace or the determinant of its operands, through any chain of calls
\* and whatever the store held: where the shapes fit, where MatrixAdd gets
\* square matrices (the output may be one of them; a product, a part or a
\* transpose is not got in place), and where every quotient DeterminantValue
\* takes is that of an entry by the entry on the diagonal above it, without a
\* rest.
MatrixRight == ~subtracting => ResultRight

\* MatrixSubtraction (matrix.h:27) gives the difference of square operands.
SubtractionRight == subtracting => ResultRight
=============================================================================
