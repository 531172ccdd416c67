------------------------------ MODULE CsvQuery ------------------------------
(***************************************************************************)
(* A query over the rows of a table, changed in place by each call of the  *)
(* chain. A cell is [number, text]: the set of the number it reads as, or  *)
(* empty, and its rank among texts. Rows are their positions in the table; *)
(* all have the columns last selected. `order` is the last order_by, and   *)
(* whether its keys were in order at all: "nan" reads as a number too, and *)
(* is neither below, equal to nor above any other.                         *)
(***************************************************************************)
EXTENDS Integers, SequencesExt, Functions, Sorting

CONSTANTS Table,       \* sequence of [column -> cell]
          Headers, FilterValues,   \* the columns, and the cells filters compare with
          NaN      \* what float() makes of "nan"
VARIABLES query, order

TableCells == [number : SUBSET (Int \cup {NaN}), text : Int]
ASSUME NaNAssumption == NaN \notin Int
ASSUME TableAssumption == Table \in Seq([Headers -> TableCells]) /\ FilterValues \subseteq TableCells

Comparisons == {"=", "!=", ">", "<", ">=", "<="}
Unordered == [column |-> "", ascending |-> TRUE, total |-> FALSE]

IsNumeric(cell) == cell.number # {}
Number(cell) == CHOOSE n \in cell.number : TRUE
IsNaN(cell) == IsNumeric(cell) /\ Number(cell) = NaN

Holds(op, a, b) ==
    CASE op = "="  -> a = b
      [] op = "!=" -> a # b
      [] op = ">"  -> a > b
      [] op = "<"  -> a < b
      [] op = ">=" -> a >= b
      [] op = "<=" -> a <= b
      [] OTHER -> FALSE

\* Variant: numbers are compared as texts.
EvaluateTexts(cell, op, value) == Holds(op, cell.text, value.text)

\* As numbers when both are, as texts otherwise.
EvaluateCell(cell, op, value) ==
    IF IsNumeric(cell) /\ IsNumeric(value) THEN
        IF IsNaN(cell) \/ IsNaN(value) THEN op = "!=" ELSE Holds(op, Number(cell), Number(value))
    ELSE Holds(op, cell.text, value.text)

Cell(row, column) == Table[row][column]

\* The order of the sort keys: numbers first.
Before(a, b) ==
    \/ IsNumeric(a) /\ ~IsNumeric(b)
    \/ IsNumeric(a) /\ IsNumeric(b) /\ ~IsNaN(a) /\ ~IsNaN(b) /\ Number(a) < Number(b)
    \/ ~IsNumeric(a) /\ ~IsNumeric(b) /\ a.text < b.text

\* The rows whose cell of a column compares so.
RowsWhere(column, op, value) == {row \in DOMAIN Table : EvaluateCell(Cell(row, column), op, value)}

\* A column known to the table but selected away fails at the first row.
Readable(column) == column \in Headers /\ (query.rows # <<>> => column \in query.columns)

-----------------------------------------------------------------------------
QueryInit ==
    /\ query = [rows |-> [i \in DOMAIN Table |-> i], columns |-> Headers]
    /\ order = Unordered

Select(columns) ==
    /\ \A column \in columns : Readable(column)
    /\ query' = [query EXCEPT !.columns = columns]
    /\ UNCHANGED order

Where(column, op, value) ==
    /\ Readable(column)
    /\ query' = [query EXCEPT !.rows = Filtered(@, RowsWhere(column, op, value))]
    /\ UNCHANGED order

\* list.sort keeps rows of equal keys as they stand, reversed or not.
Earliest(rows, column, ascending) ==
    {pair \in (DOMAIN rows) \X (DOMAIN rows) :
        LET a == Cell(rows[pair[1]], column)    b == Cell(rows[pair[2]], column)
            comes == IF ascending THEN Before(a, b) ELSE Before(b, a)
            follows == IF ascending THEN Before(b, a) ELSE Before(a, b)
        IN  comes \/ (~follows /\ pair[1] < pair[2])}
Sorted(rows, column, ascending) ==
    LET positions == SortedBy(DOMAIN rows, Earliest(rows, column, ascending))
    IN  [k \in DOMAIN rows |-> rows[positions[k]]]

\* With a nan in the column the keys have no order, and the rows come out in
\* one that depends on how they stood and on how list.sort compares: any.
HasNaN(column) == \E i \in DOMAIN query.rows : IsNaN(Cell(query.rows[i], column))
Shuffled(rows) ==
    {[k \in DOMAIN rows |-> rows[places[k]]] :
        places \in {p \in [DOMAIN rows -> DOMAIN rows] : IsInjective(p)}}
Arrangements(column, ascending) ==
    IF HasNaN(column) THEN Shuffled(query.rows) ELSE {Sorted(query.rows, column, ascending)}

OrderBy(column, ascending) ==
    /\ Readable(column)
    /\ \E rows \in Arrangements(column, ascending) : query' = [query EXCEPT !.rows = rows]
    /\ order' = [column |-> column, ascending |-> ascending, total |-> ~HasNaN(column)]

Limit(n) ==
    /\ query' = [query EXCEPT !.rows = SubSeq(@, 1, Min({n, Len(@)}))]
    /\ UNCHANGED order

QueryNext ==
    \/ \E columns \in SUBSET Headers \ {{}} : Select(columns)
    \/ \E column \in Headers :
          \/ \E op \in Comparisons \cup {"~"}, value \in FilterValues : Where(column, op, value)
          \/ \E ascending \in BOOLEAN : OrderBy(column, ascending)
    \/ \E n \in DOMAIN Table : Limit(n)

queryVars == <<query, order>>

QuerySpec == QueryInit /\ [][QueryNext]_queryVars

-----------------------------------------------------------------------------
QueryTypeOK ==
    /\ query.rows \in Seq(DOMAIN Table) /\ query.columns \subseteq Headers
    /\ order = Unordered \/ order \in [column : Headers, ascending : BOOLEAN, total : BOOLEAN]

Of(column) == {Cell(query.rows[i], column) : i \in DOMAIN query.rows}
Uniform(cells) == \A a, b \in cells : ~IsNaN(a) /\ (IsNumeric(a) <=> IsNumeric(b))

\* Whatever is selected, filtered, sorted and cut, a row is there once. Unless
\* the last order_by met a nan, filters, limits and selections keep the rows in
\* the order it gave them; and where compares as order_by does, so that on a
\* column all of numbers or all of texts "<" keeps the beginning of what
\* ascends, and ">=" the rest. A nan is in neither part (query.py:7-26, 50-70).
FiltersKeepOrder ==
    /\ IsInjective(query.rows)
    /\ order.total =>
          \A i, j \in DOMAIN query.rows : i < j =>
              LET a == Cell(query.rows[i], order.column)    b == Cell(query.rows[j], order.column)
              IN  IF order.ascending THEN ~Before(b, a) ELSE ~Before(a, b)
    /\ order.total /\ order.ascending =>
          \A value \in FilterValues : Uniform(Of(order.column) \cup {value}) =>
              query.rows = Filtered(query.rows, RowsWhere(order.column, "<", value))
                  \o Filtered(query.rows, RowsWhere(order.column, ">=", value))
=============================================================================
