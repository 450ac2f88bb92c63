-------------------------------- MODULE Columns --------------------------------
(***************************************************************************)
(* Column and row numbers of the code matrix (SiameseCommon.h).  A column  *)
(* number is a place in the stream modulo the column period; sums and      *)
(* differences are made on 32-bit unsigned numbers.                        *)
(***************************************************************************)
EXTENDS Integers

kColumnValuePeriod == 253
kRowValuePeriod == 255
kColumnPeriod == 4194304
kRowPeriod == kRowValuePeriod

Column == {n \in Nat : n < kColumnPeriod}
Row == {n \in Nat : n < kRowPeriod}

Unsigned(n) == n % (kColumnPeriod * 1024)

IsColumnDeltaNegative(columnDelta) == columnDelta >= kColumnPeriod \div 2

SubtractColumns(column_a, column_b) == Unsigned(column_a - column_b) % kColumnPeriod

AddColumns(column_a, column_b) == Unsigned(column_a + column_b) % kColumnPeriod

IncrementColumn1(column) == AddColumns(column, 1)

\* The factors of a column and of a row in the matrix.
GetColumnValue(column) == 3 + (Unsigned(column * 199) % kColumnValuePeriod)

GetRowValue(row) == 1 + (Unsigned(row + 1) % kRowValuePeriod)

\* The column number of a place in the stream.
ColumnOf(place) == place % kColumnPeriod
=============================================================================
