-------------------------- MODULE SpecTablesProofs --------------------------
(***************************************************************************)
(* Proofs about SpecTables, for every stream of callbacks and every size of *)
(* the tables: no callback of specgen writes outside of its table, and the  *)
(* tables hold all that was reported in them.                              *)
(***************************************************************************)
EXTENDS SpecTables, SequenceTheorems, TLAPS

-----------------------------------------------------------------------------
(* The inductive invariant. *)

Text == Seq(STRING)
Column == [title : Text, align : Int, width : Nat]
TableOf(r, c) ==
  [name : Text, nrows : {r}, ncols : {c}, columns : [0..(c - 1) -> Column],
   cells : [0..(r - 1) -> [0..(c - 1) -> Text]]]
AnyTable == UNION {TableOf(r, c) : r \in Nat, c \in Nat}
HeardTable == [name : Text, rows : Seq(Seq(Text))]
Places == {"doc", "table", "thead", "tbody", "tr", "cell"}

ParserType(p) ==
  p \in [tables : Seq(AnyTable), id : Text, table : Nat, trow : Int, tcol : Int, nthrows : Nat,
         failed : BOOLEAN, stray : BOOLEAN]
PlaceType(at) == at \in [in : Places, ncols : Nat, nrows : Nat, rows : Nat, cols : Nat]
HeardType(h) == h \in [id : Text, inside : BOOLEAN, tables : Seq(HeardTable)]

InRow(at) == at.in \in {"tr", "cell"}

(* What is reported stays within what was announced.                        *)
PlaceFits(at) ==
  /\ at.rows <= at.nrows + 1
  /\ at.cols <= at.ncols
  /\ InRow(at) => at.rows >= 1
  /\ at.in = "cell" => at.cols >= 1

(* The counters of specgen are one behind those of the rows and cells       *)
(* reported, in a table of the size announced.                              *)
Numbered(p, at) ==
  p.table # 0 =>
    /\ p.table = Len(p.tables) /\ at.in # "doc" /\ p.nthrows = 1
    /\ Current(p).ncols = at.ncols /\ Current(p).nrows = at.nrows
    /\ p.trow = at.rows - 1
    /\ InRow(at) => p.tcol = at.cols - 1

(* What was heard has the rows and cells reported, and the name that waits. *)
LastHeard(h) == h.tables[Len(h.tables)]
Recorded(p, at, h) ==
  /\ Len(p.tables) = Len(h.tables)
  /\ h.inside <=> p.table # 0
  /\ h.inside => /\ h.id = NoId /\ Len(LastHeard(h).rows) = at.rows
                 /\ InRow(at) => Len(LastHeard(h).rows[at.rows]) = at.cols
  /\ ~h.inside /\ ~p.failed => p.id = h.id

AllHold(p, h) == \A n \in DOMAIN p.tables : Holds(p.tables[n], h.tables[n])

Agrees(p, at, h) ==
  /\ ParserType(p) /\ PlaceType(at) /\ HeardType(h)
  /\ PlaceFits(at) /\ Numbered(p, at) /\ Recorded(p, at, h) /\ AllHold(p, h)
  /\ ~p.stray

TablesInv == Agrees(parser, place, heard)

-----------------------------------------------------------------------------
(* Tables, and the helpers. *)

LEMMA MinOfTwo ==
  ASSUME NEW a \in Int, NEW b \in Int
  PROVE  Min({a, b}) = IF a <= b THEN a ELSE b
BY DEF Min

LEMMA MaxOfTwo ==
  ASSUME NEW a \in Int, NEW b \in Int
  PROVE  Max({a, b}) = IF a >= b THEN a ELSE b
BY DEF Max

LEMMA TableParts ==
  ASSUME NEW t \in AnyTable
  PROVE  /\ t.name \in Text /\ t.nrows \in Nat /\ t.ncols \in Nat
         /\ t.columns \in [0..(t.ncols - 1) -> Column]
         /\ t.cells \in [0..(t.nrows - 1) -> [0..(t.ncols - 1) -> Text]]
<1>1. PICK r \in Nat, c \in Nat : t \in TableOf(r, c)
  BY DEF AnyTable
<1> QED
  BY <1>1 DEF TableOf

(* table_new gives an empty table.                                          *)
LEMMA NewTable ==
  ASSUME NEW name \in Text, NEW r \in Nat, NEW c \in Nat
  PROVE  /\ TableNew(name, r, c) \in AnyTable
         /\ Holds(TableNew(name, r, c), [name |-> name, rows |-> <<>>])
<1> DEFINE t == TableNew(name, r, c)
<1>1. t \in TableOf(r, c)
  <2>1. [title |-> <<>>, align |-> -1, width |-> 0] \in Column
    BY DEF Column, Text
  <2> QED
    BY <2>1 DEF TableNew, TableOf, Text
<1>2. t \in AnyTable
  BY <1>1 DEF AnyTable
<1>3. Holds(t, [name |-> name, rows |-> <<>>])
  <2>1. ASSUME NEW i, NEW j
        PROVE  CellHeard([name |-> name, rows |-> <<>>], i, j) = <<>>
    BY DEF CellHeard
  <2>2. t.name = name
    BY DEF TableNew
  <2>3. ASSUME NEW k \in 0..(t.ncols - 1)
        PROVE  /\ t.columns[k].title = <<>> /\ t.columns[k].width = 0
               /\ \A i \in 0..(t.nrows - 1) : t.cells[i][k] = <<>>
    BY <2>3 DEF TableNew
  <2> HIDE DEF t
  <2> QED
    BY <2>1, <2>2, <2>3 DEF Holds
<1> QED
  BY <1>2, <1>3

(* Another column, and another cell, in a table.                            *)
LEMMA ColumnSet ==
  ASSUME NEW t \in AnyTable, NEW c \in 0..(t.ncols - 1), NEW col \in Column
  PROVE  LET u == [t EXCEPT !.columns = [t.columns EXCEPT ![c] = col]]
         IN /\ u \in AnyTable
            /\ u.name = t.name /\ u.nrows = t.nrows /\ u.ncols = t.ncols /\ u.cells = t.cells
            /\ \A k \in 0..(t.ncols - 1) : u.columns[k] = IF k = c THEN col ELSE t.columns[k]
<1> DEFINE u == [t EXCEPT !.columns = [t.columns EXCEPT ![c] = col]]
<1>1. PICK r \in Nat, n \in Nat : t \in TableOf(r, n)
  BY DEF AnyTable
<1>2. n = t.ncols /\ t.columns \in [0..(n - 1) -> Column]
  BY <1>1 DEF TableOf
<1>3. [t.columns EXCEPT ![c] = col] \in [0..(n - 1) -> Column]
  BY <1>2
<1>4. u \in TableOf(r, n)
  BY <1>1, <1>3 DEF TableOf
<1>5. u.columns = [t.columns EXCEPT ![c] = col]
  BY <1>1 DEF TableOf
<1>6. \A k \in 0..(t.ncols - 1) : u.columns[k] = IF k = c THEN col ELSE t.columns[k]
  BY <1>2, <1>5
<1>7. u.name = t.name /\ u.nrows = t.nrows /\ u.ncols = t.ncols /\ u.cells = t.cells
  BY <1>1 DEF TableOf
<1> QED
  BY <1>4, <1>6, <1>7 DEF AnyTable

LEMMA CellSet ==
  ASSUME NEW t \in AnyTable, NEW r \in 0..(t.nrows - 1), NEW c \in 0..(t.ncols - 1),
         NEW cell \in Text
  PROVE  LET u == [t EXCEPT !.cells = [t.cells EXCEPT ![r] = [t.cells[r] EXCEPT ![c] = cell]]]
         IN /\ u \in AnyTable
            /\ u.name = t.name /\ u.nrows = t.nrows /\ u.ncols = t.ncols /\ u.columns = t.columns
            /\ \A i \in 0..(t.nrows - 1), k \in 0..(t.ncols - 1) :
                 u.cells[i][k] = IF i = r /\ k = c THEN cell ELSE t.cells[i][k]
<1> DEFINE cells == [t.cells EXCEPT ![r] = [t.cells[r] EXCEPT ![c] = cell]]
<1> DEFINE u == [t EXCEPT !.cells = cells]
<1>1. PICK m \in Nat, n \in Nat : t \in TableOf(m, n)
  BY DEF AnyTable
<1>2. m = t.nrows /\ n = t.ncols /\ t.cells \in [0..(m - 1) -> [0..(n - 1) -> Text]]
  BY <1>1 DEF TableOf
<1>3. [t.cells[r] EXCEPT ![c] = cell] \in [0..(n - 1) -> Text]
  BY <1>2
<1>4. cells \in [0..(m - 1) -> [0..(n - 1) -> Text]]
  BY <1>2, <1>3
<1>5. \A i \in 0..(t.nrows - 1), k \in 0..(t.ncols - 1) :
        cells[i][k] = IF i = r /\ k = c THEN cell ELSE t.cells[i][k]
  BY <1>2
<1> HIDE DEF cells
<1>6. u \in TableOf(m, n)
  BY <1>1, <1>4 DEF TableOf
<1>7. /\ u.cells = cells
      /\ u.name = t.name /\ u.nrows = t.nrows /\ u.ncols = t.ncols /\ u.columns = t.columns
  BY <1>1 DEF TableOf
<1> QED
  BY <1>5, <1>6, <1>7 DEF AnyTable, cells

-----------------------------------------------------------------------------
(* What is heard. *)

(* Other rows for the last of the tables heard.                             *)
LEMMA RowsHeard ==
  ASSUME NEW h, HeardType(h), Len(h.tables) # 0, NEW rows \in Seq(Seq(Text))
  PROVE  LET n == Len(h.tables)
             g == [h EXCEPT !.tables = [h.tables EXCEPT ![n] = [h.tables[n] EXCEPT !.rows = rows]]]
         IN /\ HeardType(g) /\ g.id = h.id /\ g.inside = h.inside
            /\ Len(g.tables) = n /\ g.tables[n].name = h.tables[n].name /\ g.tables[n].rows = rows
            /\ \A m \in 1..n : m # n => g.tables[m] = h.tables[m]
<1> DEFINE n == Len(h.tables)
<1> DEFINE last == [h.tables[n] EXCEPT !.rows = rows]
<1> DEFINE tables == [h.tables EXCEPT ![n] = last]
<1>1. h.tables \in Seq(HeardTable) /\ n \in Nat /\ n \in 1..n /\ n \in DOMAIN h.tables
  BY DEF HeardType
<1>2. h.tables[n] \in HeardTable
  BY <1>1
<1>3. last \in HeardTable /\ last.name = h.tables[n].name /\ last.rows = rows
  BY <1>2 DEF HeardTable
<1> HIDE DEF last
<1>4. tables \in Seq(HeardTable) /\ Len(tables) = n /\ tables[n] = last
  BY <1>1, <1>3
<1>5. \A m \in 1..n : m # n => tables[m] = h.tables[m]
  BY <1>1
<1> HIDE DEF tables
<1>6. HeardType([h EXCEPT !.tables = tables])
  BY <1>4 DEF HeardType
<1>7. [h EXCEPT !.tables = tables].tables = tables
  BY DEF HeardType
<1> QED
  BY <1>3, <1>4, <1>5, <1>6, <1>7 DEF tables, last, HeardType

(* A row and a cell without text say nothing yet.                           *)
LEMMA NewRowHeard ==
  ASSUME NEW rows \in Seq(Seq(Text))
  PROVE  /\ Append(rows, <<>>) \in Seq(Seq(Text)) /\ Len(Append(rows, <<>>)) = Len(rows) + 1
         /\ Append(rows, <<>>)[Len(rows) + 1] = <<>>
         /\ \A d, e : d.rows = rows /\ e.rows = Append(rows, <<>>)
              => \A i, j : CellHeard(e, i, j) = CellHeard(d, i, j)
<1> DEFINE more == Append(rows, <<>>)
<1>1. /\ more \in Seq(Seq(Text)) /\ Len(more) = Len(rows) + 1
      /\ more[Len(rows) + 1] = <<>> /\ DOMAIN more = 1..(Len(rows) + 1)
      /\ DOMAIN rows = 1..Len(rows) /\ \A i \in 1..Len(rows) : more[i] = rows[i]
  OBVIOUS
<1> HIDE DEF more
<1>2. ASSUME NEW d, NEW e, d.rows = rows, e.rows = more, NEW i, NEW j
      PROVE  CellHeard(e, i, j) = CellHeard(d, i, j)
  <2>1. CASE i \in DOMAIN rows
    BY <1>1, <1>2, <2>1 DEF CellHeard
  <2>2. CASE i \notin DOMAIN rows /\ i \in DOMAIN more
    <3>1. i = Len(rows) + 1
      BY <1>1, <2>2
    <3>2. j \notin DOMAIN more[i]
      BY <1>1, <3>1
    <3> QED
      BY <1>2, <2>2, <3>2 DEF CellHeard
  <2>3. CASE i \notin DOMAIN more
    BY <1>1, <1>2, <2>3 DEF CellHeard
  <2> QED
    BY <2>1, <2>2, <2>3
<1> QED
  BY <1>1, <1>2 DEF more

LEMMA NewCellHeard ==
  ASSUME NEW rows \in Seq(Seq(Text)), NEW i \in DOMAIN rows
  PROVE  LET more == [rows EXCEPT ![i] = Append(rows[i], <<>>)]
         IN /\ more \in Seq(Seq(Text)) /\ Len(more) = Len(rows) /\ Len(more[i]) = Len(rows[i]) + 1
            /\ \A d, e : d.rows = rows /\ e.rows = more
                 => \A k, j : CellHeard(e, k, j) = CellHeard(d, k, j)
<1> DEFINE row == Append(rows[i], <<>>)
<1> DEFINE more == [rows EXCEPT ![i] = row]
<1>1. rows[i] \in Seq(Text) /\ <<>> \in Text
  BY DEF Text
<1>2. /\ row \in Seq(Text) /\ Len(row) = Len(rows[i]) + 1
      /\ DOMAIN row = 1..(Len(rows[i]) + 1) /\ DOMAIN rows[i] = 1..Len(rows[i])
      /\ row[Len(rows[i]) + 1] = <<>>
      /\ \A j \in 1..Len(rows[i]) : row[j] = rows[i][j]
  BY <1>1
<1> HIDE DEF row
<1>3. /\ more \in Seq(Seq(Text)) /\ Len(more) = Len(rows) /\ DOMAIN more = DOMAIN rows
      /\ more[i] = row /\ \A k \in DOMAIN rows : k # i => more[k] = rows[k]
  BY <1>2
<1> HIDE DEF more
<1>4. ASSUME NEW d, NEW e, d.rows = rows, e.rows = more, NEW k, NEW j
      PROVE  CellHeard(e, k, j) = CellHeard(d, k, j)
  <2>1. CASE k = i /\ j \in DOMAIN rows[i]
    BY <1>2, <1>3, <1>4, <2>1 DEF CellHeard
  <2>2. CASE k = i /\ j \notin DOMAIN rows[i]
    <3>1. j \in DOMAIN row => j = Len(rows[i]) + 1
      BY <1>1, <1>2, <2>2
    <3> QED
      BY <1>2, <1>3, <1>4, <2>2, <3>1 DEF CellHeard
  <2>3. CASE k # i
    BY <1>3, <1>4, <2>3 DEF CellHeard
  <2> QED
    BY <2>1, <2>2, <2>3
<1> QED
  BY <1>2, <1>3, <1>4, ZenonT(60) DEF more, row

(* More text is heard in one cell.                                          *)
MoreHeard(d, e, i, j, text) ==
  \A k, l : CellHeard(e, k, l) = IF k = i /\ l = j THEN CellHeard(d, k, l) \o text
                                 ELSE CellHeard(d, k, l)

(* Text in a cell is heard there and nowhere else.                          *)
LEMMA TextHeard ==
  ASSUME NEW rows \in Seq(Seq(Text)), NEW i \in DOMAIN rows, NEW j \in DOMAIN rows[i],
         NEW new \in Text
  PROVE  LET more == [rows EXCEPT ![i] = [rows[i] EXCEPT ![j] = rows[i][j] \o new]]
         IN /\ more \in Seq(Seq(Text)) /\ Len(more) = Len(rows) /\ Len(more[i]) = Len(rows[i])
            /\ \A d, e : d.rows = rows /\ e.rows = more => MoreHeard(d, e, i, j, new)
<1> DEFINE row == [rows[i] EXCEPT ![j] = rows[i][j] \o new]
<1> DEFINE more == [rows EXCEPT ![i] = row]
<1>1. rows[i] \in Seq(Text) /\ rows[i][j] \in Text
  OBVIOUS
<1>2. rows[i][j] \o new \in Text
  BY <1>1 DEF Text
<1>3. /\ row \in Seq(Text) /\ Len(row) = Len(rows[i]) /\ DOMAIN row = DOMAIN rows[i]
      /\ row[j] = rows[i][j] \o new
      /\ \A l \in DOMAIN rows[i] : l # j => row[l] = rows[i][l]
  BY <1>1, <1>2
<1> HIDE DEF row
<1>4. /\ more \in Seq(Seq(Text)) /\ Len(more) = Len(rows) /\ DOMAIN more = DOMAIN rows
      /\ more[i] = row /\ \A k \in DOMAIN rows : k # i => more[k] = rows[k]
  BY <1>3
<1> HIDE DEF more
<1>5. ASSUME NEW d, NEW e, d.rows = rows, e.rows = more, NEW k, NEW l
      PROVE  CellHeard(e, k, l) = IF k = i /\ l = j THEN CellHeard(d, k, l) \o new
                                  ELSE CellHeard(d, k, l)
  <2>1. CASE k = i
    BY <1>3, <1>4, <1>5, <2>1 DEF CellHeard
  <2>2. CASE k # i
    BY <1>4, <1>5, <2>2 DEF CellHeard
  <2> QED
    BY <2>1, <2>2
<1>6. \A d, e : d.rows = rows /\ e.rows = more => MoreHeard(d, e, i, j, new)
  BY <1>5, ZenonT(60) DEF MoreHeard
<1> QED
  BY <1>3, <1>4, <1>6, Zenon DEF more, row

(* The same parser, written in two ways.                                    *)
LEMMA ParserAlike ==
  ASSUME NEW p, ParserType(p), NEW n, NEW tables, NEW row, NEW col
  PROVE  LET same == [p.tables EXCEPT ![n] = p.tables[n]]
         IN /\ same = p.tables
            /\ [p EXCEPT !.trow = row, !.tcol = col]
                 = [p EXCEPT !.tables = same, !.trow = row, !.tcol = col]
            /\ [p EXCEPT !.tcol = col]
                 = [p EXCEPT !.tables = same, !.trow = p.trow, !.tcol = col]
            /\ [p EXCEPT !.tables = tables]
                 = [p EXCEPT !.tables = tables, !.trow = p.trow, !.tcol = p.tcol]
            /\ [p EXCEPT !.tcol = col, !.tables = tables]
                 = [p EXCEPT !.tables = tables, !.trow = p.trow, !.tcol = col]
<1> DEFINE same == [p.tables EXCEPT ![n] = p.tables[n]]
<1>1. same = p.tables
  <2>1. p.tables \in Seq(AnyTable)
    BY DEF ParserType
  <2> QED
    BY <2>1
<1> HIDE DEF same
<1>2. [p EXCEPT !.trow = row, !.tcol = col] = [p EXCEPT !.tables = same, !.trow = row, !.tcol = col]
  BY <1>1 DEF ParserType
<1>3. [p EXCEPT !.tcol = col] = [p EXCEPT !.tables = same, !.trow = p.trow, !.tcol = col]
  BY <1>1 DEF ParserType
<1>4. [p EXCEPT !.tables = tables] = [p EXCEPT !.tables = tables, !.trow = p.trow, !.tcol = p.tcol]
  BY DEF ParserType
<1>5. [p EXCEPT !.tcol = col, !.tables = tables]
        = [p EXCEPT !.tables = tables, !.trow = p.trow, !.tcol = col]
  BY DEF ParserType
<1> QED
  BY <1>1, <1>2, <1>3, <1>4, <1>5 DEF same

LEMMA ParserSet ==
  ASSUME NEW p, ParserType(p), NEW tables \in Seq(AnyTable), NEW table \in Nat, NEW head \in Nat,
         NEW row \in Int, NEW col \in Int
  PROVE  ParserType([p EXCEPT !.tables = tables, !.table = table, !.nthrows = head, !.trow = row,
                              !.tcol = col])
BY DEF ParserType

LEMMA HoldsAlike ==
  ASSUME NEW t, NEW d, NEW e, Holds(t, d), e.name = d.name,
         \A i, j : CellHeard(e, i, j) = CellHeard(d, i, j)
  PROVE  Holds(t, e)
BY ZenonT(60) DEF Holds

-----------------------------------------------------------------------------
(* Where the parser of the text is. *)

LEMMA PlaceSet ==
  ASSUME NEW at, PlaceType(at), NEW in \in Places, NEW rows \in Nat, NEW cols \in Nat
  PROVE  /\ PlaceType([at EXCEPT !.in = in, !.rows = rows, !.cols = cols])
         /\ PlaceType([at EXCEPT !.in = in, !.cols = cols])
BY DEF PlaceType

LEMMA EnteredFits ==
  ASSUME NEW at, NEW type, NEW arg
  PROVE  PlaceType(at) /\ PlaceFits(at) /\ PlaceEntered(at, type, arg) # Astray
           => PlaceType(PlaceEntered(at, type, arg)) /\ PlaceFits(PlaceEntered(at, type, arg))
<1> DEFINE b == PlaceEntered(at, type, arg)
<1>1. SUFFICES ASSUME PlaceType(at), PlaceFits(at), b # Astray
               PROVE  PlaceType(b) /\ PlaceFits(b)
  OBVIOUS
<1>2. CASE type = "table" /\ at.in = "doc" /\ arg \in Nat \X Nat
  <2>1. b = [in |-> "table", ncols |-> arg[1], nrows |-> arg[2], rows |-> 0, cols |-> 0]
    <3>1. b = [Outside EXCEPT !.in = "table", !.ncols = arg[1], !.nrows = arg[2]]
      BY <1>2 DEF PlaceEntered, TableBlocks
    <3> QED
      BY <3>1 DEF Outside
  <2>2. arg[1] \in Nat /\ arg[2] \in Nat
    BY <1>2
  <2> HIDE DEF b
  <2> QED
    BY <2>1, <2>2 DEF PlaceType, PlaceFits, Places, InRow
<1>3. CASE ~(type = "table" /\ at.in = "doc" /\ arg \in Nat \X Nat) /\ type \in TableBlocks
  <2>1. CASE type = "thead" /\ at.in = "table" /\ at.rows = 0
    <3>1. b = [at EXCEPT !.in = "thead"]
      BY <2>1 DEF PlaceEntered, TableBlocks
    <3> QED
      BY <1>1, <3>1 DEF PlaceType, PlaceFits, Places, InRow
  <2>2. CASE type = "tbody" /\ at.in = "table" /\ at.rows = 1
    <3>1. b = [at EXCEPT !.in = "tbody"]
      BY <2>2 DEF PlaceEntered, TableBlocks
    <3> QED
      BY <1>1, <3>1 DEF PlaceType, PlaceFits, Places, InRow
  <2>3. CASE /\ type = "tr"
             /\ \/ at.in = "thead" /\ at.rows = 0
                \/ at.in = "tbody" /\ at.rows <= at.nrows
    <3>1. b = [at EXCEPT !.in = "tr", !.rows = at.rows + 1, !.cols = 0]
      BY <2>3 DEF PlaceEntered, TableBlocks
    <3>2. PlaceType(b)
      <4>1. PlaceType(at) /\ "tr" \in Places /\ at.rows + 1 \in Nat /\ 0 \in Nat
        BY <1>1 DEF PlaceType, Places
      <4>2. PlaceType([at EXCEPT !.in = "tr", !.rows = at.rows + 1, !.cols = 0])
        BY <4>1, PlaceSet
      <4> QED
        BY <3>1, <4>2
    <3> HIDE DEF b
    <3>3. b.in = "tr" /\ b.rows = at.rows + 1 /\ b.cols = 0 /\ b.nrows = at.nrows /\ b.ncols = at.ncols
      BY <1>1, <3>1 DEF PlaceType
    <3> QED
      BY <1>1, <2>3, <3>2, <3>3 DEF PlaceType, PlaceFits, InRow
  <2>4. CASE /\ type = IF at.rows = 1 THEN "th" ELSE "td"
             /\ at.in = "tr" /\ at.cols < at.ncols
    <3>1. b = [at EXCEPT !.in = "cell", !.cols = at.cols + 1]
      BY <2>4 DEF PlaceEntered, TableBlocks
    <3>2. PlaceType(b)
      <4>1. PlaceType(at) /\ "cell" \in Places /\ at.cols + 1 \in Nat /\ 0 \in Nat
        BY <1>1 DEF PlaceType, Places
      <4>2. PlaceType([at EXCEPT !.in = "cell", !.cols = at.cols + 1])
        BY <4>1, PlaceSet
      <4> QED
        BY <3>1, <4>2
    <3> HIDE DEF b
    <3>3. /\ b.in = "cell" /\ b.rows = at.rows /\ b.cols = at.cols + 1
          /\ b.nrows = at.nrows /\ b.ncols = at.ncols
      BY <1>1, <3>1 DEF PlaceType
    <3> QED
      BY <1>1, <2>4, <3>2, <3>3 DEF PlaceType, PlaceFits, InRow
  <2> QED
    BY <1>1, <1>3, <2>1, <2>2, <2>3, <2>4 DEF PlaceEntered
<1>4. CASE type \notin TableBlocks
  <2>1. b = at
    BY <1>1, <1>4 DEF PlaceEntered, TableBlocks
  <2> QED
    BY <1>1, <2>1
<1> QED
  BY <1>2, <1>3, <1>4 DEF TableBlocks

LEMMA LeftFits ==
  ASSUME NEW at, PlaceType(at), PlaceFits(at), NEW type, PlaceLeft(at, type) # Astray
  PROVE  PlaceType(PlaceLeft(at, type)) /\ PlaceFits(PlaceLeft(at, type))
BY DEF PlaceLeft, Outside, PlaceType, PlaceFits, Places, InRow, TableBlocks

-----------------------------------------------------------------------------
(* The callbacks. *)

Ev(kind, type, arg) == [kind |-> kind, type |-> type, arg |-> arg]

(* The step that Report makes.                                              *)
Kept(p, at, h, ev) == Agrees(Callback(p, ev), PlaceAfter(at, ev), HeardAfter(h, ev))

(* One that changes nothing, when the next place agrees with what there is. *)
LEMMA OnlyMoved ==
  ASSUME NEW p, NEW at, NEW h, Agrees(p, at, h), NEW b, PlaceType(b), PlaceFits(b),
         p.table # 0 => /\ b.in # "doc" /\ b.ncols = at.ncols /\ b.nrows = at.nrows
                        /\ b.rows = at.rows
                        /\ InRow(b) => InRow(at) /\ b.cols = at.cols
  PROVE  Agrees(p, b, h)
BY DEF Agrees, Numbered, Recorded

(* Without a table that has a name only markers and tables are noticed.     *)
LEMMA NotInTable ==
  ASSUME NEW p, p.table = 0, NEW h, ~h.inside, NEW kind, NEW type, NEW arg,
         ~(kind = "text" /\ IsMarker(arg)), ~(kind = "enter" /\ type = "table")
  PROVE  Callback(p, Ev(kind, type, arg)) = p /\ HeardAfter(h, Ev(kind, type, arg)) = h
BY DEF Ev, Callback, HeardAfter, OnText, EnterRow, EnterCell, LeaveTable

LEMMA AfterFits ==
  ASSUME NEW at, PlaceType(at), PlaceFits(at), NEW kind \in {"enter", "leave", "text"}, NEW type,
         NEW arg, NEW ev, ev = Ev(kind, type, arg), PlaceAfter(at, ev) # Astray
  PROVE  PlaceType(PlaceAfter(at, ev)) /\ PlaceFits(PlaceAfter(at, ev))
<1>1. ev.kind = kind /\ ev.type = type /\ ev.arg = arg
  BY DEF Ev
<1>2. CASE kind = "enter"
  <2>1. PlaceAfter(at, ev) = PlaceEntered(at, type, arg)
    BY <1>1, <1>2 DEF PlaceAfter
  <2> QED
    BY <2>1, EnteredFits
<1>3. CASE kind = "leave"
  <2>1. PlaceAfter(at, ev) = PlaceLeft(at, type)
    BY <1>1, <1>3 DEF PlaceAfter
  <2> QED
    BY <2>1, LeftFits
<1>4. CASE kind = "text"
  <2>1. PlaceAfter(at, ev) = at
    BY <1>1, <1>4 DEF PlaceAfter
  <2> QED
    BY <2>1
<1> QED
  BY <1>2, <1>3, <1>4

(* A table is entered that has a name, or none.                             *)
LEMMA TableEntered ==
  ASSUME NEW p, NEW at, NEW h, Agrees(p, at, h), ~p.failed, NEW ncols \in Nat, NEW nrows \in Nat,
         NEW ev, ev = Ev("enter", "table", <<ncols, nrows>>), PlaceAfter(at, ev) # Astray
  PROVE  Kept(p, at, h, ev)
<1> DEFINE b == [in |-> "table", ncols |-> ncols, nrows |-> nrows, rows |-> 0, cols |-> 0]
<1>0. ParserType(p) /\ PlaceType(at) /\ HeardType(h) /\ Recorded(p, at, h)
  BY DEF Agrees
<1>1. at.in = "doc" /\ PlaceAfter(at, ev) = b
  <2>1. PlaceAfter(at, ev) = PlaceEntered(at, "table", <<ncols, nrows>>)
    BY DEF PlaceAfter, Ev
  <2>2. at.in = "doc"
    BY <2>1 DEF PlaceEntered, TableBlocks
  <2>3. PlaceEntered(at, "table", <<ncols, nrows>>) = b
    <3>1. <<ncols, nrows>> \in Nat \X Nat
      OBVIOUS
    <3>2. PlaceEntered(at, "table", <<ncols, nrows>>)
            = [Outside EXCEPT !.in = "table", !.ncols = ncols, !.nrows = nrows]
      BY <2>2, <3>1 DEF PlaceEntered, TableBlocks
    <3> QED
      BY <3>2 DEF Outside
  <2> QED
    BY <2>1, <2>2, <2>3
<1>2. p.table = 0 /\ ~h.inside /\ p.id = h.id
  BY <1>0, <1>1 DEF Agrees, Numbered, Recorded
<1>3. Callback(p, ev) = EnterTable(p, ncols, nrows)
  BY DEF Callback, Ev
<1>4. PlaceType(b) /\ PlaceFits(b)
  BY DEF PlaceType, PlaceFits, Places, InRow
<1>5. CASE p.id = NoId
  <2>1. Callback(p, ev) = p
    BY <1>3, <1>5 DEF EnterTable
  <2>2. HeardAfter(h, ev) = h
    BY <1>2, <1>5 DEF HeardAfter, Ev
  <2>3. Agrees(p, b, h)
    BY <1>2, <1>4, OnlyMoved
  <2> HIDE DEF b
  <2> QED
    BY <1>1, <2>1, <2>2, <2>3 DEF Kept
<1>6. CASE p.id # NoId
  <2> DEFINE t == TableNew(p.id, nrows, ncols)
  <2> DEFINE d == [name |-> p.id, rows |-> <<>>]
  <2> DEFINE q == TableBegin(p, 1, nrows, ncols)
  <2> DEFINE g == [id |-> NoId, inside |-> TRUE, tables |-> Append(h.tables, d)]
  <2>1. Callback(p, ev) = q /\ HeardAfter(h, ev) = g
    BY <1>2, <1>3, <1>6 DEF EnterTable, HeardAfter, Ev
  <2>2. p.id \in Text /\ p.tables \in Seq(AnyTable) /\ h.tables \in Seq(HeardTable)
    BY <1>0 DEF ParserType, HeardType
  <2>3. t \in AnyTable /\ Holds(t, d) /\ t.ncols = ncols /\ t.nrows = nrows
    BY <2>2, NewTable DEF TableNew
  <2>4. d \in HeardTable
    BY <2>2 DEF HeardTable
  <2> HIDE DEF t, d
  <2> DEFINE n == Len(p.tables) + 1
  <2> DEFINE more == Append(p.tables, t)
  <2>5. /\ more \in Seq(AnyTable) /\ Len(more) = n /\ more[n] = t
        /\ \A m \in 1..(n - 1) : more[m] = p.tables[m]
    BY <2>2, <2>3
  <2>6. /\ Append(h.tables, d) \in Seq(HeardTable) /\ Len(Append(h.tables, d)) = n
        /\ Append(h.tables, d)[n] = d
        /\ \A m \in 1..(n - 1) : Append(h.tables, d)[m] = h.tables[m]
    BY <1>0, <2>2, <2>4 DEF Recorded
  <2>7. q = [p EXCEPT !.tables = more, !.table = n, !.nthrows = 1, !.trow = -1, !.tcol = 0]
    BY DEF TableBegin, t
  <2>8. n \in Nat /\ n # 0
    BY <2>2
  <2> HIDE DEF more, q
  <2>9. /\ q.tables = more /\ q.table = n /\ q.nthrows = 1 /\ q.trow = -1
        /\ q.failed = p.failed /\ q.stray = p.stray /\ q.id = p.id
    BY <1>0, <2>7 DEF ParserType
  <2>10. ParserType(q)
    <3>1. ParserType([p EXCEPT !.tables = more, !.table = n, !.nthrows = 1, !.trow = -1, !.tcol = 0])
      <4> HIDE DEF n
      <4>1. ParserType(p) /\ more \in Seq(AnyTable) /\ n \in Nat /\ 1 \in Nat /\ -1 \in Int /\ 0 \in Int
        BY <1>0, <2>5, <2>8
      <4> QED
        BY <4>1, ParserSet
    <3> QED
      BY <2>7, <3>1
  <2>11. HeardType(g)
    BY <2>6 DEF HeardType, NoId, Text
  <2>12. Numbered(q, b)
    <3>1. Current(q) = t
      BY <2>5, <2>9 DEF Current
    <3> QED
      BY <2>3, <2>5, <2>9, <3>1 DEF Numbered, InRow
  <2>13. Recorded(q, b, g)
    <3>1. LastHeard(g) = d /\ d.rows = <<>>
      BY <2>2, <2>6 DEF LastHeard, d
    <3> QED
      BY <2>5, <2>6, <2>8, <2>9, <3>1 DEF Recorded, InRow
  <2>14. AllHold(q, g)
    <3>1. DOMAIN q.tables = 1..n /\ DOMAIN p.tables = 1..(n - 1)
      BY <2>2, <2>5, <2>9
    <3>2. ASSUME NEW m \in 1..n
          PROVE  Holds(q.tables[m], g.tables[m])
      <4>1. CASE m = n
        BY <2>3, <2>5, <2>6, <2>9, <4>1
      <4>2. CASE m # n
        <5>1. m \in 1..(n - 1)
          BY <2>2, <4>2
        <5>2. Holds(p.tables[m], h.tables[m])
          BY <3>1, <5>1 DEF Agrees, AllHold
        <5> QED
          BY <2>5, <2>6, <2>9, <5>1, <5>2
      <4> QED
        BY <4>1, <4>2
    <3> QED
      BY <3>1, <3>2 DEF AllHold
  <2>15. ~q.stray
    BY <2>9 DEF Agrees
  <2> HIDE DEF g, b, n
  <2>16. Agrees(q, b, g)
    BY <1>4, <2>10, <2>11, <2>12, <2>13, <2>14, <2>15 DEF Agrees
  <2> QED
    BY <1>1, <2>1, <2>16 DEF Kept
<1> QED
  BY <1>5, <1>6

LEMMA LastIn ==
  ASSUME NEW S, NEW s \in Seq(S), NEW n \in Nat, n # 0, n = Len(s)
  PROVE  n \in 1..n /\ n \in DOMAIN s /\ DOMAIN s = 1..n /\ s[n] \in S
OBVIOUS

LEMMA LastPut ==
  ASSUME NEW S, NEW s \in Seq(S), NEW n \in Nat, n # 0, n = Len(s), NEW e \in S
  PROVE  LET r == [s EXCEPT ![n] = e]
         IN /\ r \in Seq(S) /\ Len(r) = n /\ r[n] = e /\ DOMAIN r = 1..n
            /\ \A m \in 1..n : m # n => r[m] = s[m]
OBVIOUS

(* Within a table that has a name.                                          *)
LEMMA InTable ==
  ASSUME NEW p, NEW at, NEW h, Agrees(p, at, h), p.table # 0
  PROVE  LET n == p.table
         IN /\ ParserType(p) /\ PlaceType(at) /\ HeardType(h) /\ PlaceFits(at) /\ ~p.stray
            /\ n \in Nat /\ n \in 1..n /\ n = Len(p.tables) /\ n = Len(h.tables)
            /\ p.tables \in Seq(AnyTable) /\ h.tables \in Seq(HeardTable)
            /\ p.tables[n] \in AnyTable /\ h.tables[n] \in HeardTable
            /\ h.tables[n].rows \in Seq(Seq(Text))
            /\ Current(p) = p.tables[n] /\ LastHeard(h) = h.tables[n]
            /\ p.tables[n].ncols = at.ncols /\ p.tables[n].nrows = at.nrows
            /\ Holds(p.tables[n], h.tables[n])
            /\ h.inside /\ h.id = NoId /\ at.in # "doc"
            /\ p.nthrows = 1 /\ p.trow = at.rows - 1 /\ (InRow(at) => p.tcol = at.cols - 1)
            /\ Len(h.tables[n].rows) = at.rows
            /\ InRow(at) => Len(h.tables[n].rows[at.rows]) = at.cols
<1>1. /\ ParserType(p) /\ PlaceType(at) /\ HeardType(h) /\ PlaceFits(at) /\ ~p.stray
      /\ Numbered(p, at) /\ Recorded(p, at, h) /\ AllHold(p, h)
  BY DEF Agrees
<1>2. /\ p.tables \in Seq(AnyTable) /\ h.tables \in Seq(HeardTable) /\ p.table \in Nat
      /\ p.table = Len(p.tables) /\ p.table = Len(h.tables) /\ h.inside
  BY <1>1 DEF ParserType, HeardType, Numbered, Recorded
<1>3. /\ p.table \in 1..p.table /\ p.table \in DOMAIN p.tables /\ p.tables[p.table] \in AnyTable
      /\ h.tables[p.table] \in HeardTable
  BY <1>2, LastIn
<1>4. Holds(p.tables[p.table], h.tables[p.table])
  BY <1>1, <1>3 DEF AllHold
<1>5. Current(p) = p.tables[p.table] /\ LastHeard(h) = h.tables[p.table]
  BY <1>2 DEF Current, LastHeard
<1>6. h.tables[p.table].rows \in Seq(Seq(Text))
  BY <1>3 DEF HeardTable
<1> QED
  BY <1>1, <1>2, <1>3, <1>4, <1>5, <1>6 DEF Numbered, Recorded

(* The last table and what is heard of it are changed together.             *)
LEMMA LastChanged ==
  ASSUME NEW p, NEW at, NEW h, Agrees(p, at, h), p.table # 0,
         NEW u \in AnyTable, u.ncols = at.ncols, u.nrows = at.nrows,
         NEW rows \in Seq(Seq(Text)), Holds(u, [h.tables[p.table] EXCEPT !.rows = rows]),
         NEW b, PlaceType(b), PlaceFits(b), b.in # "doc", b.ncols = at.ncols, b.nrows = at.nrows,
         Len(rows) = b.rows, InRow(b) => Len(rows[b.rows]) = b.cols,
         NEW row, row = b.rows - 1, NEW col \in Int, InRow(b) => col = b.cols - 1
  PROVE  LET n == p.table
         IN Agrees([p EXCEPT !.tables = [p.tables EXCEPT ![n] = u], !.trow = row, !.tcol = col], b,
                   [h EXCEPT !.tables = [h.tables EXCEPT ![n] = [h.tables[n] EXCEPT !.rows = rows]]])
<1> DEFINE n == p.table
<1> DEFINE tables == [p.tables EXCEPT ![n] = u]
<1> DEFINE q == [p EXCEPT !.tables = tables, !.trow = row, !.tcol = col]
<1> DEFINE g == [h EXCEPT !.tables = [h.tables EXCEPT ![n] = [h.tables[n] EXCEPT !.rows = rows]]]
<1>1. /\ ParserType(p) /\ HeardType(h) /\ ~p.stray
      /\ n \in Nat /\ n \in 1..n /\ n = Len(p.tables) /\ n = Len(h.tables) /\ n # 0
      /\ p.tables \in Seq(AnyTable) /\ h.tables \in Seq(HeardTable)
      /\ h.tables[n] \in HeardTable
      /\ h.inside /\ h.id = NoId /\ p.nthrows = 1
  BY InTable
<1>2. /\ HeardType(g) /\ g.id = h.id /\ g.inside = h.inside
      /\ Len(g.tables) = n /\ g.tables[n].name = h.tables[n].name /\ g.tables[n].rows = rows
      /\ \A m \in 1..n : m # n => g.tables[m] = h.tables[m]
  <2>1. HeardType(h) /\ Len(h.tables) # 0 /\ rows \in Seq(Seq(Text))
    BY <1>1
  <2>2. LET k == Len(h.tables)
            e == [h EXCEPT !.tables = [h.tables EXCEPT ![k] = [h.tables[k] EXCEPT !.rows = rows]]]
         IN /\ HeardType(e) /\ e.id = h.id /\ e.inside = h.inside
            /\ Len(e.tables) = k /\ e.tables[k].name = h.tables[k].name /\ e.tables[k].rows = rows
            /\ \A m \in 1..k : m # k => e.tables[m] = h.tables[m]
    BY <2>1, RowsHeard
  <2>3. n = Len(h.tables)
    BY <1>1
  <2> HIDE DEF n
  <2> QED
    BY <2>2, <2>3, Zenon
<1>3. g.tables[n] = [h.tables[n] EXCEPT !.rows = rows]
  BY <1>1 DEF HeardType
<1> HIDE DEF g
<1>4. /\ tables \in Seq(AnyTable) /\ Len(tables) = n /\ tables[n] = u
      /\ DOMAIN tables = 1..n /\ DOMAIN p.tables = 1..n
      /\ \A m \in 1..n : m # n => tables[m] = p.tables[m]
  <2>1. n \in Nat /\ n # 0 /\ n = Len(p.tables) /\ p.tables \in Seq(AnyTable) /\ u \in AnyTable
    BY <1>1
  <2> HIDE DEF n
  <2>2. DOMAIN p.tables = 1..n
    BY <2>1, LastIn
  <2>3. /\ tables \in Seq(AnyTable) /\ Len(tables) = n /\ tables[n] = u
        /\ DOMAIN tables = 1..n
        /\ \A m \in 1..n : m # n => tables[m] = p.tables[m]
    BY <2>1, LastPut
  <2> QED
    BY <2>2, <2>3
<1> HIDE DEF tables
<1>5. row \in Int /\ b.rows \in Nat
  BY DEF PlaceType
<1>6. ParserType(q)
  BY <1>1, <1>4, <1>5 DEF ParserType
<1>7. /\ q.tables = tables /\ q.trow = row /\ q.tcol = col /\ q.nthrows = 1 /\ q.table = n
      /\ ~q.stray
  BY <1>1 DEF ParserType
<1> HIDE DEF q
<1>8. Numbered(q, b)
  <2>1. Current(q) = u
    BY <1>4, <1>7 DEF Current
  <2> QED
    BY <1>4, <1>7, <2>1 DEF Numbered
<1>9. Recorded(q, b, g)
  BY <1>1, <1>2, <1>4, <1>7 DEF Recorded, LastHeard
<1>10. AllHold(q, g)
  <2>1. DOMAIN q.tables = 1..n /\ DOMAIN p.tables = 1..n
    BY <1>4, <1>7
  <2>2. ASSUME NEW m \in 1..n
        PROVE  Holds(q.tables[m], g.tables[m])
    <3>1. CASE m = n
      BY <1>3, <1>4, <1>7, <3>1
    <3>2. CASE m # n
      <4>1. Holds(p.tables[m], h.tables[m])
        BY <2>1 DEF Agrees, AllHold
      <4> QED
        BY <1>2, <1>4, <1>7, <3>2, <4>1
    <3> QED
      BY <3>1, <3>2
  <2> QED
    BY <2>1, <2>2 DEF AllHold
<1>11. Agrees(q, b, g)
  BY <1>2, <1>6, <1>7, <1>8, <1>9, <1>10 DEF Agrees
<1> QED
  BY <1>11 DEF q, g, tables

LEMMA MarkerRead ==
  ASSUME NEW p, NEW at, NEW h, Agrees(p, at, h), ~p.failed, NEW line, NEW text \in Text,
         IsMarker(text), NEW ev, ev = Ev("text", line, text), PlaceAfter(at, ev) # Astray
  PROVE  Kept(p, at, h, ev)
<1> DEFINE id == MarkerId(text)
<1>0. ParserType(p) /\ HeardType(h) /\ Recorded(p, at, h)
  BY DEF Agrees
<1>1. id \in Text
  BY DEF Text, MarkerId, IsMarker
<1>2. PlaceAfter(at, ev) = at
  BY DEF PlaceAfter, Ev
<1>3. Callback(p, ev) = OnMarker(p, id)
  BY DEF Callback, Ev
<1>4. HeardAfter(h, ev) = IF h.inside THEN h ELSE [h EXCEPT !.id = id]
  BY DEF HeardAfter, HeardMore, Ev
<1> HIDE DEF id
<1> DEFINE q == OnMarker(p, id)
<1> DEFINE g == IF h.inside THEN h ELSE [h EXCEPT !.id = id]
<1>5. /\ ParserType(q) /\ q.tables = p.tables /\ q.table = p.table /\ q.trow = p.trow
      /\ q.tcol = p.tcol /\ q.nthrows = p.nthrows /\ q.stray = p.stray
      /\ q.failed \/ q.id = id
  BY <1>0, <1>1 DEF OnMarker, ParserType
<1>6. /\ HeardType(g) /\ g.tables = h.tables /\ g.inside = h.inside
      /\ IF h.inside THEN g.id = h.id ELSE g.id = id
  BY <1>0, <1>1 DEF HeardType
<1> HIDE DEF q, g
<1>7. Numbered(q, at)
  BY <1>5 DEF Agrees, Numbered, Current
<1>8. Recorded(q, at, g)
  BY <1>0, <1>5, <1>6 DEF Recorded, LastHeard
<1>9. AllHold(q, g) /\ PlaceType(at) /\ PlaceFits(at) /\ ~q.stray
  BY <1>5, <1>6 DEF Agrees, AllHold
<1>10. Agrees(q, at, g)
  BY <1>5, <1>6, <1>7, <1>8, <1>9 DEF Agrees
<1> QED
  BY <1>2, <1>3, <1>4, <1>10 DEF Kept, q, g

LEMMA TableLeft ==
  ASSUME NEW p, NEW at, NEW h, Agrees(p, at, h), p.table # 0, ~p.failed, NEW ev,
         ev = Ev("leave", "table", <<>>), PlaceAfter(at, ev) # Astray
  PROVE  Kept(p, at, h, ev)
<1> DEFINE q == [p EXCEPT !.table = 0, !.id = NoId]
<1> DEFINE g == [h EXCEPT !.inside = FALSE]
<1>1. /\ ParserType(p) /\ HeardType(h) /\ ~p.stray /\ h.inside /\ h.id = NoId
      /\ AllHold(p, h) /\ Len(p.tables) = Len(h.tables)
  BY InTable DEF Agrees
<1>2. PlaceAfter(at, ev) = Outside
  <2>1. PlaceAfter(at, ev) = PlaceLeft(at, "table")
    BY DEF PlaceAfter, Ev
  <2> QED
    BY <2>1 DEF PlaceLeft, TableBlocks
<1>3. Callback(p, ev) = q
  BY DEF Callback, LeaveTable, Ev
<1>4. HeardAfter(h, ev) = g
  BY <1>1 DEF HeardAfter, HeardMore, Ev
<1>5. NoId \in Text
  BY DEF NoId, Text
<1>6. ParserType(q) /\ q.table = 0 /\ q.id = NoId /\ q.tables = p.tables /\ q.stray = p.stray
  BY <1>1, <1>5 DEF ParserType
<1>7. HeardType(g) /\ ~g.inside /\ g.id = h.id /\ g.tables = h.tables
  BY <1>1 DEF HeardType
<1> HIDE DEF q, g
<1>8. PlaceType(Outside) /\ PlaceFits(Outside)
  BY DEF PlaceType, PlaceFits, InRow, Outside, Places
<1>9. Numbered(q, Outside) /\ Recorded(q, Outside, g) /\ AllHold(q, g)
  BY <1>1, <1>6, <1>7 DEF Numbered, Recorded, AllHold
<1>10. Agrees(q, Outside, g)
  BY <1>1, <1>6, <1>7, <1>8, <1>9 DEF Agrees
<1> QED
  BY <1>2, <1>3, <1>4, <1>10 DEF Kept

LEMMA RowEntered ==
  ASSUME NEW p, NEW at, NEW h, Agrees(p, at, h), p.table # 0, ~p.failed, NEW arg, NEW ev,
         ev = Ev("enter", "tr", arg), PlaceAfter(at, ev) # Astray
  PROVE  Kept(p, at, h, ev)
<1> DEFINE n == p.table
<1> DEFINE b == [at EXCEPT !.in = "tr", !.rows = at.rows + 1, !.cols = 0]
<1> DEFINE t == p.tables[n]
<1> DEFINE d == h.tables[n]
<1> DEFINE rows == Append(d.rows, <<>>)
<1> DEFINE q == [p EXCEPT !.tables = [p.tables EXCEPT ![n] = t], !.trow = at.rows, !.tcol = -1]
<1> DEFINE g == [h EXCEPT !.tables = [h.tables EXCEPT ![n] = [d EXCEPT !.rows = rows]]]
<1>1. /\ ParserType(p) /\ PlaceType(at) /\ HeardType(h) /\ PlaceFits(at)
      /\ n = Len(p.tables) /\ n = Len(h.tables) /\ p.tables \in Seq(AnyTable)
      /\ t \in AnyTable /\ d \in HeardTable /\ d.rows \in Seq(Seq(Text))
      /\ Current(p) = t /\ t.ncols = at.ncols /\ t.nrows = at.nrows
      /\ Holds(t, d) /\ h.inside /\ p.trow = at.rows - 1 /\ Len(d.rows) = at.rows
  BY InTable
<1>2. /\ PlaceAfter(at, ev) = b
      /\ \/ at.in = "thead" /\ at.rows = 0
         \/ at.in = "tbody" /\ at.rows <= at.nrows
  <2>1. PlaceAfter(at, ev) = PlaceEntered(at, "tr", arg)
    BY DEF PlaceAfter, Ev
  <2> QED
    BY <2>1 DEF PlaceEntered, TableBlocks
<1>3. at.rows <= at.nrows /\ at.rows \in Nat /\ at.nrows \in Nat
  BY <1>1, <1>2 DEF PlaceType
<1>4. PlaceType(b) /\ PlaceFits(b)
  BY <1>1, <1>2, AfterFits
<1>5. /\ b.in = "tr" /\ b.rows = at.rows + 1 /\ b.cols = 0 /\ b.ncols = at.ncols
      /\ b.nrows = at.nrows
  BY <1>1 DEF PlaceType
<1>6. Callback(p, ev) = EnterRow(p)
  BY DEF Callback, Ev
<1>7. EnterRow(p) = q
  <2>1. Min({at.nrows, p.trow + 1}) = at.rows
    <3>1. p.trow + 1 = at.rows
      BY <1>1, <1>3
    <3> QED
      BY <1>3, <3>1, MinOfTwo
  <2>2. EnterRow(p) = [p EXCEPT !.trow = at.rows, !.tcol = -1]
    BY <1>1, <2>1 DEF EnterRow
  <2>3. ParserType(p)
    BY <1>1
  <2>4. [p EXCEPT !.trow = at.rows, !.tcol = -1]
          = [p EXCEPT !.tables = [p.tables EXCEPT ![n] = p.tables[n]], !.trow = at.rows, !.tcol = -1]
    BY <2>3, ParserAlike, ZenonT(30)
  <2> QED
    BY <2>2, <2>4
<1>8. HeardAfter(h, ev) = g
  BY <1>1 DEF HeardAfter, HeardMore, Ev
<1>9. /\ rows \in Seq(Seq(Text)) /\ Len(rows) = b.rows /\ Len(rows[b.rows]) = b.cols
      /\ Holds(t, [d EXCEPT !.rows = rows])
  <2>1. /\ rows \in Seq(Seq(Text)) /\ Len(rows) = at.rows + 1 /\ rows[at.rows + 1] = <<>>
        /\ \A x, y : x.rows = d.rows /\ y.rows = rows
              => \A i, j : CellHeard(y, i, j) = CellHeard(x, i, j)
    BY <1>1, NewRowHeard
  <2> HIDE DEF rows
  <2>2. [d EXCEPT !.rows = rows].rows = rows /\ [d EXCEPT !.rows = rows].name = d.name
    BY <1>1 DEF HeardTable
  <2>3. Holds(t, [d EXCEPT !.rows = rows])
    <3> DEFINE e == [d EXCEPT !.rows = rows]
    <3> HIDE DEF e
    <3>1. e.name = d.name /\ e.rows = rows
      BY <2>2 DEF e
    <3> HIDE DEF d
    <3>2. \A i, j : CellHeard(e, i, j) = CellHeard(d, i, j)
      BY <2>1, <3>1, Zenon
    <3>3. Holds(t, e)
      BY <1>1, <3>1, <3>2, HoldsAlike
    <3> QED
      BY <3>3 DEF e
  <2> QED
    BY <1>5, <2>1, <2>3
<1>10. Agrees(q, b, g)
  <2>1. at.rows = b.rows - 1 /\ -1 \in Int /\ b.cols - 1 = -1 /\ b.in # "doc"
    BY <1>3, <1>5
  <2> HIDE DEF b, t, rows
  <2> QED
    BY <1>1, <1>4, <1>5, <1>9, <2>1, LastChanged
<1> QED
  BY <1>2, <1>6, <1>7, <1>8, <1>10 DEF Kept

LEMMA CellEntered ==
  ASSUME NEW p, NEW at, NEW h, Agrees(p, at, h), p.table # 0, ~p.failed, NEW type \in {"th", "td"},
         NEW align, NEW ev, ev = Ev("enter", type, align), PlaceAfter(at, ev) # Astray
  PROVE  Kept(p, at, h, ev)
<1> DEFINE n == p.table
<1> DEFINE b == [at EXCEPT !.in = "cell", !.cols = at.cols + 1]
<1> DEFINE t == p.tables[n]
<1> DEFINE d == h.tables[n]
<1> DEFINE rows == [d.rows EXCEPT ![at.rows] = Append(d.rows[at.rows], <<>>)]
<1> DEFINE q(u) == [p EXCEPT !.tables = [p.tables EXCEPT ![n] = u], !.trow = at.rows - 1,
                             !.tcol = at.cols]
<1> DEFINE g == [h EXCEPT !.tables = [h.tables EXCEPT ![n] = [d EXCEPT !.rows = rows]]]
<1>1. /\ ParserType(p) /\ PlaceType(at) /\ HeardType(h) /\ PlaceFits(at)
      /\ n = Len(p.tables) /\ n = Len(h.tables) /\ n \in 1..n /\ p.tables \in Seq(AnyTable)
      /\ t \in AnyTable /\ d \in HeardTable /\ d.rows \in Seq(Seq(Text))
      /\ Current(p) = t /\ t.ncols = at.ncols /\ t.nrows = at.nrows
      /\ Holds(t, d) /\ h.inside /\ p.trow = at.rows - 1 /\ Len(d.rows) = at.rows
  BY InTable
<1>0. InRow(at) => p.tcol = at.cols - 1 /\ Len(d.rows[at.rows]) = at.cols
  BY InTable
<1>2. /\ PlaceAfter(at, ev) = b
      /\ at.in = "tr" /\ at.cols < at.ncols
  <2>1. PlaceAfter(at, ev) = PlaceEntered(at, type, align)
    BY DEF PlaceAfter, Ev
  <2> QED
    BY <2>1 DEF PlaceEntered, TableBlocks
<1>3. /\ at.rows \in Nat /\ at.cols \in Nat /\ at.ncols \in Nat /\ at.rows >= 1 /\ at.cols < at.ncols
      /\ p.tcol = at.cols - 1 /\ Len(d.rows[at.rows]) = at.cols
  <2>1. InRow(at)
    BY <1>2 DEF InRow
  <2> QED
    BY <1>0, <1>1, <1>2, <2>1 DEF PlaceType, PlaceFits
<1>4. PlaceType(b) /\ PlaceFits(b)
  BY <1>1, <1>2, AfterFits
<1>5. /\ b.in = "cell" /\ b.rows = at.rows /\ b.cols = at.cols + 1 /\ b.ncols = at.ncols
      /\ b.nrows = at.nrows
  BY <1>1 DEF PlaceType
<1>6. Callback(p, ev) = EnterCell(p, align)
  BY DEF Callback, Ev
<1>7. HeardAfter(h, ev) = g
  BY <1>1 DEF HeardAfter, HeardMore, Ev
<1>8. /\ rows \in Seq(Seq(Text)) /\ Len(rows) = at.rows /\ Len(rows[at.rows]) = at.cols + 1
      /\ \A x, y : x.rows = d.rows /\ y.rows = rows
            => \A k, j : CellHeard(y, k, j) = CellHeard(x, k, j)
  <2>1. at.rows \in DOMAIN d.rows
    BY <1>1, <1>3
  <2>2. d.rows \in Seq(Seq(Text))
    BY <1>1
  <2> HIDE DEF d
  <2>3. /\ rows \in Seq(Seq(Text)) /\ Len(rows) = Len(d.rows)
        /\ Len(rows[at.rows]) = Len(d.rows[at.rows]) + 1
        /\ \A x, y : x.rows = d.rows /\ y.rows = rows
              => \A k, j : CellHeard(y, k, j) = CellHeard(x, k, j)
    BY <2>1, <2>2, NewCellHeard
  <2> QED
    BY <1>1, <1>3, <2>3
<1>9. [d EXCEPT !.rows = rows].rows = rows /\ [d EXCEPT !.rows = rows].name = d.name
  BY <1>1 DEF HeardTable
<1> HIDE DEF rows
<1>10. ASSUME NEW u, Holds(u, d)
       PROVE  Holds(u, [d EXCEPT !.rows = rows])
  <2> DEFINE e == [d EXCEPT !.rows = rows]
  <2>1. e.name = d.name /\ e.rows = rows
    BY <1>9
  <2> HIDE DEF e, d
  <2>2. \A i, j : CellHeard(e, i, j) = CellHeard(d, i, j)
    BY <1>8, <2>1, Zenon
  <2>3. Holds(u, e)
    BY <1>10, <2>1, <2>2, HoldsAlike
  <2> QED
    BY <2>3 DEF e
<1>11. ASSUME NEW u \in AnyTable, u.ncols = t.ncols, u.nrows = t.nrows, Holds(u, d)
       PROVE  Agrees(q(u), b, g)
  <2>1. at.rows - 1 = b.rows - 1 /\ at.cols \in Int /\ b.cols - 1 = at.cols /\ b.in # "doc"
    BY <1>3, <1>5
  <2>2. Holds(u, [d EXCEPT !.rows = rows]) /\ u.ncols = at.ncols /\ u.nrows = at.nrows
    BY <1>1, <1>10, <1>11
  <2>3. /\ PlaceType(b) /\ PlaceFits(b) /\ b.ncols = at.ncols /\ b.nrows = at.nrows
        /\ rows \in Seq(Seq(Text)) /\ Len(rows) = b.rows /\ Len(rows[b.rows]) = b.cols
    BY <1>4, <1>5, <1>8
  <2> HIDE DEF b, t, rows
  <2> QED
    BY <2>1, <2>2, <2>3, LastChanged
<1>12. Min({at.ncols, p.tcol + 1}) = at.cols
  <2>1. p.tcol + 1 = at.cols
    BY <1>3
  <2> QED
    BY <1>3, <2>1, MinOfTwo
<1>13. CASE at.rows # 1
  <2>1. EnterCell(p, align) = [p EXCEPT !.tcol = at.cols]
    BY <1>1, <1>3, <1>12, <1>13, SMTT(30) DEF EnterCell
  <2>2. ParserType(p) /\ at.rows - 1 = p.trow
    BY <1>1
  <2>3. EnterCell(p, align) = q(t)
    <3>1. [p EXCEPT !.tcol = at.cols]
            = [p EXCEPT !.tables = [p.tables EXCEPT ![n] = p.tables[n]], !.trow = p.trow,
                        !.tcol = at.cols]
      BY <2>2, ParserAlike, ZenonT(30)
    <3> QED
      BY <2>1, <2>2, <3>1
  <2>4. Agrees(q(t), b, g)
    BY <1>1, <1>11
  <2> QED
    BY <1>2, <1>6, <1>7, <2>3, <2>4 DEF Kept
<1>14. CASE at.rows = 1
  <2> DEFINE c == at.cols
  <2> DEFINE col == [t.columns[c] EXCEPT !.align = Aligned(align)]
  <2> DEFINE u == [t EXCEPT !.columns = [t.columns EXCEPT ![c] = col]]
  <2>1. c \in 0..(t.ncols - 1) /\ InColumns(p, c)
    BY <1>1, <1>3, SMTT(30) DEF InColumns
  <2>2. EnterCell(p, align) = [p EXCEPT !.tcol = c, !.tables[p.table].columns[c].align = Aligned(align)]
    <3> DEFINE m == Min({Current(p).ncols, p.tcol + 1})
    <3>1. p.trow = 0 /\ m = c
      BY <1>1, <1>3, <1>12, <1>14
    <3>2. EnterCell(p, align)
            = IF InColumns(p, m)
              THEN [p EXCEPT !.tcol = m, !.tables[p.table].columns[m].align = Aligned(align)]
              ELSE [p EXCEPT !.tcol = m, !.stray = TRUE]
      BY <3>1, Zenon DEF EnterCell
    <3> HIDE DEF m, c
    <3> QED
      BY <2>1, <3>1, <3>2
  <2>3. EnterCell(p, align) = q(u)
    <3>1. ParserType(p) /\ at.rows - 1 = p.trow
      BY <1>1
    <3>2. EnterCell(p, align) = [p EXCEPT !.tcol = c, !.tables = [p.tables EXCEPT ![n] = u]]
      <4> HIDE DEF c
      <4> QED
        BY <2>2, <3>1 DEF ParserType
    <3> DEFINE tables == [p.tables EXCEPT ![n] = u]
    <3> HIDE DEF tables
    <3>3. [p EXCEPT !.tcol = c, !.tables = tables]
            = [p EXCEPT !.tables = tables, !.trow = p.trow, !.tcol = c]
      BY <3>1, ParserAlike
    <3> QED
      BY <3>1, <3>2, <3>3 DEF tables
  <2>4. t.columns[c] \in Column
    BY <1>1, <2>1, TableParts
  <2>5. Aligned(align) \in Int
    BY DEF Aligned
  <2>6. col \in Column /\ col.title = t.columns[c].title /\ col.width = t.columns[c].width
    BY <2>4, <2>5 DEF Column
  <2>7. t \in AnyTable /\ c \in 0..(t.ncols - 1)
    BY <1>1, <2>1
  <2> HIDE DEF col, t, d, c
  <2>8. /\ u \in AnyTable
        /\ u.name = t.name /\ u.nrows = t.nrows /\ u.ncols = t.ncols /\ u.cells = t.cells
        /\ \A k \in 0..(t.ncols - 1) : u.columns[k] = IF k = c THEN col ELSE t.columns[k]
    BY <2>6, <2>7, ColumnSet
  <2> HIDE DEF u
  <2>9. \A k \in 0..(t.ncols - 1) : /\ u.columns[k].title = t.columns[k].title
                                    /\ u.columns[k].width = t.columns[k].width
    BY <2>6, <2>8
  <2>10. Holds(u, d)
    <3>1. ASSUME NEW k \in 0..(u.ncols - 1)
          PROVE  /\ k \in 0..(t.ncols - 1) /\ u.columns[k].title = t.columns[k].title
                 /\ u.columns[k].width = t.columns[k].width
      BY <2>8, <2>9
    <3>2. u.name = t.name /\ u.nrows = t.nrows /\ u.cells = t.cells /\ Holds(t, d)
      BY <1>1, <2>8
    <3> QED
      BY <3>1, <3>2, Zenon DEF Holds
  <2>11. Agrees(q(u), b, g)
    BY <1>11, <2>8, <2>10
  <2> QED
    BY <1>2, <1>6, <1>7, <2>3, <2>11 DEF Kept
<1> QED
  BY <1>13, <1>14

(* More text in a title, and in a cell of the body.                         *)
MoreInTitle(t, u, c, text) ==
  /\ u.name = t.name /\ u.ncols = t.ncols /\ u.nrows = t.nrows /\ u.cells = t.cells
  /\ \A k \in 0..(t.ncols - 1) :
       /\ u.columns[k].title = IF k = c THEN t.columns[k].title \o text ELSE t.columns[k].title
       /\ u.columns[k].width = t.columns[k].width

MoreInCell(t, u, s, c, text) ==
  /\ u.name = t.name /\ u.ncols = t.ncols /\ u.nrows = t.nrows
  /\ \A r \in 0..(t.nrows - 1), k \in 0..(t.ncols - 1) :
       u.cells[r][k] = IF r = s /\ k = c THEN t.cells[r][k] \o text ELSE t.cells[r][k]
  /\ \A k \in 0..(t.ncols - 1) :
       /\ u.columns[k].title = t.columns[k].title
       /\ u.columns[k].width = IF k = c THEN Wider(t.columns[k].width, u.cells[s][c])
                               ELSE t.columns[k].width

LEMMA TitleHeld ==
  ASSUME NEW t \in AnyTable, NEW d, Holds(t, d), NEW u, NEW e, NEW text,
         NEW c \in 0..(t.ncols - 1),
         MoreInTitle(t, u, c, text), e.name = d.name,
         MoreHeard(d, e, 1, c + 1, text)
  PROVE  Holds(u, e)
<1> USE DEF MoreInTitle, MoreHeard
<1>0. t.ncols \in Nat /\ t.nrows \in Nat
  BY TableParts
<1>1. ASSUME NEW k \in 0..(u.ncols - 1)
      PROVE  /\ u.columns[k].title = CellHeard(e, 1, k + 1)
             /\ \A r \in 0..(u.nrows - 1) : /\ u.cells[r][k] = CellHeard(e, r + 2, k + 1)
                                            /\ Len(u.cells[r][k]) <= u.columns[k].width
             /\ \/ u.columns[k].width = 0
                \/ \E r \in 0..(u.nrows - 1) : Len(u.cells[r][k]) = u.columns[k].width
  <2>0. k \in 0..(t.ncols - 1) /\ k \in Int /\ c \in Int
    BY <1>0
  <2>1. /\ t.columns[k].title = CellHeard(d, 1, k + 1)
        /\ \A r \in 0..(t.nrows - 1) : /\ t.cells[r][k] = CellHeard(d, r + 2, k + 1)
                                       /\ Len(t.cells[r][k]) <= t.columns[k].width
        /\ \/ t.columns[k].width = 0
           \/ \E r \in 0..(t.nrows - 1) : Len(t.cells[r][k]) = t.columns[k].width
    BY <2>0, Zenon DEF Holds
  <2>2. k + 1 = c + 1 <=> k = c
    BY <2>0
  <2>3. u.columns[k].title = CellHeard(e, 1, k + 1)
    <3>1. u.columns[k].title = IF k = c THEN t.columns[k].title \o text ELSE t.columns[k].title
      BY <2>0
    <3>2. CellHeard(e, 1, k + 1)
            = IF k + 1 = c + 1 THEN CellHeard(d, 1, k + 1) \o text ELSE CellHeard(d, 1, k + 1)
      BY Zenon
    <3> QED
      BY <2>1, <2>2, <3>1, <3>2
  <2>4. ASSUME NEW r \in 0..(t.nrows - 1)
        PROVE  CellHeard(e, r + 2, k + 1) = CellHeard(d, r + 2, k + 1)
    <3>1. r + 2 # 1
      BY <1>0
    <3> QED
      BY <3>1
  <2> QED
    BY <2>0, <2>1, <2>3, <2>4
<1>2. u.name = e.name
  BY DEF Holds
<1> QED
  BY <1>1, <1>2, Zenon DEF Holds

LEMMA Widest ==
  ASSUME NEW R, NEW s \in R, NEW f \in [R -> Nat], NEW g \in [R -> Nat], NEW w \in Nat, NEW x,
         x = IF w >= g[s] THEN w ELSE g[s], g[s] >= f[s], \A r \in R : r # s => g[r] = f[r],
         \A r \in R : f[r] <= w, w = 0 \/ \E r \in R : f[r] = w
  PROVE  (\A r \in R : g[r] <= x) /\ (x = 0 \/ \E r \in R : g[r] = x)
<1>1. \A r \in R : g[r] <= x
  OBVIOUS
<1>2. CASE ~(w > g[s])
  BY <1>2
<1>3. CASE w > g[s]
  <2>1. PICK r \in R : f[r] = w
    BY <1>3
  <2>2. r # s
    BY <1>3, <2>1
  <2> QED
    BY <1>1, <1>3, <2>1, <2>2
<1> QED
  BY <1>1, <1>2, <1>3

LEMMA CellHeld ==
  ASSUME NEW t \in AnyTable, NEW d, Holds(t, d), NEW u, NEW e, NEW text \in Text,
         NEW s \in 0..(t.nrows - 1), NEW c \in 0..(t.ncols - 1),
         MoreInCell(t, u, s, c, text), e.name = d.name,
         MoreHeard(d, e, s + 2, c + 1, text)
  PROVE  Holds(u, e)
<1> USE DEF MoreInCell, MoreHeard
<1>0. /\ t.ncols \in Nat /\ t.nrows \in Nat
      /\ \A k \in 0..(t.ncols - 1) : t.columns[k].width \in Nat
      /\ \A r \in 0..(t.nrows - 1), k \in 0..(t.ncols - 1) : t.cells[r][k] \in Text
  BY TableParts DEF Column
<1>1. ASSUME NEW k \in 0..(u.ncols - 1)
      PROVE  /\ u.columns[k].title = CellHeard(e, 1, k + 1)
             /\ \A r \in 0..(u.nrows - 1) : /\ u.cells[r][k] = CellHeard(e, r + 2, k + 1)
                                            /\ Len(u.cells[r][k]) <= u.columns[k].width
             /\ \/ u.columns[k].width = 0
                \/ \E r \in 0..(u.nrows - 1) : Len(u.cells[r][k]) = u.columns[k].width
  <2>0. k \in 0..(t.ncols - 1) /\ k \in Int /\ c \in Int /\ s \in Int
    BY <1>0
  <2>1. /\ t.columns[k].title = CellHeard(d, 1, k + 1)
        /\ \A r \in 0..(t.nrows - 1) : /\ t.cells[r][k] = CellHeard(d, r + 2, k + 1)
                                       /\ Len(t.cells[r][k]) <= t.columns[k].width
        /\ \/ t.columns[k].width = 0
           \/ \E r \in 0..(t.nrows - 1) : Len(t.cells[r][k]) = t.columns[k].width
    BY <2>0, Zenon DEF Holds
  <2>2. k + 1 = c + 1 <=> k = c
    BY <2>0
  <2>3. u.columns[k].title = CellHeard(e, 1, k + 1)
    <3>1. 1 # s + 2
      BY <1>0
    <3> QED
      BY <2>0, <2>1, <3>1
  <2>4. ASSUME NEW r \in 0..(t.nrows - 1)
        PROVE  u.cells[r][k] = CellHeard(e, r + 2, k + 1)
    <3>1. r + 2 = s + 2 <=> r = s
      BY <1>0
    <3>2. u.cells[r][k] = IF r = s /\ k = c THEN t.cells[r][k] \o text ELSE t.cells[r][k]
      BY <2>0
    <3>3. CellHeard(e, r + 2, k + 1)
            = IF r = s /\ k = c THEN CellHeard(d, r + 2, k + 1) \o text ELSE CellHeard(d, r + 2, k + 1)
      <4>1. CellHeard(e, r + 2, k + 1)
              = IF r + 2 = s + 2 /\ k + 1 = c + 1 THEN CellHeard(d, r + 2, k + 1) \o text
                ELSE CellHeard(d, r + 2, k + 1)
        BY Zenon
      <4> QED
        BY <2>2, <3>1, <4>1, Zenon
    <3>4. t.cells[r][k] = CellHeard(d, r + 2, k + 1)
      BY <2>1
    <3> QED
      BY <3>2, <3>3, <3>4
  <2>5. CASE k # c
    <3>1. /\ u.columns[k].width = t.columns[k].width
          /\ \A r \in 0..(t.nrows - 1) : u.cells[r][k] = t.cells[r][k]
      BY <2>0, <2>5
    <3> QED
      BY <2>1, <2>3, <2>4, <3>1
  <2>6. CASE k = c
    <3> DEFINE R == 0..(t.nrows - 1)
    <3> DEFINE w == t.columns[c].width
    <3> DEFINE f == [r \in R |-> Len(t.cells[r][c])]
    <3> DEFINE g == [r \in R |-> Len(u.cells[r][c])]
    <3>1. \A r \in R : u.cells[r][c] = IF r = s THEN t.cells[r][c] \o text ELSE t.cells[r][c]
      OBVIOUS
    <3>2. u.columns[c].width = Wider(w, u.cells[s][c])
      OBVIOUS
    <3>3. \A r \in R : t.cells[r][c] \in Text
      BY <1>0
    <3>4. \A x \in Text : /\ x \o text \in Text /\ Len(x) \in Nat /\ Len(x \o text) \in Nat
                          /\ Len(x \o text) >= Len(x)
      BY DEF Text
    <3>5. f \in [R -> Nat] /\ g \in [R -> Nat] /\ w \in Nat /\ s \in R
      <4>1. \A r \in R : Len(t.cells[r][c]) \in Nat
        BY <3>3, <3>4
      <4>2. \A r \in R : Len(u.cells[r][c]) \in Nat
        BY <3>1, <3>3, <3>4
      <4>3. w \in Nat
        BY <1>0
      <4> QED
        BY <4>1, <4>2, <4>3
    <3>6. g[s] >= f[s] /\ \A r \in R : r # s => g[r] = f[r]
      <4>1. Len(u.cells[s][c]) >= Len(t.cells[s][c])
        BY <3>1, <3>3, <3>4
      <4>2. \A r \in R : r # s => Len(u.cells[r][c]) = Len(t.cells[r][c])
        BY <3>1
      <4> QED
        BY <4>1, <4>2
    <3>7. /\ \A r \in R : f[r] <= w
          /\ w = 0 \/ \E r \in R : f[r] = w
      BY <2>1, <2>6
    <3>8. u.columns[c].width = IF w >= g[s] THEN w ELSE g[s]
      <4>1. g[s] = Len(u.cells[s][c]) /\ g[s] \in Int /\ w \in Int
        BY <3>5
      <4> HIDE DEF w, g
      <4> QED
        BY <3>2, <4>1, MaxOfTwo DEF Wider
    <3> HIDE DEF f, g, w, R
    <3>9. /\ \A r \in R : g[r] <= u.columns[c].width
          /\ u.columns[c].width = 0 \/ \E r \in R : g[r] = u.columns[c].width
      BY <3>5, <3>6, <3>7, <3>8, Widest
    <3>10. /\ \A r \in R : Len(u.cells[r][c]) <= u.columns[c].width
           /\ u.columns[c].width = 0 \/ \E r \in R : Len(u.cells[r][c]) = u.columns[c].width
      BY <3>9, Zenon DEF g
    <3> QED
      BY <2>3, <2>4, <2>6, <3>10, Zenon DEF R
  <2> QED
    BY <2>5, <2>6
<1>2. u.name = e.name
  BY DEF Holds
<1> QED
  BY <1>1, <1>2, Zenon DEF Holds

LEMMA TextRead ==
  ASSUME NEW p, NEW at, NEW h, Agrees(p, at, h), p.table # 0, ~p.failed, NEW line,
         NEW text \in Text, ~IsMarker(text), NEW ev, ev = Ev("text", line, text),
         PlaceAfter(at, ev) # Astray
  PROVE  Kept(p, at, h, ev)
<1> DEFINE n == p.table
<1> DEFINE t == p.tables[n]
<1> DEFINE d == h.tables[n]
<1> DEFINE i == at.rows
<1> DEFINE j == at.cols
<1> DEFINE c == p.tcol
<1> DEFINE rows == [d.rows EXCEPT ![i] = [d.rows[i] EXCEPT ![j] = d.rows[i][j] \o text]]
<1> DEFINE q(u) == [p EXCEPT !.tables = [p.tables EXCEPT ![n] = u], !.trow = at.rows - 1, !.tcol = c]
<1> DEFINE e == [d EXCEPT !.rows = rows]
<1> DEFINE g == [h EXCEPT !.tables = [h.tables EXCEPT ![n] = e]]
<1>0. /\ InRow(at) => p.tcol = at.cols - 1 /\ Len(d.rows[at.rows]) = at.cols
      /\ at.in # "doc" /\ p.nthrows = 1
  BY InTable
<1>1. /\ ParserType(p) /\ PlaceType(at) /\ HeardType(h) /\ PlaceFits(at)
      /\ n = Len(p.tables) /\ n = Len(h.tables) /\ n \in 1..n /\ p.tables \in Seq(AnyTable)
      /\ t \in AnyTable /\ d \in HeardTable /\ d.rows \in Seq(Seq(Text))
      /\ Current(p) = t /\ t.ncols = at.ncols /\ t.nrows = at.nrows
      /\ Holds(t, d) /\ h.inside /\ p.trow = at.rows - 1 /\ Len(d.rows) = at.rows
  BY InTable
<1>2. PlaceAfter(at, ev) = at /\ at.in = "cell"
  BY <1>0 DEF PlaceAfter, Ev
<1>3. /\ i \in Nat /\ j \in Nat /\ at.ncols \in Nat /\ at.nrows \in Nat
      /\ i >= 1 /\ i <= at.nrows + 1 /\ j >= 1 /\ j <= at.ncols
      /\ c = j - 1 /\ Len(d.rows[i]) = j
  <2>1. InRow(at)
    BY <1>2 DEF InRow
  <2> QED
    BY <1>0, <1>1, <1>2, <2>1 DEF PlaceType, PlaceFits
<1>4. Callback(p, ev) = OnText(p, text)
  BY DEF Callback, Ev
<1>5. HeardAfter(h, ev) = g
  BY <1>1, <1>3 DEF HeardAfter, HeardMore, Ev
<1>6. d.rows \in Seq(Seq(Text)) /\ i \in DOMAIN d.rows /\ j \in DOMAIN d.rows[i]
  <2>1. i \in DOMAIN d.rows /\ d.rows[i] \in Seq(Text)
    BY <1>1, <1>3, LastIn
  <2>2. j \in DOMAIN d.rows[i]
    BY <1>3, <2>1, LastIn
  <2> QED
    BY <1>1, <2>1, <2>2
<1>7. /\ rows \in Seq(Seq(Text)) /\ Len(rows) = i /\ Len(rows[i]) = j
      /\ \A x, y : x.rows = d.rows /\ y.rows = rows => MoreHeard(x, y, i, j, text)
  <2> HIDE DEF d, i, j
  <2>1. /\ rows \in Seq(Seq(Text)) /\ Len(rows) = Len(d.rows) /\ Len(rows[i]) = Len(d.rows[i])
        /\ \A x, y : x.rows = d.rows /\ y.rows = rows => MoreHeard(x, y, i, j, text)
    BY <1>6, TextHeard
  <2>2. Len(d.rows) = i /\ Len(d.rows[i]) = j
    BY <1>1, <1>3 DEF i
  <2> QED
    BY <2>1, <2>2
<1>8. e.rows = rows /\ e.name = d.name
  BY <1>1 DEF HeardTable
<1> HIDE DEF rows
<1>9. MoreHeard(d, e, i, j, text)
  <2> HIDE DEF e, d, i, j
  <2> QED
    BY <1>7, <1>8
<1>10. ASSUME NEW u \in AnyTable, u.ncols = t.ncols, u.nrows = t.nrows, Holds(u, e)
       PROVE  Agrees(q(u), at, g)
  <2>1. /\ at.rows - 1 = at.rows - 1 /\ c \in Int /\ at.cols - 1 = c /\ at.in # "doc"
        /\ PlaceType(at) /\ PlaceFits(at)
    BY <1>1, <1>2, <1>3
  <2>2. u.ncols = at.ncols /\ u.nrows = at.nrows
    BY <1>1, <1>10
  <2>3. rows \in Seq(Seq(Text)) /\ Len(rows) = at.rows /\ Len(rows[at.rows]) = at.cols
    BY <1>7
  <2> HIDE DEF t, rows, c
  <2> QED
    BY <1>10, <2>1, <2>2, <2>3, LastChanged
<1>11. c \in 0..(t.ncols - 1) /\ InColumns(p, c) /\ c + 1 = j
  BY <1>1, <1>3, SMTT(30) DEF InColumns
<1>12. CASE i = 1
  <2> DEFINE col == [t.columns[c] EXCEPT !.title = t.columns[c].title \o text]
  <2> DEFINE u == [t EXCEPT !.columns = [t.columns EXCEPT ![c] = col]]
  <2>1. OnText(p, text) = [p EXCEPT !.tables[p.table].columns[p.tcol].title = @ \o text]
    BY <1>0, <1>1, <1>3, <1>11, <1>12 DEF OnText
  <2>2. OnText(p, text) = q(u)
    <3>1. ParserType(p) /\ at.rows - 1 = p.trow
      BY <1>1
    <3>2. OnText(p, text) = [p EXCEPT !.tables = [p.tables EXCEPT ![n] = u]]
      <4> HIDE DEF c
      <4> QED
        BY <2>1 DEF c
    <3> DEFINE tables == [p.tables EXCEPT ![n] = u]
    <3> HIDE DEF tables
    <3>3. [p EXCEPT !.tables = tables]
            = [p EXCEPT !.tables = tables, !.trow = p.trow, !.tcol = p.tcol]
      BY <3>1, ParserAlike
    <3> QED
      BY <3>1, <3>2, <3>3 DEF tables
  <2>3. t.columns[c] \in Column
    BY <1>1, <1>11, TableParts
  <2>4. t.columns[c].title \o text \in Text
    BY <2>3 DEF Column, Text
  <2>5. col \in Column /\ col.title = t.columns[c].title \o text /\ col.width = t.columns[c].width
    BY <2>3, <2>4 DEF Column
  <2>6. t \in AnyTable /\ c \in 0..(t.ncols - 1) /\ Holds(t, d)
    BY <1>1, <1>11
  <2> HIDE DEF col, t, d, c, e
  <2>7. /\ u \in AnyTable
        /\ u.name = t.name /\ u.nrows = t.nrows /\ u.ncols = t.ncols /\ u.cells = t.cells
        /\ \A k \in 0..(t.ncols - 1) : u.columns[k] = IF k = c THEN col ELSE t.columns[k]
    BY <2>5, <2>6, ColumnSet
  <2> HIDE DEF u
  <2>8. MoreInTitle(t, u, c, text)
    BY <2>5, <2>7 DEF MoreInTitle
  <2>9. MoreHeard(d, e, 1, c + 1, text)
    BY <1>9, <1>11, <1>12
  <2>10. Holds(u, e)
    BY <1>8, <2>6, <2>8, <2>9, TitleHeld
  <2>11. Agrees(q(u), at, g)
    BY <1>10, <2>7, <2>10
  <2> QED
    BY <1>2, <1>4, <1>5, <2>2, <2>11 DEF Kept
<1>13. CASE i # 1
  <2> DEFINE s == p.trow - p.nthrows
  <2> DEFINE cell == t.cells[s][c] \o text
  <2> DEFINE v == [t EXCEPT !.cells = [t.cells EXCEPT ![s] = [t.cells[s] EXCEPT ![c] = cell]]]
  <2> DEFINE col == [v.columns[c] EXCEPT !.width = Wider(v.columns[c].width, cell)]
  <2> DEFINE u == [v EXCEPT !.columns = [v.columns EXCEPT ![c] = col]]
  <2>1. s = i - 2 /\ s \in 0..(t.nrows - 1) /\ s + 2 = i
    <3>1. p.trow = i - 1 /\ p.nthrows = 1 /\ t.nrows = at.nrows
      BY <1>0, <1>1
    <3> HIDE DEF t, i
    <3>2. i \in Nat /\ at.nrows \in Nat /\ i >= 1 /\ i <= at.nrows + 1 /\ i # 1
      BY <1>3, <1>13
    <3> QED
      BY <3>1, <3>2
  <2>2. OnText(p, text)
          = [p EXCEPT !.tables[p.table] =
               [Current(p) EXCEPT !.cells[s][p.tcol] = cell, !.columns[p.tcol].width = Wider(@, cell)]]
    <3>1. p.trow # 0 /\ ~(p.trow < p.nthrows) /\ p.table # 0 /\ InColumns(p, p.tcol)
      BY <1>0, <1>1, <1>3, <1>11, <1>13
    <3>2. s \in 0..(Current(p).nrows - 1) /\ Current(p).cells[s][p.tcol] \o text = cell
      BY <1>1, <2>1
    <3> QED
      BY <3>1, <3>2, Zenon DEF OnText
  <2>3. OnText(p, text) = q(u)
    <3>1. u = [t EXCEPT !.cells[s][c] = cell, !.columns[c].width = Wider(@, cell)]
      BY <1>1, TableParts
    <3>2. OnText(p, text)
            = [p EXCEPT !.tables =
                 [p.tables EXCEPT ![n] =
                    [t EXCEPT !.cells[s][c] = cell, !.columns[c].width = Wider(@, cell)]]]
      <4>1. Current(p) = t
        BY <1>1
      <4> HIDE DEF cell, s
      <4> QED
        BY <2>2, <4>1
    <3>3. OnText(p, text) = [p EXCEPT !.tables = [p.tables EXCEPT ![n] = u]]
      BY <3>1, <3>2
    <3>4. ParserType(p) /\ at.rows - 1 = p.trow
      BY <1>1
    <3> DEFINE tables == [p.tables EXCEPT ![n] = u]
    <3> HIDE DEF tables
    <3>5. [p EXCEPT !.tables = tables]
            = [p EXCEPT !.tables = tables, !.trow = p.trow, !.tcol = p.tcol]
      BY <3>4, ParserAlike
    <3> QED
      BY <3>3, <3>4, <3>5 DEF tables
  <2>4. t \in AnyTable /\ c \in 0..(t.ncols - 1) /\ Holds(t, d)
    BY <1>1, <1>11
  <2>5. t.cells[s][c] \in Text /\ t.columns[c] \in Column
    <3>1. /\ t.columns \in [0..(t.ncols - 1) -> Column]
          /\ t.cells \in [0..(t.nrows - 1) -> [0..(t.ncols - 1) -> Text]]
      BY <2>4, TableParts
    <3>2. s \in 0..(t.nrows - 1) /\ c \in 0..(t.ncols - 1)
      BY <2>1, <2>4
    <3> HIDE DEF s, c, t
    <3> QED
      BY <3>1, <3>2
  <2>6. cell \in Text
    BY <2>5 DEF Text
  <2> HIDE DEF cell, t, d, c, e, s
  <2>7. /\ v \in AnyTable
        /\ v.name = t.name /\ v.nrows = t.nrows /\ v.ncols = t.ncols /\ v.columns = t.columns
        /\ \A x \in 0..(t.nrows - 1), k \in 0..(t.ncols - 1) :
             v.cells[x][k] = IF x = s /\ k = c THEN cell ELSE t.cells[x][k]
    BY <2>1, <2>4, <2>6, CellSet
  <2> HIDE DEF v
  <2>8. Wider(t.columns[c].width, cell) \in Nat
    <3>1. t.columns[c].width \in Nat /\ Len(cell) \in Nat
      BY <2>5, <2>6 DEF Column, Text
    <3> QED
      BY <3>1, MaxOfTwo DEF Wider
  <2>9. col \in Column /\ col.title = t.columns[c].title /\ col.width = Wider(t.columns[c].width, cell)
    BY <2>5, <2>7, <2>8 DEF Column
  <2>10. c \in 0..(v.ncols - 1)
    BY <2>4, <2>7
  <2> HIDE DEF col
  <2>11. /\ u \in AnyTable
         /\ u.name = v.name /\ u.nrows = v.nrows /\ u.ncols = v.ncols /\ u.cells = v.cells
         /\ \A k \in 0..(v.ncols - 1) : u.columns[k] = IF k = c THEN col ELSE v.columns[k]
    BY <2>7, <2>9, <2>10, ColumnSet
  <2> HIDE DEF u
  <2>12. u.cells[s][c] = cell
    BY <2>1, <2>4, <2>7, <2>11
  <2>13. MoreInCell(t, u, s, c, text)
    <3>1. \A x \in 0..(t.nrows - 1), k \in 0..(t.ncols - 1) :
            u.cells[x][k] = IF x = s /\ k = c THEN t.cells[x][k] \o text ELSE t.cells[x][k]
      BY <2>7, <2>11 DEF cell
    <3>2. \A k \in 0..(t.ncols - 1) :
            /\ u.columns[k].title = t.columns[k].title
            /\ u.columns[k].width = IF k = c THEN Wider(t.columns[k].width, u.cells[s][c])
                                    ELSE t.columns[k].width
      BY <2>7, <2>9, <2>11, <2>12
    <3> QED
      BY <2>7, <2>11, <3>1, <3>2, Zenon DEF MoreInCell
  <2>14. MoreHeard(d, e, s + 2, c + 1, text)
    BY <1>9, <1>11, <2>1
  <2>15. u.nrows = t.nrows /\ u.ncols = t.ncols /\ e.name = d.name
    BY <1>8, <2>7, <2>11
  <2>16. Holds(u, e)
    BY <2>1, <2>4, <2>13, <2>14, <2>15, CellHeld
  <2>17. Agrees(q(u), at, g)
    BY <1>10, <2>11, <2>15, <2>16
  <2> QED
    BY <1>2, <1>4, <1>5, <2>3, <2>17 DEF Kept
<1> QED
  BY <1>12, <1>13

(* The callbacks that specgen does nothing in.                              *)
LEMMA Unnoticed ==
  ASSUME NEW p, NEW at, NEW h, Agrees(p, at, h), ~p.failed, p.table = 0,
         NEW kind \in {"enter", "leave", "text"}, NEW type, NEW arg,
         ~(kind = "text" /\ IsMarker(arg)), ~(kind = "enter" /\ type = "table"),
         NEW ev, ev = Ev(kind, type, arg), PlaceAfter(at, ev) # Astray
  PROVE  Kept(p, at, h, ev)
<1> DEFINE b == PlaceAfter(at, ev)
<1>1. PlaceType(at) /\ PlaceFits(at) /\ Recorded(p, at, h)
  BY DEF Agrees
<1>2. PlaceType(b) /\ PlaceFits(b)
  BY <1>1, AfterFits
<1>3. Callback(p, ev) = p /\ HeardAfter(h, ev) = h
  BY <1>1, NotInTable DEF Recorded
<1> HIDE DEF b
<1>4. Agrees(p, b, h)
  BY <1>2, OnlyMoved
<1> QED
  BY <1>3, <1>4 DEF Kept, b

LEMMA Moved ==
  ASSUME NEW p, NEW at, NEW h, Agrees(p, at, h), ~p.failed, p.table # 0,
         NEW kind \in {"enter", "leave"}, NEW type, NEW arg,
         type # "table", kind = "enter" => type \notin {"tr", "th", "td"},
         NEW ev, ev = Ev(kind, type, arg), PlaceAfter(at, ev) # Astray
  PROVE  Kept(p, at, h, ev)
<1> DEFINE b == PlaceAfter(at, ev)
<1>1. PlaceType(at) /\ PlaceFits(at) /\ at.in # "doc" /\ h.inside
  BY InTable
<1>2. PlaceType(b) /\ PlaceFits(b)
  BY <1>1, AfterFits
<1>3. Callback(p, ev) = p /\ HeardAfter(h, ev) = h
  BY <1>1 DEF Callback, HeardAfter, HeardMore, Ev
<1>4. /\ b.in # "doc" /\ b.ncols = at.ncols /\ b.nrows = at.nrows /\ b.rows = at.rows
      /\ InRow(b) => InRow(at) /\ b.cols = at.cols
  <2>1. CASE kind = "enter"
    <3>1. b = PlaceEntered(at, type, arg)
      BY <2>1 DEF PlaceAfter, Ev
    <3>2. \/ b = [at EXCEPT !.in = "thead"]
          \/ b = [at EXCEPT !.in = "tbody"]
      BY <1>1, <2>1, <3>1 DEF PlaceEntered
    <3> HIDE DEF b
    <3> QED
      BY <1>1, <3>2 DEF PlaceType, InRow
  <2>2. CASE kind = "leave"
    <3>1. b = PlaceLeft(at, type)
      BY <2>2 DEF PlaceAfter, Ev
    <3>2. \/ b = [at EXCEPT !.in = "table"] \/ b = [at EXCEPT !.in = "thead"]
          \/ b = [at EXCEPT !.in = "tbody"]
          \/ b = [at EXCEPT !.in = "tr"] /\ at.in = "cell"
      BY <1>1, <2>2, <3>1 DEF PlaceLeft
    <3> HIDE DEF b
    <3> QED
      BY <1>1, <3>2 DEF PlaceType, InRow
  <2> QED
    BY <2>1, <2>2
<1> HIDE DEF b
<1>5. Agrees(p, b, h)
  BY <1>2, <1>4, OnlyMoved
<1> QED
  BY <1>3, <1>5 DEF Kept, b

-----------------------------------------------------------------------------
(* The invariant. *)

LEMMA InitAgrees == TablesInit => TablesInv
<1> SUFFICES ASSUME TablesInit PROVE TablesInv
  OBVIOUS
<1>1. ParserType(parser) /\ HeardType(heard)
  BY DEF TablesInit, NewParser, HeardNothing, ParserType, HeardType, NoId, Text
<1>2. PlaceType(place) /\ PlaceFits(place)
  BY DEF TablesInit, Outside, PlaceType, PlaceFits, InRow, Places
<1>3. Numbered(parser, place) /\ Recorded(parser, place, heard) /\ AllHold(parser, heard)
  BY DEF TablesInit, NewParser, HeardNothing, Numbered, Recorded, AllHold
<1> QED
  BY <1>1, <1>2, <1>3 DEF TablesInit, NewParser, TablesInv, Agrees

(* Whatever is reported.                                                    *)
LEMMA ReportKeeps ==
  ASSUME TablesInv, NEW kind, NEW type, NEW arg, Report(kind, type, arg),
         \/ kind = "enter" /\ type = "table" /\ arg \in Nat \X Nat
         \/ kind = "enter" /\ type \in {"thead", "tbody", "tr"} \cup OtherBlocks
         \/ kind = "enter" /\ type \in {"th", "td"}
         \/ kind = "leave" /\ type \in TableBlocks \cup OtherBlocks /\ arg = <<>>
         \/ kind = "text" /\ arg \in Text
  PROVE  TablesInv'
<1> DEFINE ev == [kind |-> kind, type |-> type, arg |-> arg]
<1>1. /\ Agrees(parser, place, heard) /\ ~parser.failed
      /\ ev = Ev(kind, type, arg) /\ PlaceAfter(place, ev) # Astray
  BY DEF Report, TablesInv, Ev
<1>2. /\ parser' = Callback(parser, ev) /\ place' = PlaceAfter(place, ev)
      /\ heard' = HeardAfter(heard, ev)
  BY DEF Report
<1> HIDE DEF ev
<1>3. SUFFICES Kept(parser, place, heard, ev)
  BY <1>2 DEF Kept, TablesInv, Agrees
<1>4. CASE kind = "enter" /\ type = "table"
  <2>1. PICK ncols \in Nat, nrows \in Nat : arg = <<ncols, nrows>>
    BY <1>4 DEF OtherBlocks
  <2> QED
    BY <1>1, <1>4, <2>1, TableEntered
<1>5. CASE kind = "text" /\ IsMarker(arg)
  BY <1>1, <1>5, MarkerRead
<1>6. CASE ~(kind = "enter" /\ type = "table") /\ ~(kind = "text" /\ IsMarker(arg)) /\ parser.table = 0
  BY <1>1, <1>6, Unnoticed
<1>7. CASE parser.table # 0 /\ kind = "text" /\ ~IsMarker(arg)
  BY <1>1, <1>7, TextRead
<1>8. CASE parser.table # 0 /\ kind = "enter" /\ type = "tr"
  BY <1>1, <1>8, RowEntered
<1>9. CASE parser.table # 0 /\ kind = "enter" /\ type \in {"th", "td"}
  BY <1>1, <1>9, CellEntered
<1>10. CASE parser.table # 0 /\ kind = "leave" /\ type = "table"
  BY <1>1, <1>10, TableLeft
<1>11. CASE /\ parser.table # 0 /\ kind \in {"enter", "leave"} /\ type # "table"
            /\ kind = "enter" => type \notin {"tr", "th", "td"}
  BY <1>1, <1>11, Moved
<1> QED
  BY <1>4, <1>5, <1>6, <1>7, <1>8, <1>9, <1>10, <1>11

LEMMA StepKeeps == TablesInv /\ [TablesNext]_tablevars => TablesInv'
<1> SUFFICES ASSUME TablesInv, [TablesNext]_tablevars PROVE TablesInv'
  OBVIOUS
<1>1. ASSUME NEW ncols \in Nat, NEW nrows \in Nat, Report("enter", "table", <<ncols, nrows>>)
      PROVE  TablesInv'
  BY <1>1, ReportKeeps
<1>2. ASSUME NEW type \in {"thead", "tbody", "tr"} \cup OtherBlocks, NEW arg,
             Report("enter", type, arg)
      PROVE  TablesInv'
  BY <1>2, ReportKeeps
<1>3. ASSUME NEW type \in {"th", "td"}, NEW align, Report("enter", type, align)
      PROVE  TablesInv'
  BY <1>3, ReportKeeps
<1>4. ASSUME NEW type \in TableBlocks \cup OtherBlocks, Report("leave", type, <<>>)
      PROVE  TablesInv'
  BY <1>4, ReportKeeps
<1>5. ASSUME NEW line, NEW text \in Text, Report("text", line, text)
      PROVE  TablesInv'
  BY <1>5, ReportKeeps
<1>6. CASE UNCHANGED tablevars
  BY <1>6 DEF tablevars, TablesInv, Agrees
<1> QED
  BY <1>1, <1>2, <1>3, <1>4, <1>5, <1>6 DEF TablesNext, Text

THEOREM TablesAgree == TablesSpec => []TablesInv
BY InitAgrees, StepKeeps, PTL DEF TablesSpec

(* Whatever the size of the tables and the order of names and tables, no    *)
(* callback of specgen writes outside of the cells and columns that         *)
(* table_new made (md_on_enter_block, md_on_text).                          *)
THEOREM ColumnsInTable == TablesSpec => []WritesInTable
<1>1. TablesInv => WritesInTable
  BY DEF TablesInv, Agrees, WritesInTable
<1> QED
  BY <1>1, TablesAgree, PTL

(* At any time the tables of specgen hold all the text reported in those    *)
(* that have a name, cell by cell, and each column is as wide as its widest *)
(* cell: no row or cell is skipped, merged or counted twice.                *)
THEOREM TablesComplete == TablesSpec => []TablesHold
<1>1. TablesInv => TablesHold
  BY DEF TablesInv, Agrees, Recorded, AllHold, TablesHold
<1> QED
  BY <1>1, TablesAgree, PTL
=============================================================================
