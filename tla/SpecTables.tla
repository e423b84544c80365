----------------------------- MODULE SpecTables -----------------------------
(***************************************************************************)
(* How specgen collects the tables of a document (tools/specgen/specgen.c, *)
(* table.c): the callbacks of the Markdown parser on mdp_t, for every      *)
(* stream of callbacks in which tables are reported as the parser          *)
(* announces them.  SpecDoc has the parser that makes them.                *)
(*                                                                         *)
(* A callback is a record of what is reported (enter, leave or text), of   *)
(* which type of block, and with which argument: the columns and rows of   *)
(* a table, the alignment of a cell, the text.  A marker is an empty link  *)
(* with a title, [](# ":id"); here it is a text that starts with "@" and   *)
(* goes on with the name.  The parser reports it as a span without text.   *)
(* Any text that starts with "@" counts as a marker, also one in code, of  *)
(* which the parser would make none.                                       *)
(***************************************************************************)
EXTENDS Integers, Sequences, FiniteSets, SequencesExt

CONSTANT TooLong \* the ids of 128 characters and more

VARIABLES
  parser, \* mdp_t, with the list of tables of doc_t
  place,  \* where in a table the parser of the text is
  heard   \* history: the tables with a name, as they were reported

tablevars == <<parser, place, heard>>

NoId == <<>>
IsMarker(text) == Len(text) > 1 /\ text[1] = "@"
MarkerId(text) == Tail(text)

(* mdp_t: table is the place of the table being read, 0 without one; stray  *)
(* is a history: a callback has written outside of its table.               *)
NewParser == [tables |-> <<>>, id |-> NoId, table |-> 0, trow |-> 0, tcol |-> 0,
              nthrows |-> 0, failed |-> FALSE, stray |-> FALSE]

-----------------------------------------------------------------------------
(* The callbacks on a parser p. *)

(* table_new *)
TableNew(name, nrows, ncols) ==
  [name |-> name, nrows |-> nrows, ncols |-> ncols,
   columns |-> [c \in 0..(ncols - 1) |-> [title |-> <<>>, align |-> -1, width |-> 0]],
   cells |-> [r \in 0..(nrows - 1) |-> [c \in 0..(ncols - 1) |-> <<>>]]]

Current(p) == p.tables[p.table]

TableBegin(p, head, body, ncols) ==
  [p EXCEPT !.tables = Append(@, TableNew(p.id, body, ncols)), !.table = Len(p.tables) + 1,
            !.nthrows = head, !.trow = -1, !.tcol = 0]

(* The head of a table has one row.                                        *)
EnterTable(p, ncols, body) ==
  IF p.id # NoId /\ p.table = 0 THEN TableBegin(p, 1, body, ncols) ELSE p

(* Mutant: the first cell of a row is counted twice. *)
EnterRowAtZero(p) ==
  IF p.table = 0 THEN p
  ELSE [p EXCEPT !.tcol = 0, !.trow = Min({Current(p).nrows, @ + 1})]

EnterRow(p) ==
  IF p.table = 0 THEN p
  ELSE [p EXCEPT !.tcol = -1, !.trow = Min({Current(p).nrows, @ + 1})]

InColumns(p, col) == col \in 0..(Current(p).ncols - 1)

Aligned(align) == CASE align = "center" -> 0 [] align = "right" -> 1 [] OTHER -> -1

EnterCell(p, align) ==
  LET col == Min({Current(p).ncols, p.tcol + 1})
  IN IF p.table = 0 THEN p
     ELSE IF p.trow # 0 THEN [p EXCEPT !.tcol = col]
     ELSE IF InColumns(p, col)
     THEN [p EXCEPT !.tcol = col, !.tables[p.table].columns[col].align = Aligned(align)]
     ELSE [p EXCEPT !.tcol = col, !.stray = TRUE]

(* Mutant: the next table has the name, too. *)
LeaveTableNamed(p) == IF p.table = 0 THEN p ELSE [p EXCEPT !.table = 0]

LeaveTable(p) == IF p.table = 0 THEN p ELSE [p EXCEPT !.table = 0, !.id = NoId]

(* md_on_enter_span: any marker sets the id, also one in a table. *)
OnMarker(p, id) == IF id \in TooLong THEN [p EXCEPT !.failed = TRUE] ELSE [p EXCEPT !.id = id]

(* Mutant: a column is as wide as the last of its cells. *)
WiderLast(width, text) == Len(text)

Wider(width, text) == Max({width, Len(text)})

(* md_on_text *)
OnText(p, text) ==
  LET row == p.trow - p.nthrows
      inside == InColumns(p, p.tcol) /\ (p.trow >= p.nthrows => row \in 0..(Current(p).nrows - 1))
  IN IF p.table = 0 \/ (p.trow # 0 /\ p.trow < p.nthrows) THEN p
     ELSE IF ~inside THEN [p EXCEPT !.stray = TRUE]
     ELSE IF p.trow = 0 THEN [p EXCEPT !.tables[p.table].columns[p.tcol].title = @ \o text]
     ELSE LET cell == Current(p).cells[row][p.tcol] \o text
          IN [p EXCEPT !.tables[p.table] =
                [Current(p) EXCEPT !.cells[row][p.tcol] = cell,
                                   !.columns[p.tcol].width = Wider(@, cell)]]

(* One callback; after one has failed there are no more. *)
Callback(p, ev) ==
  IF p.failed THEN p
  ELSE CASE ev.kind = "text" /\ IsMarker(ev.arg) -> OnMarker(p, MarkerId(ev.arg))
         [] ev.kind = "text" /\ ~IsMarker(ev.arg) -> OnText(p, ev.arg)
         [] ev.kind = "enter" /\ ev.type = "table" -> EnterTable(p, ev.arg[1], ev.arg[2])
         [] ev.kind = "enter" /\ ev.type = "tr" -> EnterRow(p)
         [] ev.kind = "enter" /\ ev.type \in {"th", "td"} -> EnterCell(p, ev.arg)
         [] ev.kind = "leave" /\ ev.type = "table" -> LeaveTable(p)
         [] OTHER -> p

-----------------------------------------------------------------------------
(* What the parser of the text announces: the comment of md_on_enter_block,  *)
(* TABLE THEAD (TR TH+)* TBODY (TR TD+)*, with the numbers in the detail of  *)
(* the table, of which one row is the head's (md_process_leaf_block).        *)

(* in is the innermost part of a table; rows and cols count those reported.  *)
Outside == [in |-> "doc", ncols |-> 0, nrows |-> 0, rows |-> 0, cols |-> 0]
Astray == [Outside EXCEPT !.in = "wrong"]

TableBlocks == {"table", "thead", "tbody", "tr", "th", "td"}

PlaceEntered(at, type, arg) ==
  CASE type = "table" /\ at.in = "doc" /\ arg \in Nat \X Nat ->
         [Outside EXCEPT !.in = "table", !.ncols = arg[1], !.nrows = arg[2]]
    [] type = "thead" /\ at.in = "table" /\ at.rows = 0 -> [at EXCEPT !.in = "thead"]
    [] type = "tbody" /\ at.in = "table" /\ at.rows = 1 -> [at EXCEPT !.in = "tbody"]
    [] /\ type = "tr"
       /\ \/ at.in = "thead" /\ at.rows = 0
          \/ at.in = "tbody" /\ at.rows <= at.nrows -> [at EXCEPT !.in = "tr", !.rows = @ + 1, !.cols = 0]
    [] /\ type = IF at.rows = 1 THEN "th" ELSE "td"
       /\ at.in = "tr" /\ at.cols < at.ncols -> [at EXCEPT !.in = "cell", !.cols = @ + 1]
    [] type \notin TableBlocks /\ at.in = "doc" -> at
    [] OTHER -> Astray

PlaceLeft(at, type) ==
  CASE type = "table" /\ at.in = "table" /\ at.rows = at.nrows + 1 -> Outside
    [] type = "thead" /\ at.in = "thead" /\ at.rows = 1 -> [at EXCEPT !.in = "table"]
    [] type = "tbody" /\ at.in = "tbody" /\ at.rows = at.nrows + 1 -> [at EXCEPT !.in = "table"]
    [] type = "tr" /\ at.in = "tr" /\ at.cols = at.ncols ->
         [at EXCEPT !.in = IF at.rows = 1 THEN "thead" ELSE "tbody"]
    [] type = (IF at.rows = 1 THEN "th" ELSE "td") /\ at.in = "cell" -> [at EXCEPT !.in = "tr"]
    [] type \notin TableBlocks /\ at.in = "doc" -> at
    [] OTHER -> Astray

PlaceAfter(at, ev) ==
  CASE ev.kind = "text" -> IF at.in \in {"doc", "cell"} THEN at ELSE Astray
    [] ev.kind = "enter" -> PlaceEntered(at, ev.type, ev.arg)
    [] ev.kind = "leave" -> PlaceLeft(at, ev.type)

-----------------------------------------------------------------------------
(* What a reader of the callbacks hears of the tables with a name: a name    *)
(* is taken by the next table, and those in such a table are not meant; id   *)
(* is the name for the next table, and inside is within one that has a name. *)

HeardNothing == [id |-> NoId, inside |-> FALSE, tables |-> <<>>]

HeardMore(h, ev) ==
  LET n == Len(h.tables)
      i == Len(h.tables[n].rows)
      j == Len(h.tables[n].rows[i])
  IN CASE ev.kind = "enter" /\ ev.type = "tr" -> [h EXCEPT !.tables[n].rows = Append(@, <<>>)]
       [] ev.kind = "enter" /\ ev.type \in {"th", "td"} ->
            [h EXCEPT !.tables[n].rows[i] = Append(@, <<>>)]
       [] ev.kind = "text" /\ ~IsMarker(ev.arg) ->
            [h EXCEPT !.tables[n].rows[i][j] = @ \o ev.arg]
       [] ev.kind = "leave" /\ ev.type = "table" -> [h EXCEPT !.inside = FALSE]
       [] OTHER -> h

HeardAfter(h, ev) ==
  CASE h.inside -> HeardMore(h, ev)
    [] ~h.inside /\ ev.kind = "text" /\ IsMarker(ev.arg) -> [h EXCEPT !.id = MarkerId(ev.arg)]
    [] ~h.inside /\ ev.kind = "enter" /\ ev.type = "table" /\ h.id # NoId ->
         [id |-> NoId, inside |-> TRUE, tables |-> Append(h.tables, [name |-> h.id, rows |-> <<>>])]
    [] OTHER -> h

-----------------------------------------------------------------------------
TablesInit == parser = NewParser /\ place = Outside /\ heard = HeardNothing

(* One callback, of a parser of which none has failed. *)
Report(kind, type, arg) ==
  LET ev == [kind |-> kind, type |-> type, arg |-> arg]
  IN /\ ~parser.failed /\ PlaceAfter(place, ev) # Astray
     /\ parser' = Callback(parser, ev)
     /\ place' = PlaceAfter(place, ev)
     /\ heard' = HeardAfter(heard, ev)

Alignments == {"default", "left", "center", "right"}
OtherBlocks == {"doc", "quote", "ul", "ol", "li", "p", "h", "hr", "code", "html"}

TablesNext ==
  \/ \E ncols, nrows \in Nat : Report("enter", "table", <<ncols, nrows>>)
  \/ \E type \in {"thead", "tbody", "tr"} \cup OtherBlocks, arg \in Seq(Nat) :
       Report("enter", type, arg)
  \/ \E type \in {"th", "td"}, align \in Alignments : Report("enter", type, align)
  \/ \E type \in TableBlocks \cup OtherBlocks : Report("leave", type, <<>>)
  \/ \E line \in Nat, text \in Seq(STRING) : Report("text", line, text)

TablesSpec == TablesInit /\ [][TablesNext]_tablevars

-----------------------------------------------------------------------------
(* Properties. *)

(* No callback writes outside of the cells and columns of its table: the    *)
(* row and column counters of specgen go along with what is reported.       *)
WritesInTable == ~parser.stray

(* The text reported in the j-th cell of the i-th row.                       *)
CellHeard(t, i, j) ==
  IF i \in DOMAIN t.rows /\ j \in DOMAIN t.rows[i] THEN t.rows[i][j] ELSE <<>>

(* The table t of specgen holds, cell by cell, what was reported as d.        *)
Holds(t, d) ==
  /\ t.name = d.name
  /\ \A c \in 0..(t.ncols - 1) :
       /\ t.columns[c].title = CellHeard(d, 1, c + 1)
       /\ \A r \in 0..(t.nrows - 1) :
            /\ t.cells[r][c] = CellHeard(d, r + 2, c + 1)
            /\ Len(t.cells[r][c]) <= t.columns[c].width
       /\ \/ t.columns[c].width = 0
          \/ \E r \in 0..(t.nrows - 1) : Len(t.cells[r][c]) = t.columns[c].width

(* The tables of specgen hold all the text reported in them so far, that of  *)
(* the head as titles, and each column is as wide as the widest cell of its  *)
(* body: rows and cells reported one by one end up where the counters put    *)
(* them, and those of earlier tables stay as they are.                       *)
TablesHold ==
  /\ Len(parser.tables) = Len(heard.tables)
  /\ \A n \in DOMAIN parser.tables : Holds(parser.tables[n], heard.tables[n])
=============================================================================
