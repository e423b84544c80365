----------------------------- MODULE ElasticTab -----------------------------
(***************************************************************************)
(* The tab writer of specgen (tools/specgen/elastictab.c): text is         *)
(* collected cell by cell and line by line, and written out in columns     *)
(* when the writer is flushed.  A column is a run of lines that have a     *)
(* cell ended by a tab there; its width is that of its widest cell.        *)
(*                                                                         *)
(* Padding with tabs, ETAB_ALIGN_RIGHT and ETAB_DEBUG are left out, and so *)
(* is what happens without memory.                                         *)
(***************************************************************************)
EXTENDS Integers, Sequences, FiniteSets, SequencesExt

CONSTANTS
  MaxCols,  \* ETAB_MAX_COLS
  Configs,  \* how writers are set up: minwidth, padding, flags and ralign
  Texts,    \* what a call of etab_write may be given
  MaxWrites \* bound on the calls of etab_write

ASSUME TabConstants ==
  /\ MaxCols \in Nat \ {0} /\ MaxWrites \in Nat
  /\ \A c \in Configs : /\ c.minwidth \in Nat /\ c.padding \in Nat
                        /\ c.flags \subseteq {"skip", "strip"}
                        /\ c.ralign \subseteq 1..MaxCols

(* The characters that mean something, by their names in C.                 *)
Tab == "t"
Newline == "n"
Formfeed == "f"
Vtab == "v"
Escape == "\\"
Ends == {Tab, Vtab, Newline, Formfeed}
Pad == "_"

VARIABLES
  config, \* what etab_init was given
  e,      \* the writer: output, buf, pos, cell, lines, whether in an escape
  input,  \* history: the texts that have been written to the writer
  done    \* etab_flush has been called at the end

vars == <<config, e, input, done>>

NoCell == [size |-> 0, width |-> 0, htab |-> FALSE]

(* etab_reset: one line, without cells.                                     *)
Reset(text) ==
  [output |-> text, buf |-> <<>>, pos |-> 0, cell |-> NoCell, esc |-> FALSE, lines |-> <<<<>>>>]

Init ==
  /\ config \in Configs
  /\ e = Reset(<<>>) /\ input = <<>> /\ done = FALSE

Strip == "strip" \in config.flags

-----------------------------------------------------------------------------
(* Writing out. *)

Pads(n) == [k \in 1..n |-> Pad]
Distance(a, b) == IF a > b THEN a - b ELSE b - a

(* One cell c of column j, for the widths w; f is what is written, how far  *)
(* buf has been used, and how the cell before was aligned (2: there is none)*)
WriteCell(x, f, c, j, w) ==
  LET left == IF j \in config.ralign THEN 0 ELSE 1
      diff == IF f.prev = 2 THEN 0 ELSE Distance(f.prev, left)
      text == SubSeq(x.buf, f.pos + 1, f.pos + c.size)
      Padding(k) == IF j <= Len(w) THEN Pads(w[j] - k - c.width) ELSE <<>>
  IN [out |-> f.out \o (IF c.size = 0 THEN Padding(0)
                        ELSE IF left = 1 THEN text \o Padding(0)
                        ELSE Padding(diff) \o text \o Pads(diff)),
      pos |-> f.pos + c.size,
      prev |-> left]

RECURSIVE WriteCells(_, _, _, _, _)
WriteCells(x, f, line, j, w) ==
  IF j > Len(line) THEN f
  ELSE WriteCells(x, WriteCell(x, f, line[j], j, w), line, j + 1, w)

(* etab_write_lines: lines l0 up to and without l1.                         *)
RECURSIVE WriteLines(_, _, _, _, _)
WriteLines(x, f, l0, l1, w) ==
  IF l0 >= l1 THEN f
  ELSE LET g == WriteCells(x, f, x.lines[l0], 1, w)
           rest == SubSeq(x.buf, g.pos + 1, g.pos + x.cell.size)
       IN WriteLines(x,
            IF l0 = Len(x.lines)
            THEN [g EXCEPT !.out = @ \o rest, !.pos = @ + x.cell.size]
            ELSE [g EXCEPT !.out = Append(@, Newline)],
            l0 + 1, l1, w)

(* Each call starts without a previous alignment.                           *)
WriteOut(x, f, l0, l1, w) == WriteLines(x, [f EXCEPT !.prev = 2], l0, l1, w)

(* Mutant: also the last cell of a line makes a column. *)
HasColumnLast(line, column) == column < Len(line)

(* The line has a cell in this column, counted from 0, and one behind it.   *)
HasColumn(line, column) == column < Len(line) - 1

(* The first line from l on, before l1, that does not have the column.      *)
BlockEnd(x, column, l, l1) ==
  CHOOSE k \in l..l1 : /\ \A i \in l..(k - 1) : HasColumn(x.lines[i], column)
                       /\ k < l1 => ~HasColumn(x.lines[k], column)

Maximum(s) == CHOOSE m \in s : \A k \in s : k <= m

BlockWidth(x, column, l, l1) ==
  LET cells == {x.lines[i][column + 1] : i \in l..(l1 - 1)}
  IN IF "skip" \in config.flags /\ \A c \in cells : c.width = 0 /\ ~c.htab
     THEN 0
     ELSE Maximum({config.minwidth} \cup {c.width + config.padding : c \in cells})

(* etab_format: lines l0..l1 - 1 have the columns whose widths are w; this  *)
(* is the line that is looked at, those from l0 on are not yet written.     *)
RECURSIVE FormatFrom(_, _, _, _, _, _)
FormatFrom(x, f, this, l0, l1, w) ==
  IF this >= l1 THEN WriteOut(x, f, l0, l1, w)
  ELSE IF ~HasColumn(x.lines[this], Len(w)) THEN FormatFrom(x, f, this + 1, l0, l1, w)
  ELSE LET end == BlockEnd(x, Len(w), this, l1)
           width == BlockWidth(x, Len(w), this, end)
           before == WriteOut(x, f, l0, this, w)
           block == FormatFrom(x, before, this, this, end, Append(w, width))
       IN FormatFrom(x, block, end + 1, end, l1, w)

Formatted(x) ==
  FormatFrom(x, [out |-> x.output, pos |-> 0, prev |-> 2], 1, 1, Len(x.lines) + 1, <<>>).out

-----------------------------------------------------------------------------
(* Collecting, on a writer x. *)

(* etab_update_width *)
UpdatedWidth(x) ==
  [x EXCEPT !.cell.width = @ + (Len(x.buf) - x.pos), !.pos = Len(x.buf)]

(* etab_cell_append *)
CellAppend(x, text) == [x EXCEPT !.cell.size = @ + Len(text), !.buf = @ \o text]

(* etab_terminate_cell: without room, the line's last cell is replaced.     *)
TerminateCell(x, htab) ==
  LET n == Len(x.lines)
      line == x.lines[n]
      cell == [x.cell EXCEPT !.htab = htab]
  IN [x EXCEPT !.cell = NoCell,
               !.lines[n] = IF Len(line) = MaxCols THEN [line EXCEPT ![MaxCols] = cell]
                            ELSE Append(line, cell)]

(* etab_end_escape: the escape characters have no width.                    *)
EndEscape(x) ==
  LET y == UpdatedWidth(x)
  IN [y EXCEPT !.cell.width = IF Strip THEN @ ELSE @ - 2, !.esc = FALSE]

(* etab_flush: a cell that has begun is ended, and so is its escape.        *)
Flush(x) ==
  LET y == IF x.esc THEN EndEscape(x) ELSE x
  IN Reset(Formatted(IF x.cell.size > 0 THEN TerminateCell(y, FALSE) ELSE x))

(* Mutant: a line is flushed also when it has two cells. *)
FlushesTwo(line, ch) == ch = Formfeed \/ Len(line) <= 2

(* A line of one cell has no part in any column: all before it is settled.  *)
Flushes(line, ch) == ch = Formfeed \/ Len(line) = 1

(* The end of a cell, and of its line. *)
CellEnds(x, ch) ==
  LET y == TerminateCell(UpdatedWidth(x), ch = Tab)
      z == [y EXCEPT !.lines = Append(@, <<>>)]
  IN IF ch \notin {Newline, Formfeed} THEN y
     ELSE IF Flushes(Last(y.lines), ch) THEN Flush(z) ELSE z

(* The text an escape starts with keeps its first character, or not.        *)
EscapeChunk(i) == IF Strip THEN i + 1 ELSE i

(* etab_write: at character i, those from n on are not yet taken.           *)
RECURSIVE WriteFrom(_, _, _, _)
WriteFrom(x, s, i, n) ==
  IF i > Len(s) THEN CellAppend(x, SubSeq(s, n, Len(s)))
  ELSE IF ~x.esc /\ s[i] \in Ends
  THEN WriteFrom(CellEnds(CellAppend(x, SubSeq(s, n, i - 1)), s[i]), s, i + 1, i + 1)
  ELSE IF ~x.esc /\ s[i] = Escape
  THEN WriteFrom([UpdatedWidth(CellAppend(x, SubSeq(s, n, i - 1))) EXCEPT !.esc = TRUE],
                 s, i + 1, EscapeChunk(i))
  ELSE IF x.esc /\ s[i] = Escape
  THEN WriteFrom(EndEscape(CellAppend(x, SubSeq(s, n, IF Strip THEN i - 1 ELSE i))),
                 s, i + 1, i + 1)
  ELSE WriteFrom(x, s, i + 1, n)

Write(s) ==
  /\ ~done /\ Len(input) < MaxWrites
  /\ e' = WriteFrom(e, s, 1, 1)
  /\ input' = Append(input, s)
  /\ UNCHANGED <<config, done>>

Finish ==
  /\ ~done /\ done' = TRUE
  /\ e' = Flush(e)
  /\ UNCHANGED <<config, input>>

Next == (\E s \in Texts : Write(s)) \/ Finish

Spec == Init /\ [][Next]_vars

-----------------------------------------------------------------------------
(* What the output should be, from the whole of the input s.                *)

InEscape(s, i) == Cardinality({k \in 1..(i - 1) : s[k] = Escape}) % 2 = 1

EndsOf(s) ==
  SelectSeq([i \in DOMAIN s |-> i], LAMBDA i : s[i] \in Ends /\ ~InEscape(s, i))

Shown(text) == IF Strip THEN SelectSeq(text, LAMBDA c : c # Escape) ELSE text

(* The cells, each with its line, its section and the character behind it;  *)
(* what follows the last of those is a cell unless there is nothing.        *)
CellsOf(s) ==
  LET ends == EndsOf(s)
      Before(k, set) == Cardinality({i \in 1..(k - 1) : s[ends[i]] \in set})
      Cell(k) ==
        LET from == IF k = 1 THEN 1 ELSE ends[k - 1] + 1
            to == IF k > Len(ends) THEN Len(s) ELSE ends[k] - 1
        IN [line |-> Before(k, {Newline, Formfeed}),
            section |-> Before(k, {Formfeed}),
            text |-> Shown(SubSeq(s, from, to)),
            end |-> IF k > Len(ends) THEN "none" ELSE s[ends[k]]]
      all == [k \in 1..(Len(ends) + 1) |-> Cell(k)]
  IN IF Last(all).text = <<>> THEN Front(all) ELSE all

Width(c) == Cardinality({i \in DOMAIN c.text : c.text[i] # Escape})

Rendering(s) ==
  LET cells == CellsOf(s)
      Line(l) == {k \in DOMAIN cells : cells[k].line = l}
      Column(k) == Cardinality({i \in Line(cells[k].line) : i <= k})
      InColumn(k) == \E i \in Line(cells[k].line) : i > k
      Partner(k, l) == CHOOSE i \in Line(l) : Column(i) = Column(k)
      \* The lines of the section, without a gap, that have the column of k.
      Run(k) == {l \in {cells[i].line : i \in DOMAIN cells} :
                   \A h \in {l} \cup l..cells[k].line \cup cells[k].line..l :
                     \E i \in Line(h) : /\ Column(i) = Column(k) /\ InColumn(i)
                                       /\ cells[i].section = cells[k].section}
      Peers(k) == {cells[Partner(k, l)] : l \in Run(k)}
      ColumnWidth(k) ==
        IF "skip" \in config.flags /\ \A c \in Peers(k) : Width(c) = 0 /\ c.end # Tab
        THEN 0
        ELSE Maximum({config.minwidth} \cup {Width(c) + config.padding : c \in Peers(k)})
      Right(k) == Column(k) \in config.ralign /\ cells[k].text # <<>>
      \* A right column behind a left one is moved by one to the left.
      Behind(k) == IF Column(k) - 1 \in config.ralign THEN 0 ELSE 1
      Fill(k, n) == IF InColumn(k) THEN Pads(ColumnWidth(k) - Width(cells[k]) - n) ELSE <<>>
      Written(k) ==
        (IF Right(k) THEN Fill(k, Behind(k)) \o cells[k].text \o Pads(Behind(k))
         ELSE cells[k].text \o Fill(k, 0))
        \o (IF cells[k].end \in {Newline, Formfeed} THEN <<Newline>> ELSE <<>>)
  IN FlattenSeq([k \in DOMAIN cells |-> Written(k)])

(* No line has more cells than the writer has columns.                      *)
Fits(s) ==
  LET cells == CellsOf(s)
  IN \A l \in 0..Len(s) : Cardinality({k \in DOMAIN cells : cells[k].line = l}) <= MaxCols

-----------------------------------------------------------------------------
(* Properties. *)

SumOf(seq) == FoldSeq(+, 0, seq)

(* The writer's state: the sizes of the cells account for the whole of the  *)
(* buffer, which is what lets etab_write_lines find each cell's text in it. *)
TypeOK ==
  /\ config \in Configs /\ done \in BOOLEAN
  /\ e.pos \in 0..Len(e.buf) /\ e.esc \in BOOLEAN /\ e.lines # <<>>
  /\ \A l \in DOMAIN e.lines : Len(e.lines[l]) <= MaxCols
  /\ Fits(FlattenSeq(input)) => Len(e.buf) = e.cell.size + SumOf([k \in DOMAIN FlattenSeq(e.lines) |->
                                                      FlattenSeq(e.lines)[k].size])

(* What has been written out is settled: however the text came in, and      *)
(* whatever is written next, it is the beginning of what the whole input    *)
(* looks like.  A line of one cell is where etab_write relies on this.      *)
Settled == LET s == FlattenSeq(input) IN Fits(s) => IsPrefix(e.output, Rendering(s))

(* The buffer and the cells stay in step and what is out is final, however  *)
(* the text is cut into writes.                                             *)
TableInv == TypeOK /\ Settled

(* After the last etab_flush all of the input has been written out, every   *)
(* column as wide as the widest of its cells, in one run of lines.          *)
Rendered ==
  LET s == FlattenSeq(input) IN done /\ Fits(s) => e.output = Rendering(s)
=============================================================================
