------------------------------- MODULE SpecDoc -------------------------------
(***************************************************************************)
(* What specgen reads from spec.md (tools/specgen/specgen.c, parse_md): the *)
(* block phase of the parser, and at its end all of its callbacks, which    *)
(* collect the tables that a marker has named.                              *)
(***************************************************************************)
EXTENDS MdBlocks, SpecTables

VARIABLE parsed \* what parse_md returned: "no" as long as it has not, "ok" or "failed"

docvars == <<tablevars, parsed>>

DocInit == Init /\ TablesInit /\ parsed = "no"

-----------------------------------------------------------------------------
Read(s) == ReadLine(s) /\ UNCHANGED docvars

(* A callback as in TablesNext; one that the parser does not announce leads *)
(* astray for good.                                                         *)
Told(s, ev) ==
  IF s.parser.failed \/ s.place = Astray THEN s
  ELSE [parser |-> Callback(s.parser, ev), place |-> PlaceAfter(s.place, ev),
        heard |-> IF PlaceAfter(s.place, ev) = Astray THEN s.heard ELSE HeardAfter(s.heard, ev)]

(* The end of md_parse: the callbacks are made. *)
Parse ==
  /\ Finish
  /\ LET s == FoldLeft(Told, [parser |-> parser, place |-> place, heard |-> heard], events')
     IN /\ parser' = s.parser /\ place' = s.place /\ heard' = s.heard
        /\ parsed' = IF s.parser.failed THEN "failed" ELSE "ok"

DocNext == (\E s \in Lines : Read(s)) \/ Parse

DocSpec == DocInit /\ [][DocNext]_<<vars, docvars>>

-----------------------------------------------------------------------------
(* Properties. *)

(* The callbacks of md4c for a table come as its detail announces and as the *)
(* comment of md_on_enter_block says (specgen.c:95): no row and no cell more *)
(* or less, and no text between two cells.  The callbacks of a document are  *)
(* therefore steps of TablesSpec.                                            *)
AsAnnounced == place # Astray

(* The markers in lines of text, in order.                                  *)
MarkersIn(texts) == SelectSeq(texts, IsMarker)
NamedBy(id, texts) ==
  LET found == MarkersIn(texts) IN IF found = <<>> THEN id ELSE MarkerId(Last(found))
TextsOf(lines) == [k \in DOMAIN lines |-> lines[k].text]
RowsOf(b) == [k \in 1..(Len(b.lines) - 1) |->
               Cells((IF k = 1 THEN b.lines[1] ELSE b.lines[k + 1]).text, b.data)]
WithoutMarker(text) == IF IsMarker(text) THEN <<>> ELSE text

(* The tables a document names, from its blocks: a table that is entered    *)
(* with a name takes it away.                                               *)
Named(f, b) ==
  IF b.type = "table" /\ f.id # NoId
  THEN [id |-> NoId, out |-> Append(f.out, [name |-> f.id, rows |-> RowsOf(b)])]
  ELSE IF b.type = "table" THEN [f EXCEPT !.id = NamedBy(@, FlattenSeq(RowsOf(b)))]
  ELSE IF b.type \in {"p", "h"} THEN [f EXCEPT !.id = NamedBy(@, TextsOf(b.lines))]
  ELSE f

NamedTables == FoldLeft(Named, [id |-> NoId, out |-> <<>>], ctx.blocks).out

(* The tables specgen has are those that the document names, in its order,  *)
(* wherever in lists and quotes they are: the head is in the titles, each   *)
(* row of the body is a row of cells, and widths hold the widest cell.      *)
TablesMatch ==
  parsed = "ok" =>
    /\ Len(parser.tables) = Len(NamedTables)
    /\ \A n \in DOMAIN parser.tables :
         LET t == parser.tables[n]
             d == NamedTables[n]
         IN /\ t.name = d.name /\ t.nrows = Len(d.rows) - 1
            /\ \A c \in 0..(t.ncols - 1) :
                 /\ t.columns[c].title = WithoutMarker(d.rows[1][c + 1])
                 /\ \A r \in 0..(t.nrows - 1) :
                      /\ t.cells[r][c] = WithoutMarker(d.rows[r + 2][c + 1])
                      /\ Len(t.cells[r][c]) <= t.columns[c].width
=============================================================================
