------------------------------ MODULE MdBlocks ------------------------------
(***************************************************************************)
(* The block phase of the Markdown parser of specgen                       *)
(* (tools/specgen/md4c.c): lines are analysed one by one against the open  *)
(* containers, grouped into blocks in ctx->block_bytes, and the blocks are *)
(* at the end replayed as callbacks.  The flags are those of specgen:      *)
(* tables, and nothing else.                                               *)
(*                                                                         *)
(* A line is a sequence of characters; every line ends with a newline.     *)
(* Inline marks are left to MdInlines: text is reported as it stands.  Of  *)
(* the raw HTML blocks the model has one that ends at a string (2), one    *)
(* that ends at a blank line (6) and one that cannot interrupt a paragraph *)
(* (7); link definitions have no titles.  hr_killer only saves time.       *)
(***************************************************************************)
EXTENDS MdText

CONSTANT Documents \* pairs <<lines, bound>>: of which lines documents are made,
                   \* and how many of them

ASSUME BlockConstants ==
  \A d \in Documents : d[2] \in Nat /\ \A s \in d[1] : s \in Seq(STRING)

Lines == UNION {d[1] : d \in Documents}
MaxLines == Max({d[2] : d \in Documents})

Digit == {"1", "2"}
FenceChars == {Backtick, "~"}
Bullet == {"-", "+", "*"}
Ordered == {".", ")"}
Quote == ">"
CodeIndent == 4 \* ctx->code_indent_offset

VARIABLES
  doc,    \* history: the lines analysed so far
  ctx,    \* what of MD_CTX the block phase uses
  pivot,  \* the line that started the current block, or the dummy blank line
  events, \* history: the callbacks made
  done    \* md_process_doc has ended

vars == <<doc, ctx, pivot, events, done>>

Dummy == [type |-> "blank", indent |-> 0, ch |-> Newline]

(* blocks stands for block_bytes: each block with the lines that follow it; *)
(* current is the place of the current block there, 0 without one; size is  *)
(* how much of the text was read; defs are the lines of link definitions.   *)
NoContext ==
  [blocks |-> <<>>, current |-> 0, containers |-> <<>>, fence |-> 0, html |-> 0,
   loosening |-> FALSE, twoBlanks |-> FALSE, size |-> 0, defs |-> {}]

Init ==
  /\ doc = <<>> /\ ctx = NoContext /\ pivot = Dummy
  /\ events = <<>> /\ done = FALSE

-----------------------------------------------------------------------------
(* What a line looks like from a place in it on. *)

(* md_line_indentation: a tab goes to the next multiple of four. *)
Indentation(s, total, off) ==
  LET k == Skip(s, off, Blank)
      Column(c, ch) == IF ch = Tab THEN ((c + 4) \div 4) * 4 ELSE c + 1
  IN [off |-> k, indent |-> FoldLeft(Column, total, SubSeq(s, off, k - 1)) - total]

(* md_is_hr_line *)
HrLine(s, off) ==
  /\ AtEnd(s, Skip(s, off, {s[off]} \cup Blank))
  /\ Cardinality({k \in off..Len(s) : s[k] = s[off]}) >= 3

(* md_is_atxheader_line *)
AtxHeader(s, off) ==
  LET k == Skip(s, off, {"#"}) IN k - off <= 6 /\ At(s, k) \in Blank \cup {Newline}

(* md_is_setext_underline *)
SetextUnderline(s, off) == AtEnd(s, Skip(s, Skip(s, off, {s[off]}), {" "}))

(* One cell of a table's underline, which is where it ends, or not one.     *)
CellUnderline(s, off) ==
  LET a == IF At(s, off) = ":" THEN off + 1 ELSE off
      b == Skip(s, a, {"-"})
  IN IF At(s, b) = ":" THEN b + 1 ELSE b

RECURSIVE UnderlineFrom(_, _, _, _)
UnderlineFrom(s, off, pipe, cols) ==
  LET end == CellUnderline(s, off)
      k == Skip(s, end, Blank)
      delimited == At(s, k) = "|"
      next == IF delimited THEN Skip(s, k + 1, Blank) ELSE k
  IN IF end - off < 3 THEN 0
     ELSE IF AtEnd(s, next) THEN (IF pipe \/ delimited THEN cols + 1 ELSE 0)
     ELSE IF delimited THEN UnderlineFrom(s, next, TRUE, cols + 1) ELSE 0

(* md_is_table_underline: the number of columns, 0 if it is none. *)
TableUnderline(s, off) ==
  IF At(s, off) = "|" THEN UnderlineFrom(s, Skip(s, off + 1, Blank), TRUE, 0)
  ELSE UnderlineFrom(s, off, FALSE, 0)

(* md_is_opening_code_fence, for the length k - off of the fence. *)
OpeningFence(s, off, k) ==
  k - off >= 3 /\ (s[off] = Backtick => ~\E i \in k..Len(s) : s[i] = Backtick)

(* md_is_html_block_start_condition, as far as the model has it. *)
HtmlStart(s, off) ==
  IF StartsAt(<<"<", "!", "-", "-">>, s, off) THEN 2
  ELSE IF At(s, off + 1) = "p" /\ At(s, off + 2) \in Blank \cup {Newline, ">"} THEN 6
  ELSE IF StartsAt(<<"<", "a", ">">>, s, off) /\ AtEnd(s, Skip(s, off + 3, Blank)) THEN 7
  ELSE 0

(* md_is_html_block_end_condition *)
HtmlEnds(type, s, off) ==
  IF type = 2 THEN Occurs(<<"-", "-", ">">>, s, off) ELSE AtEnd(s, off)

NoMark == [ch |-> Newline]

(* md_is_container_mark: the container, and off behind its mark. *)
ContainerMark(s, indent, off) ==
  LET k == IF Skip(s, off, Digit) > off + 9 THEN off + 9 ELSE Skip(s, off, Digit)
      Mark(ch, from, end) == [ch |-> ch, first |-> SubSeq(s, from, end - 1) = <<"1">>,
                              mark |-> indent, contents |-> indent + end - from + 1,
                              off |-> end + 1, opener |-> 0]
  IN IF AtEnd(s, off) \/ indent >= CodeIndent THEN NoMark
     ELSE IF s[off] = Quote THEN Mark(Quote, off, off)
     ELSE IF s[off] \in Bullet /\ At(s, off + 1) \in Blank \cup {Newline} THEN Mark(s[off], off, off)
     ELSE IF k > off /\ At(s, k) \in Ordered /\ At(s, k + 1) \in Blank \cup {Newline}
     THEN Mark(s[k], off, k)
     ELSE NoMark

(* md_is_container_compatible *)
Compatible(c, mark) == mark.ch # Quote /\ mark.ch = c.ch /\ mark.mark <= c.contents

-----------------------------------------------------------------------------
(* Grouping lines into blocks, on a context x. *)

Block(type, flags, data) == [type |-> type, flags |-> flags, data |-> data, lines |-> <<>>]

CurrentBlock(x) == x.blocks[x.current]

(* How many lines from the n-th on are one link definition, 0 if none is:   *)
(* md_is_link_reference_definition without titles.                          *)
DefinitionLines(lines, n) ==
  LET s == lines[n].text
      closer == {k \in 3..(Len(s) - 1) : s[k] = "]" /\ s[k + 1] = ":"}
      dest == Skip(s, 5, Blank)
      Destination(t, k) == ~AtEnd(t, k) /\ \A i \in k..Len(t) : t[i] \notin Blank
  IN IF At(s, 1) # "[" \/ closer # {3} THEN 0
     ELSE IF ~AtEnd(s, dest) THEN (IF Destination(s, dest) THEN 1 ELSE 0)
     ELSE IF n < Len(lines) /\ Destination(lines[n + 1].text, 1) THEN 2 ELSE 0

RECURSIVE DefinitionsFrom(_, _)
DefinitionsFrom(lines, n) ==
  IF n > Len(lines) \/ DefinitionLines(lines, n) = 0 THEN n - 1
  ELSE DefinitionsFrom(lines, n + DefinitionLines(lines, n))

(* The first n lines of the current block are taken from it.                *)
WithoutLines(x, n) ==
  LET lines == CurrentBlock(x).lines
      defs == x.defs \cup {lines[k].line : k \in 1..n}
  IN IF n = Len(lines) THEN [x EXCEPT !.defs = defs, !.blocks = Front(@), !.current = 0]
     ELSE [x EXCEPT !.defs = defs, !.blocks[x.current].lines = SubSeq(@, n + 1, Len(@))]

(* md_consume_link_reference_definitions *)
ConsumeDefinitions(x) == WithoutLines(x, DefinitionsFrom(CurrentBlock(x).lines, 1))

IsSetext(b) == b.type = "h" /\ "setext" \in b.flags

MayDefine(b) == (b.type = "p" \/ IsSetext(b)) /\ At(b.lines[1].text, 1) = "["

(* When definitions leave only the underline of a heading, that starts a    *)
(* paragraph, which goes on.                                                *)
EndedWithoutDefinitions(x) ==
  IF x.current = 0 \/ ~IsSetext(CurrentBlock(x)) THEN [x EXCEPT !.current = 0]
  ELSE IF Len(CurrentBlock(x).lines) > 1
  THEN [x EXCEPT !.blocks[x.current].lines = Front(@), !.current = 0]
  ELSE [x EXCEPT !.blocks[x.current].type = "p"]

(* md_end_current_block *)
EndCurrentBlock(x) ==
  IF x.current = 0 THEN x
  ELSE EndedWithoutDefinitions(IF MayDefine(CurrentBlock(x)) THEN ConsumeDefinitions(x) ELSE x)

(* md_push_container_bytes *)
PushContainerBytes(x, type, flags, data) ==
  [EndCurrentBlock(x) EXCEPT !.blocks = Append(@, Block(type, flags, data))]

ListType(c) == IF c.ch \in Ordered THEN "ol" ELSE "ul"

(* Mutant: the current block is ended after the place was taken. *)
EnterChildEarly(x, i) ==
  LET y == [x EXCEPT !.containers[i].opener = Len(x.blocks) + 1]
  IN PushContainerBytes(
       PushContainerBytes(y, ListType(x.containers[i]), {"opener"}, x.containers[i].ch),
       "li", {"opener"}, "")

(* One container of md_enter_child_containers. *)
EnterChild(x, i) ==
  LET c == x.containers[i]
      y == EndCurrentBlock(x)
      z == [y EXCEPT !.containers[i].opener = Len(y.blocks) + 1]
  IN IF c.ch = Quote THEN PushContainerBytes(x, "quote", {"opener"}, "")
     ELSE PushContainerBytes(PushContainerBytes(z, ListType(c), {"opener"}, c.ch),
                             "li", {"opener"}, "")

(* md_enter_child_containers: from the i-th on. *)
RECURSIVE EnterChildren(_, _)
EnterChildren(x, i) ==
  IF i > Len(x.containers) THEN x ELSE EnterChildren(EnterChild(x, i), i + 1)

(* The last container of md_leave_child_containers. *)
LeaveChild(x) ==
  LET c == Last(x.containers)
      y == IF c.ch = Quote THEN PushContainerBytes(x, "quote", {"closer"}, "")
           ELSE PushContainerBytes(PushContainerBytes(x, "li", {"closer"}, ""),
                                   ListType(c), {"closer"}, c.ch)
  IN [y EXCEPT !.containers = Front(@)]

RECURSIVE LeaveChildren(_, _)
LeaveChildren(x, keep) ==
  IF Len(x.containers) <= keep THEN x ELSE LeaveChildren(LeaveChild(x), keep)

BlockType(type) ==
  CASE type = "hr" -> "hr"
    [] type = "atx" -> "h"
    [] type \in {"fenced", "indented"} -> "code"
    [] type = "text" -> "p"
    [] type = "html" -> "html"

(* md_start_new_block *)
StartNewBlock(x, line) ==
  [x EXCEPT !.blocks = Append(@, Block(BlockType(line.type), {}, line.data)),
            !.current = Len(x.blocks) + 1]

(* md_add_line_into_current_block: the line goes to the end of block_bytes. *)
AddLine(x, line) ==
  [x EXCEPT !.blocks[Len(x.blocks)].lines =
     Append(@, [line |-> line.line, text |-> line.text, beg |-> line.beg, end |-> line.end])]

-----------------------------------------------------------------------------
(* Analysing one line s: a holds the variables of md_analyze_line, and in   *)
(* ctx what it changes of MD_CTX.                                           *)

Kept(a) == a.parents + a.brothers
Opened(a) == a.brothers + a.children > 0
WithinAll(a) == a.parents = Len(a.ctx.containers)
NextContainer(a) == a.ctx.containers[a.parents + 1]
InList(a) == a.parents > 0 /\ a.ctx.containers[a.parents].ch # Quote
Is(a, type) == [a EXCEPT !.type = type]
IsWith(a, type, data) == [a EXCEPT !.type = type, !.data = data]
Indented(a) == a.indent >= CodeIndent

(* The indentation from a place on is read, behind a mark of some width.    *)
Indent(s, a, off, width) ==
  LET next == Indentation(s, a.total + width, off)
  IN [a EXCEPT !.off = next.off, !.beg = next.off, !.indent = next.indent,
               !.total = @ + width + next.indent]

(* Which of the open containers the line is in, given its quote marks and   *)
(* its indentation.                                                         *)
RECURSIVE Parents(_, _)
Parents(s, a) ==
  IF WithinAll(a) THEN a
  ELSE IF NextContainer(a).ch = Quote /\ ~Indented(a) /\ At(s, a.off) = Quote
  THEN LET b == Indent(s, a, a.off + 1, 1)
       IN Parents(s, [b EXCEPT !.indent = IF @ > 0 THEN @ - 1 ELSE 0, !.parents = @ + 1])
  ELSE IF NextContainer(a).ch # Quote /\ a.indent >= NextContainer(a).contents
  THEN Parents(s, [a EXCEPT !.indent = @ - NextContainer(a).contents, !.parents = @ + 1])
  ELSE a

(* A blank line is in a list whatever its indentation.                      *)
RECURSIVE BlankParents(_)
BlankParents(a) ==
  IF WithinAll(a) \/ NextContainer(a).ch = Quote THEN a
  ELSE BlankParents([a EXCEPT !.parents = @ + 1])

(* Behind a container's mark: some of the blanks belong to it.              *)
Marked(s, a, c) ==
  LET b == Indent(s, a, c.off, c.contents - c.mark)
  IN IF AtEnd(s, b.off) THEN [b EXCEPT !.mark = [c EXCEPT !.contents = @ + 1]]
     ELSE IF b.indent <= CodeIndent
     THEN [b EXCEPT !.mark = [c EXCEPT !.contents = @ + b.indent], !.indent = 0]
     ELSE [b EXCEPT !.mark = [c EXCEPT !.contents = @ + 1], !.indent = @ - 1]

(* What md_analyze_line takes for the type of the last block, of its low    *)
(* byte: behind a block with lines that is the offset of the last of them.  *)
LastIsItem(x) ==
  /\ x.current = 0 /\ x.blocks # <<>>
  /\ LET b == Last(x.blocks)
     IN IF b.lines = <<>> THEN Len(x.blocks) > 1 /\ b.type = "li"
        ELSE (IF b.type \in {"code", "html"} THEN Last(b.lines).end ELSE Last(b.lines).beg) % 256 = 4

BlankLine(a) ==
  [Is(a, "blank") EXCEPT
     !.ctx.loosening = InList(a) /\ ~Opened(a),
     !.ctx.twoBlanks = @ \/ (InList(a) /\ ~Opened(a) /\ LastIsItem(a.ctx))]

(* The first line with text after two blank ones is not in the list item    *)
(* that has only these.                                                     *)
TextBehindBlanks(a) ==
  LET ends == a.ctx.twoBlanks /\ InList(a) /\ ~Opened(a) /\ LastIsItem(a.ctx)
  IN [a EXCEPT !.ctx.loosening = FALSE, !.ctx.twoBlanks = FALSE,
               !.parents = IF ends THEN @ - 1 ELSE @]

(* The rest of the checks, for a line that does not start a container:      *)
(* code is the case of a code fence's length, html that of raw HTML's type. *)
Leaf(s, a) ==
  LET off == a.off
      fence == Skip(s, off, {At(s, off)})
      b == IF At(s, off) \in FenceChars /\ fence - off >= 3
           THEN [a EXCEPT !.ctx.fence = fence - off] ELSE a
      started == IF At(s, off) # "<" THEN 0
                 ELSE IF HtmlStart(s, off) = 7 /\ a.pivot.type = "text" THEN 0
                 ELSE HtmlStart(s, off)
      c == IF At(s, off) # "<" THEN b
           ELSE [b EXCEPT !.ctx.html = IF started = 0 \/ HtmlEnds(started, s, off) THEN 0
                                       ELSE started]
      text == a.pivot.type = "text"
      underlines == text /\ WithinAll(a) /\ a.ctx.current # 0
                    /\ Len(CurrentBlock(a.ctx).lines) = 1 /\ At(s, off) \in {"|", "-", ":"}
  IN IF a.pivot.type = "table" /\ WithinAll(a) THEN Is(a, "table")
     ELSE IF ~Indented(a) /\ At(s, off) = "#" /\ AtxHeader(s, off)
     THEN [Is(a, "atx") EXCEPT !.beg = Skip(s, Skip(s, off, {"#"}), {" "})]
     ELSE IF At(s, off) \in FenceChars /\ OpeningFence(s, off, fence) THEN IsWith(b, "fenced", 1)
     ELSE IF started # 0 THEN Is(c, "html")
     ELSE IF underlines /\ TableUnderline(s, off) > 0
     THEN IsWith(c, "tableunderline", TableUnderline(s, off))
     \* a lazy continuation of a paragraph is in all of its containers
     ELSE [Is(c, "text") EXCEPT !.parents = IF text /\ ~Opened(a) THEN Len(a.ctx.containers) ELSE @]

(* A mark that cannot interrupt a paragraph.                                *)
CannotInterrupt(s, a, c) ==
  /\ a.pivot.type = "text" /\ WithinAll(a)
  /\ \/ AtEnd(s, c.off) /\ c.ch # Quote
     \/ c.ch \in Ordered /\ ~c.first

RECURSIVE Containers(_, _), Checks(_, _)

(* The line from where it is not blank on: the checks for what may end a    *)
(* paragraph, for another item of a list and for new containers.            *)
Containers(s, a) ==
  LET off == a.off
      c == ContainerMark(s, a.indent, off)
      Brother ==
        LET b == Marked(s, [a EXCEPT !.pivot = Dummy], c)
        IN [b EXCEPT !.ctx.containers[a.parents + 1].mark = b.mark.mark,
                     !.ctx.containers[a.parents + 1].contents = b.mark.contents,
                     !.brothers = 1]
      Child ==
        LET b == Marked(s, IF Opened(a) THEN a ELSE [a EXCEPT !.pivot = Dummy], c)
            x == IF a.children = 0 THEN LeaveChildren(b.ctx, Kept(a)) ELSE b.ctx
        IN [b EXCEPT !.ctx = [x EXCEPT !.containers = Append(@, b.mark)],
                     !.children = @ + 1]
  IN IF /\ ~Indented(a) /\ a.pivot.type = "text" /\ At(s, off) \in {"=", "-"}
        /\ WithinAll(a) /\ SetextUnderline(s, off)
     THEN IsWith(a, "setext", IF s[off] = "=" THEN 1 ELSE 2)
     ELSE IF ~Indented(a) /\ At(s, off) \in {"-", "_", "*"} /\ HrLine(s, off) THEN Is(a, "hr")
     ELSE IF ~WithinAll(a) /\ ~Opened(a) /\ c # NoMark /\ Compatible(NextContainer(a), c)
     THEN Checks(s, Brother)
     ELSE IF Indented(a) /\ a.pivot.type \in {"blank", "indented"}
     THEN [IsWith(a, "indented", 0) EXCEPT !.indent = @ - CodeIndent]
     ELSE IF c # NoMark /\ ~CannotInterrupt(s, a, c) THEN Checks(s, Child)
     ELSE Leaf(s, IF c # NoMark THEN [a EXCEPT !.off = c.off] ELSE a)

(* The loop of md_analyze_line.                                             *)
Checks(s, a) ==
  LET fenced == a.pivot.type = "fenced"
      fence == Skip(s, a.off, {a.pivot.ch})
      longEnough == fence - a.off >= a.ctx.fence
      fenceEnd == IF longEnough THEN Skip(s, fence, {" "}) ELSE fence
      closes == fenced /\ ~Indented(a) /\ longEnough /\ AtEnd(s, fenceEnd)
      \* off is moved also by what turns out to be no closing fence
      b == IF fenced THEN [a EXCEPT !.beg = a.off,
                                    !.off = IF Indented(a) THEN @ ELSE fenceEnd] ELSE a
      html == a.pivot.type = "html" /\ a.ctx.html > 0
      htmlEnds == HtmlEnds(a.ctx.html, s, b.off)
      c == IF html THEN [b EXCEPT !.ctx.html = 0] ELSE b
  IN IF closes THEN [Is(b, "blank") EXCEPT !.ctx.loosening = FALSE]
     ELSE IF fenced /\ WithinAll(a)
     THEN [Is(b, "fenced") EXCEPT !.indent = IF @ > a.pivot.indent THEN @ - a.pivot.indent ELSE 0]
     ELSE IF html /\ WithinAll(a)
     THEN IF htmlEnds /\ a.ctx.html \in {6, 7} THEN [Is(c, "blank") EXCEPT !.indent = 0]
          ELSE Is(IF htmlEnds THEN c ELSE b, "html")
     ELSE IF ~AtEnd(s, b.off) THEN Containers(s, TextBehindBlanks(c))
     ELSE IF c.pivot.type = "indented" /\ WithinAll(c)
     THEN [Is(c, "indented") EXCEPT !.ctx.loosening = FALSE,
                                    !.indent = IF @ > CodeIndent THEN @ - CodeIndent ELSE 0]
     ELSE BlankLine(c)

(* The text of the line, without the marks of a heading behind it.          *)
TextEnd(s, a) ==
  LET blanks == TrimEnd(s, a.beg, Len(s) + 1, {" "})
      marks == TrimEnd(s, a.beg, blanks, {"#"})
      trimmed == IF marks = a.beg \/ s[marks - 1] = " " THEN marks ELSE blanks
  IN IF a.type \in {"indented", "fenced"} THEN Len(s) + 1
     ELSE IF a.type = "atx" THEN TrimEnd(s, a.beg, trimmed, {" "})
     ELSE blanks

(* A list with a blank line in it is loose, which is kept with its opener.  *)
Loosened(a, x) ==
  LET c == x.containers[Kept(a)]
  IN IF a.type # "blank" /\ Kept(a) > 0 /\ c.ch # Quote
     THEN [x EXCEPT !.blocks[c.opener].flags = @ \cup {"loose"}] ELSE x

(* The containers that the line is not in are left, unless that was done    *)
(* when a new one was found.                                                *)
Left(a, x) == IF a.children = 0 THEN LeaveChildren(x, Kept(a)) ELSE x

(* Mutant: the item before is not left. *)
NextItemOpens(a, x) ==
  IF a.brothers = 0 THEN x ELSE PushContainerBytes(x, "li", {"opener"}, "")

NextItem(a, x) ==
  IF a.brothers = 0 THEN x
  ELSE PushContainerBytes(PushContainerBytes(x, "li", {"closer"}, ""), "li", {"opener"}, "")

(* The containers that are new are entered.                                 *)
Entered(a, x) == EnterChildren(x, Len(x.containers) - a.children + 1)

(* md_analyze_line up to its loop.                                          *)
Begun(x, s, start) ==
  Parents(s, [ctx |-> x, pivot |-> pivot, off |-> start.off, indent |-> start.indent,
              beg |-> start.off, total |-> start.indent, parents |-> 0, brothers |-> 0,
              children |-> 0, mark |-> NoMark, type |-> "blank", data |-> 0])

(* and behind it: what is known of the n-th line, with the context after it.*)
Analysed(x, s, n, a, end) ==
  [ctx |-> Entered(a, NextItem(a, Left(a, IF x.loosening THEN Loosened(a, a.ctx) ELSE a.ctx))),
   type |-> a.type, data |-> a.data, indent |-> a.indent, ch |-> At(s, a.beg), line |-> n,
   text |-> SubSeq(s, a.beg, end - 1), beg |-> x.size + a.beg - 1, end |-> x.size + end - 1]

(* md_analyze_line *)
Analysis(x, s, n) ==
  LET Looped(a) == Checks(s, IF AtEnd(s, a.off) THEN BlankParents(a) ELSE a)
      Result(a) == Analysed(x, s, n, a, TextEnd(s, a))
  IN Result(Looped(Begun(x, s, Indentation(s, 0, 1))))

-----------------------------------------------------------------------------
(* The callbacks for the blocks. *)

Event(kind, type, arg) == [kind |-> kind, type |-> type, arg |-> arg]
Enter(type, arg) == <<Event("enter", type, arg)>>
Leave(type) == <<Event("leave", type, <<>>)>>
Within(type, arg, inner) == Enter(type, arg) \o inner \o Leave(type)
Text(line, text) == <<Event("text", line, text)>>
TextOf(line) == IF line.text = <<>> THEN <<>> ELSE Text(line.line, line.text)

(* Mutant: the first line is taken for a fence's. *)
CodeLinesTail(b) == Tail(b.lines)

(* md_process_code_block_contents: without the fence, or the blank lines at *)
(* both ends of an indented block.                                          *)
CodeLines(b) ==
  LET filled == {k \in DOMAIN b.lines : b.lines[k].text # <<>>}
  IN IF b.data # 0 THEN Tail(b.lines)
     ELSE SelectSeq(b.lines, LAMBDA l :
            /\ \E k \in filled : b.lines[k].line <= l.line
            /\ \E k \in filled : b.lines[k].line >= l.line)

Verbatim(lines) == FlattenSeq([k \in DOMAIN lines |-> Text(lines[k].line, lines[k].text)])

Trimmed(t) ==
  LET from == Skip(t, 1, Blank) IN SubSeq(t, from, TrimEnd(t, from, Len(t) + 1, Blank) - 1)

(* The cells of a row: the columns it has too few of are empty, and those   *)
(* it has too many of are left out, as is what is empty between two pipes.  *)
Cells(t, cols) ==
  LET pipes == SelectSeq([k \in DOMAIN t |-> k], LAMBDA k : t[k] = "|")
      offs == <<0>> \o pipes \o <<Len(t) + 1>>
      parts == SelectSeq([k \in 1..(Len(offs) - 1) |-> SubSeq(t, offs[k] + 1, offs[k + 1] - 1)],
                         LAMBDA c : c # <<>>)
  IN [k \in 1..cols |-> IF k <= Len(parts) THEN Trimmed(parts[k]) ELSE <<>>]

(* md_analyze_table_alignment: of the k-th column.                          *)
Alignment(t, k) ==
  LET dashes == SelectSeq([i \in DOMAIN t |-> i], LAMBDA i : t[i] = "-" /\ (i > 1 => t[i - 1] # "-"))
      from == dashes[k]
      left == from > 1 /\ t[from - 1] = ":"
      right == At(t, Skip(t, from, {"-"})) = ":"
  IN IF left /\ right THEN "center" ELSE IF left THEN "left" ELSE IF right THEN "right" ELSE "default"

(* md_process_table_row *)
Row(b, type, n) ==
  LET cells == Cells(b.lines[n].text, b.data)
      Cell(k) == Within(type, Alignment(b.lines[2].text, k),
                        IF cells[k] = <<>> THEN <<>> ELSE Text(b.lines[n].line, cells[k]))
  IN Within("tr", <<>>, FlattenSeq([k \in 1..b.data |-> Cell(k)]))

(* Mutant: the underline is taken for a row. *)
TableWithUnderline(b) ==
  Within("thead", <<>>, Row(b, "th", 1))
  \o Within("tbody", <<>>, FlattenSeq([k \in 1..(Len(b.lines) - 1) |-> Row(b, "td", k + 1)]))

(* md_process_table_block_contents *)
Table(b) ==
  Within("thead", <<>>, Row(b, "th", 1))
  \o (IF Len(b.lines) = 2 THEN <<>>
      ELSE Within("tbody", <<>>, FlattenSeq([k \in 1..(Len(b.lines) - 2) |-> Row(b, "td", k + 2)])))

(* md_process_leaf_block *)
LeafBlock(b, tight) ==
  LET inner == CASE b.type = "hr" -> <<>>
                 [] b.type = "code" -> Verbatim(CodeLines(b))
                 [] b.type = "html" -> Verbatim(b.lines)
                 [] b.type = "table" -> Table(b)
                 [] b.type \in {"p", "h"} -> FlattenSeq([k \in DOMAIN b.lines |-> TextOf(b.lines[k])])
      arg == IF b.type = "table" THEN <<b.data, Len(b.lines) - 2>> ELSE <<b.data>>
  IN IF tight /\ b.type = "p" THEN inner ELSE Within(b.type, arg, inner)

(* One turn of md_process_all_blocks; loose has an entry for each container *)
(* that is open: text in a tight list is not in a paragraph.                *)
Replay(f, b) ==
  LET nests == b.type # "li"
  IN CASE "closer" \in b.flags ->
            [out |-> f.out \o Leave(b.type), loose |-> IF nests THEN Front(f.loose) ELSE f.loose]
       [] "opener" \in b.flags ->
            [out |-> f.out \o Enter(b.type, <<>>),
             loose |-> IF nests THEN Append(f.loose, b.type = "quote" \/ "loose" \in b.flags)
                       ELSE f.loose]
       [] OTHER ->
            [f EXCEPT !.out = @ \o LeafBlock(b, f.loose # <<>> /\ ~Last(f.loose))]

AllBlocks(x) == Within("doc", <<>>, FoldLeft(Replay, [out |-> <<>>, loose |-> <<>>], x.blocks).out)

-----------------------------------------------------------------------------
(* Actions. *)

PivotOf(line) == [type |-> line.type, indent |-> line.indent, ch |-> line.ch]
Processed(x, p) == ctx' = x /\ pivot' = p

(* md_process_line, by what the line is: a blank line ends the block,       *)
ProcessBlank(x, line) ==
  /\ line.type = "blank"
  /\ Processed(EndCurrentBlock(x), Dummy)

(* some lines are a block of their own,                                     *)
ProcessSingle(x, line) ==
  /\ line.type \in {"hr", "atx"}
  /\ Processed(EndCurrentBlock(AddLine(StartNewBlock(EndCurrentBlock(x), line), line)), Dummy)

(* an underline makes the block a heading and ends it,                      *)
ProcessUnderline(x, line) ==
  /\ line.type = "setext"
  /\ LET b == [CurrentBlock(x) EXCEPT !.type = "h", !.data = line.data,
                                      !.flags = @ \cup {"setext"}]
         y == EndCurrentBlock(AddLine([x EXCEPT !.blocks[x.current] = b], line))
     IN Processed(y, IF y.current = 0 THEN Dummy
                     ELSE PivotOf([line EXCEPT !.type = "text"]))

(* that of a table makes the line before it the table's head,               *)
ProcessTableUnderline(x, line) ==
  /\ line.type = "tableunderline"
  /\ LET b == [CurrentBlock(x) EXCEPT !.type = "table", !.data = line.data]
     IN Processed(AddLine([x EXCEPT !.blocks[x.current] = b], line),
                  [pivot EXCEPT !.type = "table"])

(* and any other one starts a block or goes on with the one before.         *)
ProcessLine(x, line) ==
  /\ line.type \in {"text", "table", "fenced", "indented", "html"}
  /\ LET y == IF line.type # pivot.type THEN EndCurrentBlock(x) ELSE x
     IN IF y.current = 0 THEN Processed(AddLine(StartNewBlock(y, line), line), PivotOf(line))
        ELSE Processed(AddLine(y, line), pivot)

(* One turn of the loop of md_process_doc. *)
ReadLine(s) ==
  /\ ~done
  /\ doc' = Append(doc, s)
  /\ \E d \in Documents : Len(doc') <= d[2] /\ Range(doc') \subseteq d[1]
  /\ \E a \in {Analysis(ctx, s, Len(doc) + 1)} :
       LET x == [a.ctx EXCEPT !.size = @ + Len(s) + 1]
       IN \/ ProcessBlank(x, a) \/ ProcessSingle(x, a)
          \/ ProcessUnderline(x, a) \/ ProcessTableUnderline(x, a) \/ ProcessLine(x, a)
  /\ UNCHANGED <<events, done>>

(* The end of the document: what is open is ended, and the blocks follow.   *)
Finish ==
  /\ ~done /\ done' = TRUE
  /\ ctx' = LeaveChildren(EndCurrentBlock(ctx), 0)
  /\ events' = AllBlocks(ctx')
  /\ UNCHANGED <<doc, pivot>>

Next == (\E s \in Lines : ReadLine(s)) \/ Finish

Spec == Init /\ [][Next]_vars

-----------------------------------------------------------------------------
(* Properties. *)

(* The containers whose opener in the blocks has no closer yet, as places.  *)
Open(x) ==
  FoldLeft(LAMBDA o, k : IF x.blocks[k].type = "li" THEN o
                         ELSE IF "opener" \in x.blocks[k].flags THEN Append(o, k)
                         ELSE IF "closer" \in x.blocks[k].flags THEN Front(o) ELSE o,
           <<>>, [k \in DOMAIN x.blocks |-> k])

(* Between two lines the pivot tells what the current block is, so that     *)
(* md_process_line finds the block its assertions ask for, and the current  *)
(* block is the last one in block_bytes: that is where a line is added.     *)
TypeOK ==
  /\ Len(doc) <= MaxLines /\ done \in BOOLEAN
  /\ ctx.current \in {0, Len(ctx.blocks)}
  /\ ~done => ((ctx.current = 0) <=> (pivot.type = "blank"))
  /\ ~done /\ ctx.current # 0 =>
       LET b == CurrentBlock(ctx)
       IN /\ b.lines # <<>> /\ b.flags \subseteq {"setext"}
          /\ b.type = IF pivot.type = "table" THEN "table" ELSE BlockType(pivot.type)

(* The open containers are those whose openers in block_bytes are not       *)
(* closed, in the same order, and block_byte_off of a list is its opener,   *)
(* which md_analyze_line makes loose by writing through it.                 *)
ContainersMatch ==
  LET open == Open(ctx)
  IN /\ Len(open) = Len(ctx.containers)
     /\ \A k \in DOMAIN open :
          LET c == ctx.containers[k]
          IN IF c.ch = Quote THEN ctx.blocks[open[k]].type = "quote"
             ELSE /\ c.opener = open[k]
                  /\ ctx.blocks[open[k]].type = ListType(c) /\ ctx.blocks[open[k]].data = c.ch

(* Between any two lines the parser's three records of where it is agree:    *)
(* the pivot line, the open containers and the block bytes written so far.   *)
BlocksInv == TypeOK /\ ContainersMatch

(* What may be directly in what. *)
Allowed(outer, type) ==
  CASE outer \in {"ul", "ol"} -> type = "li"
    [] outer = "table" -> type \in {"thead", "tbody"}
    [] outer \in {"thead", "tbody"} -> type = "tr"
    [] outer = "tr" -> type \in {"td", "th"}
    [] outer \in {"doc", "quote", "li"} -> type \in {"ul", "ol", "quote", "p", "h", "hr", "code", "html", "table"}
    [] OTHER -> FALSE

(* The callbacks are properly nested: each block is left as what it was     *)
(* entered, in a block that may have it, and everything is left.            *)
Nested ==
  LET Step(stack, ev) ==
        IF stack = <<"wrong">> THEN stack
        ELSE IF ev.kind = "text"
        THEN IF Last(stack) \in {"ul", "ol", "table", "thead", "tbody", "tr", "doc", "quote", "hr"}
             THEN <<"wrong">> ELSE stack
        ELSE IF ev.kind = "enter"
        THEN IF stack = <<>> \/ Allowed(Last(stack), ev.type) THEN Append(stack, ev.type)
             ELSE <<"wrong">>
        ELSE IF stack # <<>> /\ Last(stack) = ev.type THEN Front(stack) ELSE <<"wrong">>
  IN done => FoldLeft(Step, <<>>, events) = <<>>

TextLines == {k \in DOMAIN events : events[k].kind = "text"}

(* Text comes in the order of the document, and all of it comes: each line  *)
(* with a letter is reported, but for link definitions and the line that    *)
(* opens fenced code, whose text is its info string.                        *)
NothingLost ==
  done =>
    /\ \A j, k \in TextLines : j < k => events[j].type <= events[k].type
    /\ \A n \in DOMAIN doc :
         \/ "a" \notin Range(doc[n])
         \/ n \in ctx.defs
         \/ \E k \in TextLines : events[k].type = n
         \/ \E k \in DOMAIN ctx.blocks : LET b == ctx.blocks[k]
                                         IN b.type = "code" /\ b.data = 1 /\ b.lines[1].line = n

(* A blank line is taken for the second one of a list item only when the item   *)
(* is still empty, as the comment in md_analyze_line says of what it tests       *)
(* (md4c.c:5856).                                                               *)
EmptyItemEnds ==
  [][~done' /\ ctx'.twoBlanks /\ ~ctx.twoBlanks
     => ctx.blocks # <<>> /\ Last(ctx.blocks).type = "li"]_vars
=============================================================================
