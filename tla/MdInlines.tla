----------------------------- MODULE MdInlines -----------------------------
(***************************************************************************)
(* The spans of one paragraph, or of one row of a table, in the Markdown   *)
(* parser of specgen (tools/specgen/md4c.c, md_analyze_inlines and          *)
(* md_process_inlines): the marks of the text are collected, those of each  *)
(* kind are resolved into openers and closers in the order of precedence,   *)
(* and the text is then reported with its spans.  The flags are specgen's:  *)
(* tables, and nothing else.                                               *)
(*                                                                         *)
(* Left out are attributes and comments in raw HTML, e-mail addresses as    *)
(* links, numeric entities, destinations in angle brackets, the kinds of    *)
(* quotes of titles, the limits on lengths but for that of code marks, and  *)
(* what merges a title of two lines.                                        *)
(***************************************************************************)
EXTENDS MdText

CONSTANTS
  Texts,      \* the paragraphs to be read: lines are separated by newlines
  Rows,       \* the rows of tables to be read
  Labels,     \* the labels that link definitions have
  CodeSpanMax \* CODESPAN_MARK_MAXLEN

ASSUME InlineConstants ==
  /\ CodeSpanMax \in Nat \ {0}
  /\ \A t \in Texts \cup Rows \cup Labels : t \in Seq(STRING)

Letter == {"a", "b"}
White == Blank \cup {Newline}
IsPunct(ch) == ch \notin Letter \cup White
MarkChars == {"\\", "*", "_", Backtick, "&", ";", "<", ">", "[", "!", "]", "|"}

VARIABLES
  text,   \* the text
  table,  \* whether it is a row of a table
  phase,  \* which of the passes is next
  off,    \* how far the marks are collected
  scan,   \* what md_is_code_span remembers of failed scans
  marks,  \* ctx->marks
  chains, \* the unresolved openers, by kind
  links,  \* the unresolved pairs of brackets: places of their openers
  last,   \* the last link and image resolved
  ok,     \* whether the assertions on the marks have held
  out     \* the state of md_process_inlines and the callbacks it has made

vars == <<text, table, phase, off, scan, marks, chains, links, last, ok, out>>

(* next of an opener and prev of a closer are mate, 0 if there is none; mod *)
(* is the length of a mark of emphasis modulo three.                        *)
Mark(ch, beg, end, flags) ==
  [ch |-> ch, beg |-> beg, end |-> end, flags |-> flags, mate |-> 0, mod |-> 0, title |-> <<>>]

Spare(k) == Mark("D", k, k, {})

Resolved(k) == "resolved" \in marks[k].flags
Opener(k) == {"opener", "resolved"} \subseteq marks[k].flags

(* One chain for each kind of emphasis: what it is made of, whether it is   *)
(* in a word, and its length modulo three.                                  *)
ChainOf(m) ==
  IF m.ch = "*" THEN <<"*", "intraword" \in m.flags, m.mod>> ELSE <<"_", FALSE, 0>>
Chains == {<<"*", w, n>> : w \in BOOLEAN, n \in 0..2} \cup {<<"_", FALSE, 0>>}
NoOpeners == [c \in Chains |-> <<>>]

Nowhere == [beg |-> 0, end |-> 0]

(* The lines of the text, without the blanks around them. *)
LinesOf(t) ==
  LET ends == <<0>> \o SelectSeq([k \in DOMAIN t |-> k], LAMBDA k : t[k] = Newline) \o <<Len(t) + 1>>
      Line(n) == LET beg == Skip(t, ends[n] + 1, Blank)
                 IN [beg |-> beg, end |-> TrimEnd(t, beg, ends[n + 1], Blank)]
  IN [n \in 1..(Len(ends) - 1) |-> Line(n)]

Init ==
  /\ \/ text \in Texts /\ table = FALSE
     \/ text \in Rows /\ table = TRUE
  /\ phase = "collect" /\ off = 1
  /\ scan = [closers |-> [n \in 1..CodeSpanMax |-> 0], ended |-> FALSE]
  /\ marks = <<>> /\ chains = NoOpeners /\ links = <<>>
  /\ last = [link |-> Nowhere, img |-> Nowhere]
  /\ ok = TRUE
  /\ out = [off |-> LinesOf(text)[1].beg, line |-> 1, at |-> 1, kind |-> "normal",
            hard |-> FALSE, prev |-> 0, events |-> <<>>]

-----------------------------------------------------------------------------
(* md_collect_marks: one action for each kind of mark, at the place k of    *)
(* the next character that may be one.                                      *)

NextChar == Min({k \in off..Len(text) : text[k] \in MarkChars} \cup {Len(text) + 1})

Collected(new, next) ==
  /\ marks' = marks \o new /\ off' = next
  /\ UNCHANGED <<text, table, phase, chains, links, last, ok, out>>

Escapes(k) == text[k] = "\\" /\ (IsPunct(At(text, k + 1)) \/ At(text, k + 1) = Newline)

(* A hard break cannot be on the last line. *)
CollectEscape(k) ==
  /\ Escapes(k)
  /\ Collected(IF k = Len(text) THEN <<>> ELSE <<Mark("\\", k, k + 2, {"resolved"})>>, k + 2)
  /\ UNCHANGED scan

Level(ch) == IF ch \in White THEN 0 ELSE IF IsPunct(ch) THEN 1 ELSE 2

(* A run of these is an opener or a closer by what is around it; it is      *)
(* followed by spare marks, because it may have to be split.                *)
CollectEmphasis(k) ==
  LET end == Skip(text, k, {text[k]})
      around == <<IF k = 1 THEN 0 ELSE Level(text[k - 1]), Level(At(text, end))>>
      levels == IF text[k] = "_" /\ around = <<2, 2>> THEN <<0, 0>> ELSE around
      flags == (IF levels[1] > 0 /\ levels[1] >= levels[2] THEN {"pcloser"} ELSE {})
               \cup (IF levels[2] > 0 /\ levels[2] >= levels[1] THEN {"popener"} ELSE {})
               \cup (IF levels = <<2, 2>> THEN {"intraword"} ELSE {})
      mark == [Mark(text[k], k, end, flags) EXCEPT !.mod = (end - k) % 3]
  IN /\ text[k] \in {"*", "_"}
     /\ Collected(IF levels = <<0, 0>> THEN <<>>
                  ELSE <<mark>> \o [n \in 1..(end - k - 1) |-> Spare(k + n)], end)
     /\ UNCHANGED scan

(* The runs of back-ticks from a place on, in order. *)
Runs(t, from) ==
  LET starts == SelectSeq([k \in DOMAIN t |-> k],
                          LAMBDA k : k >= from /\ t[k] = Backtick /\ (k > from => t[k - 1] # Backtick))
  IN [n \in DOMAIN starts |-> [beg |-> starts[n], end |-> Skip(t, starts[n], {Backtick})]]

(* Mutant: nothing is remembered of a scan. *)
RememberedNot(closers, runs) == closers

(* What a scan over runs remembers: the last place of each length, for the  *)
(* lengths below the limit.                                                 *)
Remembered(closers, runs) ==
  [n \in DOMAIN closers |->
     Max({closers[n]} \cup {runs[j].beg : j \in {i \in DOMAIN runs :
            runs[i].end - runs[i].beg = n /\ n < CodeSpanMax}})]

(* The place between two marks of a code span that were [beg, end) there,   *)
(* with a blank or a line's end on each side taken into the marks.          *)
CodeMarks(open, close) ==
  LET lines == LinesOf(text)
      LineAt(k) == Min({n \in DOMAIN lines : k <= lines[n].end})
      first == LineAt(open.beg)
      final == LineAt(close.beg)
      blankOnly == \A k \in open.end..(close.beg - 1) : text[k] \in {" ", Newline}
      eolAfter == open.end = lines[first].end
      eolBefore == close.beg = lines[final].beg
      trimmed == /\ ~blankOnly
                 /\ eolAfter \/ text[open.end] = " "
                 /\ eolBefore \/ text[close.beg - 1] = " "
      end == IF ~trimmed THEN open.end ELSE IF eolAfter THEN lines[first + 1].beg ELSE open.end + 1
      beg == IF ~trimmed THEN close.beg
             ELSE IF eolBefore THEN Skip(text, lines[final - 1].end, Blank) ELSE close.beg - 1
  IN <<[Mark(Backtick, open.beg, end, {"opener", "resolved"}) EXCEPT !.mate = Len(marks) + 2],
       [Mark(Backtick, beg, close.end, {"closer", "resolved"}) EXCEPT !.mate = Len(marks) + 1]>>

(* A code span goes to the next run of the same length; a scan that failed  *)
(* tells later ones whether there is one.                                   *)
CollectCode(k) ==
  LET open == [beg |-> k, end |-> Skip(text, k, {Backtick})]
      len == open.end - open.beg
      runs == Runs(text, open.end)
      fits == {j \in DOMAIN runs : runs[j].end - runs[j].beg = len}
      hopeless == len > CodeSpanMax \/ (scan.ended /\ scan.closers[len] < open.end)
      passed == IF fits = {} THEN runs ELSE SubSeq(runs, 1, Min(fits) - 1)
  IN /\ text[k] = Backtick
     /\ IF hopeless THEN Collected(<<>>, open.end) /\ UNCHANGED scan
        ELSE /\ scan' = [closers |-> Remembered(scan.closers, passed),
                         ended |-> scan.ended \/ fits = {}]
             /\ IF fits = {} THEN Collected(<<>>, open.end)
                ELSE Collected(CodeMarks(open, runs[Min(fits)]), runs[Min(fits)].end)

CollectEntity(k) ==
  /\ \/ text[k] = "&" /\ Collected(<<Mark("&", k, k + 1, {"popener"})>>, k + 1)
     \/ /\ text[k] = ";"
        /\ Collected(IF marks # <<>> /\ Last(marks).ch = "&" THEN <<Mark(";", k, k + 1, {"pcloser"})>>
                     ELSE <<>>, k + 1)
  /\ UNCHANGED scan

(* Where a tag ends that starts at k, 0 if none does. *)
HtmlEnd(k) ==
  LET end == Skip(text, Skip(text, k + 1, Letter), White)
  IN IF At(text, k + 1) \in Letter /\ At(text, end) = ">" THEN end + 1 ELSE 0

(* md_is_autolink_uri *)
AutolinkEnd(k) ==
  LET colon == Skip(text, k + 1, Letter)
      end == Min({j \in colon..Len(text) : text[j] \in White \cup {"<", ">"}} \cup {Len(text) + 1})
  IN IF colon - k >= 3 /\ At(text, colon) = ":" /\ At(text, end) = ">" THEN end + 1 ELSE 0

(* Two marks that are resolved with each other. *)
PairOf(open, close) ==
  <<[open EXCEPT !.flags = @ \cup {"opener", "resolved"}, !.mate = Len(marks) + 2],
    [close EXCEPT !.flags = @ \cup {"closer", "resolved"}, !.mate = Len(marks) + 1]>>

CollectAngle(k) ==
  LET html == HtmlEnd(k)
      link == AutolinkEnd(k)
  IN /\ text[k] = "<"
     /\ IF html # 0
        THEN Collected(PairOf(Mark("<", k, k, {}), Mark(">", html, html, {})), html)
        ELSE IF link # 0
        THEN Collected(PairOf(Mark("<", k, k + 1, {"autolink"}),
                              Mark(">", link - 1, link, {"autolink"})), link)
        ELSE Collected(<<>>, k + 1)
     /\ UNCHANGED scan

Image(k) == text[k] = "!" /\ At(text, k + 1) = "["

(* Two spare marks behind each opening bracket are for a link's data. *)
CollectBracket(k) ==
  LET end == IF text[k] = "[" THEN k + 1 ELSE k + 2
  IN /\ \/ /\ text[k] = "[" \/ Image(k)
           /\ Collected(<<Mark(text[k], k, end, {"popener"}), Spare(end), Spare(end)>>, end)
        \/ text[k] = "]" /\ Collected(<<Mark("]", k, k + 1, {"pcloser"})>>, k + 1)
     /\ UNCHANGED scan

CollectPipe(k) ==
  /\ text[k] = "|" /\ table
  /\ Collected(<<Mark("|", k, k + 1, {})>>, k + 1)
  /\ UNCHANGED scan

CollectNothing(k) ==
  /\ \/ text[k] = ">"
     \/ text[k] = "\\" /\ ~Escapes(k)
     \/ text[k] = "!" /\ ~Image(k)
     \/ text[k] = "|" /\ ~table
  /\ Collected(<<>>, k + 1)
  /\ UNCHANGED scan

Collect ==
  /\ phase = "collect" /\ NextChar <= Len(text)
  /\ LET k == NextChar
     IN \/ CollectEscape(k) \/ CollectEmphasis(k) \/ CollectCode(k) \/ CollectEntity(k)
        \/ CollectAngle(k) \/ CollectBracket(k) \/ CollectPipe(k) \/ CollectNothing(k)

(* The last mark is behind the text, so that a search for one ends.         *)
CollectEnd ==
  /\ phase = "collect" /\ NextChar > Len(text)
  /\ marks' = Append(marks, Mark("end", Len(text) + 2, Len(text) + 2, {"resolved"}))
  /\ phase' = "entities"
  /\ UNCHANGED <<text, table, off, scan, chains, links, last, ok, out>>

-----------------------------------------------------------------------------
(* Resolving the marks, a pass for each kind. *)

Matched(ms, o, c) ==
  [ms EXCEPT ![o].mate = c, ![o].flags = @ \cup {"opener", "resolved"},
             ![c].mate = o, ![c].flags = @ \cup {"closer", "resolved"}]

(* md_analyze_entity: the opener is all of it. *)
Entities ==
  LET Entity(o) == /\ marks[o].ch = "&" /\ marks[o + 1].ch = ";"
                   /\ marks[o + 1].beg - marks[o].end >= 2
                   /\ \A k \in marks[o].end..(marks[o + 1].beg - 1) : text[k] \in Letter
      Pass(ms, o) == IF Entity(o) THEN [Matched(ms, o, o + 1) EXCEPT ![o].end = ms[o + 1].end]
                     ELSE ms
  IN /\ phase = "entities" /\ phase' = "brackets"
     /\ marks' = FoldLeft(Pass, marks, [o \in 1..(Len(marks) - 1) |-> o])
     /\ UNCHANGED <<text, table, off, scan, chains, links, last, ok, out>>

(* md_analyze_bracket: the pairs of brackets in the order of their closers. *)
Brackets ==
  LET Pass(b, k) ==
        IF marks[k].ch \in {"[", "!"} THEN [b EXCEPT !.open = Append(@, k)]
        ELSE IF marks[k].ch # "]" \/ b.open = <<>> THEN b
        ELSE [ms |-> [b.ms EXCEPT ![Last(b.open)].mate = k, ![k].mate = Last(b.open)],
              open |-> Front(b.open), pairs |-> Append(b.pairs, Last(b.open))]
      result == FoldLeft(Pass, [ms |-> marks, open |-> <<>>, pairs |-> <<>>],
                         [k \in DOMAIN marks |-> k])
  IN /\ phase = "brackets" /\ phase' = "links"
     /\ marks' = result.ms /\ links' = result.pairs
     /\ UNCHANGED <<text, table, off, scan, chains, last, ok, out>>

-----------------------------------------------------------------------------
(* Emphasis, on a record a of the marks and their chains; ok stays true as  *)
(* long as the assertions of the code hold.                                 *)

(* Mutant: openers in words are held to it only by closers in words.        *)
SuitedLoose(m) ==
  IF m.ch = "_" THEN {ChainOf(m)}
  ELSE {c \in Chains : c[1] = "*" /\ ("intraword" \in m.flags => ~({c[3], m.mod} = {1, 2}))}

(* The chains in which a closer finds its opener: the rule of three.        *)
Suited(m) ==
  IF m.ch = "_" THEN {ChainOf(m)}
  ELSE {c \in Chains : /\ c[1] = "*"
                       /\ (c[2] \/ "intraword" \in m.flags) => ~({c[3], m.mod} = {1, 2})}

(* md_split_emph_mark: the last n characters of a mark become one of its    *)
(* own, for which there is a spare one.                                     *)
SplitAt(a, k, n) == k + a.marks[k].end - a.marks[k].beg - n
SplitMark(a, k, n) ==
  LET m == a.marks[k]
      new == SplitAt(a, k, n)
  IN [a EXCEPT !.marks[k].end = m.end - n,
               !.marks[new] = [m EXCEPT !.beg = m.end - n],
               !.ok = @ /\ m.end - m.beg > n /\ a.marks[new].ch = "D"]

(* md_rollback, for crossing spans: a closer in the range whose opener is   *)
(* before it gives the opener back.                                         *)
RECURSIVE Uncrossed(_, _, _)
Uncrossed(a, o, k) ==
  LET m == a.marks[k]
      crosses == "closer" \in m.flags /\ m.mate < o
      none == {"opener", "closer", "resolved"}
      freed == [a EXCEPT !.marks[k].flags = @ \ none, !.marks[m.mate].flags = @ \ none,
                         !.chains[ChainOf(a.marks[o])] = Append(@, m.mate)]
  IN IF k <= o THEN a
     ELSE IF crosses THEN Uncrossed(freed, o, k - 1)
     ELSE Uncrossed(a, o, IF "closer" \in m.flags THEN m.mate ELSE k - 1)

(* Mutant: nothing but the opener leaves its chain. *)
RollbackNot(a, o, c) == [a EXCEPT !.chains = [n \in Chains |-> SelectSeq(@[n], LAMBDA k : k # o)]]

Rollback(a, o, c) ==
  Uncrossed([a EXCEPT !.chains = [n \in Chains |-> SelectSeq(@[n], LAMBDA k : k < o)]], o, c - 1)

AsOpener(a, k) ==
  IF "popener" \in a.marks[k].flags
  THEN [a EXCEPT !.chains[ChainOf(a.marks[k])] = Append(@, k)] ELSE a

(* md_analyze_emph: a mark closes the last opener that suits it, as much    *)
(* as the shorter of the two has, or is an opener itself.                   *)
Emph(a, c) ==
  LET tails == {Last(a.chains[n]) : n \in {n \in Suited(a.marks[c]) : a.chains[n] # <<>>}}
      o == Max(tails)
      size == a.marks[c].end - a.marks[c].beg
      openSize == a.marks[o].end - a.marks[o].beg
      new == IF openSize > size THEN SplitAt(a, o, size) ELSE o
      b == IF openSize > size THEN SplitMark(a, o, size)
           ELSE IF openSize < size THEN SplitMark(a, c, size - openSize) ELSE a
      d == Rollback(b, new, c)
  IN IF "pcloser" \notin a.marks[c].flags \/ tails = {} THEN AsOpener(a, c)
     ELSE [d EXCEPT !.marks = Matched(@, new, c)]

(* md_analyze_marks for emphasis, from one mark to before another. *)
RECURSIVE EmphFrom(_, _, _)
EmphFrom(a, k, to) ==
  LET m == a.marks[k]
      spans == {"opener", "resolved"} \subseteq m.flags
  IN IF k >= to THEN a
     ELSE IF spans THEN EmphFrom([a EXCEPT !.ok = @ /\ k < m.mate], m.mate + 1, to)
     ELSE IF "resolved" \in m.flags \/ m.ch \notin {"*", "_"} THEN EmphFrom(a, k + 1, to)
     ELSE EmphFrom(Emph(a, k), k + 1, to)

(* md_analyze_link_contents *)
LinkContents(ms, from, to) ==
  [EmphFrom([marks |-> ms, chains |-> chains, ok |-> TRUE], from, to) EXCEPT !.chains = NoOpeners]

-----------------------------------------------------------------------------
(* Links. *)

(* md_is_link_reference, of the brackets text[beg..end - 1]. *)
Reference(beg, end) == SubSeq(text, IF text[beg] = "!" THEN beg + 2 ELSE beg + 1, end - 2) \in Labels

(* Blanks with up to one end of a line among them. *)
PastWhite(k) ==
  LET j == IF k <= Len(text) THEN Skip(text, k, Blank) ELSE k
  IN IF j <= Len(text) /\ text[j] = Newline THEN Skip(text, j + 1, Blank) ELSE j

Depth(beg, end) ==
  LET Count(ch) == Cardinality({k \in beg..(end - 1) : text[k] = ch /\ text[k - 1] # "\\"})
  IN Count("(") - Count(")")

(* md_is_link_destination_B: where it ends. *)
DestinationEnd(beg) ==
  Min({k \in beg..Len(text) :
         \/ text[k] \in White
         \/ text[k] = ")" /\ text[k - 1] # "\\" /\ Depth(beg, k) = 0} \cup {Len(text) + 1})

NoLink == [end |-> 0, title |-> <<>>]

(* md_is_inline_link_spec: a destination and a title, from the parenthesis on. *)
InlineLink(k) ==
  LET beg == PastWhite(k + 1)
      dest == DestinationEnd(beg)
      open == PastWhite(dest)
      close == Min({j \in (open + 1)..Len(text) : text[j] = "'" /\ text[j - 1] # "\\"}
                   \cup {Len(text) + 1})
      titled == open > dest /\ At(text, open) = "'" /\ close <= Len(text)
      end == PastWhite(IF titled THEN close + 1 ELSE dest)
  IN IF At(text, beg) = ")" THEN [NoLink EXCEPT !.end = beg + 1]
     ELSE IF dest = beg \/ Depth(beg, dest) # 0 \/ At(text, end) # ")" THEN NoLink
     ELSE [end |-> end + 1, title |-> IF titled THEN SubSeq(text, open + 1, close - 1) ELSE <<>>]

(* Mutant: a parenthesis in a code span may end a link. *)
CutsNothing(k, end) == FALSE

(* The parenthesis of a link may not end inside of a span resolved before.  *)
RECURSIVE CutsSpan(_, _)
CutsSpan(k, end) ==
  IF k > Len(marks) \/ marks[k].beg >= end THEN FALSE
  ELSE IF ~Opener(k) THEN CutsSpan(k + 1, end)
  ELSE marks[marks[k].mate].beg >= end \/ CutsSpan(marks[k].mate + 1, end)

(* What the pair of brackets at o is: 0 for no link, or where it ends, with *)
(* its title; eats says that the next pair is a part of it.                 *)
LinkAt(o) ==
  LET close == marks[marks[o].mate]
      next == marks[links[2]]
      nextEnd == marks[next.mate].end
      eats == Len(links) > 1 /\ next.beg = close.end
      refers == IF eats /\ nextEnd > close.end + 2 THEN Reference(next.beg, nextEnd)
                ELSE Reference(marks[o].beg, close.end)
      inline == IF ~eats /\ At(text, close.end) = "(" THEN InlineLink(close.end) ELSE NoLink
      plain == [end |-> IF eats THEN nextEnd ELSE close.end, title |-> <<>>, eats |-> eats]
  IN IF inline.end # 0 /\ ~CutsSpan(marks[o].mate + 1, inline.end)
     THEN [end |-> inline.end, title |-> inline.title, eats |-> FALSE]
     ELSE IF refers THEN plain ELSE [plain EXCEPT !.end = 0, !.eats = FALSE]

(* An outer pair cannot end in the parentheses of an inner link, and cannot *)
(* be a link with a link in its text.                                       *)
Inside(o) ==
  LET open == marks[o]
      end == marks[open.mate].end
      Within(l) == open.beg < l.beg /\ end < l.end
  IN Within(last.link) \/ Within(last.img) \/ (open.ch = "[" /\ open.beg < last.link.end)

(* md_resolve_links, one pair after the other: the emphasis in the text of  *)
(* a link is resolved with it.                                              *)
ResolveLink ==
  /\ phase = "links" /\ links # <<>>
  /\ LET o == links[1]
         c == marks[o].mate
         link == LinkAt(o)
         ms == [Matched(marks, o, c) EXCEPT ![c].end = link.end, ![o].title = link.title]
         a == LinkContents(ms, o + 1, c)
         range == [beg |-> marks[o].beg, end |-> link.end]
     IN IF Inside(o) \/ link.end = 0
        THEN links' = Tail(links) /\ UNCHANGED <<marks, chains, last, ok>>
        ELSE /\ links' = IF link.eats THEN SubSeq(links, 3, Len(links)) ELSE Tail(links)
             /\ marks' = a.marks /\ chains' = a.chains /\ ok' = (ok /\ a.ok)
             /\ last' = IF marks[o].ch = "[" THEN [last EXCEPT !.link = range]
                        ELSE [last EXCEPT !.img = range]
  /\ UNCHANGED <<text, table, phase, off, scan, out>>

(* The last pass: in a row of a table that of the boundaries of cells, else *)
(* that of emphasis outside of links.                                       *)
RECURSIVE Boundaries(_)
Boundaries(k) ==
  IF k > Len(marks) THEN {}
  ELSE IF Opener(k) THEN Boundaries(marks[k].mate + 1)
  ELSE (IF marks[k].ch = "|" THEN {k} ELSE {}) \cup Boundaries(k + 1)

ResolveRest ==
  /\ phase = "links" /\ links = <<>>
  /\ IF table
     THEN /\ phase' = "done" /\ UNCHANGED <<chains, ok>>
          /\ marks' = [k \in DOMAIN marks |->
                         IF k \in Boundaries(1) THEN [marks[k] EXCEPT !.flags = @ \cup {"resolved"}]
                         ELSE marks[k]]
     ELSE LET a == LinkContents(marks, 1, Len(marks) + 1)
          IN phase' = "render" /\ marks' = a.marks /\ chains' = a.chains /\ ok' = (ok /\ a.ok)
  /\ UNCHANGED <<text, table, off, scan, links, last, out>>

-----------------------------------------------------------------------------
(* md_process_inlines: the loop's turns, on the record out. *)

Event(kind, type, from, to) == [kind |-> kind, type |-> type, from |-> from, to |-> to]
Said(r, kind, type, from, to) == [r EXCEPT !.events = Append(@, Event(kind, type, from, to))]

(* The text before the next mark or the end of the line. *)
TextUpTo(r, end) == IF end > r.off THEN [Said(r, "text", r.kind, r.off, end) EXCEPT !.off = end] ELSE r

(* The spans of a mark of emphasis with n characters left. *)
EmphSpans(r, m) ==
  LET n == m.end - r.off
      strong == n \div 2
      opens == "opener" \in m.flags
      Em(from) == IF n % 2 = 1 THEN <<Event(IF opens THEN "enter" ELSE "leave", "em", from, from)>>
                  ELSE <<>>
      Strong(j, from) == Event(IF opens THEN "enter" ELSE "leave", "strong", from + 2 * j - 2, from + 2 * j - 2)
      new == IF opens THEN Em(r.off) \o [j \in 1..strong |-> Strong(j, r.off + (n % 2))]
             ELSE [j \in 1..strong |-> Strong(j, r.off)] \o Em(r.off + 2 * strong)
  IN [r EXCEPT !.events = @ \o new]

(* Mutant: a link ends in the line in which it starts. *)
LineAfterNot(n, end) == n

LineAfter(n, end) ==
  LET later == {j \in DOMAIN LinesOf(text) : j >= n /\ LinesOf(text)[j].end >= end}
  IN IF later = {} THEN n ELSE Min(later)

(* What a mark reports. *)
AtMark(r, m) ==
  LET opens == "opener" \in m.flags
      Span(type) == Said(r, IF opens THEN "enter" ELSE "leave", type, m.beg, m.beg)
      open == IF opens THEN m ELSE marks[m.mate]
  IN CASE m.ch = "\\" -> IF At(text, m.beg + 1) = Newline THEN [r EXCEPT !.hard = TRUE]
                         ELSE Said(r, "text", r.kind, m.beg + 1, m.beg + 2)
       [] m.ch = Backtick -> [Span("code") EXCEPT !.kind = IF opens THEN "code" ELSE "normal"]
       [] m.ch \in {"*", "_"} -> EmphSpans(r, m)
       [] m.ch \in {"[", "!", "]"} ->
            [Span(IF open.ch = "!" THEN "img" ELSE "a") EXCEPT
               !.line = IF m.ch = "]" THEN LineAfter(@, m.end) ELSE @]
       [] m.ch \in {"<", ">"} ->
            IF "autolink" \in m.flags THEN Span("a")
            ELSE [r EXCEPT !.kind = IF opens THEN "html" ELSE "normal"]
       [] m.ch = "&" -> Said(r, "text", "entity", m.beg, m.end)

(* Mutant: the search starts at the mark itself. *)
NextMarkSame(k, from) ==
  Min({j \in Max({k, 1})..Len(marks) : Resolved(j) /\ marks[j].beg >= from})

(* The next resolved mark that is not in what the last one has swallowed.   *)
NextMark(k, from) == Min({j \in (k + 1)..Len(marks) : Resolved(j) /\ marks[j].beg >= from})

PastMark(r) ==
  LET m == marks[r.at]
  IN [AtMark(r, m) EXCEPT !.off = m.end, !.prev = r.at, !.at = NextMark(r.at, m.end)]

(* The end of a line that is not the last one. *)
NewLine(r) ==
  LET lines == LinesOf(text)
      end == lines[r.line].end
      blanks == IF r.off > Len(text) THEN r.off ELSE Skip(text, r.off, Blank)
      trailing == IF blanks > r.off THEN Said(r, "text", r.kind, r.off, blanks) ELSE r
      hard == r.kind = "normal" /\ (r.hard \/ (At(text, end) = " " /\ At(text, end + 1) = " "))
      s == CASE r.kind = "code" ->
                  IF marks[r.prev].end < blanks /\ blanks < marks[r.at].beg
                  THEN Said(trailing, "text", "code", blanks, blanks) ELSE trailing
             [] r.kind = "html" -> Said(trailing, "text", "html", blanks, blanks)
             [] OTHER -> Said(r, "text", IF hard THEN "br" ELSE "softbr", r.off, r.off)
  IN [s EXCEPT !.line = r.line + 1, !.off = lines[r.line + 1].beg, !.hard = FALSE]

FirstMark(r) == IF Resolved(r.at) THEN r ELSE [r EXCEPT !.at = NextMark(0, 0)]

Render ==
  /\ phase = "render"
  /\ LET lines == LinesOf(text)
         first == FirstMark(out)
         before == TextUpTo(first, Min({lines[first.line].end, marks[first.at].beg}))
         s == IF before.off >= marks[before.at].beg THEN PastMark(before) ELSE before
         over == s.off >= lines[s.line].end
     IN IF over /\ s.off >= lines[Len(lines)].end THEN out' = s /\ phase' = "done"
        ELSE out' = (IF over THEN NewLine(s) ELSE s) /\ phase' = phase
  /\ UNCHANGED <<text, table, off, scan, marks, chains, links, last, ok>>

Done == phase = "done" /\ UNCHANGED vars

Next ==
  \/ Collect \/ CollectEnd \/ Entities \/ Brackets \/ ResolveLink \/ ResolveRest \/ Render \/ Done

Spec == Init /\ [][Next]_vars

-----------------------------------------------------------------------------
(* Properties. *)

Openers == {k \in DOMAIN marks : Opener(k)}

(* The marks are in the text, and a chain holds marks that still may open, in  *)
(* the order of the text.                                                      *)
TypeOK ==
  /\ phase \in {"collect", "entities", "brackets", "links", "render", "done"}
  /\ \A k \in DOMAIN marks : /\ marks[k].beg \in 1..(Len(text) + 2)
                            /\ marks[k].end \in marks[k].beg..(Len(text) + 2)
                            /\ marks[k].mate \in 0..Len(marks)
  /\ \A k \in 1..(Len(marks) - 1) : marks[k].beg <= marks[k + 1].beg
  /\ scan.closers \in [1..CodeSpanMax -> 0..Len(text)]
  /\ out.line \in DOMAIN LinesOf(text) /\ out.kind \in {"normal", "code", "html"}

(* The assertions of the code hold: a mark is split only when there is a spare *)
(* one for the rest, a span ends behind its start, and a line can end in code  *)
(* only between the marks of a code span (md4c.c:3701, 3979, 4357).            *)
AssertsHold ==
  /\ ok
  /\ out.kind = "code" /\ phase = "render" =>
       /\ out.prev # 0 /\ marks[out.prev].ch = Backtick /\ Opener(out.prev)
       /\ marks[out.at].ch = Backtick /\ marks[out.prev].mate = out.at

(* At every point the resolved spans are a bracketing of the text: each opener  *)
(* has its closer behind it and the two know each other, and of two spans one  *)
(* contains the other or ends before it.  The passes of md_analyze_inlines     *)
(* resolve them out of order, and md_rollback has to keep them from crossing.  *)
PairsProper ==
  \A o \in Openers :
    LET c == marks[o].mate
    IN /\ o < c /\ marks[c].mate = o /\ {"closer", "resolved"} \subseteq marks[c].flags
       /\ \A p \in Openers : p \in (o + 1)..(c - 1) => marks[p].mate < c

(* After every pass the marks are sound: placed in the text, matched like    *)
(* brackets, and as the assertions on them demand.                           *)
MarksInv == TypeOK /\ AssertsHold /\ PairsProper

(* Where the links go on behind their text. *)
Tails == {marks[k].beg..(marks[k].end - 1) : k \in {k \in DOMAIN marks : marks[k].ch = "]" /\ Resolved(k)}}
InTail(k) == \E t \in Tails : k \in t

(* The span events are nested: what is left is what was entered last. *)
Balanced(events) ==
  LET Turn(b, e) ==
        IF e.kind = "enter" THEN [b EXCEPT !.open = Append(@, e.type)]
        ELSE IF e.kind # "leave" THEN b
        ELSE IF b.open # <<>> /\ Last(b.open) = e.type THEN [b EXCEPT !.open = Front(@)]
        ELSE [b EXCEPT !.fine = FALSE]
      result == FoldLeft(Turn, [open |-> <<>>, fine |-> TRUE], events)
  IN result.fine /\ result.open = <<>>

(* The callbacks enter and leave spans like brackets: md_process_inlines       *)
(* leaves what it has entered, innermost first, for every text in which no     *)
(* span of emphasis starts or ends in what follows the text of a link.         *)
SpansNested ==
  phase = "done" /\ ~table
  /\ (\A k \in DOMAIN marks : Resolved(k) /\ marks[k].ch \in {"*", "_"} => ~InTail(marks[k].beg))
  => Balanced(out.events)

(* No character is reported twice or out of order, every letter is reported, and *)
(* the destinations and titles of links are not.                                 *)
TextOnce ==
  LET said == SelectSeq(out.events, LAMBDA e : e.kind = "text" /\ e.to > e.from)
      reported == UNION {said[n].from..(said[n].to - 1) : n \in DOMAIN said}
  IN /\ \A n \in 1..(Len(said) - 1) : said[n].to <= said[n + 1].from
     /\ phase = "done" /\ ~table =>
          /\ {k \in DOMAIN text : text[k] \in Letter /\ ~InTail(k)} \subseteq reported
          /\ \A k \in reported : ~InTail(k)

(* The code spans of a text of back-ticks and letters as CommonMark has them:   *)
(* from the left, a run of back-ticks ends at the next run that is as long.     *)
RECURSIVE CodeSpans(_)
CodeSpans(runs) ==
  IF runs = <<>> THEN {}
  ELSE LET Size(r) == r.end - r.beg
           fits == {n \in 2..Len(runs) : Size(runs[n]) = Size(runs[1])}
       IN IF fits = {} THEN CodeSpans(Tail(runs))
          ELSE {<<runs[1].beg, runs[Min(fits)].end>>}
               \cup CodeSpans(SubSeq(runs, Min(fits) + 1, Len(runs)))

(* Code spans are those of CommonMark, although md_is_code_span gives up early   *)
(* when its memory of failed scans says so, as long as all runs are shorter than *)
(* CODESPAN_MARK_MAXLEN; and the cells of a row end at the bars outside of them. *)
CodeSpansFound ==
  LET runs == Runs(text, 1)
      found == {<<marks[o].beg, marks[marks[o].mate].end>> : o \in {k \in Openers : marks[k].ch = Backtick}}
      bars == {marks[k].beg : k \in {k \in DOMAIN marks : marks[k].ch = "|" /\ Resolved(k)}}
  IN phase = "done" /\ (\A k \in DOMAIN text : text[k] \in Letter \cup {Backtick, Newline, " ", "|"})
     /\ (\A n \in DOMAIN runs : runs[n].end - runs[n].beg < CodeSpanMax)
     => /\ found = CodeSpans(runs)
        /\ bars = {k \in DOMAIN text : /\ table /\ text[k] = "|"
                                      /\ \A s \in CodeSpans(runs) : k < s[1] \/ k >= s[2]}

(* The emphasis of a text of asterisks as CommonMark has it: a closer matches,  *)
(* one asterisk of each after the other, the nearest opener before it that is   *)
(* left; stack holds the runs that are, and pairs the places matched.           *)
CanMatch(open, close) ==
  (close.opens \/ open.closes) => ((open.size + close.size) % 3 # 0 \/ (open.size % 3 = 0 /\ close.size % 3 = 0))
RECURSIVE Emphasis(_, _, _)
Emphasis(stack, runs, pairs) ==
  IF runs = <<>> THEN pairs
  ELSE LET close == Head(runs)
           fits == {n \in DOMAIN stack : close.closes /\ CanMatch(stack[n], close)}
           open == stack[Max(fits)]
           below == SubSeq(stack, 1, Max(fits) - 1)
           openLeft == IF open.end - 1 = open.beg THEN below
                       ELSE Append(below, [open EXCEPT !.end = @ - 1])
           closeLeft == IF close.end - 1 = close.beg THEN Tail(runs)
                        ELSE <<[close EXCEPT !.beg = @ + 1]>> \o Tail(runs)
       IN IF fits = {} THEN Emphasis(IF close.opens THEN Append(stack, close) ELSE stack, Tail(runs), pairs)
          ELSE Emphasis(openLeft, closeLeft, pairs \cup {<<open.end - 1, close.beg>>})

(* Emphasis is that of CommonMark: the chains of openers, the splitting of marks *)
(* and the rollback come to the same pairs as its rules.                         *)
EmphasisAsSpecified ==
  LET starts == SelectSeq([k \in DOMAIN text |-> k],
                          LAMBDA k : text[k] = "*" /\ (k > 1 => text[k - 1] # "*"))
      Run(k) == LET end == Skip(text, k, {"*"})
                    before == k > 1 /\ text[k - 1] \in Letter
                    behind == At(text, end) \in Letter
                IN [beg |-> k, end |-> end, size |-> end - k, opens |-> behind, closes |-> before]
      ends == {o \in Openers : marks[o].ch = "*"}
      found == UNION {{<<marks[o].end - 1 - n, marks[marks[o].mate].beg + n>> :
                         n \in 0..(marks[o].end - marks[o].beg - 1)} : o \in ends}
  IN phase = "done" /\ ~table /\ (\A k \in DOMAIN text : text[k] \in Letter \cup {"*", " ", Newline})
     => found = Emphasis(<<>>, [n \in DOMAIN starts |-> Run(starts[n])], {})

(* The parser gets to the end of every text: each turn of a loop goes on in the  *)
(* text, in the marks or to the next line, and never back, and each pass follows  *)
(* the one before it.                                                            *)
Passes == <<"collect", "entities", "brackets", "links", "render", "done">>
Advances ==
  [][\/ \E m, n \in DOMAIN Passes : m < n /\ phase = Passes[m] /\ phase' = Passes[n]
     \/ /\ phase' = phase
        /\ CASE phase = "collect" -> off' > off
             [] phase = "links" -> Len(links') < Len(links)
             [] phase = "render" ->
                  /\ out.off <= out'.off /\ out.at <= out'.at /\ out.line <= out'.line
                  /\ <<out.off, out.at, out.line>> # <<out'.off, out'.at, out'.line>>
             [] OTHER -> FALSE]_vars
=============================================================================
