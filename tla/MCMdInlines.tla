----------------------------- MODULE MCMdInlines -----------------------------
(* An instance of MdInlines for TLC: all short texts of a few characters,    *)
(* for each kind of span, and texts of pieces of several kinds.              *)
EXTENDS MdInlines

Strings(n, chars) == UNION {[1..k -> chars] : k \in 1..n}

(* A paragraph starts and ends with something and has no empty line.         *)
Paragraphs(texts) ==
  {t \in texts : /\ t # <<>> /\ t[1] \notin White /\ t[Len(t)] \notin White
                 /\ \A k \in 2..Len(t) : ~(t[k - 1] \in White /\ t[k] = Newline)}

Pieces ==
  {<<>>, <<"*">>, <<"[", "a">>, <<"]", "(", "b", ")">>, <<"]", "(", "*", "b">>, <<"]">>,
   <<"b", "*", ")">>}

OtherPieces ==
  {<<"!", "[">>, <<"[", "a", "]">>, <<"a", "]", "(", "b", " ", "'", "a", "'", ")">>,
   <<"a", "]", "(", "b", Newline, "'", "a", "'", ")">>, <<"]", "(", "b", Backtick, ")">>,
   <<Backtick, "]">>, <<"&", "a", "b", ";">>, <<"<", "a", ">">>, <<"<", "a", Newline, ">">>,
   <<"<", "a", "b", "a", ":", ">">>, <<"\\", Newline, "b">>, <<" ", " ", Newline, "!", "|">>}

MCTexts ==
  Paragraphs(
    Strings(9, {"*", "a"}) \cup Strings(5, {"*", "a", " ", "_"})
    \cup Strings(8, {Backtick, "a"}) \cup Strings(5, {Backtick, "a", " ", Newline})
    \cup {p \o q \o r \o s \o t : p \in Pieces, q \in Pieces, r \in Pieces, s \in Pieces,
                                  t \in {<<>>, <<"*">>, <<"]">>}}
    \cup {<<"*">> \o p \o q \o r : p \in OtherPieces, q \in OtherPieces, r \in OtherPieces})

MCRows == Strings(4, {"|", "a", Backtick}) \cup Strings(4, {"|", "[", "]", "\\"})

MCLabels == {<<"a">>}
=============================================================================
