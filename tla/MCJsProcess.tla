---------------------------- MODULE MCJsProcess ----------------------------
(* An instance of JsProcess for TLC: the text of stdout is followed.        *)
EXTENDS JsProcess

Stdout == {1}

(* Lines that a write ends, goes on with or both, and one that ends within a*)
(* character; and the two writes of such a character.                       *)
Writes == {<<"x">>, <<"nl">>, <<"nl", "x">>, <<"lead">>}
Halves == {<<"lead">>, <<"trail">>}
=============================================================================
