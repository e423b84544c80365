---------------------------- MODULE MCSpecTables ----------------------------
(* An instance of SpecTables for TLC: tables of two columns and one row or   *)
(* one and two behind their head, and text that is a letter or a marker.     *)
EXTENDS SpecTables

CONSTANTS MaxTables, MaxText \* bounds on the tables heard and the text of a cell

MCTooLong == {<<"L">>}
Pieces == {<<"a">>, <<"@", "a">>, <<"@", "L">>}

Small ==
  /\ Len(heard.tables) <= MaxTables
  /\ \A n \in DOMAIN heard.tables : \A i \in DOMAIN heard.tables[n].rows :
       \A j \in DOMAIN heard.tables[n].rows[i] : Len(heard.tables[n].rows[i][j]) <= MaxText

MCNext ==
  /\ \/ \E size \in {<<0, 0>>, <<2, 1>>, <<1, 2>>} : Report("enter", "table", size)
     \/ \E type \in {"thead", "tbody", "tr", "p"} : Report("enter", type, <<>>)
     \/ \E type \in {"th", "td"}, align \in {"center"} : Report("enter", type, align)
     \/ \E type \in TableBlocks \cup {"p"} : Report("leave", type, <<>>)
     \/ \E text \in Pieces : Report("text", 1, text)
  /\ Small'

MCSpec == TablesInit /\ [][MCNext]_tablevars
=============================================================================
