---------------------------- MODULE MCElasticTab ----------------------------
(* An instance of ElasticTab for TLC: a writer as specgen sets it up, and   *)
(* two with the flags; single characters and some lines and parts of lines. *)
EXTENDS ElasticTab

Setup(flags, ralign) == [minwidth |-> 2, padding |-> 1, flags |-> flags, ralign |-> ralign]
MCConfigs == {Setup({}, {2}), Setup({"skip"}, {}), Setup({"strip"}, {2, 3})}
MCTexts == {<<c>> : c \in Ends \cup {"a", Escape}}
           \cup {<<"a", "a", Tab>>, <<Tab, "a", Newline, Tab>>,
               <<"a", Tab, "a", Newline>>, <<Vtab, Vtab, "a", Tab>>}
=============================================================================
