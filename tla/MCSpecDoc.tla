------------------------------ MODULE MCSpecDoc ------------------------------
(* An instance of SpecDoc for TLC.  Each line starts, goes on with or ends  *)
(* some block: documents of any three of them, of four of those that make   *)
(* leaf blocks, of five of those that open and close containers, and of six *)
(* of those that make tables.                                               *)
EXTENDS SpecDoc

PlainLines == {<<>>, <<"a">>, <<" ", " ", " ", " ", "a">>}

TableLines ==
  {<<>>, <<"#", " ", "@", "a">>, <<"|", "a", "|", "a">>, <<"-", "-", "-", "|", "-", "-", ":">>,
   <<"-", " ", "@", "L">>}

LeafLines == PlainLines \cup
  {<<"@", "a">>, <<"#", " ", "a", "#">>, <<"-", "-", "-">>, <<"=", "=">>,
   <<Backtick, Backtick, Backtick>>, <<">", Backtick, Backtick, Backtick>>,
   <<"<", "p", ">">>, <<"-", " ", "<", "!", "-", "-">>, <<"[", "a", "]", ":", "a">>}

ContainerLines == PlainLines \cup
  {<<"-">>, <<"-", " ", " ", " ", "a">>, <<"-", " ", "2", ".", " ", "a">>, <<">", " ", "a">>,
   <<">", Backtick, Backtick, Backtick>>}

MCDocuments ==
  {<<TableLines \cup LeafLines \cup ContainerLines, 3>>,
   <<LeafLines, 4>>, <<ContainerLines, 5>>, <<TableLines, 6>>}

MCTooLong == {<<"L">>}
=============================================================================
