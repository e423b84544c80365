----------------------------- MODULE MCIoRings -----------------------------
(* An instance of IoRings for TLC: rings of 1, 64 and 128 entries in eight  *)
(* pages, where the larger ones leave a page behind; one of them is asked   *)
(* for by its own number, one by half of it and one more.  A request that   *)
(* is clamped never finds the memory: its rings take 802 pages.             *)
EXTENDS IoRings

MCRequests ==
  {<<0, FALSE>>, <<1, FALSE>>, <<33, TRUE>>, <<128, FALSE>>, <<40000, FALSE>>, <<40000, TRUE>>}
=============================================================================
