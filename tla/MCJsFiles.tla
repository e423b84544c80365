----------------------------- MODULE MCJsFiles -----------------------------
(* An instance of JsFiles for TLC: pages of 2 bytes, and a fake file that   *)
(* starts with a full buffer, as /sys/uname does.                           *)
EXTENDS JsFiles

CONSTANTS h1, h2, p1

MCHandles == {h1, h2}
MCData == {0, 1}
MCUname == <<1>>
MCRegions == {p1}
=============================================================================
