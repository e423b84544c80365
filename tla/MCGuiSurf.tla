----------------------------- MODULE MCGuiSurf -----------------------------
(* Instances of GuiSurf for TLC. *)
EXTENDS GuiSurf

CONSTANTS s1, s2

One == {s1}
Two == {s1, s2}
Sizes == {1, 3}
SizesAndZero == {0, 3}
=============================================================================
