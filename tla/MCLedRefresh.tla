---------------------------- MODULE MCLedRefresh ----------------------------
(***************************************************************************)
(* A small instance of LedRefresh for TLC: two bits of color of which one  *)
(* is sent; off, a blink of a color, an alternation that clamps, a mode    *)
(* that there is not.                                                      *)
(***************************************************************************)
EXTENDS LedRefresh

CONSTANT nan

Led(m, c, a, p) == [mode |-> m, color |-> c, alt |-> a, period |-> p]

MCSetting == {Led(0, 0, 0, 0), Led(2, 1, 1, 6), Led(3, 9, nan, nan), Led(7, 0, 0, 0)}
=============================================================================
