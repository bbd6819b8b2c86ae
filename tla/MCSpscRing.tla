----------------------------- MODULE MCSpscRing ------------------------------
(* Small instances of SpscRing: CAP 2 and 3, words that wrap after a few    *)
(* pushes, two distinct items.                                              *)
EXTENDS SpscRing

CONSTANTS core0, core1, core2, a, b

MCItems == {a, b}
=============================================================================
