-------------------------- MODULE MCDesktopControl --------------------------
(* Tokens as model values; where two of them have the same grants they are   *)
(* interchangeable.                                                          *)
EXTENDS DesktopControl, TLC

CONSTANTS admin, guest

Interchangeable == Permutations({admin, guest})
=============================================================================
