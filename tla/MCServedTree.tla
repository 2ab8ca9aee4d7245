---------------------------- MODULE MCServedTree -----------------------------
(* Two sessions on a tree with names 1 and 2 (1 may name a directory or a  *)
(* file), paths of three names at most, every kind of request once.        *)
EXTENDS ServedTree

CONSTANTS s1, s2

TreesDef ==
  { << >> :> Dir @@ <<1>> :> Dir @@ <<1, 2>> :> 1,
    << >> :> Dir @@ <<1>> :> 1 @@ <<2>> :> Dir }
TargetsDef ==
  { [up |-> 0, names |-> <<1>>], [up |-> 0, names |-> <<2>>],
    [up |-> 0, names |-> <<2, 1>>], [up |-> 1, names |-> << >>] }
=============================================================================
