------------------------------- MODULE MCMount -------------------------------
(* Instances of Mount for TLC. *)
EXTENDS Mount

\* The pole and a place away from it in both axes.
TwoPlaces == {[ra |-> 0, dec |-> MaxDec], [ra |-> 2, dec |-> 0]}

\* A single target.
OnePlace == {[ra |-> 1, dec |-> 0]}
=============================================================================
