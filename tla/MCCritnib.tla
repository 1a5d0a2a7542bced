----------------------------- MODULE MCCritnib -----------------------------
(* Instances of Critnib for TLC. *)
EXTENDS Critnib

\* An exact match, and the nearest key on either side.
AllQueries == {<<"eq", 1>>, <<"lt", 3>>, <<"ge", 1>>}
\* critnib_find_le only.
Downwards == {<<"le", 3>>}
=============================================================================
