----------------------------- MODULE MCPlayground -----------------------------
(* Two valid queries and an invalid one. *)
EXTENDS Playground

CONSTANTS q1, q2, bad

MCQueries == {q1, q2, bad}
MCValid == {q1, q2}
=============================================================================
