------------------------------- MODULE MCTbft -------------------------------
(***************************************************************************)
(* Tbft for a committee of four with one faulty member, which leads the    *)
(* first round.                                                            *)
(***************************************************************************)
EXTENDS Tbft

CONSTANTS x, a, c, d

MCCommittee == <<x, a, c, d>>

MCFaulty == {x}
=============================================================================
