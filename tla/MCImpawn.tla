------------------------------ MODULE MCImpawn ------------------------------
(***************************************************************************)
(* The stake ledger for three owners, two seats and one backup.            *)
(***************************************************************************)
EXTENDS Impawn, TLC

CONSTANTS o1, o2, o3

MCOwners == {o1, o2, o3}

MCSymmetry == Permutations(MCOwners)

\* The scenario of section 8 of the specification: deposits of 100, 90, 90
\* and 50 with three seats, the second 90 deposited before the first.
Scenario ==
    <<[owner |-> "a", amount |-> 100, lockUntil |-> 9, depositHeight |-> 3],
      [owner |-> "b", amount |-> 90, lockUntil |-> 9, depositHeight |-> 2],
      [owner |-> "c", amount |-> 50, lockUntil |-> 9, depositHeight |-> 1],
      [owner |-> "d", amount |-> 90, lockUntil |-> 9, depositHeight |-> 1]>>

ASSUME Seats(Ranked(Scenario), 3, 1) =
           [active |-> <<"a", "d", "b">>, backup |-> <<"c">>]
=============================================================================
