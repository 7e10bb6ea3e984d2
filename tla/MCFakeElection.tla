--------------------------- MODULE MCFakeElection ---------------------------
(***************************************************************************)
(* FakeElection for TLC: a committee of three keys in place of seven, one  *)
(* outsider, two blocks.                                                   *)
(***************************************************************************)
EXTENDS FakeElection

CONSTANTS pk1, pk2, pk3, outsider

MCPriKeys == <<pk1, pk2, pk3>>

MCOutsiders == {outsider}

MCResults == {0, 1}

MCSigns == Signature

=============================================================================
