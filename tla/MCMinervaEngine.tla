--------------------------- MODULE MCMinervaEngine ---------------------------
(***************************************************************************)
(* MinervaEngine for TLC: two goroutines, one engine beside               *)
(* sharedMinerva, two thread counts.                                       *)
(***************************************************************************)
EXTENDS MinervaEngine

MCUsers == {"miner"}

MCThreadCounts == {0, 2}

MCKinds == AllKinds

=============================================================================
