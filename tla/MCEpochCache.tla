---------------------------- MODULE MCEpochCache ----------------------------
(***************************************************************************)
(* EpochCache for TLC.  Two slots in the list and four epochs are enough   *)
(* for every path of get: a hit, a miss the future slot answers, a miss    *)
(* that constructs, an eviction, a request below the slot, a request that  *)
(* skips an epoch, and the two epochs at the ceiling.                      *)
(***************************************************************************)
EXTENDS EpochCache
=============================================================================
