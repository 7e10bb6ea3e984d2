---------------------------- MODULE MCGenesisSetup ----------------------------
(***************************************************************************)
(* GenesisSetup for the genesis blocks of three nets, the one of the       *)
(* tests and two that cannot be committed.                                 *)
(***************************************************************************)
EXTENDS GenesisSetup

MCMainnetGenesisHash == GenesisHash(DefaultGenesisBlock)

MCTestnetGenesisHash == GenesisHash(DefaultTestnetGenesisBlock)

\* The ledger refuses a key that is no key and, for a reason of its own, one
\* member of the dev and test nets.
MCRefused == {Malformed, "t4"}

\* No genesis; the dev net with its fork at block 1, 2 or 3; the main net's
\* block without configuration; the test net's block numbered 1; the single
\* node's block with a key that is no key; the block of the tests, which
\* names no gas limit.
MCOffered ==
    {NULL,
     TestingGenesis("a1", "i"),
     [DefaultGenesisBlock EXCEPT !.config = NULL],
     [DefaultTestnetGenesisBlock EXCEPT !.number = 1],
     [DefaultSingleNodeGenesisBlock EXCEPT !.committee[1].key = Malformed]}
    \cup {[DefaultDevGenesisBlock EXCEPT !.config = c] : c \in 1 .. 3}

=============================================================================
