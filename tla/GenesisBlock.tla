---------------------------- MODULE GenesisBlock ----------------------------
(***************************************************************************)
(* The genesis specifications of core/genesis.go and the block ToFastBlock *)
(* makes of one.                                                           *)
(*                                                                         *)
(* An address, a public key and a balance are names.  A hash is modelled   *)
(* by what is hashed: the state root by the accounts, the stakes and the   *)
(* locks of the state, the block hash by the header and the members.  Of   *)
(* a specification the fields ToFastBlock reads are kept, and of those     *)
(* "for consensus tests" the number.  Nonce, Mixhash and Coinbase reach no *)
(* block and are left out.                                                 *)
(***************************************************************************)
EXTENDS Naturals, Sequences, Functions, TLC

CONSTANTS
    MainnetChainConfig,         \* params.MainnetChainConfig
    TestnetChainConfig,         \* params.TestnetChainConfig
    DevnetChainConfig,          \* params.DevnetChainConfig
    SingleNodeChainConfig,      \* params.SingleNodeChainConfig
    AllMinervaProtocolChanges,  \* params.AllMinervaProtocolChanges
    GenesisGasLimit,            \* params.GenesisGasLimit
    PosLockDifficulty,          \* the difficulty 2147483648 of the main net
    Refused,                    \* the public keys whose deposit the stake
                                \* ledger refuses; the ledger decides, and
                                \* ToFastBlock does not ask why
    NULL                        \* Go's nil, and the empty common.Hash

-----------------------------------------------------------------------------
(* The built-in specifications *)

\* A public key crypto.UnmarshalPubkey refuses.
Malformed == "malformed"

PubkeyToAddress(pubkey) == <<"key", pubkey>>

Account(name) == <<"account", name>>

\* A committee whose members sit at the addresses of their keys.
Seats(keys) == [i \in DOMAIN keys |-> [coinbase |-> PubkeyToAddress(keys[i]),
                                       key |-> keys[i], base |-> NULL]]

Balances(names, amount) == [a \in {Account(n) : n \in names} |-> amount]

DefaultGenesisBlock ==
    LET committee == Seats(<<"m1", "m2", "m3", "m4", "m5", "m6", "m7">>)
    IN  [config |-> MainnetChainConfig, number |-> 0, timestamp |-> 0,
         extra |-> "TrueChain MainNet", gasLimit |-> 16777216,
         difficulty |-> PosLockDifficulty,
         alloc |-> Balances({"fund"}, "allocAmount")
                   @@ [a \in {m.coinbase : m \in Range(committee)} |-> "i"],
         committee |-> committee]

DefaultDevGenesisBlock ==
    [config |-> DevnetChainConfig, number |-> 0, timestamp |-> 0,
     extra |-> "", gasLimit |-> 88080384, difficulty |-> 20000,
     alloc |-> Balances({"d1", "d2", "d3", "d4"}, "i"),
     committee |-> Seats(<<"t1", "t2", "t3", "t4">>)]

DefaultSingleNodeGenesisBlock ==
    [config |-> SingleNodeChainConfig, number |-> 0, timestamp |-> 0,
     extra |-> "", gasLimit |-> 22020096, difficulty |-> 256,
     alloc |-> Balances({"s1", "s2", "s3", "s4", "s5"}, "i"),
     committee |-> [Seats(<<"n1">>) EXCEPT ![1].coinbase = Account("s0")]]

DefaultTestnetGenesisBlock ==
    [config |-> TestnetChainConfig, number |-> 0, timestamp |-> 1537891200,
     extra |-> "TrueChain TestNet 05", gasLimit |-> 20971520,
     difficulty |-> 100000,
     alloc |-> Balances({"d1"}, "allocAmount"),
     committee |-> Seats(<<"t1", "t2", "t3", "t4">>)]

\* The specification GenesisBlockForTesting and GenesisFastBlockForTesting
\* commit: nothing but one account.
TestingGenesis(addr, balance) ==
    [config |-> AllMinervaProtocolChanges, number |-> 0, timestamp |-> 0,
     extra |-> "", gasLimit |-> 0, difficulty |-> NULL,
     alloc |-> Balances({addr}, balance), committee |-> <<>>]

-----------------------------------------------------------------------------
(* ToFastBlock *)

UnmarshalPubkey(key) == IF key = Malformed THEN NULL ELSE key

\* The dereference of the nil key UnmarshalPubkey returned with its error.
Panics(g) == \E m \in Range(g.committee) : UnmarshalPubkey(m.key) = NULL

\* The members whose deposit InsertSAccount2 took.  The error of a deposit
\* it refused is logged and the loop goes on.
Staked(g) == {m.coinbase : m \in {n \in Range(g.committee) : n.key \notin Refused}}

\* The main net, known by its difficulty, locks the stake of every member.
Locked(g) ==
    IF g.difficulty = PosLockDifficulty THEN {m.coinbase : m \in Range(g.committee)}
                                        ELSE {}

StateRoot(g) == [alloc |-> g.alloc, staked |-> Staked(g), locked |-> Locked(g)]

\* The members as the loop over committee.Members leaves them (flag, type
\* and base are set together): they are the members of g itself, written in
\* place.
Members(g) ==
    [i \in DOMAIN g.committee |->
        [g.committee[i] EXCEPT
            !.base = PubkeyToAddress(UnmarshalPubkey(g.committee[i].key))]]

Header(g) ==
    [number |-> g.number, time |-> g.timestamp, extra |-> g.extra,
     gasLimit |-> IF g.gasLimit = 0 THEN GenesisGasLimit ELSE g.gasLimit,
     root |-> StateRoot(g)]

ToFastBlock(g) == [header |-> Header(g), members |-> Members(g)]

\* genesis.ToFastBlock(nil).Hash()
GenesisHash(g) == ToFastBlock(g)
=============================================================================
