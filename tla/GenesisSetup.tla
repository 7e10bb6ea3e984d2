----------------------------- MODULE GenesisSetup -----------------------------
(***************************************************************************)
(* Start-up of the chain database: SetupGenesisBlock and CommitFast of     *)
(* core/genesis.go, and the lines of pist.New (pist/backend.go) that act   *)
(* on their result.                                                        *)
(*                                                                         *)
(* The database outlives the process.  CommitFast writes it with one       *)
(* rawdb call per record and the process may stop between any two of them, *)
(* so every write is a step of its own and Crash may follow each.  What a  *)
(* start attempt reads and decides before its first write is one step: no  *)
(* one else writes the database meanwhile.                                 *)
(*                                                                         *)
(* A chain configuration is modelled by the one thing CheckCompatible      *)
(* looks at, the block at which its fork activates (Never for none).  A    *)
(* block of the chain is modelled by the rule it was produced under:       *)
(* TRUE if the fork was active.  A head hash is modelled by the number of  *)
(* the block it names.  The genesis specifications, and the blocks and     *)
(* hashes made of them, are those of module GenesisBlock.                  *)
(***************************************************************************)
EXTENDS GenesisBlock

CONSTANTS
    MainnetGenesisHash,         \* params.MainnetGenesisHash
    TestnetGenesisHash,         \* params.TestnetGenesisHash
    Offered,                    \* the genesis arguments a start may be given
    MaxHeight,                  \* model bound: the chain grows to this height
    MaxCrashes                  \* model bound: crashes in one behaviour

Never == MaxHeight + 1

Configs == 0 .. Never

\* The specifications a start works with, and the hashes of their blocks.
Genesis == (Offered \ {NULL}) \cup {DefaultGenesisBlock}

Hashes == {GenesisHash(g) : g \in Genesis}
              \cup {MainnetGenesisHash, TestnetGenesisHash}

ASSUME
    /\ \A g \in Genesis : g.config \in Configs \cup {NULL} /\ g.number \in Nat
    /\ {MainnetChainConfig, TestnetChainConfig, AllMinervaProtocolChanges}
           \subseteq Configs
    /\ MaxHeight \in Nat /\ MaxCrashes \in Nat

VARIABLES
    db,        \* the chain database, as far as start-up reads and writes it
    chain,     \* the blocks above the genesis block, by the rule each obeys
    pc,        \* where the process is: "down", in CommitFast ("commit"),
               \* before NewBlockChain ("open", or "rewind" with a
               \* compatibility error), before SetHead ("rewound"), before
               \* the write that follows it ("rewinding"), or "up"
    next,      \* in "commit": the index in CommitOrder of the next write
    arg,       \* the genesis the attempt works with
    running,   \* the chain configuration SetupGenesisBlock returned
    result,    \* how the last attempt ended, and whether its argument
               \* matched the genesis the database held
    crashes,   \* history: crashes so far
    swallowed  \* history: a compatibility error was neither returned nor
               \* was the chain at block zero

vars == <<db, chain, pc, next, arg, running, result, crashes, swallowed>>

-----------------------------------------------------------------------------
(* The database *)

BlobKeys == {"state", "block", "receipts", "gcbr"}
HeadKeys == {"headBlock", "headHeader"}

\* A variant of CommitOrder that names the block canonical before it is
\* written.
CommitOrderCanonicalEarly ==
    <<"state", "canonical", "block", "receipts", "headBlock", "headHeader",
      "gcbr", "config">>

\* The records CommitFast writes, in its order: the state ToFastBlock
\* commits, WriteBlock, WriteReceipts, WriteCanonicalHash,
\* WriteHeadBlockHash, WriteHeadHeaderHash, WriteStateGcBR, WriteChainConfig.
CommitOrder ==
    <<"state", "block", "receipts", "canonical", "headBlock", "headHeader",
      "gcbr", "config">>

EmptyDb ==
    [state |-> {}, block |-> {}, receipts |-> {}, gcbr |-> {},
     canonical |-> NULL, headBlock |-> NULL, headHeader |-> NULL,
     config |-> [h \in Hashes |-> NULL]]

\* CommitFast stores AllMinervaProtocolChanges for a genesis without config.
ConfigToStore(g) ==
    IF g.config = NULL THEN AllMinervaProtocolChanges ELSE g.config

\* One rawdb write of CommitFast.
Put(d, key, g) ==
    CASE key = "state"     -> [d EXCEPT !.state = @ \cup {StateRoot(g)}]
      [] key \in BlobKeys  -> [d EXCEPT ![key] = @ \cup {GenesisHash(g)}]
      [] key = "canonical" -> [d EXCEPT !.canonical = GenesisHash(g)]
      [] key \in HeadKeys  -> [d EXCEPT ![key] = g.number]
      [] key = "config"    -> [d EXCEPT !.config[GenesisHash(g)] = ConfigToStore(g)]

stored == db.canonical

storedcfg == db.config[stored]

\* rawdb.ReadHeaderNumber(db, rawdb.ReadHeadHeaderHash(db))
height == db.headHeader

-----------------------------------------------------------------------------
(* params.ChainConfig.CheckCompatible *)

IsForked(c, h) == c <= h

Incompatible(old, new, h) ==
    /\ old # new
    /\ IsForked(old, h) \/ IsForked(new, h)

\* The block before the lower of the two forks, and 0 when that fork is at
\* block 0.
RewindTo(old, new) ==
    LET rew == IF old < new THEN old ELSE new
    IN  IF rew > 0 THEN rew - 1 ELSE 0

-----------------------------------------------------------------------------
(* setupFastGenesisBlock: what it decides from its argument and the db *)

\* A variant of NoConfig that lets every genesis pass.
NoConfigUnchecked(g) == FALSE

\* A genesis is given and has no chain configuration.
NoConfig(g) == g # NULL /\ g.config = NULL

ConfigOrDefault(g, ghash) ==
    CASE g # NULL                   -> g.config
      [] ghash = MainnetGenesisHash -> MainnetChainConfig
      [] ghash = TestnetGenesisHash -> TestnetChainConfig
      [] OTHER                      -> AllMinervaProtocolChanges

\* A variant of Matching without the comparison of the hashes.
MatchingAnyHash(g) == ~NoConfig(g) /\ stored # NULL

\* The database has a genesis block and the argument, if any, is that block.
Matching(g) ==
    /\ ~NoConfig(g)
    /\ stored # NULL
    /\ g # NULL => ~Panics(g) /\ GenesisHash(g) = stored

\* Past the special case for a chain that is not the main net and is started
\* without a genesis: the stored configuration is checked against the new.
Checked(g) ==
    /\ Matching(g)
    /\ storedcfg # NULL
    /\ ~(g = NULL /\ stored # MainnetGenesisHash)

\* A variant of MustReturn that returns the error also when RewindTo is 0.
MustReturnUnlessAtZero(g) ==
    /\ Incompatible(storedcfg, ConfigOrDefault(g, stored), height)
    /\ height # 0

\* The compatibility error is returned to the caller.
MustReturn(g) ==
    /\ Incompatible(storedcfg, ConfigOrDefault(g, stored), height)
    /\ height # 0
    /\ RewindTo(storedcfg, ConfigOrDefault(g, stored)) # 0

Outcome(o, g) == [outcome |-> o, matched |-> Matching(g)]

-----------------------------------------------------------------------------

Init ==
    /\ db = EmptyDb
    /\ chain = <<>>
    /\ pc = "down"
    /\ next = 1
    /\ arg = NULL
    /\ running = NULL
    /\ result = NULL
    /\ crashes = 0
    /\ swallowed = FALSE

\* What an attempt that ends in "down" leaves of the process.
Exit(o, g) ==
    /\ pc' = "down"
    /\ next' = 1
    /\ arg' = NULL
    /\ running' = NULL
    /\ result' = Outcome(o, g)

\* What an attempt whose set-up succeeded hands to the rest of New.
Proceed(to, o, g, cfg) ==
    /\ pc' = to
    /\ next' = 1
    /\ arg' = g
    /\ running' = cfg
    /\ result' = Outcome(o, g)

\* errGenesisNoConfig: New returns the error.
RefuseNoConfig(g) ==
    /\ pc = "down"
    /\ NoConfig(g)
    /\ Exit("no_config", g)
    /\ UNCHANGED <<db, chain, crashes, swallowed>>

\* No stored genesis block: the argument, or the main-net default, is to be
\* committed.
BeginCommit(g) ==
    /\ pc = "down"
    /\ ~NoConfig(g)
    /\ stored = NULL
    /\ pc' = "commit"
    /\ next' = 1
    /\ arg' = IF g = NULL THEN DefaultGenesisBlock ELSE g
    /\ UNCHANGED <<db, chain, running, result, crashes, swallowed>>

\* CommitFast, one write at a time.  ToFastBlock has committed the state
\* before it reads the members' keys and before CommitFast looks at the
\* block's number.
CommitWrite ==
    /\ pc = "commit"
    /\ next > 1 => arg.number = 0 /\ ~Panics(arg)
    /\ db' = Put(db, CommitOrder[next], arg)
    /\ IF next < Len(CommitOrder)
         THEN /\ next' = next + 1
              /\ UNCHANGED <<pc, arg, running, result>>
         ELSE Proceed("open", "ok", arg, arg.config)
    /\ UNCHANGED <<chain, crashes, swallowed>>

\* ToFastBlock dereferences the nil key of a member; CommitFast returns a
\* nil block and an error for a genesis whose number is not 0, and
\* setupFastGenesisBlock calls Hash() on that block.
CommitPanic ==
    /\ pc = "commit"
    /\ next > 1
    /\ arg.number # 0 \/ Panics(arg)
    /\ Exit("panic", arg)
    /\ UNCHANGED <<db, chain, crashes, swallowed>>

\* The block of the argument is made for its hash, and a member's key is
\* malformed.
HashPanic(g) ==
    /\ pc = "down"
    /\ ~NoConfig(g)
    /\ stored # NULL
    /\ g # NULL /\ Panics(g)
    /\ Exit("panic", g)
    /\ UNCHANGED <<db, chain, crashes, swallowed>>

\* GenesisMismatchError: New returns the error.
RefuseMismatch(g) ==
    /\ pc = "down"
    /\ ~NoConfig(g)
    /\ stored # NULL
    /\ g # NULL /\ ~Panics(g) /\ GenesisHash(g) # stored
    /\ Exit("mismatch", g)
    /\ UNCHANGED <<db, chain, crashes, swallowed>>

\* A variant of RepairConfig that returns the configuration unwritten.
RepairConfigNoWrite(g) ==
    /\ pc = "down"
    /\ Matching(g)
    /\ storedcfg = NULL
    /\ Proceed("open", "ok", g, ConfigOrDefault(g, stored))
    /\ UNCHANGED <<db, chain, crashes, swallowed>>

\* A genesis block without chain configuration: the new one is written.
RepairConfig(g) ==
    /\ pc = "down"
    /\ Matching(g)
    /\ storedcfg = NULL
    /\ db' = [db EXCEPT !.config[stored] = ConfigOrDefault(g, stored)]
    /\ Proceed("open", "ok", g, ConfigOrDefault(g, stored))
    /\ UNCHANGED <<chain, crashes, swallowed>>

\* No genesis given and not the main net: the stored configuration stays.
KeepStoredConfig(g) ==
    /\ pc = "down"
    /\ Matching(g)
    /\ storedcfg # NULL
    /\ g = NULL /\ stored # MainnetGenesisHash
    /\ Proceed("open", "ok", g, storedcfg)
    /\ UNCHANGED <<db, chain, crashes, swallowed>>

\* "missing block number for head header hash": New returns the error.
FailMissingHead(g) ==
    /\ pc = "down"
    /\ Checked(g)
    /\ height = NULL
    /\ Exit("missing_head", g)
    /\ UNCHANGED <<db, chain, crashes, swallowed>>

\* The ConfigCompatError is returned with the new, unwritten configuration;
\* New goes on to open and rewind the chain.
ReturnCompatError(g) ==
    /\ pc = "down"
    /\ Checked(g)
    /\ height # NULL
    /\ MustReturn(g)
    /\ Proceed("rewind", "compat", g, ConfigOrDefault(g, stored))
    /\ UNCHANGED <<db, chain, crashes, swallowed>>

\* The new configuration replaces the stored one.
UpdateConfig(g) ==
    /\ pc = "down"
    /\ Checked(g)
    /\ height # NULL
    /\ ~MustReturn(g)
    /\ db' = [db EXCEPT !.config[stored] = ConfigOrDefault(g, stored)]
    /\ swallowed' = (swallowed \/ MustReturnUnlessAtZero(g))
    /\ Proceed("open", "ok", g, ConfigOrDefault(g, stored))
    /\ UNCHANGED <<chain, crashes>>

-----------------------------------------------------------------------------
(* pist.New after SetupGenesisBlock, and the chain while the node is up *)

\* core.NewBlockChain loading the last state: a database without head block
\* is reset to its genesis block, a missing head header follows the head
\* block.
LoadLastState(d) ==
    CASE d.headBlock = NULL  -> [d EXCEPT !.headBlock = 0, !.headHeader = 0]
      [] d.headHeader = NULL -> [d EXCEPT !.headHeader = d.headBlock]
      [] OTHER               -> d

OpenChain ==
    /\ pc \in {"open", "rewind"}
    /\ db' = LoadLastState(db)
    /\ pc' = IF pc = "open" THEN "up" ELSE "rewound"
    /\ UNCHANGED <<chain, next, arg, running, result, crashes, swallowed>>

\* BlockChain.SetHead(n): the blocks above n are deleted.
SetHead(n) ==
    /\ chain' = SubSeq(chain, 1, n)
    /\ db' = [db EXCEPT !.headBlock = n, !.headHeader = n]

\* A variant of RewindHead that keeps one block more.
RewindHeadOneShort ==
    /\ pc = "rewound"
    /\ SetHead(RewindTo(storedcfg, running) + 1)
    /\ pc' = "rewinding"
    /\ UNCHANGED <<next, arg, running, result, crashes, swallowed>>

\* New, on a ConfigCompatError: the chain is rewound to compat.RewindTo ...
RewindHead ==
    /\ pc = "rewound"
    /\ SetHead(RewindTo(storedcfg, running))
    /\ pc' = "rewinding"
    /\ UNCHANGED <<next, arg, running, result, crashes, swallowed>>

\* ... and the new configuration is written.
RewindWriteConfig ==
    /\ pc = "rewinding"
    /\ db' = [db EXCEPT !.config[stored] = running]
    /\ pc' = "up"
    /\ UNCHANGED <<chain, next, arg, running, result, crashes, swallowed>>

\* The running node extends the chain by a block, valid under the
\* configuration it runs with.
Grow ==
    /\ pc = "up"
    /\ Len(chain) < MaxHeight
    /\ chain' = Append(chain, IsForked(running, Len(chain) + 1))
    /\ db' = [db EXCEPT !.headBlock = Len(chain) + 1,
                        !.headHeader = Len(chain) + 1]
    /\ UNCHANGED <<pc, next, arg, running, result, crashes, swallowed>>

\* The node is shut down in an orderly way.
Stop ==
    /\ pc = "up"
    /\ pc' = "down"
    /\ next' = 1
    /\ arg' = NULL
    /\ running' = NULL
    /\ UNCHANGED <<db, chain, result, crashes, swallowed>>

\* The process dies; the database keeps what was written.
Crash ==
    /\ pc # "down"
    /\ crashes < MaxCrashes
    /\ crashes' = crashes + 1
    /\ pc' = "down"
    /\ next' = 1
    /\ arg' = NULL
    /\ running' = NULL
    /\ UNCHANGED <<db, chain, result, swallowed>>

Start(g) ==
    \/ RefuseNoConfig(g)
    \/ BeginCommit(g)
    \/ HashPanic(g)
    \/ RefuseMismatch(g)
    \/ RepairConfig(g)
    \/ KeepStoredConfig(g)
    \/ FailMissingHead(g)
    \/ ReturnCompatError(g)
    \/ UpdateConfig(g)

Next ==
    \/ \E g \in Offered : Start(g)
    \/ CommitWrite
    \/ CommitPanic
    \/ OpenChain
    \/ RewindHead
    \/ RewindWriteConfig
    \/ Grow
    \/ Stop
    \/ Crash

Spec == Init /\ [][Next]_vars

-----------------------------------------------------------------------------
(* Properties *)

Heights == 0 .. MaxHeight

TypeOK ==
    /\ db \in [state : SUBSET {h.header.root : h \in Hashes},
               block : SUBSET Hashes,
               receipts : SUBSET Hashes, gcbr : SUBSET Hashes,
               canonical : Hashes \cup {NULL},
               headBlock : Heights \cup {NULL},
               headHeader : Heights \cup {NULL},
               config : [Hashes -> Configs \cup {NULL}]]
    /\ chain \in Seq(BOOLEAN) /\ Len(chain) <= MaxHeight
    /\ pc \in {"down", "commit", "open", "rewind", "rewound", "rewinding",
               "up"}
    /\ next \in 1 .. Len(CommitOrder)
    /\ arg \in Genesis \cup {NULL}
    /\ running \in IF pc \in {"down", "commit"} THEN {NULL} ELSE Configs
    /\ result \in [outcome : {"ok", "compat", "no_config", "mismatch",
                              "missing_head", "panic"},
                   matched : BOOLEAN] \cup {NULL}
    /\ crashes \in 0 .. MaxCrashes
    /\ swallowed \in BOOLEAN

\* A node that is up has a complete database, whatever crashes and repairs
\* came before: a canonical genesis hash, both head hashes naming the last
\* block of the chain, and as stored configuration the one the node runs
\* with.  It is what the repair branch of setupFastGenesisBlock and the
\* rewind in New are for.
UpImpliesDatabaseComplete ==
    pc = "up" =>
        /\ stored # NULL
        /\ db.headBlock = Len(chain)
        /\ db.headHeader = Len(chain)
        /\ storedcfg = running

\* The node never opens the chain of one genesis block with the argument of
\* another: past set-up, the genesis it was given is the stored one.
RunsTheStoredGenesis ==
    (pc \in {"open", "rewind", "rewound", "rewinding", "up"} /\ arg # NULL)
        => GenesisHash(arg) = stored

\* The genesis block the database names as canonical is in the database with
\* its state, whatever crash or panic ended the commit: ToFastBlock commits
\* the state before CommitFast writes the block, and the canonical hash
\* after both.  NewBlockChain opens the state of the block it finds.
StoredGenesisHasItsState ==
    stored # NULL => stored \in db.block /\ stored.header.root \in db.state

\* Every member of the committee in the canonical genesis block has its
\* stake in the state of that block: the node does not proceed with a
\* committee the ledger did not take.  ToFastBlock only logs what the ledger
\* refuses, and commits the state and the block without it.
GenesisCommitteeIsStaked ==
    stored # NULL =>
        \A m \in Range(stored.members) : m.coinbase \in stored.header.root.staked

\* Every block of the chain obeys the stored configuration: it was produced
\* with the fork active exactly if the configuration has the fork at or
\* below its number.  SetupGenesisBlock promises it by returning the
\* compatibility error, and New by rewinding before it writes; the promise
\* is void once the error was swallowed above block zero.
ChainObeysStoredConfig ==
    (stored # NULL /\ storedcfg # NULL /\ ~swallowed) =>
        \A n \in DOMAIN chain : chain[n] = IsForked(storedcfg, n)

\* The comment on SetupGenesisBlock: compatibility errors are returned to
\* the caller unless the chain is at block zero, so the chain obeys the
\* stored configuration at all times.
ChainAlwaysObeysStoredConfig ==
    (stored # NULL /\ storedcfg # NULL) =>
        \A n \in DOMAIN chain : chain[n] = IsForked(storedcfg, n)

\* The table in the comment on SetupGenesisBlock: with a genesis block in
\* the database, and no argument or that block as argument, set-up uses it;
\* it ends well or with a compatibility error.
MatchingGenesisIsAccepted ==
    (result # NULL /\ result.matched) => result.outcome \in {"ok", "compat"}

=============================================================================
