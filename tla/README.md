# TLA+ models of pistchain/pist

This directory is the verification development kept beside the Go code of the
pist node. It holds TLA+ modules that model the parts of the node whose
behaviour is hard to test (orders of calls, crashes between database writes,
values at a boundary), the TLC configurations that check them, and
`PROJECT.json`, which ties every definition to the lines it models.

Run a model from this directory:

    tlc -workers 2 -config MCEpochCache.cfg MCEpochCache

## 1. The system

The repository is a hybrid-consensus node: a proof-of-work engine (minerva)
secures an anchor chain, a committee elected from stake runs a BFT agreement
on the fast chain. The sources at hand are the glue of that node; the
agreement rounds, the stake ledger and the real election are described by
`spec.md` only.

| Part | Source | State | Operations | Talks to |
|---|---|---|---|---|
| Epoch dataset cache | `consensus/minerva/minerva.go` 67-124 | LRU list, `future`, `futureItem`, mutex | `newlru`, `get` | verification and sealing goroutines |
| Minerva engine | `minerva.go` 126-274 | mode, `threads`, `update` channel, `shared`, `election` | `New`, fakers, `NewShared`, `SetThreads`, `Threads`, `SetElection` | sealing loop, node service |
| Test election | `minerva.go` 276-361 | seven fixed keys and members | `GetCommittee`, `VerifySigns`, `VerifySwitchInfo`, `FinalizeCommittee`, `GenerateFakeSigns` | engine in fake mode |
| Genesis set-up | `core/genesis.go` 129-241, 375-388 | chain database: canonical hash, head hashes, chain configuration | `SetupGenesisBlock`, `CommitFast`, `configOrDefault` | `pist.New`, database |
| Genesis construction | `core/genesis.go` 245-312, 325-506 | the built-in specifications; state database, stake ledger | `ToFastBlock`, `DefaultGenesisBlock` and the other constructors | stake ledger, election |
| Node service | `pist/backend.go` | the service's parts, shutdown channel, database version | `New`, `AddLesServer`, `Start`, `Stop` | everything above |
| API backend | `pist/api_backend.go` | none of its own | block and header lookup, `SetHead`, `GetReceipts`, `GetLogs`, committee queries | chain, database, downloader, election, agent |
| Metered message stream | `pist/metrics.go` | meters of the process, protocol version | `newMeteredMsgWriter`, `Init`, `ReadMsg`, `WriteMsg` | the p2p stream of a peer |
| Dashboard collector | `dashboard/committee.go` | the answers of a round, the quit channel, the wait group | `collectCommitteeData` | agent, dashboard clients, whoever stops the dashboard |
| Vote JSON codec | `core/types/gen_pbftSign_json.go` | the vote decoded into | `MarshalJSON`, `UnmarshalJSON` | whoever sends and receives votes |
| BFT agreement engine | `consensus/tbft/**` (codec registration); the rounds in `spec.md` 4.4 | per member: step, round, decision; the votes | propose, prevote, precommit, commit, round timeout | committee members, election |
| Stake ledger and election | called at `core/genesis.go` 262-284 and in `core/vm/staking_test.go`; its rules in `spec.md` 3, 4.2, 4.3 | stake records, the election of every epoch, the active committee; what was last saved | `InsertSAccount2`, withdrawal, `DoElections`, `Shift` behind `finalizeCommittee`, `Save`, `Load` | genesis construction, block execution, agreement engine |
| Boot nodes, key generator | `params/bootnodes.go`, `cmd/genKey` | none | none that changes state | |

What makes these parts hard:

* the cache is called from several goroutines in any order of epochs, has a
  slot that must stay ahead of the highest epoch, and a ceiling where it
  cannot;
* the genesis is committed with eight separate database writes and the
  process can die after each; the next start must tell a fresh database from
  a half-written one, a matching genesis from a foreign one, a compatible
  configuration from one that needs a rewind;
* the node service is built and started part by part, any of which can fail,
  and is stopped in another order than it was started;
* every engine made by `NewShared` delegates to one process-wide engine and
  takes its mutex while holding its own;
* votes reach `VerifySigns` from the network, as JSON whose decoder copies
  only the fields that are there;
* RPC calls read the chain in several steps while the downloader inserts
  blocks and another call rewinds it;
* `ToFastBlock` commits the genesis state before the loop that can panic, and
  only logs what the stake ledger refuses;
* the two ends of a connection count the same messages on meters of their
  own, before the write and after the read;
* the members of the committee vote in rounds whose timers elapse while
  votes are on their way, next to members that send whatever they like;
* the stake ledger is changed by deposits, withdrawals, elections and
  committee transitions in any order over many heights, and is loaded again
  without what was done since it was last saved;
* the dashboard asks the agent five questions in a row while the agent moves
  on, and must answer a stop between any two rounds.

## 2. Modules

### EpochCache

Models `lru` and `lru.get`. Variables `cache` (the simplelru list, most
recently used first), `future`, `futureItem` are the fields of the struct;
`built` counts calls of `lru.new`; `last`, `highest` and `handed` are history
variables the properties read. An artifact is `[epoch, id]`, where `id` is the
serial number of the `lru.new` call: it stands for the identity of the Go
object, so that "the same item" can be told from "an equal item".

`Get(e)` is the whole of `get` in one step, which is exact: `get` holds
`lru.mu` from its first line to its return. Concurrent callers are therefore
an arbitrary sequence of `Get` steps, and `Next` allows every epoch at every
step. `simplelru.LRU` is not in the repository; `LruGet` and `LruAdd` model
its documented behaviour (a hit moves the entry to the front, an insertion
into a full list removes the oldest).

`Contract` instantiates `DatasetCache` with `kept <- handed` and
`answer <- last`: the entries the implementation holds in its list and in
its future slot are the artifacts the contract keeps.

### DatasetCache

The cache as `spec.md` describes it, without list or slot: `kept` maps an
epoch to the artifact held for it, `answer` is the result of the last
request. `Get(e)` answers with the artifact kept for `e` or a new one,
optionally with one of `e+1`, and keeps at most `Capacity` artifacts
(`KeptAfter`). Which ones are dropped is left open; that is the
implementation's choice.

### GenesisBlock

The genesis specifications and `ToFastBlock` as operators. A specification
is a record of the fields `ToFastBlock` reads; the four built-in ones carry
the values of the constructors that tell them apart (configuration, gas
limit, difficulty, extra data, time stamp, the accounts of the allocation,
the keys and seats of the committee). Addresses, keys and balances are
names.

A hash is modelled by what is hashed. `StateRoot(g)` is the state
`ToFastBlock` commits: the allocation, the members the ledger staked and, on the
main net, the locked stakes. `Staked(g)` leaves out the members whose deposit
`InsertSAccount2` refuses: the error is logged and the loop goes on. Which
deposits the ledger refuses is the constant `Refused`, since `ToFastBlock`
does not ask why. `Header(g)` has the fields of
the header with `GenesisGasLimit` for a gas limit of 0. `Members(g)` is the
committee with the base address the loop sets, and `Panics(g)` says that the
loop meets a key `UnmarshalPubkey` refuses and dereferences the nil it got.
`GenesisHash(g)` is the hash of the block, which set-up compares with the
stored one.

### GenesisSetup

Models `SetupGenesisBlock`/`setupFastGenesisBlock`, `CommitFast`,
`configOrDefault` and the lines of `pist.New` that act on their result.

* `db` is the chain database as far as start-up touches it: the records
  `CommitFast` writes, one field each. It survives `Crash`.
* `chain` is the list of blocks above the genesis block. A block is modelled
  by the rule it was produced under (fork active or not), which is what a
  change of configuration can invalidate.
* `pc`, `next`, `arg`, `running` are the process; `result` records how the
  last attempt ended.

Each return of `setupFastGenesisBlock` is an action of its own
(`RefuseNoConfig`, `BeginCommit`, `RefuseMismatch`, `RepairConfig`,
`KeepStoredConfig`, `FailMissingHead`, `ReturnCompatError`, `UpdateConfig`),
guarded by exactly the conditions that lead to it. `CommitWrite` performs one
write of `CommitFast` per step, in the order of the code, the first being the
state that `ToFastBlock` commits; `CommitPanic` is the nil dereference the
code reaches for a genesis whose number is not 0 or whose committee has a
key that cannot be read, and `HashPanic` the same dereference in the hash
check of a start on a database that has a genesis.
`OpenChain`, `RewindHead` and `RewindWriteConfig` are the steps of `New` after
set-up; `Grow` extends the chain under the running configuration; `Crash`
stops the process anywhere.

A chain configuration is modelled by the block at which its fork activates:
that is all `CheckCompatible` compares. `CheckCompatible`, `SetHead` and the
head repair of `NewBlockChain` are outside the repository and modelled from
their contract (`Incompatible`, `RewindTo`, `SetHead`, `LoadLastState`).

### NodeLifecycle

Models one `Pistchain` service from `New` to `Stop`. `part` maps every field
of the struct that is constructed, started or stopped to `nil`, `made`, `on`
or `off`. `config` holds what of `pist.Config` decides a return (sync mode,
`SkipBcVersionCheck`, whether `CommitteeKey` parses); `dbVersion` is the
version stamp in the database, which outlives the process.

`New` has one action per return (`NewRefusesSyncMode`, `NewFailsDatabase`,
`NewFailsGenesis`, `NewFailsVersion`, `NewFailsBlockChain`,
`NewFailsProtocolManager`, `NewReturnsService`); what is built when it returns
is `Built(k)`, the first `k` entries of `NewOrder`. `Start` has two
(`StartFailsNoServer`, `StartReturnsNil(up)`). The node calls them one after
the other, so each call is a step. `Stop` stops the parts one after another,
and what it has not reached yet is still running: `StopNext` is one call of
`StopOrder` (`stopAt` counts those that have returned, and the phase is
`stopping` meanwhile), `StopReturns` the close of the shutdown channel and
the return. The goroutines the calls leave behind run beside them, and of
those the bloom handlers have a step of their own (`HandlersExit`).

### MinervaEngine

Models the engine's constructors and its thread control. `eng` maps every
engine (the process-wide `sharedMinerva` and those of `Users`) to its fields;
the engines of `Users` start as what any constructor, or
`CreateConsensusEngine` for any mode, returns. `lock` is `Minerva.lock` of
each engine.

`SetThreads` and `Threads` are called by the goroutines of `Callers`, and a
goroutine can be suspended at every `Lock`, so a call is several steps:
`Enter`, `Lock`, the body (`Read`, `Delegate` or `Write`) and `Unlock`.
`frames[c]` is the goroutine's stack of calls: `Delegate` pushes the call of
`SetThreads` on the shared engine while the caller's mutex stays held.
`Write` includes the non-blocking send on `update` (`Delivered`); the sealing
loop that receives is not in the repository and appears as the step
`SealerTurns`. `SetElection` writes its field without the mutex, in one step.

### PbftSignJson and FakeElection

`PbftSignJson` has the two functions of the generated codec as operators. A
JSON object is a function from some of the four field names to values;
`MarshalJSON` writes all four (a nil signature as empty bytes, a nil height
as null), `UnmarshalJSON(p, input)` copies the fields the input has and that
are not null, and leaves `p` alone on a malformed input.

`FakeElection` models `fakeElection`. A key pair is one value; a signature is
`[by, over]`, the key and the fields signed, and `SigToPub` returns `by` only
if `over` is the payload it is asked about. This is what signature recovery
does as far as `VerifySigns` can tell. `Generate` is `GenerateFakeSigns`,
`Verify` is `VerifySigns` on the votes as they are; `verified` keeps the
argument and both results of the last call. Between the two the votes are
with the network: `Deliver(i)` marshals vote `i`, lets the network hand over
that object or one with a field dropped or changed, a signature replaced or
nothing parseable (`Deliverable`), and unmarshals into a new vote or over
one of the votes that are already there, whose fields stay where the input
has none; `Redeliver(i)` appends a second copy.

### ApiBackend

Models `TrueAPIBackend` where it reads and rewinds the fast chain. `chain` is
the canonical chain; a block is `[number, cycle]`, with the sync cycle that
inserted it, and stands for its header and its state as well. The
downloader is outside the repository: `SyncStart`, `Insert` and `SyncEnd`
are its steps, and `downloader.Cancel()` ends the running cycle.

`SetHead` is two steps, in the order `SetHeadOrder` gives
(`SetHeadFirst`, `SetHeadSecond`). `StateAndHeaderByNumber` is two steps on
each path: `PendingState` then `PendingHeader` for pending, `NumberedHeader`
then `NumberedState` for anything else. `StateAt` opens the state at the
root of the header or fails, and `NumberedState` returns what it got: the
state of the header, or nil beside the header. `HeaderByNumber` and `BlockByNumber`
ask the chain once and change nothing; they are the operators `HeaderFor`
and `BlockFor`, with `uint64(blockNr)` as `ToUint64`.

`GetReceipts` and `GetLogs` read the database twice: `ReceiptsNumber` is
`rawdb.ReadHeaderNumber` (and the return of nil for a hash without number),
`ReceiptsRead` is `rawdb.ReadReceipts` under the number read before and, for
`GetLogs`, the loop that takes the logs out of the receipts. A hash is
modelled by its block, and the database holds the blocks of the canonical
chain, so a rewind between the two reads removes what the first one found.
`HeaderByHash`, `GetBlock`, `GetChainRewardContent`,
`GetStateChangeByFastNumber` (`InfosFor`) and `GetCommittee`
(`CommitteeFor`) are operators.

### MeteredStream

Models the wrapper of `metrics.go` at both ends of one connection. `meter[e]`
is the bag of marks of the process at end `e`: a meter is `<<family,
direction, unit>>`, and `Declared` is the set the `var` block declares.
`enabled[e]` is `metrics.Enabled` of that process (where it is off,
`newMeteredMsgWriter` returns the stream unwrapped and nothing is marked).
`wire[e]` is the p2p stream towards `e`, a FIFO queue; `Close` tears the
connection down, after which a read fails (`ReadFails`: the error is
returned before anything is marked) and a write marks its meters and then
fails. `undelivered` and `writes` are history variables.

`Switch` is the table of the two `switch` statements, which name the same
codes; `ReadMeters` and `WriteMeters` give the packets and the traffic meter
each of them chooses, and `WriteMeters` has the one case where the two
differ in direction.

### CommitteeCollector

Models the goroutine `collectCommitteeData`. `pc` is where it is (`select`,
`ask`, `send`, `done`), `snap` its local variables as the sequence of the
answers it has so far, in the order `Asks` of the calls. `Tick` is the timer
case, `Ask` one call to the agent, `SendToAll` the message, `Quit` the quit
case with the answer on the error channel, the return and the deferred
`wg.Done`. The agent (`AgentMoves`: it enters the next committee, or its
role changes) and the stop of the dashboard (`OfferQuit`) are the
environment.

### Tbft

The agreement engine for one height. What the repository has of it
registers message types; the state machine is the one of `spec.md` 4.4, and
every definition of the module is marked as modelled from the
specification.

`step`, `round` and `decided` are the state of each member that is not
faulty; `msgs` is everything broadcast so far. A member acts on the
messages it has observed: `Prevote` on a proposal of its round's leader,
`Precommit` on a quorum of agreeing prevotes for one hash in its round,
`Commit` on a quorum of precommits for one hash, "as soon as quorum is
reached" and therefore in whatever step and round the member is. A message
that is in `msgs` and not acted upon has not arrived; `Timeout` is the round
timer that elapses first. The leader of a round is the member at
`height + round` in round-robin order. The votes of a faulty member are all
in `msgs` from the start (two proposals for its round, votes for every
hash): the others pick up any of them at any moment, which covers every
order in which a faulty member could send them.

### Impawn

The stake ledger and the election that reads it, modelled from `spec.md` 3,
4.2 and 4.3 (every definition is marked as modelled from the
specification); the repository calls the ledger from `ToFastBlock` and from
the staking test. `accounts` is the sequence of stake records in the order
of their first deposit, `elections` what `DoElections` computed for each
epoch, `committee` the active committee with the stake its members were
seated with. `stored` is what `Save` wrote last, and `Load` puts the ledger
back to it: a block's execution works on the loaded ledger and is saved with
the block or dropped. `pending` counts the operations since the last
`Save`.

`Ranked` is the ranking of 4.2 as a fold of `Place`, which inserts a record
before the first one it is ahead of (more stake, or the same stake deposited
earlier); `Elect` takes the first K owners as active members and the next M
as backups. `Rejection` is the list of reasons a withdrawal is refused for.
`FinalizeCommittee` is `verifySwitchInfo` followed by the shift to the next
epoch; `ShiftEpoch` is the shift called by itself, as `ToFastBlock` calls it
after an election whose error it only logged, and the ledger refuses it for
an epoch nobody was elected for. An operation that is refused returns its error and leaves the ledger
as it was.

### Election

What the election promises to those who ask it for a committee (`spec.md`
4.3), without the stake it reads: `elected` holds for every epoch the
committee and the backups elected for it, `active` the epoch and the members
of the active committee, `saved` both as they were persisted last.
`RunElection` puts any result with K distinct members and at most M disjoint
backups in the place of the next epoch, `Finalize` enters the next epoch with
the committee elected for it, `Persist` and `Restore` save and bring back the
two together. `Impawn` instantiates it as `Promise` with
`elected <- elections`, `active <- ActiveOf(Ledger)` (the members as a set),
`saved` the same of `stored`; deposits, withdrawals, the height, a refused
transition and an election without enough candidates are steps the
abstract specification does not see.

## 3. What is checked

| Run | Module, configuration | Expectation | Properties |
|---|---|---|---|
| `cache_safety` | `MCEpochCache`, `MCEpochCache.cfg` | holds | `TypeOK`, `FutureTracksHighestSeen`, `ImplementsDatasetCache` |
| `genesis_recovery` | `MCGenesisSetup`, `MCGenesisSetup.cfg` | holds | `TypeOK`, `UpImpliesDatabaseComplete`, `RunsTheStoredGenesis`, `ChainObeysStoredConfig`, `StoredGenesisHasItsState` |
| `genesis_restart` | `MCGenesisSetup`, `MCGenesisRestart.cfg` | violated | `MatchingGenesisIsAccepted` |
| `node_lifecycle` | `MCNodeLifecycle`, `MCNodeLifecycle.cfg` | holds | `TypeOK`, `RunsOnWhatItNeeds`, `DatabaseClosedAfterItsUsers` |
| `engine_threads` | `MCMinervaEngine`, `MCMinervaEngine.cfg` | holds | `TypeOK`, `ThreadsWrittenUnderLock`, `EveryCallReturns` |
| `election_verify` | `MCFakeElection`, `MCFakeElection.cfg` | holds | `TypeOK`, `MembersAreTheSigners`, `DeliveryKeepsTheVote` |
| `api_chain` | `ApiBackend`, `ApiBackend.cfg` | holds | `TypeOK`, `SetHeadDiscardsOldSync`, `ReceiptsAreOfTheBlockAsked` |
| `api_pending` | `ApiBackend`, `ApiBackendPending.cfg` | violated | `PendingStateIsOfItsHeader` |
| `stream_traffic` | `MeteredStream`, `MeteredStream.cfg` | holds | `TypeOK`, `TrafficIsConserved`, `PacketsAreConservedOutsideGetHead` |
| `ledger_election` | `MCImpawn`, `MCImpawn.cfg` | holds | `TypeOK`, `ElectionSeatsTheHighestStakes`, `OneCommitteePerEpoch`, `SeatedStakeIsKept`, `ImplementsElection` |
| `tbft_round` | `MCTbft`, `MCTbft.cfg` | holds | `TypeOK`, `OneBlockPerRound`, `NoIncorrectCommit`, `EveryMemberCommits` |
| `collector_stop` | `CommitteeCollector`, `CommitteeCollector.cfg` | holds | `TypeOK`, `MessageNeverAheadOfItsCommittee`, `StopIsAnswered` |

Nine more configurations show a disagreement recorded under `findings`;
each checks one property, which TLC finds violated:

| Module, configuration | Property |
|---|---|
| `MCEpochCache`, `MCEpochCacheCeiling.cfg` | `OneLiveItemPerEpoch` |
| `MCGenesisSetup`, `MCGenesisCompat.cfg` | `ChainAlwaysObeysStoredConfig` |
| `MCNodeLifecycle`, `MCNodeLifecycleStop.cfg` | `StopTerminatesEverything` |
| `MCFakeElection`, `MCFakeElectionErrors.cfg` | `UnknownSignerIsReported` |
| `MCTbft`, `MCTbftHeight.cfg` | `OneBlockPerHeight` |
| `MeteredStream`, `MeteredStreamPackets.cfg` | `PacketsAreConserved` |
| `MCImpawn`, `MCImpawnFunded.cfg` | `ActiveSeatIsFunded` |
| `MCGenesisSetup`, `MCGenesisStaked.cfg` | `GenesisCommitteeIsStaked` |
| `CommitteeCollector`, `CommitteeCollectorTorn.cfg` | `MessageIsOfOneMoment` |

### Cache

* `ImplementsDatasetCache` (refinement): every step of `EpochCache` is a
  step of `DatasetCache` under the mapping `kept <- handed`,
  `answer <- last`. So `get(e)` returns an artifact of epoch `e` and, as
  second result, nothing or an artifact of `e+1`, wherever the first came
  from; a second `get(e)` returns the identical object as long as `e` is
  held, also when the first call took it from the future slot; and list and
  slot together never hold more than the contract allows. It depends on
  `future` and `futureItem` staying paired over many calls, on the guard
  `future > 0` for epoch 0, and on the future item entering the list when it
  is handed out.
* `FutureTracksHighestSeen`: below the ceiling the slot is for the highest
  epoch asked for plus one; a request for an old epoch does not move it back.
* `TypeOK` includes that no artifact is ever built for `maxEpoch` or beyond.
* `OneLiveItemPerEpoch` fails. `get(maxEpoch-1)` cannot pre-generate, so
  `future` falls behind; a later `get(maxEpoch-2)` then builds a second
  artifact for `maxEpoch-1` while the first is in the list. The comment on
  the struct says the slot is always for the highest epoch seen plus one.

### Genesis

* `UpImpliesDatabaseComplete`: however many crashes and repairs came before,
  a node that is up has a canonical genesis, both head hashes on the last
  block, and stores the configuration it runs with.
* `RunsTheStoredGenesis`: past set-up, the genesis the node was given is the
  one in the database.
* `StoredGenesisHasItsState`: a database with a canonical genesis hash has
  the block of that hash and the state of its root, whatever crash or panic
  ended the commit. It holds because the state and the block are written
  before the canonical hash; a state without block (a panic after
  `ToFastBlock` committed it) is not taken for a genesis.
* `GenesisCommitteeIsStaked` fails: every member of the canonical genesis
  block's committee should have its stake in that block's state, and
  `ToFastBlock` only logs the error of a deposit the ledger refuses, commits
  the state without it and returns the block with the member in its
  committee. `spec.md` 4.3 says the node must not proceed with an empty or
  under-quorum committee.
* `ChainObeysStoredConfig`: every block was produced under the rule the
  stored configuration prescribes for its number, unless a compatibility
  error was swallowed above block zero (history variable `swallowed`).
* `ChainAlwaysObeysStoredConfig` is the same without the exception, and
  fails without any crash: the code returns the compatibility error only if
  `RewindTo != 0`, and `RewindTo` is 0 when the lower fork is at block 0 or
  1. The comment says errors are returned "unless we're already at block
  zero".
* `MatchingGenesisIsAccepted` fails after two crashes: one in `CommitFast`
  between `WriteCanonicalHash` and `WriteHeadHeaderHash`, one after the
  repair branch has written the configuration and before `NewBlockChain` has
  repaired the heads. From then on every start with the right genesis ends in
  "missing block number for head header hash".

### Node service

* `RunsOnWhatItNeeds`: from `New` until `Stop` is called, the agent runs
  only with a consensus server and an election, the protocol manager only
  over a running chain and pool, and every part only on an open database.
* `DatabaseClosedAfterItsUsers`: at every step of `Stop`, the chain database
  is closed only when none of the parts `Stop` stops is still running. It
  holds because `chainDb.Close()` is the last call before the channel is
  closed; the agent and the election are not among those parts (see
  `StopTerminatesEverything`).
* `TypeOK` includes that `lesServer.Start` is called only on a server that is
  there.
* `StopTerminatesEverything` fails: `Stop` stops neither the agent nor the
  election that `Start` started. The comment on `Stop` says it terminates all
  internal goroutines.

### Engine

* `ThreadsWrittenUnderLock` (an action property): the thread count of an
  engine changes only in a step of the goroutine that holds that engine's
  mutex. For `sharedMinerva` this is about callers that came in through a
  sharing engine and hold that engine's mutex as well.
* `EveryCallReturns` (liveness): every call of `SetThreads` and `Threads`
  returns. With TLC's deadlock check it shows that the two-level locking
  cannot block: the shared engine never calls back into a sharing one.
* `TypeOK` includes that calls nest at most two deep and that a call is
  always on an engine, never on the nil `shared` of an engine that does not
  share.

### Election and votes

* `MembersAreTheSigners`: `VerifySigns` names a member for a vote exactly
  when that member signed the vote as it arrived. A vote with a changed or
  missing field, an outsider's signature or none counts for nobody, in any
  place of the list and next to any other votes, and also when the vote was
  unmarshalled over another one and kept fields of it.
* `DeliveryKeepsTheVote`: for every vote that can be on its way,
  `UnmarshalJSON` of `MarshalJSON` into a new vote gives every field back (a nil signature as
  empty bytes).
* `UnknownSignerIsReported` fails: `VerifySigns` drops the error of
  `SigToPub` and never assigns to `errs`, so a vote that recovers to no
  member has a nil error. `spec.md` asks for a non-nil error in that slot.

### API backend

* `SetHeadDiscardsOldSync`: every block above the number of the last
  `SetHead` was inserted by a sync cycle that started after that call. It
  holds because the downloader is cancelled before the chain is rewound; a
  new cycle may start between the two steps, and only its blocks can be
  above the new head.
* `ReceiptsAreOfTheBlockAsked`: what `GetReceipts` and `GetLogs` return for
  a hash is nothing or the receipts (the logs) of the block with that hash,
  also when the block is rewound away between the two reads and another
  block of its number is inserted. It holds because the second read is by
  number and hash; a read by number alone would return the receipts of the
  other block.
* `PendingStateIsOfItsHeader` fails: on the pending path the state and the
  current block are read in two calls, and a block inserted between them
  gives the state of block n with the header of block n+1.

### Metered stream

* `TrafficIsConserved`: for every family of meters, what one end counted on
  its out-traffic meter is what the peer counted on its in-traffic meter,
  plus the sizes of the messages in flight, plus those of the messages that
  were written and cannot arrive. It depends on the two `switch` statements
  choosing the same family for every code, and accounts for `WriteMsg`
  marking before the write and `ReadMsg` marking nothing on an error.
* `TypeOK` includes that every mark is on a meter the `var` block declares.
* `PacketsAreConservedOutsideGetHead`: the same for the packets meters of
  every family but `get/head`, where a packet counts one whatever its size.
  A case of either `switch` that takes the packets meter of one family with
  the traffic meter of another breaks it.
* `PacketsAreConserved` is the same for all families, and fails: `WriteMsg`
  counts a `GetBlockBodiesMsg` it sends on the in meter of `get/head`.

### Agreement

* `OneBlockPerRound`: in no round do two blocks both get a quorum of
  precommits, although the faulty leader proposes two and the faulty member
  votes for both. Two quorums of `floor(2N/3) + 1` share a member that is not
  faulty, and it precommits once in a round.
* `NoIncorrectCommit`: no member finalizes a block that fails the checks,
  whatever the faulty members propose and vote.
* `EveryMemberCommits` (liveness): every member that is not faulty finalizes.
  A member whose timer took it out of the round in which the others
  finalized learns of it from their precommits.
* `TypeOK` includes that the rounds end at the configured last round.
* `OneBlockPerHeight` fails. It is the first testable property of `spec.md`
  (no two blocks receive a quorum of precommits at a height), and the state
  machine of 4.4 does not give it: nothing binds a member that precommitted
  a block in one round when it votes in the next, so with timers that elapse
  before the precommits arrive two blocks get their quorums in two rounds.
  The specification leaves out a rule (a lock on the precommitted block)
  that an engine needs for it.

### Stake ledger

* `ElectionSeatsTheHighestStakes`: for every ledger the operations reach,
  the ranking holds every record once, nobody in it is behind a smaller
  stake, of two equal stakes the earlier deposit is in front, and the
  committee and the backups are its first K and next M owners. `MCImpawn`
  also evaluates the scenario of `spec.md` 8 (four records, K = 3, M = 1) as
  an assumption.
* `OneCommitteePerEpoch`: the active committee of an epoch is the one the
  ledger elected for it, with K distinct members. A transition that names
  other members, fewer members, or an epoch whose election failed for lack
  of candidates is refused, and so is the shift `ToFastBlock` asks for after
  an election that failed; loading the ledger again never separates a
  committee from its election.
* `SeatedStakeIsKept`: while an owner is active its record holds at least the
  stake it was seated with, at every height, whatever was deposited,
  withdrawn or dropped before.
* `ImplementsElection` (refinement): every step of `Impawn` is a step of
  `Election` under the mapping given above, or leaves the elections, the
  committee and what is stored of them alone. It is what a reader of the
  committee relies on: an election is replaced for the next epoch only, the
  epoch advances by one and to the elected committee, and `Load` never
  brings back the elections without the committee or the committee without
  the elections.
* `TypeOK` includes that no owner has two records and that a record that
  was emptied is gone.
* `ActiveSeatIsFunded` fails: a candidate that was elected and is not seated
  yet is neither locked nor active, withdraws everything, and is seated
  without stake. The specification has no rule for the time between the
  election and the transition.

### Collector

* `MessageNeverAheadOfItsCommittee`: in every message the committee number
  is at most the number of the committee whose members are sent as current,
  and that at most the one sent as alternative. The five answers are not a
  snapshot (the agent can move between any two calls); the order of the calls
  is what keeps a message from naming a committee newer than its members.
* `StopIsAnswered` (liveness): a stop offered on the quit channel is answered
  and the goroutine leaves the wait group, also when a tick is ready at every
  `select`.
* `TypeOK` includes that the wait group never goes below zero.
* `MessageIsOfOneMoment` fails: the five parts of a message are read in five
  calls, the agent enters the next committee between two of them, and the
  message joins the number of one committee with the members of another.

Further disagreements met while modelling are listed under `findings` in
`PROJECT.json`: the nil dereference after a failed `CommitFast`, the nil key `ToFastBlock`
dereferences for a committee key it cannot read, the dropped
error of `startPbftServer`, the second `lesServer.Start`, `Threads` of a
sharing engine, which returns 0 whatever `SetThreads` was given,
`HeaderByNumber(pending)`, which looks up block 2^64-2, and the ranking of
the ledger, which the specification leaves open for records that tie on
amount and deposit height.

Every property of a passing run has a mutant in `PROJECT.json`: a definition
of the model changed the way a plausible bug would change the code (a
dropped guard, a missing write, an off-by-one), under which TLC finds the
property violated. The mutated forms are the definitions commented
"A variant of ...".

## 4. Bounds

| Constant | Value | Why it is enough |
|---|---|---|
| `MaxItems` | 2 | eviction happens on the third distinct epoch |
| `MaxEpoch` | 4 | epochs 0, 1, 2 below the ceiling and 3 at it: a skipped epoch, a return to an old one and the ceiling all occur |
| `MaxBuilds` | 7 | caps `lru.new` calls; every epoch can be built, evicted and rebuilt |
| `Offered` | eight genesis arguments | none (the main net's built-in one is then used); the one of the tests, with one account and no gas limit; the dev net's with the fork at 1, 2 and 3; the main net's without configuration; the test net's numbered 1; the single node's with a key that cannot be read. Every return and every panic of set-up is reached |
| `GenesisGasLimit` | 4712388 | the value of `params`, which the header takes for a specification without gas limit |
| `PosLockDifficulty` | a model value | the main net's difficulty 2^31, which only has to differ from the others |
| `MaxHeight` | 3 | the chain passes every fork block, so both a compatible and an incompatible change occur, with `RewindTo` 0 and above |
| `MaxCrashes` | 2 | one crash in `CommitFast` plus one during the recovery from it |
| `Refused` | the key that cannot be read and one key of the test genesis | a genesis with a member that is not staked, with and without the panic on its key |
| `Versions` | {0, 2, 3} | no version, an older one and the program's own (3) |
| `Callers` | 2 goroutines | one inside the shared engine while the other waits, through a sharing engine or directly |
| `Users` | 1 engine beside `sharedMinerva` | of every constructor in turn; a second sharing engine adds no lock order the first does not have |
| `ThreadCounts` | {0, 2} | with the -1 of `CreateConsensusEngine`: three values to tell writes apart |
| `PriKeys`, `Outsiders` | 3 keys, 1 key | a committee in an order, and a valid signature of a non-member |
| `Blocks` | 2 | a vote can be moved to another block |
| `MaxSigns` | 4 | one vote more than the committee has members |
| `MaxChanges` | 3 | a vote that loses a field, gets another signature and is repeated |
| `Clients` | 2 goroutines | one in the middle of a query while the other rewinds |
| `UintBits` | 4 | `uint64` as 4 bits: pending becomes 14, above every block number of the model, as 2^64-2 is above every real one |
| `MaxHeight` | 2 | a header at 1 or 2 can be rewound away and replaced |
| `MaxCycles` | 2 | the cycle `SetHead` interrupts and the one that starts after it |
| `Ends` | 2 | a connection has two |
| `Codes` | 4 codes | the two requests that share the get/head meters, a reply with meters of its own, and one that falls to misc |
| `Sizes` | {1, 2} | two sizes tell traffic from packets |
| `MaxMsgs` | 3 | caps `WriteMsg` calls: one message read, one in flight when the connection closes and one written after |
| `Committee`, `Faulty` | 4 members, 1 faulty | the smallest committee that tolerates a faulty member; quorum 3 |
| `Blocks`, `Valid` | 3 hashes, 2 valid | two blocks to disagree on and one that fails the checks |
| `Height`, `MaxRound` | 4, 1 | the faulty member leads round 0 and another one round 1: a round without a usable proposal, a timeout and a round after it |
| `Owners` | 3, symmetric | two seats and one backup: an owner is elected, seated, a backup, or left out |
| `Amounts`, `MaxStake` | {1}, 2 | stakes of 1 and 2: records that tie and records that do not |
| `CommitteeSize`, `BackupSize` | 2, 1 | an election with too few candidates (one record), with exactly the seats, and with a backup |
| `LockPeriod`, `MaxHeight` (ledger) | 1, 1 | a deposit at height 0 is locked there and free at height 1; one at height 1 stays locked |
| `MaxEpoch` (ledger) | 2 | a first committee and the transition from it to the next |
| `MaxPending` | 2 | two operations dropped or saved together: a withdrawal and the transition after it, an election and the transition |
| `MaxCommittee` | 3 | the agent can move between every two of the three numbered calls of a round |

The configurations of the findings take the bounds of the run of their
module, but for `MCGenesisCompat.cfg`, which sets `MaxCrashes = 0` to show
that its counterexample needs no crash.

## 5. Fairness

`MinervaEngine` assumes, for every goroutine, weak fairness of the steps
inside a call (a running goroutine goes on) and strong fairness of `Lock`: a
mutex that is free again and again is eventually given to a goroutine that
waits for it. `sync.Mutex` guarantees this since it hands the lock to a
waiter that has waited for more than a millisecond. Nothing is assumed about
a goroutine making a call.

`CommitteeCollector` assumes weak fairness of the collector's steps (the
goroutine is scheduled) and strong fairness of `Quit`. The quit case is
ready only while the goroutine is at the `select`, and it leaves the
`select` with every tick, so weak fairness would not do. Strong fairness is
what `select` gives: among the ready cases Go picks one at random, so a quit
case that is ready at infinitely many selects is taken. Nothing is assumed
about the agent or about a stop being requested.

`Tbft` assumes, for every member that is not faulty, weak fairness of its
steps (a message that was sent arrives, and the member acts on it) and weak
fairness of `Timeout` (a timer that runs elapses). The timer of the last
round does not elapse in the model, which stands for the escalation of the
timeouts reaching a duration in which the messages arrive. Nothing is
assumed of the faulty members.

The other modules, `NodeLifecycle` among them, have no liveness property
and no fairness.

## 6. Not modelled

* The ledger inside `ToFastBlock`: `GenesisBlock` keeps what the block
  depends on (`Staked`, `Locked`), and `Impawn` models the ledger by itself.
  The two are not composed: the genesis has seven members, and the ledger's
  model is checked with three owners. The ledger `ToFastBlock` saves (a
  deposit of every member at one height, the election of epoch 1, the shift
  to it) is a state the ledger's model reaches from the empty ledger by the
  same operations.
* That the member loop of `ToFastBlock` writes the members of the
  specification in place, which a second call on the same specification
  sees: `Members` returns new values.
* The JSON helpers of the genesis (`storageJSON`, the generated marshalling),
  `decodePrealloc` and `MustFastCommit`: conversions that change no state of
  the node.
* The registry behind the meters and the dashboard's `sendToAll`: outside the
  repository; a mark and a message are what the models keep of them.
* Of the stake ledger: the lock bonus of a deposit, delegated stake and the
  rewards; the specification names them without rules. The agent is not in
  the repository, and `spec.md` 4.5 describes it as calls to the election and
  the engine without a state of its own.
* `Tbft` counting its votes through `VerifySigns`: a vote of the engine
  belongs to a round and a step, a `PbftSign` carries neither, and the code
  that makes one of the other is not in the repository.
* Of the agreement engine: the durations of the timers and their backoff
  (the model has no time), and the succession of heights (an instance owns
  its votes and discards them on commit).
* A composition of `NodeLifecycle`, `MinervaEngine` and `EpochCache`: the
  service holds the engine and calls none of the operations the two modules
  model, so the product would add states and no interaction.
* The logging helper `check_error.go`: a function of its arguments, with
  nothing that a second actor or an earlier step could change.
* Codec registration, boot nodes, the declarations of the downloader's
  meters and the key generator: no state changes.
* The methods of the API backend that pass one call on to the transaction
  pool, the event feeds, the gas price oracle, the bloom indexer or the
  node: what they return is decided outside the repository.
* The sealing loop and the proof-of-work verification of the engine: not in
  the repository. `SealerTurns` stands for the loop's receive on `update`.
* Crashes inside `SetHead` and inside the insertion of a block: both are
  steps of code outside the repository.

## 7. Plan

Modules are added in the order of what the node depends on most:

1. `EpochCache`, `GenesisSetup`, `NodeLifecycle` (done).
2. `MinervaEngine` (done).
3. `PbftSignJson`, `FakeElection` (done). The quorum rule
   `floor(2N/3) + 1` is left to `Tbft`, where votes are counted.
4. `GenesisBlock`: the specifications and `ToFastBlock` (done).
5. `Tbft`: the round state machine of `spec.md` (done). An abstract
   one-block-per-height specification and the refinement to it wait for the
   rule the specification leaves out (see `OneBlockPerHeight`).
6. `ApiBackend` (done).
7. `MeteredStream`, `CommitteeCollector` (done).
8. `DatasetCache` and the refinement of `EpochCache` (done).
9. `Impawn`: the stake ledger and the election by stake of `spec.md`
   (done), and the two reads of `GetReceipts` and `GetLogs` (done).
10. `Election`, the abstract specification of the committee election, and
    the refinement of `Impawn` to it; the packets meters of the stream
    (done).

Next: the succession of heights in `Tbft` once the specification says what
binds a member between rounds, and the ledger's lock bonus and delegation
once it gives their rules.
`GenesisSetup` extends `GenesisBlock`, so set-up runs on the blocks
`ToFastBlock` makes.
