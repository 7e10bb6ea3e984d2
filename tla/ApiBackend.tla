----------------------------- MODULE ApiBackend -----------------------------
(***************************************************************************)
(* The backend of the RPC interface: TrueAPIBackend of                     *)
(* pist/api_backend.go, as far as it reads and rewinds the fast chain.     *)
(*                                                                         *)
(* RPC calls run in goroutines of their own, beside each other and beside  *)
(* the downloader that inserts blocks.  A method that asks the chain twice *)
(* is two steps, and the chain may have changed between them.              *)
(*                                                                         *)
(* A block is [number, cycle]: its number and the sync cycle of the        *)
(* downloader that inserted it.  A header and a state are modelled by the  *)
(* block they belong to, and so is a hash.  The database holds the blocks  *)
(* of the canonical chain: what SetHead removes is gone from it.           *)
(***************************************************************************)
EXTENDS Integers, Sequences, SequencesExt

CONSTANTS
    Clients,    \* goroutines that serve RPC calls
    UintBits,   \* the width of uint64, smaller in the model
    MaxHeight,  \* model bound: the highest block number
    MaxCycles,  \* model bound: sync cycles
    NULL        \* Go's nil

\* rpc.PendingBlockNumber, rpc.LatestBlockNumber, rpc.EarliestBlockNumber
PendingBlockNumber == -2
LatestBlockNumber == -1
EarliestBlockNumber == 0

ASSUME
    /\ MaxHeight \in Nat /\ MaxCycles \in Nat
    /\ UintBits \in Nat /\ 2 ^ UintBits - 2 > MaxHeight

VARIABLES
    chain,    \* the canonical fast chain: chain[n + 1] is block number n
    cycle,    \* sync cycles started so far
    syncing,  \* a sync cycle is running
    call,     \* per client: the call it is in the middle of, or NULL
    last,     \* the last StateAndHeaderByNumber, GetReceipts or GetLogs that
              \* returned: its argument and results
    rewound   \* history: the last SetHead that returned, with the sync
              \* cycle that was the latest when it was called

vars == <<chain, cycle, syncing, call, last, rewound>>

Block == [number : 0 .. MaxHeight, cycle : 0 .. MaxCycles]

GenesisBlock == [number |-> 0, cycle |-> 0]

\* The arguments the RPC layer passes: pending, latest, earliest and
\* numbers up to one past the bound.
BlockNumbers == PendingBlockNumber .. MaxHeight + 1

-----------------------------------------------------------------------------
(* The chain, as the backend calls it *)

\* uint64(blockNr)
ToUint64(n) == n % (2 ^ UintBits)

\* blockchain.CurrentBlock()
CurrentBlock == chain[Len(chain)]

\* blockchain.GetHeaderByNumber, GetBlockByNumber
GetByNumber(n) == IF n < Len(chain) THEN chain[n + 1] ELSE NULL

\* What HeaderByHash returns: blockchain.GetHeaderByHash
HeaderByHash(hash) == IF hash \in ToSet(chain) THEN hash ELSE NULL

\* What GetBlock returns: blockchain.GetBlockByHash
GetBlock(hash) == HeaderByHash(hash)

\* blockchain.SetHead: the blocks above the number are removed.
Rewind(c, number) == SubSeq(c, 1, IF number + 1 < Len(c) THEN number + 1 ELSE Len(c))

-----------------------------------------------------------------------------
(* Look-ups *)

\* What HeaderByNumber returns.
HeaderFor(blockNr) ==
    IF blockNr = LatestBlockNumber
        THEN CurrentBlock
        ELSE GetByNumber(ToUint64(blockNr))

\* What BlockByNumber returns.
BlockFor(blockNr) ==
    IF blockNr \in {PendingBlockNumber, LatestBlockNumber}
        THEN CurrentBlock
        ELSE GetByNumber(ToUint64(blockNr))

\* What GetChainRewardContent and GetStateChangeByFastNumber ask the chain
\* for: the number is converted whatever it is.
InfosFor(blockNr) == ToUint64(blockNr)

\* The committee GetCommittee asks the election for, the agent being at
\* committee number current: number.Int64() keeps the sign.
CommitteeFor(number, current) ==
    IF number = LatestBlockNumber THEN current ELSE number

-----------------------------------------------------------------------------
(* StateAndHeaderByNumber *)

Returned(blockNr, header, state) ==
    [op |-> "state", nr |-> blockNr, header |-> header, state |-> state]

\* StateAndHeaderByNumber, pending: blockchain.State() is called.
PendingState(c) ==
    /\ call[c] = NULL
    /\ call' = [call EXCEPT ![c] = [op |-> "pending", state |-> CurrentBlock]]
    /\ UNCHANGED <<chain, cycle, syncing, last, rewound>>

\* StateAndHeaderByNumber, pending: blockchain.CurrentBlock() is called, and
\* the state and this block's header are returned.
PendingHeader(c) ==
    /\ call[c] # NULL /\ call[c].op = "pending"
    /\ last' = Returned(PendingBlockNumber, CurrentBlock, call[c].state)
    /\ call' = [call EXCEPT ![c] = NULL]
    /\ UNCHANGED <<chain, cycle, syncing, rewound>>

\* A variant of NumberedHeader that goes on without a header.
NumberedHeaderUnchecked(c, blockNr) ==
    /\ call[c] = NULL
    /\ blockNr # PendingBlockNumber
    /\ call' = [call EXCEPT ![c] = [op |-> "numbered", nr |-> blockNr,
                                    header |-> HeaderFor(blockNr)]]
    /\ UNCHANGED <<chain, cycle, syncing, last, rewound>>

\* StateAndHeaderByNumber, any other number: the header is looked up; if
\* there is none the call returns nothing.
NumberedHeader(c, blockNr) ==
    /\ call[c] = NULL
    /\ blockNr # PendingBlockNumber
    /\ IF HeaderFor(blockNr) = NULL
           THEN /\ last' = Returned(blockNr, NULL, NULL)
                /\ UNCHANGED call
           ELSE /\ call' = [call EXCEPT ![c] =
                               [op |-> "numbered", nr |-> blockNr,
                                header |-> HeaderFor(blockNr)]]
                /\ UNCHANGED last
    /\ UNCHANGED <<chain, cycle, syncing, rewound>>

\* blockchain.StateAt(header.Root): the state of that root, or nil and an
\* error when the state database cannot open it.
StateAt(header) == {header, NULL}

\* StateAndHeaderByNumber, any other number: the state at the header's root
\* is opened, and what StateAt returns is returned with the header, also
\* when it is no state.
NumberedState(c) ==
    /\ call[c] # NULL /\ call[c].op = "numbered"
    /\ \E state \in StateAt(call[c].header) :
           last' = Returned(call[c].nr, call[c].header, state)
    /\ call' = [call EXCEPT ![c] = NULL]
    /\ UNCHANGED <<chain, cycle, syncing, rewound>>

-----------------------------------------------------------------------------
(* GetReceipts and GetLogs *)

Methods == {"GetReceipts", "GetLogs"}

Receipts(block) == <<"receipts", block>>

\* The logs of each receipt, in the order of the receipts.
Logs(receipts) == <<"logs", receipts[2]>>

\* rawdb.ReadHeaderNumber: the number stored for the hash, if any.
ReadHeaderNumber(hash) == IF hash \in ToSet(chain) THEN hash.number ELSE NULL

\* A variant of ReadReceipts that reads the canonical block of the number.
ReadReceiptsCanonical(hash, number) ==
    IF GetByNumber(number) # NULL THEN Receipts(GetByNumber(number)) ELSE NULL

\* rawdb.ReadReceipts: the receipts stored under the number and the hash.
ReadReceipts(hash, number) ==
    IF GetByNumber(number) = hash THEN Receipts(hash) ELSE NULL

Answered(hash, result) == [op |-> "receipts", hash |-> hash, result |-> result]

\* GetReceipts, GetLogs: the number of the header is read; without one
\* the call returns nothing.
ReceiptsNumber(c, method, hash) ==
    /\ call[c] = NULL
    /\ IF ReadHeaderNumber(hash) = NULL
           THEN /\ last' = Answered(hash, NULL)
                /\ UNCHANGED call
           ELSE /\ call' = [call EXCEPT ![c] =
                               [op |-> method, hash |-> hash,
                                number |-> ReadHeaderNumber(hash)]]
                /\ UNCHANGED last
    /\ UNCHANGED <<chain, cycle, syncing, rewound>>

\* GetReceipts, GetLogs: the receipts are read and returned, GetLogs turning
\* them into their logs if there are any.
ReceiptsRead(c) ==
    /\ call[c] # NULL /\ call[c].op \in Methods
    /\ LET receipts == ReadReceipts(call[c].hash, call[c].number)
       IN  last' = Answered(call[c].hash,
                            IF call[c].op = "GetLogs" /\ receipts # NULL
                                THEN Logs(receipts) ELSE receipts)
    /\ call' = [call EXCEPT ![c] = NULL]
    /\ UNCHANGED <<chain, cycle, syncing, rewound>>

-----------------------------------------------------------------------------
(* SetHead *)

\* A variant of SetHeadOrder that rewinds first.
RewindThenCancel == <<"SetHead", "Cancel">>

\* The two calls of SetHead, in their order.
SetHeadOrder == <<"Cancel", "SetHead">>

\* downloader.Cancel() ends the running cycle and returns when its fetchers
\* are gone; blockchain.SetHead(number) rewinds the chain.
Do(what, number) ==
    /\ syncing' = IF what = "Cancel" THEN FALSE ELSE syncing
    /\ chain' = IF what = "SetHead" THEN Rewind(chain, number) ELSE chain

SetHeadFirst(c, number) ==
    /\ call[c] = NULL
    /\ Do(SetHeadOrder[1], number)
    /\ call' = [call EXCEPT ![c] =
                   [op |-> "SetHead", number |-> number, since |-> cycle]]
    /\ UNCHANGED <<cycle, last, rewound>>

SetHeadSecond(c) ==
    /\ call[c] # NULL /\ call[c].op = "SetHead"
    /\ Do(SetHeadOrder[2], call[c].number)
    /\ rewound' = [number |-> call[c].number, since |-> call[c].since]
    /\ call' = [call EXCEPT ![c] = NULL]
    /\ UNCHANGED <<cycle, last>>

-----------------------------------------------------------------------------
(* The downloader *)

\* The protocol manager starts a sync cycle.
SyncStart ==
    /\ ~syncing
    /\ cycle < MaxCycles
    /\ syncing' = TRUE
    /\ cycle' = cycle + 1
    /\ UNCHANGED <<chain, call, last, rewound>>

\* The running cycle inserts the next block.
Insert ==
    /\ syncing
    /\ Len(chain) <= MaxHeight
    /\ chain' = Append(chain, [number |-> Len(chain), cycle |-> cycle])
    /\ UNCHANGED <<cycle, syncing, call, last, rewound>>

\* The cycle ends by itself.
SyncEnd ==
    /\ syncing
    /\ syncing' = FALSE
    /\ UNCHANGED <<chain, cycle, call, last, rewound>>

Init ==
    /\ chain = <<GenesisBlock>>
    /\ cycle = 0
    /\ syncing = FALSE
    /\ call = [c \in Clients |-> NULL]
    /\ last = NULL
    /\ rewound = NULL

Serve(c) ==
    \/ \E blockNr \in BlockNumbers : NumberedHeader(c, blockNr)
    \/ PendingState(c)
    \/ PendingHeader(c)
    \/ NumberedState(c)
    \/ \E method \in Methods, hash \in Block : ReceiptsNumber(c, method, hash)
    \/ ReceiptsRead(c)
    \/ \E number \in 0 .. MaxHeight : SetHeadFirst(c, number)
    \/ SetHeadSecond(c)

Next ==
    \/ \E c \in Clients : Serve(c)
    \/ SyncStart
    \/ Insert
    \/ SyncEnd

Spec == Init /\ [][Next]_vars

-----------------------------------------------------------------------------
(* Properties *)

TypeOK ==
    /\ chain \in Seq(Block) /\ chain # <<>>
    /\ \A i \in DOMAIN chain : chain[i].number = i - 1
    /\ cycle \in 0 .. MaxCycles
    /\ syncing \in BOOLEAN
    /\ \A c \in Clients :
           \/ call[c] = NULL
           \/ call[c] \in [op : {"pending"}, state : Block]
           \/ call[c] \in [op : {"numbered"}, nr : BlockNumbers, header : Block]
           \/ call[c] \in [op : {"SetHead"}, number : 0 .. MaxHeight,
                           since : 0 .. MaxCycles]
           \/ call[c] \in [op : Methods, hash : Block, number : 0 .. MaxHeight]
    /\ \/ last = NULL
       \/ last \in [op : {"state"}, nr : BlockNumbers, header : Block \cup {NULL},
                     state : Block \cup {NULL}]
       \/ last \in [op : {"receipts"}, hash : Block,
                     result : {NULL} \cup ({"receipts", "logs"} \X Block)]
    /\ rewound # NULL =>
           rewound \in [number : 0 .. MaxHeight, since : 0 .. MaxCycles]

IsStateOf(r) == r # NULL /\ r.op = "state"

\* SetHead stops the downloader before it rewinds, so that nothing of the
\* sync that was running when it was called survives above the new head:
\* every block above the number of the last SetHead was inserted by a cycle
\* that started after that call, whatever started and inserted between its
\* two steps.
SetHeadDiscardsOldSync ==
    rewound # NULL =>
        \A i \in DOMAIN chain :
            chain[i].number > rewound.number => chain[i].cycle > rewound.since

\* GetReceipts and GetLogs answer a hash with the receipts, or the logs, of
\* the block with that hash or with nothing, never with those of another
\* block: the number is read first and the receipts afterwards, and between
\* the two reads SetHead may remove the block and a new sync cycle may
\* insert another block of the same number.
ReceiptsAreOfTheBlockAsked ==
    (last # NULL /\ last.op = "receipts" /\ last.result # NULL) =>
        last.result \in {Receipts(last.hash), Logs(Receipts(last.hash))}

\* StateAndHeaderByNumber(pending) returns the state and the header of one
\* block.  The code asks the chain for the state and then for the current
\* block, and a block inserted between the two makes them differ.
PendingStateIsOfItsHeader ==
    (IsStateOf(last) /\ last.nr = PendingBlockNumber) => last.state = last.header

=============================================================================
