---------------------------- MODULE NodeLifecycle ----------------------------
(***************************************************************************)
(* The life of one Pistchain service: New, AddLesServer, Start and Stop of *)
(* pist/backend.go, with every return New and Start have.                  *)
(*                                                                         *)
(* The node calls them one after the other and never two at a time.  New   *)
(* and Start are one step each.  Stop takes its parts down one after the   *)
(* other while the goroutines of the others go on, so every call it makes  *)
(* is a step.  Of the goroutines the bloom handlers take a step of their   *)
(* own, when they see the shutdown channel closed.                         *)
(*                                                                         *)
(* A part of the service is "nil" (the field is not set), "made"           *)
(* (constructed, nothing running), "on" (open, or its goroutines running)  *)
(* or "off" (stopped or closed).                                           *)
(***************************************************************************)
EXTENDS Naturals, Sequences, SequencesExt

CONSTANTS
    BlockChainVersion,  \* core.BlockChainVersion
    Versions            \* the versions a database may carry; 0 for none

ASSUME
    /\ BlockChainVersion \in Versions \ {0}
    /\ Versions \subseteq Nat /\ 0 \in Versions

VARIABLES
    part,       \* the state of every part of the service
    phase,      \* "none", "refused" (New failed), "made" (New returned the
                \* service), "failed" (Start returned an error), "started",
                \* "stopping" (in Stop) or "stopped"
    stopAt,     \* in Stop: the calls of StopOrder that have returned
    shutdown,   \* shutdownChan is closed
    lesStarts,  \* calls of lesServer.Start
    dbVersion,  \* the version stored in the database; it outlives the process
    config      \* what of pist.Config decides a return: the sync mode,
                \* SkipBcVersionCheck, and whether CommitteeKey is a key

vars == <<part, phase, stopAt, shutdown, lesStarts, dbVersion, config>>

SyncModes == {"full", "fast", "light", "invalid"}

Configs == [syncMode : SyncModes, skipBcVersionCheck : BOOLEAN, keyOk : BOOLEAN]

Parts ==
    {"chainDb", "engine", "bloomIndexer", "blockchain", "txPool", "election",
     "agent", "protocolManager", "lesServer", "pbftServer", "bloomHandlers",
     "eventMux"}

\* Before New: only the node's event mux is there.
NoService == [p \in Parts |-> IF p = "eventMux" THEN "on" ELSE "nil"]

Set(f, p, to) == [f EXCEPT ![p] = to]

\* Like Set, for a field that may be nil.
SetIfPresent(f, p, to) == IF f[p] = "nil" THEN f ELSE Set(f, p, to)

-----------------------------------------------------------------------------
(* New *)

\* What New constructs and starts, in its order: CreateDB, the engine and
\* the bloom indexer of the struct literal, NewBlockChain,
\* bloomIndexer.Start, NewTxPool, NewElection, NewPbftAgent,
\* NewProtocolManager.
NewOrder ==
    << <<"chainDb", "on">>, <<"engine", "made">>, <<"bloomIndexer", "made">>,
       <<"blockchain", "on">>, <<"bloomIndexer", "on">>, <<"txPool", "on">>,
       <<"election", "made">>, <<"agent", "made">>,
       <<"protocolManager", "made">> >>

\* The parts after the first k of these.
Built(k) ==
    FoldLeft(LAMBDA f, s : Set(f, s[1], s[2]), NoService, SubSeq(NewOrder, 1, k))

\* New goes on to open the database: the sync mode is neither light nor
\* invalid.
SyncModeOk == config.syncMode \in {"full", "fast"}

\* The check is not skipped and ReadDatabaseVersion finds another version
\* than this program's.
VersionMismatch ==
    ~config.skipBcVersionCheck /\ dbVersion \notin {0, BlockChainVersion}

\* The version in the database when the check is passed: stamped unless the
\* check is skipped.
Stamped == IF config.skipBcVersionCheck THEN dbVersion ELSE BlockChainVersion

\* New returns an error with k of its parts built; none is taken down.
NewReturnsError(k) ==
    /\ phase = "none"
    /\ part' = Built(k)
    /\ phase' = "refused"
    /\ UNCHANGED <<stopAt, shutdown, lesStarts, config>>

\* Light or invalid sync mode.
NewRefusesSyncMode ==
    /\ ~SyncModeOk
    /\ NewReturnsError(0)
    /\ UNCHANGED dbVersion

\* The database cannot be opened.
NewFailsDatabase ==
    /\ SyncModeOk
    /\ NewReturnsError(0)
    /\ UNCHANGED dbVersion

\* SetupGenesisBlock returns an error that is no ConfigCompatError.
NewFailsGenesis ==
    /\ SyncModeOk
    /\ NewReturnsError(1)
    /\ UNCHANGED dbVersion

\* The database is of another version.
NewFailsVersion ==
    /\ SyncModeOk
    /\ VersionMismatch
    /\ NewReturnsError(3)
    /\ UNCHANGED dbVersion

NewFailsBlockChain ==
    /\ SyncModeOk
    /\ ~VersionMismatch
    /\ NewReturnsError(3)
    /\ dbVersion' = Stamped

NewFailsProtocolManager ==
    /\ SyncModeOk
    /\ ~VersionMismatch
    /\ NewReturnsError(8)
    /\ dbVersion' = Stamped

NewReturnsService ==
    /\ phase = "none"
    /\ SyncModeOk
    /\ ~VersionMismatch
    /\ dbVersion' = Stamped
    /\ part' = Built(Len(NewOrder))
    /\ phase' = "made"
    /\ UNCHANGED <<stopAt, shutdown, lesStarts, config>>

\* The light server's constructor hands it to the service before Start.
AddLesServer ==
    /\ phase = "made"
    /\ part["lesServer"] = "nil"
    /\ part' = Set(part, "lesServer", "made")
    /\ UNCHANGED <<phase, stopAt, shutdown, lesStarts, dbVersion, config>>

-----------------------------------------------------------------------------
(* Start *)

\* A variant of HasLes for a Start that does not test the field.
HasLesUntested == TRUE

\* s.lesServer != nil
HasLes == part["lesServer"] # "nil"

\* Start up to the call of startPbftServer: the bloom handlers, the
\* protocol manager, and the light server if there is one.
Networked ==
    SetIfPresent(Set(Set(part, "bloomHandlers", "on"), "protocolManager", "on"),
                 "lesServer", "on")

\* startPbftServer fails before it sets s.pbftServer: the key is no ECDSA
\* key, or NewNode fails.  Start returns an error.
StartFailsNoServer ==
    /\ phase = "made"
    /\ part' = Networked
    /\ lesStarts' = lesStarts + (IF HasLes THEN 1 ELSE 0)
    /\ phase' = "failed"
    /\ UNCHANGED <<stopAt, shutdown, dbVersion, config>>

\* A variant of StartReturnsNil that goes on without a server.
StartWithoutServer(up) ==
    /\ phase = "made"
    /\ part' = Set(Set(Networked, "agent", "on"), "election", "on")
    /\ lesStarts' = lesStarts + (IF HasLes THEN 2 ELSE 0)
    /\ phase' = "started"
    /\ UNCHANGED <<stopAt, shutdown, dbVersion, config>>

\* startPbftServer sets s.pbftServer and starts the node, which succeeds
\* (up) or not; Start does not look at the result.  The agent is given the
\* server and started, then the election, then the light server once more.
StartReturnsNil(up) ==
    /\ phase = "made"
    /\ config.keyOk
    /\ part' = Set(Set(Set(Networked, "pbftServer", IF up THEN "on" ELSE "made"),
                       "agent", "on"),
                   "election", "on")
    /\ lesStarts' = lesStarts + (IF HasLes THEN 2 ELSE 0)
    /\ phase' = "started"
    /\ UNCHANGED <<stopAt, shutdown, dbVersion, config>>

-----------------------------------------------------------------------------
(* Stop *)

\* A variant of StopOrder that closes the database with the chain.
StopOrderDatabaseEarly ==
    <<"pbftServer", "bloomIndexer", "blockchain", "chainDb", "protocolManager",
      "lesServer", "txPool", "eventMux">>

\* What Stop stops, in its order; the server and the light server only if
\* the field is set.
StopOrder ==
    <<"pbftServer", "bloomIndexer", "blockchain", "protocolManager",
      "lesServer", "txPool", "eventMux", "chainDb">>

\* The next call of Stop returns: a part is stopped or closed.
StopNext ==
    /\ phase \in {"started", "stopping"}
    /\ stopAt < Len(StopOrder)
    /\ part' = SetIfPresent(part, StopOrder[stopAt + 1], "off")
    /\ stopAt' = stopAt + 1
    /\ phase' = "stopping"
    /\ UNCHANGED <<shutdown, lesStarts, dbVersion, config>>

\* close(s.shutdownChan), and Stop returns.
StopReturns ==
    /\ phase = "stopping"
    /\ stopAt = Len(StopOrder)
    /\ shutdown' = TRUE
    /\ stopAt' = 0
    /\ phase' = "stopped"
    /\ UNCHANGED <<part, lesStarts, dbVersion, config>>

\* The bloom handler goroutines return when they find shutdownChan closed.
HandlersExit ==
    /\ shutdown
    /\ part["bloomHandlers"] = "on"
    /\ part' = Set(part, "bloomHandlers", "off")
    /\ UNCHANGED <<phase, stopAt, shutdown, lesStarts, dbVersion, config>>

\* The process ends, with or without a service.  The database keeps its
\* version; the next process may be given another configuration.
ProcessExit ==
    /\ phase \in {"refused", "failed", "stopped"}
    /\ part' = NoService
    /\ phase' = "none"
    /\ stopAt' = 0
    /\ shutdown' = FALSE
    /\ lesStarts' = 0
    /\ config' \in Configs
    /\ UNCHANGED dbVersion

Init ==
    /\ part = NoService
    /\ phase = "none"
    /\ stopAt = 0
    /\ shutdown = FALSE
    /\ lesStarts = 0
    /\ dbVersion \in Versions
    /\ config \in Configs

Next ==
    \/ NewRefusesSyncMode
    \/ NewFailsDatabase
    \/ NewFailsGenesis
    \/ NewFailsVersion
    \/ NewFailsBlockChain
    \/ NewFailsProtocolManager
    \/ NewReturnsService
    \/ AddLesServer
    \/ StartFailsNoServer
    \/ \E up \in BOOLEAN : StartReturnsNil(up)
    \/ StopNext
    \/ StopReturns
    \/ HandlersExit
    \/ ProcessExit

Spec == Init /\ [][Next]_vars

-----------------------------------------------------------------------------
(* Properties *)

TypeOK ==
    /\ part \in [Parts -> {"nil", "made", "on", "off"}]
    /\ phase \in {"none", "refused", "made", "failed", "started", "stopping",
                 "stopped"}
    /\ stopAt \in 0 .. Len(StopOrder)
    /\ shutdown \in BOOLEAN
    /\ lesStarts \in IF part["lesServer"] = "nil" THEN {0} ELSE 0 .. 2
    /\ dbVersion \in Versions
    /\ config \in Configs

\* What runs has what it was built on: the agent is started only with its
\* consensus server set, the protocol manager only over a chain and a
\* transaction pool, and all of them only on an open database, from New
\* until Stop is called.  It is the nil test of Start, and the order of
\* New, that make it so.
RunsOnWhatItNeeds ==
    phase \notin {"stopping", "stopped"} =>
        /\ part["agent"] = "on" =>
               part["pbftServer"] # "nil" /\ part["election"] # "nil"
        /\ part["protocolManager"] # "nil" =>
               part["blockchain"] = "on" /\ part["txPool"] = "on"
        /\ \A p \in Parts \ {"chainDb", "eventMux"} :
               part[p] # "nil" => part["chainDb"] = "on"

\* Stop closes the database under nothing it has still to stop: at every
\* moment of Stop, with or without a light server and with a consensus
\* server that runs or failed to, each part Stop is to stop is off when
\* the database is closed.  The goroutines of those parts write the
\* database until their Stop returns.
DatabaseClosedAfterItsUsers ==
    part["chainDb"] = "off" =>
        \A p \in ToSet(StopOrder) : part[p] # "on"

\* The comment on Stop: it terminates all internal goroutines of the
\* service.  After Stop, and once the handlers have seen the channel,
\* nothing of the service is running.
StopTerminatesEverything ==
    (phase = "stopped" /\ part["bloomHandlers"] # "on") =>
        \A p \in Parts : part[p] # "on"

=============================================================================
