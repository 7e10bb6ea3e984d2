--------------------------- MODULE MeteredStream ---------------------------
(***************************************************************************)
(* The metered message stream of src/pist/metrics.go: a wrapper around the *)
(* p2p stream of one connection that marks a packets meter and a traffic   *)
(* meter for every message read or written.  The meters are variables of   *)
(* the process, so each end of the connection has its own.  The p2p stream *)
(* itself is the environment: a FIFO queue per direction that delivers,    *)
(* or fails once the connection is closed.                                 *)
(***************************************************************************)
EXTENDS Integers, Sequences, FiniteSets, Bags, Functions, TLC

CONSTANTS Ends,      \* the two ends of the connection
          Codes,     \* the message codes the ends write
          Sizes,     \* the sizes (msg.Size) of the messages written
          Versions,  \* the protocol versions Init is called with
          MaxMsgs    \* bound: the number of WriteMsg calls of a behaviour

ASSUME /\ Sizes \subseteq Nat \ {0}
       /\ MaxMsgs \in Nat
       /\ \A e \in Ends : \E p \in Ends : Ends = {e, p} /\ p # e

VARIABLES meter,        \* end -> the bag of marks of its meters
          version,      \* end -> rw.version
          enabled,      \* end -> metrics.Enabled of its process
          wire,         \* end -> the messages written to it and not yet read
          closed,       \* the connection was torn down
          undelivered,  \* end -> the bag of messages it wrote that cannot arrive
          writes        \* the number of WriteMsg calls so far

vars == <<meter, version, enabled, wire, closed, undelivered, writes>>

Peer(e) == CHOOSE p \in Ends : p # e

Msg == [code : Codes, size : Sizes]

Units == {"packets", "traffic"}

(* The families of meters the var block declares; prop/ftns, prop/shashes  *)
(* and prop/sblocks are declared and marked by nothing.                    *)
Families == {"prop/txns", "prop/ftns", "prop/fhashes", "prop/shashes",
             "prop/fblocks", "prop/sblocks", "prop/nodeinfo",
             "prop/nodeinfohash", "req/headers", "req/fbodies", "req/states",
             "req/receipts", "get/head", "get/nodeinfo", "misc"}

Declared == (Families \X {"in", "out"} \X Units) \cup {<<"prop/txns", "in", "txs">>}

(* The cases of the two switch statements; any other code is misc.         *)
Switch == "BlockHeadersMsg"     :> "req/headers"   @@
          "BlockBodiesMsg"      :> "req/fbodies"   @@
          "NodeDataMsg"         :> "req/states"    @@
          "ReceiptsMsg"         :> "req/receipts"  @@
          "NewBlockHashesMsg"   :> "prop/fhashes"  @@
          "NewBlockMsg"         :> "prop/fblocks"  @@
          "TransactionMsg"      :> "prop/txns"     @@
          "TbftNodeInfoMsg"     :> "prop/nodeinfo" @@
          "TbftNodeInfoHashMsg" :> "prop/nodeinfohash" @@
          "GetTbftNodeInfoMsg"  :> "get/nodeinfo"  @@
          "GetBlockHeadersMsg"  :> "get/head"      @@
          "GetBlockBodiesMsg"   :> "get/head"

Family(code) == IF code \in DOMAIN Switch THEN Switch[code] ELSE "misc"

ReadMetersNoReceipts(code) ==
    LET f == IF code = "ReceiptsMsg" THEN "misc" ELSE Family(code)
    IN  [packets |-> <<f, "in", "packets">>, traffic |-> <<f, "in", "traffic">>]

\* A variant of ReadMeters whose case for the receipts names the traffic
\* meter only.
ReadMetersTrafficOnly(code) ==
    [packets |-> <<IF code = "ReceiptsMsg" THEN "misc" ELSE Family(code),
                   "in", "packets">>,
     traffic |-> <<Family(code), "in", "traffic">>]

ReadMeters(code) ==
    [packets |-> <<Family(code), "in", "packets">>,
     traffic |-> <<Family(code), "in", "traffic">>]

WriteMetersOwnFamily(code) ==
    LET f == IF code = "GetBlockBodiesMsg" THEN "get/bodies" ELSE Family(code)
    IN  [packets |-> <<f, "out", "packets">>, traffic |-> <<f, "out", "traffic">>]

WriteMeters(code) ==
    [packets |-> <<Family(code),
                   IF code = "GetBlockBodiesMsg" THEN "in" ELSE "out", "packets">>,
     traffic |-> <<Family(code), "out", "traffic">>]

Mark(marks, m, n) == marks (+) (m :> n)

Account(marks, ms, msg) == Mark(Mark(marks, ms.packets, 1), ms.traffic, msg.size)

Init ==
    /\ meter = [e \in Ends |-> EmptyBag]
    /\ version = [e \in Ends |-> 0]
    /\ enabled \in [Ends -> BOOLEAN]
    /\ wire = [e \in Ends |-> <<>>]
    /\ closed = FALSE
    /\ undelivered = [e \in Ends |-> EmptyBag]
    /\ writes = 0

\* A stream is wrapped, and has a version to set, only where metrics are on.
InitVersion(e, v) ==
    /\ enabled[e]
    /\ version[e] # v
    /\ version' = [version EXCEPT ![e] = v]
    /\ UNCHANGED <<meter, enabled, wire, closed, undelivered, writes>>

\* The read of the wrapped stream fails: the message and the error are
\* returned and nothing is marked.
ReadFails(e) ==
    /\ closed
    /\ UNCHANGED vars

ReadMsg(e) ==
    /\ ~closed
    /\ wire[e] # <<>>
    /\ wire' = [wire EXCEPT ![e] = Tail(@)]
    /\ meter' = IF enabled[e]
                THEN [meter EXCEPT ![e] = Account(@, ReadMeters(Head(wire[e]).code),
                                                  Head(wire[e]))]
                ELSE meter
    /\ UNCHANGED <<version, enabled, closed, undelivered, writes>>

\* The meters are marked before the message is handed to the p2p layer, whose
\* error is returned.
WriteMsg(e, msg) ==
    /\ writes < MaxMsgs
    /\ writes' = writes + 1
    /\ meter' = IF enabled[e]
                THEN [meter EXCEPT ![e] = Account(@, WriteMeters(msg.code), msg)]
                ELSE meter
    /\ IF closed
       THEN /\ undelivered' = [undelivered EXCEPT ![e] = @ (+) SetToBag({msg})]
            /\ wire' = wire
       ELSE /\ wire' = [wire EXCEPT ![Peer(e)] = Append(@, msg)]
            /\ undelivered' = undelivered
    /\ UNCHANGED <<version, enabled, closed>>

\* The environment: the connection goes down and what is in flight is lost.
Close ==
    /\ ~closed
    /\ closed' = TRUE
    /\ wire' = [e \in Ends |-> <<>>]
    /\ undelivered' = [e \in Ends |->
          undelivered[e] (+) [m \in Range(wire[Peer(e)]) |->
              Cardinality({i \in DOMAIN wire[Peer(e)] : wire[Peer(e)][i] = m})]]
    /\ UNCHANGED <<meter, version, enabled, writes>>

Next ==
    \/ \E e \in Ends, v \in Versions : InitVersion(e, v)
    \/ \E e \in Ends : ReadMsg(e) \/ ReadFails(e)
    \/ \E e \in Ends, msg \in Msg : WriteMsg(e, msg)
    \/ Close

Spec == Init /\ [][Next]_vars

-----------------------------------------------------------------------------
Weight(msg, unit) == IF unit = "packets" THEN 1 ELSE msg.size

\* What the messages of family f in a queue, or in a bag, weigh in a unit.
InFlight(queue, f, unit) ==
    SumFunctionOnSet([i \in DOMAIN queue |-> Weight(queue[i], unit)],
                     {i \in DOMAIN queue : Family(queue[i].code) = f})

Lost(msgs, f, unit) ==
    SumFunctionOnSet([m \in DOMAIN msgs |-> msgs[m] * Weight(m, unit)],
                     {m \in DOMAIN msgs : Family(m.code) = f})

TypeOK ==
    /\ \A e \in Ends : IsABag(meter[e]) /\ IsABag(undelivered[e])
                       /\ BagToSet(undelivered[e]) \subseteq Msg
    /\ version \in [Ends -> Versions \cup {0}]
    /\ enabled \in [Ends -> BOOLEAN]
    /\ wire \in [Ends -> Seq(Msg)]
    /\ closed \in BOOLEAN
    /\ writes \in 0..MaxMsgs
    \* Mark is only ever called on a meter of the var block.
    /\ \A e \in Ends : BagToSet(meter[e]) \subseteq Declared

Conserved(unit, families) ==
    \A e \in Ends, f \in families :
        enabled[e] /\ enabled[Peer(e)] =>
            CopiesIn(<<f, "out", unit>>, meter[e]) =
                CopiesIn(<<f, "in", unit>>, meter[Peer(e)])
                + InFlight(wire[Peer(e)], f, unit) + Lost(undelivered[e], f, unit)

(* What one end's out-traffic meters of a family have counted is what the  *)
(* peer's in-traffic meters of that family counted, plus the messages      *)
(* still in flight, plus those that were written and cannot arrive         *)
(* (WriteMsg marks before the p2p write, ReadMsg marks nothing on an       *)
(* error): the dashboards of two nodes agree on a link's traffic.          *)
TrafficIsConserved == Conserved("traffic", Families)

(* The two switch statements of ReadMsg and WriteMsg pair every code with  *)
(* the packets meters of one family, in for the reader and out for the     *)
(* writer: outside the family of the block requests the two ends count the *)
(* same packets, in whatever order messages are written, read and lost     *)
(* with the connection.                                                    *)
PacketsAreConservedOutsideGetHead == Conserved("packets", Families \ {"get/head"})

(* The same for every family, as the layout of the meters (an in and an    *)
(* out meter per family and unit) promises.                                *)
PacketsAreConserved == Conserved("packets", Families)
=============================================================================
