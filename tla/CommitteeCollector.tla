------------------------- MODULE CommitteeCollector -------------------------
(***************************************************************************)
(* The committee collector of the dashboard (src/dashboard/committee.go):  *)
(* a goroutine that, at every refresh tick, asks the PBFT agent five       *)
(* questions one after the other and sends the answers to the clients as   *)
(* one message, until a request arrives on the quit channel.  The agent    *)
(* and the party that stops the dashboard are the environment: the agent   *)
(* moves from committee to committee while the collector asks.             *)
(***************************************************************************)
EXTENDS Integers, Sequences, Functions

CONSTANTS MaxCommittee,   \* bound: the committee numbers the agent goes through
          NULL

VARIABLES pc,      \* where the collector goroutine is
          snap,    \* its local variables: the answers of this round so far
          agent,   \* the agent: committee number, whether member, whether leader
          outbox,  \* the last message handed to sendToAll
          quit,    \* the quit channel and the error channel sent over it
          wg       \* db.wg

vars == <<pc, snap, agent, outbox, quit, wg>>

(* The calls of one round, in the order of the code.  A committee is       *)
(* known by its number: GetCurrentCommittee and GetAlternativeCommittee    *)
(* answer with the members of the committee the agent is in at the call.   *)
AsksNumberLast == <<"member", "leader", "current", "back", "number">>

Asks == <<"number", "member", "leader", "current", "back">>

Answer == [number  |-> agent.number, member |-> agent.member,
           leader  |-> agent.leader, current |-> agent.number,
           back    |-> agent.number]

Agents == {a \in [number : 0..MaxCommittee, member : BOOLEAN, leader : BOOLEAN] :
              a.leader => a.member}

Init ==
    /\ pc = "select"
    /\ snap = <<>>
    /\ agent \in {a \in Agents : a.number = 0}
    /\ outbox = NULL
    /\ quit = "idle"
    /\ wg = 1

\* case <-time.After(db.config.Refresh)
Tick ==
    /\ pc = "select"
    /\ pc' = "ask"
    /\ snap' = <<>>
    /\ UNCHANGED <<agent, outbox, quit, wg>>

\* The next call to the agent of this round.
Ask ==
    /\ pc = "ask"
    /\ snap' = Append(snap, Answer[Asks[Len(snap) + 1]])
    /\ pc' = IF Len(snap') = Len(Asks) THEN "send" ELSE "ask"
    /\ UNCHANGED <<agent, outbox, quit, wg>>

\* db.sendToAll(&Message{Committee: ...}) with the answers of this round.
SendToAll ==
    /\ pc = "send"
    /\ outbox' = [q \in Range(Asks) |-> snap[CHOOSE i \in DOMAIN Asks : Asks[i] = q]]
    /\ pc' = "select"
    /\ UNCHANGED <<snap, agent, quit, wg>>

\* A variant of Quit that calls wg.Done before the deferred call does.
QuitDoneTwice ==
    /\ pc = "select"
    /\ quit = "offered"
    /\ quit' = "answered"
    /\ pc' = "done"
    /\ wg' = wg - 2
    /\ UNCHANGED <<snap, agent, outbox>>

\* A variant of Quit that answers and goes on.
QuitAndLoop ==
    /\ pc = "select"
    /\ quit = "offered"
    /\ quit' = "answered"
    /\ UNCHANGED <<pc, snap, agent, outbox, wg>>

\* case errc := <-db.quit: answer on errc, return, and the deferred wg.Done.
Quit ==
    /\ pc = "select"
    /\ quit = "offered"
    /\ quit' = "answered"
    /\ pc' = "done"
    /\ wg' = wg - 1
    /\ UNCHANGED <<snap, agent, outbox>>

\* The environment: the dashboard is stopped.
OfferQuit ==
    /\ quit = "idle"
    /\ quit' = "offered"
    /\ UNCHANGED <<pc, snap, agent, outbox, wg>>

\* The environment: the agent enters the next committee, or the leader of
\* its committee changes.
AgentMoves ==
    /\ agent' \in {a \in Agents : a.number \in {agent.number, agent.number + 1}}
    /\ agent' # agent
    /\ UNCHANGED <<pc, snap, outbox, quit, wg>>

Collector == Tick \/ Ask \/ SendToAll \/ Quit

Next == Collector \/ OfferQuit \/ AgentMoves

(* The goroutine is scheduled (weak fairness of its steps), and a select   *)
(* with a ready quit case takes it in the end: Go chooses among the ready  *)
(* cases at random, and the timer is armed anew at every select.           *)
Spec == Init /\ [][Next]_vars /\ WF_vars(Collector) /\ SF_vars(Quit)

-----------------------------------------------------------------------------
TypeOK ==
    /\ pc \in {"select", "ask", "send", "done"}
    /\ DOMAIN snap \subseteq DOMAIN Asks
    /\ \A i \in DOMAIN snap :
          snap[i] \in IF Asks[i] \in {"member", "leader"} THEN BOOLEAN
                                                         ELSE 0..MaxCommittee
    /\ agent \in Agents
    /\ outbox = NULL \/ DOMAIN outbox = Range(Asks)
    /\ quit \in {"idle", "offered", "answered"}
    /\ wg \in {0, 1}

(* A message never shows a committee older than the number it carries:     *)
(* CommitteeNumber is called before GetCurrentCommittee and that before    *)
(* GetAlternativeCommittee, and the agent only moves forward between the   *)
(* calls.                                                                  *)
MessageNeverAheadOfItsCommittee ==
    outbox # NULL =>
        outbox.number <= outbox.current /\ outbox.current <= outbox.back

(* A message describes the agent as it was at one moment: the number,     *)
(* the members and the backups are of one committee, and a leader is a     *)
(* member.  collectCommitteeData gathers them in five calls without a      *)
(* lock, and the agent moves between the calls.                            *)
MessageIsOfOneMoment ==
    outbox # NULL =>
        /\ outbox.number = outbox.current /\ outbox.current = outbox.back
        /\ outbox.leader => outbox.member

(* A stop of the dashboard is answered and the goroutine ends (wg.Done),   *)
(* whatever the tick rate: the party that stops the dashboard waits for    *)
(* the answer and then for the wait group.                                 *)
StopIsAnswered == (quit = "offered") ~> (pc = "done" /\ wg = 0)
=============================================================================
