-------------------------------- MODULE Tbft --------------------------------
(***************************************************************************)
(* The BFT agreement engine for one height of the fast chain.  The files   *)
(* under src/consensus/tbft register its message types; the round state    *)
(* machine is modelled from section 4.4 of the specification:              *)
(*                                                                         *)
(*     Propose -> Prevote -> Precommit -> Commit                           *)
(*                                                                         *)
(* with a round timer that starts the next round under the next leader.    *)
(* A member acts on the messages it has observed; a message that was sent  *)
(* and is not acted upon has not arrived yet.  Of a faulty member every    *)
(* message it could send is there from the start: what the others do with  *)
(* any of them is then a behaviour of the model.                           *)
(***************************************************************************)
EXTENDS Integers, FiniteSets, Sequences, Functions

CONSTANTS
    Committee,  \* the active committee, in its round-robin order
    Faulty,     \* the members that are byzantine
    Blocks,     \* the block hashes that are proposed at this height
    Valid,      \* those that pass the checks on the current head
    Height,     \* the height this instance decides
    MaxRound,   \* the last round of the escalation: its timer does not elapse
    NULL

Members == Range(Committee)

Honest == Members \ Faulty

N == Len(Committee)

Rounds == 0 .. MaxRound

\* A variant of Quorum without the one above two thirds.
QuorumTwoThirds == (2 * N) \div 3

Quorum == (2 * N) \div 3 + 1

\* The members lead in round-robin order, offset by height + round.
Leader(r) == Committee[((Height + r) % N) + 1]

ASSUME
    /\ Cardinality(Members) = N
    /\ Faulty \subseteq Members /\ 3 * Cardinality(Faulty) < N
    /\ Valid \subseteq Blocks
    /\ Height \in Nat /\ MaxRound \in Nat

VARIABLES
    step,     \* member -> "propose", "prevote", "precommit" or "commit"
    round,    \* member -> its round
    decided,  \* member -> the block it finalized, or NULL
    msgs      \* the proposals and votes broadcast so far

vars == <<step, round, decided, msgs>>

Proposals == [type : {"proposal"}, round : Rounds, from : Members, block : Blocks]

\* A vote is a PbftSign: the height is that of the instance, the signature
\* is known by its signer.
Votes == [type : {"prevote", "precommit"}, round : Rounds, from : Members,
          hash : Blocks, result : {"agree", "reject"}]

\* The members whose agreeing votes of a kind, for a hash in a round, are
\* there.
Agreeing(type, r, h) ==
    {v.from : v \in {x \in msgs : /\ x.type = type
                                  /\ x.round = r
                                  /\ x.hash = h
                                  /\ x.result = "agree"}}

HasQuorum(type, r, h) == Cardinality(Agreeing(type, r, h)) >= Quorum

Init ==
    /\ step = [m \in Honest |-> "propose"]
    /\ round = [m \in Honest |-> 0]
    /\ decided = [m \in Honest |-> NULL]
    /\ msgs = {x \in Proposals \cup Votes : x.from \in Faulty}

\* The leader of the round broadcasts its proposal.
Propose(m, b) ==
    /\ step[m] = "propose"
    /\ Leader(round[m]) = m
    /\ b \in Valid
    /\ ~ \E p \in msgs : p.type = "proposal" /\ p.round = round[m] /\ p.from = m
    /\ msgs' = msgs \cup {[type |-> "proposal", round |-> round[m],
                           from |-> m, block |-> b]}
    /\ UNCHANGED <<step, round, decided>>

\* A variant of Result that agrees to every proposal.
ResultUnchecked(b) == "agree"

\* Agreement is granted only to a block that passes the checks.
Result(b) == IF b \in Valid THEN "agree" ELSE "reject"

\* A member signs and broadcasts its vote on the proposal of the round's
\* leader.
Prevote(m) ==
    /\ step[m] = "propose"
    /\ \E p \in msgs :
          /\ p.type = "proposal" /\ p.round = round[m] /\ p.from = Leader(round[m])
          /\ msgs' = msgs \cup {[type |-> "prevote", round |-> round[m], from |-> m,
                                 hash |-> p.block, result |-> Result(p.block)]}
    /\ step' = [step EXCEPT ![m] = "prevote"]
    /\ UNCHANGED <<round, decided>>

\* Having observed a quorum of agreeing prevotes for a hash, a member
\* broadcasts its precommit for it.
Precommit(m) ==
    /\ step[m] = "prevote"
    /\ \E h \in Blocks :
          /\ HasQuorum("prevote", round[m], h)
          /\ msgs' = msgs \cup {[type |-> "precommit", round |-> round[m], from |-> m,
                                 hash |-> h, result |-> "agree"]}
    /\ step' = [step EXCEPT ![m] = "precommit"]
    /\ UNCHANGED <<round, decided>>

\* A variant of Commit for a member that counts the precommits of its own
\* round only, and only after its own.
CommitInOwnRound(m) ==
    /\ step[m] = "precommit"
    /\ \E h \in Blocks :
          /\ HasQuorum("precommit", round[m], h)
          /\ decided' = [decided EXCEPT ![m] = h]
    /\ step' = [step EXCEPT ![m] = "commit"]
    /\ UNCHANGED <<round, msgs>>

\* The block is finalized as soon as a quorum of precommits for its hash is
\* observed, whichever of them arrived last.
Commit(m) ==
    /\ step[m] # "commit"
    /\ \E r \in Rounds, h \in Blocks :
          /\ HasQuorum("precommit", r, h)
          /\ decided' = [decided EXCEPT ![m] = h]
    /\ step' = [step EXCEPT ![m] = "commit"]
    /\ UNCHANGED <<round, msgs>>

\* A variant of Timeout without the end of the escalation.
TimeoutUnbounded(m) ==
    /\ step[m] # "commit"
    /\ round' = [round EXCEPT ![m] = @ + 1]
    /\ step' = [step EXCEPT ![m] = "propose"]
    /\ UNCHANGED <<decided, msgs>>

\* The round timer elapses before the proposal or the quorum arrived: the
\* round increments and a new leader is selected.
Timeout(m) ==
    /\ step[m] # "commit"
    /\ round[m] < MaxRound
    /\ round' = [round EXCEPT ![m] = @ + 1]
    /\ step' = [step EXCEPT ![m] = "propose"]
    /\ UNCHANGED <<decided, msgs>>

Act(m) ==
    \/ \E b \in Blocks : Propose(m, b)
    \/ Prevote(m)
    \/ Precommit(m)
    \/ Commit(m)

\* Every member has finalized: the instance of this height is over.
Done ==
    /\ \A m \in Honest : step[m] = "commit"
    /\ UNCHANGED vars

Next == (\E m \in Honest : Act(m) \/ Timeout(m)) \/ Done

(* A member acts on what has arrived, and what was sent arrives (weak       *)
(* fairness of its steps); a timer that is running elapses (weak fairness  *)
(* of Timeout).  Nothing is assumed of the faulty members.                 *)
Spec ==
    /\ Init /\ [][Next]_vars
    /\ \A m \in Honest : WF_vars(Act(m)) /\ WF_vars(Timeout(m))

-----------------------------------------------------------------------------
TypeOK ==
    /\ step \in [Honest -> {"propose", "prevote", "precommit", "commit"}]
    /\ round \in [Honest -> Rounds]
    /\ decided \in [Honest -> Blocks \cup {NULL}]
    /\ msgs \subseteq Proposals \cup Votes

(* Within a round no two blocks both get a quorum of precommits, whatever  *)
(* the faulty members send (two proposals, votes for both): two quorums    *)
(* share a member that is not faulty, and it precommits once in a round.   *)
OneBlockPerRound ==
    \A r \in Rounds, h1, h2 \in Blocks :
        HasQuorum("precommit", r, h1) /\ HasQuorum("precommit", r, h2) => h1 = h2

(* A byzantine minority cannot force an incorrect commit: a block a member *)
(* finalizes passes the checks, although a faulty leader proposes one that *)
(* does not and the faulty members vote for it.                            *)
NoIncorrectCommit ==
    \A m \in Honest : decided[m] # NULL => decided[m] \in Valid

(* Every member that is not faulty finalizes a block at this height: the   *)
(* rounds go on until one has a leader that proposes, and a member that    *)
(* left the round in which the others finalized learns of it from their    *)
(* precommits.                                                             *)
EveryMemberCommits == <>(\A m \in Honest : step[m] = "commit")

(* At most one block is ever committed at a height: no two distinct block  *)
(* hashes both receive a quorum of precommits (section 8 of the            *)
(* specification, first property).                                         *)
OneBlockPerHeight ==
    \A r1, r2 \in Rounds, h1, h2 \in Blocks :
        HasQuorum("precommit", r1, h1) /\ HasQuorum("precommit", r2, h2) => h1 = h2
=============================================================================
