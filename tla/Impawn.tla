------------------------------- MODULE Impawn -------------------------------
(***************************************************************************)
(* The stake ledger (Impawn) and the committee election that reads it.     *)
(* core/genesis.go and core/vm/staking_test.go call the ledger             *)
(* (InsertSAccount2, DoElections, Shift, Save, Load); its own code is not  *)
(* part of the repository, and the module is modelled from sections 3,     *)
(* 4.2 and 4.3 of the specification.                                       *)
(*                                                                         *)
(* The ledger is mutated by one pipeline, block after block: there is no   *)
(* interleaving here.  What the model explores is every order of           *)
(* deposits, withdrawals, elections and committee transitions over the     *)
(* heights, and a pipeline that drops what it did since the last Save      *)
(* and loads the ledger again.                                             *)
(*                                                                         *)
(* Every deposit is one of a committee candidate, as those of the genesis  *)
(* block and of the test are; the lock bonus of a deposit is left out.  An *)
(* operation that is rejected returns its error and changes nothing.       *)
(***************************************************************************)
EXTENDS Integers, Sequences, SequencesExt

CONSTANTS
    Owners,         \* the owners of stake, known by their public keys
    Amounts,        \* the amounts a deposit or a withdrawal moves
    CommitteeSize,  \* K: the seats of the active committee
    BackupSize,     \* M: the backups behind them
    LockPeriod,     \* the heights a deposit locks the stake for
    MaxStake,       \* model bound: the stake of one owner
    MaxHeight,      \* model bound: the anchor height
    MaxEpoch,       \* model bound: the epochs
    MaxPending,     \* model bound: the operations between two Saves
    NULL

ASSUME
    /\ Amounts \subseteq 1 .. MaxStake
    /\ CommitteeSize \in Nat \ {0} /\ BackupSize \in Nat
    /\ LockPeriod \in Nat /\ MaxHeight \in Nat /\ MaxEpoch \in Nat
    /\ MaxPending \in Nat

VARIABLES
    height,     \* the current anchor height
    accounts,   \* the stake records, in the order of their first deposit
    elections,  \* epoch -> the result of the last election run for it
    committee,  \* the active committee: its epoch, its members and the
                \* stake each of them was seated with
    stored,     \* the ledger as the account store holds it
    pending     \* the operations since the ledger was saved or loaded

vars == <<height, accounts, elections, committee, stored, pending>>

Epochs == 1 .. MaxEpoch

-----------------------------------------------------------------------------
(* Stake records *)

StakeRecord == [owner : Owners, amount : 1 .. MaxStake,
                lockUntil : 0 .. MaxHeight + LockPeriod,
                depositHeight : 0 .. MaxHeight]

\* The position of the owner's record, 0 if it has none.
IndexOf(accts, owner) == SelectInSeq(accts, LAMBDA r : r.owner = owner)

AmountOf(accts, owner) ==
    IF IndexOf(accts, owner) = 0 THEN 0 ELSE accts[IndexOf(accts, owner)].amount

-----------------------------------------------------------------------------
(* The election: a ranking of the candidates *)

\* By staked amount descending, ties broken by deposit height ascending.
Ahead(a, b) ==
    \/ a.amount > b.amount
    \/ a.amount = b.amount /\ a.depositHeight < b.depositHeight

\* A variant of Place that lets the later of two equal records pass.
PlaceBeforeEqual(ranking, r) ==
    LET i == SelectInSeq(ranking, LAMBDA x : ~Ahead(x, r))
    IN  IF i = 0 THEN Append(ranking, r) ELSE InsertAt(ranking, i, r)

\* The record goes in front of the first one it is ahead of.
Place(ranking, r) ==
    LET i == SelectInSeq(ranking, LAMBDA x : Ahead(r, x))
    IN  IF i = 0 THEN Append(ranking, r) ELSE InsertAt(ranking, i, r)

Ranked(accts) == FoldLeft(Place, <<>>, accts)

OwnersOf(records) == [i \in DOMAIN records |-> records[i].owner]

\* The top k of a ranking are the active members, the next m the backups.
Seats(ranking, k, m) ==
    LET Part(from, to) == OwnersOf(SubSeq(ranking, from, Min({to, Len(ranking)})))
    IN  [active |-> Part(1, k), backup |-> Part(k + 1, k + m)]

Elect(accts) == Seats(Ranked(accts), CommitteeSize, BackupSize)

\* getCommittee: the active members of the last election run for the epoch.
GetCommittee(e) == IF elections[e] = NULL THEN <<>> ELSE elections[e].active

ActiveMembers == ToSet(committee.members)

-----------------------------------------------------------------------------
(* The ledger's operations *)

\* One more operation of the pipeline on the ledger it has loaded.
Operate ==
    /\ pending < MaxPending
    /\ pending' = pending + 1
    /\ UNCHANGED <<height, stored>>

\* deposit: InsertSAccount2(height, owner, pubkey, amount, ...).  A first
\* deposit opens the record; a later one adds to it and locks it anew.
InsertSAccount2(owner, amount) ==
    /\ Operate
    /\ AmountOf(accounts, owner) + amount <= MaxStake
    /\ LET i == IndexOf(accounts, owner)
       IN  accounts' =
               IF i = 0
                   THEN Append(accounts, [owner |-> owner, amount |-> amount,
                                          lockUntil |-> height + LockPeriod,
                                          depositHeight |-> height])
                   ELSE [accounts EXCEPT ![i].amount = @ + amount,
                                         ![i].lockUntil = height + LockPeriod]
    /\ UNCHANGED <<elections, committee>>

\* A variant of Rejection for a ledger that asks for the lock only.
RejectionWhileLocked(owner) ==
    IF height < accounts[IndexOf(accounts, owner)].lockUntil
        THEN "locked" ELSE NULL

\* Why a withdrawal of the owner is rejected now, NULL if it is not.
Rejection(owner) ==
    CASE height < accounts[IndexOf(accounts, owner)].lockUntil -> "locked"
      [] owner \in ActiveMembers -> "active"
      [] OTHER -> NULL

\* A variant of Reduced that keeps the record it emptied.
ReducedKeepsEmptied(i, amount) == [accounts EXCEPT ![i].amount = @ - amount]

\* The records after the amount left the i-th: a record that is emptied
\* is retired.
Reduced(i, amount) ==
    IF accounts[i].amount = amount
        THEN RemoveAt(accounts, i)
        ELSE [accounts EXCEPT ![i].amount = @ - amount]

\* Withdrawal: rejected with an error while the stake is locked or its
\* owner is an active member.
Withdraw(owner, amount) ==
    /\ Operate
    /\ amount <= AmountOf(accounts, owner)
    /\ accounts' = IF Rejection(owner) = NULL
                       THEN Reduced(IndexOf(accounts, owner), amount)
                       ELSE accounts
    /\ UNCHANGED <<elections, committee>>

\* An election needs a candidate for every seat.
Enough(accts) == Len(accts) >= CommitteeSize

\* runElection: DoElections(epoch, height), for the epoch after the
\* current one.  Too few candidates are reported and nothing is elected.
DoElections(e) ==
    /\ Operate
    /\ e = committee.epoch + 1
    /\ IF Enough(accounts)
           THEN elections' = [elections EXCEPT ![e] = Elect(accounts)]
           ELSE UNCHANGED elections
    /\ UNCHANGED <<accounts, committee>>

\* verifySwitchInfo: the proposed members are those of the election for the
\* epoch, in whatever order.
VerifySwitchInfo(e, members) ==
    /\ elections[e] # NULL
    /\ Len(members) = Len(GetCommittee(e))
    /\ ToSet(members) = ToSet(GetCommittee(e))

\* advanceEpoch: Shift(epoch) makes the members the active committee of the
\* epoch, each seated with the stake it has.
Shift(e, members) ==
    committee' = [epoch |-> e, members |-> members,
                  stake |-> [o \in ToSet(members) |-> AmountOf(accounts, o)]]

\* finalizeCommittee: the transition a finalized block records is verified
\* against the election and committed, advancing the epoch.
FinalizeCommittee(members) ==
    LET e == committee.epoch + 1
    IN  /\ Operate
        /\ e \in Epochs
        /\ IF VerifySwitchInfo(e, members)
               THEN Shift(e, members)
               ELSE UNCHANGED committee
        /\ UNCHANGED <<accounts, elections>>

\* A variant of ShiftEpoch for a ledger that enters an epoch nothing was
\* elected for, with whatever the election left.
ShiftEpochUnelected ==
    LET e == committee.epoch + 1
    IN  /\ Operate
        /\ e \in Epochs
        /\ Shift(e, GetCommittee(e))
        /\ UNCHANGED <<accounts, elections>>

\* Shift(epoch) called by itself, as ToFastBlock calls it after an election
\* whose error it has only logged: the ledger enters the epoch with the
\* committee elected for it, and refuses when none was; that error is
\* logged too.
ShiftEpoch ==
    LET e == committee.epoch + 1
    IN  /\ Operate
        /\ e \in Epochs
        /\ IF elections[e] # NULL
               THEN Shift(e, GetCommittee(e))
               ELSE UNCHANGED committee
        /\ UNCHANGED <<accounts, elections>>

\* The anchor chain grows.
Advance ==
    /\ height < MaxHeight
    /\ height' = height + 1
    /\ UNCHANGED <<accounts, elections, committee, stored, pending>>

Ledger == [accounts |-> accounts, elections |-> elections, committee |-> committee]

\* persist: Save(state, address)
Save ==
    /\ pending > 0
    /\ stored' = Ledger
    /\ pending' = 0
    /\ UNCHANGED <<height, accounts, elections, committee>>

\* A variant of Load that leaves the committee the pipeline had.
LoadKeepsCommittee ==
    /\ pending > 0
    /\ accounts' = stored.accounts
    /\ elections' = stored.elections
    /\ pending' = 0
    /\ UNCHANGED <<height, stored, committee>>

\* load: Load(state, address).  What was done since the last Save is gone.
Load ==
    /\ pending > 0
    /\ accounts' = stored.accounts
    /\ elections' = stored.elections
    /\ committee' = stored.committee
    /\ pending' = 0
    /\ UNCHANGED <<height, stored>>

NoCommittee == [epoch |-> 0, members |-> <<>>, stake |-> <<>>]

\* NewImpawnImpl, loaded from a state that holds no ledger yet.
Init ==
    /\ height = 0
    /\ accounts = <<>>
    /\ elections = [e \in Epochs |-> NULL]
    /\ committee = NoCommittee
    /\ stored = [accounts |-> <<>>, elections |-> [e \in Epochs |-> NULL],
                 committee |-> NoCommittee]
    /\ pending = 0

Next ==
    \/ \E o \in Owners, a \in Amounts : InsertSAccount2(o, a) \/ Withdraw(o, a)
    \/ \E e \in Epochs : DoElections(e)
    \/ \E members \in UNION {SetToSeqs(S) : S \in SUBSET Owners} :
           FinalizeCommittee(members)
    \/ ShiftEpoch
    \/ Advance
    \/ Save
    \/ Load

Spec == Init /\ [][Next]_vars

-----------------------------------------------------------------------------
(* Properties *)

Seatings == [epoch : Epochs, members : BoundedSeq(Owners, CommitteeSize),
             stake : UNION {[S -> 0 .. MaxStake] : S \in SUBSET Owners}]

Elected == [active : BoundedSeq(Owners, CommitteeSize),
            backup : BoundedSeq(Owners, BackupSize)]

LedgerOK(l) ==
    /\ l.accounts \in Seq(StakeRecord)
    /\ IsInjective(OwnersOf(l.accounts))
    /\ l.elections \in [Epochs -> Elected \cup {NULL}]
    /\ l.committee \in Seatings \cup {NoCommittee}

TypeOK ==
    /\ height \in 0 .. MaxHeight
    /\ LedgerOK(Ledger) /\ LedgerOK(stored)
    /\ pending \in 0 .. MaxPending

(* The election seats the highest stakes: of every ledger the pipeline     *)
(* reaches, the ranking holds each record once, nobody behind in it has    *)
(* more stake than somebody in front, of two equal stakes the earlier      *)
(* deposit is in front, and the active members and the backups are its     *)
(* first K and next M owners (section 4.2; the scenario of section 8 is    *)
(* one such ledger).                                                       *)
ElectionSeatsTheHighestStakes ==
    LET ranking == Ranked(accounts)
        seats == Elect(accounts)
    IN  /\ Len(ranking) = Len(accounts) /\ ToSet(ranking) = ToSet(accounts)
        /\ \A i, j \in DOMAIN ranking : i < j =>
               /\ ranking[i].amount >= ranking[j].amount
               /\ ranking[i].amount = ranking[j].amount =>
                      /\ ranking[i].depositHeight <= ranking[j].depositHeight
                      /\ ranking[i].depositHeight = ranking[j].depositHeight =>
                             IndexOf(accounts, ranking[i].owner)
                                 < IndexOf(accounts, ranking[j].owner)
        /\ seats.active \o seats.backup =
               OwnersOf(SubSeq(ranking, 1, Min({CommitteeSize + BackupSize,
                                                Len(ranking)})))

(* Exactly one committee is active in an epoch, and it is the one the      *)
(* ledger elected for it, with a member in every seat: a transition with   *)
(* other members, or one for which too few candidates stood, is rejected   *)
(* (sections 3 and 4.3: the node must not proceed with an empty or         *)
(* under-quorum committee), also when the ledger is loaded again.          *)
OneCommitteePerEpoch ==
    committee.epoch # 0 =>
        /\ Len(committee.members) = CommitteeSize
        /\ Cardinality(ActiveMembers) = CommitteeSize
        /\ ActiveMembers = ToSet(GetCommittee(committee.epoch))

(* The stake that funds an active seat stays: while its owner is active    *)
(* the record holds at least what the owner was seated with, whatever the  *)
(* height and whatever was withdrawn before (invariant 4 of section 3).    *)
SeatedStakeIsKept ==
    \A o \in ActiveMembers : AmountOf(accounts, o) >= committee.stake[o]

\* The committee of a ledger as those who ask for it see it.
ActiveOf(l) == [epoch |-> l.committee.epoch, members |-> ToSet(l.committee.members)]

Promise ==
    INSTANCE Election WITH
        elected <- elections, active <- ActiveOf(Ledger),
        saved <- [elected |-> stored.elections, active |-> ActiveOf(stored)]

(* The ledger implements the election's promise (module Election): every   *)
(* operation either leaves the elections and the committee alone, elects   *)
(* K distinct members and disjoint backups for the next epoch, enters the  *)
(* next epoch with exactly the committee elected for it, saves, or goes    *)
(* back to what was saved, elections and committee together.  A rejected   *)
(* transition, an election without enough candidates and every deposit     *)
(* and withdrawal are steps the election does not see.                     *)
ImplementsElection == Promise!Spec

(* Every active seat is funded: its owner has stake in the ledger.  The    *)
(* ledger rejects a withdrawal of an active member only, and a candidate   *)
(* that was elected and is not seated yet may withdraw all of it.          *)
ActiveSeatIsFunded ==
    \A o \in ActiveMembers : AmountOf(accounts, o) > 0
=============================================================================
