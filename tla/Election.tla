------------------------------ MODULE Election ------------------------------
(***************************************************************************)
(* What the committee election promises to those who ask it for a          *)
(* committee (section 4.3 of the specification): for every epoch one       *)
(* elected committee with its backups, one active committee at a time,     *)
(* which is the elected one of its epoch, and epochs that are entered      *)
(* one after the other.  The stake the election reads is no part of it.    *)
(* Impawn is shown to implement this specification.                        *)
(***************************************************************************)
EXTENDS Naturals, FiniteSets, SequencesExt

CONSTANTS
    Owners,         \* those who can be elected
    CommitteeSize,  \* K: the seats of the active committee
    BackupSize,     \* M: the backups behind them
    MaxEpoch,       \* model bound: the epochs
    NULL

VARIABLES
    elected,  \* epoch -> the committee and the backups elected for it
    active,   \* the epoch and the members of the active committee
    saved     \* both, as they were persisted last

vars == <<elected, active, saved>>

Epochs == 1 .. MaxEpoch

\* A committee has a member in every seat, in the order of the ranking, and
\* nobody is member and backup.
IsResult(r) ==
    /\ r # NULL
    /\ Len(r.active) = CommitteeSize
    /\ Len(r.backup) <= BackupSize
    /\ IsInjective(r.active \o r.backup)
    /\ ToSet(r.active \o r.backup) \subseteq Owners

Current == [elected |-> elected, active |-> active]

Init ==
    /\ elected = [e \in Epochs |-> NULL]
    /\ active = [epoch |-> 0, members |-> {}]
    /\ saved = Current

\* runElection, for the epoch after the current one; an election that was
\* run again replaces the earlier one.
RunElection ==
    /\ active.epoch + 1 \in Epochs
    /\ UNCHANGED <<active, saved>>
    /\ elected' = [elected EXCEPT ![active.epoch + 1] = elected'[active.epoch + 1]]
    /\ IsResult(elected'[active.epoch + 1])

\* finalizeCommittee: the committee elected for the next epoch becomes the
\* active one.
Finalize ==
    /\ active.epoch + 1 \in Epochs
    /\ elected[active.epoch + 1] # NULL
    /\ active' = [epoch |-> active.epoch + 1,
                  members |-> ToSet(elected[active.epoch + 1].active)]
    /\ UNCHANGED <<elected, saved>>

Persist ==
    /\ saved' = Current
    /\ UNCHANGED <<elected, active>>

\* Everything goes back to what was persisted, together.
Restore ==
    /\ elected' = saved.elected
    /\ active' = saved.active
    /\ UNCHANGED saved

Next ==
    \/ RunElection
    \/ Finalize
    \/ Persist
    \/ Restore

Spec == Init /\ [][Next]_vars
=============================================================================
