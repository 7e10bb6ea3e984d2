---------------------------- MODULE MinervaEngine ----------------------------
(***************************************************************************)
(* The Minerva engine as far as consensus/minerva/minerva.go has it: the   *)
(* constructors, and SetThreads and Threads called by several goroutines   *)
(* on engines that may delegate to the process-wide sharedMinerva.         *)
(*                                                                         *)
(* Both methods run under the engine's mutex, and SetThreads of a sharing  *)
(* engine calls SetThreads of sharedMinerva while it holds its own.  A     *)
(* goroutine can be stopped before each Lock, so entering a method, taking *)
(* the mutex, the body and the return are steps of their own.              *)
(***************************************************************************)
EXTENDS Integers, Sequences, SequencesExt

CONSTANTS
    Callers,       \* goroutines that call SetThreads and Threads
    Users,         \* the engines the constructors made, beside sharedMinerva
    ThreadCounts,  \* the arguments SetThreads is called with
    Kinds,         \* the constructors the engines of Users may come from
    NULL           \* Go's nil

Shared == "sharedMinerva"

Engines == Users \cup {Shared}

AllKinds ==
    {"New", "NewTester", "NewFaker", "NewFakeFailer", "NewFakeDelayer",
     "NewFullFaker", "NewShared"}

ASSUME
    /\ Shared \notin Users
    /\ ThreadCounts \subseteq Int
    /\ Kinds \subseteq AllKinds

VARIABLES
    eng,      \* per engine: its fields
    lock,     \* per engine: the goroutine that holds Minerva.lock, or NULL
    frames,   \* per goroutine: the calls it is in, innermost first
    waiting,  \* per engine: a sealing loop is receiving on update
    pinged    \* per engine: the sealing loop has received an update

vars == <<eng, lock, frames, waiting, pinged>>

-----------------------------------------------------------------------------
(* The constructors *)

Modes == {"ModeNormal", "ModeShared", "ModeTest", "ModeFake", "ModeFullFake"}

\* The zero Minerva: mode 0, no channel, no election.
Zero ==
    [mode |-> "ModeNormal", threads |-> 0, update |-> FALSE, shared |-> NULL,
     election |-> NULL]

\* New(config)
New(mode) == [Zero EXCEPT !.mode = mode, !.update = TRUE]

\* What each constructor returns.
Construct(kind) ==
    CASE kind = "New"          -> New("ModeNormal")
      [] kind = "NewTester"    -> New("ModeTest")
      [] kind \in {"NewFaker", "NewFakeFailer", "NewFakeDelayer"}
                               -> [Zero EXCEPT !.mode = "ModeFake",
                                               !.election = "fakeElection"]
      [] kind = "NewFullFaker" -> [Zero EXCEPT !.mode = "ModeFullFake"]
      [] kind = "NewShared"    -> [Zero EXCEPT !.shared = Shared]

\* pist.CreateConsensusEngine: the constructor it calls for a mode, and the
\* thread count it sets on the engine it returns.
KindFor(mode) ==
    CASE mode = "ModeFake"   -> "NewFaker"
      [] mode = "ModeTest"   -> "NewTester"
      [] mode = "ModeShared" -> "NewShared"
      [] OTHER               -> "New"

CreateConsensusEngine(mode) ==
    IF KindFor(mode) = "New"
        THEN [Construct("New") EXCEPT !.threads = -1]
        ELSE Construct(KindFor(mode))

-----------------------------------------------------------------------------
(* SetThreads and Threads *)

\* The values of Minerva.threads: 0 of the constructors, -1 of
\* CreateConsensusEngine, and what SetThreads is given.
Threads == ThreadCounts \cup {0, -1}

Frame ==
    [op : {"SetThreads"}, on : Engines, n : ThreadCounts,
     at : {"lock", "body", "unlock"}]
        \cup [op : {"Threads"}, on : Engines, n : Threads \cup {NULL},
              at : {"lock", "body", "unlock"}]

Idle(c) == frames[c] = <<>>

Top(c) == Head(frames[c])

\* The goroutine moves on in its innermost call.
Goto(c, at) == [frames EXCEPT ![c] = Cons([Top(c) EXCEPT !.at = at], Tail(@))]

Call(c, op, e, n) ==
    [frames EXCEPT ![c] = Cons([op |-> op, on |-> e, n |-> n, at |-> "lock"], @)]

\* A goroutine calls SetThreads(n) or Threads() on an engine.
Enter(c) ==
    /\ Idle(c)
    /\ \E e \in Engines :
           \/ \E n \in ThreadCounts : frames' = Call(c, "SetThreads", e, n)
           \/ frames' = Call(c, "Threads", e, NULL)
    /\ UNCHANGED <<eng, lock, waiting, pinged>>

\* m.lock.Lock()
Lock(c) ==
    /\ ~Idle(c)
    /\ Top(c).at = "lock"
    /\ lock[Top(c).on] = NULL
    /\ lock' = [lock EXCEPT ![Top(c).on] = c]
    /\ frames' = Goto(c, "body")
    /\ UNCHANGED <<eng, waiting, pinged>>

\* Threads: the result is the field of the engine it is called on, also
\* when that engine shares.
Read(c) ==
    /\ ~Idle(c)
    /\ Top(c).op = "Threads" /\ Top(c).at = "body"
    /\ frames' = [frames EXCEPT ![c] =
                     Cons([Top(c) EXCEPT !.n = eng[Top(c).on].threads,
                                         !.at = "unlock"], Tail(@))]
    /\ UNCHANGED <<eng, lock, waiting, pinged>>

\* A variant of Delegate without the nil test.
DelegateUnguarded(c) ==
    /\ ~Idle(c)
    /\ Top(c).op = "SetThreads" /\ Top(c).at = "body"
    /\ frames' = [Goto(c, "unlock") EXCEPT
                     ![c] = Cons([op |-> "SetThreads",
                                  on |-> eng[Top(c).on].shared,
                                  n  |-> Top(c).n, at |-> "lock"], @)]
    /\ UNCHANGED <<eng, lock, waiting, pinged>>

\* SetThreads of an engine that shares: SetThreads of the shared one is
\* called, with the engine's own mutex held.
Delegate(c) ==
    /\ ~Idle(c)
    /\ Top(c).op = "SetThreads" /\ Top(c).at = "body"
    /\ eng[Top(c).on].shared # NULL
    /\ frames' = [Goto(c, "unlock") EXCEPT
                     ![c] = Cons([op |-> "SetThreads",
                                  on |-> eng[Top(c).on].shared,
                                  n  |-> Top(c).n, at |-> "lock"], @)]
    /\ UNCHANGED <<eng, lock, waiting, pinged>>

\* The send on update succeeds: there is a channel and a receiver on it.
Delivered(e) == eng[e].update /\ waiting[e]

\* A variant of Write for an engine that shares and writes the shared
\* engine's field itself.
WriteThrough(c) ==
    /\ ~Idle(c)
    /\ Top(c).op = "SetThreads" /\ Top(c).at = "body"
    /\ LET e == IF eng[Top(c).on].shared # NULL THEN eng[Top(c).on].shared
                                                ELSE Top(c).on
       IN  /\ eng' = [eng EXCEPT ![e].threads = Top(c).n]
           /\ pinged' = [pinged EXCEPT ![e] = @ \/ Delivered(e)]
           /\ waiting' = [waiting EXCEPT ![e] = @ /\ ~Delivered(e)]
    /\ frames' = Goto(c, "unlock")
    /\ UNCHANGED lock

\* SetThreads of an engine that does not share: the field is written and the
\* sealing loop pinged, if one is receiving; if none is, or the engine has
\* no channel, the select takes its default.
Write(c) ==
    /\ ~Idle(c)
    /\ Top(c).op = "SetThreads" /\ Top(c).at = "body"
    /\ eng[Top(c).on].shared = NULL
    /\ LET e == Top(c).on
       IN  /\ eng' = [eng EXCEPT ![e].threads = Top(c).n]
           /\ pinged' = [pinged EXCEPT ![e] = @ \/ Delivered(e)]
           /\ waiting' = [waiting EXCEPT ![e] = @ /\ ~Delivered(e)]
    /\ frames' = Goto(c, "unlock")
    /\ UNCHANGED lock

\* A variant of Unlock that returns with the mutex held.
ReturnLocked(c) ==
    /\ ~Idle(c)
    /\ Top(c).at = "unlock"
    /\ frames' = [frames EXCEPT ![c] = Tail(@)]
    /\ UNCHANGED <<eng, lock, waiting, pinged>>

\* The deferred m.lock.Unlock(), and the return to the caller.
Unlock(c) ==
    /\ ~Idle(c)
    /\ Top(c).at = "unlock"
    /\ lock' = [lock EXCEPT ![Top(c).on] = NULL]
    /\ frames' = [frames EXCEPT ![c] = Tail(@)]
    /\ UNCHANGED <<eng, waiting, pinged>>

\* SetElection: the field is written without the mutex, on the engine it is
\* called on.
SetElection(e) ==
    /\ eng' = [eng EXCEPT ![e].election = "election"]
    /\ UNCHANGED <<lock, frames, waiting, pinged>>

\* The sealing loop of an engine with a channel starts to receive on it, or
\* takes up the update it received.
SealerTurns(e) ==
    /\ eng[e].update
    /\ ~waiting[e]
    /\ waiting' = [waiting EXCEPT ![e] = TRUE]
    /\ pinged' = [pinged EXCEPT ![e] = FALSE]
    /\ UNCHANGED <<eng, lock, frames>>

Init ==
    /\ eng \in {f \in [Engines -> {Construct(k) : k \in Kinds}
                                     \cup {CreateConsensusEngine(m) : m \in Modes}] :
                   f[Shared] = New("ModeNormal")}
    /\ lock = [e \in Engines |-> NULL]
    /\ frames = [c \in Callers |-> <<>>]
    /\ waiting = [e \in Engines |-> FALSE]
    /\ pinged = [e \in Engines |-> FALSE]

Step(c) ==
    \/ Enter(c)
    \/ Lock(c)
    \/ Read(c)
    \/ Delegate(c)
    \/ Write(c)
    \/ Unlock(c)

Next ==
    \/ \E c \in Callers : Step(c)
    \/ \E e \in Engines : SetElection(e) \/ SealerTurns(e)

\* A goroutine in a call goes on, and one that waits for a mutex gets it
\* when it is free again and again: sync.Mutex hands the lock to a waiter
\* that has waited long.
Fairness ==
    \A c \in Callers :
        /\ WF_vars(Read(c) \/ Delegate(c) \/ Write(c) \/ Unlock(c))
        /\ SF_vars(Lock(c))

Spec == Init /\ [][Next]_vars /\ Fairness

-----------------------------------------------------------------------------
(* Properties *)

TypeOK ==
    /\ eng \in [Engines -> [mode : Modes, threads : Threads,
                            update : BOOLEAN, shared : Engines \cup {NULL},
                            election : {"fakeElection", "election", NULL}]]
    /\ lock \in [Engines -> Callers \cup {NULL}]
    /\ frames \in [Callers -> Seq(Frame)]
    /\ \A c \in Callers : Len(frames[c]) <= 2
    /\ waiting \in [Engines -> BOOLEAN]
    /\ pinged \in [Engines -> BOOLEAN]

\* Minerva.lock "ensures thread safety for the mining fields": the thread
\* count of an engine changes only in a step of the goroutine that holds
\* that engine's mutex, also when the call came through a sharing engine.
ThreadsWrittenUnderLock ==
    [][\A e \in Engines :
          eng'[e].threads # eng[e].threads =>
              \E c \in Callers : lock[e] = c /\ frames'[c] # frames[c]]_vars

\* Every call of SetThreads and Threads returns: no order of calls on the
\* sharing engines and the shared one leaves a goroutine waiting for a mutex
\* for ever.
EveryCallReturns ==
    \A c \in Callers : (~Idle(c)) ~> Idle(c)

=============================================================================
