----------------------------- MODULE EpochCache -----------------------------
(***************************************************************************)
(* The epoch dataset cache of the minerva engine: type lru of              *)
(* consensus/minerva/minerva.go.  It keeps epoch-keyed verification and    *)
(* mining artifacts in a bounded least-recently-used list, and beside the  *)
(* list one `future' slot holding the artifact of the epoch after the      *)
(* highest one asked for.                                                  *)
(*                                                                         *)
(* get runs under lru.mu from its first to its last line, so one call is   *)
(* one step and concurrent callers are an arbitrary order of Get steps.    *)
(*                                                                         *)
(* An artifact is [epoch, id]: the epoch lru.new was called with, and the  *)
(* serial number of that call, which stands for the identity of the Go     *)
(* object.  Two artifacts of one epoch are equal in content and differ in  *)
(* id.                                                                     *)
(***************************************************************************)
EXTENDS Naturals, Sequences, SequencesExt

CONSTANTS
    MaxItems,   \* the maxItems argument of newlru
    MaxEpoch,   \* maxEpoch: get never pre-generates epoch MaxEpoch or later
    MaxBuilds,  \* model bound: how many times lru.new may be called
    NULL        \* Go's nil

ASSUME
    /\ MaxItems \in Nat
    /\ MaxEpoch \in Nat \ {0}
    /\ MaxBuilds \in Nat \ {0}

VARIABLES
    cache,       \* lru.cache: entries [key, item], most recently used first
    future,      \* lru.future: the epoch of the future slot, 0 for none
    futureItem,  \* lru.futureItem
    built,       \* calls of lru.new so far
    last,        \* the last call of get: its argument and both results
    highest,     \* history: the highest epoch get was called with
    handed       \* history: per epoch, the item get returned for it and
                 \* that has not left the cache since

vars == <<cache, future, futureItem, built, last, highest, handed>>

\* Callers derive the epoch from a block number that passed the range check.
Epochs == 0 .. MaxEpoch - 1

Item == [epoch : Epochs, id : 1 .. MaxBuilds]

Entry == [key : Epochs, item : Item]

-----------------------------------------------------------------------------
(* simplelru.LRU, the list lru.cache points to *)

\* newlru: a configured size of one or less is replaced by five.
Capacity == IF MaxItems <= 1 THEN 5 ELSE MaxItems

Holds(c, k) == \E i \in DOMAIN c : c[i].key = k

IndexOf(c, k) == CHOOSE i \in DOMAIN c : c[i].key = k

Lookup(c, k) == c[IndexOf(c, k)].item

\* LRU.Get on a key that is present: the entry moves to the front.
LruGet(c, k) == Cons(c[IndexOf(c, k)], RemoveAt(c, IndexOf(c, k)))

\* LRU.Add of a key that is absent: pushed to the front, and the oldest
\* entry removed when the list has outgrown its size.
LruAdd(c, k, v) ==
    LET grown == Cons([key |-> k, item |-> v], c)
    IN  IF Len(grown) > Capacity THEN Front(grown) ELSE grown

-----------------------------------------------------------------------------
(* lru.get *)

\* lru.new(epoch), called for the n-th time.
NewItem(e, n) == [epoch |-> e, id |-> n]

Hit(e) == Holds(cache, e)

\* A miss that the future slot answers.
FromFuture(e) == ~Hit(e) /\ future > 0 /\ future = e

\* A miss that nothing answers: the item is constructed now.
Fresh(e) == ~Hit(e) /\ ~FromFuture(e)

\* The item get returns for e.
ItemFor(e) ==
    CASE Hit(e)        -> Lookup(cache, e)
      [] FromFuture(e) -> futureItem
      [] OTHER         -> NewItem(e, built + 1)

\* A variant of CacheAfter that leaves an item taken from the future slot
\* out of the list.
CacheAfterFutureNotAdded(e) ==
    CASE Hit(e)        -> LruGet(cache, e)
      [] FromFuture(e) -> cache
      [] OTHER         -> LruAdd(cache, e, ItemFor(e))

\* The list after the lookup, and after the insertion that follows a miss.
CacheAfter(e) ==
    IF Hit(e) THEN LruGet(cache, e) ELSE LruAdd(cache, e, ItemFor(e))

\* A variant of StartsFuture without the comparison with lru.future.
StartsFutureAlways(e) == e < MaxEpoch - 1

\* A variant of StartsFuture without the ceiling.
StartsFutureNoCeiling(e) == future < e + 1

\* get pre-generates epoch e+1: e+1 is under the ceiling and the slot is
\* for an earlier epoch, or empty.
StartsFuture(e) == e < MaxEpoch - 1 /\ future < e + 1

BuildsOf(e) == (IF Fresh(e) THEN 1 ELSE 0) + (IF StartsFuture(e) THEN 1 ELSE 0)

Init ==
    /\ cache = <<>>
    /\ future = 0
    /\ futureItem = NULL
    /\ built = 0
    /\ last = NULL
    /\ highest = 0
    /\ handed = [e \in Epochs |-> NULL]

Get(e) ==
    LET item == ItemFor(e)
        pre  == StartsFuture(e)
    IN  /\ built + BuildsOf(e) <= MaxBuilds
        /\ cache' = CacheAfter(e)
        /\ future' = IF pre THEN e + 1 ELSE future
        /\ futureItem' = IF pre THEN NewItem(e + 1, built + BuildsOf(e))
                                ELSE futureItem
        /\ built' = built + BuildsOf(e)
        /\ last' = [epoch  |-> e,
                    item   |-> item,
                    future |-> IF e + 1 # future' THEN NULL ELSE futureItem']
        /\ highest' = IF e > highest THEN e ELSE highest
        /\ handed' = [x \in Epochs |->
                        CASE x = e            -> item
                          [] Holds(cache', x) -> handed[x]
                          [] OTHER            -> NULL]

Next == \E e \in Epochs : Get(e)

Spec == Init /\ [][Next]_vars

-----------------------------------------------------------------------------
(* Properties *)

\* Every artifact, in the list, in the slot or returned, is of an epoch
\* under maxEpoch: get(maxEpoch-1) pre-generates nothing.
TypeOK ==
    /\ cache \in Seq(Entry)
    /\ future \in Epochs
    /\ futureItem \in Item \cup {NULL}
    /\ built \in 0 .. MaxBuilds
    /\ last \in [epoch : Epochs, item : Item \cup {NULL},
                 future : Item \cup {NULL}] \cup {NULL}
    /\ highest \in Epochs
    /\ handed \in [Epochs -> Item \cup {NULL}]

\* The comment on lru.future, below the ceiling: while every epoch asked for
\* is under MaxEpoch-1, the future slot is for the highest of them plus one.
\* A request for an old epoch must not move the slot back.
FutureTracksHighestSeen ==
    (last # NULL /\ highest < MaxEpoch - 1) =>
        /\ future = highest + 1
        /\ futureItem # NULL /\ futureItem.epoch = future

Contract ==
    INSTANCE DatasetCache WITH Epochs <- Epochs, Items <- Item,
                               Capacity <- Capacity, kept <- handed, answer <- last

\* lru implements the cache its callers rely on: get answers with an
\* artifact of the epoch asked for, the identical one as long as the list
\* has kept it (also when the first call took it out of the future slot),
\* and with nothing or an artifact of the next epoch beside it; no more than
\* the configured number are kept.  It is the pairing of lru.future with
\* lru.futureItem, and of both with the list, over many calls that makes
\* this true.
ImplementsDatasetCache == Contract!Spec

\* The cache never holds two artifacts of one epoch at the same time, one in
\* the list and one in the future slot: an epoch is constructed again only
\* after its artifact is gone.  The code breaks this at the ceiling.
OneLiveItemPerEpoch ==
    \A i \in DOMAIN cache :
        (futureItem # NULL /\ cache[i].item.epoch = futureItem.epoch)
            => cache[i].item = futureItem

=============================================================================
