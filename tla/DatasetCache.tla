---------------------------- MODULE DatasetCache ----------------------------
(***************************************************************************)
(* What the epoch dataset cache promises its callers, whatever it keeps    *)
(* its items in: get(epoch) answers with an item of that epoch, the very   *)
(* item of the answer before if the cache has kept it since, and with      *)
(* nothing or an item of the next epoch beside it.  What the cache keeps   *)
(* is bounded and its choice of what to drop is free, but for the item it  *)
(* has just answered with.                                                 *)
(***************************************************************************)
EXTENDS Naturals, FiniteSets

CONSTANTS
    Epochs,    \* the epochs get is called with
    Items,     \* the items: records with an epoch, told apart by identity
    Capacity,  \* how many answered items the cache keeps at most
    NULL

VARIABLES
    kept,    \* per epoch, the item answered with and kept since, or NULL
    answer   \* the last call: its epoch and its two results

vars == <<kept, answer>>

Answers == [epoch : Epochs, item : Items, future : Items \cup {NULL}]

Init ==
    /\ kept = [e \in Epochs |-> NULL]
    /\ answer = NULL

\* What may be kept after item was answered for epoch e.
KeptAfter(e, item) ==
    {k \in [Epochs -> Items \cup {NULL}] :
        /\ k[e] = item
        /\ \A x \in Epochs \ {e} : k[x] \in {kept[x], NULL}
        /\ Cardinality({x \in Epochs : k[x] # NULL}) <= Capacity}

Get(e) ==
    \E item \in Items, future \in Items \cup {NULL} :
        /\ item.epoch = e
        /\ kept[e] # NULL => item = kept[e]
        /\ future # NULL => future.epoch = e + 1
        /\ answer' = [epoch |-> e, item |-> item, future |-> future]
        /\ kept' \in KeptAfter(e, item)

Next == \E e \in Epochs : Get(e)

Spec == Init /\ [][Next]_vars
=============================================================================
