------------------------------- MODULE Stores -------------------------------
(***************************************************************************)
(* What the stores of a database promise (store/src/stores/mod.rs): one    *)
(* ordered map for each id, that is for each pair of name and prefix.  An  *)
(* operation on one id has no effect on another and is not affected by it. *)
(* Every operation is one step, except that a purge may also remove one    *)
(* entry after the other and be left half done by an error or a crash;     *)
(* when it answers Ok its store is empty.                                  *)
(*                                                                         *)
(* The memory back end (store/src/stores/memory.rs), which holds the lock  *)
(* of the map for all of a purge, takes the steps Put, Del and Purge;      *)
(* FjallStore, the module of the other back end, is shown to implement     *)
(* this specification as long as no purge meets another id.  create_store  *)
(* gives a handle of the map of its id; an id that has no handle yet is    *)
(* the same as an empty map.                                               *)
(***************************************************************************)
EXTENDS StoreIterators

CONSTANTS Ids, Keys, Values

VARIABLES
    maps,     \* the entries of each id
    purge     \* each id's purge: on its way, answered, or long past

Purges == {"none", "busy", "ok", "err"}

Init ==
    /\ maps = [p \in Ids |-> EmptyStore]
    /\ purge = [p \in Ids |-> "none"]

\* An operation other than purge that changes the map of p.
Write(p, map) ==
    /\ purge[p] # "busy"
    /\ maps' = [maps EXCEPT ![p] = map]
    /\ purge' = [purge EXCEPT ![p] = "none"]

\* Store::put.
Put(p, k, v) == Write(p, StorePut(maps[p], k, v))

\* Store::del.
Del(p, k) == Write(p, StoreDel(maps[p], k))

\* Store::purge as one step.
Purge(p) ==
    /\ purge[p] # "busy"
    /\ maps' = [maps EXCEPT ![p] = EmptyStore]
    /\ purge' = [purge EXCEPT ![p] = "ok"]

\* Store::purge as many steps.
PurgeStart(p) ==
    /\ purge[p] # "busy"
    /\ purge' = [purge EXCEPT ![p] = "busy"]
    /\ UNCHANGED maps

PurgeKey(p) ==
    /\ purge[p] = "busy"
    /\ \E k \in DOMAIN maps[p] : maps' = [maps EXCEPT ![p] = StoreDel(@, k)]
    /\ UNCHANGED purge

PurgeOk(p) ==
    /\ purge[p] = "busy"
    /\ maps[p] = EmptyStore
    /\ purge' = [purge EXCEPT ![p] = "ok"]
    /\ UNCHANGED maps

PurgeErr(p) ==
    /\ purge[p] = "busy"
    /\ purge' = [purge EXCEPT ![p] = "err"]
    /\ UNCHANGED maps

\* The process dies.
Crash == purge' = [p \in Ids |-> "none"] /\ UNCHANGED maps

\* Store::get.
Get(p, k) == IF Has(maps[p], k) THEN <<maps[p][k]>> ELSE <<>>

\* Store::last, and Store::iter with each of its options.
Last(p) == LastOf(Scan(maps[p]))
Forward(p, from, count) == ForwardOf(Scan(maps[p]), from, count)
Backward(p, from, count) == ReverseOf(Scan(maps[p]), from, count)
Range_(p, from, to) == RangeOf(Scan(maps[p]), from, to)

Next ==
    \/ \E p \in Ids :
        \/ \E k \in Keys : Del(p, k) \/ \E v \in Values : Put(p, k, v)
        \/ Purge(p) \/ PurgeStart(p) \/ PurgeKey(p) \/ PurgeOk(p) \/ PurgeErr(p)
    \/ Crash

Spec == Init /\ [][Next]_<<maps, purge>>
=============================================================================
