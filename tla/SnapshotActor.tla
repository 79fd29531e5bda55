--------------------------- MODULE SnapshotActor ---------------------------
(***************************************************************************)
(* Snapshot actors (store/src/snapshot.rs) over the stores of one fjall    *)
(* database.  Each has a snapshotter as its child, which keeps its whole   *)
(* state under key 0 of the store of its id.  `save` only tells the        *)
(* snapshotter, `load` asks it and waits.  The other stores of the         *)
(* database, those of journals for one, belong to tasks that do with them  *)
(* whatever a handle can.                                                  *)
(*                                                                         *)
(* A state is abstracted to its version, the number of updates it has      *)
(* seen; 0 is the value the actor is created with.  pre_start is           *)
(* init_state, as in the module's test.                                    *)
(***************************************************************************)
EXTENDS FjallStore

CONSTANTS
    Actors,         \* the ids that are snapshot actors
    MaxVersion,     \* bound: updates of a state
    MailboxSize,    \* Config::mailbox_size of the snapshotters
    MaxFaults       \* bound: reads and writes of snapshots that fail

Versions == 0..MaxVersion

ASSUME SnapshotAssumption ==
    /\ MaxVersion \in Nat
    /\ MailboxSize \in Nat \ {0}
    /\ MaxFaults \in Nat
    /\ Actors \subseteq Ids
    /\ Values = Versions
    /\ 0 \in Keys

VARIABLES
    phase,          \* where the actor is
    state,          \* the version of its state
    registered,     \* the actors whose snapshotter the registry knows
    alive,          \* the actors whose snapshotter runs
    ending,         \* those of alive with an unread Stop or Restart
    box,            \* the mailboxes of the snapshotters
    faults,         \* failures so far
    told,           \* history: the version of the life's last save, or Untold
    failed,         \* history: a save or a load of this life failed
    misled          \* history: the last load failed, on whatever it hid

vars == <<store, phase, state, registered, alive, ending, box, faults, told,
          failed, misled>>

Untold == -1

\* SnapshotMessage::LoadSnapshot and SaveSnapshot, both for key 0.
LoadMessage == [save |-> FALSE, version |-> 0]
SaveMessage(v) == [save |-> TRUE, version |-> v]

\* The version under key 0, or Untold.
Stored(a) == IF Has(space[a], 0) THEN space[a][0] ELSE Untold

Init ==
    /\ StoreInit
    /\ phase = [a \in Actors |-> "down"]
    /\ state = [a \in Actors |-> 0]
    /\ registered = {} /\ alive = {} /\ ending = {}
    /\ box = [a \in Actors |-> <<>>]
    /\ faults = 0
    /\ told = [a \in Actors |-> Untold]
    /\ failed = [a \in Actors |-> FALSE]
    /\ misled = [a \in Actors |-> FALSE]

\* Mutant: the newest message is taken first.
SendFirst(a, message) ==
    /\ a \in registered
    /\ Len(box[a]) < MailboxSize
    /\ box' = [box EXCEPT ![a] = <<message>> \o @]

\* ActorRef::tell and ask to the snapshotter: wait for room in its mailbox.
Send(a, message) ==
    /\ a \in registered
    /\ Len(box[a]) < MailboxSize
    /\ box' = [box EXCEPT ![a] = Append(@, message)]

-----------------------------------------------------------------------------
(* The actor. *)

\* pre_start: create_store makes the snapshotter, load asks it at once.  When
\* the registry still knows an earlier one create_child fails, and with it the
\* startup: nothing changes, so this is no step.
Start(a) ==
    /\ phase[a] = "down"
    /\ a \notin registered
    /\ registered' = registered \cup {a}
    /\ alive' = alive \cup {a}
    /\ box' = [box EXCEPT ![a] = <<LoadMessage>>]
    /\ phase' = [phase EXCEPT ![a] = "loading"]
    /\ state' = [state EXCEPT ![a] = 0]
    /\ told' = [told EXCEPT ![a] = Untold]
    /\ failed' = [failed EXCEPT ![a] = FALSE]
    /\ UNCHANGED <<store, ending, faults, misled>>

\* A handler changes the state.
Update(a) ==
    /\ phase[a] = "running"
    /\ state[a] < MaxVersion
    /\ state' = [state EXCEPT ![a] = @ + 1]
    /\ UNCHANGED <<store, phase, registered, alive, ending, box, faults, told,
                   failed, misled>>

\* save: the state is serialized now and stored later.
Save(a) ==
    /\ phase[a] = "running"
    /\ Send(a, SaveMessage(state[a]))
    /\ told' = [told EXCEPT ![a] = state[a]]
    /\ UNCHANGED <<store, phase, state, registered, alive, ending, faults,
                   failed, misled>>

\* load, in a handler.
Load(a) ==
    /\ phase[a] = "running"
    /\ Send(a, LoadMessage)
    /\ phase' = [phase EXCEPT ![a] = "loading"]
    /\ UNCHANGED <<store, state, registered, alive, ending, faults, told,
                   failed, misled>>

\* ChildAction::Stop: stop_children takes the snapshotter out of the registry
\* and sends it a Stop.  Handlers that run until it has stopped find no
\* snapshotter, so that save and load answer Err.
Stop(a) ==
    /\ phase[a] = "running"
    /\ registered' = registered \ {a}
    /\ ending' = ending \cup {a}
    /\ phase' = [phase EXCEPT ![a] = "stopping"]
    /\ UNCHANGED <<store, state, alive, box, faults, told, failed, misled>>

\* ChildAction::Restart: the snapshotter is told to restart, which under its
\* default strategy ends it, and is left in the registry, so that every
\* init_state from then on fails and the actor ends.
Restart(a) ==
    /\ phase[a] = "running"
    /\ ending' = ending \cup {a}
    /\ phase' = [phase EXCEPT ![a] = "down"]
    /\ UNCHANGED <<store, state, registered, alive, box, faults, told, failed,
                   misled>>

-----------------------------------------------------------------------------
(* The snapshotter. *)

\* SnapshotMessage::SaveSnapshot: put under key 0.
SaveSnapshot(a) ==
    /\ a \in alive /\ box[a] # <<>> /\ Head(box[a]).save
    /\ Put(a, 0, Head(box[a]).version)
    /\ box' = [box EXCEPT ![a] = Tail(@)]
    /\ UNCHANGED <<phase, state, registered, alive, ending, faults, told,
                   failed, misled>>

\* The write fails; its error answers a tell, so nobody learns of it.
SaveFails(a) ==
    /\ a \in alive /\ box[a] # <<>> /\ Head(box[a]).save
    /\ faults < MaxFaults
    /\ faults' = faults + 1
    /\ failed' = [failed EXCEPT ![a] = TRUE]
    /\ box' = [box EXCEPT ![a] = Tail(@)]
    /\ UNCHANGED <<store, phase, state, registered, alive, ending, told, misled>>

\* Mutant: the actor does not wait for the answer, so what its handlers do
\* next comes before it.
LoadAnsweredEarly(a) ==
    /\ a \in alive /\ \E i \in DOMAIN box[a] : ~box[a][i].save
    /\ phase[a] = "loading"
    /\ box' = [box EXCEPT ![a] = SelectSeq(@, LAMBDA m : m.save)]
    /\ state' = [state EXCEPT ![a] =
                    IF Get(a, 0) # <<>> THEN Get(a, 0)[1] ELSE @]
    /\ phase' = [phase EXCEPT ![a] = "running"]
    /\ misled' = [misled EXCEPT ![a] = FALSE]
    /\ UNCHANGED <<store, registered, alive, ending, faults, told, failed>>

\* Mutant: another key is loaded than the one that is saved.
LoadOtherKey(a) ==
    /\ a \in alive /\ box[a] # <<>> /\ ~Head(box[a]).save
    /\ phase[a] = "loading"
    /\ box' = [box EXCEPT ![a] = Tail(@)]
    /\ state' = [state EXCEPT ![a] =
                    IF Get(a, 1) # <<>> THEN Get(a, 1)[1] ELSE @]
    /\ phase' = [phase EXCEPT ![a] = "running"]
    /\ misled' = [misled EXCEPT ![a] = FALSE]
    /\ UNCHANGED <<store, registered, alive, ending, faults, told, failed>>

\* SnapshotMessage::LoadSnapshot: get of key 0, and the rest of load.  Without
\* an entry load answers Err, which init_state ignores.
AnswerLoad(a) ==
    /\ a \in alive /\ box[a] # <<>> /\ ~Head(box[a]).save
    /\ phase[a] = "loading"
    /\ box' = [box EXCEPT ![a] = Tail(@)]
    /\ state' = [state EXCEPT ![a] =
                    IF Get(a, 0) # <<>> THEN Get(a, 0)[1] ELSE @]
    /\ phase' = [phase EXCEPT ![a] = "running"]
    /\ misled' = [misled EXCEPT ![a] = FALSE]
    /\ UNCHANGED <<store, registered, alive, ending, faults, told, failed>>

\* The read fails: load_snapshot makes None of the error, so the actor cannot
\* tell it from the absence of a snapshot and goes on with the state it has.
LoadMisread(a) ==
    /\ a \in alive /\ box[a] # <<>> /\ ~Head(box[a]).save
    /\ phase[a] = "loading"
    /\ faults < MaxFaults
    /\ faults' = faults + 1
    /\ box' = [box EXCEPT ![a] = Tail(@)]
    /\ phase' = [phase EXCEPT ![a] = "running"]
    /\ failed' = [failed EXCEPT ![a] = TRUE]
    /\ misled' = [misled EXCEPT ![a] = TRUE]
    /\ UNCHANGED <<store, state, registered, alive, ending, told>>

\* Mutant: the end of the snapshotter leaves its Stop behind.
StopLeftBehind(a) ==
    /\ a \in alive \cap ending
    /\ alive' = alive \ {a}
    /\ box' = [box EXCEPT ![a] = <<>>]
    /\ phase' = IF phase[a] = "stopping"
                THEN [phase EXCEPT ![a] = "down"] ELSE phase
    /\ UNCHANGED <<store, state, registered, ending, faults, told, failed, misled>>

\* The snapshotter takes its Stop or Restart: its unread messages are dropped.
\* The actor that stops has no other child, so it ends with it.
SnapshotterStop(a) ==
    /\ a \in alive \cap ending
    /\ alive' = alive \ {a}
    /\ ending' = ending \ {a}
    /\ box' = [box EXCEPT ![a] = <<>>]
    /\ phase' = IF phase[a] = "stopping"
                THEN [phase EXCEPT ![a] = "down"] ELSE phase
    /\ UNCHANGED <<store, state, registered, faults, told, failed, misled>>

-----------------------------------------------------------------------------
\* The process dies: only the database survives.
Crash ==
    /\ StoreCrash
    /\ phase' = [a \in Actors |-> "down"]
    /\ registered' = {} /\ alive' = {} /\ ending' = {}
    /\ box' = [a \in Actors |-> <<>>]
    /\ UNCHANGED <<state, faults, told, failed, misled>>

Snapshotting(a) ==
    \/ Start(a) \/ Update(a) \/ Save(a) \/ Load(a) \/ Stop(a) \/ Restart(a)
    \/ SaveSnapshot(a) \/ SaveFails(a) \/ AnswerLoad(a) \/ LoadMisread(a)
    \/ SnapshotterStop(a)

\* What the owners of the other stores do.
StoreUse(p) ==
    /\ \/ \E k \in Keys : Del(p, k) \/ \E v \in Values : Put(p, k, v)
       \/ PurgeStart(p) \/ PurgeRemove(p) \/ PurgeDone(p) \/ PurgeFails(p)
    /\ UNCHANGED <<phase, state, registered, alive, ending, box, faults, told,
                   failed, misled>>

Next ==
    \/ \E a \in Actors : Snapshotting(a)
    \/ \E p \in Ids \ Actors : StoreUse(p)
    \/ Crash

Spec == Init /\ [][Next]_vars

-----------------------------------------------------------------------------
(* Which ids do not share entries: what theorems assume. *)

\* No scan of a store that does not belong to a snapshot actor meets the
\* entries of one that does.
ActorsApart == \A a \in Actors, p \in Ids \ Actors : <<a, p>> \notin Begins

\* A store that is purged, which those of snapshot actors are not, has an id
\* with which no other begins.
PurgesApart == \A p \in Ids \ Actors, q \in Ids : <<q, p>> \notin Begins

-----------------------------------------------------------------------------
(* Properties. *)

Messages == {LoadMessage} \cup {SaveMessage(v) : v \in Versions}

\* The types of the actors' and snapshotters' fields and of the database.
TypeOK ==
    /\ StoreTypeOK
    /\ phase \in [Actors -> {"down", "loading", "running", "stopping"}]
    /\ state \in [Actors -> Versions]
    /\ registered \subseteq Actors /\ alive \subseteq Actors
    /\ ending \subseteq alive
    /\ box \in [Actors -> Seq(Messages)]
    /\ faults \in 0..MaxFaults
    /\ told \in [Actors -> Versions \cup {Untold}]
    /\ failed \in [Actors -> BOOLEAN] /\ misled \in [Actors -> BOOLEAN]

\* A snapshot is saved by whatever snapshotter comes to it, but there is never
\* a second one on the store: what is stored is not ahead of what waits to be
\* stored, in its order, and that is not ahead of the actor, unless a load
\* took a read error for the absence of a snapshot
\* (store/src/snapshotter.rs:79, store/src/snapshot.rs:165).
SnapshotsInOrder ==
    \A a \in Actors : ~misled[a] =>
        /\ phase[a] = "running" => Stored(a) <= state[a]
        /\ \A i \in DOMAIN box[a] : box[a][i].save =>
            /\ Stored(a) <= box[a][i].version
            /\ phase[a] \in {"running", "loading"} =>
                box[a][i].version <= state[a]
            /\ \A j \in 1..i : box[a][j].version <= box[a][i].version

\* A snapshot is not replaced by an older state, whatever stops, crashes and
\* starts anew in between, unless a load took a read error for the absence of
\* a snapshot (store/src/snapshotter.rs:59).
SavedNeverGoesBack ==
    [][\A a \in Actors : ~misled[a] => Stored(a) <= Stored(a)']_vars

\* load after save yields what was saved, although the save is only told and
\* may still be in the mailbox when the load is asked, unless one of the two
\* failed (store/src/snapshot.rs:59, 85).
ReadYourSaves ==
    [][\A a \in Actors :
        phase[a] = "loading" /\ phase'[a] = "running"
        /\ told[a] # Untold /\ ~failed'[a] => state'[a] = told[a]]_vars
=============================================================================
