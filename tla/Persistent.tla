----------------------------- MODULE Persistent -----------------------------
(***************************************************************************)
(* A persistent actor (store/src/persist.rs) with its two children, the    *)
(* journal actor and the snapshotter actor (store/src/snapshotter.rs),     *)
(* through starts, graceful stops, restarts and crashes of the process.    *)
(*                                                                         *)
(* The actor asks its journal and waits for the answer, so journal writes  *)
(* are steps of the actor.  It only tells the snapshotter, so snapshots    *)
(* wait in a mailbox; and because a stop reaches a child through a         *)
(* different channel than its messages, a snapshotter may stop with        *)
(* messages unread, and may outlive the actor that created it.  Each start *)
(* creates a new pair of children, a generation.                           *)
(*                                                                         *)
(* The actor's state is kept as: for every journal position, the events of *)
(* that position it has applied, in order.  It is complete when each       *)
(* position holds its event exactly once.                                  *)
(*                                                                         *)
(* The user's hooks are the documented ones (README.md:112-118): pre_start *)
(* is init_state, pre_stop is flush.  The stores' own flush does nothing,  *)
(* so the Flush messages are left out.                                     *)
(***************************************************************************)
EXTENDS BaseJournal, Sequences

CONSTANTS
    Events,        \* the payloads
    MaxEvents,     \* bound: positions of the journal that are written
    MaxStarts,     \* bound: how often the actor is started
    MaxRetries,    \* max_retries of the Retry strategy; 0 is strategy Stop
    MaxFaults,     \* bound: failures of apply_event and of store writes
    MailboxSize,   \* Config::mailbox_size of the snapshotter
    InsertAhead,   \* how far past the last event insert_event may reach
    MaxInserts,    \* bound: positions that insert_event rewrites
    MayRestart,    \* whether a supervisor sends the actor Restart
    MayCrash       \* whether the process may die

ASSUME PersistentAssumption ==
    /\ MaxEvents \in Nat \ {0}
    /\ MaxStarts \in Nat
    /\ MaxRetries \in Nat
    /\ MaxFaults \in Nat
    /\ MailboxSize \in Nat \ {0}
    /\ InsertAhead \in Nat
    /\ MaxInserts \in Nat
    /\ MayRestart \in BOOLEAN /\ MayCrash \in BOOLEAN

Positions == 0..(MaxEvents - 1)
Gens == 1..MaxStarts
Children == {"journal", "snapshotter"}

VARIABLES
    \* on disk
    journal,        \* the journal's store
    snaps,          \* the snapshotter's store: position -> state
    \* the actor
    phase,          \* where its runner is
    state,          \* its in-memory state
    from,           \* init_state: the snapshot's position
    pending,        \* persist: the position being applied
    retries,        \* ActorRunner::init's retry counter
    signals,        \* Stopped signals of its children that wait for it
    \* its children
    registered,     \* children the shared registry knows
    next_sequence,  \* of the current journal actor
    gen,            \* current generation
    alive,          \* generations whose snapshotter runs
    ending,         \* snapshotters with an unread Stop or Restart action
    box,            \* mailboxes of the snapshotters
    \* bound and history
    faults,         \* failures so far
    acked,          \* history: what persist has answered Ok for
    refused,        \* history: journalled, but persist answered Err
    corrected       \* history: positions rewritten by insert_event

disk == <<journal, snaps>>
actor == <<phase, state, from, pending, retries, signals>>
children == <<registered, next_sequence, gen, alive, ending, box>>
history == <<acked, refused, corrected>>
vars == <<disk, actor, children, faults, history>>

States == [Positions -> Seq(Events)]
Fresh == [p \in Positions |-> <<>>]
Snapshots == [key : Positions, data : States]

\* apply_event for every entry of m, each at its position.
ApplyAll(st, m) ==
    [p \in Positions |-> IF p \in DOMAIN m THEN Append(st[p], m[p]) ELSE st[p]]

Init ==
    /\ journal = EmptyStore /\ snaps = EmptyStore
    /\ phase = "down" /\ state = Fresh /\ from = 0 /\ pending = 0
    /\ retries = 0 /\ signals = {}
    /\ registered = {} /\ next_sequence = 0
    /\ gen = 0 /\ alive = {} /\ ending = {}
    /\ box = [g \in Gens |-> <<>>]
    /\ faults = 0
    /\ acked = EmptyStore /\ refused = {} /\ corrected = {}

\* The actor's runner ends and its value and context are dropped.
ActorEnds ==
    /\ phase' = "down"
    /\ state' = Fresh
    /\ from' = 0
    /\ pending' = 0
    /\ retries' = 0
    /\ signals' = {}

-----------------------------------------------------------------------------
(* Startup: pre_start calls init_state. *)

\* create_stores: refused as soon as a child of an earlier attempt is still
\* registered; otherwise a new journal and snapshotter run on the stores.
CreateStores ==
    \/ /\ registered # {}
       /\ phase' = "retrying"
       /\ UNCHANGED children
    \/ /\ registered = {}
       /\ gen < MaxStarts
       /\ gen' = gen + 1
       /\ alive' = alive \cup {gen + 1}
       /\ registered' = Children
       /\ next_sequence' = NewNextSequence(journal)
       /\ phase' = "loading"
       /\ UNCHANGED <<ending, box>>

\* create_actor with a new actor value (the state of an ended one is Fresh).
Start ==
    /\ phase = "down"
    /\ CreateStores
    /\ UNCHANGED <<disk, state, from, pending, retries, signals, faults, history>>

\* last_snapshot of a snapshotter that has one: the one with the greatest key.
LastSnapshot == [key |-> LastKey(snaps), data |-> snaps[LastKey(snaps)]]

\* init_state asks for the last snapshot and takes its state.
LoadSnapshot ==
    /\ phase = "loading"
    /\ phase' = "replaying"
    /\ \/ /\ DOMAIN snaps = {}
          /\ from' = 0
          /\ UNCHANGED state
       \/ /\ DOMAIN snaps # {}
          /\ from' = LastSnapshot.key
          /\ state' = LastSnapshot.data
    /\ UNCHANGED <<disk, pending, retries, signals, children, faults, history>>

\* Mutant: the snapshot's own position is replayed too.
ReplayFromSnapshot == RangeToLatest(journal, next_sequence, from)

\* The events that init_state replays: Range(from + 1, None), also when there
\* was no snapshot and from is 0.
Replayed == RangeToLatest(journal, next_sequence, from + 1)

\* init_state applies them all.
Replay ==
    /\ phase = "replaying"
    /\ state' = ApplyAll(state, Replayed)
    /\ phase' = "idle"
    /\ retries' = 0
    /\ from' = 0
    /\ UNCHANGED <<disk, pending, signals, children, faults, history>>

\* apply_event fails at some position: init_state returns with the events
\* before it applied and both children running.
ReplayFails ==
    /\ phase = "replaying"
    /\ faults < MaxFaults
    /\ faults' = faults + 1
    /\ \E p \in DOMAIN Replayed :
        state' = ApplyAll(state, StoreRange(Replayed, 0, p - 1))
    /\ phase' = "retrying"
    /\ UNCHANGED <<disk, from, pending, retries, signals, children, history>>

\* Mutant: the attempt is not counted.
RetryUncounted ==
    /\ phase = "retrying"
    /\ retries < MaxRetries
    /\ CreateStores
    /\ UNCHANGED <<disk, state, from, pending, retries, signals, faults, history>>

\* apply_supervision_strategy: pre_restart runs pre_start again on the same
\* actor value and the same context.
Retry ==
    /\ phase = "retrying"
    /\ retries < MaxRetries
    /\ retries' = retries + 1
    /\ CreateStores
    /\ UNCHANGED <<disk, state, from, pending, signals, faults, history>>

\* Retries exhausted (or strategy Stop): Failed, Stopped, Terminated.  The
\* children are neither stopped nor taken out of the registry.
GiveUp ==
    /\ phase = "retrying"
    /\ retries >= MaxRetries
    /\ ActorEnds
    /\ UNCHANGED <<disk, children, faults, history>>

-----------------------------------------------------------------------------
(* Messages of the running actor. *)

\* persist, up to the journal's answer.  A refused write changes nothing.
Persist(e) ==
    /\ phase = "idle"
    /\ next_sequence < MaxEvents
    /\ journal' = StorePut(journal, next_sequence, e)
    /\ next_sequence' = next_sequence + 1
    /\ pending' = next_sequence
    /\ phase' = "applying"
    /\ UNCHANGED <<snaps, state, from, retries, signals, registered, gen,
                   alive, ending, box, faults, history>>

\* Mutant: the event is answered Ok without being applied.
ApplyForgotten ==
    /\ phase = "applying"
    /\ acked' = StorePut(acked, pending, journal[pending])
    /\ phase' = "idle"
    /\ UNCHANGED <<disk, state, from, pending, retries, signals, children, faults,
                   refused, corrected>>

\* persist, after the journal answered: apply_event and answer Ok(sn).
Apply ==
    /\ phase = "applying"
    /\ state' = ApplyAll(state, StoreRange(journal, pending, pending))
    /\ acked' = StorePut(acked, pending, journal[pending])
    /\ phase' = "idle"
    /\ UNCHANGED <<disk, from, pending, retries, signals, children, faults,
                   refused, corrected>>

\* apply_event fails: persist answers Err, the journal keeps the event.
ApplyFails ==
    /\ phase = "applying"
    /\ faults < MaxFaults
    /\ faults' = faults + 1
    /\ refused' = refused \cup {pending}
    /\ phase' = "idle"
    /\ UNCHANGED <<disk, state, from, pending, retries, signals, children,
                   acked, corrected>>

\* insert_event: the journal changes, the state does not.
InsertEvent(s, e) ==
    /\ phase = "idle"
    /\ s < next_sequence + InsertAhead
    /\ Cardinality(corrected \cup {s}) <= MaxInserts
    /\ journal' = StorePut(journal, s, e)
    /\ corrected' = corrected \cup {s}
    /\ UNCHANGED <<snaps, actor, children, faults, acked, refused>>

\* Mutant: the snapshot carries the next position instead of the last one.
CurrentSnapshotNext == [key |-> next_sequence, data |-> state]

\* The message that `snapshot` tells the snapshotter.
CurrentSnapshot == [key |-> LatestSequence(next_sequence), data |-> state]

\* snapshot: wait for room in the mailbox, then tell.
TellSnapshot ==
    /\ Len(box[gen]) < MailboxSize
    /\ box' = [box EXCEPT ![gen] = Append(@, CurrentSnapshot)]

\* flush: snapshot, then a Flush to both children, which does nothing there.
Flush == TellSnapshot

\* A handler takes a snapshot, or flushes.
Snapshot ==
    /\ phase = "idle"
    /\ TellSnapshot
    /\ UNCHANGED <<disk, actor, registered, next_sequence, gen, alive, ending,
                   faults, history>>

\* What a running actor reads of its journal: the number of the last event,
\* an event, a range up to the last event, and the last event; <<>> is an
\* error or no event.
LastSequence == LatestSequence(next_sequence)
GetEvent(s) == IF Has(journal, s) THEN <<journal[s]>> ELSE <<>>
GetEvents(first) == RangeToLatest(journal, next_sequence, first)
LastEvent == GetEvent(LastSequence)

-----------------------------------------------------------------------------
(* Stop and restart. *)

\* ChildAction::Stop: pre_stop flushes, then stop_children unregisters both
\* children and sends each a Stop on its action channel.
Stop ==
    /\ phase = "idle"
    /\ Flush
    /\ ending' = ending \cup {gen}
    /\ registered' = {}
    /\ phase' = "stopping"
    /\ UNCHANGED <<disk, state, from, pending, retries, signals,
                   next_sequence, gen, alive, faults, history>>

\* The journal actor takes its Stop; nothing of its work is pending.
JournalStop ==
    /\ phase = "stopping"
    /\ "journal" \notin signals
    /\ signals' = signals \cup {"journal"}
    /\ UNCHANGED <<disk, phase, state, from, pending, retries, children,
                   faults, history>>

\* Mutant: the test for remaining children is inverted.
TerminateInverted ==
    /\ phase = "stopping"
    /\ signals # {}
    /\ registered # {}
    /\ ActorEnds
    /\ UNCHANGED <<disk, children, faults, history>>

\* A Stopped signal removes the child; with no child registered the actor
\* stops.
Terminate ==
    /\ phase = "stopping"
    /\ signals # {}
    /\ registered = {}
    /\ ActorEnds
    /\ UNCHANGED <<disk, children, faults, history>>

\* ChildAction::Restart: the children are told to restart, which under their
\* default strategy ends them, and the actor goes through its own strategy.
Restart ==
    /\ MayRestart
    /\ phase = "idle"
    /\ ending' = ending \cup {gen}
    /\ phase' = "retrying"
    /\ UNCHANGED <<disk, state, from, pending, retries, signals, registered,
                   next_sequence, gen, alive, box, faults, history>>

-----------------------------------------------------------------------------
(* The snapshotter of generation g: its runner picks at random between its *)
(* mailbox and its action channel when both have something.                *)

\* Mutant: the snapshot is saved under the journal's position at that time.
SaveUnderLatest(g) ==
    /\ g \in alive
    /\ box[g] # <<>>
    /\ box' = [box EXCEPT ![g] = Tail(@)]
    /\ snaps' = StorePut(snaps, LatestSequence(next_sequence), Head(box[g]).data)
    /\ UNCHANGED <<journal, actor, registered, next_sequence, gen, alive,
                   ending, faults, history>>

\* SnapshotMessage::SaveSnapshot.  A store error is answered to nobody.
Save(g) ==
    /\ g \in alive
    /\ box[g] # <<>>
    /\ box' = [box EXCEPT ![g] = Tail(@)]
    /\ \/ /\ snaps' = StorePut(snaps, Head(box[g]).key, Head(box[g]).data)
          /\ UNCHANGED faults
       \/ /\ faults < MaxFaults
          /\ faults' = faults + 1
          /\ UNCHANGED snaps
    /\ UNCHANGED <<journal, actor, registered, next_sequence, gen, alive,
                   ending, history>>

\* The snapshotter takes its Stop or Restart: unread messages are dropped.
SnapshotterStop(g) ==
    /\ g \in alive \cap ending
    /\ alive' = alive \ {g}
    /\ ending' = ending \ {g}
    /\ box' = [box EXCEPT ![g] = <<>>]
    /\ signals' = IF g = gen /\ phase = "stopping"
                  THEN signals \cup {"snapshotter"} ELSE signals
    /\ UNCHANGED <<disk, phase, state, from, pending, retries, registered,
                   next_sequence, gen, faults, history>>

\* The process dies: only the stores survive.
Crash ==
    /\ MayCrash
    /\ ActorEnds
    /\ registered' = {}
    /\ alive' = {}
    /\ ending' = {}
    /\ box' = [g \in Gens |-> <<>>]
    /\ UNCHANGED <<disk, next_sequence, gen, faults, history>>

Next ==
    \/ Start \/ LoadSnapshot \/ Replay \/ ReplayFails \/ Retry \/ GiveUp
    \/ \E e \in Events : Persist(e) \/ \E s \in Positions : InsertEvent(s, e)
    \/ Apply \/ ApplyFails \/ Snapshot
    \/ Stop \/ JournalStop \/ Terminate \/ Restart
    \/ \E g \in Gens : Save(g) \/ SnapshotterStop(g)
    \/ Crash

Spec == Init /\ [][Next]_vars

\* Every task of the runtime that can make progress is polled again: the
\* startup of the actor, its answers, its end, and its children.
Fairness ==
    /\ WF_vars(LoadSnapshot) /\ WF_vars(Replay)
    /\ WF_vars(Retry) /\ WF_vars(GiveUp)
    /\ WF_vars(Apply)
    /\ WF_vars(JournalStop) /\ WF_vars(Terminate)
    /\ \A g \in Gens : WF_vars(Save(g)) /\ WF_vars(SnapshotterStop(g))

FairSpec == Spec /\ Fairness

-----------------------------------------------------------------------------
(* Properties. *)

\* The types of the actor's fields, its children's and the stores'.
TypeOK ==
    /\ IsStore(journal, Positions, Events)
    /\ IsStore(snaps, Positions, States)
    /\ phase \in {"down", "loading", "replaying", "idle", "applying",
                  "stopping", "retrying"}
    /\ state \in States
    /\ from \in Positions
    /\ pending \in Positions
    /\ retries \in 0..MaxRetries
    /\ signals \subseteq Children
    /\ registered \subseteq Children
    /\ next_sequence \in 0..MaxEvents
    /\ gen \in 0..MaxStarts
    /\ alive \subseteq Gens /\ ending \subseteq Gens
    /\ box \in [Gens -> Seq(Snapshots)]
    /\ faults \in 0..MaxFaults
    /\ IsStore(acked, Positions, Events)
    /\ refused \subseteq Positions /\ corrected \subseteq Positions

\* The positions whose event a state may lack: the first one (init_state
\* replays from position 1 when there is no snapshot), those apply_event
\* refused, and those rewritten behind the state's back.
Exempt == {0} \cup refused \cup corrected

\* State st has at position p what it has after positions 0..k.
ReflectsAt(st, k, p) ==
    /\ Len(st[p]) <= 1
    /\ p > k \/ p \notin DOMAIN journal => st[p] = <<>>
    /\ p <= k /\ p \in DOMAIN journal \ Exempt => st[p] = <<journal[p]>>

\* State st is what positions 0..k of the journal produce.
Reflects(st, k) == \A p \in Positions : ReflectsAt(st, k, p)

\* Whatever mix of crashes, lost or late snapshots and graceful stops came
\* before, a running actor has applied every event after the first exactly
\* once, none twice, and nothing that is not in the journal
\* (store/src/persist.rs:81, 221).
RunningStateReflectsJournal ==
    phase = "idle" => Reflects(state, LatestSequence(next_sequence))

\* In its first life the actor lacks no event, the first one included.
FirstLifeComplete ==
    phase = "idle" /\ gen = 1 =>
        \A p \in DOMAIN journal \ (refused \cup corrected) :
            state[p] = <<journal[p]>>

\* A saved snapshot holds the events up to its key and none after it, so that
\* replaying the rest is right, even when a snapshotter that outlived its
\* actor saved it late (store/src/persist.rs:444, store/src/snapshotter.rs:59).
SnapshotsMatchKeys == \A k \in DOMAIN snaps : Reflects(snaps[k], k)

\* What persist has answered Ok for stays in the journal under the answered
\* sequence number, whatever crashes or restarts, and a running actor reads
\* it back: by its number, in a range, and not after the last event
\* (store/src/persist.rs:199, 221, 261, 334, 365).
AckedDurable ==
    \A p \in DOMAIN acked \ corrected :
        /\ GetEvent(p) = <<acked[p]>>
        /\ phase = "idle" => /\ LastEvent # <<>> /\ p <= LastSequence
                             /\ Has(GetEvents(p), p) /\ GetEvents(p)[p] = acked[p]

\* A graceful stop comes to its end, whichever child stops first.
StopTerminates == phase = "stopping" ~> phase = "down"

\* A startup or a restart is decided: the actor runs or is down.
StartupDecided == phase \in {"loading", "retrying"} ~> phase \in {"idle", "down"}

(* Properties that the repository states and the code does not have. *)

\* persist.rs:64-66: init_state loads the last snapshot and replays "any
\* events from the journal that occurred after the snapshot"; a running actor
\* has every event it acknowledged.
RecoveredStateComplete ==
    phase = "idle" =>
        \A p \in DOMAIN acked \ corrected : state[p] = <<acked[p]>>

\* supervision.rs:45: "Retry start the actor if an error occurs at startup":
\* a failure that does not repeat is survived by a retry.
RetryRecovers ==
    phase = "retrying" /\ retries < MaxRetries /\ faults = MaxFaults
        ~> phase = "idle"
=============================================================================
