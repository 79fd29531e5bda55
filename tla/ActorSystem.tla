---------------------------- MODULE ActorSystem ----------------------------
(***************************************************************************)
(* The supervision tree (actor/src/system.rs, actor/src/actor.rs and the   *)
(* loop of actor/src/runner.rs): actors are created, stopped and restarted *)
(* by their supervisor, through an action channel, and tell it of errors,  *)
(* faults and their end through a signal channel.  All supervisors share   *)
(* one registry, keyed by path; each has its own map of action senders.    *)
(*                                                                         *)
(* Supervisor 0 is the System with its SystemRunner; the others are the    *)
(* actors, numbered in the order in which they are spawned, so that two    *)
(* actors created under one path are told apart.  Paths are relative to    *)
(* "/user", and a name is one part of a path. What user code does in its   *)
(* hooks and handlers is arbitrary: it may create and stop children, emit  *)
(* errors and faults, and fail. on_child_error and on_child_fault are the  *)
(* default ones, which pass the signal on. Which retries a restart goes    *)
(* through is Runner's subject.                                            *)
(*                                                                         *)
(* The registry and the senders are behind two locks.  What an actor does  *)
(* with its own senders is one step, since only its task uses them.  The   *)
(* System is cloned into its clients and the SystemRunner, so its calls    *)
(* take two steps, one per lock, and those of several callers interleave.  *)
(***************************************************************************)
EXTENDS Store, ActorPath

CONSTANTS
    Names,         \* names of actors under their supervisor, each one part
    MaxActors,     \* bound: actors spawned
    MaxDepth,      \* MAX_ACTOR_DEPTH, counting "/user"
    SignalBuffer,  \* Config::signal_buffer_size
    MaxSignals,    \* bound: errors and faults that user code emits, and
                   \* remove_child calls of clients
    MaxRestarts,   \* bound: restart_children calls of user code
    MayReuse,      \* whether a path may be created more than once
    MayCancel,     \* whether the system may be cancelled
    MayPanic,      \* whether handlers and hooks may panic after the startup
    MayForget,     \* whether handlers and clients call remove_child
    MayFail        \* whether pre_stop may fail

ASSUME SystemAssumption ==
    /\ Slash \notin Names /\ Blank \notin Names
    /\ MaxActors \in Nat
    /\ MaxDepth \in Nat \ {0, 1}
    /\ SignalBuffer \in Nat \ {0}
    /\ MaxSignals \in Nat
    /\ MaxRestarts \in Nat
    /\ MayReuse \in BOOLEAN /\ MayCancel \in BOOLEAN
    /\ MayPanic \in BOOLEAN /\ MayForget \in BOOLEAN /\ MayFail \in BOOLEAN

Ids == 1..MaxActors
System == 0
Supervisors == Ids \cup {System}

VARIABLES
    \* shared
    registry,   \* ActorRegistry: path -> actor
    \* per actor
    spawned,    \* number of actors spawned so far
    path,       \* ActorRunner::actor_path
    parent,     \* the supervisor that created it
    stage,      \* where its runner is
    reply,      \* its create_actor call: waiting, answered ok or err; then
                \* inserting and registered, or removing and refused
    acts,       \* its action channel
    emitting,   \* the signal it waits to send to its supervisor, if any
    \* per supervisor
    senders,    \* action_senders: path -> actor
    signals,    \* its signal channel
    \* the SystemRunner
    active,     \* its task runs
    cancelled,  \* the cancellation token
    shutdown,   \* shutdown_flag
    task,       \* the supervision call it is in: paths still to stop, the
                \* path at work, and whether that one is gone, not to be stopped
    calls,      \* the System's stop_actor and remove_child calls between the
                \* two locks
    \* bounds and history
    emitted,    \* errors, faults and clients' remove_child calls so far
    restarts,
    told,       \* history: actors that were sent Stop
    halted,     \* history: actors whose pre_stop ran
    forgotten   \* history: actors whose sender a client's remove_child took

tree == <<spawned, path, parent>>
runner == <<active, cancelled, shutdown, task>>
bounds == <<emitted, restarts>>
history == <<told, halted, forgotten>>
vars == <<registry, tree, stage, reply, acts, emitting, senders, signals, runner,
          calls, bounds, history>>

Paths == UNION {[1..d -> Names] : d \in 1..(MaxDepth - 1)}

\* ChildAction and ActorSignal.
Actions == {"Stop", "Restart"}
Kinds == {"Error", "Fault", "Stopped"}

\* What an actor may be emitting: a signal of user code, or the Fault of the
\* loop itself, which gives up when it cannot be told.
Emissions == {"nothing", "Error", "Fault", "LoopFault"}
SignalOf(e) == IF e = "LoopFault" THEN "Fault" ELSE e

Idle == [todo |-> {}, at |-> <<>>, gone |-> FALSE]

Init ==
    /\ registry = EmptyStore
    /\ spawned = 0
    /\ path = [a \in Ids |-> <<>>]
    /\ parent = [a \in Ids |-> System]
    /\ stage = [a \in Ids |-> "unused"]
    /\ reply = [a \in Ids |-> "unused"]
    /\ acts = [a \in Ids |-> <<>>]
    /\ emitting = [a \in Ids |-> "nothing"]
    /\ senders = [s \in Supervisors |-> EmptyStore]
    /\ signals = [s \in Supervisors |-> <<>>]
    /\ active = TRUE /\ cancelled = FALSE /\ shutdown = FALSE
    /\ task = Idle /\ calls = {}
    /\ emitted = 0 /\ restarts = 0
    /\ told = {} /\ halted = {} /\ forgotten = {}

-----------------------------------------------------------------------------
(* Supervision. *)

\* get_childs: registered under the path, whoever created them.
GetChilds(p) == {c \in DOMAIN registry : Parent(c) = p}

\* has_childs.
HasChilds(p) == GetChilds(p) # {}

\* child_exists.
ChildExists(p) == Has(registry, p)

\* get_actor: the actor registered under the path, if any.
GetActor(p) == IF ChildExists(p) THEN <<registry[p]>> ELSE <<>>

\* The call that creates a is under way.
IsPending(a) == reply[a] \notin {"unused", "registered", "refused"}

\* s is inside create_child, waiting for the new actor.
Waiting(s) == \E a \in Ids : parent[a] = s /\ IsPending(a)

\* The task of a waits inside a hook, a handler or its loop: for a new child,
\* or for room to emit a signal.
Busy(a) == Waiting(a) \/ emitting[a] # "nothing"

\* s runs user code: a hook or a handler.
InHook(s) == stage[s] \in {"starting", "restarting", "running", "pre_stop"} /\ ~Busy(s)

\* The signal channel of s is open: its runner has not been dropped.
Open(s) == IF s = System THEN active ELSE stage[s] # "ended"

\* The signals channels after a sends its supervisor a signal; a full channel
\* makes it wait, a closed one is an error.
Room(a) == Open(parent[a]) => Len(signals[parent[a]]) < SignalBuffer
WithSignal(sigs, a, kind) ==
    IF Open(parent[a])
    THEN [sigs EXCEPT ![parent[a]] = Append(@, <<kind, path[a]>>)]
    ELSE sigs

\* An action can be sent to path p by s: it has a sender, and the actor that
\* receives from it has not been dropped.
Reachable(s, p) == Has(senders[s], p) /\ stage[senders[s][p]] # "ended"

\* Sending an action to every path of C, in the order of a HashMap, until one
\* send fails: which paths were tried and which of them were reached.
Sends(s, C) ==
    LET bad == {p \in C : ~Reachable(s, p)}
    IN  IF bad = {} THEN {[tried |-> C, reached |-> C]}
        ELSE {[tried |-> D \cup {p}, reached |-> D] : D \in SUBSET (C \ bad), p \in bad}

Without(m, P) == [p \in DOMAIN m \ P |-> m[p]]

\* The actors that the paths of P lead to from s, and the action channels
\* after they are sent an action.
Targets(s, P) == {senders[s][p] : p \in P}
Sent(A, action) == [a \in Ids |-> IF a \in A THEN Append(acts[a], action) ELSE acts[a]]

\* Mutant: the sender is kept, so that Stop can be sent again.
StopKeepsSenders(s, x) ==
    /\ acts' = Sent(Targets(s, x.reached), "Stop")
    /\ told' = told \cup Targets(s, x.reached)
    /\ UNCHANGED senders

\* The second half of stop_child, for every path tried: the sender is taken,
\* whether or not the Stop then reaches the actor.
StopTaken(s, x) ==
    /\ senders' = [senders EXCEPT ![s] = Without(@, x.tried)]
    /\ acts' = Sent(Targets(s, x.reached), "Stop")
    /\ told' = told \cup Targets(s, x.reached)

\* stop_child for every path tried, by an actor.
StopPaths(s, x) ==
    /\ registry' = Without(registry, x.tried)
    /\ StopTaken(s, x)

\* Mutant: only the sender is removed.
RemoveSenderOnly(s, p) ==
    /\ senders' = [senders EXCEPT ![s] = Without(@, {p})]
    /\ UNCHANGED registry

\* remove_child, by an actor.
RemoveChild(s, p) ==
    /\ registry' = Without(registry, {p})
    /\ senders' = [senders EXCEPT ![s] = Without(@, {p})]

-----------------------------------------------------------------------------
(* create_actor and create_child. *)

\* The path is free: a runner is spawned, the caller waits for its answer.
SpawnActor(s, p) ==
    /\ spawned < MaxActors
    /\ p \notin DOMAIN registry
    /\ MayReuse \/ \A a \in 1..spawned : path[a] # p
    /\ LET a == spawned + 1
       IN  /\ spawned' = a
           /\ path' = [path EXCEPT ![a] = p]
           /\ parent' = [parent EXCEPT ![a] = s]
           /\ stage' = [stage EXCEPT ![a] = "starting"]
           /\ reply' = [reply EXCEPT ![a] = "waiting"]
    /\ UNCHANGED <<registry, acts, senders, signals, emitting, runner, calls, bounds, history>>

CreateActor(n) == SpawnActor(System, <<n>>)

\* Mutant: the depth is not limited.
CreateChildAnyDepth(s, n) ==
    /\ InHook(s)
    /\ SpawnActor(s, Append(path[s], n))

\* The depth is that of the supervisor, counting "/user".
CreateChild(s, n) ==
    /\ InHook(s)
    /\ Len(path[s]) + 1 < MaxDepth
    /\ SpawnActor(s, Append(path[s], n))

\* pre_start (or pre_restart) ends: the actor runs, or its strategy gives up.
PreStart(a) ==
    /\ stage[a] \in {"starting", "restarting"}
    /\ ~Busy(a)
    /\ \E ok \in BOOLEAN :
        /\ stage' = [stage EXCEPT ![a] = IF ok THEN "running" ELSE "finishing"]
        /\ reply' = IF stage[a] = "starting"
                    THEN [reply EXCEPT ![a] = IF ok THEN "ok" ELSE "err"] ELSE reply
    /\ UNCHANGED <<registry, tree, acts, senders, signals, emitting, runner, calls, bounds, history>>

\* Mutant: a panic of the startup is not taken for an answer.
PreStartPanicsSilent(a) ==
    /\ stage[a] = "starting"
    /\ ~Busy(a)
    /\ stage' = [stage EXCEPT ![a] = "ended"]
    /\ UNCHANGED <<registry, tree, reply, acts, senders, signals, emitting, runner, calls, bounds,
                   history>>

\* pre_start panics: the answer channel closes, and no Stopped is emitted.
PreStartPanics(a) ==
    /\ stage[a] = "starting"
    /\ ~Busy(a)
    /\ stage' = [stage EXCEPT ![a] = "ended"]
    /\ reply' = [reply EXCEPT ![a] = "err"]
    /\ UNCHANGED <<registry, tree, acts, senders, signals, emitting, runner, calls, bounds, history>>

\* Mutant: the actor is registered whatever it answered.
InsertsAlways(a) ==
    /\ reply[a] \in {"ok", "err"}
    /\ registry' = StorePut(registry, path[a], a)
    /\ reply' = [reply EXCEPT ![a] = IF reply[a] = "ok" THEN "inserting" ELSE "removing"]
    /\ UNCHANGED <<tree, stage, acts, senders, signals, emitting, runner, calls, bounds, history>>

\* The caller takes the answer: it registers the actor, or makes sure that
\* its path is not registered.
CreateInserts(a) ==
    /\ \/ /\ reply[a] = "ok"
          /\ registry' = StorePut(registry, path[a], a)
          /\ reply' = [reply EXCEPT ![a] = "inserting"]
       \/ /\ reply[a] = "err"
          /\ registry' = Without(registry, {path[a]})
          /\ reply' = [reply EXCEPT ![a] = "removing"]
    /\ UNCHANGED <<tree, stage, acts, senders, signals, emitting, runner, calls, bounds, history>>

\* Then it does the same to the sender, and create_actor returns.
CreateReturns(a) ==
    /\ \/ /\ reply[a] = "inserting"
          /\ senders' = [senders EXCEPT ![parent[a]] = StorePut(@, path[a], a)]
          /\ reply' = [reply EXCEPT ![a] = "registered"]
       \/ /\ reply[a] = "removing"
          /\ senders' = [senders EXCEPT ![parent[a]] = Without(@, {path[a]})]
          /\ reply' = [reply EXCEPT ![a] = "refused"]
    /\ UNCHANGED <<registry, tree, stage, acts, signals, emitting, runner, calls, bounds, history>>

-----------------------------------------------------------------------------
(* What handlers do. *)

\* The path of an actor that the System knows or is about to.
Concerns(p) ==
    \/ p \in DOMAIN registry \cup DOMAIN senders[System]
    \/ \E a \in Ids : path[a] = p /\ IsPending(a)

\* System::stop_actor and remove_child: out of the registry first.  Without
\* such an actor they do nothing.
CallSystem(kind, n) ==
    /\ Concerns(<<n>>)
    /\ <<kind, n>> \notin calls
    /\ registry' = Without(registry, {<<n>>})
    /\ calls' = calls \cup {<<kind, n>>}
    /\ UNCHANGED <<tree, stage, reply, acts, senders, signals, emitting, runner, restarts, history>>

StopActor(n) == CallSystem("stop", n) /\ UNCHANGED emitted

RemoveActor(n) ==
    /\ MayForget
    /\ emitted < MaxSignals
    /\ emitted' = emitted + 1
    /\ CallSystem("remove", n)

\* Then the sender is taken, and told to stop,
StopReturns(n) ==
    /\ <<"stop", n>> \in calls
    /\ calls' = calls \ {<<"stop", n>>}
    /\ \E x \in Sends(System, {<<n>>}) : StopTaken(System, x)
    /\ UNCHANGED <<registry, tree, stage, reply, signals, emitting, runner, bounds, halted, forgotten>>

\* or dropped.
RemoveReturns(n) ==
    /\ <<"remove", n>> \in calls
    /\ calls' = calls \ {<<"remove", n>>}
    /\ senders' = [senders EXCEPT ![System] = Without(@, {<<n>>})]
    /\ forgotten' = forgotten \cup {senders[System][p] : p \in {<<n>>} \cap DOMAIN senders[System]}
    /\ UNCHANGED <<registry, tree, stage, reply, acts, signals, emitting, runner, bounds, told, halted>>

\* ActorContext::stop_child.
StopChild(s, n) ==
    LET p == Append(path[s], n)
    IN  /\ InHook(s)
        /\ p \in DOMAIN registry \cup DOMAIN senders[s]
        /\ \E x \in Sends(s, {p}) : StopPaths(s, x)
        /\ UNCHANGED <<tree, stage, reply, signals, emitting, runner, calls, bounds, halted, forgotten>>

\* ActorContext::stop_children, called by a handler.
StopAll(s) ==
    /\ InHook(s)
    /\ HasChilds(path[s])
    /\ \E x \in Sends(s, GetChilds(path[s])) : StopPaths(s, x)
    /\ UNCHANGED <<tree, stage, reply, signals, emitting, runner, calls, bounds, halted, forgotten>>

\* ActorContext::remove_child, called by a handler: the child runs on, unknown.
Forget(s, n) ==
    LET p == Append(path[s], n)
    IN  /\ MayForget
        /\ InHook(s)
        /\ p \in DOMAIN registry \cup DOMAIN senders[s]
        /\ RemoveChild(s, p)
        /\ UNCHANGED <<tree, stage, reply, acts, signals, emitting, runner, calls, bounds, history>>

\* A handler or a hook panics: the task of the runner is gone with its
\* channels, no Stopped is emitted, and what others hold of the actor stays.
Panics(a) ==
    /\ MayPanic
    /\ InHook(a) /\ stage[a] # "starting"
    /\ stage' = [stage EXCEPT ![a] = "ended"]
    /\ UNCHANGED <<registry, tree, reply, acts, senders, signals, emitting, runner, calls, bounds, history>>

\* emit_error and emit_fault: the hook or handler waits until it is sent.
Emit(a, kind) ==
    /\ InHook(a)
    /\ emitted < MaxSignals
    /\ emitted' = emitted + 1
    /\ emitting' = [emitting EXCEPT ![a] = kind]
    /\ UNCHANGED <<registry, tree, stage, reply, acts, senders, signals, runner, calls, restarts,
                   history>>

\* The signal is sent, or is an error since the supervisor has ended: then a
\* loop that was reporting a Fault gives up.
Emitted(a) ==
    /\ emitting[a] # "nothing"
    /\ Room(a)
    /\ signals' = WithSignal(signals, a, SignalOf(emitting[a]))
    /\ emitting' = [emitting EXCEPT ![a] = "nothing"]
    /\ stage' = IF emitting[a] = "LoopFault" /\ ~Open(parent[a])
                THEN [stage EXCEPT ![a] = "finishing"] ELSE stage
    /\ UNCHANGED <<registry, tree, reply, acts, senders, runner, calls, bounds, history>>

\* ActorContext::restart_children, called by a handler.
RestartChildren(s) ==
    /\ InHook(s)
    /\ restarts < MaxRestarts
    /\ restarts' = restarts + 1
    /\ DOMAIN senders[s] # {}
    /\ \E x \in Sends(s, DOMAIN senders[s]) : acts' = Sent(Targets(s, x.reached), "Restart")
    /\ UNCHANGED <<registry, tree, stage, reply, senders, signals, emitting, runner, calls,
                   emitted, history>>

-----------------------------------------------------------------------------
(* The loop of an actor's runner. *)

Ready(a) == stage[a] = "running" /\ ~Busy(a)

\* A child stopped: forget it, and stop too if no child is registered.
RecvStopped(a) ==
    /\ Ready(a)
    /\ signals[a] # <<>> /\ Head(signals[a])[1] = "Stopped"
    /\ signals' = [signals EXCEPT ![a] = Tail(@)]
    /\ RemoveChild(a, Head(signals[a])[2])
    /\ stage' = [stage EXCEPT ![a] =
                  IF \E c \in DOMAIN registry' : Parent(c) = path[a]
                  THEN "running" ELSE "finishing"]
    /\ UNCHANGED <<tree, reply, acts, emitting, runner, calls, bounds, history>>

\* A child's error or fault: the default hook passes it on as its own.
RecvSignal(a) ==
    /\ Ready(a)
    /\ signals[a] # <<>> /\ Head(signals[a])[1] # "Stopped"
    /\ signals' = [signals EXCEPT ![a] = Tail(@)]
    /\ emitting' = [emitting EXCEPT ![a] = Head(signals[a])[1]]
    /\ UNCHANGED <<registry, tree, stage, reply, acts, senders, runner, calls, bounds, history>>

\* ChildAction::Stop: pre_stop begins.
RecvStop(a) ==
    /\ Ready(a)
    /\ acts[a] # <<>> /\ Head(acts[a]) = "Stop"
    /\ acts' = [acts EXCEPT ![a] = Tail(@)]
    /\ stage' = [stage EXCEPT ![a] = "pre_stop"]
    /\ halted' = halted \cup {a}
    /\ UNCHANGED <<registry, tree, reply, senders, signals, emitting, runner, calls, bounds, told,
                   forgotten>>

\* The loop of a reports a Fault before it goes on.
Reporting(a) == [emitting EXCEPT ![a] = "LoopFault"]

\* pre_stop ends; a failure is reported as a Fault.
PreStop(a) ==
    /\ stage[a] = "pre_stop" /\ ~Busy(a)
    /\ stage' = [stage EXCEPT ![a] = "closing"]
    /\ \/ UNCHANGED emitting
       \/ MayFail /\ emitting' = Reporting(a)
    /\ UNCHANGED <<registry, tree, reply, acts, senders, signals, runner, calls, bounds, history>>

\* stop_children: without children the actor stops, otherwise it goes on
\* until they have stopped.  A child that cannot be reached ends the loop
\* over the children, and is reported as a Fault.
StopChildren(a) ==
    LET C == GetChilds(path[a])
    IN  /\ stage[a] = "closing" /\ ~Busy(a)
        /\ \E x \in Sends(a, C) :
            /\ StopPaths(a, x)
            /\ emitting' = IF x.reached = C THEN emitting ELSE Reporting(a)
        /\ stage' = [stage EXCEPT ![a] = IF C = {} THEN "finishing" ELSE "running"]
        /\ UNCHANGED <<tree, reply, signals, runner, calls, bounds, halted, forgotten>>

\* ChildAction::Restart: the children first, then the actor's own strategy.
RecvRestart(a) ==
    /\ Ready(a)
    /\ acts[a] # <<>> /\ Head(acts[a]) = "Restart"
    /\ \E x \in Sends(a, DOMAIN senders[a]) :
        /\ acts' = [Sent(Targets(a, x.reached), "Restart") EXCEPT ![a] = Tail(@)]
        /\ emitting' = IF x.reached = DOMAIN senders[a] THEN emitting ELSE Reporting(a)
    /\ stage' = [stage EXCEPT ![a] = "restarting"]
    /\ UNCHANGED <<registry, tree, reply, senders, signals, runner, calls, bounds, history>>

\* emit_stopped, post_stop, and the runner is dropped.
EmitStopped(a) ==
    /\ stage[a] = "finishing"
    /\ Room(a)
    /\ signals' = WithSignal(signals, a, "Stopped")
    /\ stage' = [stage EXCEPT ![a] = "ended"]
    /\ UNCHANGED <<registry, tree, reply, acts, senders, emitting, runner, calls, bounds, history>>

-----------------------------------------------------------------------------
(* The SystemRunner. *)

Cancel ==
    /\ MayCancel
    /\ ~cancelled
    /\ cancelled' = TRUE
    /\ UNCHANGED <<registry, tree, stage, reply, acts, senders, signals, emitting, active, shutdown,
                   task, calls, bounds, history>>

\* stop_children begins: the paths to stop are the registered ones.
Sweep(p) == task' = [Idle EXCEPT !.todo = GetChilds(p)]

\* Mutant: the runner waits for a Stopped even when there is no actor.
SysCancelledWaits ==
    /\ active /\ task = Idle /\ cancelled
    /\ shutdown' = TRUE
    /\ Sweep(<<>>)
    /\ UNCHANGED <<registry, tree, stage, reply, acts, senders, signals, emitting, active, cancelled,
                   calls, bounds, history>>

\* The cancelled branch: stop_children, or the end of the runner when no
\* top-level actor is registered.  The branch stays ready.
SysCancelled ==
    /\ active /\ task = Idle /\ cancelled
    /\ shutdown' = TRUE
    /\ Sweep(<<>>)
    /\ active' = HasChilds(<<>>)
    /\ UNCHANGED <<registry, tree, stage, reply, acts, senders, signals, emitting, cancelled, calls,
                   bounds, history>>

\* on_child_error stops the children of the actor that emitted the error,
\* with the senders of the System; on_child_fault stops all top-level actors.
SysSignal ==
    /\ active /\ task = Idle
    /\ signals[System] # <<>> /\ Head(signals[System])[1] # "Stopped"
    /\ signals' = [signals EXCEPT ![System] = Tail(@)]
    /\ Sweep(IF Head(signals[System])[1] = "Error" THEN Head(signals[System])[2] ELSE <<>>)
    /\ UNCHANGED <<registry, tree, stage, reply, acts, senders, emitting, active, cancelled, shutdown,
                   calls, bounds, history>>

\* stop_child for the next path, in the order of a HashMap: the first half,
SysUnregister ==
    /\ task.at = <<>>
    /\ \E p \in task.todo :
        /\ registry' = Without(registry, {p})
        /\ task' = [task EXCEPT !.at = p]
    /\ UNCHANGED <<tree, stage, reply, acts, senders, signals, emitting, active, cancelled, shutdown,
                   calls, bounds, history>>

\* and the second; an error ends the loop over the paths.
SysStopChild ==
    /\ task.at # <<>> /\ ~task.gone
    /\ \E x \in Sends(System, {task.at}) :
        /\ StopTaken(System, x)
        /\ task' = [Idle EXCEPT !.todo = IF x.reached = {} THEN {} ELSE task.todo \ {task.at}]
    /\ UNCHANGED <<registry, tree, stage, reply, signals, emitting, active, cancelled, shutdown, calls,
                   bounds, halted, forgotten>>

\* A top-level actor stopped: remove_child,
SysStopped ==
    /\ active /\ task = Idle
    /\ signals[System] # <<>> /\ Head(signals[System])[1] = "Stopped"
    /\ LET p == Head(signals[System])[2]
       IN  /\ registry' = Without(registry, {p})
           /\ task' = [todo |-> {}, at |-> p, gone |-> TRUE]
    /\ signals' = [signals EXCEPT ![System] = Tail(@)]
    /\ UNCHANGED <<tree, stage, reply, acts, senders, emitting, active, cancelled, shutdown, calls,
                   bounds, history>>

\* and the end of the runner when it was cancelled and this was the last one.
SysRemoved ==
    /\ task.at # <<>> /\ task.gone
    /\ senders' = [senders EXCEPT ![System] = Without(@, {task.at})]
    /\ active' = ~(shutdown /\ ~HasChilds(<<>>))
    /\ task' = Idle
    /\ UNCHANGED <<registry, tree, stage, reply, acts, signals, emitting, cancelled, shutdown, calls,
                   bounds, history>>

-----------------------------------------------------------------------------

Handler(s) ==
    \/ \E n \in Names : CreateChild(s, n) \/ StopChild(s, n) \/ Forget(s, n)
    \/ StopAll(s) \/ Panics(s)
    \/ \E kind \in {"Error", "Fault"} : Emit(s, kind)
    \/ RestartChildren(s)

Loop(a) == RecvStopped(a) \/ RecvSignal(a) \/ RecvStop(a) \/ RecvRestart(a)
           \/ PreStop(a) \/ StopChildren(a) \/ Emitted(a)

Next ==
    \/ \E n \in Names : \/ CreateActor(n) \/ StopActor(n) \/ StopReturns(n)
                       \/ RemoveActor(n) \/ RemoveReturns(n)
    \/ \E a \in Ids : Handler(a) \/ Loop(a)
    \/ \E a \in Ids : PreStart(a) \/ PreStartPanics(a) \/ EmitStopped(a)
                     \/ CreateInserts(a) \/ CreateReturns(a)
    \/ Cancel \/ SysCancelled \/ SysSignal \/ SysUnregister \/ SysStopChild
    \/ SysStopped \/ SysRemoved

Spec == Init /\ [][Next]_vars

\* Every spawned task is polled while it can make progress, and the select!
\* of a loop, which picks at random among its ready branches, passes none of
\* them over forever.
Fairness ==
    /\ \A a \in Ids : /\ WF_vars(PreStart(a)) /\ WF_vars(EmitStopped(a))
                      /\ WF_vars(CreateInserts(a)) /\ WF_vars(CreateReturns(a))
                      /\ WF_vars(RecvStopped(a)) /\ WF_vars(RecvSignal(a))
                      /\ WF_vars(RecvStop(a)) /\ WF_vars(RecvRestart(a))
                      /\ WF_vars(PreStop(a)) /\ WF_vars(StopChildren(a))
                      /\ WF_vars(Emitted(a))
    /\ \A n \in Names : WF_vars(StopReturns(n)) /\ WF_vars(RemoveReturns(n))
    /\ WF_vars(SysCancelled) /\ WF_vars(SysSignal) /\ WF_vars(SysUnregister)
    /\ WF_vars(SysStopChild) /\ WF_vars(SysStopped) /\ WF_vars(SysRemoved)

FairSpec == Spec /\ Fairness

-----------------------------------------------------------------------------
(* Properties. *)

\* The types of the registry, the runners and the channels.
TypeOK ==
    /\ IsStore(registry, Paths, Ids)
    /\ spawned \in 0..MaxActors
    /\ path \in [Ids -> Paths \cup {<<>>}]
    /\ parent \in [Ids -> Supervisors]
    /\ stage \in [Ids -> {"unused", "starting", "restarting", "running", "pre_stop",
                          "closing", "finishing", "ended"}]
    /\ reply \in [Ids -> {"unused", "waiting", "ok", "err", "inserting", "registered",
                          "removing", "refused"}]
    /\ acts \in [Ids -> Seq(Actions)]
    /\ emitting \in [Ids -> Emissions]
    /\ DOMAIN senders = Supervisors
    /\ \A s \in Supervisors : IsStore(senders[s], Paths, Ids)
    /\ signals \in [Supervisors -> Seq(Kinds \X Paths)]
    /\ active \in BOOLEAN /\ cancelled \in BOOLEAN /\ shutdown \in BOOLEAN
    /\ task \in [todo : SUBSET Paths, at : Paths \cup {<<>>}, gone : BOOLEAN]
    /\ calls \subseteq {"stop", "remove"} \X Names
    /\ emitted \in 0..MaxSignals /\ restarts \in 0..MaxRestarts
    /\ told \subseteq Ids /\ halted \subseteq Ids /\ forgotten \subseteq Ids

\* Another actor was created under the path of a.
Shared(a) == \E b \in Ids \ {a} : reply[b] # "unused" /\ path[b] = path[a]

\* An actor that can be looked up can be stopped: its creator holds its
\* action sender or is about to.  Under the System, whose callers race
\* between its two locks, this is so of an actor that runs, that was not told
\* to stop, that no client removed and that is alone under its path
\* (actor/src/system.rs:483-490, 583-588).
RegisteredStoppable ==
    \A p \in DOMAIN registry :
        LET a == registry[p]
        IN  /\ path[a] = p
            /\ \/ Has(senders[parent[a]], p) /\ senders[parent[a]][p] = a
               \/ reply[a] = "inserting"
               \/ /\ parent[a] = System
                  /\ a \in told \cup forgotten \/ stage[a] = "ended" \/ Shared(a)

\* No actor is sent Stop twice and pre_stop runs at most once, although the
\* System's clients, a fault, the cancelled branch, which stays ready, and
\* the supervisor itself may all stop the same actor
\* (actor/src/system.rs:583, actor/src/runner.rs:213).
StopOnce ==
    \A a \in Ids :
        /\ \A i, j \in DOMAIN acts[a] : acts[a][i] = "Stop" /\ acts[a][j] = "Stop" => i = j
        /\ a \in halted => \A i \in DOMAIN acts[a] : acts[a][i] # "Stop"

\* An actor becomes visible only after it started, and a failed start leaves
\* nothing registered (system.rs:1016
\* test_actor_registers_only_after_successful_startup).
RegisteredStarted ==
    \A p \in DOMAIN registry : reply[registry[p]] \in {"inserting", "registered"}

\* A cancelled system shuts down (actor/src/system.rs:319).
ShutdownCompletes == cancelled ~> ~active

\* a waits for room in the signal channel of its supervisor.
WaitsForRoom(a) == (emitting[a] # "nothing" \/ stage[a] = "finishing") /\ ~Room(a)

\* What a waits for is a step of c: its supervisor, whose channel is full, or
\* the child that it creates.
WaitsOn(a, c) == (WaitsForRoom(a) /\ parent[a] = c) \/ (parent[c] = a /\ IsPending(c))

\* The task of a has a step to take, or the creation of a has.
GoesOn(a) ==
    \/ stage[a] \in {"starting", "restarting", "pre_stop", "closing"} /\ ~Busy(a)
    \/ Ready(a) /\ signals[a] # <<>>
    \/ (emitting[a] # "nothing" \/ stage[a] = "finishing") /\ Room(a)
    \/ IsPending(a) /\ reply[a] # "waiting"

\* The creation of b never returns: its startup waits for room in the channel
\* of the actor that waits for this startup.
Stuck(b) == reply[b] = "waiting" /\ parent[b] # System /\ WaitsForRoom(b)

\* a does not go on, its creation is not stuck, and it does not wait for the
\* SystemRunner, which waits for nobody.
Still(a) == ~(GoesOn(a) \/ Stuck(a) \/ (WaitsForRoom(a) /\ parent[a] = System))

\* Bounded channels stall nobody for good: a set of still actors that has all
\* that its members wait for has none that waits, so that only a stuck creation
\* is the end (actor/src/actor.rs:458-520).
NoStall ==
    \A W \in SUBSET {a \in Ids : Still(a)} :
        (\A a \in W, c \in Ids : WaitsOn(a, c) => c \in W)
        => \A a \in W : ~WaitsForRoom(a) /\ ~Waiting(a)

\* The predicates on paths, by which the registry is searched for children,
\* agree (actor/src/path.rs:79, 111, 197).  This is about paths alone, so
\* looking once, before the first actor is spawned, is enough.
PathsAgree == spawned = 0 => PathsAgreeOver(Names)

(* Properties that the repository states and the code does not have. *)

\* create_child returns, with the actor or an error: no startup waits for the
\* actor that waits for it (actor/src/system.rs:436).
CreationsReturn == \A b \in Ids : ~Stuck(b)

\* The SystemRunner that shuts down because of the last Stopped leaves no
\* top-level actor running (actor/src/system.rs:361).
ShutdownAwaitsActors ==
    [][SysRemoved /\ ~active' =>
        \A a \in Ids : parent[a] = System => stage[a] \in {"unused", "ended"}]_vars

\* A running actor whose creation succeeded and that nobody told to stop is
\* found under its path.
LookupFindsRunning ==
    \A a \in Ids :
        stage[a] = "running" /\ reply[a] = "registered" /\ a \notin told \cup forgotten =>
            GetActor(path[a]) = <<a>>

\* An actor that has ended leaves no running child that was not told to stop.
NoOrphans ==
    \A a \in halted : stage[a] = "ended" =>
        \A b \in Ids : parent[b] = a /\ stage[b] = "running" => b \in told
=============================================================================
