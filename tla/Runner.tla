------------------------------- MODULE Runner -------------------------------
(***************************************************************************)
(* One ActorRunner (actor/src/runner.rs) from its spawn to its end, with   *)
(* its mailbox and the clients that ask it through retry_ask               *)
(* (actor/src/handler.rs, actor/src/actor.rs); an ask is a retry_ask with  *)
(* one attempt.  What it does with children and signals is ActorSystem's   *)
(* subject: here it has no children, so a Stop ends it at once.            *)
(*                                                                         *)
(* Hooks and handlers succeed, fail or panic.  A panic ends the task of    *)
(* the runner, which tokio reports to nobody.                              *)
(***************************************************************************)
EXTENDS Supervision, FiniteSets

CONSTANTS
    Clients,      \* the callers
    MailboxSize,  \* Config::mailbox_size
    Supervising,  \* Actor::supervision_strategy
    Asking,       \* the strategy that a client makes for its retry_asks
    MaxCalls,     \* bound: calls of one client
    MaxRestarts   \* bound: Restart actions that the supervisor sends

MaxRetries == RetriesOf(Supervising)
MaxAttempts == RetriesOf(Asking)

ASSUME RunnerAssumption ==
    /\ Supervising \in Strategies /\ Asking \in Strategies
    /\ MailboxSize \in Nat \ {0}
    /\ MaxRetries \in Nat
    /\ MaxAttempts \in Nat \ {0}
    /\ MaxCalls \in Nat
    /\ MaxRestarts \in Nat

VARIABLES
    \* the runner
    lifecycle,  \* ActorLifecycle; "Running" inside run(), "PostStop" inside
                \* the Stopped arm, after emit_stopped
    retries,    \* the counter of init
    answer,     \* what went through init_sender
    mailbox,    \* messages: who asked, in which call
    actions,    \* the action channel
    \* the clients
    client,     \* per client: where it is, its call and its attempt
    \* bound and history
    restarts,   \* Restart actions sent
    failures,   \* history: failed pre_start and pre_restart since it last ran
    handled,    \* history: per client, how often its call was handled
    kept,       \* history: per client, whether its call was handled Ok
    \* backoffs
    strategy,   \* what is left of each client's strategy
    slept,      \* history: each client's backoffs and the calls they were in
    pauses      \* history: the backoffs of init since the actor last ran

\* ActorLifecycle.
Lifecycles == {"Created", "Started", "Restarted", "Failed", "Stopped", "Terminated"}

runner == <<lifecycle, retries, answer>>
history == <<failures, handled, kept>>
waits == <<strategy, slept, pauses>>
vars == <<runner, mailbox, actions, client, restarts, history, waits>>

Messages == [from : Clients, call : 1..MaxCalls]

Init ==
    /\ lifecycle = "Created" /\ retries = 0 /\ answer = "none"
    /\ mailbox = <<>> /\ actions = <<>>
    /\ client = [c \in Clients |-> [at |-> "none", call |-> 0, attempt |-> 0]]
    /\ restarts = 0 /\ failures = 0
    /\ handled = [c \in Clients |-> 0]
    /\ kept = [c \in Clients |-> FALSE]
    /\ strategy = [c \in Clients |-> Asking]
    /\ slept = [c \in Clients |-> <<>>]
    /\ pauses = <<>>

-----------------------------------------------------------------------------
(* Startup and restart. *)

PreStart ==
    /\ lifecycle = "Created"
    /\ \/ lifecycle' = "Started" /\ UNCHANGED failures
       \/ lifecycle' = "Restarted" /\ failures' = failures + 1
    /\ UNCHANGED <<retries, answer, mailbox, actions, client, restarts, handled, kept, waits>>

\* The first time, the creator is told.
Started ==
    /\ lifecycle = "Started"
    /\ lifecycle' = "Running"
    /\ answer' = IF answer = "none" THEN "Ok" ELSE answer
    /\ failures' = 0 /\ pauses' = <<>>
    /\ UNCHANGED <<retries, mailbox, actions, client, restarts, handled, kept, strategy, slept>>

\* Mutant: one retry too many.
RetryOnceMore ==
    /\ lifecycle = "Restarted"
    /\ retries <= MaxRetries
    /\ \/ lifecycle' = "Started" /\ retries' = 0 /\ UNCHANGED failures
       \/ retries' = retries + 1 /\ failures' = failures + 1 /\ UNCHANGED lifecycle
    /\ pauses' = Append(pauses, NextBackoff(Supervising))
    /\ UNCHANGED <<answer, mailbox, actions, client, restarts, handled, kept, strategy, slept>>

\* Mutant: the counter is not reset after a success.
RetryKeepsCount ==
    /\ lifecycle = "Restarted"
    /\ retries < MaxRetries
    /\ retries' = retries + 1
    /\ \/ lifecycle' = "Started" /\ UNCHANGED failures
       \/ lifecycle' = "Restarted" /\ failures' = failures + 1
    /\ pauses' = Append(pauses, NextBackoff(Supervising))
    /\ UNCHANGED <<answer, mailbox, actions, client, restarts, handled, kept, strategy, slept>>

\* apply_supervision_strategy: after the backoff, pre_restart.  The strategy is
\* made anew for each retry.
Retry ==
    /\ lifecycle = "Restarted"
    /\ retries < MaxRetries
    /\ \/ lifecycle' = "Started" /\ retries' = 0 /\ UNCHANGED failures
       \/ retries' = retries + 1 /\ failures' = failures + 1 /\ UNCHANGED lifecycle
    /\ pauses' = Append(pauses, NextBackoff(Supervising))
    /\ UNCHANGED <<answer, mailbox, actions, client, restarts, handled, kept, strategy, slept>>

\* No retry is left.  In a restart the creator has had its answer.
GiveUp ==
    /\ lifecycle = "Restarted"
    /\ retries >= MaxRetries
    /\ lifecycle' = "Failed"
    /\ answer' = IF answer = "none" THEN "Err" ELSE answer
    /\ UNCHANGED <<retries, mailbox, actions, client, restarts, history, waits>>

Failed ==
    /\ lifecycle = "Failed"
    /\ lifecycle' = "Stopped"
    /\ UNCHANGED <<retries, answer, mailbox, actions, client, restarts, history, waits>>

-----------------------------------------------------------------------------
(* The clients.  The creator shares the reference once it was answered Ok. *)

\* retry_ask begins.
Call(c) ==
    /\ answer = "Ok"
    /\ client[c].at \in {"none", "Ok", "Err"}
    /\ client[c].call < MaxCalls
    /\ client' = [client EXCEPT ![c] = [at |-> "sending", call |-> @.call + 1, attempt |-> 1]]
    /\ handled' = [handled EXCEPT ![c] = 0]
    /\ kept' = [kept EXCEPT ![c] = FALSE]
    /\ UNCHANGED <<runner, mailbox, actions, restarts, failures, waits>>

\* The mailbox takes the message.
Send(c) ==
    /\ client[c].at = "sending"
    /\ lifecycle # "Terminated"
    /\ Len(mailbox) < MailboxSize
    /\ mailbox' = Append(mailbox, [from |-> c, call |-> client[c].call])
    /\ client' = [client EXCEPT ![c].at = "waiting"]
    /\ UNCHANGED <<runner, actions, restarts, history, waits>>

\* What becomes of a client whose attempt failed: the next attempt, after the
\* backoff, or RetryLimitExceeded.
AttemptFailed(x) ==
    IF x.attempt < MaxAttempts THEN [x EXCEPT !.at = "sending", !.attempt = @ + 1]
    ELSE [x EXCEPT !.at = "Err"]

\* Mutant: there is a backoff after the last attempt too.
BackoffAlways(c) ==
    /\ strategy' = [strategy EXCEPT ![c] = AfterBackoff(@)]
    /\ slept' = [slept EXCEPT ![c] =
                    Append(@, <<client[c].call, NextBackoff(strategy[c])>>)]

\* The backoff after c's attempt, unless it was the last: next_backoff changes
\* the strategy, which the caller keeps for its next retry_ask.
Backoff(c) ==
    IF client[c].attempt < MaxAttempts
    THEN /\ strategy' = [strategy EXCEPT ![c] = AfterBackoff(@)]
         /\ slept' = [slept EXCEPT ![c] =
                        Append(@, <<client[c].call, NextBackoff(strategy[c])>>)]
    ELSE UNCHANGED <<strategy, slept>>

\* The message of c's call is in the mailbox.
Queued(c) ==
    \E i \in DOMAIN mailbox : mailbox[i] = [from |-> c, call |-> client[c].call]

\* The mailbox is closed before the message was sent, or was dropped with the
\* message and with the answer's oneshot in it.
Closed(c) ==
    /\ lifecycle = "Terminated"
    /\ client[c].at = "sending" \/ (client[c].at = "waiting" /\ ~Queued(c))
    /\ client' = [client EXCEPT ![c] = AttemptFailed(@)]
    /\ Backoff(c)
    /\ UNCHANGED <<runner, mailbox, actions, restarts, history, pauses>>

\* The caller drops the future, as a timeout around it does: a message that
\* was sent stays in the mailbox.
Abandon(c) ==
    /\ client[c].at \in {"sending", "waiting"}
    /\ client' = [client EXCEPT ![c].at = "Err"]
    /\ UNCHANGED <<runner, mailbox, actions, restarts, history, waits>>

-----------------------------------------------------------------------------
(* The loop of run(): it picks at random between its channels. *)

\* Mutant: the answer goes to whoever waits, not to the call that asked.
AnswersWaiting(m) == client[m.from].at = "waiting"

\* The oneshot that came with the message is still open at the other end.
Answers(m) == client[m.from].at = "waiting" /\ client[m.from].call = m.call

\* A message is handled, and its handler's result is the answer.
Handle ==
    /\ lifecycle = "Running"
    /\ mailbox # <<>>
    /\ mailbox' = Tail(mailbox)
    /\ LET m == Head(mailbox)
           c == m.from
           mine == m.call = client[c].call
       IN  \E ok \in BOOLEAN :
            /\ handled' = IF mine THEN [handled EXCEPT ![c] = @ + 1] ELSE handled
            /\ kept' = IF mine /\ ok THEN [kept EXCEPT ![c] = TRUE] ELSE kept
            /\ client' = IF ~Answers(m) THEN client
                         ELSE [client EXCEPT ![c] =
                                IF ok THEN [@ EXCEPT !.at = "Ok"] ELSE AttemptFailed(@)]
            /\ IF Answers(m) /\ ~ok THEN Backoff(c) ELSE UNCHANGED <<strategy, slept>>
    /\ UNCHANGED <<runner, actions, restarts, failures, pauses>>

\* pre_stop fails and its fault cannot be emitted: Failed; else Stopped.
RecvStop ==
    /\ lifecycle = "Running"
    /\ actions # <<>> /\ Head(actions) = "Stop"
    /\ actions' = Tail(actions)
    /\ lifecycle' \in {"Stopped", "Failed"}
    /\ UNCHANGED <<retries, answer, mailbox, client, restarts, history, waits>>

\* Mutant: a restarted actor begins with an empty mailbox.
RestartDropsMailbox ==
    /\ lifecycle = "Running"
    /\ actions # <<>> /\ Head(actions) = "Restart"
    /\ actions' = Tail(actions)
    /\ mailbox' = <<>>
    /\ lifecycle' = "Restarted"
    /\ UNCHANGED <<retries, answer, client, restarts, history, waits>>

\* Without children to fail, a Restart goes to the strategy.
RecvRestart ==
    /\ lifecycle = "Running"
    /\ actions # <<>> /\ Head(actions) = "Restart"
    /\ actions' = Tail(actions)
    /\ lifecycle' = "Restarted"
    /\ UNCHANGED <<retries, answer, mailbox, client, restarts, history, waits>>

EmitStopped ==
    /\ lifecycle = "Stopped"
    /\ lifecycle' = "PostStop"
    /\ UNCHANGED <<retries, answer, mailbox, actions, client, restarts, history, waits>>

\* Mutant: the messages stay in a mailbox that nobody will read.
TerminateKeepsMailbox ==
    /\ lifecycle = "PostStop"
    /\ lifecycle' = "Terminated"
    /\ UNCHANGED <<retries, answer, mailbox, actions, client, restarts, history, waits>>

\* post_stop, then the runner is dropped with its channels.
Terminate ==
    /\ lifecycle = "PostStop"
    /\ lifecycle' = "Terminated"
    /\ mailbox' = <<>> /\ actions' = <<>>
    /\ UNCHANGED <<retries, answer, client, restarts, history, waits>>

\* A hook or a handler panics; the message that was being handled is gone.
Panic ==
    /\ lifecycle \in {"Created", "Restarted", "Running", "PostStop"}
    /\ lifecycle' = "Terminated"
    /\ answer' = IF answer = "none" THEN "Closed" ELSE answer
    /\ mailbox' = <<>> /\ actions' = <<>>
    /\ UNCHANGED <<retries, client, restarts, history, waits>>

-----------------------------------------------------------------------------
\* The supervisor holds the action sender of an actor that was answered Ok,
\* and takes it out to send the one Stop.
Supervise ==
    /\ answer = "Ok" /\ lifecycle # "Terminated"
    /\ \A i \in DOMAIN actions : actions[i] # "Stop"
    /\ \/ actions' = Append(actions, "Stop") /\ UNCHANGED restarts
       \/ /\ restarts < MaxRestarts
          /\ restarts' = restarts + 1
          /\ actions' = Append(actions, "Restart")
    /\ UNCHANGED <<runner, mailbox, client, history, waits>>

Next ==
    \/ PreStart \/ Started \/ Retry \/ GiveUp \/ Failed
    \/ \E c \in Clients : Call(c) \/ Send(c) \/ Closed(c) \/ Abandon(c)
    \/ Handle \/ RecvStop \/ RecvRestart \/ EmitStopped \/ Terminate \/ Panic
    \/ Supervise

Spec == Init /\ [][Next]_vars

\* The runtime polls every task that can make progress, hooks and handlers
\* come to an end, and run()'s select! passes no ready channel over forever.
Fairness ==
    /\ WF_vars(PreStart) /\ WF_vars(Started) /\ WF_vars(Retry) /\ WF_vars(GiveUp)
    /\ WF_vars(Failed) /\ WF_vars(EmitStopped) /\ WF_vars(Terminate)
    /\ WF_vars(Handle) /\ WF_vars(RecvStop) /\ WF_vars(RecvRestart)
    /\ \A c \in Clients : WF_vars(Send(c)) /\ WF_vars(Closed(c))

FairSpec == Spec /\ Fairness

-----------------------------------------------------------------------------
(* Properties. *)

\* The types of the runner's fields, its channels and its clients.
TypeOK ==
    /\ lifecycle \in Lifecycles \cup {"Running", "PostStop"}
    /\ retries \in 0..MaxRetries
    /\ answer \in {"none", "Ok", "Err", "Closed"}
    /\ mailbox \in Seq(Messages)
    /\ actions \in Seq({"Stop", "Restart"})
    /\ client \in [Clients -> [at : {"none", "sending", "waiting", "Ok", "Err"},
                               call : 0..MaxCalls, attempt : 0..MaxAttempts]]
    /\ restarts \in 0..MaxRestarts
    /\ failures \in 0..(MaxRetries + 1)
    /\ handled \in [Clients -> 0..MaxAttempts]
    /\ kept \in [Clients -> BOOLEAN]

\* An actor is given up only after all its retries failed in a row: a startup
\* after pre_start and MaxRetries times pre_restart, a restart after
\* MaxRetries times pre_restart, however many restarts it survived before
\* (actor/src/runner.rs:285-303).
FullRetries ==
    [][lifecycle = "Restarted" /\ lifecycle' = "Failed" =>
        failures = MaxRetries + (IF answer = "none" THEN 1 ELSE 0)]_vars

\* A call that returns Ok was handled Ok itself, not an abandoned or a failed
\* attempt before it, and retry_ask has the handler run no more often than it
\* may attempt (actor/src/handler.rs:51, actor/src/actor.rs:639).
AnsweredByOwnHandling ==
    \A c \in Clients :
        /\ client[c].at = "Ok" => kept[c]
        /\ handled[c] <= MaxAttempts
        /\ client[c].at = "sending" => handled[c] < client[c].attempt

\* While the actor lives, the message of a caller that waits is in the
\* mailbox, once, through restarts of the actor too; no caller waits for a
\* message that was dropped.
WaitingIsQueued ==
    \A c \in Clients :
        /\ client[c].at = "waiting" /\ lifecycle # "Terminated" => Queued(c)
        /\ \A i, j \in DOMAIN mailbox : mailbox[i] = mailbox[j] => i = j

\* Every attempt of a call but the first comes after one backoff, and over all
\* its calls a client waits as its strategy plans, no duration twice.  Each
\* retry of a startup or a restart comes after one backoff
\* (actor/src/actor.rs:651, actor/src/runner.rs:287).
BackoffsInOrder ==
    /\ \A c \in Clients :
        /\ \A i \in DOMAIN slept[c] : slept[c][i][2] = Planned(Asking, i)
        /\ client[c].call > 0 =>
            Cardinality({i \in DOMAIN slept[c] : slept[c][i][1] = client[c].call})
                = client[c].attempt - 1
    /\ lifecycle = "Restarted" =>
        Len(pauses) + (IF answer = "none" THEN 1 ELSE 0) = failures

\* The retries of a startup or a restart wait as the strategy plans, the i-th
\* its i-th delay (actor/src/supervision.rs:58, 176-189).  The code does not
\* do so: it makes the strategy anew for each retry (actor/src/runner.rs:123).
RetriesAsPlanned ==
    \A i \in DOMAIN pauses : pauses[i] = Planned(Supervising, i)

\* The actor as its creator and its clients see it.
life ==
    CASE answer = "none" -> "new"
      [] answer = "Ok" -> IF lifecycle = "Terminated" THEN "over" ELSE "up"
      [] OTHER -> "refused"

calls ==
    [c \in Clients |-> IF client[c].at \in {"sending", "waiting"} THEN "open"
                      ELSE client[c].at]

Life == INSTANCE ActorLife WITH life <- life, calls <- calls, Clients <- Clients

\* The runner keeps the promises of ActorLife: its creation is decided, calls
\* succeed only between its start and its end, and every call returns, also
\* when the actor stops, restarts or panics meanwhile.
ImplementsActorLife == Life!Spec
=============================================================================
