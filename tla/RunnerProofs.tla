---------------------------- MODULE RunnerProofs ----------------------------
(***************************************************************************)
(* Proofs of the safety of Runner, for any clients, mailbox and bounds, and *)
(* that its steps are steps of ActorLife.                                   *)
(***************************************************************************)
EXTENDS Runner, FiniteSetTheorems, TLAPS

\* The retry counter and what the creator was told fit the lifecycle.
RetryInv ==
    /\ lifecycle = "Created" => answer = "none" /\ retries = 0 /\ failures = 0
    /\ lifecycle = "Started" => answer \in {"none", "Ok"} /\ retries = 0
    /\ lifecycle = "Running" => answer = "Ok" /\ retries = 0 /\ failures = 0
    /\ lifecycle = "Restarted" =>
        /\ answer \in {"none", "Ok"}
        /\ failures = retries + (IF answer = "none" THEN 1 ELSE 0)
    /\ lifecycle \in {"Failed", "Stopped", "PostStop", "Terminated"} => answer # "none"

\* The mailbox holds each message once, none of a call that did not begin.
MailboxInv ==
    /\ lifecycle = "Terminated" => mailbox = <<>>
    /\ \A i \in DOMAIN mailbox : mailbox[i].call <= client[mailbox[i].from].call
    /\ \A i, j \in DOMAIN mailbox : mailbox[i] = mailbox[j] => i = j

\* Every attempt puts at most one message into the mailbox, to be handled once.
ClientInv(c) ==
    /\ client[c].at = "none" <=> client[c].call = 0
    /\ client[c].at \in {"sending", "waiting"} => client[c].attempt >= 1
    /\ handled[c] <= client[c].attempt
    /\ client[c].at = "sending" => handled[c] < client[c].attempt /\ ~Queued(c)
    /\ client[c].at = "waiting" => handled[c] < client[c].attempt
    /\ client[c].at = "waiting" /\ lifecycle # "Terminated" => Queued(c)
    /\ Queued(c) => handled[c] < client[c].attempt
    /\ client[c].at = "Ok" => kept[c]

IndInv ==
    /\ TypeOK
    /\ RetryInv
    /\ MailboxInv
    /\ \A c \in Clients : ClientInv(c)

USE DEF Lifecycles

-----------------------------------------------------------------------------
\* The initial state satisfies the invariant.
LEMMA InitInd == Init => IndInv
<1> SUFFICES ASSUME Init PROVE IndInv
  OBVIOUS
<1>1. TypeOK
  BY RunnerAssumption DEF Init, TypeOK
<1>2. RetryInv /\ MailboxInv
  BY DEF Init, RetryInv, MailboxInv
<1>3. ASSUME NEW c \in Clients PROVE ClientInv(c)
  <2>1. ~Queued(c)
    BY DEF Init, Queued
  <2>2. /\ client[c].at = "none" /\ client[c].call = 0 /\ client[c].attempt = 0
        /\ handled[c] = 0
    BY DEF Init
  <2> QED
    BY <2>1, <2>2 DEF ClientInv
<1> QED
  BY <1>1, <1>2, <1>3 DEF IndInv

\* A step of the runner's lifecycle that leaves the mailbox and the clients
\* alone keeps what is said of them.
LEMMA ClientsQuiet ==
    ASSUME IndInv, UNCHANGED <<mailbox, client, handled, kept>>,
           lifecycle # "Terminated", lifecycle' # "Terminated"
    PROVE  MailboxInv' /\ \A c \in Clients : ClientInv(c)'
<1>1. MailboxInv'
  BY DEF IndInv, MailboxInv
<1>2. ASSUME NEW c \in Clients PROVE ClientInv(c)'
  <2>1. ClientInv(c) /\ Queued(c)' = Queued(c)
    BY DEF IndInv, Queued
  <2> QED
    BY <2>1 DEF ClientInv
<1> QED
  BY <1>1, <1>2

\* The mailbox is dropped at the end of the runner.
LEMMA ClientsDropped ==
    ASSUME IndInv, UNCHANGED <<client, handled, kept>>,
           lifecycle' = "Terminated", mailbox' = <<>>
    PROVE  MailboxInv' /\ \A c \in Clients : ClientInv(c)'
<1>1. MailboxInv'
  BY DEF MailboxInv
<1>2. ASSUME NEW c \in Clients PROVE ClientInv(c)'
  <2>1. ClientInv(c) /\ ~Queued(c)'
    BY DEF IndInv, Queued
  <2> QED
    BY <2>1 DEF ClientInv
<1> QED
  BY <1>1, <1>2

\* The runner's own steps keep the invariant.
LEMMA LifecycleInd ==
    ASSUME IndInv,
           \/ PreStart \/ Started \/ Retry \/ GiveUp \/ Failed
           \/ RecvStop \/ RecvRestart \/ EmitStopped \/ Terminate \/ Panic
    PROVE  IndInv'
<1>1. TypeOK'
  <2>1. ASSUME actions # <<>>, actions' = Tail(actions)
        PROVE  actions' \in Seq({"Stop", "Restart"})
    BY <2>1 DEF IndInv, TypeOK
  <2>2. retries' \in 0..MaxRetries /\ failures' \in 0..(MaxRetries + 1)
    <3>1. MaxRetries \in Nat /\ retries \in 0..MaxRetries /\ failures \in 0..(MaxRetries + 1)
      BY RunnerAssumption DEF IndInv, TypeOK
    <3>2. CASE PreStart \/ Retry
      BY <3>1, <3>2 DEF IndInv, RetryInv, PreStart, Retry
    <3>3. CASE ~(PreStart \/ Retry)
      BY <3>1, <3>3 DEF Started, GiveUp, Failed, RecvStop, RecvRestart, EmitStopped,
         Terminate, Panic, runner, history
    <3> QED
      BY <3>2, <3>3
  <2>3. actions' \in Seq({"Stop", "Restart"}) /\ mailbox' \in Seq(Messages)
    <3>1. CASE RecvStop \/ RecvRestart
      <4>1. actions # <<>> /\ actions' = Tail(actions) /\ mailbox' = mailbox
        BY <3>1 DEF RecvStop, RecvRestart
      <4> QED
        BY <4>1, <2>1 DEF IndInv, TypeOK
    <3>2. CASE Terminate \/ Panic
      <4>1. actions' = <<>> /\ mailbox' = <<>>
        BY <3>2 DEF Terminate, Panic
      <4>2. \A S : <<>> \in Seq(S)
        OBVIOUS
      <4> QED
        BY <4>1, <4>2
    <3>3. CASE actions' = actions /\ mailbox' = mailbox
      BY <3>3 DEF IndInv, TypeOK
    <3>4. RecvStop \/ RecvRestart \/ Terminate \/ Panic \/ (actions' = actions /\ mailbox' = mailbox)
      BY DEF PreStart, Started, Retry, GiveUp, Failed, EmitStopped
    <3> QED
      BY <3>1, <3>2, <3>3, <3>4
  <2>4. UNCHANGED <<client, restarts, handled, kept>>
    BY DEF PreStart, Started, Retry, GiveUp, Failed, RecvStop, RecvRestart, EmitStopped,
       Terminate, Panic, runner, history
  <2>5. /\ lifecycle' \in {"Created", "Started", "Running", "Restarted", "Failed", "Stopped",
                          "PostStop", "Terminated"}
        /\ answer' \in {"none", "Ok", "Err", "Closed"}
    BY DEF IndInv, TypeOK, PreStart, Started, Retry, GiveUp, Failed, RecvStop, RecvRestart,
       EmitStopped, Terminate, Panic, runner, history
  <2> QED
    BY <2>2, <2>3, <2>4, <2>5 DEF IndInv, TypeOK
<1>2. RetryInv'
  BY RunnerAssumption DEF IndInv, TypeOK, RetryInv, PreStart, Started, Retry, GiveUp, Failed,
     RecvStop, RecvRestart, EmitStopped, Terminate, Panic, runner, history
<1>3. MailboxInv' /\ \A c \in Clients : ClientInv(c)'
  <2>1. CASE Terminate \/ Panic
    BY <2>1, ClientsDropped DEF Terminate, Panic, runner, history
  <2>2. CASE ~(Terminate \/ Panic)
    BY <2>2, ClientsQuiet DEF PreStart, Started, Retry, GiveUp, Failed,
       RecvStop, RecvRestart, EmitStopped, runner, history
  <2> QED
    BY <2>1, <2>2
<1> QED
  BY <1>1, <1>2, <1>3 DEF IndInv

\* A step of one client that leaves the mailbox alone touches nobody else.
LEMMA OneClient ==
    ASSUME IndInv, NEW d \in Clients, NEW x, UNCHANGED <<mailbox, lifecycle>>,
           client' = [client EXCEPT ![d] = x], x.call >= client[d].call, x.call \in Nat,
           \A c \in Clients \ {d} : handled'[c] = handled[c] /\ kept'[c] = kept[c],
           ClientInv(d)'
    PROVE  MailboxInv' /\ \A c \in Clients : ClientInv(c)'
<1>1. client'[d] = x /\ \A c \in Clients \ {d} : client'[c] = client[c]
  BY DEF IndInv, TypeOK
<1>2. MailboxInv'
  <2>1. ASSUME NEW i \in DOMAIN mailbox
        PROVE  mailbox[i].call <= client'[mailbox[i].from].call
    <3>1. mailbox[i] \in Messages /\ mailbox[i].call <= client[mailbox[i].from].call
      BY DEF IndInv, TypeOK, MailboxInv
    <3>2. mailbox[i].from \in Clients /\ mailbox[i].call \in Nat
          /\ client[mailbox[i].from].call \in Nat
      BY <3>1, RunnerAssumption DEF Messages, IndInv, TypeOK
    <3> QED
      BY <3>1, <3>2, <1>1
  <2> QED
    BY <2>1 DEF IndInv, MailboxInv
<1>3. ASSUME NEW c \in Clients \ {d} PROVE ClientInv(c)'
  <2>1. ClientInv(c) /\ Queued(c)' = Queued(c)
    BY <1>1 DEF IndInv, Queued
  <2> QED
    BY <2>1, <1>1 DEF ClientInv
<1> QED
  BY <1>2, <1>3

\* What a failed attempt makes of a client that was sending or waiting.
LEMMA AttemptFailedType ==
    ASSUME TypeOK, NEW c \in Clients, client[c].at \in {"sending", "waiting"}
    PROVE  LET x == AttemptFailed(client[c])
           IN  /\ x \in [at : {"sending", "Err"}, call : 0..MaxCalls, attempt : 0..MaxAttempts]
               /\ x.call = client[c].call
               /\ x.at = "sending" => x.attempt = client[c].attempt + 1
               /\ x.at = "Err" => x.attempt = client[c].attempt
<1> DEFINE r == client[c]
<1>1. /\ r \in [at : {"none", "sending", "waiting", "Ok", "Err"},
                 call : 0..MaxCalls, attempt : 0..MaxAttempts]
      /\ MaxAttempts \in Nat
  BY RunnerAssumption DEF TypeOK
<1>2. CASE r.attempt < MaxAttempts
  <2>1. AttemptFailed(r) = [r EXCEPT !.at = "sending", !.attempt = @ + 1]
    BY <1>2 DEF AttemptFailed
  <2>3. AttemptFailed(r) = [at |-> "sending", call |-> r.call, attempt |-> r.attempt + 1]
    BY <1>1, <2>1
  <2>4. r.attempt + 1 \in 0..MaxAttempts /\ r.call \in 0..MaxCalls
    BY <1>1, <1>2
  <2> HIDE DEF r
  <2>2. /\ AttemptFailed(r).at = "sending" /\ AttemptFailed(r).call = r.call
        /\ AttemptFailed(r).attempt = r.attempt + 1
        /\ AttemptFailed(r) \in [at : {"sending"}, call : 0..MaxCalls, attempt : 0..MaxAttempts]
    BY <2>3, <2>4
  <2> QED
    BY <2>2 DEF r
<1>3. CASE ~(r.attempt < MaxAttempts)
  <2>1. AttemptFailed(r) = [r EXCEPT !.at = "Err"]
    BY <1>3 DEF AttemptFailed
  <2>2. /\ AttemptFailed(r).at = "Err" /\ AttemptFailed(r).call = r.call
        /\ AttemptFailed(r).attempt = r.attempt
        /\ AttemptFailed(r) \in [at : {"Err"}, call : 0..MaxCalls, attempt : 0..MaxAttempts]
    BY <1>1, <1>3, <2>1
  <2> QED
    BY <2>2
<1> QED
  BY <1>2, <1>3

\* The clients' steps that leave the mailbox alone keep the invariant.
LEMMA ClientInd ==
    ASSUME IndInv, NEW c \in Clients, Call(c) \/ Closed(c) \/ Abandon(c)
    PROVE  IndInv'
<1>t. /\ client[c] \in [at : {"none", "sending", "waiting", "Ok", "Err"},
                        call : 0..MaxCalls, attempt : 0..MaxAttempts]
      /\ handled[c] \in 0..MaxAttempts /\ MaxAttempts \in Nat \ {0} /\ MaxCalls \in Nat
      /\ DOMAIN client = Clients /\ DOMAIN handled = Clients /\ DOMAIN kept = Clients
  BY RunnerAssumption DEF IndInv, TypeOK
<1>q. ClientInv(c)
  BY DEF IndInv
<1>u. UNCHANGED <<runner, mailbox, actions, restarts, failures>>
  BY DEF Call, Closed, Abandon, history
<1>1. CASE Call(c)
  <2> DEFINE x == [at |-> "sending", call |-> client[c].call + 1, attempt |-> 1]
  <2>1. /\ client' = [client EXCEPT ![c] = x]
        /\ handled' = [handled EXCEPT ![c] = 0] /\ kept' = [kept EXCEPT ![c] = FALSE]
        /\ client[c].call < MaxCalls
    BY <1>1 DEF Call
  <2>2. x \in [at : {"sending"}, call : 0..MaxCalls, attempt : 0..MaxAttempts]
    BY <2>1, <1>t
  <2>3. ~Queued(c)'
    <3>1. ASSUME NEW i \in DOMAIN mailbox, mailbox[i].from = c
          PROVE  mailbox[i].call # x.call
      <4>1. mailbox[i] \in Messages /\ mailbox[i].call <= client[c].call
        BY <3>1 DEF IndInv, TypeOK, MailboxInv
      <4>2. mailbox[i].call \in Nat
        BY <4>1, <1>t DEF Messages
      <4> QED
        BY <4>1, <4>2, <1>t
    <3>2. client'[c].call = x.call /\ mailbox' = mailbox
      BY <2>1, <1>t, <1>u
    <3> QED
      BY <3>1, <3>2 DEF Queued
  <2>4. ClientInv(c)'
    BY <2>1, <2>3, <1>t DEF ClientInv
  <2>5. MailboxInv' /\ \A b \in Clients : ClientInv(b)'
    <3>1. x.call >= client[c].call /\ x.call \in Nat
      BY <1>t
    <3>2. \A b \in Clients \ {c} : handled'[b] = handled[b] /\ kept'[b] = kept[b]
      BY <2>1, <1>t
    <3> HIDE DEF x
    <3> QED
      BY <2>1, <2>4, <3>1, <3>2, <1>u, OneClient DEF runner
  <2>6. TypeOK' /\ RetryInv'
    BY <2>1, <2>2, <1>u, <1>t DEF IndInv, TypeOK, RetryInv, runner
  <2> QED
    BY <2>5, <2>6 DEF IndInv
<1>2. CASE Closed(c) \/ Abandon(c)
  <2>1. PICK x :
          /\ client' = [client EXCEPT ![c] = x]
          /\ x \in [at : {"sending", "Err"}, call : 0..MaxCalls, attempt : 0..MaxAttempts]
          /\ x.call = client[c].call
          /\ x.at = "sending" => x.attempt = client[c].attempt + 1 /\ lifecycle = "Terminated"
          /\ x.at = "Err" => x.attempt = client[c].attempt
    <3>1. CASE Closed(c)
      <4>1. /\ client' = [client EXCEPT ![c] = AttemptFailed(client[c])]
            /\ client[c].at \in {"sending", "waiting"} /\ lifecycle = "Terminated"
        BY <3>1 DEF Closed
      <4>2. /\ AttemptFailed(client[c])
                \in [at : {"sending", "Err"}, call : 0..MaxCalls, attempt : 0..MaxAttempts]
            /\ AttemptFailed(client[c]).call = client[c].call
            /\ AttemptFailed(client[c]).at = "sending" =>
                AttemptFailed(client[c]).attempt = client[c].attempt + 1
            /\ AttemptFailed(client[c]).at = "Err" =>
                AttemptFailed(client[c]).attempt = client[c].attempt
        BY <4>1, AttemptFailedType DEF IndInv
      <4> QED
        BY <4>1, <4>2
    <3>2. CASE Abandon(c)
      <4> DEFINE x == [at |-> "Err", call |-> client[c].call, attempt |-> client[c].attempt]
      <4>1. client' = [client EXCEPT ![c] = [client[c] EXCEPT !.at = "Err"]]
        BY <3>2 DEF Abandon
      <4>2. [client[c] EXCEPT !.at = "Err"] = x
        BY <1>t
      <4>3. /\ x \in [at : {"sending", "Err"}, call : 0..MaxCalls, attempt : 0..MaxAttempts]
            /\ x.at = "Err" /\ x.call = client[c].call /\ x.attempt = client[c].attempt
        BY <1>t
      <4> HIDE DEF x
      <4> QED
        BY <4>1, <4>2, <4>3
    <3> QED
      BY <1>2, <3>1, <3>2
  <2>2. UNCHANGED <<handled, kept>> /\ client[c].at \in {"sending", "waiting"}
    BY <1>2 DEF Closed, Abandon, history
  <2>3. client'[c] = x /\ Queued(c)' = Queued(c)
    BY <2>1, <1>t, <1>u DEF Queued
  <2>4. lifecycle = "Terminated" => ~Queued(c)
    BY DEF IndInv, MailboxInv, Queued
  <2>5. ClientInv(c)'
    BY <2>1, <2>2, <2>3, <2>4, <1>t, <1>q, <1>u DEF ClientInv, runner
  <2>6. MailboxInv' /\ \A b \in Clients : ClientInv(b)'
    <3>1. x.call >= client[c].call /\ x.call \in Nat
      BY <2>1, <1>t
    <3> QED
      BY <2>1, <2>2, <2>5, <3>1, <1>u, OneClient DEF runner
  <2>7. TypeOK' /\ RetryInv'
    BY <2>1, <2>2, <1>u, <1>t DEF IndInv, TypeOK, RetryInv, runner
  <2> QED
    BY <2>6, <2>7 DEF IndInv
<1> QED
  BY <1>1, <1>2

\* The mailbox takes a message.
LEMMA SendInd ==
    ASSUME IndInv, NEW c \in Clients, Send(c)
    PROVE  IndInv'
<1> DEFINE m == [from |-> c, call |-> client[c].call]
<1>t. /\ client[c] \in [at : {"none", "sending", "waiting", "Ok", "Err"},
                        call : 0..MaxCalls, attempt : 0..MaxAttempts]
      /\ handled[c] \in 0..MaxAttempts /\ MaxAttempts \in Nat \ {0} /\ MaxCalls \in Nat
      /\ DOMAIN client = Clients /\ mailbox \in Seq(Messages)
  BY RunnerAssumption DEF IndInv, TypeOK
<1>q. ClientInv(c) /\ MailboxInv
  BY DEF IndInv
<1>u. /\ UNCHANGED <<runner, actions, restarts, history>>
      /\ mailbox' = Append(mailbox, m) /\ client[c].at = "sending" /\ lifecycle # "Terminated"
  BY DEF Send
<1>1. client[c].call \in 1..MaxCalls /\ m \in Messages
  BY <1>t, <1>q, <1>u DEF ClientInv, Messages
<1>2. client' = [client EXCEPT ![c] = [at |-> "waiting", call |-> client[c].call,
                                       attempt |-> client[c].attempt]]
  <2>1. client' = [client EXCEPT ![c] = [client[c] EXCEPT !.at = "waiting"]]
    BY DEF Send
  <2>2. [client[c] EXCEPT !.at = "waiting"]
          = [at |-> "waiting", call |-> client[c].call, attempt |-> client[c].attempt]
    BY <1>t
  <2> QED
    BY <2>1, <2>2
<1>3. /\ client'[c].at = "waiting" /\ client'[c].attempt = client[c].attempt
      /\ \A b \in Clients : client'[b].call = client[b].call
      /\ \A b \in Clients \ {c} : client'[b] = client[b]
  BY <1>2, <1>t
<1>4. \A i \in DOMAIN mailbox : mailbox[i] # m
  BY <1>q, <1>u DEF ClientInv, Queued
<1>5. /\ DOMAIN mailbox' = DOMAIN mailbox \cup {Len(mailbox) + 1}
      /\ \A i \in DOMAIN mailbox : mailbox'[i] = mailbox[i]
      /\ mailbox'[Len(mailbox) + 1] = m
      /\ mailbox' \in Seq(Messages)
  <2> HIDE DEF m
  <2> QED
    BY <1>u, <1>t, <1>1
<1>6. MailboxInv'
  <2>1. ASSUME NEW i \in DOMAIN mailbox'
        PROVE  mailbox'[i].call <= client'[mailbox'[i].from].call
    <3>1. CASE i \in DOMAIN mailbox
      <4>1. mailbox[i].from \in Clients
        <5>1. mailbox[i] \in Messages
          BY <3>1, <1>t
        <5> QED
          BY <5>1 DEF Messages
      <4> QED
        BY <4>1, <3>1, <1>5, <1>3, <1>q DEF MailboxInv
    <3>2. CASE i = Len(mailbox) + 1
      BY <3>2, <1>5, <1>3, <1>t
    <3> QED
      BY <3>1, <3>2, <1>5
  <2>2. ASSUME NEW i \in DOMAIN mailbox', NEW j \in DOMAIN mailbox', mailbox'[i] = mailbox'[j]
        PROVE  i = j
    <3> HIDE DEF m
    <3> QED
      BY <2>2, <1>5, <1>4, <1>q DEF MailboxInv
  <2> QED
    BY <2>1, <2>2, <1>u DEF MailboxInv, runner
<1>7. ASSUME NEW b \in Clients PROVE ClientInv(b)'
  <2>1. CASE b = c
    <3>1. Queued(c)'
      BY <1>5, <1>3 DEF Queued
    <3> QED
      BY <2>1, <3>1, <1>3, <1>2, <1>t, <1>q, <1>u DEF ClientInv, history
  <2>2. CASE b # c
    <3>1. Queued(b)' = Queued(b)
      BY <2>2, <1>5, <1>3 DEF Queued
    <3>2. ClientInv(b)
      BY DEF IndInv
    <3> QED
      BY <2>2, <3>1, <3>2, <1>3, <1>u DEF ClientInv, history, runner
  <2> QED
    BY <2>1, <2>2
<1>8. TypeOK' /\ RetryInv'
  BY <1>2, <1>5, <1>u, <1>t DEF IndInv, TypeOK, RetryInv, runner, history
<1> QED
  BY <1>6, <1>7, <1>8 DEF IndInv

\* A message is handled.
LEMMA HandleInd ==
    ASSUME IndInv, Handle
    PROVE  IndInv'
<1>m. PICK m \in Messages :
        m = Head(mailbox) /\ m = mailbox[1] /\ 1 \in DOMAIN mailbox /\ mailbox \in Seq(Messages)
  BY DEF IndInv, TypeOK, Handle
<1>d. PICK c \in Clients : m.from = c /\ m.call \in 1..MaxCalls /\ m = [from |-> c, call |-> m.call]
  BY <1>m DEF Messages
<1> DEFINE mine == m.call = client[c].call
<1>1. PICK ok \in BOOLEAN :
        /\ handled' = IF mine THEN [handled EXCEPT ![c] = @ + 1] ELSE handled
        /\ kept' = IF mine /\ ok THEN [kept EXCEPT ![c] = TRUE] ELSE kept
        /\ client' = IF ~Answers(m) THEN client
                     ELSE [client EXCEPT ![c] =
                            IF ok THEN [@ EXCEPT !.at = "Ok"] ELSE AttemptFailed(@)]
  BY <1>m, <1>d DEF Handle
<1>t. /\ client[c] \in [at : {"none", "sending", "waiting", "Ok", "Err"},
                        call : 0..MaxCalls, attempt : 0..MaxAttempts]
      /\ handled[c] \in 0..MaxAttempts /\ MaxAttempts \in Nat \ {0} /\ MaxCalls \in Nat
      /\ DOMAIN client = Clients /\ DOMAIN handled = Clients /\ DOMAIN kept = Clients
  BY <1>d, RunnerAssumption DEF IndInv, TypeOK
<1>q. ClientInv(c) /\ MailboxInv
  BY <1>d DEF IndInv
<1>u. /\ UNCHANGED <<runner, actions, restarts, failures>>
      /\ mailbox' = Tail(mailbox) /\ lifecycle = "Running"
  BY DEF Handle
<1>2. /\ mailbox' \in Seq(Messages)
      /\ \A i \in DOMAIN mailbox' : i + 1 \in DOMAIN mailbox /\ mailbox'[i] = mailbox[i + 1]
      /\ \A i \in DOMAIN mailbox : i = 1 \/ (i - 1 \in DOMAIN mailbox' /\ mailbox'[i - 1] = mailbox[i])
  BY <1>u, <1>m
<1>3. \A i \in DOMAIN mailbox' : mailbox'[i] # m
  <2>1. ASSUME NEW i \in DOMAIN mailbox' PROVE mailbox'[i] # m
    <3>1. i + 1 \in DOMAIN mailbox /\ mailbox'[i] = mailbox[i + 1] /\ i + 1 # 1 /\ i \in Nat
      BY <1>2
    <3> QED
      BY <3>1, <1>m, <1>q DEF MailboxInv
  <2> QED
    BY <2>1
\* What becomes of the client: nothing, or the end of its attempt.
<1>4. PICK x :
        /\ client' = [client EXCEPT ![c] = x]
        /\ x \in [at : {"none", "sending", "waiting", "Ok", "Err"},
                  call : 0..MaxCalls, attempt : 0..MaxAttempts]
        /\ x.call = client[c].call
        /\ \/ ~Answers(m) /\ x = client[c]
           \/ Answers(m) /\ ok /\ x.at = "Ok" /\ x.attempt = client[c].attempt
           \/ Answers(m) /\ x.at = "Err" /\ x.attempt = client[c].attempt
           \/ Answers(m) /\ x.at = "sending" /\ x.attempt = client[c].attempt + 1
  <2>1. CASE ~Answers(m)
    <3>1. client' = [client EXCEPT ![c] = client[c]]
      BY <2>1, <1>1 DEF IndInv, TypeOK
    <3> QED
      BY <2>1, <3>1, <1>t
  <2>2. CASE Answers(m) /\ ok
    <3> DEFINE x == [at |-> "Ok", call |-> client[c].call, attempt |-> client[c].attempt]
    <3>1. client' = [client EXCEPT ![c] = [client[c] EXCEPT !.at = "Ok"]]
      BY <2>2, <1>1
    <3>2. [client[c] EXCEPT !.at = "Ok"] = x
      BY <1>t
    <3>3. /\ x \in [at : {"none", "sending", "waiting", "Ok", "Err"},
                    call : 0..MaxCalls, attempt : 0..MaxAttempts]
          /\ x.at = "Ok" /\ x.call = client[c].call /\ x.attempt = client[c].attempt
      BY <1>t
    <3> HIDE DEF x
    <3> QED
      BY <2>2, <3>1, <3>2, <3>3
  <2>3. CASE Answers(m) /\ ~ok
    <3>1. client' = [client EXCEPT ![c] = AttemptFailed(client[c])]
      BY <2>3, <1>1
    <3>2. client[c].at = "waiting" /\ TypeOK
      BY <2>3, <1>d DEF Answers, IndInv
    <3>3. /\ AttemptFailed(client[c])
              \in [at : {"none", "sending", "waiting", "Ok", "Err"},
                   call : 0..MaxCalls, attempt : 0..MaxAttempts]
          /\ AttemptFailed(client[c]).call = client[c].call
          /\ \/ /\ AttemptFailed(client[c]).at = "sending"
                /\ AttemptFailed(client[c]).attempt = client[c].attempt + 1
             \/ /\ AttemptFailed(client[c]).at = "Err"
                /\ AttemptFailed(client[c]).attempt = client[c].attempt
      BY <3>2, <1>d, AttemptFailedType
    <3> QED
      BY <2>3, <3>1, <3>3
  <2> QED
    BY <2>1, <2>2, <2>3
<1>5. /\ client'[c] = x
      /\ \A b \in Clients : client'[b].call = client[b].call
      /\ \A b \in Clients \ {c} :
            client'[b] = client[b] /\ handled'[b] = handled[b] /\ kept'[b] = kept[b]
  <2>1. client'[c] = x /\ \A b \in Clients \ {c} : client'[b] = client[b]
    BY <1>4, <1>d, <1>t
  <2>2. \A b \in Clients \ {c} : handled'[b] = handled[b] /\ kept'[b] = kept[b]
    BY <1>1, <1>t
  <2> QED
    BY <2>1, <2>2, <1>4
<1>6. MailboxInv'
  <2>1. ASSUME NEW i \in DOMAIN mailbox'
        PROVE  mailbox'[i].call <= client'[mailbox'[i].from].call
    <3>1. i + 1 \in DOMAIN mailbox /\ mailbox'[i] = mailbox[i + 1] /\ mailbox'[i] \in Messages
      BY <1>2
    <3>2. mailbox'[i].from \in Clients
      BY <3>1 DEF Messages
    <3> QED
      BY <3>1, <3>2, <1>5, <1>q DEF MailboxInv
  <2>2. ASSUME NEW i \in DOMAIN mailbox', NEW j \in DOMAIN mailbox', mailbox'[i] = mailbox'[j]
        PROVE  i = j
    <3>1. i + 1 = j + 1 /\ i \in Nat /\ j \in Nat
      BY <2>2, <1>2, <1>q DEF MailboxInv
    <3> QED
      BY <3>1
  <2> QED
    BY <2>1, <2>2, <1>u DEF MailboxInv, runner
<1>7. ASSUME NEW b \in Clients PROVE ClientInv(b)'
  <2>1. CASE b # c
    <3>1. Queued(b)' = Queued(b)
      <4>1. \A i \in DOMAIN mailbox : mailbox[i].from = b => i # 1
        BY <2>1, <1>m, <1>d
      <4> QED
        BY <4>1, <2>1, <1>2, <1>5 DEF Queued
    <3>2. ClientInv(b)
      BY DEF IndInv
    <3> QED
      BY <2>1, <3>1, <3>2, <1>5, <1>u DEF ClientInv, runner
  <2>2. CASE b = c /\ mine
    <3>1. Queued(c) /\ ~Queued(c)'
      <4>1. m = [from |-> c, call |-> client[c].call] /\ client'[c].call = client[c].call
        BY <2>2, <1>d, <1>5
      <4> QED
        BY <4>1, <1>m, <1>3 DEF Queued
    <3>2. handled'[c] = handled[c] + 1 /\ (kept'[c] \/ (kept'[c] = kept[c] /\ ~ok))
      BY <2>2, <1>1, <1>t
    <3>3. client[c].at # "sending" /\ handled[c] < client[c].attempt
      BY <3>1, <1>q DEF ClientInv
    <3>4. Answers(m) <=> client[c].at = "waiting"
      BY <2>2, <1>d DEF Answers
    <3>5. ok => kept'[c]
      BY <2>2, <1>1, <1>t
    <3>6. x.at = "Ok" => kept'[c]
      BY <3>2, <3>4, <3>5, <1>4, <1>q DEF ClientInv
    <3> QED
      BY <2>2, <3>1, <3>2, <3>3, <3>4, <3>6, <1>4, <1>5, <1>t, <1>q, <1>u DEF ClientInv, runner
  <2>3. CASE b = c /\ ~mine
    <3>1. ~Answers(m) /\ x = client[c]
      BY <2>3, <1>4, <1>d DEF Answers
    <3>2. handled'[c] = handled[c] /\ kept'[c] = kept[c]
      BY <2>3, <1>1
    <3>3. Queued(c)' = Queued(c)
      <4>1. \A i \in DOMAIN mailbox : mailbox[i] = [from |-> c, call |-> client[c].call] => i # 1
        BY <2>3, <1>m, <1>d
      <4> QED
        BY <4>1, <1>2, <1>5 DEF Queued
    <3> QED
      BY <2>3, <3>1, <3>2, <3>3, <1>5, <1>q, <1>u DEF ClientInv, runner
  <2> QED
    BY <2>1, <2>2, <2>3
<1>8. TypeOK' /\ RetryInv'
  <2>1. handled' \in [Clients -> 0..MaxAttempts]
    <3>1. \A b \in Clients : handled'[b] \in 0..MaxAttempts
      <4>1. ASSUME mine PROVE handled[c] < client[c].attempt
        BY <4>1, <1>d, <1>m, <1>q DEF ClientInv, Queued
      <4>2. handled'[c] \in 0..MaxAttempts
        BY <4>1, <1>1, <1>t
      <4> QED
        BY <4>2, <1>5 DEF IndInv, TypeOK
    <3>2. handled' = [b \in Clients |-> handled'[b]]
      BY <1>1 DEF IndInv, TypeOK
    <3> QED
      BY <3>1, <3>2
  <2>2. kept' \in [Clients -> BOOLEAN]
    BY <1>1 DEF IndInv, TypeOK
  <2>3. client' \in [Clients -> [at : {"none", "sending", "waiting", "Ok", "Err"},
                                call : 0..MaxCalls, attempt : 0..MaxAttempts]]
    BY <1>4 DEF IndInv, TypeOK
  <2> QED
    BY <2>1, <2>2, <2>3, <1>2, <1>u DEF IndInv, TypeOK, RetryInv, runner
<1> QED
  BY <1>6, <1>7, <1>8 DEF IndInv

\* The supervisor changes its action channel only.
LEMMA SuperviseInd ==
    ASSUME IndInv, Supervise
    PROVE  IndInv'
<1>1. actions' \in Seq({"Stop", "Restart"}) /\ restarts' \in 0..MaxRestarts
  <2>1. \A a \in {"Stop", "Restart"} : Append(actions, a) \in Seq({"Stop", "Restart"})
    BY DEF IndInv, TypeOK
  <2>2. MaxRestarts \in Nat /\ restarts \in 0..MaxRestarts
    BY RunnerAssumption DEF IndInv, TypeOK
  <2> QED
    BY <2>1, <2>2 DEF Supervise
<1>2. UNCHANGED <<runner, mailbox, client, history>> /\ lifecycle # "Terminated"
  BY DEF Supervise
<1>3. TypeOK' /\ RetryInv'
  BY <1>1, <1>2 DEF IndInv, TypeOK, RetryInv, runner, history
<1>4. MailboxInv' /\ \A c \in Clients : ClientInv(c)'
  BY <1>2, ClientsQuiet DEF runner, history
<1> QED
  BY <1>3, <1>4 DEF IndInv

\* So does a step that changes nothing.
LEMMA StutterInd ==
    ASSUME IndInv, UNCHANGED vars
    PROVE  IndInv'
<1>1. UNCHANGED <<lifecycle, retries, answer, mailbox, actions, client, restarts, failures,
                  handled, kept>>
  BY DEF vars, runner, history
<1>2. TypeOK' /\ RetryInv' /\ MailboxInv'
  BY <1>1 DEF IndInv, TypeOK, RetryInv, MailboxInv
<1>3. ASSUME NEW c \in Clients PROVE ClientInv(c)'
  <2>1. ClientInv(c) /\ Queued(c)' = Queued(c)
    BY <1>1 DEF IndInv, Queued
  <2> QED
    BY <2>1, <1>1 DEF ClientInv
<1> QED
  BY <1>2, <1>3 DEF IndInv

\* Every step keeps the invariant.
LEMMA NextInd == IndInv /\ [Next]_vars => IndInv'
<1> SUFFICES ASSUME IndInv, [Next]_vars PROVE IndInv'
  OBVIOUS
<1>1. CASE \/ PreStart \/ Started \/ Retry \/ GiveUp \/ Failed
           \/ RecvStop \/ RecvRestart \/ EmitStopped \/ Terminate \/ Panic
  BY <1>1, LifecycleInd
<1>2. ASSUME NEW c \in Clients, Call(c) \/ Closed(c) \/ Abandon(c) PROVE IndInv'
  BY <1>2, ClientInd
<1>3. ASSUME NEW c \in Clients, Send(c) PROVE IndInv'
  BY <1>3, SendInd
<1>4. CASE Handle
  BY <1>4, HandleInd
<1>5. CASE Supervise
  BY <1>5, SuperviseInd
<1>6. CASE UNCHANGED vars
  BY <1>6, StutterInd
<1> QED
  BY <1>1, <1>2, <1>3, <1>4, <1>5, <1>6 DEF Next

-----------------------------------------------------------------------------
\* The strengthened invariant holds in every reachable state of the runner,
\* for any clients, mailbox, retries, attempts and calls.
THEOREM Inductive == Spec => []IndInv
<1> QED
  BY InitInd, NextInd, PTL DEF Spec

\* The types of the runner, its channels and its clients are kept.
THEOREM TypeCorrect == Spec => []TypeOK
<1>1. IndInv => TypeOK
  BY DEF IndInv
<1> QED
  BY <1>1, Inductive, PTL

\* A call that returns Ok was handled Ok itself, and no attempt runs the
\* handler twice (actor/src/handler.rs:51, actor/src/actor.rs:639).
THEOREM AnsweredByOwnHandlingHolds == Spec => []AnsweredByOwnHandling
<1>1. IndInv => AnsweredByOwnHandling
  <2> SUFFICES ASSUME IndInv, NEW c \in Clients
               PROVE  /\ client[c].at = "Ok" => kept[c]
                      /\ handled[c] <= MaxAttempts
                      /\ client[c].at = "sending" => handled[c] < client[c].attempt
    BY DEF AnsweredByOwnHandling
  <2>1. handled[c] \in 0..MaxAttempts
    BY DEF IndInv, TypeOK
  <2> QED
    BY <2>1, RunnerAssumption DEF IndInv, ClientInv
<1> QED
  BY <1>1, Inductive, PTL

\* While the actor lives a waiting caller's message is queued once, also
\* through restarts (actor/src/runner.rs:237-248).
THEOREM WaitingIsQueuedHolds == Spec => []WaitingIsQueued
<1>1. IndInv => WaitingIsQueued
  BY DEF IndInv, MailboxInv, ClientInv, WaitingIsQueued
<1> QED
  BY <1>1, Inductive, PTL

\* No actor is given up before all its retries failed in a row
\* (actor/src/runner.rs:285-303).
THEOREM FullRetriesHolds == Spec => FullRetries
<1>1. IndInv /\ [Next]_vars =>
        [lifecycle = "Restarted" /\ lifecycle' = "Failed" =>
            failures = MaxRetries + (IF answer = "none" THEN 1 ELSE 0)]_vars
  <2> SUFFICES ASSUME IndInv, [Next]_vars, lifecycle = "Restarted", lifecycle' = "Failed"
               PROVE  failures = MaxRetries + (IF answer = "none" THEN 1 ELSE 0)
    OBVIOUS
  <2>1. GiveUp
    BY DEF Next, vars, runner, history, PreStart, Started, Retry, Failed, Call, Send, Closed,
       Abandon, Handle, RecvStop, RecvRestart, EmitStopped, Terminate, Panic, Supervise
  <2>2. retries = MaxRetries
    BY <2>1, RunnerAssumption DEF GiveUp, IndInv, TypeOK
  <2> QED
    BY <2>2 DEF IndInv, RetryInv
<1> QED
  BY <1>1, Inductive, PTL DEF Spec, FullRetries

-----------------------------------------------------------------------------
(* Backoffs. *)

\* What is left of a strategy after some backoffs.
Remaining ==
    {s \in [kind : {"NoInterval", "FixedInterval", "CustomInterval"}, max : Nat,
            durations : Seq(Nat)] :
        /\ s.kind = "NoInterval" => s.durations = <<>>
        /\ s.kind = "FixedInterval" => Len(s.durations) = 1}

\* next_backoff yields what the documentation of the strategies plans first
\* (actor/src/supervision.rs:86, 127, 176).
LEMMA NextIsPlanned ==
    ASSUME NEW s \in Remaining
    PROVE  NextBackoff(s) = Planned(s, 1) /\ NextBackoff(s) \in Seq(Nat)
<1>1. /\ s.kind \in {"NoInterval", "FixedInterval", "CustomInterval"}
      /\ s.durations \in Seq(Nat)
      /\ s.kind = "NoInterval" => s.durations = <<>>
      /\ s.kind = "FixedInterval" => Len(s.durations) = 1
  BY DEF Remaining
<1>2. CASE s.durations = <<>>
  BY <1>1, <1>2 DEF NextBackoff, Planned
<1>3. CASE s.durations # <<>>
  <2>1. /\ Head(s.durations) = s.durations[1] /\ s.durations[1] \in Nat
        /\ 1 \in DOMAIN s.durations
        /\ NextBackoff(s) = <<s.durations[1]>>
    BY <1>1, <1>3 DEF NextBackoff
  <2>2. Len(s.durations) = 1 => s.durations = <<s.durations[1]>>
    BY <1>1
  <2>3. <<s.durations[1]>> \in Seq(Nat)
    BY <2>1
  <2> QED
    BY <1>1, <1>3, <2>1, <2>2, <2>3 DEF Planned
<1> QED
  BY <1>2, <1>3

\* A strategy that yielded a backoff plans the rest from there on.
LEMMA RestIsPlanned ==
    ASSUME NEW s \in Remaining, NEW i \in Nat \ {0}
    PROVE  AfterBackoff(s) \in Remaining /\ Planned(AfterBackoff(s), i) = Planned(s, i + 1)
<1>1. /\ s \in [kind : {"NoInterval", "FixedInterval", "CustomInterval"}, max : Nat,
                durations : Seq(Nat)]
      /\ s.kind = "NoInterval" => s.durations = <<>>
      /\ s.kind = "FixedInterval" => Len(s.durations) = 1
  BY DEF Remaining
<1>2. CASE s.kind # "CustomInterval"
  BY <1>1, <1>2 DEF AfterBackoff, Planned
<1>3. CASE s.kind = "CustomInterval" /\ s.durations = <<>>
  BY <1>1, <1>3 DEF AfterBackoff, Planned
<1>4. CASE s.kind = "CustomInterval" /\ s.durations # <<>>
  <2> DEFINE t == AfterBackoff(s)
  <2>1. t = [s EXCEPT !.durations = Tail(s.durations)]
    BY <1>4 DEF AfterBackoff
  <2>2. /\ Tail(s.durations) \in Seq(Nat)
        /\ i \in DOMAIN Tail(s.durations) <=> i + 1 \in DOMAIN s.durations
        /\ i \in DOMAIN Tail(s.durations) => Tail(s.durations)[i] = s.durations[i + 1]
    BY <1>1, <1>4
  <2>3. t.kind = "CustomInterval" /\ t.durations = Tail(s.durations) /\ t \in Remaining
    BY <1>1, <1>4, <2>1, <2>2 DEF Remaining
  <2> HIDE DEF t
  <2>4. Planned(t, i) = Planned(s, i + 1)
    BY <1>4, <2>2, <2>3 DEF Planned
  <2> QED
    BY <2>3, <2>4 DEF t
<1> QED
  BY <1>2, <1>3, <1>4

\* The backoffs that a client took in its n-th call.
BackoffsIn(c, n) == {i \in DOMAIN slept[c] : slept[c][i][1] = n}

\* What is left of a client's strategy plans what comes after the backoffs it
\* took, none of which is of a call to come.
WaitsInv(c) ==
    /\ \A i \in Nat \ {0} : Planned(strategy[c], i) = Planned(Asking, Len(slept[c]) + i)
    /\ \A i \in DOMAIN slept[c] :
        slept[c][i][2] = Planned(Asking, i) /\ slept[c][i][1] <= client[c].call
    /\ client[c].call > 0 =>
        Cardinality(BackoffsIn(c, client[c].call)) = client[c].attempt - 1

\* The backoffs of init are as many as the retries that failed.
PauseInv ==
    /\ pauses \in Seq(Seq(Nat))
    /\ \A i \in DOMAIN pauses : pauses[i] = Planned(Supervising, 1)
    /\ lifecycle \in {"Created", "Running"} => pauses = <<>>
    /\ lifecycle = "Restarted" => Len(pauses) = retries

BackoffInv ==
    /\ strategy \in [Clients -> Remaining]
    /\ slept \in [Clients -> Seq((0..MaxCalls) \X Seq(Nat))]
    /\ \A c \in Clients : WaitsInv(c)
    /\ PauseInv

\* No backoff was taken at first.
LEMMA BackoffInit == Init => BackoffInv
<1> SUFFICES ASSUME Init PROVE BackoffInv
  OBVIOUS
<1>1. Asking \in Remaining
  BY RunnerAssumption DEF Strategies, Remaining
<1>2. \A S : <<>> \in Seq(S) /\ Len(<<>>) = 0
  OBVIOUS
<1>3. /\ strategy \in [Clients -> Remaining]
      /\ slept \in [Clients -> Seq((0..MaxCalls) \X Seq(Nat))]
  BY <1>1, <1>2 DEF Init
<1>4. ASSUME NEW c \in Clients PROVE WaitsInv(c)
  BY <1>2 DEF Init, WaitsInv
<1>5. PauseInv
  BY <1>2 DEF Init, PauseInv
<1> QED
  BY <1>3, <1>4, <1>5 DEF BackoffInv

\* A client whose attempt ended at the last one, or did not end, took none.
LEMMA NoBackoffTaken ==
    ASSUME NEW c \in Clients, WaitsInv(c), slept'[c] = slept[c], strategy'[c] = strategy[c],
           client'[c].call = client[c].call, client'[c].attempt = client[c].attempt
    PROVE  WaitsInv(c)'
BY DEF WaitsInv, BackoffsIn

\* A sequence with one element more.
LEMMA OneMore ==
    ASSUME NEW S, NEW q \in Seq(S), NEW e \in S
    PROVE  /\ Append(q, e) \in Seq(S) /\ Len(Append(q, e)) = Len(q) + 1
           /\ DOMAIN Append(q, e) = DOMAIN q \cup {Len(q) + 1}
           /\ \A i \in DOMAIN q : Append(q, e)[i] = q[i]
           /\ Append(q, e)[Len(q) + 1] = e
           /\ Len(q) + 1 \notin DOMAIN q /\ DOMAIN q = 1..Len(q)
OBVIOUS

\* A client takes the backoff between two attempts.
LEMMA BackoffTaken ==
    ASSUME BackoffInv, NEW c \in Clients, Backoff(c), client[c].attempt < MaxAttempts,
           client[c].call \in 1..MaxCalls, client[c].attempt \in Nat,
           client'[c].call = client[c].call, client'[c].attempt = client[c].attempt + 1
    PROVE  /\ strategy' \in [Clients -> Remaining]
           /\ slept' \in [Clients -> Seq((0..MaxCalls) \X Seq(Nat))]
           /\ WaitsInv(c)'
           /\ \A b \in Clients \ {c} : slept'[b] = slept[b] /\ strategy'[b] = strategy[b]
<1> DEFINE n == Len(slept[c])
           s == strategy[c]
           e == <<client[c].call, NextBackoff(s)>>
<1>1. /\ strategy' = [strategy EXCEPT ![c] = AfterBackoff(s)]
      /\ slept' = [slept EXCEPT ![c] = Append(slept[c], e)]
  BY DEF Backoff
<1>2. /\ s \in Remaining /\ AfterBackoff(s) \in Remaining
      /\ NextBackoff(s) = Planned(s, 1) /\ NextBackoff(s) \in Seq(Nat)
  <2>1. s \in Remaining
    BY DEF BackoffInv
  <2>2. 1 \in Nat \ {0}
    OBVIOUS
  <2> QED
    BY <2>1, <2>2, NextIsPlanned, RestIsPlanned
<1>3. slept[c] \in Seq((0..MaxCalls) \X Seq(Nat)) /\ n \in Nat
  BY DEF BackoffInv
<1>4. e \in (0..MaxCalls) \X Seq(Nat) /\ e[1] = client[c].call /\ e[2] = NextBackoff(s)
  BY <1>2
<1>5. /\ WaitsInv(c)
      /\ \A i \in Nat \ {0} : Planned(s, i) = Planned(Asking, n + i)
  BY DEF BackoffInv, WaitsInv
<1> HIDE DEF e, s
<1>6. /\ strategy'[c] = AfterBackoff(s) /\ slept'[c] = Append(slept[c], e)
      /\ \A b \in Clients \ {c} : slept'[b] = slept[b] /\ strategy'[b] = strategy[b]
  BY <1>1 DEF BackoffInv
<1>7. /\ Append(slept[c], e) \in Seq((0..MaxCalls) \X Seq(Nat))
      /\ Len(slept'[c]) = n + 1 /\ DOMAIN slept'[c] = DOMAIN slept[c] \cup {n + 1}
      /\ \A i \in DOMAIN slept[c] : slept'[c][i] = slept[c][i]
      /\ slept'[c][n + 1] = e
      /\ n + 1 \notin DOMAIN slept[c]
      /\ DOMAIN slept[c] = 1..n
  <2> DEFINE q == slept[c]
  <2> HIDE DEF q
  <2>1. ASSUME q \in Seq((0..MaxCalls) \X Seq(Nat))
        PROVE  /\ Append(q, e) \in Seq((0..MaxCalls) \X Seq(Nat))
               /\ Len(Append(q, e)) = Len(q) + 1
               /\ DOMAIN Append(q, e) = DOMAIN q \cup {Len(q) + 1}
               /\ \A i \in DOMAIN q : Append(q, e)[i] = q[i]
               /\ Append(q, e)[Len(q) + 1] = e
               /\ Len(q) + 1 \notin DOMAIN q
               /\ DOMAIN q = 1..Len(q)
    <3> DEFINE S == (0..MaxCalls) \X Seq(Nat)
    <3>1. q \in Seq(S) /\ e \in S
      BY <2>1, <1>4
    <3> HIDE DEF S, e
    <3>2. /\ Append(q, e) \in Seq(S) /\ Len(Append(q, e)) = Len(q) + 1
          /\ DOMAIN Append(q, e) = DOMAIN q \cup {Len(q) + 1}
          /\ \A i \in DOMAIN q : Append(q, e)[i] = q[i]
          /\ Append(q, e)[Len(q) + 1] = e
          /\ Len(q) + 1 \notin DOMAIN q /\ DOMAIN q = 1..Len(q)
      BY <3>1, OneMore, Zenon
    <3> QED
      BY <3>2 DEF S
  <2>2. q \in Seq((0..MaxCalls) \X Seq(Nat)) /\ slept'[c] = Append(q, e)
    BY <1>3, <1>6 DEF q
  <2>3. n = Len(q) /\ slept[c] = q
    BY DEF q
  <2>4. /\ slept'[c] \in Seq((0..MaxCalls) \X Seq(Nat)) /\ Len(slept'[c]) = Len(q) + 1
        /\ DOMAIN slept'[c] = DOMAIN q \cup {Len(q) + 1}
        /\ \A i \in DOMAIN q : slept'[c][i] = q[i]
        /\ slept'[c][Len(q) + 1] = e /\ Len(q) + 1 \notin DOMAIN q /\ DOMAIN q = 1..Len(q)
    BY <2>1, <2>2, Zenon
  <2> HIDE DEF n
  <2> QED
    BY <2>2, <2>3, <2>4, Zenon
<1>8. /\ strategy' \in [Clients -> Remaining]
      /\ slept' \in [Clients -> Seq((0..MaxCalls) \X Seq(Nat))]
  BY <1>1, <1>2, <1>7 DEF BackoffInv
<1>9. ASSUME NEW i \in Nat \ {0}
      PROVE  Planned(strategy'[c], i) = Planned(Asking, Len(slept'[c]) + i)
  <2>1. Planned(AfterBackoff(s), i) = Planned(s, i + 1)
    BY <1>2, RestIsPlanned
  <2>2. Planned(s, i + 1) = Planned(Asking, n + (i + 1))
    <3>1. i + 1 \in Nat \ {0}
      OBVIOUS
    <3> QED
      BY <3>1, <1>5
  <2>3. n + (i + 1) = (n + 1) + i
    <3>1. \A k \in Nat : k + (i + 1) = (k + 1) + i
      OBVIOUS
    <3> QED
      BY <3>1, <1>3
  <2> QED
    BY <2>1, <2>2, <2>3, <1>6, <1>7
<1>10. ASSUME NEW i \in DOMAIN slept'[c]
       PROVE  slept'[c][i][2] = Planned(Asking, i) /\ slept'[c][i][1] <= client'[c].call
  <2>1. CASE i \in DOMAIN slept[c]
    BY <2>1, <1>5, <1>7 DEF WaitsInv
  <2>2. CASE i = n + 1
    <3>1. Planned(s, 1) = Planned(Asking, n + 1)
      BY <1>5
    <3> QED
      BY <2>2, <3>1, <1>2, <1>4, <1>7
  <2> QED
    BY <2>1, <2>2, <1>7
<1>11. Cardinality(BackoffsIn(c, client[c].call)') = client'[c].attempt - 1
  <2> DEFINE B == BackoffsIn(c, client[c].call)
  <2>1. IsFiniteSet(B) /\ n + 1 \notin B
    <3>1. B \subseteq 1..n
      BY <1>7 DEF BackoffsIn
    <3>2. IsFiniteSet(1..n)
      BY <1>3, FS_Interval
    <3>3. n + 1 \notin 1..n
      BY <1>3
    <3> HIDE DEF B
    <3> QED
      BY <3>1, <3>2, <3>3, FS_Subset
  <2>2. BackoffsIn(c, client[c].call)' = B \cup {n + 1}
    <3>1. \A i \in DOMAIN slept'[c] : slept'[c][i][1] = client[c].call
                                      <=> i \in B \cup {n + 1}
      BY <1>4, <1>7 DEF BackoffsIn
    <3>2. B \cup {n + 1} \subseteq DOMAIN slept'[c]
      BY <1>7 DEF BackoffsIn
    <3> HIDE DEF B
    <3> QED
      BY <3>1, <3>2 DEF BackoffsIn
  <2>3. Cardinality(B) = client[c].attempt - 1
    BY <1>5 DEF WaitsInv
  <2>4. Cardinality(B \cup {n + 1}) = Cardinality(B) + 1
    <3> HIDE DEF B
    <3> QED
      BY <2>1, FS_AddElement
  <2> QED
    BY <2>2, <2>3, <2>4
<1>12. WaitsInv(c)'
  BY <1>9, <1>10, <1>11 DEF WaitsInv
<1> QED
  BY <1>6, <1>8, <1>12

\* The next attempt of a call is one of the same call.
LEMMA NextAttempt ==
    ASSUME NEW A, NEW B, NEW D, NEW r \in [at : A, call : B, attempt : D]
    PROVE  LET x == [r EXCEPT !.at = "sending", !.attempt = @ + 1]
           IN  x.call = r.call /\ x.attempt = r.attempt + 1
OBVIOUS

\* A failed attempt, whether it was the last one or not.
LEMMA FailedAttempt ==
    ASSUME IndInv, BackoffInv, NEW c \in Clients, client[c].at \in {"sending", "waiting"},
           client' = [client EXCEPT ![c] = AttemptFailed(client[c])], Backoff(c),
           UNCHANGED <<pauses, lifecycle, retries>>
    PROVE  BackoffInv'
<1>1. /\ client[c] \in [at : {"none", "sending", "waiting", "Ok", "Err"},
                        call : 0..MaxCalls, attempt : 0..MaxAttempts]
      /\ MaxAttempts \in Nat /\ MaxCalls \in Nat
      /\ client'[c] = AttemptFailed(client[c])
      /\ \A b \in Clients \ {c} : client'[b] = client[b]
      /\ ClientInv(c)
  <2> DEFINE v == AttemptFailed(client[c])
             T == [at : {"none", "sending", "waiting", "Ok", "Err"},
                   call : 0..MaxCalls, attempt : 0..MaxAttempts]
  <2>1. client \in [Clients -> T] /\ ClientInv(c)
    BY DEF IndInv, TypeOK
  <2>2. client' = [client EXCEPT ![c] = v]
    OBVIOUS
  <2> HIDE DEF v, T
  <2>3. client[c] \in T /\ client'[c] = v /\ \A b \in Clients \ {c} : client'[b] = client[b]
    BY <2>1, <2>2
  <2> QED
    BY <2>1, <2>3, RunnerAssumption DEF v, T
<1>2. client[c].call \in 1..MaxCalls /\ client[c].attempt \in Nat
  BY <1>1 DEF ClientInv
<1>3. PauseInv'
  BY DEF BackoffInv, PauseInv
<1>4. CASE client[c].attempt < MaxAttempts
  <2>1. client'[c] = [client[c] EXCEPT !.at = "sending", !.attempt = @ + 1]
    BY <1>1, <1>4 DEF AttemptFailed
  <2>2. client'[c].call = client[c].call /\ client'[c].attempt = client[c].attempt + 1
    <3> DEFINE r == client[c]
    <3>1. /\ r \in [at : {"none", "sending", "waiting", "Ok", "Err"},
                   call : 0..MaxCalls, attempt : 0..MaxAttempts]
          /\ client'[c] = [r EXCEPT !.at = "sending", !.attempt = @ + 1]
      BY <1>1, <2>1
    <3> HIDE DEF r
    <3>2. client'[c].call = r.call /\ client'[c].attempt = r.attempt + 1
      BY <3>1, NextAttempt, Zenon
    <3> QED
      BY <3>2 DEF r
  <2>3. /\ strategy' \in [Clients -> Remaining]
        /\ slept' \in [Clients -> Seq((0..MaxCalls) \X Seq(Nat))]
        /\ WaitsInv(c)'
        /\ \A b \in Clients \ {c} : slept'[b] = slept[b] /\ strategy'[b] = strategy[b]
    BY <1>2, <1>4, <2>2, BackoffTaken
  <2>4. ASSUME NEW b \in Clients \ {c} PROVE WaitsInv(b)'
    BY <1>1, <2>3, NoBackoffTaken DEF BackoffInv
  <2> QED
    BY <1>3, <2>3, <2>4 DEF BackoffInv
<1>5. CASE ~(client[c].attempt < MaxAttempts)
  <2>1. client'[c] = [client[c] EXCEPT !.at = "Err"] /\ UNCHANGED <<strategy, slept>>
    BY <1>1, <1>5 DEF AttemptFailed, Backoff
  <2>2. client'[c].call = client[c].call /\ client'[c].attempt = client[c].attempt
    BY <1>1, <2>1
  <2>3. ASSUME NEW b \in Clients PROVE WaitsInv(b)'
    BY <1>1, <2>1, <2>2, NoBackoffTaken DEF BackoffInv
  <2> QED
    BY <1>3, <2>1, <2>3 DEF BackoffInv
<1> QED
  BY <1>4, <1>5

\* A step in which nobody takes a backoff.
LEMMA NobodyWaits ==
    ASSUME BackoffInv, UNCHANGED <<strategy, slept>>, PauseInv',
           \A c \in Clients : /\ client'[c].call = client[c].call
                              /\ client'[c].attempt = client[c].attempt
    PROVE  BackoffInv'
<1>1. ASSUME NEW c \in Clients PROVE WaitsInv(c)'
  BY NoBackoffTaken DEF BackoffInv
<1> QED
  BY <1>1 DEF BackoffInv

\* A new call begins with no backoff.
LEMMA CallBackoffs ==
    ASSUME IndInv, BackoffInv, NEW c \in Clients, Call(c)
    PROVE  BackoffInv'
<1> DEFINE x == [at |-> "sending", call |-> client[c].call + 1, attempt |-> 1]
<1>1. /\ client' = [client EXCEPT ![c] = x]
      /\ UNCHANGED <<lifecycle, retries, strategy, slept, pauses>>
      /\ x.call = client[c].call + 1 /\ x.attempt = 1
  BY DEF Call, runner, waits
<1>2. /\ client[c].call \in Nat /\ DOMAIN client = Clients
      /\ \A b \in Clients \ {c} : client'[b] = client[b]
      /\ client'[c].call = client[c].call + 1 /\ client'[c].attempt = 1
  BY <1>1, RunnerAssumption DEF IndInv, TypeOK
<1>3. WaitsInv(c)'
  <2>1. /\ WaitsInv(c) /\ DOMAIN slept[c] = DOMAIN slept'[c]
        /\ slept[c] \in Seq((0..MaxCalls) \X Seq(Nat))
    BY <1>1 DEF BackoffInv
  <2>2. ASSUME NEW i \in DOMAIN slept[c]
        PROVE  slept[c][i][1] \in Nat /\ slept[c][i][1] < client[c].call + 1
    <3>1. slept[c][i] \in (0..MaxCalls) \X Seq(Nat)
      BY <2>1
    <3>2. slept[c][i][1] \in Nat /\ slept[c][i][1] <= client[c].call
      BY <2>1, <3>1 DEF WaitsInv
    <3> QED
      BY <3>2, <1>2
  <2>3. BackoffsIn(c, client[c].call)' = {}
    <3>1. \A i \in DOMAIN slept'[c] : slept'[c][i][1] # client'[c].call
      BY <1>1, <1>2, <2>2
    <3> QED
      BY <3>1, <1>2, <1>1, <2>2 DEF BackoffsIn
  <2>4. Cardinality({}) = 0
    BY FS_EmptySet
  <2>5. ASSUME NEW i \in DOMAIN slept'[c]
        PROVE  slept'[c][i][2] = Planned(Asking, i) /\ slept'[c][i][1] <= client'[c].call
    <3>1. i \in DOMAIN slept[c] /\ slept'[c][i] = slept[c][i]
      BY <1>1
    <3>2. slept[c][i][2] = Planned(Asking, i)
      BY <2>1, <3>1 DEF WaitsInv
    <3>3. slept[c][i][1] <= client[c].call + 1
      BY <2>2, <3>1, <1>2
    <3> QED
      BY <3>1, <3>2, <3>3, <1>2
  <2>6. Cardinality(BackoffsIn(c, client[c].call)') = 1 - 1
    BY <2>3, <2>4
  <2>7. \A i \in Nat \ {0} : Planned(strategy'[c], i) = Planned(Asking, Len(slept'[c]) + i)
    BY <1>1, <2>1 DEF WaitsInv
  <2>8. \A i \in DOMAIN slept'[c] :
          slept'[c][i][2] = Planned(Asking, i) /\ slept'[c][i][1] <= client'[c].call
    BY <2>5
  <2>9. Cardinality({i \in DOMAIN slept'[c] : slept'[c][i][1] = client'[c].call})
          = client'[c].attempt - 1
    BY <2>6, <1>2 DEF BackoffsIn
  <2> QED
    BY <2>7, <2>8, <2>9 DEF WaitsInv, BackoffsIn
<1>4. ASSUME NEW b \in Clients \ {c} PROVE WaitsInv(b)'
  BY <1>1, <1>2, NoBackoffTaken DEF BackoffInv
<1>5. PauseInv'
  BY <1>1 DEF BackoffInv, PauseInv
<1> QED
  BY <1>1, <1>3, <1>4, <1>5 DEF BackoffInv

\* The backoffs of init keep to the first of the strategy.
LEMMA PauseNext ==
    ASSUME IndInv, BackoffInv,
           \/ PreStart \/ Started \/ Retry \/ GiveUp \/ Failed
           \/ RecvStop \/ RecvRestart \/ EmitStopped \/ Terminate \/ Panic
    PROVE  BackoffInv'
<1>1. UNCHANGED <<client, strategy, slept>>
  BY DEF PreStart, Started, Retry, GiveUp, Failed, RecvStop, RecvRestart, EmitStopped,
     Terminate, Panic, waits
<1>2. PauseInv /\ RetryInv /\ retries \in Nat
  BY RunnerAssumption DEF BackoffInv, IndInv, TypeOK
<1>3. PauseInv'
  <2>1. CASE Retry
    <3> DEFINE b == NextBackoff(Supervising)
    <3>1. b = Planned(Supervising, 1) /\ b \in Seq(Nat)
      <4>1. Supervising \in Remaining
        BY RunnerAssumption DEF Strategies, Remaining
      <4> QED
        BY <4>1, NextIsPlanned
    <3> HIDE DEF b
    <3>2. /\ pauses' = Append(pauses, b) /\ lifecycle = "Restarted"
          /\ lifecycle' = "Started" \/ (lifecycle' = "Restarted" /\ retries' = retries + 1)
      BY <2>1 DEF Retry, b
    <3>3. pauses \in Seq(Seq(Nat)) /\ Len(pauses) = retries
      BY <3>2, <1>2 DEF PauseInv
    <3>4. /\ pauses' \in Seq(Seq(Nat)) /\ Len(pauses') = retries + 1
          /\ \A i \in DOMAIN pauses' : pauses'[i] = b \/ (i \in DOMAIN pauses /\ pauses'[i] = pauses[i])
      BY <3>1, <3>2, <3>3
    <3> QED
      BY <3>1, <3>2, <3>4, <1>2 DEF PauseInv
  <2>2. CASE Started
    BY <2>2 DEF Started, PauseInv
  <2>3. CASE PreStart
    <3>1. pauses' = pauses /\ pauses = <<>> /\ retries' = 0 /\ lifecycle' \in {"Started", "Restarted"}
      BY <2>3, <1>2 DEF PreStart, PauseInv, RetryInv, waits
    <3> QED
      BY <3>1, <1>2 DEF PauseInv
  <2>4. CASE RecvRestart
    <3>1. pauses' = pauses /\ pauses = <<>> /\ retries' = 0 /\ lifecycle' = "Restarted"
      BY <2>4, <1>2 DEF RecvRestart, PauseInv, RetryInv, waits
    <3> QED
      BY <3>1, <1>2 DEF PauseInv
  <2>5. CASE GiveUp \/ Failed \/ RecvStop \/ EmitStopped \/ Terminate \/ Panic
    <3>1. pauses' = pauses /\ lifecycle' \notin {"Created", "Running", "Restarted"}
      BY <2>5 DEF GiveUp, Failed, RecvStop, EmitStopped, Terminate, Panic, waits
    <3> QED
      BY <3>1, <1>2 DEF PauseInv
  <2> QED
    BY <2>1, <2>2, <2>3, <2>4, <2>5
<1> QED
  BY <1>1, <1>3, NobodyWaits

\* Every step keeps the backoffs in order.
LEMMA BackoffNext ==
    ASSUME IndInv, BackoffInv, [Next]_vars
    PROVE  BackoffInv'
<1>t. client \in [Clients -> [at : {"none", "sending", "waiting", "Ok", "Err"},
                              call : 0..MaxCalls, attempt : 0..MaxAttempts]]
  BY DEF IndInv, TypeOK
<1>1. CASE \/ PreStart \/ Started \/ Retry \/ GiveUp \/ Failed
           \/ RecvStop \/ RecvRestart \/ EmitStopped \/ Terminate \/ Panic
  BY <1>1, PauseNext
<1>2. ASSUME NEW c \in Clients, Call(c) PROVE BackoffInv'
  BY <1>2, CallBackoffs
<1>3. ASSUME NEW c \in Clients, Send(c) \/ Abandon(c) PROVE BackoffInv'
  <2>1. PICK v \in {"waiting", "Err"} : client' = [client EXCEPT ![c].at = v]
    BY <1>3 DEF Send, Abandon
  <2>2. \A b \in Clients : /\ client'[b].call = client[b].call
                           /\ client'[b].attempt = client[b].attempt
    BY <2>1, <1>t
  <2>3. UNCHANGED <<strategy, slept, pauses, lifecycle, retries>>
    BY <1>3 DEF Send, Abandon, runner, waits
  <2>4. PauseInv'
    BY <2>3 DEF BackoffInv, PauseInv
  <2> QED
    BY <2>2, <2>3, <2>4, NobodyWaits
<1>4. ASSUME NEW c \in Clients, Closed(c) PROVE BackoffInv'
  BY <1>4, FailedAttempt DEF Closed, runner
<1>5. CASE Handle
  <2>1. PICK m \in Messages, ok \in BOOLEAN :
          /\ m.from \in Clients
          /\ client' = IF ~Answers(m) THEN client
                       ELSE [client EXCEPT ![m.from] =
                              IF ok THEN [@ EXCEPT !.at = "Ok"] ELSE AttemptFailed(@)]
          /\ IF Answers(m) /\ ~ok THEN Backoff(m.from) ELSE UNCHANGED <<strategy, slept>>
    <3>1. Head(mailbox) \in Messages
      BY <1>5 DEF Handle, IndInv, TypeOK
    <3>2. PICK m \in Messages : m = Head(mailbox)
      BY <3>1
    <3>3. m.from \in Clients
      BY DEF Messages
    <3> QED
      BY <1>5, <3>2, <3>3 DEF Handle
  <2>2. UNCHANGED <<pauses, lifecycle, retries>>
    BY <1>5 DEF Handle, runner
  <2>3. CASE Answers(m) /\ ~ok
    BY <2>1, <2>2, <2>3, FailedAttempt DEF Answers
  <2>4. CASE ~(Answers(m) /\ ~ok)
    <3>1. client' = client \/ client' = [client EXCEPT ![m.from].at = "Ok"]
      BY <2>1, <2>4
    <3>2. \A b \in Clients : /\ client'[b].call = client[b].call
                             /\ client'[b].attempt = client[b].attempt
      BY <3>1, <1>t
    <3>3. UNCHANGED <<strategy, slept>>
      BY <2>1, <2>4
    <3>4. PauseInv'
      BY <2>2 DEF BackoffInv, PauseInv
    <3> QED
      BY <3>2, <3>3, <3>4, NobodyWaits
  <2> QED
    BY <2>3, <2>4
<1>6. CASE Supervise \/ UNCHANGED vars
  <2>1. UNCHANGED <<client, strategy, slept, pauses, lifecycle, retries>>
    BY <1>6 DEF Supervise, vars, runner, waits
  <2>2. PauseInv'
    BY <2>1 DEF BackoffInv, PauseInv
  <2> QED
    BY <2>1, <2>2, NobodyWaits
<1> QED
  BY <1>1, <1>2, <1>3, <1>4, <1>5, <1>6 DEF Next

\* Over all its calls a client waits as its strategy plans, once between two
\* attempts, and each retry of init comes after one backoff
\* (actor/src/actor.rs:651, actor/src/runner.rs:287).
THEOREM BackoffsInOrderHolds == Spec => []BackoffsInOrder
<1>1. IndInv /\ BackoffInv => BackoffsInOrder
  <2> SUFFICES ASSUME IndInv, BackoffInv PROVE BackoffsInOrder
    OBVIOUS
  <2>1. ASSUME NEW c \in Clients
        PROVE  /\ \A i \in DOMAIN slept[c] : slept[c][i][2] = Planned(Asking, i)
               /\ client[c].call > 0 =>
                    Cardinality({i \in DOMAIN slept[c] : slept[c][i][1] = client[c].call})
                        = client[c].attempt - 1
    BY DEF BackoffInv, WaitsInv, BackoffsIn
  <2>2. lifecycle = "Restarted" =>
            Len(pauses) + (IF answer = "none" THEN 1 ELSE 0) = failures
    BY DEF BackoffInv, PauseInv, IndInv, RetryInv
  <2> QED
    BY <2>1, <2>2 DEF BackoffsInOrder
<1>2. IndInv /\ BackoffInv /\ [Next]_vars => (IndInv /\ BackoffInv)'
  BY NextInd, BackoffNext
<1> QED
  BY <1>1, <1>2, InitInd, BackoffInit, PTL DEF Spec

-----------------------------------------------------------------------------
(* Refinement: the runner's steps are steps of ActorLife. *)

\* The abstract state changes only if these do.
LEMMA LifeStutters ==
    ASSUME UNCHANGED <<answer, client>>, (lifecycle' = "Terminated") = (lifecycle = "Terminated")
    PROVE  UNCHANGED Life!vars
<1>1. life' = life
  BY DEF life
<1>2. calls' = calls
  BY DEF calls
<1> QED
  BY <1>1, <1>2 DEF Life!vars

\* What a step of one client is to the abstract actor.
LEMMA CallsStep ==
    ASSUME IndInv, NEW c \in Clients, NEW x, client' = [client EXCEPT ![c] = x]
    PROVE  calls' = [calls EXCEPT ![c] = IF x.at \in {"sending", "waiting"} THEN "open" ELSE x.at]
BY DEF calls, IndInv, TypeOK

\* The initial state is the abstract one.
LEMMA LifeInit == Init => Life!Init
BY DEF Init, Life!Init, life, calls

\* A step of the runner's lifecycle begins, refuses or ends the abstract
\* actor, or is not seen.
LEMMA LifecycleSimulates ==
    ASSUME IndInv,
           \/ PreStart \/ Started \/ Retry \/ GiveUp \/ Failed
           \/ RecvStop \/ RecvRestart \/ EmitStopped \/ Terminate \/ Panic
    PROVE  [Life!Next]_(Life!vars)
<1>1. calls' = calls
  <2>1. client' = client
    BY DEF PreStart, Started, Retry, GiveUp, Failed, RecvStop, RecvRestart, EmitStopped,
       Terminate, Panic, runner, history
  <2> QED
    BY <2>1 DEF calls
<1>2. \/ life' = life
      \/ life = "new" /\ life' \in {"up", "refused"}
      \/ life = "up" /\ life' = "over"
  <2>1. CASE Started \/ GiveUp
    BY <2>1 DEF Started, GiveUp, life, IndInv, RetryInv, runner, history
  <2>2. CASE Terminate
    BY <2>2 DEF Terminate, life, IndInv, RetryInv, runner, history
  <2>3. CASE Panic
    BY <2>3 DEF Panic, life, IndInv, RetryInv, TypeOK
  <2>4. CASE \/ PreStart \/ Retry \/ Failed \/ RecvStop \/ RecvRestart \/ EmitStopped
    <3>1. answer' = answer /\ lifecycle # "Terminated" /\ lifecycle' # "Terminated"
      BY <2>4 DEF PreStart, Retry, Failed, RecvStop, RecvRestart, EmitStopped
    <3> QED
      BY <3>1 DEF life
  <2> QED
    BY <2>1, <2>2, <2>3, <2>4
<1> QED
  BY <1>1, <1>2 DEF Life!Next, Life!vars, Life!Begin, Life!Refuse, Life!End

\* A client's step calls, returns or is not seen.
LEMMA ClientSimulates ==
    ASSUME IndInv, NEW c \in Clients,
           Call(c) \/ Send(c) \/ Closed(c) \/ Abandon(c)
    PROVE  [Life!Next]_(Life!vars)
<1>1. life' = life
  BY DEF Call, Send, Closed, Abandon, life, runner
<1>2. client \in [Clients -> [at : {"none", "sending", "waiting", "Ok", "Err"},
                             call : 0..MaxCalls, attempt : 0..MaxAttempts]]
  BY DEF IndInv, TypeOK
<1>3. CASE Call(c)
  <2>1. /\ client' = [client EXCEPT ![c] =
                        [at |-> "sending", call |-> client[c].call + 1, attempt |-> 1]]
        /\ answer = "Ok" /\ client[c].at \in {"none", "Ok", "Err"}
    BY <1>3 DEF Call
  <2>2. calls' = [calls EXCEPT ![c] = "open"]
    <3>1. PICK x : client' = [client EXCEPT ![c] = x] /\ x.at = "sending"
      <4> DEFINE y == [at |-> "sending", call |-> client[c].call + 1, attempt |-> 1]
      <4>1. client' = [client EXCEPT ![c] = y] /\ y.at = "sending"
        BY <2>1
      <4> HIDE DEF y
      <4> QED
        BY <4>1
    <3>2. calls' = [calls EXCEPT ![c] =
                      IF x.at \in {"sending", "waiting"} THEN "open" ELSE x.at]
      BY <3>1, CallsStep
    <3> QED
      BY <3>1, <3>2
  <2>3. calls[c] # "open" /\ life \in {"up", "over"}
    BY <2>1 DEF calls, life
  <2> QED
    BY <1>1, <2>2, <2>3 DEF Life!Next, Life!Call
<1>4. CASE Send(c)
  <2>1. /\ client[c].at = "sending"
        /\ client' = [client EXCEPT ![c] = [client[c] EXCEPT !.at = "waiting"]]
    BY <1>4 DEF Send
  <2>2. PICK x : client' = [client EXCEPT ![c] = x] /\ x.at = "waiting"
    <3>1. [client[c] EXCEPT !.at = "waiting"].at = "waiting"
      BY <1>2
    <3> QED
      BY <2>1, <3>1
  <2>3. calls' = [calls EXCEPT ![c] = "open"]
    <3>1. calls' = [calls EXCEPT ![c] =
                      IF x.at \in {"sending", "waiting"} THEN "open" ELSE x.at]
      BY <2>2, CallsStep
    <3> QED
      BY <3>1, <2>2
  <2>4. calls' = calls
    BY <2>1, <2>3 DEF calls
  <2> QED
    BY <1>1, <2>4 DEF Life!vars
<1>5. CASE Closed(c) \/ Abandon(c)
  <2>1. PICK x : client' = [client EXCEPT ![c] = x] /\ x.at \in {"sending", "Err"}
    <3>1. CASE Closed(c)
      <4>1. client' = [client EXCEPT ![c] = AttemptFailed(client[c])]
            /\ client[c].at \in {"sending", "waiting"}
        BY <3>1 DEF Closed
      <4>2. AttemptFailed(client[c]).at \in {"sending", "Err"}
        BY <4>1, AttemptFailedType DEF IndInv
      <4> QED
        BY <4>1, <4>2
    <3>2. CASE Abandon(c)
      <4>1. client' = [client EXCEPT ![c] = [client[c] EXCEPT !.at = "Err"]]
        BY <3>2 DEF Abandon
      <4>2. [client[c] EXCEPT !.at = "Err"].at = "Err"
        BY <1>2
      <4> QED
        BY <4>1, <4>2
    <3> QED
      BY <1>5, <3>1, <3>2
  <2>2. calls[c] = "open"
    BY <1>5 DEF Closed, Abandon, calls
  <2>3. CASE x.at = "sending"
    <3>1. calls' = [calls EXCEPT ![c] = "open"]
      BY <2>1, <2>3, CallsStep
    <3>2. calls' = calls
      BY <3>1, <2>2 DEF calls
    <3> QED
      BY <1>1, <3>2 DEF Life!vars
  <2>4. CASE x.at = "Err"
    <3>1. calls' = [calls EXCEPT ![c] = "Err"]
      <4>1. calls' = [calls EXCEPT ![c] =
                        IF x.at \in {"sending", "waiting"} THEN "open" ELSE x.at]
        BY <2>1, CallsStep
      <4>2. (IF x.at \in {"sending", "waiting"} THEN "open" ELSE x.at) = "Err"
        BY <2>4
      <4> QED
        BY <4>1, <4>2
    <3> QED
      BY <1>1, <3>1, <2>2 DEF Life!Next, Life!ReturnErr
  <2> QED
    BY <2>1, <2>3, <2>4
<1> QED
  BY <1>3, <1>4, <1>5

\* Handling a message returns Ok or Err to its caller, or is not seen: the
\* attempt is repeated or nobody waits for the answer.
LEMMA HandleSimulates ==
    ASSUME IndInv, Handle
    PROVE  [Life!Next]_(Life!vars)
<1>1. life' = life /\ life = "up"
  BY DEF Handle, life, runner, IndInv, RetryInv
<1>2. client \in [Clients -> [at : {"none", "sending", "waiting", "Ok", "Err"},
                             call : 0..MaxCalls, attempt : 0..MaxAttempts]]
  BY DEF IndInv, TypeOK
<1>3. PICK c \in Clients, ok \in BOOLEAN, answers \in BOOLEAN :
        /\ answers => client[c].at = "waiting"
        /\ client' = IF ~answers THEN client
                     ELSE [client EXCEPT ![c] = IF ok THEN [client[c] EXCEPT !.at = "Ok"]
                                                ELSE AttemptFailed(client[c])]
  <2>1. PICK m \in Messages : m = Head(mailbox)
    BY DEF IndInv, TypeOK, Handle
  <2>2. m.from \in Clients
    BY DEF Messages
  <2>3. PICK ok \in BOOLEAN :
          client' = IF ~Answers(m) THEN client
                    ELSE [client EXCEPT ![m.from] = IF ok THEN [client[m.from] EXCEPT !.at = "Ok"]
                                                    ELSE AttemptFailed(client[m.from])]
    BY <2>1 DEF Handle
  <2>4. Answers(m) => client[m.from].at = "waiting"
    BY DEF Answers
  <2>5. Answers(m) \in BOOLEAN
    BY DEF Answers
  <2> QED
    BY <2>2, <2>3, <2>4, <2>5
<1>4. CASE ~answers
  <2>1. calls' = calls
    BY <1>3, <1>4 DEF calls
  <2> QED
    BY <1>1, <2>1 DEF Life!vars
<1>5. CASE answers
  <2>1. PICK x : client' = [client EXCEPT ![c] = x] /\ x.at \in {"Ok", "sending", "Err"}
    <3>1. [client[c] EXCEPT !.at = "Ok"].at = "Ok"
      BY <1>2
    <3>2. AttemptFailed(client[c]).at \in {"sending", "Err"}
      BY <1>3, <1>5, AttemptFailedType DEF IndInv
    <3> QED
      BY <3>1, <3>2, <1>3, <1>5
  <2>2. calls[c] = "open"
    BY <1>3, <1>5 DEF calls
  <2>3. CASE x.at = "sending"
    <3>1. calls' = [calls EXCEPT ![c] = "open"]
      BY <2>1, <2>3, CallsStep
    <3>2. calls' = calls
      BY <3>1, <2>2 DEF calls
    <3> QED
      BY <1>1, <3>2 DEF Life!vars
  <2>4. CASE x.at \in {"Ok", "Err"}
    <3>1. calls' = [calls EXCEPT ![c] = x.at]
      BY <2>1, <2>4, CallsStep
    <3> QED
      BY <1>1, <3>1, <2>2, <2>4 DEF Life!Next, Life!ReturnErr, Life!ReturnOk
  <2> QED
    BY <2>1, <2>3, <2>4
<1> QED
  BY <1>4, <1>5

\* Safety of ActorLife, for any clients, mailbox, retries and attempts: its
\* creation is decided once, asks are answered Ok only between the start of
\* the actor and its end, and each returns at most once.
THEOREM SimulatesActorLife == Spec => Life!Init /\ [][Life!Next]_(Life!vars)
<1>1. IndInv /\ [Next]_vars => [Life!Next]_(Life!vars)
  <2> SUFFICES ASSUME IndInv, [Next]_vars PROVE [Life!Next]_(Life!vars)
    OBVIOUS
  <2>1. CASE \/ PreStart \/ Started \/ Retry \/ GiveUp \/ Failed
             \/ RecvStop \/ RecvRestart \/ EmitStopped \/ Terminate \/ Panic
    BY <2>1, LifecycleSimulates
  <2>2. ASSUME NEW c \in Clients, Call(c) \/ Send(c) \/ Closed(c) \/ Abandon(c)
        PROVE  [Life!Next]_(Life!vars)
    BY <2>2, ClientSimulates
  <2>3. CASE Handle
    BY <2>3, HandleSimulates
  <2>4. CASE Supervise \/ UNCHANGED vars
    <3>1. UNCHANGED <<answer, client, lifecycle>>
      BY <2>4 DEF Supervise, vars, runner
    <3> QED
      BY <3>1, LifeStutters
  <2> QED
    BY <2>1, <2>2, <2>3, <2>4 DEF Next
<1> QED
  BY <1>1, LifeInit, Inductive, PTL DEF Spec
=============================================================================
