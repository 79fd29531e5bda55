---------------------------- MODULE Supervision ----------------------------
(***************************************************************************)
(* The retry strategies of a startup and of retry_ask                      *)
(* (actor/src/supervision.rs).  A duration is a number; an Option is <<>>  *)
(* or a sequence of one element.                                           *)
(***************************************************************************)
EXTENDS Naturals, Sequences

NoInterval(n) == [kind |-> "NoInterval", max |-> n, durations |-> <<>>]

FixedInterval(n, d) == [kind |-> "FixedInterval", max |-> n, durations |-> <<d>>]

\* There are as many retries as durations.
CustomInterval(ds) == [kind |-> "CustomInterval", max |-> Len(ds), durations |-> ds]

\* SupervisionStrategy::Stop, the default, does what Retry with no retries does.
StopStrategy == NoInterval(0)

\* A strategy as it is made.
Strategies ==
    {s \in [kind : {"NoInterval", "FixedInterval", "CustomInterval"}, max : Nat,
            durations : Seq(Nat)] :
        /\ s.kind = "NoInterval" => s.durations = <<>>
        /\ s.kind = "FixedInterval" => Len(s.durations) = 1
        /\ s.kind = "CustomInterval" => s.max = Len(s.durations)}

\* RetryStrategy::max_retries: fixed when the strategy is made.
RetriesOf(s) == s.max

\* RetryStrategy::next_backoff: the duration it returns, if any,
NextBackoff(s) == IF s.durations = <<>> THEN <<>> ELSE <<Head(s.durations)>>

\* and what it leaves of the strategy: only the custom one pops a duration.
AfterBackoff(s) ==
    IF s.kind = "CustomInterval" /\ s.durations # <<>>
    THEN [s EXCEPT !.durations = Tail(@)] ELSE s

-----------------------------------------------------------------------------
\* What the documentation of the strategies says of the i-th backoff: none, or
\* the same each time, or the i-th of those given (actor/src/supervision.rs:86,
\* 127, 176).
Planned(s, i) ==
    CASE s.kind = "NoInterval" -> <<>>
      [] s.kind = "FixedInterval" -> s.durations
      [] s.kind = "CustomInterval" ->
            IF i \in DOMAIN s.durations THEN <<s.durations[i]>> ELSE <<>>
=============================================================================
