---------------------------- MODULE MCMessaging ----------------------------
(* Model-checking instance of Messaging: a client, an actor a that calls an  *)
(* actor b, and an EventManager that is subscribed to a and calls it back.   *)
EXTENDS Messaging

CONSTANTS a, b, c, s

OneWay == {<<c, a>>, <<a, b>>, <<s, a>>}

\* The calls between actors have the one direction that CallsDescend asks for.
ASSUME CallsOneWay ==
    \E rank \in [Actors -> 0..1] :
        \A x, y \in Actors : <<x, y>> \in Calls => rank[y] < rank[x]

Subscribed == [x \in {s} |-> a]
=============================================================================
