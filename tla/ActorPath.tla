----------------------------- MODULE ActorPath -----------------------------
(***************************************************************************)
(* Paths of actors (actor/src/path.rs): sequences of names.  A string is   *)
(* the sequence of its slashes and of the parts between them; a part that  *)
(* is empty or only white space is Blank.                                  *)
(***************************************************************************)
EXTENDS Integers, Sequences

Slash == "/"
Blank == " "

\* From<&str>: split at the slashes, without the blank parts.
From(text) ==
    LET names[i \in 0..Len(text)] ==
            IF i = 0 THEN <<>>
            ELSE IF text[i] \in {Slash, Blank} THEN names[i - 1]
            ELSE Append(names[i - 1], text[i])
    IN  names[Len(text)]

\* Div<&str>: what is appended may be one name, several or none.
Div(p, text) == p \o From(text)

\* Display.
Display(p) ==
    IF p = <<>> THEN <<Slash>>
    ELSE [i \in 1..(2 * Len(p)) |-> IF i % 2 = 1 THEN Slash ELSE p[i \div 2]]

Root(p) == IF p = <<>> THEN <<>> ELSE <<p[1]>>

Parent(p) == IF Len(p) > 1 THEN SubSeq(p, 1, Len(p) - 1) ELSE <<>>

\* The last name, or the empty string.
Key(p) == IF p = <<>> THEN "" ELSE p[Len(p)]

Level(p) == Len(p)

\* Mutant: the last level but one is the path itself.
AtLevelWithin(p, level) ==
    IF level < 1 \/ level >= Level(p) - 1 THEN p ELSE SubSeq(p, 1, level)

AtLevel(p, level) ==
    IF level < 1 \/ level >= Level(p) THEN p
    ELSE IF level = Level(p) - 1 THEN Parent(p)
    ELSE SubSeq(p, 1, level)

IsEmpty(p) == p = <<>>

\* str::starts_with.
StartsWith(text, start) ==
    Len(start) <= Len(text) /\ SubSeq(text, 1, Len(start)) = start

\* Both compare strings: the empty path's ends in two slashes.
IsAncestorOf(p, other) == StartsWith(Display(other), Append(Display(p), Slash))
IsDescendantOf(p, other) == StartsWith(Display(p), Append(Display(other), Slash))

\* Both compare with the parent, which of the empty path is the empty path.
IsParentOf(p, other) == p = Parent(other)
IsChildOf(p, other) == Parent(p) = other

IsTopLevel(p) == Len(p) = 1

-----------------------------------------------------------------------------
(* Properties. *)

PathBound == 4

\* The path predicates, which compare strings, parents or levels, agree for
\* all paths p and q of up to PathBound names: a path is read back from its
\* string, an ancestor of q is what at_level yields below the level of q, a
\* child is a descendant one level deeper, and a name yields a child exactly
\* when it has one part that is not blank (actor/src/path.rs:79, 111, 197).
PathsAgreeOver(Names) ==
    LET Sample == UNION {[1..d -> Names] : d \in 0..PathBound}
        Texts == UNION {[1..d -> Names \cup {Slash, Blank}] : d \in 0..2}
    IN  \A p \in Sample :
        /\ From(Display(p)) = p
        /\ ~IsEmpty(p) => Div(Parent(p), <<Key(p)>>) = p
        /\ IsTopLevel(p) <=> Root(p) = p /\ ~IsEmpty(p)
        /\ \A q \in Sample :
            /\ IsAncestorOf(p, q) <=>
                \E level \in 1..(Level(q) - 1) : AtLevel(q, level) = p
            /\ IsAncestorOf(p, q) <=> IsDescendantOf(q, p)
            /\ IsParentOf(p, q) <=> IsChildOf(q, p)
            /\ ~IsEmpty(p) => (IsChildOf(q, p) <=>
                IsDescendantOf(q, p) /\ Level(q) = Level(p) + 1)
        /\ \A name \in Texts :
            IsChildOf(Div(p, name), p) /\ ~IsEmpty(Div(p, name)) <=>
                Len(From(name)) = 1
=============================================================================
