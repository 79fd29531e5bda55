--------------------------- MODULE ActorPathProofs ---------------------------
(***************************************************************************)
(* Proofs about ActorPath, for paths of any length over any names that     *)
(* are neither slashes nor blank: the predicates that compare strings say  *)
(* what those that compare parents and levels say, a path is read back     *)
(* from its string, and one name makes a child.                            *)
(***************************************************************************)
EXTENDS ActorPath, StoreProofs

\* The string of a path has a slash before each name.
LEMMA DisplayAt ==
    ASSUME NEW Names, NEW p \in Seq(Names), p # <<>>
    PROVE  /\ Display(p) \in Seq(Names \cup {Slash})
           /\ Len(Display(p)) = 2 * Len(p)
           /\ \A i \in 1..Len(p) :
                /\ 2 * i - 1 \in 1..(2 * Len(p)) /\ Display(p)[2 * i - 1] = Slash
                /\ 2 * i \in 1..(2 * Len(p)) /\ Display(p)[2 * i] = p[i]
<1> DEFINE n == Len(p)
           f == [i \in 1..(2 * n) |-> IF i % 2 = 1 THEN Slash ELSE p[i \div 2]]
<1>1. n \in Nat /\ n > 0 /\ \A i \in 1..n : p[i] \in Names
  OBVIOUS
<1>2. Display(p) = f
  BY DEF Display
<1>3. ASSUME NEW i \in 1..(2 * n) PROVE f[i] \in Names \cup {Slash}
  <2>1. CASE i % 2 = 1
    BY <2>1
  <2>2. CASE i % 2 # 1
    <3>1. i \div 2 \in 1..n
      <4> HIDE DEF f, n
      <4> QED
        BY <1>1, <2>2
    <3> QED
      BY <1>1, <2>2, <3>1
  <2> QED
    BY <2>1, <2>2
<1>4. ASSUME NEW i \in 1..n
      PROVE  /\ 2 * i - 1 \in 1..(2 * n) /\ f[2 * i - 1] = Slash
             /\ 2 * i \in 1..(2 * n) /\ f[2 * i] = p[i]
  <2>1. /\ 2 * i - 1 \in 1..(2 * n) /\ (2 * i - 1) % 2 = 1
        /\ 2 * i \in 1..(2 * n) /\ (2 * i) % 2 = 0 /\ (2 * i) \div 2 = i
    <3> HIDE DEF f, n
    <3> QED
      BY <1>1
  <2> QED
    BY <2>1
<1>5. f \in Seq(Names \cup {Slash}) /\ Len(f) = 2 * n
  <2>1. 2 * n \in Nat /\ f = [i \in 1..(2 * n) |-> f[i]]
    BY <1>1
  <2> HIDE DEF f, n
  <2> QED
    BY <1>3, <2>1
<1> QED
  BY <1>2, <1>4, <1>5

\* A text starts with another one when it has its parts.
LEMMA StartsWithAt ==
    ASSUME NEW S, NEW text \in Seq(S), NEW start \in Seq(S)
    PROVE  StartsWith(text, start) <=>
            Len(start) <= Len(text) /\ \A i \in 1..Len(start) : text[i] = start[i]
<1>1. CASE Len(start) > Len(text)
  BY <1>1 DEF StartsWith
<1>2. CASE Len(start) <= Len(text)
  <2> DEFINE s == SubSeq(text, 1, Len(start))
  <2>1. s \in Seq(S) /\ Len(s) = Len(start) /\ \A i \in 1..Len(start) : s[i] = text[i]
    BY <1>2
  <2>2. (\A i \in 1..Len(start) : s[i] = start[i]) => s = start
    <3> HIDE DEF s
    <3> QED
      BY <2>1
  <2> QED
    BY <1>2, <2>1, <2>2 DEF StartsWith
<1> QED
  BY <1>1, <1>2

\* The ancestors of a path are its beginnings other than the empty one.
LEMMA AncestorAt ==
    ASSUME NEW Names, Slash \notin Names, NEW p \in Seq(Names), NEW q \in Seq(Names)
    PROVE  IsAncestorOf(p, q) <=>
            p # <<>> /\ Len(p) < Len(q) /\ \A i \in 1..Len(p) : q[i] = p[i]
<1> DEFINE S == Names \cup {Slash}
           d == Display(q)
           c == Append(Display(p), Slash)
<1>e. Display(<<>>) = <<Slash>> /\ <<Slash>> \in Seq(S) /\ Len(<<Slash>>) = 1
  BY DEF Display
<1>0. Len(p) \in Nat /\ Len(q) \in Nat /\ (p = <<>> <=> Len(p) = 0) /\ (q = <<>> <=> Len(q) = 0)
  OBVIOUS
<1>1. Display(p) \in Seq(S) /\ d \in Seq(S)
  BY <1>e, DisplayAt
<1>2. /\ c \in Seq(S) /\ Len(c) = Len(Display(p)) + 1 /\ c[Len(Display(p)) + 1] = Slash
      /\ \A i \in 1..Len(Display(p)) : c[i] = Display(p)[i]
  <2>1. ASSUME NEW t \in Seq(S)
        PROVE  /\ Append(t, Slash) \in Seq(S) /\ Len(Append(t, Slash)) = Len(t) + 1
               /\ Append(t, Slash)[Len(t) + 1] = Slash
               /\ \A i \in 1..Len(t) : Append(t, Slash)[i] = t[i]
    <3>1. Slash \in S
      OBVIOUS
    <3> HIDE DEF S
    <3> QED
      BY <3>1
  <2> HIDE DEF S
  <2> QED
    BY <1>1, <2>1
<1>3. IsAncestorOf(p, q) <=> Len(c) <= Len(d) /\ \A i \in 1..Len(c) : d[i] = c[i]
  <2>1. IsAncestorOf(p, q) <=> StartsWith(d, c)
    BY DEF IsAncestorOf
  <2> HIDE DEF S, c, d
  <2>2. StartsWith(d, c) <=> Len(c) <= Len(d) /\ \A i \in 1..Len(c) : d[i] = c[i]
    BY <1>1, <1>2, StartsWithAt
  <2> QED
    BY <2>1, <2>2
<1>4. CASE q = <<>>
  <2>1. Len(d) = 1
    BY <1>e, <1>4
  <2>2. Len(Display(p)) >= 1
    <3>1. p = <<>> => Len(Display(p)) = 1
      BY <1>e
    <3>2. p # <<>> => Len(Display(p)) = 2 * Len(p)
      BY DisplayAt
    <3>3. p # <<>> => Len(p) \in Nat \ {0}
      BY <1>0
    <3>4. \/ Len(Display(p)) = 1
          \/ Len(Display(p)) = 2 * Len(p) /\ Len(p) \in Nat \ {0}
      BY <3>1, <3>2, <3>3, Zenon
    <3>5. \A m, n \in Nat : m = 1 \/ (m = 2 * n /\ n # 0) => m >= 1
      OBVIOUS
    <3>6. Len(Display(p)) \in Nat
      BY <1>1
    <3> HIDE DEF c, d
    <3> QED
      BY <1>0, <3>4, <3>5, <3>6, Zenon
  <2>3. ~(Len(c) <= Len(d))
    BY <1>2, <2>1, <2>2
  <2>4. ~(Len(p) < Len(q))
    BY <1>0, <1>4
  <2> HIDE DEF c, d
  <2> QED
    BY <1>3, <2>3, <2>4
<1>5. CASE q # <<>> /\ p = <<>>
  <2>1. Len(c) = 2 /\ c[2] = Slash
    <3>1. Len(Display(p)) = 1
      BY <1>5, <1>e
    <3> HIDE DEF c
    <3> QED
      BY <1>2, <3>1
  <2>2. d[2] = q[1] /\ q[1] \in Names
    <3>1. 1 \in 1..Len(q)
      BY <1>0, <1>5
    <3>2. d[2 * 1] = q[1]
      BY <1>5, <3>1, DisplayAt
    <3> QED
      BY <3>1, <3>2
  <2> QED
    BY <1>3, <1>5, <2>1, <2>2
<1>6. CASE q # <<>> /\ p # <<>>
  <2>1. /\ Len(d) = 2 * Len(q) /\ Len(Display(p)) = 2 * Len(p) /\ Len(p) > 0
        /\ \A i \in 1..Len(q) : d[2 * i - 1] = Slash /\ d[2 * i] = q[i]
        /\ \A i \in 1..Len(p) :
            /\ 2 * i - 1 \in 1..(2 * Len(p)) /\ Display(p)[2 * i - 1] = Slash
            /\ 2 * i \in 1..(2 * Len(p)) /\ Display(p)[2 * i] = p[i]
    <3>1. /\ Len(d) = 2 * Len(q)
          /\ \A i \in 1..Len(q) : d[2 * i - 1] = Slash /\ d[2 * i] = q[i]
      BY <1>6, DisplayAt
    <3>2. /\ Len(Display(p)) = 2 * Len(p)
          /\ \A i \in 1..Len(p) :
              /\ 2 * i - 1 \in 1..(2 * Len(p)) /\ Display(p)[2 * i - 1] = Slash
              /\ 2 * i \in 1..(2 * Len(p)) /\ Display(p)[2 * i] = p[i]
      BY <1>6, DisplayAt
    <3>3. Len(p) > 0
      BY <1>0, <1>6
    <3> HIDE DEF d
    <3> QED
      BY <3>1, <3>2, <3>3
  <2>2. \A i \in 1..Len(p) : c[2 * i - 1] = Slash /\ c[2 * i] = p[i]
    BY <1>2, <2>1
  <2>3. c[2 * Len(p) + 1] = Slash /\ Len(c) = 2 * Len(p) + 1
    BY <1>2, <2>1
  <2> HIDE DEF c, d
  <2>4. ASSUME Len(c) <= Len(d), \A i \in 1..Len(c) : d[i] = c[i]
        PROVE  Len(p) < Len(q) /\ \A i \in 1..Len(p) : q[i] = p[i]
    <3>1. Len(p) < Len(q)
      BY <1>0, <2>1, <2>3, <2>4
    <3>2. ASSUME NEW i \in 1..Len(p) PROVE q[i] = p[i]
      <4>1. 2 * i \in 1..Len(c) /\ i \in 1..Len(q)
        BY <1>0, <2>3, <3>1
      <4> QED
        BY <2>1, <2>2, <2>4, <4>1
    <3> QED
      BY <3>1, <3>2
  <2>5. ASSUME Len(p) < Len(q), \A i \in 1..Len(p) : q[i] = p[i]
        PROVE  Len(c) <= Len(d) /\ \A i \in 1..Len(c) : d[i] = c[i]
    <3>1. Len(c) <= Len(d)
      BY <1>0, <2>1, <2>3, <2>5
    <3>2. ASSUME NEW i \in 1..Len(c) PROVE d[i] = c[i]
      <4>1. \/ i = 2 * Len(p) + 1
            \/ \E j \in 1..Len(p) : i = 2 * j - 1
            \/ \E j \in 1..Len(p) : i = 2 * j
        <5>1. i = 2 * (i \div 2) \/ i = 2 * (i \div 2 + 1) - 1
          BY <1>0, <2>3
        <5>2. i = 2 * (i \div 2) => i \div 2 \in 1..Len(p)
          BY <1>0, <2>3
        <5>3. i = 2 * (i \div 2 + 1) - 1 /\ i # 2 * Len(p) + 1 => i \div 2 + 1 \in 1..Len(p)
          BY <1>0, <2>3
        <5> QED
          BY <5>1, <5>2, <5>3
      <4>2. CASE i = 2 * Len(p) + 1
        <5>1. Len(p) + 1 \in 1..Len(q) /\ i = 2 * (Len(p) + 1) - 1
          BY <1>0, <2>5, <4>2
        <5> QED
          BY <2>1, <2>3, <4>2, <5>1
      <4>3. ASSUME NEW j \in 1..Len(p), i = 2 * j - 1 \/ i = 2 * j PROVE d[i] = c[i]
        <5>1. j \in 1..Len(q)
          BY <1>0, <2>5
        <5>2. CASE i = 2 * j - 1
          <6>1. d[2 * j - 1] = Slash
            BY <2>1, <5>1
          <6>2. c[2 * j - 1] = Slash
            BY <2>2
          <6> QED
            BY <5>2, <6>1, <6>2
        <5>3. CASE i = 2 * j
          <6>1. d[2 * j] = q[j]
            BY <2>1, <5>1
          <6>2. c[2 * j] = p[j] /\ q[j] = p[j]
            BY <2>2, <2>5
          <6> QED
            BY <5>3, <6>1, <6>2
        <5> QED
          BY <4>3, <5>2, <5>3
      <4> QED
        BY <4>1, <4>2, <4>3
    <3> QED
      BY <3>1, <3>2
  <2> QED
    BY <1>3, <1>6, <2>4, <2>5
<1> QED
  BY <1>4, <1>5, <1>6

\* The beginnings of a path that is not empty.
LEMMA Beginnings ==
    ASSUME NEW Names, NEW q \in Seq(Names), NEW level \in 1..(Len(q) - 1)
    PROVE  /\ AtLevel(q, level) = SubSeq(q, 1, level)
           /\ SubSeq(q, 1, level) \in Seq(Names) /\ Len(SubSeq(q, 1, level)) = level
           /\ \A i \in 1..level : SubSeq(q, 1, level)[i] = q[i]
<1>1. level = Len(q) - 1 => Parent(q) = SubSeq(q, 1, level)
  BY DEF Parent
<1>2. AtLevel(q, level) = SubSeq(q, 1, level)
  BY <1>1 DEF AtLevel, Level
<1> QED
  BY <1>2

\* Paths of one length with the same names are equal.
LEMMA SameNames ==
    ASSUME NEW Names, NEW p \in Seq(Names), NEW q \in Seq(Names), Len(p) = Len(q),
           \A i \in 1..Len(p) : p[i] = q[i]
    PROVE  p = q
OBVIOUS

\* What at_level yields below the level of a path are its ancestors
\* (actor/src/path.rs:79, 111): the comparison of strings needs no path to be
\* short.
THEOREM AncestorsAreLevels ==
    ASSUME NEW Names, Slash \notin Names, NEW p \in Seq(Names), NEW q \in Seq(Names)
    PROVE  /\ IsAncestorOf(p, q) <=> \E level \in 1..(Level(q) - 1) : AtLevel(q, level) = p
           /\ IsAncestorOf(p, q) <=> IsDescendantOf(q, p)
<1>1. IsAncestorOf(p, q) <=> IsDescendantOf(q, p)
  BY DEF IsAncestorOf, IsDescendantOf
<1>2. ASSUME IsAncestorOf(p, q)
      PROVE  \E level \in 1..(Level(q) - 1) : AtLevel(q, level) = p
  <2>1. p # <<>> /\ Len(p) < Len(q) /\ \A i \in 1..Len(p) : q[i] = p[i]
    BY <1>2, AncestorAt
  <2>2. Len(p) \in 1..(Len(q) - 1)
    BY <2>1
  <2>3. /\ AtLevel(q, Len(p)) = SubSeq(q, 1, Len(p))
        /\ SubSeq(q, 1, Len(p)) \in Seq(Names) /\ Len(SubSeq(q, 1, Len(p))) = Len(p)
        /\ \A i \in 1..Len(p) : SubSeq(q, 1, Len(p))[i] = q[i]
    BY <2>2, Beginnings
  <2>4. SubSeq(q, 1, Len(p)) = p
    BY <2>1, <2>3, SameNames
  <2> QED
    BY <2>2, <2>3, <2>4 DEF Level
<1>3. ASSUME NEW level \in 1..(Level(q) - 1), AtLevel(q, level) = p
      PROVE  IsAncestorOf(p, q)
  <2>1. level \in 1..(Len(q) - 1)
    BY DEF Level
  <2>2. p = SubSeq(q, 1, level) /\ Len(p) = level /\ \A i \in 1..level : p[i] = q[i]
    BY <1>3, <2>1, Beginnings
  <2>3. p # <<>> /\ Len(p) < Len(q)
    BY <2>1, <2>2
  <2> QED
    BY <2>2, <2>3, AncestorAt
<1> QED
  BY <1>1, <1>2, <1>3

\* The children of a path, by which the registry is searched, are its
\* descendants one level deeper, and a path is its parent's child under its
\* last name (actor/src/path.rs:79, 197).
THEOREM ChildrenAreNext ==
    ASSUME NEW Names, Slash \notin Names, NEW p \in Seq(Names), NEW q \in Seq(Names), ~IsEmpty(p)
    PROVE  /\ IsChildOf(q, p) <=> IsDescendantOf(q, p) /\ Level(q) = Level(p) + 1
           /\ IsChildOf(q, p) <=> IsParentOf(p, q)
           /\ Append(Parent(p), Key(p)) = p
           /\ IsTopLevel(p) <=> Root(p) = p
<1>0. Len(p) \in Nat /\ Len(q) \in Nat /\ Len(p) > 0
  BY DEF IsEmpty
<1>1. IsChildOf(q, p) <=> IsParentOf(p, q)
  BY DEF IsChildOf, IsParentOf
<1>2. ASSUME IsChildOf(q, p)
      PROVE  IsDescendantOf(q, p) /\ Level(q) = Level(p) + 1
  <2>1. Len(q) > 1 /\ p = SubSeq(q, 1, Len(q) - 1)
    BY <1>0, <1>2 DEF IsChildOf, Parent, IsEmpty
  <2>2. Len(q) - 1 \in 1..(Len(q) - 1)
    BY <1>0, <2>1
  <2>3. Len(p) = Len(q) - 1 /\ AtLevel(q, Len(q) - 1) = p
    BY <2>1, <2>2, Beginnings
  <2>4. IsAncestorOf(p, q)
    BY <2>2, <2>3, AncestorsAreLevels DEF Level
  <2> QED
    BY <1>0, <2>3, <2>4, AncestorsAreLevels DEF Level
<1>3. ASSUME IsDescendantOf(q, p), Level(q) = Level(p) + 1
      PROVE  IsChildOf(q, p)
  <2>1. PICK level \in 1..(Len(q) - 1) : AtLevel(q, level) = p
    BY <1>3, AncestorsAreLevels DEF Level
  <2>2. p = SubSeq(q, 1, level) /\ Len(p) = level
    BY <2>1, Beginnings
  <2>3. level = Len(q) - 1 /\ Len(q) > 1
    BY <1>0, <1>3, <2>2 DEF Level
  <2> QED
    BY <2>2, <2>3 DEF IsChildOf, Parent
<1>4. Append(Parent(p), Key(p)) = p
  <2> DEFINE n == Len(p)
  <2>1. Key(p) = p[n] /\ p[n] \in Names
    <3>1. n \in 1..n /\ p # <<>>
      BY <1>0 DEF IsEmpty
    <3> QED
      BY <3>1 DEF Key
  <2>2. Parent(p) \in Seq(Names) /\ Len(Parent(p)) = n - 1 /\ \A i \in 1..(n - 1) : Parent(p)[i] = p[i]
    <3>1. CASE n > 1
      BY <1>0, <3>1 DEF Parent
    <3>2. CASE n = 1
      <4>1. Parent(p) = <<>>
        BY <3>2 DEF Parent
      <4>2. <<>> \in Seq(Names) /\ Len(<<>>) = 0
        OBVIOUS
      <4> HIDE DEF n
      <4> QED
        BY <3>2, <4>1, <4>2
    <3>3. n > 1 \/ n = 1
      <4>1. n \in Nat /\ n > 0
        BY <1>0
      <4> HIDE DEF n
      <4> QED
        BY <4>1
    <3> QED
      BY <3>1, <3>2, <3>3
  <2>3. /\ Append(Parent(p), Key(p)) \in Seq(Names) /\ Len(Append(Parent(p), Key(p))) = n
        /\ \A i \in 1..n : Append(Parent(p), Key(p))[i] = p[i]
    BY <1>0, <2>1, <2>2
  <2> QED
    BY <2>3, SameNames
<1>5. IsTopLevel(p) <=> Root(p) = p
  <2>1. Root(p) = <<p[1]>> /\ Len(<<p[1]>>) = 1 /\ <<p[1]>>[1] = p[1] /\ p[1] \in Names
    BY <1>0 DEF Root
  <2>2. Len(p) = 1 => Root(p) = p
    BY <2>1
  <2> QED
    BY <2>1, <2>2 DEF IsTopLevel
<1> QED
  BY <1>1, <1>2, <1>3, <1>4, <1>5
-----------------------------------------------------------------------------
(* Reading a path from a text. *)

\* The names of the first i parts of a text, for each i.
NamesOf(text, g) ==
    /\ DOMAIN g = 0..Len(text)
    /\ g[0] = <<>>
    /\ \A i \in 1..Len(text) :
        g[i] = IF text[i] \in {Slash, Blank} THEN g[i - 1] ELSE Append(g[i - 1], text[i])

LEMMA NamesExist ==
    ASSUME NEW S, NEW text \in Seq(S)
    PROVE  \E g : NamesOf(text, g)
<1> DEFINE To(n, g) == /\ DOMAIN g = 0..n /\ g[0] = <<>>
                       /\ \A i \in 1..n : g[i] = IF text[i] \in {Slash, Blank} THEN g[i - 1]
                                               ELSE Append(g[i - 1], text[i])
           T == {n \in 0..Len(text) : \E g : To(n, g)}
<1>0. Len(text) \in Nat
  OBVIOUS
<1>1. 0 \in T
  <2>1. To(0, [i \in 0..0 |-> <<>>])
    OBVIOUS
  <2>2. \E g : To(0, g)
    <3> HIDE DEF To
    <3> QED
      BY <2>1
  <2> QED
    BY <1>0, <2>2
<1>2. ASSUME NEW n \in 1..Len(text), n - 1 \in T PROVE n \in T
  <2>1. PICK g : To(n - 1, g)
    BY <1>2
  <2> DEFINE h == [i \in 0..n |-> IF i < n THEN g[i]
                                  ELSE IF text[n] \in {Slash, Blank} THEN g[n - 1]
                                  ELSE Append(g[n - 1], text[n])]
  <2>2. n \in Nat /\ n - 1 \in 0..n /\ n - 1 < n
    OBVIOUS
  <2>3. h[0] = <<>>
    BY <2>1, <2>2
  <2>4. ASSUME NEW i \in 1..n
        PROVE  h[i] = IF text[i] \in {Slash, Blank} THEN h[i - 1] ELSE Append(h[i - 1], text[i])
    <3>1. CASE i = n
      BY <2>2, <3>1
    <3>2. CASE i < n
      <4>1. i \in 1..(n - 1) /\ i - 1 \in 0..n /\ i - 1 < n
        BY <3>2
      <4>2. h[i] = g[i] /\ h[i - 1] = g[i - 1]
        BY <3>2, <4>1
      <4> QED
        BY <2>1, <4>1, <4>2
    <3> QED
      BY <3>1, <3>2
  <2>5. To(n, h)
    BY <2>3, <2>4
  <2>6. \E f : To(n, f)
    <3> HIDE DEF To, h
    <3> QED
      BY <2>5
  <2> QED
    BY <2>6
<1>3. Len(text) \in T
  <2>1. \A i \in 1..Len(text) : i - 1 \in T => i \in T
    BY <1>2
  <2> DEFINE N == Len(text)
  <2>2. N \in Nat /\ \A i \in 1..N : i - 1 \in T => i \in T
    BY <1>0, <2>1
  <2> HIDE DEF T, N
  <2>3. \A i \in 0..N : i \in T
    BY <1>1, <2>2, Induction
  <2>4. N \in T
    BY <2>2, <2>3
  <2> QED
    BY <2>4 DEF N
<1> QED
  BY <1>3 DEF NamesOf

LEMMA FromAt ==
    ASSUME NEW S, NEW text \in Seq(S)
    PROVE  \E g : NamesOf(text, g) /\ From(text) = g[Len(text)]
<1> DEFINE Def(g) == [i \in 0..Len(text) |->
                        IF i = 0 THEN <<>>
                        ELSE IF text[i] \in {Slash, Blank} THEN g[i - 1]
                        ELSE Append(g[i - 1], text[i])]
           G == CHOOSE g : g = Def(g)
<1>0. Len(text) \in Nat
  OBVIOUS
<1>1. \E g : g = Def(g)
  <2>1. PICK g : NamesOf(text, g)
    BY NamesExist
  <2> DEFINE h == [i \in 0..Len(text) |-> g[i]]
  <2>2. ASSUME NEW i \in 0..Len(text) PROVE Def(h)[i] = h[i]
    <3>1. CASE i = 0
      BY <2>1, <3>1 DEF NamesOf
    <3>2. CASE i # 0
      <4>1. i \in 1..Len(text) /\ i - 1 \in 0..Len(text)
        BY <1>0, <3>2
      <4> QED
        BY <2>1, <3>2, <4>1 DEF NamesOf
    <3> QED
      BY <3>1, <3>2
  <2>3. h = Def(h)
    BY <2>2
  <2> QED
    BY <2>3
<1>2. G = Def(G)
  BY <1>1
<1>3. From(text) = G[Len(text)]
  BY DEF From
<1>4. NamesOf(text, G)
  <2> HIDE DEF G
  <2>1. DOMAIN G = 0..Len(text) /\ \A i \in 0..Len(text) : G[i] = Def(G)[i]
    BY <1>2
  <2>2. 0 \in 0..Len(text) /\ \A i \in 1..Len(text) : i \in 0..Len(text) /\ i # 0
    BY <1>0
  <2>3. G[0] = <<>>
    BY <2>1, <2>2
  <2>4. ASSUME NEW i \in 1..Len(text)
        PROVE  G[i] = IF text[i] \in {Slash, Blank} THEN G[i - 1] ELSE Append(G[i - 1], text[i])
    BY <2>1, <2>2
  <2> QED
    BY <2>1, <2>3, <2>4 DEF NamesOf
<1> QED
  BY <1>3, <1>4

\* What is read are names.
LEMMA FromNames ==
    ASSUME NEW Names, Slash \notin Names, Blank \notin Names,
           NEW text \in Seq(Names \cup {Slash, Blank})
    PROVE  From(text) \in Seq(Names)
<1> DEFINE N == Len(text)
<1>1. PICK g : NamesOf(text, g) /\ From(text) = g[N]
  BY FromAt
<1>2. N \in Nat /\ \A i \in 1..N : text[i] \in Names \cup {Slash, Blank}
  OBVIOUS
<1> DEFINE T == {i \in 0..N : g[i] \in Seq(Names)}
<1>3. 0 \in T
  <2>1. g[0] = <<>> /\ <<>> \in Seq(Names) /\ 0 \in 0..N
    BY <1>1, <1>2 DEF NamesOf
  <2> QED
    BY <2>1
<1>4. ASSUME NEW i \in 1..N, i - 1 \in T PROVE i \in T
  <2>1. g[i - 1] \in Seq(Names) /\ text[i] \in Names \cup {Slash, Blank} /\ i \in 0..N
    BY <1>2, <1>4
  <2>2. g[i] = IF text[i] \in {Slash, Blank} THEN g[i - 1] ELSE Append(g[i - 1], text[i])
    BY <1>1 DEF NamesOf
  <2>3. g[i] \in Seq(Names)
    BY <2>1, <2>2
  <2> QED
    BY <2>1, <2>3
<1>5. \A i \in 0..N : i \in T
  <2>1. \A i \in 1..N : i - 1 \in T => i \in T
    BY <1>4
  <2> HIDE DEF T, N
  <2> QED
    BY <1>2, <1>3, <2>1, Induction
<1>6. N \in T
  <2> HIDE DEF T
  <2> QED
    BY <1>2, <1>5
<1> QED
  BY <1>1, <1>6

\* One name is read as itself.
LEMMA FromName ==
    ASSUME NEW name, name \notin {Slash, Blank}
    PROVE  From(<<name>>) = <<name>>
<1>1. <<name>> \in Seq({name}) /\ Len(<<name>>) = 1 /\ <<name>>[1] = name /\ 1 \in 1..1
  OBVIOUS
<1>2. PICK g : NamesOf(<<name>>, g) /\ From(<<name>>) = g[1]
  BY <1>1, FromAt
<1>3. g[0] = <<>> /\ g[1] = Append(g[1 - 1], name)
  BY <1>1, <1>2 DEF NamesOf
<1> QED
  BY <1>2, <1>3

\* A path is read back from its string.
LEMMA FromDisplay ==
    ASSUME NEW Names, Slash \notin Names, Blank \notin Names, NEW p \in Seq(Names)
    PROVE  From(Display(p)) = p
<1> DEFINE d == Display(p)
           N == Len(p)
<1>1. N \in Nat /\ \A i \in 1..N : p[i] \in Names
  OBVIOUS
<1>2. CASE p = <<>>
  <2>1. d = <<Slash>> /\ <<Slash>> \in Seq({Slash}) /\ Len(<<Slash>>) = 1 /\ <<Slash>>[1] = Slash
        /\ 1 \in 1..1
    BY <1>2 DEF Display
  <2>2. PICK g : NamesOf(<<Slash>>, g) /\ From(<<Slash>>) = g[1]
    BY <2>1, FromAt
  <2>3. g[0] = <<>> /\ g[1] = g[1 - 1]
    BY <2>1, <2>2 DEF NamesOf
  <2> QED
    BY <1>2, <2>1, <2>2, <2>3
<1>3. CASE p # <<>>
  <2>1. /\ d \in Seq(Names \cup {Slash}) /\ Len(d) = 2 * N
        /\ \A i \in 1..N : /\ 2 * i - 1 \in 1..(2 * N) /\ d[2 * i - 1] = Slash
                           /\ 2 * i \in 1..(2 * N) /\ d[2 * i] = p[i]
    BY <1>3, DisplayAt
  <2> HIDE DEF d
  <2>2. PICK g : NamesOf(d, g) /\ From(d) = g[2 * N]
    BY <2>1, FromAt
  <2> DEFINE T == {i \in 0..N : g[2 * i] = SubSeq(p, 1, i)}
  <2>3. 0 \in T
    <3>1. g[0] = <<>>
      BY <2>2 DEF NamesOf
    <3>2. 2 * 0 = 0 /\ 0 \in 0..N /\ SubSeq(p, 1, 0) = <<>>
      BY <1>1
    <3> QED
      BY <3>1, <3>2
  <2>4. ASSUME NEW i \in 1..N, i - 1 \in T PROVE i \in T
    <3>1. /\ 2 * i - 1 \in 1..(2 * N) /\ d[2 * i - 1] = Slash
          /\ 2 * i \in 1..(2 * N) /\ d[2 * i] = p[i] /\ p[i] \in Names
      BY <1>1, <2>1
    <3>2. g[2 * i - 1] = g[2 * i - 1 - 1] /\ g[2 * i] = Append(g[2 * i - 1], p[i])
      BY <2>1, <2>2, <3>1 DEF NamesOf
    <3>3. 2 * i - 1 - 1 = 2 * (i - 1)
      OBVIOUS
    <3>4. g[2 * i] = Append(SubSeq(p, 1, i - 1), p[i])
      BY <2>4, <3>2, <3>3
    <3>5. Append(SubSeq(p, 1, i - 1), p[i]) = SubSeq(p, 1, i)
      OBVIOUS
    <3>6. i \in 0..N
      BY <1>1
    <3> QED
      BY <3>4, <3>5, <3>6
  <2>5. \A i \in 0..N : i \in T
    <3>1. \A i \in 1..N : i - 1 \in T => i \in T
      BY <2>4
    <3> HIDE DEF T, N
    <3> QED
      BY <1>1, <2>3, <3>1, Induction
  <2>6. N \in T
    <3> HIDE DEF T
    <3> QED
      BY <1>1, <2>5
  <2>7. SubSeq(p, 1, N) = p
    OBVIOUS
  <2> QED
    BY <2>2, <2>6, <2>7 DEF d
<1> QED
  BY <1>2, <1>3

\* A path is read back from its string, and from its parent and its last name
\* (actor/src/path.rs:56, 197).
THEOREM PathsReadBack ==
    ASSUME NEW Names, Slash \notin Names, Blank \notin Names, NEW p \in Seq(Names)
    PROVE  From(Display(p)) = p /\ (~IsEmpty(p) => Div(Parent(p), <<Key(p)>>) = p)
<1>1. From(Display(p)) = p
  BY FromDisplay
<1>2. ASSUME ~IsEmpty(p) PROVE Div(Parent(p), <<Key(p)>>) = p
  <2>1. Key(p) \in Names /\ Parent(p) \in Seq(Names)
    <3>1. Len(p) \in 1..Len(p)
      BY <1>2 DEF IsEmpty
    <3> QED
      BY <1>2, <3>1 DEF Key, Parent, IsEmpty
  <2>2. Append(Parent(p), Key(p)) = p
    BY <1>2, ChildrenAreNext
  <2>3. From(<<Key(p)>>) = <<Key(p)>>
    BY <2>1, FromName
  <2>4. Parent(p) \o <<Key(p)>> = Append(Parent(p), Key(p))
    BY <2>1
  <2> QED
    BY <2>2, <2>3, <2>4 DEF Div
<1> QED
  BY <1>1, <1>2

\* What is appended to a path makes a child of it exactly when it has one part
\* that is not blank (actor/src/path.rs:197).
THEOREM OneNameMakesAChild ==
    ASSUME NEW Names, Slash \notin Names, Blank \notin Names, NEW p \in Seq(Names),
           NEW text \in Seq(Names \cup {Slash, Blank})
    PROVE  IsChildOf(Div(p, text), p) /\ ~IsEmpty(Div(p, text)) <=> Len(From(text)) = 1
<1> DEFINE f == From(text)
           q == p \o f
<1>1. f \in Seq(Names)
  BY FromNames
<1> HIDE DEF f
<1>2. /\ q \in Seq(Names) /\ Len(q) = Len(p) + Len(f) /\ Len(p) \in Nat /\ Len(f) \in Nat
      /\ \A i \in 1..Len(p) : q[i] = p[i]
  BY <1>1
<1>3. (q = <<>> <=> Len(q) = 0) /\ (p = <<>> <=> Len(p) = 0)
  BY <1>2
<1> HIDE DEF q
<1> SUFFICES Parent(q) = p /\ q # <<>> <=> Len(f) = 1
  BY DEF Div, IsChildOf, IsEmpty, f, q
<1>4. CASE Len(f) = 0
  <2>1. Len(q) = Len(p)
    BY <1>2, <1>4
  <2>2. Len(q) > 1 => Parent(q) # p
    <3>1. Len(q) > 1 => Len(Parent(q)) = Len(q) - 1
      BY <1>2 DEF Parent
    <3> QED
      BY <1>2, <2>1, <3>1
  <2>3. Len(q) = 1 => Parent(q) # p
    <3>1. Len(q) = 1 => Parent(q) = <<>>
      BY DEF Parent
    <3>2. Len(q) = 1 => p # <<>>
      BY <1>3, <2>1
    <3> QED
      BY <3>1, <3>2, Zenon
  <2>4. Len(q) > 1 \/ Len(q) = 1 \/ q = <<>>
    BY <1>2, <1>3
  <2>5. Len(f) # 1
    BY <1>4
  <2> QED
    BY <2>2, <2>3, <2>4, <2>5, Zenon
<1>5. CASE Len(f) = 1
  <2>1. Len(q) = Len(p) + 1 /\ q # <<>>
    BY <1>2, <1>3, <1>5
  <2>2. Parent(q) = p
    <3>1. Len(p) = 0 => Parent(q) = <<>>
      BY <2>1 DEF Parent
    <3>2. CASE Len(p) > 0
      <4>1. Parent(q) = SubSeq(q, 1, Len(p))
        BY <1>2, <2>1, <3>2 DEF Parent
      <4>2. /\ SubSeq(q, 1, Len(p)) \in Seq(Names) /\ Len(SubSeq(q, 1, Len(p))) = Len(p)
            /\ \A i \in 1..Len(p) : SubSeq(q, 1, Len(p))[i] = p[i]
        BY <1>2, <2>1
      <4> QED
        BY <4>1, <4>2, SameNames
    <3>3. Len(p) = 0 \/ Len(p) > 0
      BY <1>2
    <3> QED
      BY <1>3, <3>1, <3>2, <3>3
  <2> QED
    BY <1>5, <2>1, <2>2, Zenon
<1>6. CASE Len(f) > 1
  <2>1. Len(q) > Len(p) + 1
    BY <1>2, <1>6
  <2>2. Len(Parent(q)) = Len(q) - 1
    BY <1>2, <2>1 DEF Parent
  <2>3. Parent(q) # p
    BY <1>2, <2>1, <2>2
  <2>4. Len(f) # 1
    <3>1. \A n \in Nat : n > 1 => n # 1
      OBVIOUS
    <3> QED
      BY <1>2, <1>6, <3>1, Zenon
  <2> QED
    BY <2>3, <2>4, Zenon
<1>7. Len(f) = 0 \/ Len(f) = 1 \/ Len(f) > 1
  <2>1. \A n \in Nat : n = 0 \/ n = 1 \/ n > 1
    OBVIOUS
  <2> QED
    BY <1>2, <2>1, Zenon
<1> QED
  BY <1>4, <1>5, <1>6, <1>7
\* The predicates on paths agree, over any names of one part
\* (actor/src/path.rs:56, 79, 111, 197).
THEOREM PathsAgreeOverNames ==
    ASSUME NEW Names, Slash \notin Names, Blank \notin Names
    PROVE  PathsAgreeOver(Names)
<1> DEFINE Sample == UNION {[1..d -> Names] : d \in 0..PathBound}
           Texts == UNION {[1..d -> Names \cup {Slash, Blank}] : d \in 0..2}
<1>1. ASSUME NEW p \in Sample PROVE p \in Seq(Names)
  <2>1. PICK d \in 0..PathBound : p \in [1..d -> Names]
    OBVIOUS
  <2>2. d \in Nat
    BY DEF PathBound
  <2> HIDE DEF Sample
  <2> QED
    BY <2>1, <2>2
<1>2. ASSUME NEW t \in Texts PROVE t \in Seq(Names \cup {Slash, Blank})
  <2> DEFINE S == Names \cup {Slash, Blank}
  <2>1. PICK d \in 0..2 : t \in [1..d -> S]
    OBVIOUS
  <2>2. d \in Nat
    OBVIOUS
  <2> HIDE DEF Texts, S
  <2>3. t \in Seq(S)
    BY <2>1, <2>2
  <2> QED
    BY <2>3 DEF S
<1> HIDE DEF Sample, Texts
<1>3. ASSUME NEW p \in Sample
      PROVE  /\ From(Display(p)) = p
             /\ ~IsEmpty(p) => Div(Parent(p), <<Key(p)>>) = p
             /\ IsTopLevel(p) <=> Root(p) = p /\ ~IsEmpty(p)
  <2>1. p \in Seq(Names)
    BY <1>1
  <2>2. IsEmpty(p) => ~IsTopLevel(p)
    BY <2>1 DEF IsEmpty, IsTopLevel
  <2>3. ~IsEmpty(p) => (IsTopLevel(p) <=> Root(p) = p)
    BY <2>1, ChildrenAreNext
  <2> QED
    BY <2>1, <2>2, <2>3, PathsReadBack
<1>4. ASSUME NEW p \in Sample, NEW q \in Sample
      PROVE  /\ IsAncestorOf(p, q) <=>
                  \E level \in 1..(Level(q) - 1) : AtLevel(q, level) = p
             /\ IsAncestorOf(p, q) <=> IsDescendantOf(q, p)
             /\ IsParentOf(p, q) <=> IsChildOf(q, p)
             /\ ~IsEmpty(p) => (IsChildOf(q, p) <=>
                  IsDescendantOf(q, p) /\ Level(q) = Level(p) + 1)
  <2>1. p \in Seq(Names) /\ q \in Seq(Names)
    BY <1>1
  <2>2. IsParentOf(p, q) <=> IsChildOf(q, p)
    BY DEF IsParentOf, IsChildOf
  <2> QED
    BY <2>1, <2>2, AncestorsAreLevels, ChildrenAreNext
<1>5. ASSUME NEW p \in Sample, NEW name \in Texts
      PROVE  IsChildOf(Div(p, name), p) /\ ~IsEmpty(Div(p, name)) <=> Len(From(name)) = 1
  <2>1. p \in Seq(Names) /\ name \in Seq(Names \cup {Slash, Blank})
    BY <1>1, <1>2
  <2> QED
    BY <2>1, OneNameMakesAChild
<1> QED
  BY <1>3, <1>4, <1>5 DEF PathsAgreeOver, Sample, Texts
=============================================================================
