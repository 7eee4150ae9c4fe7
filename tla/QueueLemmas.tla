---------------------------- MODULE QueueLemmas ----------------------------
(***************************************************************************)
(* What the proofs use of queues: what is in one after an element is       *)
(* appended or the oldest one is taken, where the events in one lead from  *)
(* a state, and what a filter leaves of one; and the form of induction the *)
(* proofs use, that a set of naturals has a least element.                 *)
(***************************************************************************)
EXTENDS Filters, SequencesExt, WellFoundedInduction, TLAPS

\* Removing the head of a nonempty queue leaves a queue, one shorter, and the
\* head is one of its elements.
LEMMA TailOfQueue ==
  ASSUME NEW S, NEW q \in Seq(S), q # <<>>
  PROVE  /\ Tail(q) \in Seq(S)
         /\ Head(q) \in S
         /\ Len(Tail(q)) = Len(q) - 1
  OBVIOUS

\* A queue stays a queue when an element is appended.
LEMMA AppendedQueue ==
  ASSUME NEW S, NEW q \in Seq(S), NEW e \in S
  PROVE  /\ Append(q, e) \in Seq(S)
         /\ Append(q, e) # <<>>
         /\ q # <<>> => /\ Head(Append(q, e)) = Head(q)
                        /\ Tail(Append(q, e)) = Append(Tail(q), e)
  OBVIOUS

\* What a queue holds belongs to the set it is a queue over.
LEMMA ElementsOfQueue ==
  ASSUME NEW S, NEW q \in Seq(S)
  PROVE  ToSet(q) \subseteq S
  BY DEF ToSet

\* Appending adds one element to those a queue holds.
LEMMA HeldAfterAppend ==
  ASSUME NEW S, NEW q \in Seq(S), NEW e \in S
  PROVE  ToSet(Append(q, e)) = ToSet(q) \cup {e}
<1>1. DOMAIN Append(q, e) = 1..(Len(q) + 1) /\ DOMAIN q = 1..Len(q)
  OBVIOUS
<1>2. \A i \in 1..Len(q) : Append(q, e)[i] = q[i]
  OBVIOUS
<1>3. Append(q, e)[Len(q) + 1] = e
  OBVIOUS
<1>4. Len(q) \in Nat
  OBVIOUS
<1>5. 1..(Len(q) + 1) = 1..Len(q) \cup {Len(q) + 1}
  BY <1>4
<1> QED
  BY <1>1, <1>2, <1>3, <1>5 DEF ToSet

\* Taking the oldest element removes at most that one from those it holds.
LEMMA HeldBeforeTail ==
  ASSUME NEW S, NEW q \in Seq(S), q # <<>>
  PROVE  ToSet(q) = {Head(q)} \cup ToSet(Tail(q))
<1>1. Len(q) \in Nat \ {0} /\ Len(Tail(q)) = Len(q) - 1
  OBVIOUS
<1>2. DOMAIN q = 1..Len(q) /\ DOMAIN Tail(q) = 1..(Len(q) - 1)
  BY <1>1
<1>3. q[1] = Head(q)
  OBVIOUS
<1>4. \A i \in 1..(Len(q) - 1) : Tail(q)[i] = q[i + 1]
  BY <1>1
<1>5. ToSet(q) \subseteq {Head(q)} \cup ToSet(Tail(q))
  <2> SUFFICES ASSUME NEW i \in 1..Len(q), i # 1
               PROVE  q[i] \in ToSet(Tail(q))
    BY <1>2, <1>3 DEF ToSet
  <2>1. i - 1 \in 1..(Len(q) - 1) /\ (i - 1) + 1 = i
    BY <1>1
  <2> QED
    BY <1>2, <1>4, <2>1 DEF ToSet
<1>6. {Head(q)} \cup ToSet(Tail(q)) \subseteq ToSet(q)
  <2>1. Head(q) \in ToSet(q)
    BY <1>1, <1>2, <1>3 DEF ToSet
  <2>2. ASSUME NEW i \in 1..(Len(q) - 1)
        PROVE  Tail(q)[i] \in ToSet(q)
    <3>1. i + 1 \in 1..Len(q)
      BY <1>1
    <3> QED
      BY <1>2, <1>4, <3>1 DEF ToSet
  <2> QED
    BY <1>2, <2>1, <2>2 DEF ToSet
<1> QED
  BY <1>5, <1>6

-----------------------------------------------------------------------------
(* Induction, as the principle of the least counterexample                 *)

\* A set of natural numbers that is not empty has a least element.
LEMMA LeastNatural ==
  ASSUME NEW T \in SUBSET Nat, T # {}
  PROVE  \E n \in T : \A m \in T : n <= m
<1> DEFINE Less == {p \in Nat \X Nat : p[1] < p[2]}
<1>1. OpToRel(<, Nat) = Less
  BY SMT DEF OpToRel
<1>2. IsWellFoundedOn(OpToRel(<, Nat), Nat)
  BY NatLessThanWellFounded, Zenon
<1>3. IsWellFoundedOn(Less, Nat)
  BY <1>1, <1>2, Zenon
<1> HIDE DEF Less
<1>4. PICK n \in T : \A m \in T : <<m, n>> \notin Less
  BY <1>3, WFMin, Zenon
<1>5. \A m \in T : ~(m < n)
  BY <1>4 DEF Less
<1> QED
  BY <1>5

\* What holds at the start of an interval and passes from each number to the
\* next holds throughout: Good is the set of the numbers where it does.
LEMMA Upwards ==
  ASSUME NEW n \in Nat, NEW Good, 0 \in Good,
         \A i \in 1..n : i - 1 \in Good => i \in Good
  PROVE  0..n \subseteq Good
<1> SUFFICES ASSUME (0..n) \ Good # {}
             PROVE  FALSE
  OBVIOUS
<1>1. PICK i \in (0..n) \ Good : \A m \in (0..n) \ Good : i <= m
  <2>1. (0..n) \ Good \in SUBSET Nat
    OBVIOUS
  <2> QED
    BY <2>1, LeastNatural, Zenon
<1>2. i \in 1..n /\ i - 1 \in 0..n /\ ~(i <= i - 1)
  BY <1>1
<1> QED
  BY <1>1, <1>2

-----------------------------------------------------------------------------
(* Queues as runs                                                          *)

\* The events in q, taken one by one, lead from the state a to the state b:
\* R holds the triples of a state, an event and a state it may lead to.
Leads(q, A, R, a, b) ==
  \E f \in [0..Len(q) -> A] :
    /\ f[0] = a /\ f[Len(q)] = b
    /\ \A i \in 1..Len(q) : <<f[i - 1], q[i], f[i]>> \in R

\* Nothing happens while nothing is taken.
LEMMA LeadsNowhere ==
  ASSUME NEW A, NEW R, NEW a \in A
  PROVE  Leads(<<>>, A, R, a, a)
<1> DEFINE f == [i \in 0..0 |-> a]
<1>1. f \in [0..Len(<<>>) -> A] /\ f[0] = a /\ f[Len(<<>>)] = a
  OBVIOUS
<1>2. 1..Len(<<>>) = {}
  OBVIOUS
<1> HIDE DEF f
<1> QED
  BY <1>1, <1>2 DEF Leads

\* One more event leads one step further.
LEMMA LeadsFurther ==
  ASSUME NEW S, NEW q \in Seq(S), NEW e \in S, NEW A, NEW R,
         NEW a \in A, NEW b \in A, NEW c \in A,
         Leads(q, A, R, a, b), <<b, e, c>> \in R
  PROVE  Leads(Append(q, e), A, R, a, c)
<1> DEFINE n == Len(q)
           p == Append(q, e)
<1>1. n \in Nat /\ Len(p) = n + 1 /\ p[n + 1] = e
      /\ \A i \in 1..n : p[i] = q[i]
  OBVIOUS
<1>2. PICK f \in [0..n -> A] :
        /\ f[0] = a /\ f[n] = b
        /\ \A i \in 1..n : <<f[i - 1], q[i], f[i]>> \in R
  BY DEF Leads
<1> DEFINE g == [i \in 0..(n + 1) |-> IF i = n + 1 THEN c ELSE f[i]]
<1> HIDE DEF n, p
<1>3. g \in [0..(n + 1) -> A] /\ g[0] = a /\ g[n + 1] = c
  BY <1>1, <1>2
<1>4. ASSUME NEW i \in 1..(n + 1)
      PROVE  <<g[i - 1], p[i], g[i]>> \in R
  <2>1. CASE i = n + 1
    <3>1. i - 1 = n /\ g[i - 1] = b /\ g[i] = c /\ p[i] = e
      BY <1>1, <1>2, <2>1
    <3> QED
      BY <3>1
  <2>2. CASE i # n + 1
    <3>1. i \in 1..n /\ i - 1 \in 0..n
      BY <1>1, <2>2
    <3>2. g[i - 1] = f[i - 1] /\ g[i] = f[i] /\ p[i] = q[i]
      BY <1>1, <3>1, <2>2
    <3> QED
      BY <1>2, <3>1, <3>2
  <2> QED
    BY <2>1, <2>2
<1> HIDE DEF g
<1> QED
  BY <1>1, <1>3, <1>4 DEF Leads, p

\* The oldest event leads to where the others start.
LEMMA LeadsAfterHead ==
  ASSUME NEW S, NEW q \in Seq(S), q # <<>>, NEW A, NEW R,
         NEW a \in A, NEW b \in A, Leads(q, A, R, a, b)
  PROVE  \E c \in A : <<a, Head(q), c>> \in R /\ Leads(Tail(q), A, R, c, b)
<1> DEFINE n == Len(q)
           p == Tail(q)
<1>1. /\ n \in Nat \ {0} /\ Len(p) = n - 1 /\ q[1] = Head(q)
      /\ \A i \in 1..(n - 1) : p[i] = q[i + 1]
  OBVIOUS
<1>2. PICK f \in [0..n -> A] :
        /\ f[0] = a /\ f[n] = b
        /\ \A i \in 1..n : <<f[i - 1], q[i], f[i]>> \in R
  BY DEF Leads
<1> DEFINE g == [i \in 0..(n - 1) |-> f[i + 1]]
<1> HIDE DEF n, p
<1>3. g \in [0..(n - 1) -> A] /\ g[0] = f[1] /\ g[n - 1] = b
  BY <1>1, <1>2
<1>4. <<a, Head(q), f[1]>> \in R /\ f[1] \in A
  <2>1. 1 \in 1..n /\ 1 \in 0..n /\ 1 - 1 = 0
    BY <1>1
  <2> QED
    BY <1>1, <1>2, <2>1
<1>5. ASSUME NEW i \in 1..(n - 1)
      PROVE  <<g[i - 1], p[i], g[i]>> \in R
  <2>1. i + 1 \in 1..n /\ (i + 1) - 1 = i /\ (i - 1) + 1 = i
        /\ i - 1 \in 0..(n - 1) /\ i \in 0..(n - 1)
    BY <1>1
  <2>2. g[i - 1] = f[(i + 1) - 1] /\ g[i] = f[i + 1] /\ p[i] = q[i + 1]
    BY <1>1, <2>1
  <2> QED
    BY <1>2, <2>1, <2>2
<1> HIDE DEF g
<1>6. Leads(p, A, R, f[1], b)
  BY <1>1, <1>3, <1>5 DEF Leads
<1> QED
  BY <1>4, <1>6 DEF p

\* Events that do not lead out of G lead from one of its states to another.
LEMMA LeadsInside ==
  ASSUME NEW S, NEW q \in Seq(S), NEW A, NEW R, NEW a, NEW b, NEW G, a \in G,
         Leads(q, A, R, a, b),
         \A e \in ToSet(q) :
           \A c, d \in A : <<c, e, d>> \in R /\ c \in G => d \in G
  PROVE  b \in G
<1> DEFINE n == Len(q)
<1>1. n \in Nat /\ \A i \in 1..n : q[i] \in ToSet(q)
  BY DEF ToSet
<1>2. PICK f \in [0..n -> A] :
        /\ f[0] = a /\ f[n] = b
        /\ \A i \in 1..n : <<f[i - 1], q[i], f[i]>> \in R
  BY DEF Leads
<1> HIDE DEF n
<1> DEFINE Inside == {i \in 0..n : f[i] \in G}
<1>3. 0 \in Inside
  BY <1>1, <1>2
<1>4. ASSUME NEW i \in 1..n, i - 1 \in Inside
      PROVE  i \in Inside
  <2>1. i \in 0..n /\ i - 1 \in 0..n /\ f[i] \in A /\ f[i - 1] \in A
    BY <1>1, <1>2
  <2>2. f[i] \in G
    BY <1>1, <1>2, <1>4, <2>1
  <2> QED
    BY <2>1, <2>2
<1> HIDE DEF Inside
<1>5. 0..n \subseteq Inside
  BY <1>1, <1>3, <1>4, Upwards
<1>6. n \in Inside
  BY <1>1, <1>5
<1> QED
  BY <1>2, <1>6 DEF Inside

\* Events that change nothing lead back to where they started.
LEMMA LeadsBack ==
  ASSUME NEW S, NEW q \in Seq(S), NEW A, NEW R, NEW a, NEW b,
         Leads(q, A, R, a, b),
         \A e \in ToSet(q) : \A c, d \in A : <<c, e, d>> \in R => c = d
  PROVE  a = b
<1> DEFINE G == {a}
<1>1. a \in G
  OBVIOUS
<1>2. \A e \in ToSet(q) :
        \A c, d \in A : <<c, e, d>> \in R /\ c \in G => d \in G
  OBVIOUS
<1> HIDE DEF G
<1>3. b \in G
  BY <1>1, <1>2, LeadsInside
<1> QED
  BY <1>3 DEF G

-----------------------------------------------------------------------------
(* Filters                                                                 *)

\* f[i] is what the filter S leaves of the first i elements of s.
IsFilterOf(f, s, S) ==
  /\ f[0] = <<>>
  /\ \A i \in 1..Len(s) :
       f[i] = IF s[i] \in S THEN Append(f[i - 1], s[i]) ELSE f[i - 1]

\* The filter of a sequence can be computed from left to right.
LEMMA FilterExists ==
  ASSUME NEW T, NEW s \in Seq(T), NEW S
  PROVE  \E f \in [0..Len(s) -> Seq(T)] : IsFilterOf(f, s, S)
<1> DEFINE n == Len(s)
           Step(i, x) == IF s[i] \in S THEN Append(x, s[i]) ELSE x
           Upto(f, k) == /\ f[0] = <<>>
                         /\ \A i \in 1..k : f[i] = Step(i, f[i - 1])
           Good == {k \in 0..n : \E f \in [0..k -> Seq(T)] : Upto(f, k)}
<1>1. n \in Nat /\ \A i \in 1..n : s[i] \in T
  OBVIOUS
<1>2. \A i \in 1..n : \A x \in Seq(T) : Step(i, x) \in Seq(T)
  OBVIOUS
<1> HIDE DEF n, Step
<1>3. 0 \in Good
  <2> DEFINE f == [i \in 0..0 |-> <<>>]
  <2>1. f \in [0..0 -> Seq(T)] /\ f[0] = <<>>
    OBVIOUS
  <2>2. 1..0 = {}
    OBVIOUS
  <2> HIDE DEF f
  <2> QED
    BY <1>1, <2>1, <2>2
<1>4. ASSUME NEW k \in 1..n, k - 1 \in Good
      PROVE  k \in Good
  <2>1. PICK f \in [0..(k - 1) -> Seq(T)] : Upto(f, k - 1)
    BY <1>4
  <2> DEFINE g == [i \in 0..k |-> IF i = k THEN Step(k, f[k - 1]) ELSE f[i]]
  <2>2. k - 1 \in 0..(k - 1) /\ f[k - 1] \in Seq(T) /\ k \in Nat /\ k # 0
    BY <1>1, <2>1
  <2>3. Step(k, f[k - 1]) \in Seq(T)
    BY <1>2, <2>2
  <2>4. g \in [0..k -> Seq(T)]
    BY <1>1, <2>3
  <2>5. g[0] = <<>>
    BY <1>1, <2>1
  <2>6. ASSUME NEW i \in 1..k
        PROVE  g[i] = Step(i, g[i - 1])
    <3>1. CASE i = k
      <4>1. g[i] = Step(k, f[k - 1]) /\ g[i - 1] = f[k - 1]
        BY <2>2, <3>1
      <4> QED
        BY <3>1, <4>1
    <3>2. CASE i # k
      <4>1. i \in 1..(k - 1) /\ i - 1 \in 0..(k - 1)
        BY <2>2, <3>2
      <4>2. g[i] = f[i] /\ g[i - 1] = f[i - 1]
        BY <2>2, <3>2, <4>1
      <4> QED
        BY <2>1, <4>1, <4>2
    <3> QED
      BY <3>1, <3>2
  <2> HIDE DEF g
  <2>7. k \in 0..n
    BY <1>1
  <2> QED
    BY <2>4, <2>5, <2>6, <2>7
<1> HIDE DEF Good
<1>5. 0..n \subseteq Good
  BY <1>1, <1>3, <1>4, Upwards
<1>6. n \in Good
  BY <1>1, <1>5
<1>7. PICK f \in [0..n -> Seq(T)] : Upto(f, n)
  BY <1>6 DEF Good
<1> QED
  BY <1>7 DEF IsFilterOf, n, Step

\* There is only one.
LEMMA FilterUnique ==
  ASSUME NEW T, NEW s \in Seq(T), NEW S, NEW f, NEW g,
         IsFilterOf(f, s, S), IsFilterOf(g, s, S)
  PROVE  \A i \in 0..Len(s) : f[i] = g[i]
<1> DEFINE Good == {i \in 0..Len(s) : f[i] = g[i]}
<1>1. Len(s) \in Nat /\ 0 \in 0..Len(s)
  OBVIOUS
<1>2. 0 \in Good
  BY <1>1 DEF IsFilterOf
<1>3. ASSUME NEW i \in 1..Len(s), i - 1 \in Good
      PROVE  i \in Good
  <2>1. i \in 0..Len(s)
    BY <1>1
  <2>2. f[i - 1] = g[i - 1]
    BY <1>3
  <2> QED
    BY <2>1, <2>2 DEF IsFilterOf
<1> HIDE DEF Good
<1>4. 0..Len(s) \subseteq Good
  BY <1>1, <1>2, <1>3, Upwards
<1> QED
  BY <1>4 DEF Good

\* So it is the one that the filter computes.
LEMMA FilterIs ==
  ASSUME NEW T, NEW s \in Seq(T), NEW S, NEW f, IsFilterOf(f, s, S)
  PROVE  Filtered(s, S) = f[Len(s)]
<1> DEFINE Def(g) == [n \in 0..Len(s) |->
                        IF n = 0 THEN <<>>
                        ELSE IF s[n] \in S THEN Append(g[n - 1], s[n])
                        ELSE g[n - 1]]
           h == CHOOSE g : g = Def(g)
<1>1. PICK g \in [0..Len(s) -> Seq(T)] : IsFilterOf(g, s, S)
  BY FilterExists
<1>2. Len(s) \in Nat
  OBVIOUS
<1>3. g = Def(g)
  <2>1. \A n \in 0..Len(s) : n # 0 => n \in 1..Len(s)
    BY <1>2
  <2>2. \A n \in 0..Len(s) : g[n] = Def(g)[n]
    BY <1>1, <2>1 DEF IsFilterOf
  <2> HIDE DEF Def
  <2>3. Def(g) = [n \in 0..Len(s) |-> Def(g)[n]]
    BY DEF Def
  <2>4. g = [n \in 0..Len(s) |-> g[n]]
    BY <1>1
  <2> QED
    BY <2>2, <2>3, <2>4
<1>4. h = Def(h)
  BY <1>3
<1>5. IsFilterOf(h, s, S)
  <2>1. h[0] = <<>>
    <3>1. 0 \in 0..Len(s)
      BY <1>2
    <3>2. h[0] = Def(h)[0]
      BY <1>4
    <3> HIDE DEF h
    <3> QED
      BY <3>1, <3>2
  <2>2. ASSUME NEW i \in 1..Len(s)
        PROVE  h[i] = IF s[i] \in S THEN Append(h[i - 1], s[i]) ELSE h[i - 1]
    <3>1. i \in 0..Len(s) /\ i # 0
      BY <1>2
    <3>2. h[i] = Def(h)[i]
      BY <1>4
    <3> HIDE DEF h
    <3> QED
      BY <3>1, <3>2
  <2> HIDE DEF h
  <2> QED
    BY <2>1, <2>2 DEF IsFilterOf
<1>6. Filtered(s, S) = h[Len(s)]
  BY DEF Filtered
<1> HIDE DEF h
<1>7. h[Len(s)] = f[Len(s)]
  BY <1>2, <1>5, FilterUnique
<1> QED
  BY <1>6, <1>7

\* The filtered elements, in order.
LEMMA FilterEmpty ==
  ASSUME NEW S
  PROVE  Filtered(<<>>, S) = <<>>
<1> DEFINE f == [i \in 0..0 |-> <<>>]
<1>1. IsFilterOf(f, <<>>, S)
  BY DEF IsFilterOf
<1>2. <<>> \in Seq({}) /\ Len(<<>>) = 0 /\ f[0] = <<>>
  OBVIOUS
<1> HIDE DEF f
<1> QED
  BY <1>1, <1>2, FilterIs

\* A filter leaves elements of the sequence.
LEMMA FilterTyped ==
  ASSUME NEW T, NEW s \in Seq(T), NEW S
  PROVE  Filtered(s, S) \in Seq(T)
<1>1. PICK f \in [0..Len(s) -> Seq(T)] : IsFilterOf(f, s, S)
  BY FilterExists
<1>2. Len(s) \in 0..Len(s)
  OBVIOUS
<1> QED
  BY <1>1, <1>2, FilterIs

\* A new last element is kept, or not.
LEMMA FilterAppend ==
  ASSUME NEW T, NEW s \in Seq(T), NEW e \in T, NEW S
  PROVE  Filtered(Append(s, e), S) =
           IF e \in S THEN Append(Filtered(s, S), e) ELSE Filtered(s, S)
<1> DEFINE n == Len(s)
           p == Append(s, e)
<1>1. PICK f \in [0..n -> Seq(T)] : IsFilterOf(f, s, S)
  BY FilterExists
<1>2. /\ n \in Nat /\ Len(p) = n + 1 /\ p[n + 1] = e /\ p \in Seq(T)
      /\ \A i \in 1..n : p[i] = s[i]
  OBVIOUS
<1>3. f[n] = Filtered(s, S)
  BY <1>1, FilterIs
<1> DEFINE last == IF e \in S THEN Append(f[n], e) ELSE f[n]
           g == [i \in 0..(n + 1) |-> IF i = n + 1 THEN last ELSE f[i]]
<1>4. IsFilterOf(g, p, S)
  <2> HIDE DEF p, last
  <2>1. g[0] = <<>>
    BY <1>1, <1>2 DEF IsFilterOf
  <2>2. ASSUME NEW i \in 1..(n + 1)
        PROVE  g[i] = IF p[i] \in S THEN Append(g[i - 1], p[i]) ELSE g[i - 1]
    <3>1. CASE i = n + 1
      <4>1. g[i] = last /\ g[i - 1] = f[n] /\ p[i] = e
        BY <1>2, <3>1
      <4> QED
        BY <4>1 DEF last
    <3>2. CASE i # n + 1
      <4>1. i \in 1..n
        BY <1>2, <3>2
      <4>2. g[i] = f[i] /\ g[i - 1] = f[i - 1] /\ p[i] = s[i]
        BY <1>2, <4>1
      <4> QED
        BY <1>1, <4>1, <4>2 DEF IsFilterOf
    <3> QED
      BY <3>1, <3>2
  <2> HIDE DEF g
  <2> QED
    BY <1>2, <2>1, <2>2 DEF IsFilterOf
<1>5. g[n + 1] = last
  BY <1>2
<1> HIDE DEF g, last, n, p
<1>6. Filtered(p, S) = last
  BY <1>2, <1>4, <1>5, FilterIs
<1> QED
  BY <1>3, <1>6 DEF last, p, n

\* The oldest element comes first, or not at all.
LEMMA FilterTail ==
  ASSUME NEW T, NEW s \in Seq(T), s # <<>>, NEW S
  PROVE  Filtered(s, S) =
           IF Head(s) \in S THEN <<Head(s)>> \o Filtered(Tail(s), S)
           ELSE Filtered(Tail(s), S)
<1> DEFINE n == Len(s) - 1
           p == Tail(s)
           first == IF Head(s) \in S THEN <<Head(s)>> ELSE <<>>
<1>1. /\ n \in Nat /\ Len(s) = n + 1 /\ Len(p) = n /\ s[1] = Head(s)
      /\ p \in Seq(T) /\ Head(s) \in T
      /\ \A i \in 1..n : p[i] = s[i + 1] /\ p[i] \in T
  OBVIOUS
<1>2. PICK f \in [0..n -> Seq(T)] : IsFilterOf(f, p, S)
  BY <1>1, FilterExists
<1>3. f[n] = Filtered(p, S)
  BY <1>1, <1>2, FilterIs
<1>4. first \in Seq(T)
  BY <1>1
<1> DEFINE g == [i \in 0..(n + 1) |->
                   IF i = 0 THEN <<>> ELSE first \o f[i - 1]]
<1>5. IsFilterOf(g, s, S)
  <2> HIDE DEF p, n
  <2>1. g[0] = <<>>
    BY <1>1
  <2>2. ASSUME NEW i \in 1..(n + 1)
        PROVE  g[i] = IF s[i] \in S THEN Append(g[i - 1], s[i]) ELSE g[i - 1]
    <3>1. CASE i = 1
      <4>1. f[0] = <<>>
        BY <1>2 DEF IsFilterOf
      <4>2. g[1] = first \o f[0] /\ g[0] = <<>>
        <5> HIDE DEF first
        <5> QED
          BY <1>1
      <4>3. first \o <<>> = first
        BY <1>4
      <4>4. first = IF s[1] \in S THEN Append(<<>>, s[1]) ELSE <<>>
        BY <1>1
      <4>5. i - 1 = 0
        BY <3>1
      <4> HIDE DEF first, g
      <4> QED
        BY <3>1, <4>1, <4>2, <4>3, <4>4, <4>5
    <3>2. CASE i # 1
      <4>1. i - 1 \in 1..n /\ (i - 1) + 1 = i
        BY <1>1, <3>2
      <4>2. /\ g[i] = first \o f[i - 1] /\ g[i - 1] = first \o f[(i - 1) - 1]
            /\ s[i] = p[i - 1] /\ s[i] \in T
        <5>1. i \in 0..(n + 1) /\ i - 1 \in 0..(n + 1) /\ i # 0 /\ i - 1 # 0
          BY <1>1, <4>1
        <5> HIDE DEF first
        <5> QED
          BY <1>1, <4>1, <5>1
      <4>3. f[i - 1] = IF p[i - 1] \in S THEN Append(f[(i - 1) - 1], p[i - 1])
                       ELSE f[(i - 1) - 1]
        BY <1>1, <1>2, <4>1 DEF IsFilterOf
      <4>4. f[(i - 1) - 1] \in Seq(T)
        BY <1>1, <1>2, <4>1
      <4>5. \A x \in Seq(T), e \in T :
              first \o Append(x, e) = Append(first \o x, e)
        BY <1>4
      <4> HIDE DEF g, first
      <4> QED
        BY <4>2, <4>3, <4>4, <4>5
    <3> QED
      BY <3>1, <3>2
  <2> HIDE DEF g
  <2> QED
    BY <1>1, <2>1, <2>2 DEF IsFilterOf
<1>6. g[n + 1] = first \o f[n]
  BY <1>1
<1> HIDE DEF g, n, p
<1>7. Filtered(s, S) = first \o Filtered(p, S)
  <2> HIDE DEF first
  <2> QED
    BY <1>1, <1>3, <1>5, <1>6, FilterIs
<1>8. Filtered(p, S) \in Seq(T)
  BY <1>1, FilterTyped
<1> QED
  BY <1>7, <1>8 DEF p

\* Nothing is kept that was not there or does not pass, and all else is.
LEMMA FilterHolds ==
  ASSUME NEW T, NEW s \in Seq(T), NEW S
  PROVE  ToSet(Filtered(s, S)) = ToSet(s) \cap S
<1> DEFINE n == Len(s)
<1>1. n \in Nat /\ ToSet(s) = {s[j] : j \in 1..n}
      /\ \A i \in 1..n : s[i] \in T
  BY DEF ToSet
<1>2. PICK f \in [0..n -> Seq(T)] : IsFilterOf(f, s, S)
  BY FilterExists
<1> HIDE DEF n
<1> DEFINE Good == {i \in 0..n : ToSet(f[i]) = {s[j] : j \in 1..i} \cap S}
<1>3. 0 \in Good
  <2>1. f[0] = <<>> /\ 1..0 = {}
    BY <1>2 DEF IsFilterOf
  <2>2. ToSet(<<>>) = {}
    BY DEF ToSet
  <2> QED
    BY <1>1, <2>1, <2>2
<1>4. ASSUME NEW i \in 1..n, i - 1 \in Good
      PROVE  i \in Good
  <2>1. i \in 0..n /\ i - 1 \in 0..n /\ 1..i = 1..(i - 1) \cup {i}
    BY <1>1
  <2>2. f[i - 1] \in Seq(T) /\ s[i] \in T
    BY <1>1, <1>2, <2>1
  <2>3. ToSet(Append(f[i - 1], s[i])) = ToSet(f[i - 1]) \cup {s[i]}
    BY <2>2, HeldAfterAppend
  <2>4. f[i] = IF s[i] \in S THEN Append(f[i - 1], s[i]) ELSE f[i - 1]
    BY <1>2 DEF IsFilterOf, n
  <2>5. {s[j] : j \in 1..i} = {s[j] : j \in 1..(i - 1)} \cup {s[i]}
    BY <2>1
  <2>6. ToSet(f[i - 1]) = {s[j] : j \in 1..(i - 1)} \cap S
    BY <1>4
  <2>7. ToSet(f[i]) = {s[j] : j \in 1..i} \cap S
    BY <2>3, <2>4, <2>5, <2>6
  <2> QED
    BY <2>1, <2>7
<1> HIDE DEF Good
<1>5. 0..n \subseteq Good
  BY <1>1, <1>3, <1>4, Upwards
<1>6. n \in Good
  BY <1>1, <1>5
<1>7. ToSet(f[n]) = ToSet(s) \cap S
  BY <1>1, <1>6 DEF Good
<1> QED
  BY <1>2, <1>7, FilterIs DEF n
=============================================================================
