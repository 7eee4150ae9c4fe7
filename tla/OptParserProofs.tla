-------------------------- MODULE OptParserProofs --------------------------
(***************************************************************************)
(* Proofs about OptParser.                                                 *)
(*                                                                         *)
(* Numbered: the sequence numbers are in the order of registration, so the *)
(* list of print_usage is.  The widths of integers come in as powers of    *)
(* two, whose arithmetic rests on counting subsets.  PInv: while a line is *)
(* parsed, every variable has the last argument that was given to its      *)
(* option in what is read so far, and the line is well formed so far       *)
(* unless a word was skipped; the end of the line then says ParsedAsRead,  *)
(* and a failure in between FailureIsClean.                                *)
(***************************************************************************)
EXTENDS OptParser, QueueLemmas, FiniteSetTheorems

-----------------------------------------------------------------------------
(* Registration and print_usage                                            *)

\* The numbers of the options tell in which order they were added, and the
\* copy has none but theirs.
Numbered ==
  /\ sequence_ \in 0..MaxAdds
  /\ added \in Seq(Options)
  /\ long_opts_ \in [ToSet(added) -> 1..sequence_]
  /\ \A i, j \in DOMAIN added :
       i < j => long_opts_[added[i]] < long_opts_[added[j]]
  /\ \A n \in DOMAIN ex_long_opts_ :
       /\ ex_long_opts_[n] \in Registered
       /\ long_opts_[ex_long_opts_[n]] = n

\* Nothing is said of the numbers but by the tables.
LEMMA NumberedKept ==
  ASSUME Numbered, UNCHANGED tables
  PROVE  Numbered'
BY DEF Numbered, tables, Registered, ToSet

\* No two registered options have one number.
LEMMA NumbersTell ==
  ASSUME Numbered, NEW o \in Registered, NEW p \in Registered,
         long_opts_[o] = long_opts_[p]
  PROVE  o = p
<1>1. PICK i \in DOMAIN added : o = added[i]
  BY DEF Numbered, Registered, ToSet
<1>2. PICK j \in DOMAIN added : p = added[j]
  BY DEF Numbered, Registered, ToSet
<1>3. /\ i \in Int /\ j \in Int
      /\ long_opts_[o] \in Int
  BY DEF Numbered, Registered
<1>4. ~(i < j) /\ ~(j < i)
  BY <1>1, <1>2, <1>3 DEF Numbered
<1>5. i = j
  BY <1>3, <1>4
<1> QED
  BY <1>1, <1>2, <1>5

\* The copy print_usage makes has each registered option under its number.
LEMMA SavedAre ==
  ASSUME Numbered
  PROVE  /\ DOMAIN SavedExOpts = {long_opts_[o] : o \in Registered}
         /\ \A o \in Registered : SavedExOpts[long_opts_[o]] = o
<1> DEFINE numbers == {long_opts_[o] : o \in Registered}
<1>1. DOMAIN ex_long_opts_ \cup numbers = numbers
  BY DEF Numbered
<1>2. SavedExOpts =
        [n \in numbers |->
           IF \E o \in Registered : long_opts_[o] = n
             THEN CHOOSE o \in Registered : long_opts_[o] = n
             ELSE ex_long_opts_[n]]
  BY <1>1 DEF SavedExOpts
<1>3. ASSUME NEW o \in Registered
      PROVE  SavedExOpts[long_opts_[o]] = o
  <2> DEFINE p == CHOOSE p \in Registered : long_opts_[p] = long_opts_[o]
  <2>1. p \in Registered /\ long_opts_[p] = long_opts_[o]
    OBVIOUS
  <2>2. SavedExOpts[long_opts_[o]] = p
    BY <1>2
  <2> HIDE DEF p
  <2> QED
    BY <2>1, <2>2, NumbersTell
<1> QED
  BY <1>2, <1>3

\* A registration that is accepted gets the greatest number.
LEMMA AddKeeps ==
  ASSUME ParserAssumption, Numbered, NEW o \in Options, AddLongOpt(o)
  PROVE  Numbered'
<1>1. /\ sequence_' = sequence_ + 1 /\ sequence_ < MaxAdds
      /\ ex_long_opts_' = ex_long_opts_
      /\ sequence_ \in Nat /\ sequence_' \in 0..MaxAdds
      /\ 1..sequence_ \subseteq 1..sequence_'
  BY DEF AddLongOpt, Numbered, ParserAssumption
<1>2. CASE o \in Registered /\ UNCHANGED <<long_opts_, added>>
  <2>1. long_opts_ \in [ToSet(added) -> 1..sequence_']
    BY <1>1 DEF Numbered
  <2> QED
    BY <1>1, <1>2, <2>1 DEF Numbered, Registered, ToSet
<1>3. CASE /\ o \notin Registered
           /\ long_opts_' =
                [p \in Registered \cup {o} |->
                   IF p = o THEN sequence_ + 1 ELSE long_opts_[p]]
           /\ added' = Append(added, o)
  <2>1. /\ added' \in Seq(Options)
        /\ ToSet(added') = ToSet(added) \cup {o}
        /\ Registered = ToSet(added)
    BY <1>3, AppendedQueue, HeldAfterAppend DEF Numbered, Registered
  <2>2. \A p \in Registered : long_opts_[p] \in 1..sequence_
                              /\ long_opts_'[p] = long_opts_[p]
    BY <1>3, <2>1 DEF Numbered
  <2>3. long_opts_'[o] = sequence_ + 1
    BY <1>3
  <2>4. long_opts_' \in [ToSet(added') -> 1..sequence_']
    BY <1>1, <1>3, <2>1, <2>2
  <2>5. /\ Len(added) \in Nat /\ DOMAIN added = 1..Len(added)
        /\ DOMAIN added' = 1..(Len(added) + 1)
        /\ added'[Len(added) + 1] = o
        /\ \A i \in 1..Len(added) : added'[i] = added[i]
                                    /\ added[i] \in Registered
    BY <1>3, <2>1 DEF Numbered, ToSet
  <2>6. ASSUME NEW i \in DOMAIN added', NEW j \in DOMAIN added', i < j
        PROVE  long_opts_'[added'[i]] < long_opts_'[added'[j]]
    <3>1. i \in 1..Len(added)
      BY <2>5, <2>6
    <3>2. CASE j = Len(added) + 1
      <4>1. long_opts_'[added'[i]] \in 1..sequence_
        BY <2>2, <2>5, <3>1
      <4> QED
        BY <1>1, <2>3, <2>5, <3>2, <4>1
    <3>3. CASE j \in 1..Len(added)
      BY <2>2, <2>5, <2>6, <3>1, <3>3 DEF Numbered
    <3> QED
      BY <2>5, <3>2, <3>3
  <2>7. ASSUME NEW n \in DOMAIN ex_long_opts_'
        PROVE  ex_long_opts_'[n] \in Registered'
               /\ long_opts_'[ex_long_opts_'[n]] = n
    BY <1>1, <1>3, <2>2, <2>7 DEF Numbered, Registered
  <2> QED
    BY <1>1, <2>1, <2>4, <2>6, <2>7 DEF Numbered
<1> QED
  BY <1>2, <1>3 DEF AddLongOpt

\* No step of the parser breaks this: the copy is made of the options that are
\* registered, and clear empties both tables.
LEMMA TablesKeep ==
  ASSUME ParserAssumption, Numbered, [Next]_vars
  PROVE  Numbered'
<1>1. ASSUME NEW o \in Options, AddLongOpt(o)
      PROVE  Numbered'
  BY <1>1, AddKeeps
<1>2. CASE Clear
  <2>1. /\ added' = <<>> /\ long_opts_' = <<>> /\ ex_long_opts_' = <<>>
        /\ sequence_' = sequence_
    BY <1>2 DEF Clear
  <2>2. ToSet(<<>>) = {} /\ DOMAIN <<>> = {} /\ <<>> \in Seq(Options)
    BY DEF ToSet
  <2>3. <<>> \in [{} -> 1..sequence_]
    OBVIOUS
  <2> QED
    BY <2>1, <2>2, <2>3 DEF Numbered
<1>3. CASE PrintUsage
  <2>1. UNCHANGED <<long_opts_, sequence_, added>>
        /\ ex_long_opts_' = SavedExOpts
    BY <1>3 DEF PrintUsage
  <2>2. \A n \in DOMAIN SavedExOpts :
          SavedExOpts[n] \in Registered /\ long_opts_[SavedExOpts[n]] = n
    BY SavedAre
  <2> QED
    BY <2>1, <2>2 DEF Numbered, Registered, ToSet
<1>4. ASSUME NEW line \in Lines, Parse(line)
      PROVE  UNCHANGED tables
  BY <1>4 DEF Parse
<1>5. ParseOpts => UNCHANGED tables
  BY DEF ParseOpts, SkipWord, UnknownOption, FillOption, MissingArgument,
     EndOfLine
<1>6. UNCHANGED vars => UNCHANGED tables
  BY DEF vars, tables
<1> QED
  BY <1>1, <1>2, <1>3, <1>4, <1>5, <1>6, NumberedKept DEF Next

\* The numbers tell the order of the options in every state.
LEMMA NumberedInvariant == Spec => []Numbered
<1>1. Init => Numbered
  <2> SUFFICES ASSUME Init PROVE Numbered
    OBVIOUS
  <2>1. ToSet(<<>>) = {} /\ DOMAIN <<>> = {} /\ <<>> \in Seq(Options)
    BY DEF ToSet
  <2>2. <<>> \in [{} -> 1..0]
    OBVIOUS
  <2> QED
    BY <2>1, <2>2, ParserAssumption DEF Init, Numbered, ParserAssumption
<1> QED
  BY <1>1, TablesKeep, ParserAssumption, PTL DEF Spec

\* print_usage (opt_parser.cpp) lists what is registered, in the order it was
\* added, whatever was refused or cleared before.
THEOREM UsageIsCurrent == Spec => []UsageCurrent
<1>1. Numbered => UsageCurrent
  <2> SUFFICES ASSUME Numbered PROVE Lists(added, SavedExOpts)
    BY DEF UsageCurrent
  <2> DEFINE number == [i \in DOMAIN added |-> long_opts_[added[i]]]
  <2>1. /\ Registered = ToSet(added)
        /\ \A i \in DOMAIN added : added[i] \in Registered
    BY DEF Numbered, Registered, ToSet
  <2>2. number \in [DOMAIN added -> DOMAIN SavedExOpts]
    BY <2>1, SavedAre
  <2>3. \A n \in DOMAIN SavedExOpts : \E i \in DOMAIN added : number[i] = n
    <3>1. \A o \in Registered : \E i \in DOMAIN added : added[i] = o
      BY <2>1 DEF ToSet
    <3> QED
      BY <3>1, SavedAre
  <2>4. \A i \in DOMAIN added : added[i] = SavedExOpts[number[i]]
    BY <2>1, SavedAre
  <2>5. \A i, j \in DOMAIN added : i < j => number[i] < number[j]
    BY DEF Numbered
  <2> HIDE DEF number
  <2> QED
    BY <2>2, <2>3, <2>4, <2>5 DEF Lists
<1> QED
  BY <1>1, NumberedInvariant, PTL

-----------------------------------------------------------------------------
(* The conversions of fill_arg                                             *)

\* Powers of two are the sizes of sets of subsets.
LEMMA PowerIs ==
  ASSUME NEW n \in Nat
  PROVE  /\ IsFiniteSet(SUBSET (1..n))
         /\ Cardinality(SUBSET (1..n)) = 2^n
<1>1. 1 \in Int /\ n \in Int /\ Cardinality(1..n) = n /\ IsFiniteSet(1..n)
  <2>1. IsFiniteSet(1..n)
        /\ Cardinality(1..n) = IF 1 > n THEN 0 ELSE n - 1 + 1
    BY FS_Interval
  <2> QED
    BY <2>1
<1> QED
  BY <1>1, FS_SUBSET

\* No power of two is 0: the empty set is a subset.
LEMMA PowerPositive ==
  ASSUME NEW n \in Nat
  PROVE  2^n \in Nat \ {0}
<1>1. 2^n \in Nat
  BY PowerIs, FS_CardinalityType
<1>2. CASE 2^n = 0
  <2>1. SUBSET (1..n) = {}
    BY <1>2, PowerIs, FS_EmptySet
  <2> QED
    BY <2>1
<1> QED
  BY <1>1, <1>2

\* The subsets of a smaller interval are among those of a greater one.
LEMMA PowerGrows ==
  ASSUME NEW m \in Nat, NEW n \in Nat, m <= n
  PROVE  2^m <= 2^n
<1>1. SUBSET (1..m) \subseteq SUBSET (1..n)
  OBVIOUS
<1>2. Cardinality(SUBSET (1..m)) <= Cardinality(SUBSET (1..n))
  BY <1>1, PowerIs, FS_Subset
<1> QED
  BY <1>2, PowerIs

\* Half of the subsets of 1..n have n.
LEMMA PowerDoubles ==
  ASSUME NEW n \in Nat \ {0}
  PROVE  2^n = 2 * 2^(n - 1)
<1> DEFINE Low == SUBSET (1..(n - 1))
           High == {A \cup {n} : A \in Low}
           f == [A \in Low |-> A \cup {n}]
<1>1. n - 1 \in Nat /\ n \notin 1..(n - 1) /\ 1..n = 1..(n - 1) \cup {n}
  OBVIOUS
<1>2. SUBSET (1..n) = Low \cup High
  <2>1. ASSUME NEW A \in SUBSET (1..n), n \in A
        PROVE  A \in High
    <3>1. A \ {n} \in Low /\ A = (A \ {n}) \cup {n}
      BY <1>1, <2>1
    <3> QED
      BY <3>1
  <2>2. ASSUME NEW A \in SUBSET (1..n), n \notin A
        PROVE  A \in Low
    BY <1>1, <2>2
  <2>3. Low \subseteq SUBSET (1..n) /\ High \subseteq SUBSET (1..n)
    BY <1>1
  <2> QED
    BY <2>1, <2>2, <2>3
<1>3. Low \cap High = {}
  BY <1>1
<1>4. f \in Bijection(Low, High)
  <2>1. f \in [Low -> High]
    OBVIOUS
  <2>2. ASSUME NEW A \in Low, NEW B \in Low, f[A] = f[B]
        PROVE  A = B
    <3>1. A \cup {n} = B \cup {n} /\ n \notin A /\ n \notin B
      BY <1>1, <2>2
    <3> QED
      BY <3>1
  <2>3. \A C \in High : \E A \in Low : f[A] = C
    OBVIOUS
  <2> HIDE DEF f, Low, High
  <2> QED
    BY <2>1, <2>2, <2>3 DEF Bijection, Injection, Surjection, IsInjective
<1>5. /\ IsFiniteSet(Low) /\ Cardinality(Low) = 2^(n - 1)
      /\ IsFiniteSet(SUBSET (1..n)) /\ Cardinality(SUBSET (1..n)) = 2^n
  BY <1>1, PowerIs
<1> HIDE DEF f, Low, High
<1>6. ExistsBijection(Low, High)
  BY <1>4 DEF ExistsBijection
<1>7. IsFiniteSet(High) /\ Cardinality(High) = Cardinality(Low)
  BY <1>5, <1>6, FS_Bijection
<1>8. Cardinality(Low \cup High) =
        Cardinality(Low) + Cardinality(High) - Cardinality(Low \cap High)
  BY <1>5, <1>7, FS_Union
<1>9. Cardinality(Low \cap High) = 0
  BY <1>3, FS_EmptySet
<1>10. 2^(n - 1) \in Nat
  BY <1>1, PowerPositive
<1>11. 2^n = 2^(n - 1) + 2^(n - 1) - 0
  BY <1>2, <1>5, <1>7, <1>8, <1>9
<1> QED
  BY <1>10, <1>11

\* What the remainder of a division is.
LEMMA RemainderIs ==
  ASSUME NEW m \in Nat \ {0}, NEW n \in Int
  PROVE  /\ n % m \in 0..m - 1
         /\ n \in 0..m - 1 => n % m = n
         /\ n \in -m..-1 => n % m = n + m
OBVIOUS

\* The widths of the integers, in numbers of values.
LEMMA Widths ==
  /\ 2^Narrow = 2 * 2^(Narrow - 1) /\ 2^(Narrow - 1) \in Nat \ {0}
  /\ 2^Wide = 2 * 2^(Wide - 1) /\ 2^(Wide - 1) \in Nat \ {0}
  /\ 2^(Narrow - 1) <= 2^(Wide - 1)
<1>1. /\ Narrow \in Nat \ {0} /\ Wide \in Nat \ {0} /\ Narrow <= Wide
      /\ Narrow - 1 \in Nat /\ Wide - 1 \in Nat /\ Narrow - 1 <= Wide - 1
  BY ParserAssumption DEF ParserAssumption
<1> QED
  BY <1>1, PowerDoubles, PowerPositive, PowerGrows

\* The types of fill_arg that hold a number.
Numeric == {"int32", "uint32", "int64", "uint64", "double"}

\* The conversions give values of their types.
LEMMA ValueTyped ==
  ASSUME NEW type \in Types \ {"string", "address"}, NEW text,
         text.n \in Int
  PROVE  Value(type, text) \in ValuesOf(type)
<1> DEFINE n == text.n
           N == 2^(Narrow - 1)
           W == 2^(Wide - 1)
<1>1. N \in Nat \ {0} /\ W \in Nat \ {0} /\ 2^Narrow = 2 * N /\ 2^Wide = 2 * W
  BY Widths
<1> HIDE DEF N, W
<1>2. \A k \in Int : ToInt32(k) \in -N..N - 1 /\ ToUInt32(k) \in 0..2 * N - 1
  <2> TAKE k \in Int
  <2>1. 2 * N \in Nat \ {0}
    BY <1>1
  <2>2. k % (2 * N) \in 0..2 * N - 1
    BY <2>1, RemainderIs
  <2> QED
    BY <1>1, <2>2 DEF ToInt32, ToUInt32, N
<1>3. Strtol(n) \in -W..W - 1
  BY <1>1 DEF Strtol, Clamp, W
<1>4. Strtoul(n) \in 0..2 * W - 1
  <2>1. 2 * W \in Nat \ {0}
    BY <1>1
  <2>2. n % (2 * W) \in 0..2 * W - 1
    BY <2>1, RemainderIs
  <2> QED
    BY <1>1, <2>2 DEF Strtoul
<1>5. Strtol(n) \in Int /\ Strtoul(n) \in Int
  BY <1>1, <1>3, <1>4
<1>6. CASE type = "bool"
  BY <1>6 DEF Value, ValuesOf
<1>7. CASE type = "int32"
  BY <1>1, <1>2, <1>5, <1>7 DEF Value, ValuesOf, N
<1>8. CASE type = "uint32"
  BY <1>1, <1>2, <1>5, <1>8 DEF Value, ValuesOf, N
<1>9. CASE type = "int64"
  BY <1>1, <1>3, <1>9 DEF Value, ValuesOf, W
<1>10. CASE type = "uint64"
  BY <1>1, <1>4, <1>10 DEF Value, ValuesOf, W
<1>11. CASE type = "double"
  BY <1>11 DEF Value, ValuesOf
<1> QED
  BY <1>6, <1>7, <1>8, <1>9, <1>10, <1>11 DEF Types

\* A number the type has comes through them unchanged.
LEMMA ValueExact ==
  ASSUME NEW type \in Numeric, NEW text, text.n \in Int,
         text.n \in ValuesOf(type)
  PROVE  Value(type, text) = text.n
<1> DEFINE n == text.n
           N == 2^(Narrow - 1)
           W == 2^(Wide - 1)
<1>1. /\ N \in Nat \ {0} /\ W \in Nat \ {0} /\ N <= W
      /\ 2^Narrow = 2 * N /\ 2^Wide = 2 * W
      /\ 2 * N \in Nat \ {0} /\ 2 * W \in Nat \ {0}
  BY Widths
<1> HIDE DEF N, W
<1>2. CASE type = "int32"
  <2>1. n \in -N..N - 1
    BY <1>2 DEF ValuesOf, N
  <2>2. Strtol(n) = n
    BY <1>1, <2>1 DEF Strtol, Clamp, W
  <2>3. n % (2 * N) = IF n >= 0 THEN n ELSE n + 2 * N
    <3>1. CASE n >= 0
      <4>1. n \in 0..(2 * N) - 1
        BY <1>1, <2>1, <3>1
      <4> QED
        BY <1>1, <3>1, <4>1, RemainderIs
    <3>2. CASE n < 0
      <4> DEFINE m == 2 * N
      <4>1. m \in Nat \ {0} /\ n \in -m..-1
        BY <1>1, <2>1, <3>2
      <4> HIDE DEF m
      <4>2. n % m = n + m
        BY <4>1, RemainderIs
      <4> QED
        BY <3>2, <4>2 DEF m
    <3> QED
      BY <2>1, <1>1, <3>1, <3>2
  <2>4. ToInt32(n) = n
    BY <1>1, <2>1, <2>3 DEF ToInt32, N
  <2> QED
    BY <1>2, <2>2, <2>4 DEF Value
<1>3. CASE type = "uint32"
  <2>1. n \in 0..2 * N - 1
    BY <1>1, <1>3 DEF ValuesOf
  <2>2. n % (2 * W) = n /\ n % (2 * N) = n
    <3>1. n \in 0..(2 * W) - 1
      BY <1>1, <2>1
    <3> QED
      BY <1>1, <2>1, <3>1, RemainderIs
  <2>3. Strtoul(n) = n
    BY <1>1, <2>1, <2>2 DEF Strtoul
  <2> QED
    BY <1>1, <1>3, <2>2, <2>3 DEF Value, ToUInt32
<1>4. CASE type = "int64"
  <2>1. n \in -W..W - 1
    BY <1>4 DEF ValuesOf, W
  <2> QED
    BY <1>1, <1>4, <2>1 DEF Value, Strtol, Clamp, W
<1>5. CASE type = "uint64"
  <2>1. n \in 0..2 * W - 1
    BY <1>1, <1>5 DEF ValuesOf
  <2>2. n % (2 * W) = n
    BY <1>1, <2>1, RemainderIs
  <2> QED
    BY <1>1, <1>5, <2>1, <2>2 DEF Value, Strtoul
<1>6. CASE type = "double"
  BY <1>6 DEF Value
<1> QED
  BY <1>2, <1>3, <1>4, <1>5, <1>6 DEF Numeric

-----------------------------------------------------------------------------
(* What is read of a line                                                  *)

\* Of the first k positions of a line, P holds those that are options.
Reads(P, line, k) ==
  \A i \in 1..k :
    i \in P <=> ~IsWord(line[i]) /\ ~(i - 1 \in P
                                     /\ line[i - 1].text = NoText)

\* A line can be read from left to right.
LEMMA PositionsRead ==
  ASSUME NEW T, NEW line \in Seq(T)
  PROVE  /\ Positions(line) \subseteq 1..Len(line)
         /\ Reads(Positions(line), line, Len(line))
<1> DEFINE n == Len(line)
           Good == {k \in 0..n : \E P \in SUBSET (1..k) : Reads(P, line, k)}
<1>1. n \in Nat /\ DOMAIN line = 1..n
  OBVIOUS
<1> HIDE DEF n
<1>2. 0 \in Good
  <2>1. Reads({}, line, 0)
    BY DEF Reads
  <2> QED
    BY <1>1, <2>1
<1>3. ASSUME NEW k \in 1..n, k - 1 \in Good
      PROVE  k \in Good
  <2>1. k \in Nat \ {0} /\ k - 1 \in Nat /\ k \in 0..n /\ k \notin 1..(k - 1)
        /\ 1..k = 1..(k - 1) \cup {k}
    BY <1>1
  <2>2. PICK P \in SUBSET (1..(k - 1)) : Reads(P, line, k - 1)
    BY <1>3
  <2> DEFINE here == ~IsWord(line[k]) /\ ~(k - 1 \in P
                                          /\ line[k - 1].text = NoText)
             Q == IF here THEN P \cup {k} ELSE P
  <2>3. Q \in SUBSET (1..k)
    BY <2>1
  <2>4. k \notin P
    BY <2>1
  <2>5. ASSUME NEW i \in 1..k
        PROVE  i \in Q <=> ~IsWord(line[i]) /\ ~(i - 1 \in Q
                                                /\ line[i - 1].text = NoText)
    <3>1. i - 1 \in Q <=> i - 1 \in P
      BY <2>1
    <3>2. CASE i = k
      <4>1. i \in Q <=> here
        BY <2>4, <3>2
      <4> HIDE DEF Q
      <4> QED
        BY <3>1, <3>2, <4>1
    <3>3. CASE i \in 1..(k - 1)
      <4>1. i \in Q <=> i \in P
        BY <2>1, <3>3
      <4>2. i \in P <=> ~IsWord(line[i]) /\ ~(i - 1 \in P
                                              /\ line[i - 1].text = NoText)
        BY <2>2, <3>3 DEF Reads
      <4> HIDE DEF Q
      <4> QED
        BY <3>1, <4>1, <4>2
    <3> QED
      BY <2>1, <3>2, <3>3
  <2> HIDE DEF Q
  <2>6. Reads(Q, line, k)
    BY <2>5 DEF Reads
  <2> QED
    BY <2>1, <2>3, <2>6
<1> HIDE DEF Good
<1>4. 0..n \subseteq Good
  BY <1>1, <1>2, <1>3, Upwards
<1>5. n \in Good
  BY <1>1, <1>4
<1>6. PICK P \in SUBSET DOMAIN line : Reads(P, line, n)
  BY <1>1, <1>5 DEF Good
<1>7. \E S \in SUBSET DOMAIN line :
        \A i \in DOMAIN line :
          i \in S <=> ~IsWord(line[i]) /\ ~(i - 1 \in S
                                           /\ line[i - 1].text = NoText)
  BY <1>1, <1>6 DEF Reads
<1>8. /\ Positions(line) \in SUBSET DOMAIN line
      /\ \A i \in DOMAIN line :
           i \in Positions(line) <=>
             ~IsWord(line[i]) /\ ~(i - 1 \in Positions(line)
                                  /\ line[i - 1].text = NoText)
  BY <1>7, Zenon DEF Positions
<1> QED
  BY <1>1, <1>8 DEF Reads, n

\* What WellFormed says of position i.
WellAt(i) ==
  IF i \in OptionPositions
    THEN /\ argv[i].name \in DOMAIN picked
         /\ i \in GivenTo(picked[argv[i].name])
         /\ Accepts(Type[picked[argv[i].name]], Given(i))
    ELSE i - 1 \in OptionPositions /\ argv[i - 1].text = NoText

\* The types of the command line and of what is parsed of it.
LineTyped ==
  /\ argv \in Seq(Tokens) /\ argv \in Lines \cup {<<>>}
  /\ optind \in 1..Len(argv) + 1 /\ skipped \in BOOLEAN
  /\ result \in {"none", "parsing", "true", "false"}
  /\ DOMAIN store = Options
  /\ \A o \in Options : store[o] # Untouched /\ Type[o] \notin
       {"string", "address"} => store[o] \in ValuesOf(Type[o])

\* getopt finds an option of the name it looks for.
PickedOfName ==
  result # "none" =>
    /\ Registered \subseteq Options
    /\ picked \in [{Name[o] : o \in Registered} -> Registered]
    /\ \A name \in DOMAIN picked : Name[picked[name]] = name

\* Nothing is parsed at first.
Unparsed ==
  result = "none" =>
    argv = <<>> /\ optind = 1 /\ skipped = FALSE
      /\ \A o \in Options : store[o] = Untouched

\* The next token is no argument of the one before.
Boundary ==
  result = "parsing" =>
    (optind - 1 \in OptionPositions => argv[optind - 1].text # NoText)

\* The line is well formed so far, unless a word was skipped.
ReadSoFar ==
  result = "parsing" =>
    IF skipped = FALSE THEN \A i \in 1..optind - 1 : WellAt(i)
    ELSE \E i \in 1..optind - 1 : ~WellAt(i)

\* Where o was given an argument so far.
GivenSoFar(o) == {i \in GivenTo(o) : i < optind}

\* The variable of o has the last argument given to o so far.
Stored(o) ==
  IF o \in Registered /\ picked[Name[o]] = o /\ GivenSoFar(o) # {}
    THEN \E i \in GivenSoFar(o) :
           /\ \A j \in GivenSoFar(o) : j <= i
           /\ Accepts(Type[o], Given(i))
           /\ store[o] = Value(Type[o], Given(i))
    ELSE store[o] = Untouched

StoredSoFar == result = "parsing" => \A o \in Options : Stored(o)

\* What parse_opts keeps: what it has read and stored so far is what the line
\* says, and its result, once it has one, is right.
PInv ==
  /\ LineTyped /\ PickedOfName /\ Unparsed /\ Boundary /\ ReadSoFar
  /\ StoredSoFar /\ ParsedAsRead /\ FailureIsClean

\* As long as the line, the table and the picked options stay, so does what
\* they mean.
LEMMA LineKept ==
  ASSUME UNCHANGED <<argv, picked, long_opts_>>
  PROVE  /\ OptionPositions' = OptionPositions
         /\ \A i : Given(i)' = Given(i)
         /\ \A o : GivenTo(o)' = GivenTo(o)
         /\ \A i : WellAt(i)' <=> WellAt(i)
         /\ WellFormed' <=> WellFormed
         /\ Registered' = Registered
<1>1. OptionPositions' = OptionPositions /\ Registered' = Registered
  BY DEF OptionPositions, Registered
<1>2. \A i : Given(i)' = Given(i)
  BY DEF Given, AsText, IsWord
<1>3. \A o : GivenTo(o)' = GivenTo(o)
  BY <1>1 DEF GivenTo
<1>4. \A i : Accepts(Type[picked[argv[i].name]], Given(i))'
               <=> Accepts(Type[picked[argv[i].name]], Given(i))
  BY <1>2 DEF Accepts, IsNumeric
<1>5. \A i : WellAt(i)' <=> WellAt(i)
  BY <1>1, <1>2, <1>3, <1>4 DEF WellAt
<1>6. WellFormed' <=> WellFormed
  BY <1>1, <1>2, <1>3, <1>4 DEF WellFormed
<1> QED
  BY <1>1, <1>2, <1>3, <1>5, <1>6

\* The line is well formed when it is so at every position.
LEMMA WellFormedIs == WellFormed <=> \A i \in DOMAIN argv : WellAt(i)
BY DEF WellFormed, WellAt

\* The token parse_opts looks at next is an option unless it is a word.
LEMMA NextToken ==
  ASSUME PInv, Parsing
  PROVE  /\ optind \in 1..Len(argv) /\ Len(argv) \in Nat
         /\ DOMAIN argv = 1..Len(argv)
         /\ OptionPositions \subseteq 1..Len(argv)
         /\ optind \in OptionPositions <=> ~IsWord(Token)
         /\ \A i \in OptionPositions :
              argv[i].text = NoText => i + 1 \notin OptionPositions
<1>1. /\ argv \in Seq(Tokens) /\ Len(argv) \in Nat
      /\ DOMAIN argv = 1..Len(argv) /\ optind \in 1..Len(argv)
  BY DEF PInv, LineTyped, Parsing
<1>2. /\ OptionPositions \subseteq 1..Len(argv)
      /\ Reads(OptionPositions, argv, Len(argv))
  BY <1>1, PositionsRead DEF OptionPositions
<1>3. optind \in OptionPositions <=> ~IsWord(Token)
  BY <1>1, <1>2 DEF Reads, PInv, Boundary, Parsing, Token
<1>4. ASSUME NEW i \in OptionPositions, argv[i].text = NoText,
             i + 1 \in OptionPositions
      PROVE  FALSE
  <2>1. i + 1 \in 1..Len(argv) /\ (i + 1) - 1 = i
    BY <1>1, <1>2, <1>4
  <2> QED
    BY <1>2, <1>4, <2>1 DEF Reads
<1> QED
  BY <1>1, <1>2, <1>3, <1>4

-----------------------------------------------------------------------------
(* The steps of parse_opts                                                 *)

\* A step that only moves on, or ends the parse, keeps the types.
LEMMA StillTyped ==
  ASSUME LineTyped, UNCHANGED <<argv, store>>, optind' \in 1..Len(argv) + 1,
         skipped' \in BOOLEAN, result' \in {"none", "parsing", "true", "false"}
  PROVE  LineTyped'
<1>1. \A o \in Options : Type[o] \notin {"string", "address"} =>
        ValuesOf(Type[o])' = ValuesOf(Type[o])
  BY DEF ValuesOf
<1> QED
  BY <1>1 DEF LineTyped

\* A parse that fails does so on a line that is not well formed, and leaves
\* every variable with an argument it accepts.
LEMMA Fails ==
  ASSUME PInv, result = "parsing", result' = "false", ~WellFormed, LineTyped',
         UNCHANGED <<argv, picked, long_opts_>>,
         \A o \in Options : Type[o] # "address" => store'[o] = store[o]
  PROVE  PInv'
<1>1. /\ WellFormed' <=> WellFormed
      /\ \A o : GivenTo(o)' = GivenTo(o)
      /\ \A i : Given(i)' = Given(i)
      /\ Registered' = Registered
  BY LineKept
<1>2. ASSUME NEW o \in Options, Type[o] # "address", store'[o] # Untouched
      PROVE  \E i \in GivenTo(o) :
               /\ Accepts(Type[o], Given(i))
               /\ store'[o] = Value(Type[o], Given(i))
  <2>1. Stored(o) /\ store'[o] = store[o]
    BY <1>2 DEF PInv, StoredSoFar
  <2> QED
    BY <1>2, <2>1 DEF Stored, GivenSoFar
<1>3. FailureIsClean'
  BY <1>1, <1>2 DEF FailureIsClean, Accepts, IsNumeric, Value
<1>4. ParsedAsRead'
  BY <1>1 DEF ParsedAsRead
<1>5. PickedOfName'
  BY <1>1 DEF PInv, PickedOfName
<1> QED
  BY <1>3, <1>4, <1>5
     DEF PInv, Unparsed, Boundary, ReadSoFar, StoredSoFar

\* The words that are skipped are no arguments, and the line not well formed.
LEMMA SkipKeeps ==
  ASSUME PInv, SkipWord
  PROVE  PInv'
<1>1. /\ result = "parsing" /\ result' = "parsing" /\ skipped' = TRUE
      /\ optind' = optind + 1 /\ IsWord(Token)
      /\ UNCHANGED <<argv, picked, long_opts_, store>>
  BY DEF SkipWord, tables, Parsing
<1>2. /\ optind \in 1..Len(argv) /\ Len(argv) \in Nat
      /\ OptionPositions \subseteq 1..Len(argv)
      /\ optind \notin OptionPositions
  BY <1>1, NextToken DEF SkipWord
<1>3. /\ OptionPositions' = OptionPositions
      /\ \A o : GivenTo(o)' = GivenTo(o)
      /\ \A i : Given(i)' = Given(i)
      /\ \A i : WellAt(i)' <=> WellAt(i)
      /\ Registered' = Registered
  BY <1>1, LineKept
<1>4. ~WellAt(optind)
  BY <1>1, <1>2 DEF WellAt, PInv, Boundary
<1>5. LineTyped'
  <2>1. optind' \in 1..Len(argv) + 1
    BY <1>1, <1>2
  <2> QED
    BY <1>1, <2>1, StillTyped DEF PInv
<1>6. Boundary'
  BY <1>1, <1>2, <1>3 DEF Boundary
<1>7. ReadSoFar'
  <2>1. optind \in 1..optind' - 1
    BY <1>1, <1>2
  <2> QED
    BY <1>1, <1>3, <1>4, <2>1 DEF ReadSoFar
<1>8. ASSUME NEW o \in Options
      PROVE  Stored(o)'
  <2>1. GivenSoFar(o)' = GivenSoFar(o)
    <3>1. \A i \in GivenTo(o) : i < optind + 1 <=> i < optind
      BY <1>2 DEF GivenTo
    <3> QED
      BY <1>1, <1>3, <3>1 DEF GivenSoFar
  <2>2. Stored(o)
    BY <1>1 DEF PInv, StoredSoFar
  <2> QED
    BY <1>1, <1>3, <2>1, <2>2 DEF Stored, Accepts, IsNumeric, Value
<1>9. PickedOfName'
  BY <1>1, <1>3 DEF PInv, PickedOfName
<1> QED
  BY <1>1, <1>5, <1>6, <1>7, <1>8, <1>9
     DEF PInv, Unparsed, StoredSoFar, ParsedAsRead, FailureIsClean

\* An option nobody registered, or that comes last without its argument, is
\* where the line is not well formed.
LEMMA RefuseKeeps ==
  ASSUME PInv, UnknownOption \/ MissingArgument
  PROVE  PInv'
<1>1. /\ Parsing /\ result = "parsing" /\ result' = "false" /\ ~IsWord(Token)
      /\ UNCHANGED <<argv, picked, long_opts_, store, optind, skipped>>
      /\ Token.name \notin DOMAIN picked \/ ~HasArgument
  BY DEF UnknownOption, MissingArgument, tables, Parsing
<1>2. /\ optind \in DOMAIN argv /\ optind \in OptionPositions
  BY <1>1, NextToken
<1>3. ~WellAt(optind)
  BY <1>1, <1>2 DEF WellAt, GivenTo, HasArgument, Token
<1>4. ~WellFormed
  BY <1>2, <1>3, WellFormedIs
<1>5. LineTyped'
  BY <1>1, StillTyped DEF PInv, LineTyped
<1> QED
  BY <1>1, <1>4, <1>5, Fails

\* At the end every argument is stored, unless words are left over.
LEMMA EndKeeps ==
  ASSUME PInv, EndOfLine
  PROVE  PInv'
<1>1. /\ result = "parsing" /\ UNCHANGED <<argv, picked, long_opts_, store,
                                           optind, skipped>>
      /\ result' = IF skipped THEN "false" ELSE "true"
      /\ optind > Len(argv)
  BY DEF EndOfLine, tables
<1>2. /\ optind = Len(argv) + 1 /\ Len(argv) \in Nat
      /\ DOMAIN argv = 1..Len(argv) /\ 1..optind - 1 = DOMAIN argv
  BY <1>1 DEF PInv, LineTyped
<1>3. LineTyped'
  BY <1>1, StillTyped DEF PInv, LineTyped
<1>4. CASE skipped # FALSE
  <2>1. ~WellFormed
    BY <1>1, <1>2, <1>4, WellFormedIs DEF PInv, ReadSoFar
  <2>2. CASE result' = "false"
    BY <1>1, <1>3, <2>1, <2>2, Fails
  <2> QED
    BY <1>1, <1>4, <2>2 DEF PInv, LineTyped
<1>5. CASE skipped = FALSE
  <2>1. WellFormed
    BY <1>1, <1>2, <1>5, WellFormedIs DEF PInv, ReadSoFar
  <2>2. /\ WellFormed' <=> WellFormed
        /\ \A o : GivenTo(o)' = GivenTo(o)
        /\ \A i : Given(i)' = Given(i)
        /\ Registered' = Registered
    BY <1>1, LineKept
  <2>3. ASSUME NEW o \in Options
        PROVE  IF o \in Registered /\ picked[Name[o]] = o /\ GivenTo(o) # {}
                 THEN \E i \in GivenTo(o) :
                        /\ \A j \in GivenTo(o) : j <= i
                        /\ store[o] = Value(Type[o], Given(i))
                 ELSE store[o] = Untouched
    <3>1. GivenSoFar(o) = GivenTo(o)
      <4>1. OptionPositions \subseteq 1..Len(argv)
        BY PositionsRead DEF OptionPositions, PInv, LineTyped
      <4>2. \A i \in GivenTo(o) : i < optind
        BY <1>2, <4>1 DEF GivenTo
      <4> QED
        BY <4>2 DEF GivenSoFar
    <3> QED
      BY <1>1, <3>1 DEF PInv, StoredSoFar, Stored
  <2>4. ParsedAsRead'
    BY <1>1, <1>5, <2>1, <2>2, <2>3 DEF ParsedAsRead, Value
  <2>5. PickedOfName'
    BY <1>1, <2>2 DEF PInv, PickedOfName
  <2> QED
    BY <1>1, <1>3, <1>5, <2>4, <2>5
       DEF PInv, Unparsed, Boundary, ReadSoFar, StoredSoFar, FailureIsClean
<1> QED
  BY <1>4, <1>5

\* fill_arg keeps the variables in their types.
LEMMA FillTyped ==
  ASSUME PInv, NEW o \in Options, NEW text, text.n \in Int,
         store' = [store EXCEPT ![o] = FillArg(o, text)],
         argv' = argv, optind' \in 1..Len(argv) + 1,
         skipped' \in BOOLEAN, result' \in {"none", "parsing", "true", "false"}
  PROVE  LineTyped'
<1>1. DOMAIN store' = Options
  BY DEF PInv, LineTyped
<1>2. \A p : Type[p] \in Types \ {"string", "address"} =>
        ValuesOf(Type[p])' = ValuesOf(Type[p])
  BY DEF ValuesOf
<1>3. ASSUME NEW p \in Options, store'[p] # Untouched,
             Type[p] \notin {"string", "address"}
      PROVE  store'[p] \in ValuesOf(Type[p])
  <2>1. CASE p # o
    <3>1. store'[p] = store[p]
      BY <2>1 DEF PInv, LineTyped
    <3> QED
      BY <1>3, <3>1 DEF PInv, LineTyped
  <2>2. CASE p = o
    <3>1. store'[p] = FillArg(p, text)
      BY <2>2 DEF PInv, LineTyped
    <3>2. Type[p] \in Types \ {"string", "address"}
      BY <1>3, ParserAssumption
    <3>3. Value(Type[p], text) \in ValuesOf(Type[p])
      BY <3>2, ValueTyped
    <3>4. store'[p] = Value(Type[p], text) \/ store'[p] = store[p]
      BY <1>3, <3>1 DEF FillArg
    <3> QED
      BY <1>3, <3>3, <3>4 DEF PInv, LineTyped
  <2> QED
    BY <2>1, <2>2
<1> QED
  BY <1>1, <1>3 DEF PInv, LineTyped, ValuesOf

\* The argument of an option is stored if it accepts it, and the line read on
\* behind it.
LEMMA FillKeeps ==
  ASSUME PInv, FillOption
  PROVE  PInv'
<1> DEFINE k == optind
           o == picked[Token.name]
           text == Taken.text
<1>1. /\ Parsing /\ result = "parsing" /\ ~IsWord(Token)
      /\ Token.name \in DOMAIN picked /\ HasArgument
      /\ UNCHANGED <<argv, picked, long_opts_, skipped>>
      /\ store' = [store EXCEPT ![o] = FillArg(o, text)]
      /\ \/ Accepts(Type[o], text) /\ optind' = Taken.next /\ result' = result
         \/ ~Accepts(Type[o], text) /\ result' = "false" /\ optind' = optind
  BY DEF FillOption, tables, Parsing
<1>2. /\ k \in 1..Len(argv) /\ Len(argv) \in Nat /\ DOMAIN argv = 1..Len(argv)
      /\ OptionPositions \subseteq 1..Len(argv)
      /\ k \in OptionPositions
      /\ argv[k].text = NoText => k + 1 \notin OptionPositions
  BY <1>1, NextToken
<1>3. /\ o \in Registered /\ o \in Options /\ Name[o] = argv[k].name
      /\ Registered \subseteq Options
  BY <1>1 DEF PInv, PickedOfName, Token
<1>4. k \in GivenTo(o) /\ text = Given(k)
  BY <1>1, <1>2, <1>3 DEF GivenTo, HasArgument, Token, Taken, Given
<1>5. /\ Taken.next = IF argv[k].text # NoText THEN k + 1 ELSE k + 2
      /\ Taken.next \in 1..Len(argv) + 1
  BY <1>1, <1>2 DEF Taken, HasArgument, Token
<1>6. text.n \in Int
  <2>1. \A i \in DOMAIN argv : argv[i].text.n \in Int
    BY ParserAssumption DEF PInv, LineTyped
  <2>2. Other.n \in Int
    BY DEF Other
  <2> QED
    BY <1>1, <1>2, <2>1, <2>2 DEF Taken, AsText, HasArgument, Token
<1> HIDE DEF o, text
<1>7. LineTyped'
  BY <1>1, <1>3, <1>5, <1>6, FillTyped DEF PInv, LineTyped
<1>8. CASE ~Accepts(Type[o], text) /\ result' = "false"
  <2>1. ~WellAt(k)
    BY <1>2, <1>4, <1>8 DEF WellAt, o, Token
  <2>2. ~WellFormed
    BY <1>2, <2>1, WellFormedIs
  <2>3. \A p \in Options : Type[p] # "address" => store'[p] = store[p]
    BY <1>1, <1>8 DEF FillArg, PInv, LineTyped
  <2> QED
    BY <1>1, <1>7, <1>8, <2>2, <2>3, Fails
<1>9. CASE /\ Accepts(Type[o], text) /\ optind' = Taken.next
           /\ result' = "parsing"
  <2>1. /\ OptionPositions' = OptionPositions
        /\ \A p : GivenTo(p)' = GivenTo(p)
        /\ \A i : Given(i)' = Given(i)
        /\ \A i : WellAt(i)' <=> WellAt(i)
        /\ Registered' = Registered
    BY <1>1, LineKept
  <2>2. \A i \in OptionPositions : i < optind' <=> i < k \/ i = k
    BY <1>2, <1>5, <1>9
  <2>3. Boundary'
    BY <1>1, <1>2, <1>5, <1>9, <2>1 DEF Boundary
  <2>4. WellAt(k)
    BY <1>1, <1>2, <1>4, <1>9 DEF WellAt, o, Token
  <2>5. ReadSoFar'
    <3>1. ASSUME NEW i \in 1..optind' - 1, i \notin 1..k - 1
          PROVE  WellAt(i)
      <4>1. i = k \/ (i = k + 1 /\ argv[k].text = NoText)
        BY <1>2, <1>5, <1>9, <3>1
      <4>2. CASE i = k + 1 /\ argv[k].text = NoText
        <5>1. i - 1 = k
          BY <1>2, <4>2
        <5> QED
          BY <1>2, <4>2, <5>1 DEF WellAt
      <4> QED
        BY <2>4, <4>1, <4>2
    <3>2. 1..k - 1 \subseteq 1..optind' - 1
      BY <1>2, <1>5, <1>9
    <3>3. IF skipped = FALSE THEN \A i \in 1..k - 1 : WellAt(i)
          ELSE \E i \in 1..k - 1 : ~WellAt(i)
      BY <1>1 DEF PInv, ReadSoFar
    <3> QED
      BY <1>1, <2>1, <3>1, <3>2, <3>3 DEF ReadSoFar
  <2>6. ASSUME NEW p \in Options
        PROVE  Stored(p)'
    <3>1. GivenSoFar(p)' = GivenSoFar(p) \cup ({k} \cap GivenTo(p))
      <4>1. GivenTo(p) \subseteq OptionPositions
        BY DEF GivenTo
      <4>2. GivenSoFar(p)' = {i \in GivenTo(p) : i < optind'}
        BY <2>1 DEF GivenSoFar
      <4> QED
        BY <2>2, <4>1, <4>2 DEF GivenSoFar
    <3>2. Stored(p)
      BY <1>1 DEF PInv, StoredSoFar
    <3>3. CASE p # o
      <4>1. store'[p] = store[p]
        BY <1>1, <3>3 DEF PInv, LineTyped
      <4>2. CASE k \in GivenTo(p)
        <5>1. Name[p] = Token.name
          BY <4>2 DEF GivenTo, Token
        <5>2. picked[Name[p]] # p
          BY <3>3, <5>1 DEF o
        <5> QED
          BY <1>1, <2>1, <3>2, <4>1, <5>2 DEF Stored
      <4>3. CASE k \notin GivenTo(p)
        <5>1. GivenSoFar(p)' = GivenSoFar(p)
          BY <3>1, <4>3
        <5> QED
          BY <1>1, <2>1, <3>2, <4>1, <5>1
             DEF Stored, Accepts, IsNumeric, Value
      <4> QED
        BY <4>2, <4>3
    <3>4. CASE p = o
      <4>1. /\ k \in GivenSoFar(p)'
            /\ \A j \in GivenSoFar(p)' : j <= k
        <5>1. \A j \in GivenSoFar(p) : j <= k
          BY <1>2 DEF GivenSoFar, GivenTo
        <5> QED
          BY <1>2, <1>4, <3>1, <3>4, <5>1
      <4>2. store'[p] = Value(Type[p], Given(k)) /\ Accepts(Type[p], Given(k))
        BY <1>1, <1>3, <1>4, <1>9, <3>4 DEF FillArg, PInv, LineTyped
      <4>3. p \in Registered /\ picked[Name[p]] = p
        BY <1>3, <3>4 DEF o, Token
      <4> QED
        BY <1>1, <2>1, <4>1, <4>2, <4>3
           DEF Stored, Accepts, IsNumeric, Value
    <3> QED
      BY <3>3, <3>4
  <2>7. PickedOfName'
    BY <1>1, <2>1 DEF PInv, PickedOfName
  <2> QED
    BY <1>7, <1>9, <2>3, <2>5, <2>6, <2>7
       DEF PInv, Unparsed, StoredSoFar, ParsedAsRead, FailureIsClean
<1> QED
  BY <1>1, <1>8, <1>9

-----------------------------------------------------------------------------
(* The theorems                                                            *)

\* At first nothing is parsed, and so nothing can be wrong.
LEMMA InitKeeps == Init => PInv
<1> SUFFICES ASSUME Init PROVE PInv
  OBVIOUS
<1>1. /\ argv = <<>> /\ optind = 1 /\ skipped = FALSE /\ result = "none"
      /\ store = [o \in Options |-> Untouched]
  BY DEF Init
<1>2. LineTyped
  <2>1. <<>> \in Seq(Tokens) /\ Len(<<>>) = 0 /\ 1 \in 1..0 + 1
    OBVIOUS
  <2> QED
    BY <1>1, <2>1 DEF LineTyped
<1> QED
  BY <1>1, <1>2
     DEF PInv, PickedOfName, Unparsed, Boundary, ReadSoFar, StoredSoFar,
         ParsedAsRead, FailureIsClean

\* When a parse begins nothing of its line is read, and the options it can
\* find are registered.
LEMMA ParseKeeps ==
  ASSUME Numbered, PInv, NEW line \in Lines, Parse(line)
  PROVE  PInv'
<1>1. /\ result = "none" /\ argv' = line /\ result' = "parsing"
      /\ UNCHANGED <<store, optind, skipped, long_opts_>>
      /\ picked' \in
           {f \in [{Name[o] : o \in Registered} -> Registered] :
              \A name \in DOMAIN f : Name[f[name]] = name}
  BY DEF Parse, tables
<1>2. /\ optind = 1 /\ skipped = FALSE
      /\ \A o \in Options : store[o] = Untouched
  BY <1>1 DEF PInv, Unparsed
<1>3. /\ line \in Seq(Tokens) /\ Len(line) \in Nat
  BY ParserAssumption DEF ParserAssumption
<1>4. OptionPositions' \subseteq 1..Len(line)
  BY <1>1, <1>3, PositionsRead DEF OptionPositions
<1>5. LineTyped'
  BY <1>1, <1>2, <1>3 DEF PInv, LineTyped
<1>6. PickedOfName'
  <2>1. Registered' = Registered /\ Registered \subseteq Options
    BY <1>1 DEF Registered, Numbered, ToSet
  <2> QED
    BY <1>1, <2>1 DEF PickedOfName
<1>7. Boundary'
  BY <1>1, <1>2, <1>4 DEF Boundary
<1>8. ReadSoFar'
  BY <1>1, <1>2 DEF ReadSoFar
<1>9. ASSUME NEW o \in Options
      PROVE  Stored(o)'
  <2>1. GivenSoFar(o)' = {}
    <3>1. \A i \in OptionPositions' : ~(i < optind')
      BY <1>1, <1>2, <1>3, <1>4
    <3> QED
      BY <3>1 DEF GivenSoFar, GivenTo
  <2> QED
    BY <1>1, <1>2, <2>1 DEF Stored
<1> QED
  BY <1>1, <1>5, <1>6, <1>7, <1>8, <1>9
     DEF PInv, Unparsed, StoredSoFar, ParsedAsRead, FailureIsClean

\* The tables only change before a parse begins.
LEMMA IdleKeeps ==
  ASSUME PInv, UNCHANGED parsing, result = "none"
  PROVE  PInv'
<1>1. UNCHANGED <<store, argv, optind, skipped, picked, result>>
  BY DEF parsing
<1>2. \A o : ValuesOf(Type[o])' = ValuesOf(Type[o])
  BY DEF ValuesOf
<1> QED
  BY <1>1, <1>2
     DEF PInv, LineTyped, PickedOfName, Unparsed, Boundary, ReadSoFar,
         StoredSoFar, ParsedAsRead, FailureIsClean

\* What holds of a state holds as long as nothing changes.
LEMMA StutterKeeps ==
  ASSUME PInv, UNCHANGED vars
  PROVE  PInv'
<1>1. UNCHANGED <<long_opts_, store, argv, optind, skipped, picked, result>>
  BY DEF vars
<1>2. /\ OptionPositions' = OptionPositions
      /\ \A i : Given(i)' = Given(i)
      /\ \A o : GivenTo(o)' = GivenTo(o)
      /\ \A i : WellAt(i)' <=> WellAt(i)
      /\ WellFormed' <=> WellFormed
      /\ Registered' = Registered
  BY <1>1, LineKept
<1>3. LineTyped' /\ Unparsed' /\ PickedOfName'
  <2>1. \A o : ValuesOf(Type[o])' = ValuesOf(Type[o])
    BY DEF ValuesOf
  <2> QED
    BY <1>1, <1>2, <2>1 DEF PInv, LineTyped, Unparsed, PickedOfName
<1>4. Boundary' /\ ReadSoFar'
  BY <1>1, <1>2 DEF PInv, Boundary, ReadSoFar
<1>5. StoredSoFar'
  <2>1. \A o : GivenSoFar(o)' = GivenSoFar(o)
    BY <1>1, <1>2 DEF GivenSoFar
  <2>2. ASSUME NEW o \in Options
        PROVE  Stored(o)' <=> Stored(o)
    BY <1>1, <1>2, <2>1 DEF Stored, Accepts, IsNumeric, Value
  <2> QED
    BY <1>1, <2>2 DEF PInv, StoredSoFar
<1>6. ParsedAsRead'
  BY <1>1, <1>2 DEF PInv, ParsedAsRead, Value
<1>7. FailureIsClean'
  BY <1>1, <1>2 DEF PInv, FailureIsClean, Accepts, IsNumeric, Value
<1> QED
  BY <1>3, <1>4, <1>5, <1>6, <1>7 DEF PInv

\* Every state of the parser is as PInv says.
LEMMA ParserInvariant == Spec => [](Numbered /\ PInv)
<1>1. ASSUME Numbered, PInv, [Next]_vars
      PROVE  PInv'
  <2>1. ASSUME NEW o \in Options, AddLongOpt(o)
        PROVE  PInv'
    BY <1>1, <2>1, IdleKeeps DEF AddLongOpt
  <2>2. CASE Clear
    BY <1>1, <2>2, IdleKeeps DEF Clear
  <2>3. CASE PrintUsage
    BY <1>1, <2>3, IdleKeeps DEF PrintUsage
  <2>4. ASSUME NEW line \in Lines, Parse(line)
        PROVE  PInv'
    BY <1>1, <2>4, ParseKeeps
  <2>5. CASE SkipWord
    BY <1>1, <2>5, SkipKeeps
  <2>6. CASE UnknownOption
    BY <1>1, <2>6, RefuseKeeps
  <2>7. CASE FillOption
    BY <1>1, <2>7, FillKeeps
  <2>8. CASE MissingArgument
    BY <1>1, <2>8, RefuseKeeps
  <2>9. CASE EndOfLine
    BY <1>1, <2>9, EndKeeps
  <2>10. CASE UNCHANGED vars
    BY <1>1, <2>10, StutterKeeps
  <2> QED
    BY <1>1, <2>1, <2>2, <2>3, <2>4, <2>5, <2>6, <2>7, <2>8, <2>9, <2>10
       DEF Next, ParseOpts
<1> QED
  BY <1>1, InitKeeps, NumberedInvariant, PTL DEF Spec

\* The tables only have options, and the variable of an option only values of
\* its type: the conversions of fill_arg never leave it.
THEOREM TypeCorrect == Spec => []TypeOK
<1>1. Numbered /\ PInv => TypeOK
  <2> SUFFICES ASSUME Numbered, PInv PROVE TypeOK
    OBVIOUS
  <2>1. Registered = ToSet(added) /\ ToSet(added) \subseteq Options
    BY DEF Numbered, Registered, ToSet
  <2>2. ToSet(ex_long_opts_) \subseteq Options
    BY <2>1 DEF Numbered, ToSet
  <2> QED
    BY <2>1, <2>2 DEF Numbered, PInv, LineTyped, TypeOK
<1> QED
  BY <1>1, ParserInvariant, PTL

\* parse_opts succeeds on exactly the well-formed lines and then has stored the
\* last argument of every option that was given, and nothing else.
THEOREM LinesParsedAsRead == Spec => []ParsedAsRead
<1>1. PInv => ParsedAsRead
  BY DEF PInv
<1> QED
  BY <1>1, ParserInvariant, PTL

\* A parse that fails leaves nothing half converted but an address.
THEOREM FailuresAreClean == Spec => []FailureIsClean
<1>1. PInv => FailureIsClean
  BY DEF PInv
<1> QED
  BY <1>1, ParserInvariant, PTL

\* A number in the range of its variable is stored as it was written, for every
\* width of the integers.
THEOREM NumbersAreExact == Spec => []NumbersExact
<1>1. PInv => NumbersExact
  <2> SUFFICES ASSUME PInv, result = "true",
                      NEW o \in Registered,
                      Type[o] \notin {"bool", "string", "address"},
                      store[o] # Untouched,
                      NEW i \in GivenTo(o), \A j \in GivenTo(o) : j <= i,
                      Given(i).n \in ValuesOf(Type[o])
               PROVE  store[o] = Given(i).n
    BY DEF NumbersExact
  <2>1. o \in Options /\ Type[o] \in Numeric
    BY ParserAssumption
       DEF PInv, PickedOfName, ParserAssumption, Types, Numeric
  <2>2. PICK k \in GivenTo(o) :
          /\ \A j \in GivenTo(o) : j <= k
          /\ store[o] = Value(Type[o], Given(k))
    BY <2>1 DEF PInv, ParsedAsRead
  <2>3. GivenTo(o) \subseteq 1..Len(argv) /\ Len(argv) \in Nat
        /\ DOMAIN argv = 1..Len(argv)
    BY PositionsRead DEF GivenTo, OptionPositions, PInv, LineTyped
  <2>4. k = i
    BY <2>2, <2>3
  <2>5. Given(i).n \in Int
    <3>1. \A j \in DOMAIN argv : argv[j].text.n \in Int
      BY ParserAssumption DEF ParserAssumption, PInv, LineTyped
    <3>2. Other.n \in Int
      BY DEF Other
    <3> QED
      BY <2>3, <3>1, <3>2 DEF Given, AsText, GivenTo
  <2> QED
    BY <2>1, <2>2, <2>4, <2>5, ValueExact
<1> QED
  BY <1>1, ParserInvariant, PTL
=============================================================================
