------------------------------ MODULE ListLemmas ------------------------------
(***************************************************************************)
(* Lemmas about the naturals and about FlattenSeq that the proofs about    *)
(* the sensors proxy share.  Inductions go through the least element of a  *)
(* set of counterexamples.                                                 *)
(***************************************************************************)
EXTENDS Integers, SequencesExt, SequenceTheorems, WellFoundedInduction, TLAPS

Less == OpToRel(<, Nat)

\* Every set of naturals has a least element: for inductions.
LEMMA LeastNatural ==
    ASSUME NEW T, T \subseteq Nat, T # {}
    PROVE  \E x \in T : \A y \in T : x <= y
<1>1. IsWellFoundedOn(Less, Nat)
  BY NatLessThanWellFounded, Zenon DEF Less
<1>2. \A x, y \in Nat : x < y => <<x, y>> \in Less
  BY DEF Less, OpToRel
<1>3. PICK x \in T : \A y \in T : ~(<<y, x>> \in Less)
  BY <1>1, WFMin
<1>4. ASSUME NEW y \in T PROVE x <= y
  <2>1. x \in Nat /\ y \in Nat /\ ~(y < x)
    BY <1>2, <1>3
  <2>2. QED
    BY <2>1
<1>5. QED
  BY <1>4

-----------------------------------------------------------------------------
(* FlattenSeq. *)

\* The function that FlattenSeq defines, on the first n sequences.
FlattensUpTo(seqs, n, f) ==
    f = [i \in 1 .. n |-> IF i = 1 THEN seqs[i] ELSE f[i - 1] \o seqs[i]]

\* Its values.
LEMMA FlattensAt ==
    ASSUME NEW seqs, NEW n, NEW f, FlattensUpTo(seqs, n, f), NEW i \in 1 .. n
    PROVE  f[i] = IF i = 1 THEN seqs[i] ELSE f[i - 1] \o seqs[i]
BY Zenon DEF FlattensUpTo

\* There is at most one such function.
LEMMA FlattensOnce ==
    ASSUME NEW seqs, NEW n \in Nat, NEW f, NEW g,
           FlattensUpTo(seqs, n, f), FlattensUpTo(seqs, n, g)
    PROVE  f = g
<1> DEFINE Differ == {i \in 1 .. n : f[i] # g[i]}
<1>1. CASE Differ = {}
  <2>1. \A i \in 1 .. n : f[i] = g[i]
    BY <1>1
  <2>2. QED
    BY <2>1 DEF FlattensUpTo
<1>2. CASE Differ # {}
  <2>1. Differ \subseteq Nat
    OBVIOUS
  <2>2. PICK i \in Differ : \A j \in Differ : i <= j
    <3> HIDE DEF Differ
    <3>1. QED
      BY <1>2, <2>1, LeastNatural
  <2>3. CASE i = 1
    BY <2>2, <2>3 DEF FlattensUpTo
  <2>4. CASE i # 1
    <3>1. i - 1 \in 1 .. n /\ i - 1 \notin Differ
      BY <2>2, <2>4
    <3>2. f[i] = f[i - 1] \o seqs[i] /\ g[i] = g[i - 1] \o seqs[i]
      BY <2>2, <2>4 DEF FlattensUpTo
    <3>3. QED
      BY <2>2, <3>1, <3>2
  <2>5. QED
    BY <2>3, <2>4
<1>3. QED
  BY <1>1, <1>2

\* There is one, and its values are sequences.
LEMMA FlattensExists ==
    ASSUME NEW S, NEW seqs \in Seq(Seq(S)), NEW n \in 0 .. Len(seqs)
    PROVE  \E f : FlattensUpTo(seqs, n, f) /\ \A i \in 1 .. n : f[i] \in Seq(S)
<1> DEFINE Good(k, f) == FlattensUpTo(seqs, k, f) /\ \A i \in 1 .. k : f[i] \in Seq(S)
<1>1. Len(seqs) \in Nat /\ \A i \in 1 .. Len(seqs) : seqs[i] \in Seq(S)
  OBVIOUS
<1>2. \E f : Good(0, f)
  <2> DEFINE f == [i \in 1 .. 0 |-> seqs]
  <2>1. Good(0, f)
    BY DEF FlattensUpTo
  <2>2. QED
    BY <2>1
<1>3. ASSUME NEW k \in Nat, k < Len(seqs), NEW f, Good(k, f)
      PROVE  \E g : Good(k + 1, g)
  <2> DEFINE last == IF k = 0 THEN seqs[1] ELSE f[k] \o seqs[k + 1]
             g == [i \in 1 .. k + 1 |-> IF i <= k THEN f[i] ELSE last]
  <2>1. last \in Seq(S)
    BY <1>1, <1>3
  <2>2. \A i \in 1 .. k + 1 : g[i] \in Seq(S)
    BY <1>3, <2>1
  <2>3. ASSUME NEW i \in 1 .. k + 1 PROVE g[i] = IF i = 1 THEN seqs[i] ELSE g[i - 1] \o seqs[i]
    <3>1. CASE i = k + 1
      BY <1>1, <1>3, <3>1
    <3>2. CASE i # k + 1
      <4>1. i \in 1 .. k /\ g[i] = f[i] /\ (i # 1 => g[i - 1] = f[i - 1])
        BY <1>3, <3>2
      <4>2. f[i] = IF i = 1 THEN seqs[i] ELSE f[i - 1] \o seqs[i]
        BY <1>3, <4>1 DEF FlattensUpTo
      <4>3. QED
        BY <4>1, <4>2
    <3>3. QED
      BY <3>1, <3>2
  <2>4. FlattensUpTo(seqs, k + 1, g)
    BY <2>3 DEF FlattensUpTo
  <2>5. QED
    BY <2>2, <2>4
<1>4. \E f : Good(n, f)
  <2> DEFINE Bad == {k \in Nat : k <= Len(seqs) /\ ~ \E f : Good(k, f)}
  <2> HIDE DEF Good
  <2>1. SUFFICES ASSUME Bad # {} PROVE FALSE
    BY <1>1
  <2>2. PICK k \in Bad : \A m \in Bad : k <= m
    BY <2>1, LeastNatural
  <2>3. k # 0 /\ k \in Nat /\ k <= Len(seqs)
    BY <1>2, <2>2
  <2>4. k - 1 \in Nat /\ k - 1 < Len(seqs) /\ k - 1 \notin Bad
    <3>1. k - 1 \in Nat /\ k - 1 < Len(seqs)
      BY <1>1, <2>3
    <3>2. ~(k <= k - 1)
      BY <2>3
    <3>3. QED
      BY <2>2, <3>1, <3>2
  <2>5. PICK f : Good(k - 1, f)
    BY <1>1, <2>4
  <2>6. \E g : Good((k - 1) + 1, g)
    BY <1>3, <2>4, <2>5
  <2>7. QED
    BY <2>2, <2>3, <2>6
<1>5. QED
  BY <1>4

\* What FlattenSeq returns.
LEMMA FlattenIs ==
    ASSUME NEW S, NEW seqs \in Seq(Seq(S)), Len(seqs) > 0,
           NEW f, FlattensUpTo(seqs, Len(seqs), f)
    PROVE  FlattenSeq(seqs) = f[Len(seqs)]
<1>1. Len(seqs) \in Nat /\ Len(seqs) # 0
  OBVIOUS
<1>2. f = CHOOSE g : FlattensUpTo(seqs, Len(seqs), g)
  BY <1>1, FlattensOnce
<1>3. FlattenSeq(seqs) = (CHOOSE g : FlattensUpTo(seqs, Len(seqs), g))[Len(seqs)]
  BY <1>1, Zenon DEF FlattenSeq, FlattensUpTo
<1>4. QED
  BY <1>2, <1>3

\* FlattenSeq returns a sequence.
LEMMA FlattenType ==
    ASSUME NEW S, NEW seqs \in Seq(Seq(S))
    PROVE  FlattenSeq(seqs) \in Seq(S) /\ (Len(seqs) = 0 => FlattenSeq(seqs) = <<>>)
<1>1. Len(seqs) \in Nat
  OBVIOUS
<1>2. CASE Len(seqs) = 0
  <2>1. seqs = <<>>
    BY <1>2
  <2>2. FlattenSeq(seqs) = <<>>
    BY <1>2, <2>1, Zenon DEF FlattenSeq
  <2>3. QED
    BY <2>2
<1>3. CASE Len(seqs) # 0
  <2>1. PICK f : FlattensUpTo(seqs, Len(seqs), f) /\ \A i \in 1 .. Len(seqs) : f[i] \in Seq(S)
    BY <1>1, FlattensExists
  <2>2. FlattenSeq(seqs) = f[Len(seqs)]
    BY <1>1, <1>3, <2>1, FlattenIs
  <2>3. QED
    BY <1>1, <1>3, <2>1, <2>2
<1>4. QED
  BY <1>2, <1>3

\* One more sequence at the end.
LEMMA FlattenAppend ==
    ASSUME NEW S, NEW seqs \in Seq(Seq(S)), NEW s \in Seq(S)
    PROVE  FlattenSeq(Append(seqs, s)) = FlattenSeq(seqs) \o s
<1> DEFINE n == Len(seqs)
           more == Append(seqs, s)
<1>1. n \in Nat /\ more \in Seq(Seq(S)) /\ Len(more) = n + 1 /\ more[n + 1] = s
      /\ \A i \in 1 .. n : more[i] = seqs[i]
  OBVIOUS
<1> HIDE DEF more
<1>2. PICK g : FlattensUpTo(more, n + 1, g) /\ \A i \in 1 .. n + 1 : g[i] \in Seq(S)
  BY <1>1, FlattensExists
<1>3. FlattenSeq(more) = g[n + 1]
  BY <1>1, <1>2, FlattenIs
<1>4. CASE n = 0
  <2>1. g[n + 1] = s
    BY <1>1, <1>2, <1>4 DEF FlattensUpTo
  <2>2. FlattenSeq(seqs) = <<>>
    BY <1>4, FlattenType
  <2>3. QED
    BY <1>3, <2>1, <2>2 DEF more
<1>5. CASE n # 0
  <2>1. PICK f : FlattensUpTo(seqs, n, f) /\ \A i \in 1 .. n : f[i] \in Seq(S)
    BY <1>1, FlattensExists
  <2> DEFINE h == [i \in 1 .. n |-> g[i]]
  <2>2. ASSUME NEW i \in 1 .. n PROVE h[i] = IF i = 1 THEN seqs[i] ELSE h[i - 1] \o seqs[i]
    <3>1. g[i] = IF i = 1 THEN more[i] ELSE g[i - 1] \o more[i]
      <4>1. i \in 1 .. n + 1
        BY <1>1
      <4>2. QED
        BY <1>2, <4>1, FlattensAt
    <3>2. h[i] = g[i] /\ (i # 1 => h[i - 1] = g[i - 1])
      BY <1>1
    <3>3. QED
      BY <1>1, <3>1, <3>2
  <2>3. FlattensUpTo(seqs, n, h)
    BY <2>2 DEF FlattensUpTo
  <2>4. h = f
    BY <1>1, <2>1, <2>3, FlattensOnce
  <2>5. g[n] = FlattenSeq(seqs)
    <3>1. h[n] = g[n]
      BY <1>1, <1>5
    <3>2. FlattenSeq(seqs) = f[n]
      <4>1. Len(seqs) > 0
        BY <1>1, <1>5
      <4>2. QED
        BY <2>1, <4>1, FlattenIs
    <3>3. QED
      BY <2>4, <3>1, <3>2
  <2>6. g[n + 1] = g[n] \o s
    <3>1. n + 1 \in 1 .. n + 1 /\ n + 1 # 1 /\ (n + 1) - 1 = n
      BY <1>1, <1>5
    <3>2. ASSUME NEW i \in 1 .. n + 1, i # 1 PROVE g[i] = g[i - 1] \o more[i]
      BY <1>2, <3>2, Zenon DEF FlattensUpTo
    <3>3. g[n + 1] = g[(n + 1) - 1] \o more[n + 1]
      BY <3>1, <3>2, Zenon
    <3>4. QED
      BY <1>1, <3>1, <3>3
  <2>7. QED
    BY <1>3, <2>5, <2>6 DEF more
<1>6. QED
  BY <1>4, <1>5

\* The first sequence comes first.
LEMMA FlattenHead ==
    ASSUME NEW S, NEW seqs \in Seq(Seq(S)), seqs # <<>>
    PROVE  FlattenSeq(seqs) = Head(seqs) \o FlattenSeq(Tail(seqs))
<1> DEFINE n == Len(seqs)
           rest == Tail(seqs)
<1>1. /\ n \in Nat /\ n > 0 /\ rest \in Seq(Seq(S)) /\ Len(rest) = n - 1
      /\ \A i \in 1 .. n - 1 : rest[i] = seqs[i + 1]
      /\ \A i \in 1 .. n : seqs[i] \in Seq(S)
      /\ Head(seqs) = seqs[1]
  OBVIOUS
<1> HIDE DEF rest
<1>2. PICK f : FlattensUpTo(seqs, n, f) /\ \A i \in 1 .. n : f[i] \in Seq(S)
  BY <1>1, FlattensExists
<1>3. FlattenSeq(seqs) = f[n]
  BY <1>1, <1>2, FlattenIs
<1>4. CASE n = 1
  <2>1. f[n] = seqs[1]
    BY <1>2, <1>4 DEF FlattensUpTo
  <2>2. FlattenSeq(rest) = <<>>
    <3>1. Len(rest) = 0
      BY <1>1, <1>4
    <3>2. QED
      BY <1>1, <3>1, FlattenType
  <2>3. seqs[1] \o <<>> = seqs[1]
    BY <1>1
  <2>4. QED
    BY <1>1, <1>3, <2>1, <2>2, <2>3 DEF rest
<1>5. CASE n # 1
  <2>1. PICK g : FlattensUpTo(rest, n - 1, g) /\ \A i \in 1 .. n - 1 : g[i] \in Seq(S)
    BY <1>1, FlattensExists
  <2>2. FlattenSeq(rest) = g[n - 1]
    BY <1>1, <1>5, <2>1, FlattenIs
  <2> DEFINE Bad == {i \in 1 .. n - 1 : f[i + 1] # seqs[1] \o g[i]}
  <2>3. CASE Bad = {}
    <3>1. n - 1 \in 1 .. n - 1 /\ (n - 1) + 1 = n
      BY <1>1, <1>5
    <3>2. f[n] = seqs[1] \o g[n - 1]
      BY <2>3, <3>1
    <3>3. QED
      BY <1>1, <1>3, <2>2, <3>2 DEF rest
  <2>4. CASE Bad # {}
    <3>1. Bad \subseteq Nat
      <4>1. 1 .. n - 1 \subseteq Nat
        BY <1>1
      <4>2. QED
        BY <4>1
    <3>2. PICK i \in Bad : \A j \in Bad : i <= j
      <4> HIDE DEF Bad
      <4>1. QED
        BY <2>4, <3>1, LeastNatural
    <3>3. i \in 1 .. n - 1 /\ f[i + 1] # seqs[1] \o g[i]
      BY <3>2
    <3>4. f[i + 1] = f[i] \o rest[i] /\ rest[i] \in Seq(S)
      <4>1. i + 1 \in 1 .. n /\ i + 1 # 1 /\ (i + 1) - 1 = i
        BY <1>1, <3>3
      <4>2. f[i + 1] = f[(i + 1) - 1] \o seqs[i + 1]
        BY <1>2, <4>1 DEF FlattensUpTo
      <4>3. QED
        BY <1>1, <3>3, <4>1, <4>2
    <3>5. CASE i = 1
      <4>1. f[1] = seqs[1] /\ g[1] = rest[1]
        <5>1. 1 \in 1 .. n /\ 1 \in 1 .. n - 1
          BY <1>1, <1>5
        <5>2. f[1] = IF 1 = 1 THEN seqs[1] ELSE f[1 - 1] \o seqs[1]
          BY <1>2, <5>1, FlattensAt
        <5>3. g[1] = IF 1 = 1 THEN rest[1] ELSE g[1 - 1] \o rest[1]
          BY <2>1, <5>1, FlattensAt
        <5>4. QED
          BY <5>2, <5>3, Zenon
      <4>2. QED
        BY <3>3, <3>4, <3>5, <4>1
    <3>6. CASE i # 1
      <4>1. i - 1 \in 1 .. n - 1 /\ ~(i <= i - 1) /\ (i - 1) + 1 = i
        BY <1>1, <3>3, <3>6
      <4>2. i - 1 \notin Bad
        BY <3>2, <4>1
      <4>3. f[i] = seqs[1] \o g[i - 1]
        BY <4>1, <4>2
      <4>4. g[i] = g[i - 1] \o rest[i]
        BY <2>1, <3>3, <3>6 DEF FlattensUpTo
      <4>5. g[i - 1] \in Seq(S) /\ seqs[1] \in Seq(S)
        BY <1>1, <2>1, <4>1
      <4>6. (seqs[1] \o g[i - 1]) \o rest[i] = seqs[1] \o (g[i - 1] \o rest[i])
        <5>1. ASSUME NEW s \in Seq(S), NEW t \in Seq(S), NEW u \in Seq(S)
              PROVE  (s \o t) \o u = s \o (t \o u)
          OBVIOUS
        <5>2. QED
          BY <3>4, <4>5, <5>1, Zenon
      <4>7. QED
        BY <3>3, <3>4, <4>3, <4>4, <4>6
    <3>7. QED
      BY <3>5, <3>6
  <2>5. QED
    BY <2>3, <2>4
<1>6. QED
  BY <1>1, <1>4, <1>5


-----------------------------------------------------------------------------
(* Taking sequences apart. *)

\* A sequence is its first k elements and the rest.
LEMMA Split ==
    ASSUME NEW S, NEW s \in Seq(S), NEW k \in 0 .. Len(s)
    PROVE  /\ SubSeq(s, 1, k) \in Seq(S) /\ Len(SubSeq(s, 1, k)) = k
           /\ SubSeq(s, k + 1, Len(s)) \in Seq(S) /\ Len(SubSeq(s, k + 1, Len(s))) = Len(s) - k
           /\ s = SubSeq(s, 1, k) \o SubSeq(s, k + 1, Len(s))
<1>1. /\ SubSeq(s, 1, k) \in Seq(S) /\ Len(SubSeq(s, 1, k)) = k
      /\ SubSeq(s, k + 1, Len(s)) \in Seq(S) /\ Len(SubSeq(s, k + 1, Len(s))) = Len(s) - k
  OBVIOUS
<1>2. 1 \in 1 .. Len(s) + 1 /\ k \in 1 - 1 .. Len(s) /\ Len(s) \in k .. Len(s)
  OBVIOUS
<1>3. SubSeq(s, 1, k) \o SubSeq(s, k + 1, Len(s)) = SubSeq(s, 1, Len(s))
  BY <1>2, ConcatAdjacentSubSeq
<1>4. QED
  BY <1>1, <1>3, SubSeqFull

\* What is left of a concatenation without the first k elements.
LEMMA DropConcat ==
    ASSUME NEW S, NEW s \in Seq(S), NEW t \in Seq(S), NEW k \in 0 .. Len(s)
    PROVE  SubSeq(s \o t, k + 1, Len(s \o t)) = SubSeq(s, k + 1, Len(s)) \o t
<1> DEFINE b == SubSeq(s, k + 1, Len(s))
           st == s \o t
           d == SubSeq(st, k + 1, Len(st))
<1>1. /\ b \in Seq(S) /\ Len(b) = Len(s) - k
      /\ \A i \in 1 .. Len(s) - k : b[i] = s[k + i]
  OBVIOUS
<1>2. /\ st \in Seq(S) /\ Len(st) = Len(s) + Len(t)
      /\ \A i \in 1 .. Len(s) : st[i] = s[i]
      /\ \A i \in 1 .. Len(t) : st[Len(s) + i] = t[i]
  OBVIOUS
<1> HIDE DEF st, b
<1>3. /\ d \in Seq(S) /\ Len(d) = Len(st) - k
      /\ \A i \in 1 .. Len(st) - k : d[i] = st[k + i]
  BY <1>2
<1> HIDE DEF d
<1>4. b \o t \in Seq(S) /\ Len(b \o t) = Len(d)
  <2>1. b \o t \in Seq(S) /\ Len(b \o t) = Len(b) + Len(t)
    BY <1>1, ConcatProperties
  <2>2. QED
    BY <1>1, <1>2, <1>3, <2>1
<1>5. ASSUME NEW i \in 1 .. Len(d) PROVE (b \o t)[i] = d[i]
  <2>1. CASE i <= Len(b)
    <3>1. (b \o t)[i] = b[i] /\ b[i] = s[k + i] /\ k + i \in 1 .. Len(s)
      BY <1>1, <2>1
    <3>2. QED
      BY <1>2, <1>3, <3>1
  <2>2. CASE ~(i <= Len(b))
    <3>1. (b \o t)[i] = t[i - Len(b)] /\ i - Len(b) \in 1 .. Len(t)
      BY <1>1, <1>2, <1>3, <2>2
    <3>2. k + i = Len(s) + (i - Len(b))
      BY <1>1, <1>2, <1>3
    <3>3. QED
      BY <1>2, <1>3, <3>1, <3>2
  <2>3. QED
    BY <2>1, <2>2
<1>6. b \o t = d
  BY <1>3, <1>4, <1>5, SeqEqual
<1>7. QED
  BY <1>6 DEF b, d, st

\* A concatenation without its second part.
LEMMA DropMiddle ==
    ASSUME NEW S, NEW a \in Seq(S), NEW b \in Seq(S), NEW c \in Seq(S)
    PROVE  LET s == a \o (b \o c)
           IN  /\ SubSeq(s, 1, Len(a)) = a
               /\ SubSeq(s, Len(a) + Len(b) + 1, Len(s)) = c
               /\ Len(s) = Len(a) + Len(b) + Len(c)
<1> DEFINE bc == b \o c
           s == a \o bc
           ab == a \o b
<1>1. bc \in Seq(S) /\ ab \in Seq(S) /\ Len(bc) = Len(b) + Len(c) /\ Len(ab) = Len(a) + Len(b)
  OBVIOUS
<1>2. s = ab \o c
  OBVIOUS
<1> HIDE DEF bc, ab
<1>3. s \in Seq(S) /\ Len(s) = Len(a) + Len(bc)
  BY <1>1, ConcatProperties
<1>4. SubSeq(s, 1, Len(a)) = a
  BY <1>1
<1>5. SubSeq(s, Len(ab) + 1, Len(s)) = SubSeq(ab, Len(ab) + 1, Len(ab)) \o c
  <2>1. Len(ab) \in 0 .. Len(ab)
    BY <1>1
  <2>2. SubSeq(ab \o c, Len(ab) + 1, Len(ab \o c)) = SubSeq(ab, Len(ab) + 1, Len(ab)) \o c
    BY <1>1, <2>1, DropConcat
  <2> HIDE DEF s
  <2>3. QED
    BY <1>2, <2>2
<1>6. SubSeq(ab, Len(ab) + 1, Len(ab)) \o c = c
  <2>1. SubSeq(ab, Len(ab) + 1, Len(ab)) = <<>>
    BY <1>1
  <2>2. QED
    BY <2>1
<1>7. QED
  BY <1>1, <1>3, <1>4, <1>5, <1>6 DEF bc

-----------------------------------------------------------------------------
(* Increasing sequences of numbers. *)

\* s increases strictly, from above lo to below hi.
Increasing(s, lo, hi) ==
    /\ \A i \in 1 .. Len(s) : lo < s[i] /\ s[i] < hi
    /\ \A i, j \in 1 .. Len(s) : i < j => s[i] < s[j]

\* The next numbers may follow.
LEMMA IncreasingGrows ==
    ASSUME NEW s \in Seq(Nat), NEW lo \in Nat, NEW hi \in Nat, lo < hi, Increasing(s, lo, hi),
           NEW high \in Nat, NEW k \in 0 .. (high - hi)
    PROVE  LET t == s \o [i \in 1 .. k |-> hi + i - 1]
           IN  t \in Seq(Nat) /\ Increasing(t, lo, high)
<1> DEFINE new == [i \in 1 .. k |-> hi + i - 1]
           t == s \o new
<1>1. new \in Seq(Nat) /\ Len(new) = k /\ \A i \in 1 .. k : new[i] = hi + i - 1
  OBVIOUS
<1> HIDE DEF new
<1>2. /\ t \in Seq(Nat) /\ Len(t) = Len(s) + k
      /\ \A i \in 1 .. Len(s) + k : t[i] = IF i <= Len(s) THEN s[i] ELSE new[i - Len(s)]
  BY <1>1, ConcatProperties
<1> HIDE DEF t
<1>3. ASSUME NEW i \in 1 .. Len(s) + k
      PROVE  \/ i \in 1 .. Len(s) /\ t[i] = s[i] /\ s[i] < hi
             \/ i > Len(s) /\ t[i] = hi + (i - Len(s)) - 1
  <2>1. CASE i <= Len(s)
    BY <1>2, <2>1 DEF Increasing
  <2>2. CASE ~(i <= Len(s))
    <3>1. i - Len(s) \in 1 .. k
      BY <2>2
    <3>2. QED
      BY <1>1, <1>2, <2>2, <3>1
  <2>3. QED
    BY <2>1, <2>2
<1>4. ASSUME NEW i \in 1 .. Len(s) + k PROVE lo < t[i] /\ t[i] < high
  BY <1>3 DEF Increasing
<1>5. ASSUME NEW i \in 1 .. Len(s) + k, NEW j \in 1 .. Len(s) + k, i < j PROVE t[i] < t[j]
  <2>1. CASE j \in 1 .. Len(s)
    BY <1>3, <1>5, <2>1 DEF Increasing
  <2>2. CASE j > Len(s)
    <3>1. t[j] = hi + (j - Len(s)) - 1
      BY <1>3, <2>2
    <3>2. CASE i > Len(s)
      BY <1>3, <1>5, <3>1, <3>2
    <3>3. CASE i \in 1 .. Len(s)
      <4>1. s[i] < hi /\ t[i] = s[i] /\ s[i] \in Nat
        BY <1>3, <3>3 DEF Increasing
      <4>2. QED
        BY <2>2, <3>1, <4>1
    <3>4. QED
      BY <3>2, <3>3
  <2>3. QED
    BY <2>1, <2>2
<1>6. Increasing(t, lo, high)
  BY <1>2, <1>4, <1>5 DEF Increasing
<1>7. QED
  BY <1>2, <1>6 DEF t, new

\* What follows the n-th element is greater.
LEMMA IncreasingAfter ==
    ASSUME NEW s \in Seq(Nat), NEW lo \in Nat, NEW hi \in Nat, Increasing(s, lo, hi),
           NEW n \in 1 .. Len(s)
    PROVE  LET t == SubSeq(s, n + 1, Len(s))
           IN  t \in Seq(Nat) /\ Increasing(t, s[n], hi)
<1> DEFINE t == SubSeq(s, n + 1, Len(s))
<1>1. t \in Seq(Nat) /\ Len(t) = Len(s) - n /\ \A i \in 1 .. Len(s) - n : t[i] = s[n + i]
  OBVIOUS
<1> HIDE DEF t
<1>2. ASSUME NEW i \in 1 .. Len(s) - n PROVE s[n] < t[i] /\ t[i] < hi
  <2>1. n + i \in 1 .. Len(s) /\ n < n + i
    OBVIOUS
  <2>2. QED
    BY <1>1, <2>1 DEF Increasing
<1>3. ASSUME NEW i \in 1 .. Len(s) - n, NEW j \in 1 .. Len(s) - n, i < j PROVE t[i] < t[j]
  <2>1. n + i \in 1 .. Len(s) /\ n + j \in 1 .. Len(s) /\ n + i < n + j
    BY <1>3
  <2>2. QED
    BY <1>1, <2>1 DEF Increasing
<1>4. Increasing(t, s[n], hi)
  BY <1>1, <1>2, <1>3 DEF Increasing
<1>5. QED
  BY <1>1, <1>4 DEF t

\* Elements may be lost.
LEMMA IncreasingLosing ==
    ASSUME NEW s \in Seq(Nat), NEW lo \in Nat, NEW hi \in Nat, Increasing(s, lo, hi),
           NEW m \in 0 .. Len(s), NEW n \in 0 .. Len(s), m < n
    PROVE  LET t == SubSeq(s, 1, m) \o SubSeq(s, n + 1, Len(s))
           IN  t \in Seq(Nat) /\ Increasing(t, lo, hi)
<1> DEFINE a == SubSeq(s, 1, m)
           b == SubSeq(s, n + 1, Len(s))
           t == a \o b
           from(i) == IF i <= m THEN i ELSE n + (i - m)
<1>1. /\ a \in Seq(Nat) /\ Len(a) = m /\ \A i \in 1 .. m : a[i] = s[i]
      /\ b \in Seq(Nat) /\ Len(b) = Len(s) - n /\ \A i \in 1 .. Len(s) - n : b[i] = s[n + i]
  OBVIOUS
<1> HIDE DEF a, b
<1>2. /\ t \in Seq(Nat) /\ Len(t) = m + (Len(s) - n)
      /\ \A i \in 1 .. m + (Len(s) - n) : t[i] = IF i <= m THEN a[i] ELSE b[i - m]
  <2>1. /\ t \in Seq(Nat) /\ Len(t) = Len(a) + Len(b)
        /\ \A i \in 1 .. Len(a) + Len(b) : t[i] = IF i <= Len(a) THEN a[i] ELSE b[i - Len(a)]
    <3>1. a \in Seq(Nat) /\ b \in Seq(Nat)
      BY <1>1
    <3>2. QED
      BY <3>1, ConcatProperties
  <2>2. QED
    BY <1>1, <2>1
<1> HIDE DEF t
<1>3. ASSUME NEW i \in 1 .. m + (Len(s) - n) PROVE from(i) \in 1 .. Len(s) /\ t[i] = s[from(i)]
  <2>1. CASE i <= m
    BY <1>1, <1>2, <2>1
  <2>2. CASE ~(i <= m)
    <3>1. i - m \in 1 .. Len(s) - n /\ from(i) = n + (i - m)
      BY <2>2
    <3>2. from(i) \in 1 .. Len(s)
      BY <3>1
    <3>3. t[i] = b[i - m]
      BY <1>2, <2>2
    <3>4. b[i - m] = s[n + (i - m)]
      BY <1>1, <3>1
    <3>5. QED
      BY <3>1, <3>2, <3>3, <3>4
  <2>3. QED
    BY <2>1, <2>2
<1>4. ASSUME NEW i \in 1 .. m + (Len(s) - n), NEW j \in 1 .. m + (Len(s) - n), i < j
      PROVE  from(i) < from(j)
  BY <1>4
<1> HIDE DEF from
<1>5. \A i \in 1 .. m + (Len(s) - n) : lo < t[i] /\ t[i] < hi
  BY <1>3 DEF Increasing
<1>6. \A i, j \in 1 .. m + (Len(s) - n) : i < j => t[i] < t[j]
  BY <1>3, <1>4 DEF Increasing
<1>7. Increasing(t, lo, hi)
  BY <1>2, <1>5, <1>6 DEF Increasing
<1>8. QED
  BY <1>2, <1>7 DEF t, a, b
=============================================================================
