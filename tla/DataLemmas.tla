------------------------------ MODULE DataLemmas ------------------------------
(***************************************************************************)
(* Facts about sequences, numbers and sums that several proofs need: what  *)
(* putting an element at the end of a queue and taking one from its front  *)
(* do to the elements it holds; what inserting and removing at a position  *)
(* do to the positions of the others; the least element of a set of        *)
(* numbers; sums over finite sets; and folds over sequences.  What would   *)
(* be an induction is told by a set of counterexamples and a smallest one  *)
(* among them.                                                             *)
(***************************************************************************)
EXTENDS SequenceTheorems, SequencesExt, FiniteSetsExt, FiniteSetTheorems,
        WellFoundedInduction, TLAPS

\* Append adds its element, and keeps a queue without repetitions so when the
\* element is new.
LEMMA AppendRange ==
    ASSUME NEW S, NEW q \in Seq(S), NEW x \in S
    PROVE  /\ Range(Append(q, x)) = Range(q) \cup {x}
           /\ IsInjective(q) /\ x \notin Range(q) => IsInjective(Append(q, x))
  <1> DEFINE p == Append(q, x)
  <1>1. /\ p \in Seq(S) /\ Len(q) \in Nat /\ Len(p) = Len(q) + 1
        /\ \A n \in 1 .. Len(q) : p[n] = q[n]
        /\ p[Len(q) + 1] = x
    BY AppendProperties, LenProperties
  <1>2. DOMAIN p = 1 .. Len(p) /\ DOMAIN q = 1 .. Len(q)
    BY <1>1, LenProperties
  <1> HIDE DEF p
  <1>3. Range(p) = Range(q) \cup {x}
    BY <1>1, <1>2 DEF Range
  <1>4. ASSUME IsInjective(q), x \notin Range(q), NEW m \in DOMAIN p, NEW n \in DOMAIN p,
               p[m] = p[n]
        PROVE  m = n
    <2>1. CASE m \in DOMAIN q /\ n \in DOMAIN q
      BY <1>1, <1>2, <1>4, <2>1 DEF IsInjective
    <2>2. CASE m \notin DOMAIN q \/ n \notin DOMAIN q
      BY <1>1, <1>2, <1>4, <2>2 DEF Range
    <2> QED  BY <2>1, <2>2
  <1>5. IsInjective(q) /\ x \notin Range(q) => IsInjective(p)
    BY <1>4 DEF IsInjective
  <1> QED  BY <1>3, <1>5 DEF p

\* Taking the head off removes it from a queue without repetitions.
LEMMA TailRange ==
    ASSUME NEW S, NEW q \in Seq(S), q # <<>>
    PROVE  /\ Head(q) \in S /\ Tail(q) \in Seq(S) /\ Len(Tail(q)) = Len(q) - 1
           /\ Range(q) = Range(Tail(q)) \cup {Head(q)}
           /\ IsInjective(q) => IsInjective(Tail(q)) /\ Head(q) \notin Range(Tail(q))
  <1> DEFINE t == Tail(q)
  <1>1. /\ Head(q) \in S /\ t \in Seq(S) /\ Len(q) \in Nat /\ Len(q) > 0
        /\ Len(t) = Len(q) - 1 /\ Head(q) = q[1]
        /\ \A n \in 1 .. Len(t) : t[n] = q[n + 1]
    BY HeadTailProperties, LenProperties, EmptySeq
  <1>2. DOMAIN t = 1 .. Len(t) /\ DOMAIN q = 1 .. Len(q)
    BY <1>1, LenProperties
  <1> HIDE DEF t
  <1>3. Range(q) = Range(t) \cup {Head(q)}
    <2>1. ASSUME NEW n \in DOMAIN q
          PROVE  q[n] \in Range(t) \cup {Head(q)}
      <3>1. CASE n = 1  BY <3>1, <1>1
      <3>2. CASE n # 1
        <4>1. n - 1 \in DOMAIN t /\ t[n - 1] = q[n]  BY <1>1, <1>2, <3>2
        <4> QED  BY <4>1 DEF Range
      <3> QED  BY <3>1, <3>2
    <2>2. ASSUME NEW n \in DOMAIN t
          PROVE  t[n] \in Range(q)
      <3>1. n + 1 \in DOMAIN q /\ t[n] = q[n + 1]  BY <1>1, <1>2
      <3> QED  BY <3>1 DEF Range
    <2>3. Head(q) \in Range(q)
      BY <1>1, <1>2 DEF Range
    <2> QED  BY <2>1, <2>2, <2>3 DEF Range
  <1>4. ASSUME IsInjective(q), NEW m \in DOMAIN t, NEW n \in DOMAIN t, t[m] = t[n]
        PROVE  m = n
    <2>1. /\ m + 1 \in DOMAIN q /\ n + 1 \in DOMAIN q
          /\ q[m + 1] = q[n + 1]
      BY <1>1, <1>2, <1>4
    <2>2. m + 1 = n + 1
      BY <2>1, <1>4 DEF IsInjective
    <2> QED  BY <2>2, <1>2
  <1>5. ASSUME IsInjective(q), NEW n \in DOMAIN t
        PROVE  t[n] # Head(q)
    <2>1. 1 \in DOMAIN q /\ n + 1 \in DOMAIN q /\ t[n] = q[n + 1] /\ n + 1 # 1
      BY <1>1, <1>2
    <2> QED  BY <1>1, <1>5, <2>1 DEF IsInjective
  <1> QED  BY <1>1, <1>3, <1>4, <1>5 DEF IsInjective, Range, t

\* The empty queue holds nothing.
LEMMA EmptyRange == Range(<<>>) = {} /\ IsInjective(<<>>)
  BY DEF Range, IsInjective

-----------------------------------------------------------------------------

\* A set of numbers has a least element.  It comes from the library's theorem
\* about well-founded relations, which takes a set where the ones about
\* induction take a predicate.
LEMMA LeastElement ==
    ASSUME NEW S \in SUBSET Nat, S # {}
    PROVE  Min(S) \in S /\ \A y \in S : Min(S) <= y
  <1> DEFINE R == OpToRel(<, Nat)
  <1>1. IsWellFoundedOn(R, Nat)
    BY NatLessThanWellFounded
  <1>2. \A x, y \in Nat : x < y => <<x, y>> \in R
    BY DEF OpToRel
  <1> HIDE DEF R
  <1>3. PICK m \in S : \A y \in S : ~(<<y, m>> \in R)
    BY <1>1, WFMin
  <1>4. ASSUME NEW y \in S PROVE m <= y
    <2>1. m \in Nat /\ y \in Nat
      OBVIOUS
    <2>2. ~(y < m)
      BY <1>2, <1>3, <2>1
    <2> QED  BY <2>1, <2>2
  <1> QED  BY <1>4 DEF Min

\* The greatest of some numbers up to a bound.
LEMMA GreatestElement ==
    ASSUME NEW n \in Nat, NEW S \in SUBSET (0 .. n), S # {}
    PROVE  Max(S) \in S /\ \A y \in S : Max(S) >= y
  <1> DEFINE D == {n - y : y \in S}
  <1>1. D \in SUBSET Nat /\ D # {}
    <2>1. \A y \in S : n - y \in Nat
      OBVIOUS
    <2> QED  BY <2>1
  <1>2. Min(D) \in D /\ \A d \in D : Min(D) <= d
    <2> HIDE DEF D
    <2> QED  BY <1>1, LeastElement
  <1>3. PICK m \in S : Min(D) = n - m
    BY <1>2
  <1>4. ASSUME NEW y \in S PROVE m >= y
    <2>1. n - y \in D
      OBVIOUS
    <2>2. n - m <= n - y
      BY <1>2, <1>3, <2>1
    <2> HIDE DEF D
    <2> QED  BY <2>2
  <1> HIDE DEF D
  <1> QED  BY <1>4 DEF Max

\* Where the elements are after an insertion.
LEMMA Insertion ==
    ASSUME NEW S, NEW q \in Seq(S), NEW i \in 1 .. Len(q) + 1, NEW e \in S
    PROVE  /\ InsertAt(q, i, e) \in Seq(S)
           /\ Len(InsertAt(q, i, e)) = Len(q) + 1
           /\ \A n \in 1 .. Len(q) + 1 :
                 InsertAt(q, i, e)[n] = IF n < i THEN q[n]
                                        ELSE IF n = i THEN e ELSE q[n - 1]
  <1> DEFINE a == SubSeq(q, 1, i - 1)
             b == SubSeq(q, i, Len(q))
  <1>1. /\ Len(q) \in Nat /\ DOMAIN q = 1 .. Len(q)
        /\ \A n \in 1 .. Len(q) : q[n] \in S
    BY LenProperties, ElementOfSeq
  <1>2. /\ a \in Seq(S) /\ Len(a) = i - 1
        /\ \A n \in 1 .. i - 1 : a[n] = q[n]
    BY <1>1, SubSeqProperties
  <1>3. /\ b \in Seq(S) /\ Len(b) = Len(q) - i + 1
        /\ \A n \in 1 .. Len(q) - i + 1 : b[n] = q[i + n - 1]
    BY <1>1, SubSeqProperties
  <1>4. InsertAt(q, i, e) = (a \o <<e>>) \o b
    BY DEF InsertAt
  <1> HIDE DEF a, b
  <1>5. <<e>> \in Seq(S) /\ Len(<<e>>) = 1 /\ <<e>>[1] = e
    OBVIOUS
  <1> DEFINE c == <<e>>
             d == a \o c
  <1> HIDE DEF c
  <1>6. /\ d \in Seq(S) /\ Len(d) = i
        /\ \A n \in 1 .. i : d[n] = IF n < i THEN q[n] ELSE e
    BY <1>1, <1>2, <1>5, ConcatProperties DEF c
  <1> HIDE DEF d
  <1>7. InsertAt(q, i, e) = d \o b
    BY <1>4 DEF c, d
  <1>8. /\ d \o b \in Seq(S) /\ Len(d \o b) = Len(q) + 1
        /\ \A n \in 1 .. Len(q) + 1 : (d \o b)[n] = IF n <= i THEN d[n] ELSE b[n - i]
    <2>1. /\ d \o b \in Seq(S) /\ Len(d \o b) = Len(d) + Len(b)
          /\ \A n \in 1 .. Len(d) + Len(b) :
                (d \o b)[n] = IF n <= Len(d) THEN d[n] ELSE b[n - Len(d)]
      BY <1>3, <1>6, ConcatProperties
    <2>2. Len(d) = i /\ Len(d) + Len(b) = Len(q) + 1
      BY <1>1, <1>3, <1>6
    <2> QED  BY <2>1, <2>2
  <1>9. ASSUME NEW n \in 1 .. Len(q) + 1
        PROVE  (d \o b)[n] = IF n < i THEN q[n] ELSE IF n = i THEN e ELSE q[n - 1]
    <2>1. CASE n <= i
      BY <1>6, <1>8, <2>1
    <2>2. CASE n > i
      <3>1. n - i \in 1 .. Len(q) - i + 1 /\ i + (n - i) - 1 = n - 1
        BY <1>1, <2>2
      <3>2. b[n - i] = q[i + (n - i) - 1]
        BY <1>3, <3>1
      <3>3. b[n - i] = q[n - 1]
        BY <3>1, <3>2
      <3>4. ~(n <= i) /\ ~(n < i) /\ n # i
        BY <1>1, <2>2
      <3>5. (d \o b)[n] = b[n - i]
        BY <1>8, <3>4
      <3> QED  BY <3>3, <3>4, <3>5
    <2>3. n <= i \/ n > i
      BY <1>1
    <2> QED  BY <2>1, <2>2, <2>3
  <1> QED  BY <1>7, <1>8, <1>9

\* Where the elements are after a removal.
LEMMA Removal ==
    ASSUME NEW S, NEW q \in Seq(S), NEW i \in 1 .. Len(q)
    PROVE  /\ RemoveAt(q, i) \in Seq(S)
           /\ Len(RemoveAt(q, i)) = Len(q) - 1
           /\ \A n \in 1 .. Len(q) - 1 :
                 RemoveAt(q, i)[n] = IF n < i THEN q[n] ELSE q[n + 1]
  <1> DEFINE a == SubSeq(q, 1, i - 1)
             b == SubSeq(q, i + 1, Len(q))
  <1>1. /\ Len(q) \in Nat /\ DOMAIN q = 1 .. Len(q)
        /\ \A n \in 1 .. Len(q) : q[n] \in S
    BY LenProperties, ElementOfSeq
  <1>2. /\ a \in Seq(S) /\ Len(a) = i - 1
        /\ \A n \in 1 .. i - 1 : a[n] = q[n]
    BY <1>1, SubSeqProperties
  <1>3. /\ b \in Seq(S) /\ Len(b) = Len(q) - i
        /\ \A n \in 1 .. Len(q) - i : b[n] = q[i + n]
    <2>1. /\ i + 1 \in Int /\ Len(q) \in Int
          /\ \A n \in i + 1 .. Len(q) : q[n] \in S
      BY <1>1
    <2>2. /\ b \in Seq(S)
          /\ Len(b) = IF i + 1 <= Len(q) THEN Len(q) - (i + 1) + 1 ELSE 0
          /\ \A n \in 1 .. Len(q) - (i + 1) + 1 : b[n] = q[(i + 1) + n - 1]
      BY <2>1, SubSeqProperties
    <2> HIDE DEF b
    <2>3. Len(b) = Len(q) - i
      <3>1. CASE i + 1 <= Len(q)
        BY <1>1, <2>2, <3>1
      <3>2. CASE i = Len(q)
        BY <1>1, <2>2, <3>2
      <3>3. i + 1 <= Len(q) \/ i = Len(q)
        <4>1. Len(q) \in Int /\ i \in Int /\ i <= Len(q)
          BY <1>1
        <4> QED  BY <4>1
      <3> QED  BY <3>1, <3>2, <3>3
    <2>4. ASSUME NEW n \in 1 .. Len(q) - i PROVE b[n] = q[i + n]
      <3>1. n \in 1 .. Len(q) - (i + 1) + 1 /\ (i + 1) + n - 1 = i + n
        BY <1>1
      <3> QED  BY <2>2, <3>1
    <2> QED  BY <2>2, <2>3, <2>4
  <1>4. RemoveAt(q, i) = a \o b
    BY DEF RemoveAt
  <1> HIDE DEF a, b
  <1>5. /\ a \o b \in Seq(S) /\ Len(a \o b) = Len(q) - 1
        /\ \A n \in 1 .. Len(q) - 1 :
              (a \o b)[n] = IF n <= i - 1 THEN a[n] ELSE b[n - (i - 1)]
    <2>1. /\ a \o b \in Seq(S) /\ Len(a \o b) = Len(a) + Len(b)
          /\ \A n \in 1 .. Len(a) + Len(b) :
                (a \o b)[n] = IF n <= Len(a) THEN a[n] ELSE b[n - Len(a)]
      BY <1>2, <1>3, ConcatProperties
    <2>2. Len(a) = i - 1 /\ Len(a) + Len(b) = Len(q) - 1
      BY <1>1, <1>2, <1>3
    <2> QED  BY <2>1, <2>2
  <1>6. ASSUME NEW n \in 1 .. Len(q) - 1
        PROVE  (a \o b)[n] = IF n < i THEN q[n] ELSE q[n + 1]
    <2>1. CASE n < i
      BY <1>1, <1>2, <1>5, <2>1
    <2>2. CASE n >= i
      <3>1. n - (i - 1) \in 1 .. Len(q) - i /\ i + (n - (i - 1)) = n + 1
        <4>1. Len(q) \in Int /\ n \in Int /\ i \in Int /\ n <= Len(q) - 1
          BY <1>1
        <4> QED  BY <2>2, <4>1
      <3>2. b[n - (i - 1)] = q[i + (n - (i - 1))]
        BY <1>3, <3>1
      <3> QED  BY <1>1, <1>5, <2>2, <3>1, <3>2
    <2>3. n < i \/ n >= i
      BY <1>1
    <2> QED  BY <2>1, <2>2, <2>3
  <1> QED  BY <1>4, <1>5, <1>6

-----------------------------------------------------------------------------
(* Sums over finite sets.                                                  *)

\* One element of a set, as MapThenSumSet takes them.
Pick(s) == CHOOSE x \in s : TRUE

\* f adds up t over every part of S.
Follows(t, S, f) ==
    \A s \in SUBSET S : f[s] = IF s = {} THEN 0 ELSE t[Pick(s)] + f[s \ {Pick(s)}]

Adds(t, S, f) == f \in [SUBSET S -> Nat] /\ Follows(t, S, f)

Total(t, S) == MapThenSumSet(LAMBDA x : t[x], S)

\* Induction on the size of a set, for facts that can be told by a set: what
\* holds of no set of a smallest size holds of none.
LEMMA Smallest ==
    ASSUME NEW S, IsFiniteSet(S), NEW B \in SUBSET SUBSET S, B # {}
    PROVE  \E m \in B : \A u \in SUBSET S : Cardinality(u) < Cardinality(m) => u \notin B
  <1> DEFINE N == {Cardinality(u) : u \in B}
  <1>1. \A u \in SUBSET S : IsFiniteSet(u) /\ Cardinality(u) \in Nat
    BY FS_Subset, FS_CardinalityType
  <1>2. N \in SUBSET Nat /\ N # {}
    BY <1>1
  <1>3. Min(N) \in N /\ \A y \in N : Min(N) <= y
    <2> HIDE DEF N
    <2> QED  BY <1>2, LeastElement
  <1>4. PICK m \in B : Min(N) = Cardinality(m)
    BY <1>3
  <1>5. ASSUME NEW u \in B
        PROVE  ~(Cardinality(u) < Cardinality(m))
    <2>1. Cardinality(m) <= Cardinality(u)
      BY <1>3, <1>4
    <2> QED  BY <1>1, <2>1
  <1> QED  BY <1>4, <1>5

LEMMA Picked ==
    ASSUME NEW S, IsFiniteSet(S), NEW x \in S
    PROVE  /\ Pick(S) \in S
           /\ IsFiniteSet(S \ {x}) /\ Cardinality(S \ {x}) < Cardinality(S)
           /\ Cardinality(S) \in Nat /\ Cardinality(S \ {x}) \in Nat
  <1>1. Pick(S) \in S
    BY DEF Pick
  <1>2. /\ IsFiniteSet(S \ {x}) /\ Cardinality(S \ {x}) = Cardinality(S) - 1
        /\ Cardinality(S) \in Nat /\ Cardinality(S \ {x}) \in Nat
    BY FS_RemoveElement, FS_CardinalityType
  <1> QED  BY <1>1, <1>2

LEMMA AddsAgree ==
    ASSUME NEW t, NEW S, IsFiniteSet(S), NEW T, IsFiniteSet(T),
           NEW f, Follows(t, S, f), NEW g, Follows(t, T, g),
           NEW u \in SUBSET S, u \in SUBSET T
    PROVE  f[u] = g[u]
  <1> DEFINE B == {v \in SUBSET u : f[v] # g[v]}
  <1> SUFFICES ASSUME B # {}
               PROVE  FALSE
    OBVIOUS
  <1>1. IsFiniteSet(u)
    BY FS_Subset
  <1>2. PICK m \in B : \A v \in SUBSET u : Cardinality(v) < Cardinality(m) => v \notin B
    <2>1. B \in SUBSET SUBSET u
      OBVIOUS
    <2> HIDE DEF B
    <2> QED  BY <1>1, <2>1, Smallest
  <1>3. m \in SUBSET S /\ m \in SUBSET T /\ m \in SUBSET u /\ f[m] # g[m] /\ IsFiniteSet(m)
    BY <1>1, <1>2, FS_Subset
  <1>4. m # {}
    BY <1>3 DEF Follows
  <1>5. PICK x : x = Pick(m)
    OBVIOUS
  <1>6. x \in m /\ Cardinality(m \ {x}) < Cardinality(m)
    BY <1>3, <1>4, <1>5, Picked DEF Pick
  <1>7. f[m \ {x}] = g[m \ {x}]
    BY <1>2, <1>3, <1>6
  <1>8. f[m] = t[x] + f[m \ {x}] /\ g[m] = t[x] + g[m \ {x}]
    BY <1>3, <1>4, <1>5 DEF Follows
  <1> QED  BY <1>3, <1>7, <1>8

LEMMA AddsExists ==
    ASSUME NEW S, IsFiniteSet(S), NEW t, \A x \in S : t[x] \in Nat
    PROVE  \E f : Adds(t, S, f)
  <1> DEFINE B == {v \in SUBSET S : ~ \E f : Adds(t, v, f)}
  <1> SUFFICES ASSUME B # {}
               PROVE  FALSE
    OBVIOUS
  <1>1. PICK m \in B : \A v \in SUBSET S : Cardinality(v) < Cardinality(m) => v \notin B
    <2>1. B \in SUBSET SUBSET S
      OBVIOUS
    <2> HIDE DEF B
    <2> QED  BY <2>1, Smallest
  <1>2. m \in SUBSET S /\ IsFiniteSet(m) /\ ~ \E f : Adds(t, m, f)
    BY <1>1, FS_Subset
  <1> DEFINE Of(v) == CHOOSE f : Adds(t, v, f)
             sum(v) == IF v = {} THEN 0 ELSE t[Pick(v)] + Of(v \ {Pick(v)})[v \ {Pick(v)}]
             f == [v \in SUBSET m |-> sum(v)]
  \* Every proper part of m can be added up.
  <1>3. ASSUME NEW v \in SUBSET m, v # m
        PROVE  Adds(t, v, Of(v)) /\ IsFiniteSet(v)
    <2>1. PICK x \in m : x \notin v
      BY <1>3
    <2>2. IsFiniteSet(m \ {x}) /\ Cardinality(m \ {x}) < Cardinality(m)
      BY <1>2, Picked
    <2>3. Cardinality(v) <= Cardinality(m \ {x}) /\ IsFiniteSet(v)
      BY <2>1, <2>2, FS_Subset
    <2>4. Cardinality(v) < Cardinality(m)
      <3>1. Cardinality(v) \in Nat /\ Cardinality(m \ {x}) \in Nat /\ Cardinality(m) \in Nat
        BY <1>2, <2>2, <2>3, FS_CardinalityType
      <3> QED  BY <2>2, <2>3, <3>1
    <2>5. \E g : Adds(t, v, g)
      BY <1>1, <1>2, <2>4
    <2> QED  BY <2>3, <2>5
  <1> HIDE DEF Of
  <1>4. ASSUME NEW v \in SUBSET m, v # {}
        PROVE  \E w \in SUBSET m : /\ w = v \ {Pick(v)} /\ w # m /\ w \in SUBSET v
                                   /\ w \in SUBSET w /\ t[Pick(v)] \in Nat
    <2>1. PICK x : x = Pick(v)
      OBVIOUS
    <2>2. x \in v
      BY <1>4, <2>1 DEF Pick
    <2>3. v \ {x} \in SUBSET m /\ v \ {x} # m /\ t[x] \in Nat
      BY <1>2, <2>2
    <2> QED  BY <2>1, <2>3
  <1>5. ASSUME NEW v \in SUBSET m
        PROVE  sum(v) \in Nat
    <2>1. CASE v = {}
      BY <2>1
    <2>2. CASE v # {}
      <3>1. PICK w \in SUBSET m : w = v \ {Pick(v)} /\ w # m /\ t[Pick(v)] \in Nat
        BY <1>4, <2>2
      <3>2. Of(w)[w] \in Nat
        BY <1>3, <3>1 DEF Adds, Follows
      <3> QED  BY <2>2, <3>1, <3>2
    <2> QED  BY <2>1, <2>2
  \* On a proper part the new sum is the old one.
  <1>6. ASSUME NEW v \in SUBSET m, v # m
        PROVE  sum(v) = Of(v)[v]
    <2>1. Adds(t, v, Of(v)) /\ IsFiniteSet(v)
      BY <1>3, <1>6
    <2>2. CASE v = {}
      BY <2>1, <2>2 DEF Adds, Follows
    <2>3. CASE v # {}
      <3>1. PICK w \in SUBSET m : /\ w = v \ {Pick(v)} /\ w # m
                                  /\ w \in SUBSET v /\ w \in SUBSET w
        BY <1>4, <2>3
      <3>2. Adds(t, w, Of(w)) /\ IsFiniteSet(w)
        BY <1>3, <3>1
      <3>3. Of(v)[w] = Of(w)[w]
        <4>1. PICK a, b : a = Of(v) /\ b = Of(w)
          OBVIOUS
        <4>2. Follows(t, v, a) /\ Follows(t, w, b) /\ w \in SUBSET v /\ w \in SUBSET w
          BY <2>1, <3>1, <3>2, <4>1 DEF Adds
        <4>3. a[w] = b[w]
          BY <2>1, <3>2, <4>2, AddsAgree
        <4> QED  BY <4>1, <4>3
      <3>4. Of(v)[v] = t[Pick(v)] + Of(v)[w]
        BY <2>1, <2>3, <3>1 DEF Adds, Follows
      <3> QED  BY <2>3, <3>1, <3>3, <3>4
    <2> QED  BY <2>2, <2>3
  <1>7. ASSUME NEW v \in SUBSET m
        PROVE  f[v] = IF v = {} THEN 0 ELSE t[Pick(v)] + f[v \ {Pick(v)}]
    <2>1. CASE v = {}
      BY <2>1
    <2>2. CASE v # {}
      <3>1. PICK w \in SUBSET m : w = v \ {Pick(v)} /\ w # m
        BY <1>4, <2>2
      <3>2. f[w] = Of(w)[w]
        BY <1>6, <3>1
      <3> QED  BY <2>2, <3>1, <3>2
    <2> QED  BY <2>1, <2>2
  <1>8. f \in [SUBSET m -> Nat]
    BY <1>5
  <1> HIDE DEF f
  <1> QED  BY <1>2, <1>7, <1>8 DEF Adds, Follows

LEMMA TotalIs ==
    ASSUME NEW S, IsFiniteSet(S), NEW t, \A x \in S : t[x] \in Nat, NEW f, Follows(t, S, f)
    PROVE  Total(t, S) = f[S] /\ f[S] \in Nat
  <1> DEFINE R(g) == [s \in SUBSET S |->
                 IF s = {} THEN 0 ELSE LET x == CHOOSE x \in s : TRUE IN t[x] + g[s \ {x}]]
             sum == CHOOSE g : g = R(g)
  <1>1. PICK h : Adds(t, S, h)
    BY AddsExists
  <1>2. h = R(h)
    <2>1. h = [s \in SUBSET S |-> h[s]]
      BY <1>1 DEF Adds
    <2>2. ASSUME NEW s \in SUBSET S
          PROVE  h[s] = R(h)[s]
      BY <1>1 DEF Adds, Follows, Pick
    <2>3. R(h) = [s \in SUBSET S |-> R(h)[s]]
      OBVIOUS
    <2> HIDE DEF R
    <2> QED  BY <2>1, <2>2, <2>3
  <1>3. sum = R(sum)
    <2> HIDE DEF R
    <2> QED  BY <1>2
  <1>4. Total(t, S) = sum[S]
    BY DEF Total, MapThenSumSet, MapThenFoldSet
  <1>5. PICK g : g = sum
    OBVIOUS
  <1>6. Follows(t, S, g)
    <2>1. g = R(g)
      BY <1>3, <1>5
    <2> HIDE DEF sum
    <2>2. \A s \in SUBSET S : g[s] = R(g)[s]
      BY <2>1
    <2> QED  BY <2>2 DEF Follows, Pick
  <1> HIDE DEF sum
  <1>7. S \in SUBSET S /\ Follows(t, S, h) /\ h[S] \in Nat
    BY <1>1 DEF Adds
  <1>8. g[S] = f[S] /\ h[S] = f[S]
    <2>1. g[S] = f[S]
      BY <1>6, <1>7, AddsAgree
    <2>2. h[S] = f[S]
      BY <1>7, AddsAgree
    <2> QED  BY <2>1, <2>2
  <1> QED  BY <1>4, <1>5, <1>7, <1>8

\* A sum over nothing, and over a set of which one element is told apart,
\* whichever it is.
LEMMA TotalPicked ==
    ASSUME NEW S, IsFiniteSet(S), NEW t, \A x \in S : t[x] \in Nat
    PROVE  /\ Total(t, S) \in Nat
           /\ S = {} => Total(t, S) = 0
           /\ S # {} => Total(t, S) = t[Pick(S)] + Total(t, S \ {Pick(S)})
  <1>1. PICK f : Follows(t, S, f)
    BY AddsExists DEF Adds
  <1>2. Total(t, S) = f[S] /\ f[S] \in Nat
    BY <1>1, TotalIs
  <1>3. S = {} => f[S] = 0
    BY <1>1 DEF Follows
  <1>4. ASSUME S # {}
        PROVE  f[S] = t[Pick(S)] + Total(t, S \ {Pick(S)})
    <2>1. PICK u : u = S \ {Pick(S)}
      OBVIOUS
    <2>2. IsFiniteSet(u) /\ Follows(t, u, f) /\ \A x \in u : t[x] \in Nat
      <3>1. IsFiniteSet(u)
        BY <2>1, FS_Subset
      <3>2. u \subseteq S
        BY <2>1
      <3> QED  BY <1>1, <3>1, <3>2 DEF Follows
    <2>3. Total(t, u) = f[u]
      BY <2>2, TotalIs
    <2> QED  BY <1>1, <1>4, <2>1, <2>3 DEF Follows
  <1> QED  BY <1>2, <1>3, <1>4

LEMMA TotalParts ==
    ASSUME NEW S, IsFiniteSet(S), NEW t, \A x \in S : t[x] \in Nat
    PROVE  /\ Total(t, S) \in Nat
           /\ S = {} => Total(t, S) = 0
           /\ \A x \in S : Total(t, S) = t[x] + Total(t, S \ {x})
  <1> DEFINE B == {v \in SUBSET S : \E x \in v : Total(t, v) # t[x] + Total(t, v \ {x})}
  <1> SUFFICES B = {}
    BY TotalPicked
  <1> SUFFICES ASSUME B # {}
               PROVE  FALSE
    OBVIOUS
  <1>1. PICK m \in B : \A v \in SUBSET S : Cardinality(v) < Cardinality(m) => v \notin B
    <2>1. B \in SUBSET SUBSET S
      OBVIOUS
    <2> HIDE DEF B
    <2> QED  BY <2>1, Smallest
  <1>2. /\ m \in SUBSET S /\ IsFiniteSet(m) /\ \A x \in m : t[x] \in Nat
    BY <1>1, FS_Subset
  <1>3. PICK x \in m : Total(t, m) # t[x] + Total(t, m \ {x})
    BY <1>1
  <1>4. PICK p : p = Pick(m)
    OBVIOUS
  <1>5. p \in m /\ Total(t, m) = t[p] + Total(t, m \ {p}) /\ x # p
    BY <1>2, <1>3, <1>4, TotalPicked, Picked
  <1>6. ASSUME NEW y \in m, NEW z \in m \ {y}
        PROVE  Total(t, m \ {y}) = t[z] + Total(t, (m \ {y}) \ {z})
    <2>1. m \ {y} \in SUBSET S /\ Cardinality(m \ {y}) < Cardinality(m)
      BY <1>2, Picked
    <2>2. m \ {y} \notin B
      BY <1>1, <2>1
    <2> QED  BY <2>1, <2>2
  <1> HIDE DEF B
  <1>7. PICK w : w = (m \ {p}) \ {x}
    OBVIOUS
  <1>8. (m \ {x}) \ {p} = w
    BY <1>7
  <1>9. Total(t, m \ {p}) = t[x] + Total(t, w) /\ Total(t, m \ {x}) = t[p] + Total(t, w)
    BY <1>5, <1>6, <1>7, <1>8
  <1>10. Total(t, w) \in Nat /\ t[x] \in Nat /\ t[p] \in Nat
    <2>1. IsFiniteSet(w) /\ \A y \in w : t[y] \in Nat
      BY <1>2, <1>7, FS_Subset
    <2> QED  BY <1>2, <1>5, <2>1, TotalPicked
  <1> QED  BY <1>3, <1>5, <1>9, <1>10

\* A sum does not depend on what its terms are called.
LEMMA TotalMoved ==
    ASSUME NEW S, IsFiniteSet(S), NEW t, \A x \in S : t[x] \in Nat,
           NEW h, \A x, y \in S : h[x] = h[y] => x = y,
           NEW u, \A x \in S : u[h[x]] = t[x]
    PROVE  /\ IsFiniteSet({h[x] : x \in S})
           /\ Total(u, {h[x] : x \in S}) = Total(t, S)
  <1> DEFINE At(v) == {h[x] : x \in v}
             B == {v \in SUBSET S : ~(IsFiniteSet(At(v)) /\ Total(u, At(v)) = Total(t, v))}
  <1> SUFFICES B = {}
    OBVIOUS
  <1> SUFFICES ASSUME B # {}
               PROVE  FALSE
    OBVIOUS
  <1>1. PICK m \in B : \A v \in SUBSET S : Cardinality(v) < Cardinality(m) => v \notin B
    <2>1. B \in SUBSET SUBSET S
      OBVIOUS
    <2> HIDE DEF B
    <2> QED  BY <2>1, Smallest
  <1>2. m \in SUBSET S /\ IsFiniteSet(m)
    BY <1>1, FS_Subset
  <1>3. CASE m = {}
    <2>1. At(m) = {} /\ IsFiniteSet({})
      BY <1>3, FS_EmptySet
    <2>2. Total(u, {}) = 0 /\ Total(t, {}) = 0
      BY <2>1, TotalParts
    <2> QED  BY <1>1, <1>3, <2>1, <2>2
  <1>4. CASE m # {}
    <2>1. PICK x \in m : TRUE
      BY <1>4
    <2>2. PICK v : v = m \ {x}
      OBVIOUS
    <2>3. v \in SUBSET S /\ Cardinality(v) < Cardinality(m) /\ IsFiniteSet(v)
      BY <1>2, <2>1, <2>2, Picked
    <2>4. IsFiniteSet(At(v)) /\ Total(u, At(v)) = Total(t, v)
      BY <1>1, <2>3
    <2>5. At(m) = At(v) \cup {h[x]} /\ h[x] \notin At(v)
      BY <1>2, <2>1, <2>2
    <2>6. \A y \in At(m) : u[y] \in Nat
      BY <1>2
    <2> HIDE DEF At, B
    <2>7. IsFiniteSet(At(m))
      BY <2>4, <2>5, FS_AddElement
    <2>8. At(m) \ {h[x]} = At(v) /\ h[x] \in At(m)
      BY <2>5
    <2>9. Total(u, At(m)) = u[h[x]] + Total(u, At(v))
      <3>1. PICK A, z : A = At(m) /\ z = h[x]
        OBVIOUS
      <3>2. IsFiniteSet(A) /\ (\A y \in A : u[y] \in Nat) /\ z \in A
        BY <2>6, <2>7, <2>8, <3>1
      <3>3. Total(u, A) = u[z] + Total(u, A \ {z})
        BY <3>2, TotalParts
      <3> QED  BY <2>8, <3>1, <3>3
    <2>10. \A y \in m : t[y] \in Nat
      BY <1>2
    <2>11. Total(t, m) = t[x] + Total(t, v)
      BY <1>2, <2>1, <2>2, <2>10, TotalParts
    <2>12. u[h[x]] = t[x]
      BY <1>2, <2>1
    <2> QED  BY <1>1, <2>4, <2>7, <2>9, <2>11, <2>12 DEF B
  <1> QED  BY <1>3, <1>4

\* A sum takes no notice of what is outside its set.
LEMMA TotalSame ==
    ASSUME NEW S, IsFiniteSet(S), NEW t, NEW u, \A x \in S : t[x] \in Nat /\ u[x] = t[x]
    PROVE  Total(u, S) = Total(t, S)
  <1>1. PICK f : Follows(t, S, f)
    BY AddsExists DEF Adds
  <1>2. \A s \in SUBSET S : s # {} => u[Pick(s)] = t[Pick(s)]
    BY DEF Pick
  <1>3. Follows(u, S, f)
    BY <1>1, <1>2 DEF Follows
  <1>4. Total(t, S) = f[S] /\ Total(u, S) = f[S]
    BY <1>1, <1>3, TotalIs
  <1> QED  BY <1>4

-----------------------------------------------------------------------------
(* Folds over sequences.                                                   *)

\* f tells what F has made of base after every prefix of q.
Steps(F, base, q, f) ==
    f[0] = base /\ \A n \in 1 .. Len(q) : f[n] = F[f[n - 1], q[n]]

Run(F, base, q) == (CHOOSE f : Steps(F, base, q, f))[Len(q)]

LEMMA StepsAgree ==
    ASSUME NEW T, NEW q \in Seq(T), NEW F, NEW base,
           NEW f, Steps(F, base, q, f), NEW g, Steps(F, base, q, g)
    PROVE  \A n \in 0 .. Len(q) : f[n] = g[n]
  <1> DEFINE B == {n \in 0 .. Len(q) : f[n] # g[n]}
  <1> SUFFICES ASSUME B # {}
               PROVE  FALSE
    OBVIOUS
  <1>1. Len(q) \in Nat /\ B \in SUBSET Nat
    BY LenProperties
  <1>2. PICK m \in B : \A y \in B : m <= y
    <2> HIDE DEF B
    <2> QED  BY <1>1, LeastElement
  <1>3. m \in 0 .. Len(q) /\ f[m] # g[m] /\ m # 0
    BY <1>2 DEF Steps
  <1>4. m - 1 \in 0 .. Len(q) /\ m \in 1 .. Len(q) /\ ~(m <= m - 1)
    BY <1>1, <1>3
  <1>5. f[m - 1] = g[m - 1]
    BY <1>2, <1>4
  <1> QED  BY <1>3, <1>4, <1>5 DEF Steps

\* Whatever follows the steps ends with the result of the fold.
LEMMA RunIs ==
    ASSUME NEW T, NEW q \in Seq(T), NEW F, NEW base, NEW f, Steps(F, base, q, f)
    PROVE  Run(F, base, q) = f[Len(q)]
  <1> DEFINE g == CHOOSE g : Steps(F, base, q, g)
  <1>1. Steps(F, base, q, g)
    OBVIOUS
  <1> HIDE DEF g
  <1>2. Len(q) \in 0 .. Len(q)
    BY LenProperties
  <1>3. f[Len(q)] = g[Len(q)]
    BY <1>1, <1>2, StepsAgree
  <1> QED  BY <1>3 DEF Run, g

Stepped(S, F, base, q, f) == f \in [0 .. Len(q) -> S] /\ Steps(F, base, q, f)

LEMMA StepsExist ==
    ASSUME NEW S, NEW T, NEW F, F \in [S \X T -> S], NEW base, base \in S, NEW q \in Seq(T)
    PROVE  \E f : Stepped(S, F, base, q, f)
  <1> DEFINE Upto(n) == \E f \in [0 .. n -> S] :
                           f[0] = base /\ \A k \in 1 .. n : f[k] = F[f[k - 1], q[k]]
             B == {n \in 0 .. Len(q) : ~Upto(n)}
  <1>1. Len(q) \in Nat /\ \A k \in 1 .. Len(q) : q[k] \in T
    BY LenProperties, ElementOfSeq
  <1>2. ASSUME B # {}
        PROVE  FALSE
    <2>1. PICK m \in Nat : m \in B /\ \A y \in B : m <= y
      <3> HIDE DEF Upto
      <3>1. B \in SUBSET Nat
        BY <1>1
      <3> HIDE DEF B
      <3> QED  BY <1>2, <3>1, LeastElement
    <2>2. m \in 0 .. Len(q) /\ ~Upto(m)
      <3> HIDE DEF Upto
      <3> QED  BY <1>1, <2>1
    <2>3. Upto(0)
      <3> DEFINE f == [k \in 0 .. 0 |-> base]
      <3>1. f \in [0 .. 0 -> S] /\ f[0] = base /\ \A k \in 1 .. 0 : FALSE
        OBVIOUS
      <3> HIDE DEF f
      <3> QED  BY <3>1
    <2>4. m # 0 /\ m \in 1 .. Len(q) /\ m - 1 \in 0 .. Len(q) /\ ~(m <= m - 1)
      <3> HIDE DEF Upto
      <3> QED  BY <1>1, <2>2, <2>3
    <2>5. Upto(m - 1)
      <3> HIDE DEF Upto
      <3> QED  BY <2>1, <2>4
    <2>6. PICK f \in [0 .. m - 1 -> S] :
             f[0] = base /\ \A k \in 1 .. m - 1 : f[k] = F[f[k - 1], q[k]]
      BY <2>5
    <2> DEFINE g == [k \in 0 .. m |-> IF k = m THEN F[f[m - 1], q[m]] ELSE f[k]]
    <2>7. F[f[m - 1], q[m]] \in S
      <3>1. f[m - 1] \in S /\ q[m] \in T
        <4>1. m - 1 \in 0 .. m - 1
          BY <2>4
        <4> QED  BY <1>1, <2>4, <2>6, <4>1
      <3> QED  BY <3>1
    <2>8. g \in [0 .. m -> S]
      <3>1. \A k \in 0 .. m : k # m => k \in 0 .. m - 1
        OBVIOUS
      <3> QED  BY <2>7, <3>1
    <2>9. g[0] = base
      <3>1. 0 \in 0 .. m /\ 0 # m
        BY <2>4
      <3> QED  BY <2>6, <3>1
    <2>10. ASSUME NEW k \in 1 .. m
           PROVE  g[k] = F[g[k - 1], q[k]]
      <3>1. k - 1 \in 0 .. m /\ k - 1 # m /\ k \in 0 .. m /\ (k # m => k \in 1 .. m - 1)
        OBVIOUS
      <3>2. g[k - 1] = f[k - 1]
        BY <3>1
      <3> QED  BY <2>6, <3>1, <3>2
    <2> HIDE DEF g
    <2>11. Upto(m)
      BY <2>8, <2>9, <2>10
    <2> QED  BY <2>2, <2>11
  <1>3. Upto(Len(q))
    <2>1. Len(q) \in 0 .. Len(q)
      BY <1>1
    <2> HIDE DEF Upto
    <2> QED  BY <1>2, <2>1
  <1> QED  BY <1>3 DEF Steps, Stepped

\* A fold over nothing, over one element, and over two sequences in a row.
Accumulates(S, T, F, base) ==
    /\ Run(F, base, <<>>) = base
    /\ \A x \in T : Run(F, base, <<x>>) = F[base, x]
    /\ \A q \in Seq(T) : Run(F, base, q) \in S
    /\ \A a, b \in Seq(T) : Run(F, base, a \o b) = Run(F, Run(F, base, a), b)

LEMMA RunParts ==
    ASSUME NEW S, NEW T, NEW F, F \in [S \X T -> S], NEW base, base \in S
    PROVE  Accumulates(S, T, F, base)
  <1>1. ASSUME NEW q \in Seq(T)
        PROVE  \E f \in [0 .. Len(q) -> S] :
                  Steps(F, base, q, f) /\ Run(F, base, q) = f[Len(q)] /\ f[Len(q)] \in S
    <2>1. PICK f \in [0 .. Len(q) -> S] : Steps(F, base, q, f)
      BY StepsExist DEF Stepped
    <2>2. Run(F, base, q) = f[Len(q)]
      BY <2>1, RunIs
    <2>3. Len(q) \in 0 .. Len(q)
      BY LenProperties
    <2> QED  BY <2>1, <2>2, <2>3
  <1>2. Run(F, base, <<>>) = base
    <2>1. PICK q \in Seq(T) : q = <<>> /\ Len(q) = 0
      BY EmptySeq
    <2>2. PICK f : Steps(F, base, q, f) /\ Run(F, base, q) = f[Len(q)]
      BY <1>1
    <2>3. f[0] = base
      BY <2>2 DEF Steps
    <2> QED  BY <2>1, <2>2, <2>3
  <1>3. ASSUME NEW x \in T
        PROVE  Run(F, base, <<x>>) = F[base, x]
    <2>1. PICK q : q = <<x>>
      OBVIOUS
    <2>2. q \in Seq(T) /\ Len(q) = 1 /\ q[1] = x
      BY <2>1
    <2>3. PICK f : Steps(F, base, q, f) /\ Run(F, base, q) = f[Len(q)]
      BY <1>1, <2>2
    <2>4. f[0] = base /\ f[1] = F[f[0], q[1]]
      <3>1. 1 \in 1 .. Len(q) /\ 1 - 1 = 0
        BY <2>2
      <3> QED  BY <2>3, <3>1 DEF Steps
    <2> QED  BY <2>1, <2>2, <2>3, <2>4
  <1>4. ASSUME NEW a \in Seq(T), NEW b \in Seq(T)
        PROVE  Run(F, base, a \o b) = Run(F, Run(F, base, a), b)
    <2>1. /\ a \o b \in Seq(T) /\ Len(a \o b) = Len(a) + Len(b)
          /\ Len(a) \in Nat /\ Len(b) \in Nat
          /\ \A n \in 1 .. Len(a) + Len(b) :
                (a \o b)[n] = IF n <= Len(a) THEN a[n] ELSE b[n - Len(a)]
      BY ConcatProperties, LenProperties
    <2> DEFINE c == a \o b
    <2>2. PICK f \in [0 .. Len(c) -> S] : Steps(F, base, c, f) /\ Run(F, base, c) = f[Len(c)]
      BY <1>1, <2>1
    <2> DEFINE g == [n \in 0 .. Len(b) |-> f[Len(a) + n]]
    <2>3. Steps(F, base, a, f)
      <3>1. \A n \in 1 .. Len(a) : n \in 1 .. Len(a) + Len(b) /\ n <= Len(a)
        BY <2>1
      <3> QED  BY <2>1, <2>2, <3>1 DEF Steps
    <2>4. Run(F, base, a) = f[Len(a)]
      BY <2>3, RunIs
    <2>5. Steps(F, f[Len(a)], b, g)
      <3>1. g[0] = f[Len(a)]
        BY <2>1
      <3>2. ASSUME NEW n \in 1 .. Len(b)
            PROVE  g[n] = F[g[n - 1], b[n]]
        <4>1. /\ Len(a) + n \in 1 .. Len(a) + Len(b) /\ ~(Len(a) + n <= Len(a))
              /\ (Len(a) + n) - Len(a) = n /\ (Len(a) + n) - 1 = Len(a) + (n - 1)
              /\ n \in 0 .. Len(b) /\ n - 1 \in 0 .. Len(b)
          BY <2>1
        <4>2. c[Len(a) + n] = b[n]
          BY <2>1, <4>1
        <4>3. f[Len(a) + n] = F[f[(Len(a) + n) - 1], c[Len(a) + n]]
          BY <2>1, <2>2, <4>1 DEF Steps
        <4>4. g[n] = f[Len(a) + n] /\ g[n - 1] = f[Len(a) + (n - 1)]
          BY <4>1
        <4> QED  BY <4>1, <4>2, <4>3, <4>4
      <3> HIDE DEF g
      <3> QED  BY <3>1, <3>2 DEF Steps
    <2>6. g[Len(b)] = f[Len(c)]
      BY <2>1
    <2> HIDE DEF g
    <2>7. Run(F, f[Len(a)], b) = g[Len(b)]
      BY <2>5, RunIs
    <2> QED  BY <2>2, <2>4, <2>6, <2>7
  <1>5. \A q \in Seq(T) : Run(F, base, q) \in S
    BY <1>1
  <1> QED  BY <1>2, <1>3, <1>4, <1>5 DEF Accumulates

\* The recursion by which FoldLeft is defined: h tells the result for the
\* elements at any set of positions.
Gathers(F, base, q, h) ==
    \A s \in SUBSET DOMAIN q :
       h[s] = IF s = {} THEN base ELSE F[h[s \ {Max(s)}], q[Max(s)]]

Gathered(S, F, base, q, h) ==
    /\ h \in [SUBSET DOMAIN q -> S]
    /\ Gathers(F, base, q, h)
    /\ h[DOMAIN q] = Run(F, base, q)

LEMMA GathersExist ==
    ASSUME NEW S, NEW T, NEW F, F \in [S \X T -> S], NEW base, base \in S, NEW q \in Seq(T)
    PROVE  \E h : Gathered(S, F, base, q, h)
  <1>1. /\ Len(q) \in Nat /\ DOMAIN q = 1 .. Len(q)
        /\ \A k \in 1 .. Len(q) : q[k] \in T
    BY LenProperties, ElementOfSeq
  <1>2. PICK f \in [0 .. Len(q) -> S] : Steps(F, base, q, f)
    BY StepsExist DEF Stepped
  <1>3. Run(F, base, q) = f[Len(q)]
    BY <1>2, RunIs
  <1> DEFINE Good(h, n) ==
                /\ h[1 .. n] = f[n]
                /\ \A s \in SUBSET (1 .. n) :
                     h[s] = IF s = {} THEN base ELSE F[h[s \ {Max(s)}], q[Max(s)]]
             B == {n \in 0 .. Len(q) : ~ \E h \in [SUBSET (1 .. n) -> S] : Good(h, n)}
  <1>4. ASSUME B # {}
        PROVE  FALSE
    <2>1. PICK m \in Nat : m \in B /\ \A y \in B : m <= y
      <3> HIDE DEF Good
      <3>1. B \in SUBSET Nat
        BY <1>1
      <3> HIDE DEF B
      <3> QED  BY <1>4, <3>1, LeastElement
    <2>2. m \in 0 .. Len(q) /\ ~ \E h \in [SUBSET (1 .. m) -> S] : Good(h, m)
      <3> HIDE DEF Good
      <3> QED  BY <1>1, <2>1
    <2>3. CASE m = 0
      <3> DEFINE h == [s \in SUBSET (1 .. 0) |-> base]
      <3>1. 1 .. 0 = {} /\ h \in [SUBSET (1 .. 0) -> S] /\ \A s \in SUBSET (1 .. 0) : s = {}
        <4>1. 1 .. 0 = {}
          OBVIOUS
        <4> QED  BY <4>1
      <3>2. h[1 .. 0] = f[0]
        BY <1>2, <3>1 DEF Steps
      <3>3. Good(h, 0)
        BY <3>1, <3>2
      <3> HIDE DEF h, Good
      <3> QED  BY <2>2, <2>3, <3>1, <3>3
    <2>4. CASE m # 0
      <3>1. m \in 1 .. Len(q) /\ m - 1 \in 0 .. Len(q) /\ ~(m <= m - 1)
        <4> HIDE DEF Good
        <4> QED  BY <1>1, <2>2, <2>4
      <3>2. PICK h \in [SUBSET (1 .. m - 1) -> S] : Good(h, m - 1)
        <4> HIDE DEF Good
        <4> QED  BY <2>1, <3>1
      <3> DEFINE g == [s \in SUBSET (1 .. m) |->
                         IF m \in s THEN F[h[s \ {m}], q[m]] ELSE h[s]]
      <3>3. ASSUME NEW s \in SUBSET (1 .. m)
            PROVE  /\ s \ {m} \in SUBSET (1 .. m - 1)
                   /\ m \notin s => s \in SUBSET (1 .. m - 1)
        <4>1. \A k \in 1 .. m : k # m => k \in 1 .. m - 1
          <5>1. m \in Nat
            BY <2>2
          <5> QED  BY <5>1
        <4> QED  BY <4>1
      <3>4. g \in [SUBSET (1 .. m) -> S]
        <4>1. ASSUME NEW s \in SUBSET (1 .. m), m \in s
              PROVE  F[h[s \ {m}], q[m]] \in S
          <5>1. h[s \ {m}] \in S /\ q[m] \in T
            BY <1>1, <3>1, <3>2, <3>3
          <5> QED  BY <5>1
        <4> QED  BY <3>2, <3>3, <4>1
      <3>5. g[1 .. m] = f[m]
        <4>1. m \in 1 .. m /\ (1 .. m) \ {m} = 1 .. m - 1 /\ 1 .. m \in SUBSET (1 .. m)
          <5>1. m \in Nat
            BY <2>2
          <5> QED  BY <2>4, <5>1
        <4>2. g[1 .. m] = F[h[1 .. m - 1], q[m]]
          BY <4>1
        <4>3. h[1 .. m - 1] = f[m - 1]
          BY <3>2
        <4> QED  BY <1>2, <3>1, <4>2, <4>3 DEF Steps
      <3>6. ASSUME NEW s \in SUBSET (1 .. m), s # {}
            PROVE  g[s] = F[g[s \ {Max(s)}], q[Max(s)]]
        <4>1. /\ Max(s) \in s /\ Max(s) \in 1 .. m /\ (m \in s => Max(s) = m)
          <5>0. m \in Nat
            BY <2>2
          <5>1. s \in SUBSET (0 .. m)
            BY <5>0
          <5>2. Max(s) \in s /\ \A y \in s : Max(s) >= y
            BY <3>6, <5>0, <5>1, GreatestElement
          <5>3. PICK x : x = Max(s)
            OBVIOUS
          <5>4. x \in 1 .. m /\ (m \in s => x >= m)
            BY <5>2, <5>3
          <5>5. m \in s => x = m
            BY <5>0, <5>4
          <5> QED  BY <5>2, <5>3, <5>4, <5>5
        <4>2. PICK x : x = Max(s)
          OBVIOUS
        <4>3. CASE m \in s
          <5>1. x = m /\ m \notin s \ {x} /\ s \ {x} \in SUBSET (1 .. m)
            BY <4>1, <4>2, <4>3
          <5>2. g[s] = F[h[s \ {m}], q[m]] /\ g[s \ {x}] = h[s \ {x}]
            BY <4>3, <5>1
          <5> QED  BY <4>2, <5>1, <5>2
        <4>4. CASE m \notin s
          <5>1. s \in SUBSET (1 .. m - 1) /\ s \ {x} \in SUBSET (1 .. m) /\ m \notin s \ {x}
            BY <3>3, <4>4
          <5>2. g[s] = h[s] /\ g[s \ {x}] = h[s \ {x}]
            BY <4>4, <5>1
          <5>3. h[s] = F[h[s \ {x}], q[x]]
            BY <3>2, <3>6, <4>2, <5>1
          <5> QED  BY <4>2, <5>2, <5>3
        <4> QED  BY <4>3, <4>4
      <3>7. g[{}] = base
        <4>1. {} \in SUBSET (1 .. m) /\ {} \in SUBSET (1 .. m - 1) /\ m \notin {}
          OBVIOUS
        <4>2. h[{}] = base
          BY <3>2, <4>1
        <4> QED  BY <4>1, <4>2
      <3> HIDE DEF g
      <3>8. Good(g, m)
        BY <3>5, <3>6, <3>7
      <3> HIDE DEF Good
      <3> QED  BY <2>2, <3>4, <3>8
    <2> QED  BY <2>3, <2>4
  <1>5. PICK h \in [SUBSET (1 .. Len(q)) -> S] : Good(h, Len(q))
    <2>1. Len(q) \in 0 .. Len(q)
      BY <1>1
    <2> HIDE DEF Good
    <2> QED  BY <1>4, <2>1
  <1>6. Gathers(F, base, q, h) /\ h[DOMAIN q] = Run(F, base, q)
    BY <1>1, <1>3, <1>5 DEF Gathers
  <1> QED  BY <1>1, <1>5, <1>6 DEF Gathered

\* Two functions that agree on a set of positions when they agree on it
\* without its last one agree on all of them.
LEMMA GathersAgree ==
    ASSUME NEW T, NEW q \in Seq(T), NEW g, NEW h, g[{}] = h[{}],
           \A s \in SUBSET DOMAIN q :
              s # {} /\ g[s \ {Max(s)}] = h[s \ {Max(s)}] => g[s] = h[s]
    PROVE  g[DOMAIN q] = h[DOMAIN q]
  <1> DEFINE B == {s \in SUBSET DOMAIN q : g[s] # h[s]}
  <1> SUFFICES ASSUME B # {}
               PROVE  FALSE
    OBVIOUS
  <1>1. Len(q) \in Nat /\ DOMAIN q = 1 .. Len(q) /\ IsFiniteSet(DOMAIN q)
    BY LenProperties, FS_Interval
  <1>2. PICK m \in B : \A u \in SUBSET DOMAIN q : Cardinality(u) < Cardinality(m) => u \notin B
    <2>1. B \in SUBSET SUBSET DOMAIN q
      OBVIOUS
    <2> HIDE DEF B
    <2> QED  BY <1>1, <2>1, Smallest
  <1>3. m \in SUBSET DOMAIN q /\ g[m] # h[m] /\ m # {} /\ IsFiniteSet(m)
    BY <1>1, <1>2, FS_Subset
  <1>4. Max(m) \in m
    <2>1. m \in SUBSET (0 .. Len(q))
      BY <1>1, <1>3
    <2> QED  BY <1>1, <1>3, <2>1, GreatestElement
  <1>5. PICK x \in m : x = Max(m)
    BY <1>4
  <1>6. m \ {x} \in SUBSET DOMAIN q /\ Cardinality(m \ {x}) < Cardinality(m)
    BY <1>3, Picked
  <1>7. g[m \ {x}] = h[m \ {x}]
    BY <1>2, <1>6
  <1> QED  BY <1>3, <1>5, <1>7

-----------------------------------------------------------------------------
(* Sequences taken apart and put together.                                 *)

\* The sequence a before the element of q at i, the sequence b after it.
Encloses(S, q, i, a, b) ==
    /\ Len(a) = i - 1 /\ Len(b) = Len(q) - i
    /\ \A n \in 1 .. Len(a) : a[n] = q[n]
    /\ \A n \in 1 .. Len(b) : b[n] = q[i + n]
    /\ q = (a \o <<q[i]>>) \o b
    /\ RemoveAt(q, i) = a \o b
    /\ \A e \in S : [q EXCEPT ![i] = e] = (a \o <<e>>) \o b

\* The sequence a before the place i of q, the sequence b from there on.
Parts(S, q, i, a, b) ==
    /\ Len(a) = i - 1 /\ Len(b) = Len(q) - i + 1
    /\ \A n \in 1 .. Len(a) : a[n] = q[n]
    /\ \A n \in 1 .. Len(b) : b[n] = q[i + n - 1]
    /\ q = a \o b
    /\ \A e \in S : InsertAt(q, i, e) = (a \o <<e>>) \o b

\* A sequence around one of its elements.
LEMMA Around ==
    ASSUME NEW S, NEW q \in Seq(S), NEW i \in 1 .. Len(q)
    PROVE  \E a, b \in Seq(S) : Encloses(S, q, i, a, b)
  <1> DEFINE a == SubSeq(q, 1, i - 1)
             b == SubSeq(q, i + 1, Len(q))
  <1>1. Len(q) \in Nat /\ DOMAIN q = 1 .. Len(q) /\ \A n \in 1 .. Len(q) : q[n] \in S
    BY LenProperties, ElementOfSeq
  <1>2. /\ a \in Seq(S) /\ Len(a) = i - 1
        /\ \A n \in 1 .. i - 1 : a[n] = q[n]
    BY <1>1, SubSeqProperties
  <1>3. /\ b \in Seq(S) /\ Len(b) = Len(q) - i
        /\ \A n \in 1 .. Len(q) - i : b[n] = q[i + n]
    <2>1. /\ i + 1 \in Int /\ Len(q) \in Int
          /\ \A n \in i + 1 .. Len(q) : q[n] \in S
      BY <1>1
    <2>2. /\ b \in Seq(S)
          /\ Len(b) = IF i + 1 <= Len(q) THEN Len(q) - (i + 1) + 1 ELSE 0
          /\ \A n \in 1 .. Len(q) - (i + 1) + 1 : b[n] = q[(i + 1) + n - 1]
      BY <2>1, SubSeqProperties
    <2> HIDE DEF b
    <2>3. Len(b) = Len(q) - i
      <3>1. PICK l \in Nat : l = Len(q) /\ i \in 1 .. l
        BY <1>1
      <3> QED  BY <2>2, <3>1
    <2>4. ASSUME NEW n \in 1 .. Len(q) - i PROVE b[n] = q[i + n]
      <3>1. n \in 1 .. Len(q) - (i + 1) + 1 /\ (i + 1) + n - 1 = i + n
        BY <1>1
      <3> QED  BY <2>2, <3>1
    <2> QED  BY <2>2, <2>3, <2>4
  <1>4. RemoveAt(q, i) = a \o b
    BY DEF RemoveAt
  <1> HIDE DEF a, b
  <1>5. ASSUME NEW e \in S
        PROVE  [q EXCEPT ![i] = e] = (a \o <<e>>) \o b
    <2> DEFINE c == <<e>>
               d == a \o c
               r == [q EXCEPT ![i] = e]
    <2>1. c \in Seq(S) /\ Len(c) = 1 /\ c[1] = e
      OBVIOUS
    <2> HIDE DEF c
    <2>a. /\ d \in Seq(S) /\ Len(d) = Len(a) + Len(c)
          /\ \A n \in 1 .. Len(a) + Len(c) : d[n] = IF n <= Len(a) THEN a[n] ELSE c[n - Len(a)]
      BY <1>2, <2>1, ConcatProperties
    <2> HIDE DEF d
    <2>b. i \in Nat
      BY <1>1
    <2>c. Len(a) + Len(c) = i
      BY <1>2, <2>1, <2>b
    <2>d. ASSUME NEW n \in 1 .. i PROVE d[n] = IF n < i THEN q[n] ELSE e
      <3>1. CASE n < i
        <4>1. n \in 1 .. i - 1 /\ n <= Len(a)
          BY <1>2, <2>b, <3>1
        <4> QED  BY <1>2, <2>a, <2>c, <3>1, <4>1
      <3>2. CASE ~(n < i)
        <4>1. ~(n <= Len(a)) /\ n - Len(a) = 1
          BY <1>2, <2>b, <3>2
        <4> QED  BY <2>1, <2>a, <2>c, <3>2, <4>1
      <3> QED  BY <3>1, <3>2
    <2>2. /\ d \in Seq(S) /\ Len(d) = i
          /\ \A n \in 1 .. i : d[n] = IF n < i THEN q[n] ELSE e
      BY <2>a, <2>c, <2>d
    <2>3. /\ d \o b \in Seq(S) /\ Len(d \o b) = Len(d) + Len(b)
          /\ \A n \in 1 .. Len(d) + Len(b) :
                (d \o b)[n] = IF n <= Len(d) THEN d[n] ELSE b[n - Len(d)]
      BY <1>3, <2>2, ConcatProperties
    <2>4. /\ r \in Seq(S) /\ Len(r) = Len(q)
          /\ \A n \in 1 .. Len(q) : r[n] = IF n = i THEN e ELSE q[n]
      BY ExceptSeq
    <2> HIDE DEF r
    <2>5. Len(d) + Len(b) = Len(q)
      BY <1>1, <1>3, <2>2
    <2>6. ASSUME NEW n \in 1 .. Len(q)
          PROVE  r[n] = (d \o b)[n]
      <3>1. CASE n <= i
        <4>1. n \in 1 .. i /\ (n = i \/ n < i) /\ ~(n = i /\ n < i)
          BY <1>1, <3>1
        <4> QED  BY <2>2, <2>3, <2>4, <2>5, <3>1, <4>1
      <3>2. CASE n > i
        <4>1. n - i \in 1 .. Len(q) - i /\ i + (n - i) = n /\ n # i /\ ~(n <= i)
          BY <1>1, <3>2
        <4> QED  BY <1>3, <2>2, <2>3, <2>4, <2>5, <4>1
      <3>3. n <= i \/ n > i
        BY <1>1
      <3> QED  BY <3>1, <3>2, <3>3
    <2>7. r = d \o b
      BY <2>3, <2>4, <2>5, <2>6, SeqEqual
    <2> QED  BY <2>7 DEF r, d, c
  <1>6. q = (a \o <<q[i]>>) \o b
    <2>1. q[i] \in S /\ [q EXCEPT ![i] = q[i]] = q
      BY <1>1, LenProperties
    <2> QED  BY <1>5, <2>1
  <1>7. /\ \A n \in 1 .. Len(a) : a[n] = q[n]
        /\ \A n \in 1 .. Len(b) : b[n] = q[i + n]
    BY <1>2, <1>3
  <1> QED  BY <1>2, <1>3, <1>4, <1>5, <1>6, <1>7 DEF Encloses

\* A sequence around a place between its elements.
LEMMA Between ==
    ASSUME NEW S, NEW q \in Seq(S), NEW i \in 1 .. Len(q) + 1
    PROVE  \E a, b \in Seq(S) : Parts(S, q, i, a, b)
  <1> DEFINE a == SubSeq(q, 1, i - 1)
             b == SubSeq(q, i, Len(q))
  <1>1. Len(q) \in Nat /\ DOMAIN q = 1 .. Len(q) /\ \A n \in 1 .. Len(q) : q[n] \in S
    BY LenProperties, ElementOfSeq
  <1>2. /\ a \in Seq(S) /\ Len(a) = i - 1
        /\ \A n \in 1 .. i - 1 : a[n] = q[n]
    BY <1>1, SubSeqProperties
  <1>3. /\ b \in Seq(S) /\ Len(b) = Len(q) - i + 1
        /\ \A n \in 1 .. Len(q) - i + 1 : b[n] = q[i + n - 1]
    BY <1>1, SubSeqProperties
  <1>4. \A e \in S : InsertAt(q, i, e) = (a \o <<e>>) \o b
    BY DEF InsertAt
  <1>5. q = a \o b
    <2>1. /\ 1 \in 1 .. Len(q) + 1 /\ i - 1 \in 1 - 1 .. Len(q) /\ Len(q) \in i - 1 .. Len(q)
          /\ (i - 1) + 1 = i
      BY <1>1
    <2>2. SubSeq(q, 1, i - 1) \o SubSeq(q, (i - 1) + 1, Len(q)) = SubSeq(q, 1, Len(q))
      BY <2>1, ConcatAdjacentSubSeq
    <2>3. SubSeq(q, 1, Len(q)) = q
      BY SubSeqFull
    <2> QED  BY <2>1, <2>2, <2>3
  <1> HIDE DEF a, b
  <1> QED  BY <1>2, <1>3, <1>4, <1>5 DEF Parts

\* Insertion and removal between two parts.
Wedged(S, x, y, e) ==
    /\ InsertAt(x \o y, Len(x) + 1, e) = (x \o <<e>>) \o y
    /\ RemoveAt((x \o <<e>>) \o y, Len(x) + 1) = x \o y
    /\ ((x \o <<e>>) \o y)[Len(x) + 1] = e
    /\ (x \o <<e>>) \o y \in Seq(S)
    /\ Len((x \o <<e>>) \o y) = Len(x) + 1 + Len(y)
    /\ \A n \in 1 .. Len(x) : ((x \o <<e>>) \o y)[n] = x[n]
    /\ \A n \in 1 .. Len(y) : ((x \o <<e>>) \o y)[Len(x) + 1 + n] = y[n]

LEMMA Wedge ==
    ASSUME NEW S, NEW x \in Seq(S), NEW y \in Seq(S), NEW e \in S
    PROVE  Wedged(S, x, y, e)
  <1>0. PICK i \in Nat \ {0} : i = Len(x) + 1
    BY LenProperties
  <1> DEFINE q == x \o y
  <1>1. /\ Len(x) \in Nat /\ Len(y) \in Nat /\ q \in Seq(S) /\ Len(q) = Len(x) + Len(y)
        /\ \A n \in 1 .. Len(x) + Len(y) :
              q[n] = IF n <= Len(x) THEN x[n] ELSE y[n - Len(x)]
    BY LenProperties, ConcatProperties
  <1> HIDE DEF q
  <1>2. i \in 1 .. Len(q) + 1
    BY <1>0, <1>1
  <1>3. PICK a, b \in Seq(S) : Parts(S, q, i, a, b)
    BY <1>1, <1>2, Between
  <1>13. /\ Len(a) = i - 1 /\ Len(b) = Len(q) - i + 1
         /\ \A n \in 1 .. Len(a) : a[n] = q[n]
         /\ \A n \in 1 .. Len(b) : b[n] = q[i + n - 1]
         /\ \A f \in S : InsertAt(q, i, f) = (a \o <<f>>) \o b
    BY <1>3 DEF Parts
  <1>4. a = x
    <2>1. Len(a) = Len(x)
      BY <1>0, <1>1, <1>13
    <2>2. \A n \in 1 .. Len(a) : a[n] = x[n]
      BY <1>1, <1>13, <2>1
    <2> QED  BY <2>1, <2>2, SeqEqual
  <1>5. b = y
    <2>1. Len(b) = Len(y)
      BY <1>0, <1>1, <1>13
    <2>2. ASSUME NEW n \in 1 .. Len(b) PROVE b[n] = y[n]
      <3>1. /\ i + n - 1 \in 1 .. Len(x) + Len(y) /\ ~(i + n - 1 <= Len(x))
            /\ (i + n - 1) - Len(x) = n
        BY <1>0, <1>1, <2>1
      <3> QED  BY <1>1, <1>13, <3>1
    <2> QED  BY <2>1, <2>2, SeqEqual
  <1> DEFINE c == <<e>>
             d == x \o c
             r == d \o y
  <1>6. c \in Seq(S) /\ Len(c) = 1 /\ c[1] = e
    OBVIOUS
  <1> HIDE DEF c
  <1>7. /\ d \in Seq(S) /\ Len(d) = i
        /\ \A n \in 1 .. i : d[n] = IF n <= Len(x) THEN x[n] ELSE c[n - Len(x)]
    <2>1. /\ d \in Seq(S) /\ Len(d) = Len(x) + Len(c)
          /\ \A n \in 1 .. Len(x) + Len(c) :
                d[n] = IF n <= Len(x) THEN x[n] ELSE c[n - Len(x)]
      BY <1>6, ConcatProperties
    <2>2. Len(x) + Len(c) = i
      BY <1>0, <1>6
    <2> QED  BY <2>1, <2>2
  <1> HIDE DEF d
  <1>8. /\ r \in Seq(S) /\ Len(r) = i + Len(y)
        /\ \A n \in 1 .. i + Len(y) : r[n] = IF n <= i THEN d[n] ELSE y[n - i]
    <2>1. /\ r \in Seq(S) /\ Len(r) = Len(d) + Len(y)
          /\ \A n \in 1 .. Len(d) + Len(y) :
                r[n] = IF n <= Len(d) THEN d[n] ELSE y[n - Len(d)]
      BY <1>7, ConcatProperties
    <2> QED  BY <1>7, <2>1
  <1> HIDE DEF r
  <1>9. r[i] = e
    <2>1. i \in 1 .. i /\ i \in 1 .. i + Len(y) /\ ~(i <= Len(x)) /\ i - Len(x) = 1 /\ i <= i
      BY <1>0, <1>1
    <2> QED  BY <1>6, <1>7, <1>8, <2>1
  <1>10. ASSUME NEW n \in 1 .. Len(x) PROVE r[n] = x[n]
    <2>1. n \in 1 .. i /\ n \in 1 .. i + Len(y) /\ n <= Len(x) /\ n <= i
      BY <1>0, <1>1
    <2> QED  BY <1>7, <1>8, <2>1
  <1>11. ASSUME NEW n \in 1 .. Len(y) PROVE r[i + n] = y[n]
    <2>1. i + n \in 1 .. i + Len(y) /\ ~(i + n <= i) /\ (i + n) - i = n
      BY <1>0, <1>1
    <2> QED  BY <1>8, <2>1
  <1>12. RemoveAt(r, i) = q
    <2>0. i \in 1 .. Len(r)
      BY <1>1, <1>8
    <2>4. PICK u, v \in Seq(S) : Encloses(S, r, i, u, v)
      BY <1>8, <2>0, Around
    <2>1. /\ Len(u) = i - 1 /\ Len(v) = Len(r) - i
          /\ \A n \in 1 .. Len(u) : u[n] = r[n]
          /\ \A n \in 1 .. Len(v) : v[n] = r[i + n]
          /\ RemoveAt(r, i) = u \o v
      BY <2>4 DEF Encloses
    <2>2. Len(u) = Len(x) /\ Len(v) = Len(y)
      <3>1. Len(u) = i - 1 /\ Len(v) = (i + Len(y)) - i
        BY <1>8, <2>1
      <3> QED  BY <1>0, <1>1, <3>1
    <2>3. u = x /\ v = y
      BY <1>10, <1>11, <2>1, <2>2, SeqEqual
    <2> QED  BY <2>1, <2>3 DEF q
  <1> QED  BY <1>0, <1>13, <1>4, <1>5, <1>8, <1>9, <1>10, <1>11, <1>12
           DEF Wedged, q, r, d, c
================================================================================
