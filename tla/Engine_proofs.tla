----------------------------- MODULE Engine_proofs -----------------------------
(***************************************************************************)
(* Proofs about Engine, for any requests and any number of them: the book  *)
(* is sound between two orders, the index and the book agree, a fok order  *)
(* is filled whole or not at all, and the engine implements the reference  *)
(* book of the correctness oracle.  Then, from the same lemmas on books,   *)
(* proofs about Validation, where that oracle judges an engine: what its   *)
(* verdict is worth, whatever runs, timeouts and late orders come between. *)
(***************************************************************************)
EXTENDS Engine, Validation, DataLemmas

Resting == [id : Int, client : Int, qty : Nat \ {0}]

Sorted(side, ls) == \A j, k \in DOMAIN ls : j < k => Better(side, ls[j].px, ls[k].px)

\* new holds the orders of old but those at the places in gone: h tells from
\* where each of them came.
Moves(h, new, old, gone) ==
    /\ \A p \in Places(new) :
          /\ h[p] \notin gone
          /\ new[p[1]].px = old[h[p][1]].px
          /\ At(new, p).id = At(old, h[p]).id
          /\ At(new, p).client = At(old, h[p]).client
    /\ \A p, q \in Places(new) : h[p] = h[q] => p = q
    /\ \A q \in Places(old) \ gone : \E p \in Places(new) : h[p] = q

Shrinks(new, old, gone) ==
    \E h \in [Places(new) -> Places(old)] : Moves(h, new, old, gone)

\* The same, and nobody else traded.
Leaves(new, old, gone) ==
    \E h \in [Places(new) -> Places(old)] :
       Moves(h, new, old, gone) /\ \A p \in Places(new) : At(new, p) = At(old, h[p])

-----------------------------------------------------------------------------
(* Places.                                                                 *)

LEMMA LevelParts ==
    ASSUME NEW ls \in Seq(Level)
    PROVE  /\ Len(ls) \in Nat /\ DOMAIN ls = 1 .. Len(ls)
           /\ \A k \in 1 .. Len(ls) :
                 /\ ls[k] \in Level
                 /\ ls[k].px \in Nat \ {0} /\ ls[k].orders \in Seq(Resting)
                 /\ Len(ls[k].orders) \in Nat
                 /\ DOMAIN ls[k].orders = 1 .. Len(ls[k].orders)
                 /\ \A j \in 1 .. Len(ls[k].orders) : ls[k].orders[j] \in Resting
  <1>1. /\ Len(ls) \in Nat /\ DOMAIN ls = 1 .. Len(ls)
        /\ \A k \in 1 .. Len(ls) : ls[k] \in Level
    BY LenProperties, ElementOfSeq
  <1>2. \A l \in Level : l.px \in Nat \ {0} /\ l.orders \in Seq(Resting)
    BY DEF Level, Resting
  <1>3. \A q \in Seq(Resting) : /\ Len(q) \in Nat /\ DOMAIN q = 1 .. Len(q)
                                /\ \A j \in 1 .. Len(q) : q[j] \in Resting
    BY LenProperties, ElementOfSeq
  <1> QED  BY <1>1, <1>2, <1>3

LEMMA PlaceOf ==
    ASSUME NEW ls \in Seq(Level)
    PROVE  /\ \A k \in 1 .. Len(ls) : \A j \in 1 .. Len(ls[k].orders) :
                 <<k, j>> \in Places(ls)
           /\ \A p \in Places(ls) :
                 /\ p = <<p[1], p[2]>>
                 /\ p[1] \in 1 .. Len(ls) /\ p[2] \in 1 .. Len(ls[p[1]].orders)
                 /\ At(ls, p) \in Resting
                 /\ At(ls, p) = ls[p[1]].orders[p[2]]
  <1>1. /\ DOMAIN ls = 1 .. Len(ls)
        /\ \A k \in 1 .. Len(ls) :
              /\ DOMAIN ls[k].orders = 1 .. Len(ls[k].orders)
              /\ \A j \in 1 .. Len(ls[k].orders) : ls[k].orders[j] \in Resting
    BY LevelParts
  <1>2. ASSUME NEW p \in Places(ls)
        PROVE  /\ p = <<p[1], p[2]>>
               /\ p[1] \in 1 .. Len(ls) /\ p[2] \in 1 .. Len(ls[p[1]].orders)
    <2>1. PICK k \in DOMAIN ls : p \in {k} \X DOMAIN ls[k].orders
      BY DEF Places
    <2> QED  BY <1>1, <2>1
  <1>3. ASSUME NEW k \in 1 .. Len(ls), NEW j \in 1 .. Len(ls[k].orders)
        PROVE  <<k, j>> \in Places(ls)
    BY <1>1 DEF Places
  <1> QED  BY <1>1, <1>2, <1>3 DEF At

\* A level less: the places of the levels behind it move up.
LEMMA LevelGone ==
    ASSUME NEW old \in Seq(Level), NEW new \in Seq(Level), NEW i \in 1 .. Len(old),
           Len(new) = Len(old) - 1,
           \A n \in 1 .. Len(old) - 1 : new[n] = IF n < i THEN old[n] ELSE old[n + 1]
    PROVE  /\ Shrinks(new, old, {i} \X (1 .. Len(old[i].orders)))
           /\ Leaves(new, old, {i} \X (1 .. Len(old[i].orders)))
  <1> DEFINE up(k) == IF k < i THEN k ELSE k + 1
             h == [p \in Places(new) |-> <<up(p[1]), p[2]>>]
             gone == {i} \X (1 .. Len(old[i].orders))
  <1>0. Len(old) \in Int /\ i \in Int /\ 1 <= i /\ i <= Len(old)
    BY LevelParts
  <1>1. ASSUME NEW k \in 1 .. Len(new)
        PROVE  up(k) \in 1 .. Len(old) /\ up(k) # i /\ new[k] = old[up(k)]
    <2>1. k \in Int /\ 1 <= k /\ k <= Len(old) - 1
      BY <1>0
    <2>2. CASE k < i
      BY <1>0, <2>1, <2>2
    <2>3. CASE ~(k < i)
      BY <1>0, <2>1, <2>3
    <2> QED  BY <2>2, <2>3
  <1>2. ASSUME NEW k \in 1 .. Len(old), k # i
        PROVE  \E m \in 1 .. Len(new) : up(m) = k
    <2>1. k \in Int /\ 1 <= k /\ k <= Len(old)
      BY <1>0
    <2>2. CASE k < i
      <3>1. k \in 1 .. Len(new) /\ up(k) = k
        BY <1>0, <2>1, <2>2
      <3> QED  BY <3>1
    <2>3. CASE k > i
      <3>1. k - 1 \in 1 .. Len(new) /\ up(k - 1) = k
        BY <1>0, <2>1, <2>3
      <3> QED  BY <3>1
    <2>4. k < i \/ k > i
      BY <1>0, <1>2, <2>1
    <2> QED  BY <2>2, <2>3, <2>4
  <1>3. \A k, m \in 1 .. Len(new) : up(k) = up(m) => k = m
    BY <1>0
  <1> HIDE DEF up
  <1>4. ASSUME NEW p \in Places(new)
        PROVE  /\ h[p] = <<up(p[1]), p[2]>> /\ p = <<p[1], p[2]>>
               /\ p[1] \in 1 .. Len(new)
               /\ h[p] \in Places(old) /\ h[p] \notin gone
               /\ new[p[1]].px = old[h[p][1]].px
               /\ At(new, p) = At(old, h[p])
    <2>1. /\ p = <<p[1], p[2]>>
          /\ p[1] \in 1 .. Len(new) /\ p[2] \in 1 .. Len(new[p[1]].orders)
      BY PlaceOf
    <2>2. up(p[1]) \in 1 .. Len(old) /\ up(p[1]) # i /\ new[p[1]] = old[up(p[1])]
      BY <1>1, <2>1
    <2>3. <<up(p[1]), p[2]>> \in Places(old)
      BY <2>1, <2>2, PlaceOf
    <2> QED  BY <2>1, <2>2, <2>3 DEF At
  <1>5. ASSUME NEW p \in Places(new), NEW q \in Places(new), h[p] = h[q]
        PROVE  p = q
    <2>1. up(p[1]) = up(q[1]) /\ p[2] = q[2]
      BY <1>4, <1>5
    <2>2. p[1] \in 1 .. Len(new) /\ q[1] \in 1 .. Len(new)
      BY <1>4
    <2>3. p[1] = q[1]
      BY <1>3, <2>1, <2>2
    <2>4. p = <<p[1], p[2]>> /\ q = <<q[1], q[2]>>
      BY <1>4
    <2> QED  BY <2>1, <2>3, <2>4
  <1>6. ASSUME NEW q \in Places(old) \ gone
        PROVE  \E p \in Places(new) : h[p] = q
    <2>1. /\ q = <<q[1], q[2]>>
          /\ q[1] \in 1 .. Len(old) /\ q[2] \in 1 .. Len(old[q[1]].orders)
      BY PlaceOf
    <2>2. q[1] # i
      BY <2>1
    <2>3. PICK m \in 1 .. Len(new) : up(m) = q[1]
      BY <1>2, <2>1, <2>2
    <2>4. <<m, q[2]>> \in Places(new)
      BY <1>1, <2>1, <2>3, PlaceOf
    <2> QED  BY <2>1, <2>3, <2>4
  <1> HIDE DEF gone
  <1>7. h \in [Places(new) -> Places(old)]
    BY <1>4
  <1> HIDE DEF h
  <1>8. Moves(h, new, old, gone) /\ \A p \in Places(new) : At(new, p) = At(old, h[p])
    BY <1>4, <1>5, <1>6 DEF Moves
  <1> QED  BY <1>7, <1>8 DEF Shrinks, Leaves, gone

\* An order less in a level: those behind it move up.
LEMMA OrderGone ==
    ASSUME NEW old \in Seq(Level), NEW new \in Seq(Level), NEW i \in 1 .. Len(old),
           Len(new) = Len(old),
           \A k \in 1 .. Len(old) : new[k].px = old[k].px /\ (k # i => new[k] = old[k]),
           NEW j \in 1 .. Len(old[i].orders),
           Len(new[i].orders) = Len(old[i].orders) - 1,
           \A n \in 1 .. Len(old[i].orders) - 1 :
              new[i].orders[n] = IF n < j THEN old[i].orders[n] ELSE old[i].orders[n + 1]
    PROVE  Shrinks(new, old, {<<i, j>>}) /\ Leaves(new, old, {<<i, j>>})
  <1> DEFINE up(k, n) == IF k = i /\ ~(n < j) THEN n + 1 ELSE n
             h == [p \in Places(new) |-> <<p[1], up(p[1], p[2])>>]
             gone == {<<i, j>>}
  <1>0. /\ Len(old[i].orders) \in Int /\ j \in Int /\ 1 <= j /\ j <= Len(old[i].orders)
        /\ \A k \in 1 .. Len(old) : Len(new[k].orders) \in Int
    BY LevelParts
  <1>1. ASSUME NEW k \in 1 .. Len(new), NEW n \in 1 .. Len(new[k].orders)
        PROVE  /\ up(k, n) \in 1 .. Len(old[k].orders)
               /\ ~(k = i /\ up(k, n) = j)
               /\ new[k].orders[n] = old[k].orders[up(k, n)]
    <2>1. n \in Int /\ 1 <= n /\ n <= Len(new[k].orders)
      BY <1>0
    <2>2. CASE k # i
      BY <2>1, <2>2
    <2>3. CASE k = i /\ n < j
      <3>1. n \in 1 .. Len(old[i].orders) - 1 /\ n \in 1 .. Len(old[i].orders)
        BY <1>0, <2>1, <2>3
      <3>2. up(k, n) = n
        BY <2>3
      <3>3. new[i].orders[n] = old[i].orders[n]
        BY <2>3, <3>1
      <3>4. n # j
        BY <1>0, <2>1, <2>3
      <3> HIDE DEF up
      <3> QED  BY <2>3, <3>1, <3>2, <3>3, <3>4
    <2>4. CASE k = i /\ ~(n < j)
      BY <1>0, <2>1, <2>4
    <2> QED  BY <2>2, <2>3, <2>4
  <1>2. ASSUME NEW k \in 1 .. Len(old), NEW n \in 1 .. Len(old[k].orders), ~(k = i /\ n = j)
        PROVE  \E m \in 1 .. Len(new[k].orders) : up(k, m) = n
    <2>1. n \in Int /\ 1 <= n /\ n <= Len(old[k].orders)
      BY LevelParts
    <2>2. CASE k # i
      BY <2>2
    <2>3. CASE k = i /\ n < j
      <3>1. n \in 1 .. Len(new[k].orders) /\ up(k, n) = n
        BY <1>0, <2>1, <2>3
      <3> QED  BY <3>1
    <2>4. CASE k = i /\ n > j
      <3>1. n - 1 \in 1 .. Len(new[k].orders) /\ up(k, n - 1) = n
        BY <1>0, <2>1, <2>4
      <3> QED  BY <3>1
    <2>5. k # i \/ n < j \/ n > j
      BY <1>0, <1>2, <2>1
    <2> QED  BY <2>2, <2>3, <2>4, <2>5
  <1>3. \A k \in 1 .. Len(new) : \A m, n \in 1 .. Len(new[k].orders) :
           up(k, m) = up(k, n) => m = n
    BY <1>0
  <1> HIDE DEF up
  <1>4. ASSUME NEW p \in Places(new)
        PROVE  /\ h[p] = <<p[1], up(p[1], p[2])>> /\ p = <<p[1], p[2]>>
               /\ p[1] \in 1 .. Len(new) /\ p[2] \in 1 .. Len(new[p[1]].orders)
               /\ h[p] \in Places(old) /\ h[p] \notin gone
               /\ new[p[1]].px = old[h[p][1]].px
               /\ At(new, p) = At(old, h[p])
    <2>1. /\ p = <<p[1], p[2]>>
          /\ p[1] \in 1 .. Len(new) /\ p[2] \in 1 .. Len(new[p[1]].orders)
      BY PlaceOf
    <2>2. /\ up(p[1], p[2]) \in 1 .. Len(old[p[1]].orders)
          /\ ~(p[1] = i /\ up(p[1], p[2]) = j)
          /\ new[p[1]].orders[p[2]] = old[p[1]].orders[up(p[1], p[2])]
      BY <1>1, <2>1
    <2>3. <<p[1], up(p[1], p[2])>> \in Places(old)
      BY <2>1, <2>2, PlaceOf
    <2> QED  BY <2>1, <2>2, <2>3 DEF At
  <1>5. ASSUME NEW p \in Places(new), NEW q \in Places(new), h[p] = h[q]
        PROVE  p = q
    <2>1. p[1] = q[1] /\ up(p[1], p[2]) = up(q[1], q[2])
      BY <1>4, <1>5
    <2>2. /\ p[1] \in 1 .. Len(new)
          /\ p[2] \in 1 .. Len(new[p[1]].orders) /\ q[2] \in 1 .. Len(new[p[1]].orders)
      BY <1>4, <2>1
    <2>3. p[2] = q[2]
      BY <1>3, <2>1, <2>2
    <2>4. p = <<p[1], p[2]>> /\ q = <<q[1], q[2]>>
      BY <1>4
    <2> QED  BY <2>1, <2>3, <2>4
  <1>6. ASSUME NEW q \in Places(old) \ gone
        PROVE  \E p \in Places(new) : h[p] = q
    <2>1. /\ q = <<q[1], q[2]>>
          /\ q[1] \in 1 .. Len(old) /\ q[2] \in 1 .. Len(old[q[1]].orders)
      BY PlaceOf
    <2>2. PICK m \in 1 .. Len(new[q[1]].orders) : up(q[1], m) = q[2]
      BY <1>2, <2>1
    <2>3. <<q[1], m>> \in Places(new)
      BY <2>1, <2>2, PlaceOf
    <2> QED  BY <2>1, <2>2, <2>3
  <1>7. h \in [Places(new) -> Places(old)]
    BY <1>4
  <1> HIDE DEF h, gone
  <1>8. Moves(h, new, old, gone) /\ \A p \in Places(new) : At(new, p) = At(old, h[p])
    BY <1>4, <1>5, <1>6 DEF Moves
  <1> QED  BY <1>7, <1>8 DEF Shrinks, Leaves, gone

\* The same orders, whatever they are still good for.
LEMMA NoneGone ==
    ASSUME NEW old \in Seq(Level), NEW new \in Seq(Level), Len(new) = Len(old),
           \A k \in 1 .. Len(old) :
              /\ new[k].px = old[k].px
              /\ Len(new[k].orders) = Len(old[k].orders)
              /\ \A j \in 1 .. Len(old[k].orders) :
                    /\ new[k].orders[j].id = old[k].orders[j].id
                    /\ new[k].orders[j].client = old[k].orders[j].client
    PROVE  Shrinks(new, old, {})
  <1> DEFINE h == [p \in Places(new) |-> p]
  <1>1. ASSUME NEW p \in Places(new)
        PROVE  /\ p \in Places(old)
               /\ new[p[1]].px = old[p[1]].px
               /\ At(new, p).id = At(old, p).id
               /\ At(new, p).client = At(old, p).client
    BY PlaceOf DEF At
  <1>2. ASSUME NEW p \in Places(old)
        PROVE  p \in Places(new)
    BY PlaceOf
  <1>3. h \in [Places(new) -> Places(old)] /\ \A p \in Places(new) : h[p] = p
    BY <1>1
  <1> HIDE DEF h
  <1> QED  BY <1>1, <1>2, <1>3 DEF Shrinks, Moves

-----------------------------------------------------------------------------
(* Quantities.                                                             *)

Size(ls) == [p \in Places(ls) |-> At(ls, p).qty]

LEMMA QuantityIsTotal ==
    ASSUME NEW ls \in Seq(Level)
    PROVE  /\ IsFiniteSet(Places(ls))
           /\ \A p \in Places(ls) : Size(ls)[p] = At(ls, p).qty /\ Size(ls)[p] \in Nat
           /\ \A ps \in SUBSET Places(ls) :
                 /\ IsFiniteSet(ps)
                 /\ Quantity(ls, ps) = Total(Size(ls), ps)
                 /\ Quantity(ls, ps) \in Nat
                 /\ ps = {} => Quantity(ls, ps) = 0
  <1>1. IsFiniteSet(Places(ls))
    <2> DEFINE row(k) == {k} \X DOMAIN ls[k].orders
               rows == {row(k) : k \in DOMAIN ls}
    <2>1. /\ DOMAIN ls = 1 .. Len(ls) /\ Len(ls) \in Nat
          /\ \A k \in DOMAIN ls : /\ DOMAIN ls[k].orders = 1 .. Len(ls[k].orders)
                                  /\ Len(ls[k].orders) \in Nat
      BY LevelParts
    <2>2. \A n \in Nat : IsFiniteSet(1 .. n)
      BY FS_Interval
    <2>3. ASSUME NEW k \in DOMAIN ls
          PROVE  IsFiniteSet(row(k))
      <3>1. IsFiniteSet(DOMAIN ls[k].orders)
        BY <2>1, <2>2
      <3>2. IsFiniteSet({k})
        BY FS_Singleton
      <3> QED  BY <3>1, <3>2, FS_Product
    <2>4. IsFiniteSet(rows)
      <3>1. PICK f : f = [k \in DOMAIN ls |-> row(k)]
        OBVIOUS
      <3>2. f \in Surjection(DOMAIN ls, rows)
        <4> HIDE DEF row
        <4> QED  BY <3>1 DEF Surjection
      <3>3. IsFiniteSet(DOMAIN ls)
        BY <2>1, <2>2
      <3> HIDE DEF rows
      <3> QED  BY <3>2, <3>3, FS_Surjection
    <2>5. Places(ls) = UNION rows
      BY DEF Places
    <2>6. \A T \in rows : IsFiniteSet(T)
      BY <2>3
    <2> HIDE DEF rows
    <2> QED  BY <2>4, <2>5, <2>6, FS_UNION
  <1>2. \A p \in Places(ls) : Size(ls)[p] = At(ls, p).qty /\ Size(ls)[p] \in Nat
    BY PlaceOf DEF Size, Resting
  <1>3. ASSUME NEW ps \in SUBSET Places(ls)
        PROVE  /\ IsFiniteSet(ps)
               /\ Quantity(ls, ps) = Total(Size(ls), ps)
               /\ Quantity(ls, ps) \in Nat
               /\ ps = {} => Quantity(ls, ps) = 0
    <2>1. IsFiniteSet(ps)
      BY <1>1, FS_Subset
    <2>2. Quantity(ls, ps) = Total([p \in ps |-> At(ls, p).qty], ps)
      BY ZenonT(60) DEF Quantity, Total, MapThenSumSet, MapThenFoldSet
    <2>3. PICK u : u = [p \in ps |-> At(ls, p).qty]
      OBVIOUS
    <2>4. \A p \in ps : Size(ls)[p] \in Nat /\ u[p] = Size(ls)[p]
      BY <1>2, <2>3
    <2>5. Total(u, ps) = Total(Size(ls), ps)
      BY <2>1, <2>4, TotalSame
    <2>6. Total(Size(ls), ps) \in Nat /\ (ps = {} => Total(Size(ls), ps) = 0)
      BY <2>1, <2>4, TotalParts
    <2> QED  BY <2>1, <2>2, <2>3, <2>5, <2>6
  <1> QED  BY <1>1, <1>2, <1>3

\* One order less is its quantity less.
LEMMA OneLess ==
    ASSUME NEW ls \in Seq(Level), NEW ps \in SUBSET Places(ls), NEW g \in ps
    PROVE  Quantity(ls, ps) = At(ls, g).qty + Quantity(ls, ps \ {g})
  <1>1. IsFiniteSet(ps) /\ \A p \in ps : Size(ls)[p] \in Nat
    BY QuantityIsTotal
  <1>2. Total(Size(ls), ps) = Size(ls)[g] + Total(Size(ls), ps \ {g})
    BY <1>1, TotalParts
  <1>3. ps \ {g} \in SUBSET Places(ls)
    OBVIOUS
  <1>4. /\ Quantity(ls, ps) = Total(Size(ls), ps)
        /\ Quantity(ls, ps \ {g}) = Total(Size(ls), ps \ {g})
        /\ Size(ls)[g] = At(ls, g).qty
    BY <1>3, QuantityIsTotal
  <1> QED  BY <1>2, <1>4

\* Orders that leave take away what they were good for, and no more.
LEMMA OfferedLess ==
    ASSUME NEW old \in Seq(Level), NEW new \in Seq(Level), NEW gone, Leaves(new, old, gone),
           NEW o
    PROVE  Quantity(new, Offered(o, new)) = Quantity(old, Offered(o, old) \ gone)
  <1> DEFINE S == Offered(o, new)
             T == Offered(o, old) \ gone
  <1>1. PICK h \in [Places(new) -> Places(old)] :
           Moves(h, new, old, gone) /\ \A p \in Places(new) : At(new, p) = At(old, h[p])
    BY DEF Leaves
  <1>2. S \in SUBSET Places(new) /\ T \in SUBSET Places(old)
    BY DEF Offered
  <1>3. T = {h[p] : p \in S}
    <2>1. ASSUME NEW p \in S
          PROVE  h[p] \in T
      BY <1>1, <1>2 DEF Moves, Offered
    <2>2. ASSUME NEW q \in T
          PROVE  \E p \in S : h[p] = q
      <3>1. q \in Places(old) \ gone /\ Reaches(o, old[q[1]].px)
        BY DEF Offered
      <3>2. PICK p \in Places(new) : h[p] = q
        BY <1>1, <3>1 DEF Moves
      <3>3. new[p[1]].px = old[q[1]].px
        BY <1>1, <3>2 DEF Moves
      <3> QED  BY <3>1, <3>2, <3>3 DEF Offered
    <2> QED  BY <2>1, <2>2
  <1> HIDE DEF S, T
  <1>4. IsFiniteSet(S) /\ \A p \in S : Size(new)[p] \in Nat
    BY <1>2, QuantityIsTotal
  <1>5. \A p, q \in S : h[p] = h[q] => p = q
    BY <1>1, <1>2 DEF Moves
  <1>6. \A p \in S : Size(old)[h[p]] = Size(new)[p]
    <2> SUFFICES ASSUME NEW p \in S
                 PROVE  Size(old)[h[p]] = Size(new)[p]
      OBVIOUS
    <2>1. p \in Places(new) /\ h[p] \in Places(old) /\ At(new, p) = At(old, h[p])
      BY <1>1, <1>2
    <2> QED  BY <2>1, QuantityIsTotal
  <1>7. Total(Size(old), T) = Total(Size(new), S)
    BY <1>3, <1>4, <1>5, <1>6, TotalMoved
  <1>8. Quantity(new, S) = Total(Size(new), S) /\ Quantity(old, T) = Total(Size(old), T)
    BY <1>2, QuantityIsTotal
  <1> QED  BY <1>7, <1>8 DEF S, T

-----------------------------------------------------------------------------
(* The index while orders leave the book, and when one comes to rest.      *)

\* A step on one side of the book, seen from both.
LEMMA BothSides ==
    ASSUME levels \in [Sides -> Seq(Level)], NEW side \in Sides, NEW new \in Seq(Level),
           NEW gone, Shrinks(new, levels[side], gone),
           levels' = [levels EXCEPT ![side] = new],
           NEW t \in Sides
    PROVE  Shrinks(levels'[t], levels[t], IF t = side THEN gone ELSE {})
  <1>1. CASE t = side
    BY <1>1
  <1>2. CASE t # side
    <2>1. levels'[t] = levels[t] /\ levels[t] \in Seq(Level)
      BY <1>2
    <2>2. Shrinks(levels[t], levels[t], {})
      BY <2>1, NoneGone
    <2> QED  BY <1>2, <2>1, <2>2
  <1> QED  BY <1>1, <1>2

LEMMA UnusedStays ==
    ASSUME levels \in [Sides -> Seq(Level)], NEW side \in Sides, NEW new \in Seq(Level),
           NEW gone, Shrinks(new, levels[side], gone),
           levels' = [levels EXCEPT ![side] = new],
           NEW c, NEW i, Unused(c, i)
    PROVE  Unused(c, i)'
  <1> SUFFICES ASSUME NEW s \in Sides, NEW p \in Places(levels'[s])
               PROVE  At(levels'[s], p).id # i \/ At(levels'[s], p).client # c
    BY DEF Unused
  <1>1. PICK h \in [Places(levels'[s]) -> Places(levels[s])] :
           Moves(h, levels'[s], levels[s], IF s = side THEN gone ELSE {})
    <2>1. Shrinks(levels'[s], levels[s], IF s = side THEN gone ELSE {})
      BY BothSides
    <2> QED  BY <2>1 DEF Shrinks
  <1>2. /\ h[p] \in Places(levels[s])
        /\ At(levels'[s], p).id = At(levels[s], h[p]).id
        /\ At(levels'[s], p).client = At(levels[s], h[p]).client
    BY <1>1 DEF Moves
  <1> QED  BY <1>2 DEF Unused

LEMMA ApartNext ==
    ASSUME \A s, t \in Sides : \A p \in Places(levels'[s]), q \in Places(levels'[t]) :
              <<s, p>> # <<t, q>> /\ At(levels'[s], p).id = At(levels'[t], q).id =>
                 At(levels'[s], p).id = 0
                    \/ At(levels'[s], p).client # At(levels'[t], q).client
    PROVE  IdsApart'
  BY DEF IdsApart

\* When an order leaves, its entry leaves the index with it; whatever else
\* loses its entry shares the id.
LEMMA IndexShrinks ==
    ASSUME levels \in [Sides -> Seq(Level)], IndexInv,
           NEW side \in Sides, NEW new \in Seq(Level),
           NEW gone, Shrinks(new, levels[side], gone),
           levels' = [levels EXCEPT ![side] = new], seen' = seen,
           \/ gone = {} /\ idx' = idx
           \/ \E g \in Places(levels[side]) :
                 gone = {g} /\ idx' = Unindexed(At(levels[side], g).id)
    PROVE  IndexInv'
  <1> DEFINE Gone(t) == IF t = side THEN gone ELSE {}
  <1>1. /\ idx \in [DOMAIN idx -> [side : Sides, px : Nat \ {0}, client : Int]]
        /\ IndexNeverDangles /\ OnlySharedIdsOrphaned /\ Accepted /\ IdsApart
    BY DEF IndexInv
  <1>2. /\ DOMAIN idx' \subseteq DOMAIN idx
        /\ \A i \in DOMAIN idx' : idx'[i] = idx[i]
        /\ idx' \in [DOMAIN idx' -> [side : Sides, px : Nat \ {0}, client : Int]]
    <2>1. CASE idx' = idx
      BY <1>1, <2>1
    <2>2. CASE \E i : idx' = Unindexed(i)
      BY <1>1, <2>2 DEF Unindexed, Restrict
    <2> QED  BY <2>1, <2>2
  <1>3. ASSUME NEW t \in Sides, NEW p \in Gone(t)
        PROVE  At(levels[t], p).id \notin DOMAIN idx'
    BY <1>3 DEF Unindexed, Restrict
  <1>4. ASSUME NEW i \in DOMAIN idx, i \notin DOMAIN idx'
        PROVE  \E g \in Gone(side) : g \in Places(levels[side]) /\ At(levels[side], g).id = i
    BY <1>4 DEF Unindexed, Restrict
  <1>5. \A t \in Sides : \E h \in [Places(levels'[t]) -> Places(levels[t])] :
           Moves(h, levels'[t], levels[t], Gone(t))
    <2> SUFFICES ASSUME NEW t \in Sides
                 PROVE  \E h \in [Places(levels'[t]) -> Places(levels[t])] :
                           Moves(h, levels'[t], levels[t], Gone(t))
      OBVIOUS
    <2>1. Shrinks(levels'[t], levels[t], Gone(t))
      BY BothSides
    <2> QED  BY <2>1 DEF Shrinks
  <1> HIDE DEF Gone
  <1>6. IndexNeverDangles'
    <2> SUFFICES ASSUME NEW i \in DOMAIN idx'
                 PROVE  \E p \in Places(levels'[idx'[i].side]) :
                           /\ levels'[idx'[i].side][p[1]].px = idx'[i].px
                           /\ At(levels'[idx'[i].side], p).id = i
      BY DEF IndexNeverDangles, Rest
    <2>1. idx'[i] = idx[i] /\ i \in DOMAIN idx
      BY <1>2
    <2> DEFINE t == idx[i].side
               x == idx[i].px
    <2>2. t \in Sides /\ Rest(t, x, i)
      BY <1>1, <2>1 DEF IndexNeverDangles
    <2>3. idx'[i].side = t /\ idx'[i].px = x
      BY <2>1
    <2> HIDE DEF t, x
    <2>4. PICK q \in Places(levels[t]) :
             levels[t][q[1]].px = x /\ At(levels[t], q).id = i
      BY <2>2 DEF Rest
    <2>5. q \notin Gone(t)
      BY <1>3, <2>2, <2>4
    <2>6. PICK h \in [Places(levels'[t]) -> Places(levels[t])] :
             Moves(h, levels'[t], levels[t], Gone(t))
      BY <1>5, <2>2
    <2>7. PICK p \in Places(levels'[t]) : h[p] = q
      BY <2>5, <2>6 DEF Moves
    <2>8. levels'[t][p[1]].px = x /\ At(levels'[t], p).id = i
      BY <2>4, <2>6, <2>7 DEF Moves
    <2> QED  BY <2>3, <2>8
  <1>7. ASSUME NEW s \in Sides, NEW p \in Places(levels'[s]), NEW i, NEW c,
               At(levels'[s], p).id = i, At(levels'[s], p).client = c
        PROVE  /\ i = 0 \/ <<c, i>> \in seen'
               /\ i \in DOMAIN idx' \/ SharedId(i)'
    <2>1. PICK h \in [Places(levels'[s]) -> Places(levels[s])] :
             Moves(h, levels'[s], levels[s], Gone(s))
      BY <1>5
    <2> DEFINE q == h[p]
    <2>2. /\ q \in Places(levels[s]) /\ q \notin Gone(s)
          /\ At(levels[s], q).id = i /\ At(levels[s], q).client = c
      BY <1>7, <2>1 DEF Moves
    <2> HIDE DEF q
    <2>3. i = 0 \/ <<c, i>> \in seen
      BY <1>1, <2>2 DEF Accepted
    <2>4. i \in DOMAIN idx \/ SharedId(i)
      BY <1>1, <2>2 DEF OnlySharedIdsOrphaned
    <2>5. SharedId(i)' = SharedId(i)
      BY DEF SharedId
    <2>6. ASSUME i \in DOMAIN idx, i \notin DOMAIN idx'
          PROVE  SharedId(i)
      <3>1. PICK g \in Gone(side) : g \in Places(levels[side]) /\ At(levels[side], g).id = i
        BY <1>4, <2>6
      <3>2. <<s, q>> # <<side, g>>
        BY <2>2, <3>1
      <3> DEFINE d == At(levels[side], g).client
      <3>3. i = 0 \/ c # d
        BY <1>1, <2>2, <3>1, <3>2 DEF IdsApart
      <3>4. i = 0 \/ <<d, i>> \in seen
        BY <1>1, <3>1 DEF Accepted
      <3> HIDE DEF d
      <3> QED  BY <2>3, <3>3, <3>4 DEF SharedId
    <2> QED  BY <2>3, <2>4, <2>5, <2>6
  <1>8. Accepted' /\ OnlySharedIdsOrphaned'
    BY <1>7 DEF Accepted, OnlySharedIdsOrphaned
  <1>9. ASSUME NEW s \in Sides, NEW t \in Sides,
               NEW p \in Places(levels'[s]), NEW q \in Places(levels'[t]),
               <<s, p>> # <<t, q>>,
               At(levels'[s], p).id = At(levels'[t], q).id
        PROVE  At(levels'[s], p).id = 0
                  \/ At(levels'[s], p).client # At(levels'[t], q).client
    <2>1. PICK f \in [Places(levels'[s]) -> Places(levels[s])] :
             Moves(f, levels'[s], levels[s], Gone(s))
      BY <1>5
    <2>2. PICK h \in [Places(levels'[t]) -> Places(levels[t])] :
             /\ Moves(h, levels'[t], levels[t], Gone(t))
             /\ s = t => h = f
      BY <1>5, <2>1
    <2>3. <<s, f[p]>> # <<t, h[q]>>
      BY <1>9, <2>1, <2>2 DEF Moves
    <2>4. /\ f[p] \in Places(levels[s]) /\ h[q] \in Places(levels[t])
          /\ At(levels'[s], p).id = At(levels[s], f[p]).id
          /\ At(levels'[s], p).client = At(levels[s], f[p]).client
          /\ At(levels'[t], q).id = At(levels[t], h[q]).id
          /\ At(levels'[t], q).client = At(levels[t], h[q]).client
      BY <2>1, <2>2 DEF Moves
    <2> QED  BY <1>1, <1>9, <2>3, <2>4 DEF IdsApart
  <1>10. IdsApart'
    BY <1>9, ApartNext
  <1> QED  BY <1>2, <1>6, <1>8, <1>10 DEF IndexInv

\* When an order comes to rest, its entry joins the index, in the place of
\* whatever entry the id had.
LEMMA IndexGrows ==
    ASSUME levels \in [Sides -> Seq(Level)], IndexInv,
           NEW side \in Sides, NEW new \in Seq(Level),
           NEW g \in Places(new), Shrinks(levels[side], new, {g}),
           NEW px \in Nat \ {0}, NEW c \in Int, NEW id \in Int,
           new[g[1]].px = px, At(new, g).id = id, At(new, g).client = c,
           id # 0 => <<c, id>> \in seen /\ Unused(c, id),
           levels' = [levels EXCEPT ![side] = new], seen' = seen,
           idx' = Indexed(id, [side |-> side, px |-> px, client |-> c])
    PROVE  IndexInv'
  <1>1. /\ idx \in [DOMAIN idx -> [side : Sides, px : Nat \ {0}, client : Int]]
        /\ IndexNeverDangles /\ OnlySharedIdsOrphaned /\ Accepted /\ IdsApart
    BY DEF IndexInv
  <1>2. /\ DOMAIN idx' = DOMAIN idx \cup {id}
        /\ idx'[id] = [side |-> side, px |-> px, client |-> c]
        /\ \A i \in DOMAIN idx : i # id => idx'[i] = idx[i]
        /\ idx' = [i \in DOMAIN idx' |-> idx'[i]]
    BY DEF Indexed
  <1>3. idx' \in [DOMAIN idx' -> [side : Sides, px : Nat \ {0}, client : Int]]
    <2> DEFINE Location == [side : Sides, px : Nat \ {0}, client : Int]
    <2>1. [side |-> side, px |-> px, client |-> c] \in Location
      OBVIOUS
    <2>2. \A i \in DOMAIN idx : idx[i] \in Location
      BY <1>1
    <2> HIDE DEF Location
    <2>3. \A i \in DOMAIN idx' : idx'[i] \in Location
      <3> SUFFICES ASSUME NEW i \in DOMAIN idx'
                   PROVE  idx'[i] \in Location
        OBVIOUS
      <3>1. CASE i = id
        BY <1>2, <2>1, <3>1
      <3>2. CASE i # id
        <4>1. i \in DOMAIN idx /\ idx'[i] = idx[i]
          BY <1>2, <3>2
        <4> QED  BY <2>2, <4>1
      <3> QED  BY <3>1, <3>2
    <2>4. idx' \in [DOMAIN idx' -> Location]
      BY <1>2, <2>3
    <2> QED  BY <2>4 DEF Location
  \* Where the old orders are now, and where the present ones were.
  <1>4. /\ g \in Places(levels'[side]) /\ levels'[side] = new
        /\ \A t \in Sides : t # side => levels'[t] = levels[t]
    OBVIOUS
  <1>5. PICK h \in [Places(levels[side]) -> Places(new)] : Moves(h, levels[side], new, {g})
    BY DEF Shrinks
  <1> DEFINE to(t, q) == IF t = side THEN h[q] ELSE q
  <1>6. ASSUME NEW t \in Sides, NEW q \in Places(levels[t])
        PROVE  /\ to(t, q) \in Places(levels'[t])
               /\ levels'[t][to(t, q)[1]].px = levels[t][q[1]].px
               /\ At(levels'[t], to(t, q)).id = At(levels[t], q).id
               /\ At(levels'[t], to(t, q)).client = At(levels[t], q).client
    <2>1. CASE t = side
      <3>1. /\ h[q] \in Places(new)
            /\ levels[side][q[1]].px = new[h[q][1]].px
            /\ At(levels[side], q).id = At(new, h[q]).id
            /\ At(levels[side], q).client = At(new, h[q]).client
        BY <1>5, <2>1 DEF Moves
      <3> QED  BY <1>4, <2>1, <3>1
    <2>2. CASE t # side
      BY <1>4, <2>2
    <2> QED  BY <2>1, <2>2
  <1>7. ASSUME NEW t \in Sides, NEW p \in Places(levels'[t]), ~(t = side /\ p = g)
        PROVE  \E q \in Places(levels[t]) : to(t, q) = p
    <2>1. CASE t = side
      <3>1. p \in Places(new) \ {g}
        BY <1>4, <1>7, <2>1
      <3>2. PICK q \in Places(levels[side]) : h[q] = p
        BY <1>5, <3>1 DEF Moves
      <3> QED  BY <2>1, <3>2
    <2>2. CASE t # side
      BY <1>4, <2>2
    <2> QED  BY <2>1, <2>2
  <1> HIDE DEF to
  <1>8. IndexNeverDangles'
    <2> SUFFICES ASSUME NEW i \in DOMAIN idx'
                 PROVE  \E p \in Places(levels'[idx'[i].side]) :
                           /\ levels'[idx'[i].side][p[1]].px = idx'[i].px
                           /\ At(levels'[idx'[i].side], p).id = i
      BY DEF IndexNeverDangles, Rest
    <2>1. CASE i = id
      BY <1>2, <1>4, <2>1
    <2>2. CASE i # id
      <3>1. idx'[i] = idx[i] /\ i \in DOMAIN idx
        BY <1>2, <2>2
      <3> DEFINE t == idx[i].side
                 x == idx[i].px
      <3>2. t \in Sides /\ Rest(t, x, i)
        BY <1>1, <3>1 DEF IndexNeverDangles
      <3>3. idx'[i].side = t /\ idx'[i].px = x
        BY <3>1
      <3> HIDE DEF t, x
      <3>4. PICK q \in Places(levels[t]) :
               levels[t][q[1]].px = x /\ At(levels[t], q).id = i
        BY <3>2 DEF Rest
      <3>5. /\ to(t, q) \in Places(levels'[t])
            /\ levels'[t][to(t, q)[1]].px = x
            /\ At(levels'[t], to(t, q)).id = i
        BY <1>6, <3>2, <3>4
      <3> QED  BY <3>3, <3>5
    <2> QED  BY <2>1, <2>2
  <1>9. ASSUME NEW s \in Sides, NEW p \in Places(levels'[s]), NEW i, NEW d,
               At(levels'[s], p).id = i, At(levels'[s], p).client = d
        PROVE  /\ i = 0 \/ <<d, i>> \in seen'
               /\ i \in DOMAIN idx' \/ SharedId(i)'
    <2>1. CASE s = side /\ p = g
      <3>1. i = id /\ d = c
        BY <1>4, <1>9, <2>1
      <3> QED  BY <1>2, <3>1
    <2>2. CASE ~(s = side /\ p = g)
      <3>1. PICK q \in Places(levels[s]) : to(s, q) = p
        BY <1>7, <2>2
      <3>2. At(levels[s], q).id = i /\ At(levels[s], q).client = d
        BY <1>6, <1>9, <3>1
      <3>3. i = 0 \/ <<d, i>> \in seen
        BY <1>1, <3>2 DEF Accepted
      <3>4. i \in DOMAIN idx \/ SharedId(i)
        BY <1>1, <3>2 DEF OnlySharedIdsOrphaned
      <3>5. SharedId(i)' = SharedId(i)
        BY DEF SharedId
      <3> QED  BY <1>2, <3>3, <3>4, <3>5
    <2> QED  BY <2>1, <2>2
  <1>10. Accepted' /\ OnlySharedIdsOrphaned'
    BY <1>9 DEF Accepted, OnlySharedIdsOrphaned
  <1>11. ASSUME NEW s \in Sides, NEW p \in Places(levels'[s]),
                ~(s = side /\ p = g), At(levels'[s], p).id = id
         PROVE  id = 0 \/ At(levels'[s], p).client # c
    <2>1. PICK q \in Places(levels[s]) : to(s, q) = p
      BY <1>7, <1>11
    <2>2. At(levels[s], q).id = id /\ At(levels[s], q).client = At(levels'[s], p).client
      BY <1>6, <1>11, <2>1
    <2> QED  BY <2>2 DEF Unused
  <1>12. ASSUME NEW s \in Sides, NEW t \in Sides,
                NEW p \in Places(levels'[s]), NEW q \in Places(levels'[t]),
                <<s, p>> # <<t, q>>,
                At(levels'[s], p).id = At(levels'[t], q).id
         PROVE  At(levels'[s], p).id = 0
                   \/ At(levels'[s], p).client # At(levels'[t], q).client
    <2>1. CASE s = side /\ p = g
      <3>1. ~(t = side /\ q = g) /\ At(levels'[s], p).client = c /\ At(levels'[s], p).id = id
        BY <1>4, <1>12, <2>1
      <3>2. id = 0 \/ At(levels'[t], q).client # c
        BY <1>11, <1>12, <3>1
      <3> QED  BY <3>1, <3>2
    <2>2. CASE t = side /\ q = g
      <3>1. ~(s = side /\ p = g) /\ At(levels'[t], q).client = c /\ At(levels'[t], q).id = id
        BY <1>4, <1>12, <2>2
      <3>2. id = 0 \/ At(levels'[s], p).client # c
        BY <1>11, <1>12, <3>1
      <3> QED  BY <1>12, <3>1, <3>2
    <2>3. CASE ~(s = side /\ p = g) /\ ~(t = side /\ q = g)
      <3>1. PICK a \in Places(levels[s]) : to(s, a) = p
        BY <1>7, <2>3
      <3>2. PICK b \in Places(levels[t]) : to(t, b) = q
        BY <1>7, <2>3
      <3>3. <<s, a>> # <<t, b>>
        BY <1>12, <3>1, <3>2
      <3>4. /\ At(levels[s], a).id = At(levels'[s], p).id
            /\ At(levels[s], a).client = At(levels'[s], p).client
            /\ At(levels[t], b).id = At(levels'[t], q).id
            /\ At(levels[t], b).client = At(levels'[t], q).client
        BY <1>6, <3>1, <3>2
      <3> QED  BY <1>1, <1>12, <3>3, <3>4 DEF IdsApart
    <2> QED  BY <2>1, <2>2, <2>3
  <1>13. IdsApart'
    BY <1>12, ApartNext
  <1> QED  BY <1>3, <1>8, <1>10, <1>13 DEF IndexInv

\* An id accepted by the checks changes nothing for what rests.
LEMMA IndexWaits ==
    ASSUME IndexInv, levels' = levels, idx' = idx, seen \subseteq seen'
    PROVE  IndexInv'
  <1>1. \A i : SharedId(i) => SharedId(i)'
    BY DEF SharedId
  <1>2. OnlySharedIdsOrphaned'
    BY <1>1 DEF IndexInv, OnlySharedIdsOrphaned
  <1>3. IndexNeverDangles'
    BY DEF IndexInv, IndexNeverDangles, Rest
  <1>4. Accepted' /\ IdsApart'
    BY DEF IndexInv, Accepted, IdsApart
  <1> QED  BY <1>2, <1>3, <1>4 DEF IndexInv

-----------------------------------------------------------------------------
(* The order of prices.                                                    *)

\* Bids above bids, asks below asks, and bids below asks: on either side a
\* level of the other one lies beyond the own ones.
LEMMA Uncrossed ==
    ASSUME BookInv, NEW side \in Sides,
           NEW k \in DOMAIN levels[side], NEW m \in DOMAIN levels[Opposite(side)]
    PROVE  Better(side, levels[Opposite(side)][m].px, levels[side][k].px)
  <1>1. CASE side = "buy"
    BY <1>1 DEF BookInv, Better, Opposite
  <1>2. CASE side = "sell"
    BY <1>2 DEF BookInv, Better, Opposite
  <1> QED  BY <1>1, <1>2 DEF Sides

\* What a step on one side of the book has to show.
LEMMA BookKeeps ==
    ASSUME BookInv, NEW side \in Sides, NEW new \in Seq(Level), Sorted(side, new),
           \A k \in DOMAIN new, m \in DOMAIN levels[Opposite(side)] :
              Better(side, levels[Opposite(side)][m].px, new[k].px),
           levels' = [levels EXCEPT ![side] = new],
           \A s \in Sides : \A k \in DOMAIN levels'[s] :
              levels'[s][k].orders = <<>> => taker'.busy /\ s = Makers' /\ k = 1
    PROVE  BookInv'
  <1>1. /\ levels \in [Sides -> Seq(Level)]
        /\ levels' \in [Sides -> Seq(Level)]
        /\ levels'[side] = new
        /\ \A s \in Sides : s # side => levels'[s] = levels[s]
    BY DEF BookInv
  <1>2. ASSUME NEW s \in Sides
        PROVE  Sorted(s, levels'[s])
    BY <1>1 DEF BookInv, Sorted
  <1>3. \A j \in DOMAIN levels'["buy"], k \in DOMAIN levels'["sell"] :
           levels'["buy"][j].px < levels'["sell"][k].px
    <2>1. CASE side = "buy"
      <3>1. levels'["buy"] = new /\ levels'["sell"] = levels["sell"]
        BY <1>1, <2>1 DEF Sides
      <3> QED  BY <2>1, <3>1 DEF Better, Opposite
    <2>2. CASE side = "sell"
      <3>1. levels'["sell"] = new /\ levels'["buy"] = levels["buy"]
        BY <1>1, <2>2 DEF Sides
      <3> QED  BY <2>2, <3>1 DEF Better, Opposite
    <2> QED  BY <2>1, <2>2 DEF Sides
  <1>4. \A s \in Sides : \A j, k \in DOMAIN levels'[s] :
           j < k => Better(s, levels'[s][j].px, levels'[s][k].px)
    BY <1>2 DEF Sorted
  <1> QED  BY <1>1, <1>3, <1>4 DEF BookInv

\* Steps that leave the book alone.
LEMMA BookWaits ==
    ASSUME BookInv, levels' = levels,
           UNCHANGED taker \/ ~taker.busy
             \/ \A s \in Sides : \A k \in DOMAIN levels[s] : levels[s][k].orders # <<>>
    PROVE  BookInv'
  <1>1. ASSUME NEW s \in Sides, NEW k \in DOMAIN levels'[s], levels'[s][k].orders = <<>>
        PROVE  taker'.busy /\ s = Makers' /\ k = 1
    BY <1>1 DEF BookInv, Makers
  <1> QED  BY <1>1 DEF BookInv

-----------------------------------------------------------------------------
(* removeOrder.                                                            *)

\* The position of the first order of an id in a level.
First(q, id) ==
  LET I == {n \in 1 .. Len(q) : q[n].id = id} IN IF I = {} THEN 0 ELSE Min(I)

LEMMA FirstNamed ==
    ASSUME NEW q \in Seq(Resting), NEW id
    PROVE  /\ First(q, id) # 0 => First(q, id) \in 1 .. Len(q) /\ q[First(q, id)].id = id
           /\ First(q, id) = 0 => \A n \in 1 .. Len(q) : q[n].id # id
  <1> DEFINE I == {n \in 1 .. Len(q) : q[n].id = id}
  <1>1. I # {} => Min(I) \in I
    <2>1. I \in SUBSET Nat
      BY LenProperties
    <2> HIDE DEF I
    <2> QED  BY <2>1, LeastElement
  <1>2. First(q, id) = IF I = {} THEN 0 ELSE Min(I)
    BY DEF First
  <1>3. \A n \in 1 .. Len(q) : n # 0
    BY LenProperties
  <1> QED  BY <1>1, <1>2, <1>3

LEMMA RemovedForm ==
    ASSUME NEW side, NEW px, NEW id
    PROVE  Removed(side, px, id) =
             LET ls == levels[side]
                 at == {i \in DOMAIN ls : ls[i].px = px /\ First(ls[i].orders, id) # 0}
             IN  IF at = {} THEN ls
                 ELSE LET i == Min(at)
                      IN  IF Len(ls[i].orders) = 1 THEN RemoveAt(ls, i)
                          ELSE [ls EXCEPT ![i].orders = RemoveAt(@, First(@, id))]
  BY DEF Removed, First, SelectInSeq

\* new is ls without the order at <<i, j>>, which takes its level with it when
\* it is alone there.
TakesOut(new, ls, i, j) ==
    /\ i \in 1 .. Len(ls) /\ j \in 1 .. Len(ls[i].orders)
    /\ new = IF Len(ls[i].orders) = 1 THEN RemoveAt(ls, i)
             ELSE [ls EXCEPT ![i].orders = RemoveAt(@, j)]

\* It finds an order of that id at that price.
LEMMA RemovedWhere ==
    ASSUME levels \in [Sides -> Seq(Level)], NEW side \in Sides, NEW px, NEW id,
           Rest(side, px, id)
    PROVE  \E i, j :
              /\ TakesOut(Removed(side, px, id), levels[side], i, j)
              /\ levels[side][i].px = px /\ levels[side][i].orders[j].id = id
  <1> DEFINE ls == levels[side]
             new == Removed(side, px, id)
             at == {i \in DOMAIN ls : ls[i].px = px /\ First(ls[i].orders, id) # 0}
             i == Min(at)
             j == First(ls[i].orders, id)
  <1>1. /\ ls \in Seq(Level) /\ Len(ls) \in Nat /\ DOMAIN ls = 1 .. Len(ls)
        /\ \A k \in 1 .. Len(ls) : ls[k].orders \in Seq(Resting)
    BY LevelParts
  <1> HIDE DEF ls
  <1>2. at # {}
    <2>1. PICK p \in Places(ls) : ls[p[1]].px = px /\ At(ls, p).id = id
      BY DEF Rest, ls
    <2>2. /\ p[1] \in 1 .. Len(ls) /\ p[2] \in 1 .. Len(ls[p[1]].orders)
          /\ ls[p[1]].orders[p[2]].id = id
      BY <1>1, <2>1, PlaceOf
    <2>3. First(ls[p[1]].orders, id) # 0
      BY <1>1, <2>2, FirstNamed
    <2> QED  BY <1>1, <2>1, <2>2, <2>3
  <1>3. i \in at
    <2>1. at \in SUBSET Nat
      BY <1>1
    <2> HIDE DEF at
    <2> QED  BY <1>2, <2>1, LeastElement
  <1>4. i \in 1 .. Len(ls) /\ ls[i].px = px /\ j # 0
    BY <1>1, <1>3
  <1>5. new = IF Len(ls[i].orders) = 1 THEN RemoveAt(ls, i)
              ELSE [ls EXCEPT ![i].orders = RemoveAt(@, j)]
    BY <1>2, RemovedForm DEF ls
  <1> HIDE DEF at, i, new
  <1>6. j \in 1 .. Len(ls[i].orders) /\ ls[i].orders[j].id = id
    BY <1>1, <1>4, FirstNamed
  <1> HIDE DEF j
  <1> QED  BY <1>4, <1>5, <1>6 DEF ls, new, TakesOut

\* The order leaves, and with it its level when it was alone there.
LEMMA RemovedParts ==
    ASSUME levels \in [Sides -> Seq(Level)], NEW side \in Sides, NEW px, NEW id,
           Sorted(side, levels[side]), Rest(side, px, id),
           \A k \in DOMAIN levels[side] : levels[side][k].orders # <<>>
    PROVE  LET ls == levels[side]
               new == Removed(side, px, id)
           IN  /\ new \in Seq(Level) /\ Sorted(side, new)
               /\ \A k \in DOMAIN new :
                     /\ new[k].orders # <<>>
                     /\ \E m \in DOMAIN ls : new[k].px = ls[m].px
               /\ \E g \in Places(ls) : At(ls, g).id = id /\ Shrinks(new, ls, {g})
  <1> DEFINE ls == levels[side]
             new == Removed(side, px, id)
  <1>1. /\ ls \in Seq(Level) /\ Len(ls) \in Nat /\ DOMAIN ls = 1 .. Len(ls)
        /\ \A k \in 1 .. Len(ls) :
              /\ ls[k].px \in Nat \ {0} /\ ls[k].orders \in Seq(Resting)
              /\ Len(ls[k].orders) \in Nat /\ ls[k].orders # <<>>
    BY LevelParts
  <1>2. PICK i, j : TakesOut(new, ls, i, j) /\ ls[i].px = px /\ ls[i].orders[j].id = id
    BY RemovedWhere
  <1> HIDE DEF ls, new
  <1>4. i \in 1 .. Len(ls) /\ ls[i].px = px
    BY <1>2 DEF TakesOut
  <1>5. new = IF Len(ls[i].orders) = 1 THEN RemoveAt(ls, i)
              ELSE [ls EXCEPT ![i].orders = RemoveAt(@, j)]
    BY <1>2 DEF TakesOut
  <1>6. j \in 1 .. Len(ls[i].orders) /\ ls[i].orders[j].id = id
    BY <1>2 DEF TakesOut
  <1>7. <<i, j>> \in Places(ls) /\ At(ls, <<i, j>>).id = id
    BY <1>1, <1>4, <1>6, PlaceOf DEF At
  <1>8. Sorted(side, ls) /\ \A k \in 1 .. Len(ls) : ls[k] \in Level
    BY <1>1, LevelParts DEF ls
  <1>9. CASE Len(ls[i].orders) = 1
    <2>1. /\ new \in Seq(Level) /\ Len(new) = Len(ls) - 1
          /\ \A n \in 1 .. Len(ls) - 1 : new[n] = IF n < i THEN ls[n] ELSE ls[n + 1]
      BY <1>1, <1>4, <1>5, <1>9, Removal
    <2>2. Shrinks(new, ls, {i} \X (1 .. Len(ls[i].orders)))
      BY <1>1, <1>4, <2>1, LevelGone
    <2>3. {i} \X (1 .. Len(ls[i].orders)) = {<<i, j>>}
      <3>1. j = 1 /\ 1 .. Len(ls[i].orders) = {1}
        BY <1>6, <1>9
      <3> QED  BY <3>1
    <2>4. Len(new) \in Nat /\ DOMAIN new = 1 .. Len(new)
      BY <2>1, LevelParts
    <2> DEFINE up(k) == IF k < i THEN k ELSE k + 1
    <2>5. ASSUME NEW k \in 1 .. Len(new)
          PROVE  up(k) \in 1 .. Len(ls) /\ new[k] = ls[up(k)]
      BY <1>1, <1>4, <2>1
    <2>6. ASSUME NEW k \in 1 .. Len(new), NEW m \in 1 .. Len(new), k < m
          PROVE  up(k) < up(m)
      <3>1. k \in Int /\ m \in Int /\ i \in Int
        BY <1>1, <1>4, <2>4
      <3> QED  BY <2>6, <3>1
    <2> HIDE DEF up
    <2>7. Sorted(side, new)
      <3> SUFFICES ASSUME NEW k \in 1 .. Len(new), NEW m \in 1 .. Len(new), k < m
                   PROVE  Better(side, new[k].px, new[m].px)
        BY <2>4 DEF Sorted
      <3>1. up(k) < up(m) /\ up(k) \in DOMAIN ls /\ up(m) \in DOMAIN ls
        BY <1>1, <2>5, <2>6
      <3>2. new[k] = ls[up(k)] /\ new[m] = ls[up(m)]
        BY <2>5
      <3> QED  BY <1>8, <3>1, <3>2 DEF Sorted
    <2>8. \A k \in DOMAIN new :
             new[k].orders # <<>> /\ \E m \in DOMAIN ls : new[k].px = ls[m].px
      BY <1>1, <2>4, <2>5
    <2> QED  BY <1>7, <2>1, <2>2, <2>3, <2>7, <2>8 DEF ls, new
  <1>10. CASE Len(ls[i].orders) # 1
    <2> DEFINE rest == RemoveAt(ls[i].orders, j)
    <2>1. /\ rest \in Seq(Resting) /\ Len(rest) = Len(ls[i].orders) - 1
          /\ \A n \in 1 .. Len(ls[i].orders) - 1 :
                rest[n] = IF n < j THEN ls[i].orders[n] ELSE ls[i].orders[n + 1]
      BY <1>1, <1>4, <1>6, Removal
    <2> DEFINE lev == [ls[i] EXCEPT !.orders = rest]
    <2>2. new = [ls EXCEPT ![i] = lev]
      BY <1>5, <1>10
    <2> HIDE DEF rest
    <2>3. lev \in Level /\ lev.px = ls[i].px /\ lev.orders = rest
      BY <1>4, <1>8, <2>1 DEF Level, Resting
    <2> HIDE DEF lev
    <2>4. /\ new \in Seq(Level) /\ Len(new) = Len(ls) /\ DOMAIN new = 1 .. Len(ls)
          /\ new[i] = lev /\ \A k \in 1 .. Len(ls) : k # i => new[k] = ls[k]
      BY <1>1, <1>4, <2>2, <2>3, ExceptSeq, LevelParts
    <2>5. \A k \in 1 .. Len(ls) : new[k].px = ls[k].px
      BY <2>3, <2>4
    <2>6. Shrinks(new, ls, {<<i, j>>})
      BY <1>1, <1>4, <1>6, <2>1, <2>3, <2>4, <2>5, OrderGone
    <2>7. Sorted(side, new)
      BY <1>1, <1>8, <2>4, <2>5 DEF Sorted
    <2>8. rest # <<>>
      <3>1. Len(ls[i].orders) \in Int
        BY <1>1, <1>4
      <3>2. Len(rest) # 0
        BY <1>10, <2>1, <3>1
      <3> QED  BY <3>2
    <2>9. \A k \in DOMAIN new :
             new[k].orders # <<>> /\ \E m \in DOMAIN ls : new[k].px = ls[m].px
      BY <1>1, <2>3, <2>4, <2>5, <2>8
    <2> QED  BY <1>7, <2>4, <2>6, <2>7, <2>9 DEF ls, new
  <1> QED  BY <1>9, <1>10

-----------------------------------------------------------------------------
(* insertResting.                                                          *)

LEMMA SearchParts ==
    ASSUME NEW ls \in Seq(Level), NEW side \in Sides, NEW px \in Nat
    PROVE  LET i == Search(ls, side, px)
           IN  /\ i \in 1 .. Len(ls) + 1
               /\ \A k \in 1 .. Len(ls) : k < i => Better(side, ls[k].px, px)
               /\ i <= Len(ls) => ~Better(side, ls[i].px, px)
  <1> DEFINE I == {i \in 1 .. Len(ls) + 1 : i <= Len(ls) => ~Better(side, ls[i].px, px)}
             i == Min(I)
  <1>1. Len(ls) \in Nat
    BY LenProperties
  <1>2. I \in SUBSET Nat /\ Len(ls) + 1 \in I
    BY <1>1
  <1>3. i \in I /\ \A y \in I : i <= y
    <2> HIDE DEF I
    <2> QED  BY <1>2, LeastElement
  <1>4. i \in 1 .. Len(ls) + 1 /\ (i <= Len(ls) => ~Better(side, ls[i].px, px))
    BY <1>3
  <1>5. ASSUME NEW k \in 1 .. Len(ls), k < i
        PROVE  Better(side, ls[k].px, px)
    <2>1. k \in Int /\ i \in Int /\ k \in 1 .. Len(ls) + 1
      BY <1>1, <1>4
    <2>2. ~(i <= k)
      BY <1>5, <2>1
    <2>3. k \notin I
      BY <1>3, <2>2
    <2> QED  BY <2>1, <2>3
  <1>6. Search(ls, side, px) = i
    BY DEF Search
  <1> QED  BY <1>4, <1>5, <1>6

\* The order joins the end of its level, or gets a level of its own in its
\* place between better and worse prices.
LEMMA InsertedParts ==
    ASSUME levels \in [Sides -> Seq(Level)], NEW side \in Sides,
           NEW px \in Nat \ {0}, NEW ord \in Resting,
           Sorted(side, levels[side]),
           \A k \in DOMAIN levels[side] : levels[side][k].orders # <<>>
    PROVE  LET ls == levels[side]
               new == Inserted(side, px, ord)
           IN  /\ new \in Seq(Level) /\ Sorted(side, new)
               /\ \A k \in DOMAIN new :
                     /\ new[k].orders # <<>>
                     /\ new[k].px = px \/ \E m \in DOMAIN ls : new[k].px = ls[m].px
               /\ \E g \in Places(new) :
                     new[g[1]].px = px /\ At(new, g) = ord /\ Shrinks(ls, new, {g})
  <1> DEFINE ls == levels[side]
             new == Inserted(side, px, ord)
             i == Search(ls, side, px)
  <1>1. /\ ls \in Seq(Level) /\ Len(ls) \in Nat /\ DOMAIN ls = 1 .. Len(ls)
        /\ \A k \in 1 .. Len(ls) :
              /\ ls[k] \in Level
              /\ ls[k].px \in Nat \ {0} /\ ls[k].orders \in Seq(Resting)
              /\ Len(ls[k].orders) \in Nat /\ ls[k].orders # <<>>
    BY LevelParts
  <1>2. /\ i \in 1 .. Len(ls) + 1 /\ i \in Int
        /\ \A k \in 1 .. Len(ls) : k < i => Better(side, ls[k].px, px)
        /\ i <= Len(ls) => ~Better(side, ls[i].px, px)
    <2>1. ls \in Seq(Level) /\ px \in Nat
      BY <1>1
    <2>2. /\ i \in 1 .. Len(ls) + 1
          /\ \A k \in 1 .. Len(ls) : k < i => Better(side, ls[k].px, px)
          /\ i <= Len(ls) => ~Better(side, ls[i].px, px)
      <3> HIDE DEF ls
      <3> QED  BY <2>1, SearchParts
    <2> HIDE DEF i, ls
    <2> QED  BY <1>1, <2>2
  <1>3. new = IF i <= Len(ls) /\ ls[i].px = px
              THEN [ls EXCEPT ![i].orders = Append(@, ord)]
              ELSE InsertAt(ls, i, [px |-> px, orders |-> <<ord>>])
    BY DEF Inserted
  <1>4. Sorted(side, ls)
    OBVIOUS
  <1> HIDE DEF ls, i, new
  <1>5. CASE i <= Len(ls) /\ ls[i].px = px
    <2> DEFINE queue == Append(ls[i].orders, ord)
               n == Len(ls[i].orders) + 1
    <2>1. i \in 1 .. Len(ls)
      BY <1>1, <1>2, <1>5
    <2>2. /\ queue \in Seq(Resting) /\ Len(queue) = n /\ queue[n] = ord
          /\ \A k \in 1 .. Len(ls[i].orders) : queue[k] = ls[i].orders[k]
      BY <1>1, <2>1, AppendProperties
    <2> DEFINE lev == [ls[i] EXCEPT !.orders = queue]
    <2>3. new = [ls EXCEPT ![i] = lev]
      BY <1>3, <1>5
    <2>4. queue # <<>> /\ n \in 1 .. n
      <3>1. n \in Nat /\ n # 0
        BY <1>1, <2>1
      <3> HIDE DEF n
      <3>2. Len(queue) # 0
        BY <2>2, <3>1
      <3> HIDE DEF queue
      <3> QED  BY <3>1, <3>2
    <2> HIDE DEF queue
    <2>5. lev \in Level /\ lev.px = ls[i].px /\ lev.orders = queue
      BY <1>1, <2>1, <2>2 DEF Level, Resting
    <2> HIDE DEF lev
    <2>6. /\ new \in Seq(Level) /\ Len(new) = Len(ls) /\ DOMAIN new = 1 .. Len(ls)
          /\ new[i] = lev /\ \A k \in 1 .. Len(ls) : k # i => new[k] = ls[k]
      BY <1>1, <2>1, <2>3, <2>5, ExceptSeq, LevelParts
    <2>7. \A k \in 1 .. Len(ls) : new[k].px = ls[k].px
      BY <2>5, <2>6
    <2>8. /\ Len(ls[i].orders) = Len(new[i].orders) - 1
          /\ \A k \in 1 .. Len(new[i].orders) - 1 :
                ls[i].orders[k] = IF k < n THEN new[i].orders[k] ELSE new[i].orders[k + 1]
      <3>1. new[i].orders = queue /\ Len(ls[i].orders) \in Int
        BY <1>1, <2>1, <2>5, <2>6
      <3>2. Len(new[i].orders) - 1 = Len(ls[i].orders)
        BY <2>2, <3>1
      <3>3. \A k \in 1 .. Len(ls[i].orders) : k < n
        BY <3>1
      <3> HIDE DEF n
      <3> QED  BY <2>2, <3>1, <3>2, <3>3
    <2>9. n \in 1 .. Len(new[i].orders) /\ new[i].orders[n] = ord
      BY <2>2, <2>4, <2>5, <2>6
    <2> HIDE DEF n
    <2>10. Shrinks(ls, new, {<<i, n>>})
      BY <1>1, <2>1, <2>6, <2>7, <2>8, <2>9, OrderGone
    <2>11. <<i, n>> \in Places(new) /\ At(new, <<i, n>>) = ord /\ new[i].px = px
      BY <1>5, <2>1, <2>6, <2>7, <2>9, PlaceOf DEF At
    <2>12. Sorted(side, new)
      BY <1>1, <1>4, <2>6, <2>7 DEF Sorted
    <2>13. \A k \in DOMAIN new :
              new[k].orders # <<>> /\ \E m \in DOMAIN ls : new[k].px = ls[m].px
      BY <1>1, <2>4, <2>5, <2>6, <2>7
    <2>14. <<i, n>>[1] = i
      OBVIOUS
    <2> QED  BY <2>6, <2>10, <2>11, <2>12, <2>13, <2>14 DEF ls, new
  <1>6. CASE ~(i <= Len(ls) /\ ls[i].px = px)
    <2> DEFINE lev == [px |-> px, orders |-> <<ord>>]
    <2>1. lev \in Level /\ lev.px = px /\ lev.orders = <<ord>>
      BY DEF Level, Resting
    <2>2. new = InsertAt(ls, i, lev)
      BY <1>3, <1>6
    <2> HIDE DEF lev
    <2>3. /\ new \in Seq(Level) /\ Len(new) = Len(ls) + 1
          /\ \A n \in 1 .. Len(ls) + 1 :
                new[n] = IF n < i THEN ls[n] ELSE IF n = i THEN lev ELSE ls[n - 1]
      <3>1. lev \in Level
        BY <2>1
      <3>2. ls \in Seq(Level) /\ i \in 1 .. Len(ls) + 1
        BY <1>1, <1>2
      <3>3. /\ InsertAt(ls, i, lev) \in Seq(Level)
            /\ Len(InsertAt(ls, i, lev)) = Len(ls) + 1
            /\ \A n \in 1 .. Len(ls) + 1 :
                  InsertAt(ls, i, lev)[n] =
                     IF n < i THEN ls[n] ELSE IF n = i THEN lev ELSE ls[n - 1]
        BY <3>1, <3>2, Insertion
      <3> QED  BY <2>2, <3>3
    <2>4. DOMAIN new = 1 .. Len(ls) + 1 /\ new[i] = lev /\ i \in 1 .. Len(new)
      BY <1>2, <2>3, LevelParts
    <2>5. /\ Len(ls) = Len(new) - 1
          /\ \A n \in 1 .. Len(new) - 1 : ls[n] = IF n < i THEN new[n] ELSE new[n + 1]
      BY <1>1, <1>2, <2>3
    <2>6. Shrinks(ls, new, {i} \X (1 .. Len(new[i].orders)))
      BY <1>1, <2>3, <2>4, <2>5, LevelGone
    <2>7. 1 .. Len(new[i].orders) = {1} /\ new[i].orders[1] = ord /\ <<ord>> # <<>>
      <3>1. new[i].orders = <<ord>>
        BY <2>1, <2>4
      <3>2. Len(<<ord>>) = 1 /\ <<ord>>[1] = ord /\ <<ord>> # <<>> /\ 1 .. 1 = {1}
        OBVIOUS
      <3> QED  BY <3>1, <3>2
    <2>8. {i} \X (1 .. Len(new[i].orders)) = {<<i, 1>>}
      BY <2>7
    <2>9. <<i, 1>> \in Places(new) /\ At(new, <<i, 1>>) = ord /\ new[i].px = px
      BY <2>1, <2>3, <2>4, <2>7, PlaceOf DEF At
    <2>10. ASSUME NEW k \in 1 .. Len(ls), ~(k < i)
           PROVE  Better(side, px, ls[k].px)
      <3>1. k \in Int /\ i <= Len(ls) /\ i \in 1 .. Len(ls)
        BY <1>1, <1>2, <2>10
      <3>2. Better(side, px, ls[i].px)
        BY <1>1, <1>2, <1>6, <3>1 DEF Better, Sides
      <3>3. k = i \/ Better(side, ls[i].px, ls[k].px)
        <4>1. k = i \/ i < k
          BY <1>2, <2>10, <3>1
        <4>2. i \in DOMAIN ls /\ k \in DOMAIN ls
          BY <1>1, <3>1
        <4> QED  BY <1>4, <4>1, <4>2 DEF Sorted
      <3>4. ls[k].px \in Int /\ ls[i].px \in Int /\ px \in Int
        BY <1>1, <3>1
      <3> QED  BY <3>2, <3>3, <3>4 DEF Better
    <2>11. ASSUME NEW k \in 1 .. Len(ls) + 1, NEW m \in 1 .. Len(ls) + 1, k < m
           PROVE  Better(side, new[k].px, new[m].px)
      <3>1. k \in Int /\ m \in Int /\ 1 <= k /\ m <= Len(ls) + 1
        BY <1>1
      <3>2. CASE m < i
        <4>1. /\ k \in 1 .. Len(ls) /\ m \in 1 .. Len(ls)
              /\ new[k] = ls[k] /\ new[m] = ls[m]
          BY <1>1, <1>2, <2>3, <2>11, <3>1, <3>2
        <4> QED  BY <1>1, <1>4, <2>11, <4>1 DEF Sorted
      <3>3. CASE m = i
        <4>1. k \in 1 .. Len(ls) /\ k < i /\ new[k] = ls[k] /\ new[m] = lev
          BY <1>1, <1>2, <2>3, <2>11, <3>1, <3>3
        <4> QED  BY <1>2, <2>1, <4>1
      <3>4. CASE m > i
        <4>1. m - 1 \in 1 .. Len(ls) /\ new[m] = ls[m - 1] /\ ~(m - 1 < i)
          BY <1>1, <1>2, <2>3, <3>1, <3>4
        <4>2. Better(side, px, ls[m - 1].px)
          BY <2>10, <4>1
        <4>3. CASE k < i
          <5>1. k \in 1 .. Len(ls) /\ new[k] = ls[k]
            BY <1>1, <1>2, <2>3, <3>1, <4>3
          <5>2. Better(side, ls[k].px, px)
            BY <1>2, <4>3, <5>1
          <5>3. ls[k].px \in Int /\ ls[m - 1].px \in Int /\ px \in Int
            BY <1>1, <4>1, <5>1
          <5> QED  BY <4>1, <4>2, <5>1, <5>2, <5>3 DEF Better
        <4>4. CASE k = i
          BY <2>1, <2>4, <4>1, <4>2, <4>4
        <4>5. CASE k > i
          <5>1. k - 1 \in 1 .. Len(ls) /\ new[k] = ls[k - 1] /\ k - 1 < m - 1
            BY <1>1, <1>2, <2>3, <2>11, <3>1, <4>5
          <5> QED  BY <1>1, <1>4, <4>1, <5>1 DEF Sorted
        <4> QED  BY <1>2, <3>1, <4>3, <4>4, <4>5
      <3> QED  BY <1>2, <3>1, <3>2, <3>3, <3>4
    <2>12. Sorted(side, new)
      BY <2>4, <2>11 DEF Sorted
    <2>13. ASSUME NEW k \in 1 .. Len(ls) + 1
           PROVE  /\ new[k].orders # <<>>
                  /\ new[k].px = px \/ \E m \in DOMAIN ls : new[k].px = ls[m].px
      <3>1. k \in Int /\ 1 <= k /\ k <= Len(ls) + 1
        BY <1>1
      <3>2. CASE k = i
        BY <2>1, <2>4, <2>7, <3>2
      <3>3. CASE k < i
        <4>1. k \in 1 .. Len(ls) /\ new[k] = ls[k]
          BY <1>1, <1>2, <2>3, <3>1, <3>3
        <4> QED  BY <1>1, <4>1
      <3>4. CASE k > i
        <4>1. k - 1 \in 1 .. Len(ls) /\ new[k] = ls[k - 1]
          BY <1>1, <1>2, <2>3, <3>1, <3>4
        <4> QED  BY <1>1, <4>1
      <3> QED  BY <1>2, <3>1, <3>2, <3>3, <3>4
    <2>14. <<i, 1>>[1] = i
      OBVIOUS
    <2> QED  BY <2>3, <2>4, <2>6, <2>8, <2>9, <2>12, <2>13, <2>14 DEF ls, new
  <1> QED  BY <1>5, <1>6

-----------------------------------------------------------------------------
(* The matching loop.                                                      *)

\* What the taker gives and gets, and that it stays the order it was.
LEMMA TakerOnward ==
    ASSUME TakerInv, taker.busy, NEW q \in Nat, taker' = [taker EXCEPT !.rem = @ - q]
    PROVE  /\ taker' \in [busy : {TRUE}, order : Orders, rem : Int, before : {taker'.before}]
           /\ taker'.busy /\ taker'.order = taker.order
           /\ taker'.rem = taker.rem - q /\ taker'.rem <= taker.order.qty
           /\ Makers' = Makers
  <1>1. /\ taker \in [busy : {TRUE}, order : Orders, rem : Int, before : {taker.before}]
        /\ taker.rem <= taker.order.qty
    BY DEF TakerInv
  <1>2. /\ taker' \in [busy : {TRUE}, order : Orders, rem : Int, before : {taker.before}]
        /\ taker'.order = taker.order /\ taker'.rem = taker.rem - q
        /\ taker'.before = taker.before /\ taker'.busy
    <2>1. PICK r \in Int : r = taker.rem - q
      BY <1>1
    <2>2. PICK b : b = taker.before
      OBVIOUS
    <2>3. taker \in [busy : {TRUE}, order : Orders, rem : Int, before : {b}]
      BY <1>1, <2>2
    <2>4. taker' = [taker EXCEPT !.rem = r]
      BY <2>1
    <2>5. taker' \in [busy : {TRUE}, order : Orders, rem : Int, before : {b}]
      BY <2>3, <2>4
    <2>6. taker'.order = taker.order /\ taker'.rem = r /\ taker'.before = b /\ taker'.busy
      BY <2>3, <2>4
    <2> QED  BY <2>1, <2>2, <2>5, <2>6
  <1>3. taker.order.qty \in Int /\ taker.rem \in Int
    BY <1>1, OrdersAssumption
  <1>4. taker'.rem <= taker.order.qty
    BY <1>1, <1>2, <1>3
  <1> QED  BY <1>2, <1>4 DEF Makers

\* A step of the loop takes orders or quantities away from the makers and
\* leaves at most their best level empty.
LEMMA LoopKeeps ==
    ASSUME EngineInv, taker.busy, NEW q \in Nat, taker' = [taker EXCEPT !.rem = @ - q],
           NEW new \in Seq(Level), levels' = [levels EXCEPT ![Makers] = new],
           Sorted(Makers, new),
           \A k \in DOMAIN new :
              /\ \E m \in DOMAIN levels[Makers] : new[k].px = levels[Makers][m].px
              /\ new[k].orders = <<>> => k = 1,
           taker.order.type = "postonly" /\ new # <<>> => ~Reaches(taker.order, new[1].px),
           NEW gone, Shrinks(new, levels[Makers], gone),
           \/ gone = {} /\ idx' = idx
           \/ \E g \in Places(levels[Makers]) :
                 gone = {g} /\ idx' = Unindexed(At(levels[Makers], g).id),
           UNCHANGED <<seen, count>>
    PROVE  EngineInv'
  <1>1. /\ BookInv /\ TakerInv /\ IndexInv
        /\ seen \subseteq {<<o.client, o.id>> : o \in Orders}
        /\ count \in 0 .. MaxOrders
    BY DEF EngineInv
  <1>2. levels \in [Sides -> Seq(Level)] /\ Makers \in Sides
    BY <1>1 DEF BookInv, Makers, Opposite, Sides
  <1>3. /\ taker' \in [busy : {TRUE}, order : Orders, rem : Int, before : {taker'.before}]
        /\ taker'.busy /\ taker'.order = taker.order
        /\ taker'.rem <= taker.order.qty /\ Makers' = Makers
    BY <1>1, TakerOnward
  <1>4. levels'[Makers] = new /\ \A s \in Sides : s # Makers => levels'[s] = levels[s]
    BY <1>2
  <1>5. BookInv'
    <2>1. ASSUME NEW k \in DOMAIN new, NEW m \in DOMAIN levels[Opposite(Makers)]
          PROVE  Better(Makers, levels[Opposite(Makers)][m].px, new[k].px)
      <3>1. PICK n \in DOMAIN levels[Makers] : new[k].px = levels[Makers][n].px
        OBVIOUS
      <3> QED  BY <1>1, <1>2, <3>1, Uncrossed
    <2>2. ASSUME NEW s \in Sides, NEW k \in DOMAIN levels'[s], levels'[s][k].orders = <<>>
          PROVE  taker'.busy /\ s = Makers' /\ k = 1
      BY <1>1, <1>3, <1>4, <2>2 DEF BookInv
    <2> QED  BY <1>1, <1>2, <2>1, <2>2, BookKeeps
  <1>6. IndexInv'
    BY <1>1, <1>2, IndexShrinks
  <1>7. TakerInv'
    <2>0. PICK o : o = taker.order
      OBVIOUS
    <2>1. ASSUME Rests(o)
          PROVE  /\ o.side \in Sides /\ o.px \in Nat \ {0}
                 /\ o.id # 0 => <<o.client, o.id>> \in seen' /\ Unused(o.client, o.id)'
      <3>1. /\ o.side \in Sides /\ o.px \in Nat \ {0}
            /\ o.id # 0 => <<o.client, o.id>> \in seen /\ Unused(o.client, o.id)
        BY <1>1, <2>0, <2>1 DEF TakerInv
      <3>2. Unused(o.client, o.id) => Unused(o.client, o.id)'
        BY <1>2, UnusedStays
      <3> QED  BY <3>1, <3>2
    <2>2. taker'.order = o /\ taker'.rem <= o.qty
      BY <1>3, <2>0
    <2>3. o.type = "postonly" /\ levels'[Makers'] # <<>> => ~Reaches(o, levels'[Makers'][1].px)
      BY <1>3, <1>4, <2>0
    <2> QED  BY <1>3, <2>1, <2>2, <2>3 DEF TakerInv
  <1> QED  BY <1>1, <1>5, <1>6, <1>7 DEF EngineInv

LEMMA FillMakerKeeps ==
    ASSUME EngineInv, FillMaker
    PROVE  EngineInv'
  <1> DEFINE ls == levels[Makers]
             m == ls[1].orders[1]
             q == Given(m)
  <1>1. BookInv /\ TakerInv /\ levels \in [Sides -> Seq(Level)] /\ Makers \in Sides
    BY DEF EngineInv, BookInv, Makers, Opposite, Sides
  <1>2. /\ taker.busy /\ taker.order.type # "postonly" /\ taker.rem > 0
        /\ ls # <<>> /\ ls[1].orders # <<>>
        /\ taker' = [taker EXCEPT !.rem = @ - q]
        /\ UNCHANGED <<seen, count>>
        /\ \/ /\ q = m.qty
              /\ levels' = [levels EXCEPT ![Makers][1].orders = Tail(@)]
              /\ idx' = Unindexed(m.id)
           \/ /\ q # m.qty
              /\ levels' = [levels EXCEPT ![Makers][1].orders[1].qty = @ - q]
              /\ idx' = idx
    BY DEF FillMaker, Matchable, BestEmpty
  <1>3. /\ ls \in Seq(Level) /\ Len(ls) \in Nat /\ DOMAIN ls = 1 .. Len(ls)
        /\ \A k \in 1 .. Len(ls) :
              /\ ls[k] \in Level
              /\ ls[k].px \in Nat \ {0} /\ ls[k].orders \in Seq(Resting)
              /\ Len(ls[k].orders) \in Nat
    BY <1>1, LevelParts
  <1>4. 1 \in 1 .. Len(ls) /\ 1 \in 1 .. Len(ls[1].orders) /\ m \in Resting
    <2>1. \A S, z : z \in Seq(S) /\ z # <<>> => 1 \in 1 .. Len(z) /\ z[1] \in S
      BY EmptySeq, ElementOfSeq
    <2>2. ls # <<>> /\ ls[1].orders # <<>>
      BY <1>2
    <2>3. 1 \in 1 .. Len(ls)
      BY <1>3, <2>1, <2>2
    <2>4. ls[1].orders \in Seq(Resting)
      BY <1>3, <2>3
    <2> QED  BY <2>1, <2>2, <2>3, <2>4
  <1>5. q \in Nat /\ q <= m.qty /\ m.qty \in Nat
    <2>1. taker.rem \in Int /\ taker.rem > 0
      BY <1>1, <1>2 DEF TakerInv
    <2>2. m.qty \in Nat /\ taker.rem \in Nat
      BY <1>4, <2>1 DEF Resting
    <2>3. {taker.rem, m.qty} \in SUBSET Nat /\ {taker.rem, m.qty} # {}
      BY <2>2
    <2>4. q \in {taker.rem, m.qty} /\ \A y \in {taker.rem, m.qty} : q <= y
      BY <2>3, LeastElement DEF Given
    <2> QED  BY <2>2, <2>4
  <1>6. Sorted(Makers, ls)
    BY <1>1 DEF BookInv, Sorted
  <1>7. \A k \in 1 .. Len(ls) : ls[k].orders = <<>> => k = 1
    BY <1>1, <1>3 DEF BookInv
  <1> HIDE DEF ls, m, q
  \* The best level changes, at the prices there were.
  <1>8. ASSUME NEW lev \in Level, lev.px = ls[1].px,
               levels' = [levels EXCEPT ![Makers] = [ls EXCEPT ![1] = lev]],
               NEW gone, Shrinks([ls EXCEPT ![1] = lev], ls, gone),
               \/ gone = {} /\ idx' = idx
               \/ \E g \in Places(ls) : gone = {g} /\ idx' = Unindexed(At(ls, g).id)
        PROVE  EngineInv'
    <2> DEFINE new == [ls EXCEPT ![1] = lev]
    <2>1. /\ new \in Seq(Level) /\ DOMAIN new = 1 .. Len(ls)
          /\ new[1] = lev /\ \A k \in 1 .. Len(ls) : k # 1 => new[k] = ls[k]
      BY <1>3, <1>4, <1>8, ExceptSeq, LevelParts
    <2>2. \A k \in 1 .. Len(ls) : new[k].px = ls[k].px
      BY <1>8, <2>1
    <2>3. Sorted(Makers, new)
      BY <1>3, <1>6, <2>1, <2>2 DEF Sorted
    <2>4. \A k \in DOMAIN new :
             (\E n \in DOMAIN ls : new[k].px = ls[n].px) /\ (new[k].orders = <<>> => k = 1)
      BY <1>3, <1>7, <2>1, <2>2
    <2>5. Shrinks(new, ls, gone) /\ levels' = [levels EXCEPT ![Makers] = new]
      BY <1>8
    <2> HIDE DEF new
    <2> QED  BY <1>2, <1>5, <1>8, <2>1, <2>3, <2>4, <2>5, LoopKeeps DEF ls
  <1>9. CASE q = m.qty
    <2> DEFINE rest == Tail(ls[1].orders)
               lev == [ls[1] EXCEPT !.orders = rest]
    <2>1. levels' = [levels EXCEPT ![Makers] = [ls EXCEPT ![1] = lev]] /\ idx' = Unindexed(m.id)
      BY <1>1, <1>2, <1>4, <1>9 DEF ls
    <2>2. /\ rest \in Seq(Resting) /\ Len(rest) = Len(ls[1].orders) - 1
          /\ \A n \in 1 .. Len(ls[1].orders) - 1 : rest[n] = ls[1].orders[n + 1]
      BY <1>2, <1>3, <1>4, HeadTailProperties
    <2> HIDE DEF rest
    <2>3. lev \in Level /\ lev.px = ls[1].px /\ lev.orders = rest
      BY <1>3, <1>4, <2>2 DEF Level, Resting
    <2> HIDE DEF lev
    <2> DEFINE new == [ls EXCEPT ![1] = lev]
    <2>4. /\ new \in Seq(Level) /\ Len(new) = Len(ls)
          /\ new[1] = lev /\ \A k \in 1 .. Len(ls) : k # 1 => new[k] = ls[k]
      BY <1>3, <1>4, <2>3, ExceptSeq
    <2>5. \A k \in 1 .. Len(ls) : new[k].px = ls[k].px
      BY <2>3, <2>4
    <2> HIDE DEF new
    <2>6. /\ Len(new[1].orders) = Len(ls[1].orders) - 1
          /\ \A n \in 1 .. Len(ls[1].orders) - 1 :
                new[1].orders[n] = IF n < 1 THEN ls[1].orders[n] ELSE ls[1].orders[n + 1]
      BY <1>3, <1>4, <2>2, <2>3, <2>4
    <2>7. Shrinks(new, ls, {<<1, 1>>})
      BY <1>3, <1>4, <2>4, <2>5, <2>6, OrderGone
    <2>8. <<1, 1>> \in Places(ls) /\ At(ls, <<1, 1>>) = m
      BY <1>3, <1>4, PlaceOf DEF At, m
    <2> QED  BY <1>8, <2>1, <2>3, <2>7, <2>8 DEF new
  <1>10. CASE q # m.qty
    <2> DEFINE left == [m EXCEPT !.qty = @ - q]
               queue == [ls[1].orders EXCEPT ![1] = left]
               lev == [ls[1] EXCEPT !.orders = queue]
    <2>1. levels' = [levels EXCEPT ![Makers] = [ls EXCEPT ![1] = lev]] /\ idx' = idx
      BY <1>1, <1>2, <1>4, <1>10 DEF ls, m
    <2>2. left \in Resting /\ left.id = m.id /\ left.client = m.client
      <3>1. m.qty - q \in Nat \ {0}
        BY <1>5, <1>10
      <3> QED  BY <1>4, <3>1 DEF Resting
    <2> HIDE DEF left
    <2>3. /\ queue \in Seq(Resting) /\ Len(queue) = Len(ls[1].orders)
          /\ queue[1] = left
          /\ \A n \in 1 .. Len(ls[1].orders) : n # 1 => queue[n] = ls[1].orders[n]
      BY <1>3, <1>4, <2>2, ExceptSeq
    <2> HIDE DEF queue
    <2>4. lev \in Level /\ lev.px = ls[1].px /\ lev.orders = queue
      BY <1>3, <1>4, <2>3 DEF Level, Resting
    <2> HIDE DEF lev
    <2> DEFINE new == [ls EXCEPT ![1] = lev]
    <2>5. /\ new \in Seq(Level) /\ Len(new) = Len(ls)
          /\ new[1] = lev /\ \A k \in 1 .. Len(ls) : k # 1 => new[k] = ls[k]
      BY <1>3, <1>4, <2>4, ExceptSeq
    <2> HIDE DEF new
    <2>6. ASSUME NEW k \in 1 .. Len(ls)
          PROVE  /\ new[k].px = ls[k].px
                 /\ Len(new[k].orders) = Len(ls[k].orders)
                 /\ \A j \in 1 .. Len(ls[k].orders) :
                       /\ new[k].orders[j].id = ls[k].orders[j].id
                       /\ new[k].orders[j].client = ls[k].orders[j].client
      BY <2>2, <2>3, <2>4, <2>5 DEF m
    <2>7. Shrinks(new, ls, {})
      BY <1>3, <2>5, <2>6, NoneGone
    <2> QED  BY <1>8, <2>1, <2>4, <2>7 DEF new
  <1> QED  BY <1>9, <1>10

LEMMA DropLevelKeeps ==
    ASSUME EngineInv, DropLevel
    PROVE  EngineInv'
  <1> DEFINE ls == levels[Makers]
             new == Tail(ls)
  <1>1. BookInv /\ TakerInv /\ levels \in [Sides -> Seq(Level)] /\ Makers \in Sides
    BY DEF EngineInv, BookInv, Makers, Opposite, Sides
  <1>2. /\ taker.busy /\ ls # <<>> /\ ls[1].orders = <<>>
        /\ levels' = [levels EXCEPT ![Makers] = new]
        /\ UNCHANGED <<idx, seen, taker, count>>
    BY DEF DropLevel, BestEmpty
  <1>3. /\ ls \in Seq(Level) /\ Len(ls) \in Nat /\ DOMAIN ls = 1 .. Len(ls)
        /\ \A k \in 1 .. Len(ls) : ls[k].px \in Nat \ {0}
    BY <1>1, LevelParts
  <1>4. 1 \in 1 .. Len(ls)
    BY <1>2, <1>3, EmptySeq
  <1>5. Sorted(Makers, ls) /\ \A k \in 1 .. Len(ls) : ls[k].orders = <<>> => k = 1
    BY <1>1, <1>3 DEF BookInv, Sorted
  <1>6. taker' = [taker EXCEPT !.rem = @ - 0]
    <2>1. taker \in [busy : {TRUE}, order : Orders, rem : Int, before : {taker.before}]
      BY <1>1, <1>2 DEF TakerInv
    <2> QED  BY <1>2, <2>1
  <1>7. taker.order.type = "postonly" => ~Reaches(taker.order, ls[1].px)
                                           /\ taker.order.side \in Sides
                                           /\ taker.order.px \in Int
    BY <1>1, <1>2 DEF TakerInv, Rests
  <1> HIDE DEF ls
  <1>8. /\ new \in Seq(Level) /\ Len(new) = Len(ls) - 1 /\ DOMAIN new = 1 .. Len(ls) - 1
        /\ \A n \in 1 .. Len(ls) - 1 : new[n] = ls[n + 1]
    BY <1>2, <1>3, HeadTailProperties, LevelParts
  <1> HIDE DEF new
  <1>9. ASSUME NEW n \in 1 .. Len(ls) - 1
        PROVE  n \in Int /\ n + 1 \in 1 .. Len(ls) /\ n + 1 # 1 /\ ~(n < 1)
    BY <1>3
  <1>10. Sorted(Makers, new)
    <2> SUFFICES ASSUME NEW j \in 1 .. Len(ls) - 1, NEW k \in 1 .. Len(ls) - 1, j < k
                 PROVE  Better(Makers, new[j].px, new[k].px)
      BY <1>8 DEF Sorted
    <2>1. j + 1 < k + 1 /\ j + 1 \in DOMAIN ls /\ k + 1 \in DOMAIN ls
      BY <1>3, <1>9
    <2>2. new[j] = ls[j + 1] /\ new[k] = ls[k + 1]
      BY <1>8
    <2> QED  BY <1>5, <2>1, <2>2 DEF Sorted
  <1>11. ASSUME NEW k \in DOMAIN new
         PROVE  /\ \E n \in DOMAIN ls : new[k].px = ls[n].px
                /\ new[k].orders = <<>> => k = 1
    <2>1. k \in 1 .. Len(ls) - 1 /\ new[k] = ls[k + 1]
      BY <1>8
    <2>2. k + 1 \in 1 .. Len(ls) /\ k + 1 # 1
      BY <1>9, <2>1
    <2> QED  BY <1>3, <1>5, <2>1, <2>2
  <1>12. Shrinks(new, ls, {})
    <2>1. \A n \in 1 .. Len(ls) - 1 : new[n] = IF n < 1 THEN ls[n] ELSE ls[n + 1]
      BY <1>8, <1>9
    <2>2. Shrinks(new, ls, {1} \X (1 .. Len(ls[1].orders)))
      BY <1>3, <1>4, <1>8, <2>1, LevelGone
    <2>3. {1} \X (1 .. Len(ls[1].orders)) = {}
      <3>1. Len(ls[1].orders) = 0 /\ 1 .. 0 = {}
        BY <1>2 DEF ls
      <3> QED  BY <3>1
    <2> QED  BY <2>2, <2>3
  <1>13. ASSUME taker.order.type = "postonly", new # <<>>
         PROVE  ~Reaches(taker.order, new[1].px)
    <2>1. 1 \in 1 .. Len(ls) - 1
      BY <1>3, <1>8, <1>13, EmptySeq
    <2>2. new[1] = ls[2] /\ 2 \in 1 .. Len(ls)
      BY <1>3, <1>8, <2>1
    <2>3. Better(Makers, ls[1].px, ls[2].px)
      BY <1>3, <1>4, <1>5, <2>2 DEF Sorted
    <2>4. ls[1].px \in Int /\ ls[2].px \in Int
      BY <1>3, <1>4, <2>2
    <2> QED  BY <1>7, <1>13, <2>2, <2>3, <2>4 DEF Reaches, Better, Makers, Opposite, Sides
  <1>14. levels' = [levels EXCEPT ![Makers] = new] /\ 0 \in Nat
    BY <1>2 DEF new, ls
  <1> QED  BY <1>2, <1>6, <1>8, <1>10, <1>11, <1>12, <1>13, <1>14, LoopKeeps DEF ls

-----------------------------------------------------------------------------
(* The other steps.                                                        *)

LEMMA FinishKeeps ==
    ASSUME EngineInv, Finish
    PROVE  EngineInv'
  <1>0. PICK o : o = taker.order
    OBVIOUS
  <1>1. /\ BookInv /\ TakerInv /\ IndexInv /\ levels \in [Sides -> Seq(Level)]
        /\ seen \subseteq {<<r.client, r.id>> : r \in Orders}
        /\ count \in 0 .. MaxOrders
    BY DEF EngineInv, BookInv
  <1>2. /\ taker.busy /\ ~Matchable /\ ~BestEmpty /\ ~taker'.busy
        /\ UNCHANGED <<seen, count>>
    BY DEF Finish, Idle
  <1>3. ASSUME NEW s \in Sides, NEW k \in DOMAIN levels[s]
        PROVE  levels[s][k].orders # <<>>
    <2>1. levels[s] # <<>>
      BY <1>1, LevelParts, EmptySeq
    <2> QED  BY <1>1, <1>2, <2>1 DEF BookInv, BestEmpty
  <1>4. TakerInv'
    BY <1>2 DEF TakerInv
  <1>5. CASE UNCHANGED <<levels, idx>>
    <2>1. BookInv'
      BY <1>1, <1>3, <1>5, BookWaits
    <2>2. IndexInv'
      BY <1>1, <1>2, <1>5, IndexWaits
    <2> QED  BY <1>1, <1>2, <1>4, <2>1, <2>2 DEF EngineInv
  <1>6. CASE ~UNCHANGED <<levels, idx>>
    <2> DEFINE ord == [id |-> o.id, client |-> o.client, qty |-> taker.rem]
    <2>1. /\ Rests(o) /\ taker.rem > 0
          /\ levels' = [levels EXCEPT ![o.side] = Inserted(o.side, o.px, ord)]
          /\ idx' = Indexed(o.id, [side |-> o.side, px |-> o.px, client |-> o.client])
      BY <1>0, <1>6 DEF Finish
    <2>2. /\ o \in Orders /\ taker.rem \in Int
          /\ o.side \in Sides /\ o.px \in Nat \ {0}
          /\ o.id # 0 => <<o.client, o.id>> \in seen /\ Unused(o.client, o.id)
          /\ o.type = "postonly" /\ levels[Makers] # <<>> =>
               ~Reaches(o, levels[Makers][1].px)
      BY <1>0, <1>1, <1>2, <2>1 DEF TakerInv
    <2>3. o.id \in Int /\ o.client \in Int /\ o.px \in Int
      BY <2>2, OrdersAssumption
    <2>4. ord \in Resting /\ ord.id = o.id /\ ord.client = o.client
      <3>1. taker.rem \in Nat \ {0}
        BY <2>1, <2>2
      <3> QED  BY <2>3, <3>1 DEF Resting
    <2> HIDE DEF ord
    <2>5. Sorted(o.side, levels[o.side]) /\ Sorted(Makers, levels[Makers])
      BY <1>1, <2>2 DEF BookInv, Sorted, Makers, Opposite, Sides
    <2> DEFINE new == Inserted(o.side, o.px, ord)
    <2>6. /\ new \in Seq(Level) /\ Sorted(o.side, new)
          /\ \A k \in DOMAIN new :
                /\ new[k].orders # <<>>
                /\ new[k].px = o.px \/ \E m \in DOMAIN levels[o.side] :
                                         new[k].px = levels[o.side][m].px
          /\ \E g \in Places(new) :
                new[g[1]].px = o.px /\ At(new, g) = ord /\ Shrinks(levels[o.side], new, {g})
      BY <1>1, <1>3, <2>2, <2>4, <2>5, InsertedParts
    <2>7. levels' = [levels EXCEPT ![o.side] = new]
      BY <2>1
    <2> HIDE DEF new
    \* The order would have traded with whatever it crosses.
    <2>8. ASSUME NEW m \in DOMAIN levels[Opposite(o.side)]
          PROVE  Better(o.side, levels[Opposite(o.side)][m].px, o.px)
      <3> DEFINE ls == levels[Opposite(o.side)]
      <3>1. Makers = Opposite(o.side) /\ Opposite(o.side) \in Sides
        BY <1>0 DEF Makers, Opposite, Sides
      <3>2. /\ ls \in Seq(Level) /\ DOMAIN ls = 1 .. Len(ls) /\ Len(ls) \in Nat
            /\ \A k \in 1 .. Len(ls) : ls[k].px \in Nat \ {0}
        BY <1>1, <3>1, LevelParts
      <3>3. 1 \in 1 .. Len(ls) /\ ls # <<>> /\ m \in Int /\ m \in 1 .. Len(ls)
        BY <3>2
      <3>4. ~Reaches(o, ls[1].px)
        BY <1>0, <1>2, <2>1, <2>2, <3>1, <3>3 DEF Matchable
      <3>5. m = 1 \/ Better(Opposite(o.side), ls[1].px, ls[m].px)
        <4>1. m = 1 \/ 1 < m
          BY <3>3
        <4> QED  BY <2>5, <3>1, <3>2, <3>3, <4>1 DEF Sorted
      <3>6. ls[1].px \in Int /\ ls[m].px \in Int
        BY <3>2, <3>3
      <3> HIDE DEF ls
      <3>7. Better(o.side, ls[m].px, o.px)
        BY <2>2, <2>3, <3>4, <3>5, <3>6 DEF Reaches, Better, Opposite, Sides
      <3> QED  BY <3>7 DEF ls
    <2>9. BookInv'
      <3>1. ASSUME NEW k \in DOMAIN new, NEW m \in DOMAIN levels[Opposite(o.side)]
            PROVE  Better(o.side, levels[Opposite(o.side)][m].px, new[k].px)
        <4>1. CASE new[k].px = o.px
          BY <2>8, <4>1
        <4>2. CASE \E n \in DOMAIN levels[o.side] : new[k].px = levels[o.side][n].px
          BY <1>1, <2>2, <4>2, Uncrossed
        <4> QED  BY <2>6, <4>1, <4>2
      <3>2. \A s \in Sides : \A k \in DOMAIN levels'[s] : levels'[s][k].orders # <<>>
        BY <1>1, <1>3, <2>6, <2>7
      <3> QED  BY <1>1, <2>2, <2>6, <2>7, <3>1, <3>2, BookKeeps
    <2>10. IndexInv'
      <3>1. PICK g \in Places(new) :
               new[g[1]].px = o.px /\ At(new, g) = ord /\ Shrinks(levels[o.side], new, {g})
        BY <2>6
      <3>2. PICK side \in Sides, px \in Nat \ {0}, c \in Int, id \in Int :
               side = o.side /\ px = o.px /\ c = o.client /\ id = o.id
        BY <2>2, <2>3
      <3>3. /\ new[g[1]].px = px /\ At(new, g).id = id /\ At(new, g).client = c
            /\ Shrinks(levels[side], new, {g}) /\ new \in Seq(Level)
        BY <2>4, <2>6, <3>1, <3>2
      <3>4. id # 0 => <<c, id>> \in seen /\ Unused(c, id)
        BY <2>2, <3>2
      <3>5. /\ levels' = [levels EXCEPT ![side] = new] /\ seen' = seen
            /\ idx' = Indexed(id, [side |-> side, px |-> px, client |-> c])
        BY <1>2, <2>1, <2>7, <3>2
      <3>6. IndexInv /\ levels \in [Sides -> Seq(Level)]
        BY <1>1
      <3> QED  BY <3>3, <3>4, <3>5, <3>6, IndexGrows
    <2> QED  BY <1>1, <1>2, <1>4, <2>9, <2>10 DEF EngineInv
  <1> QED  BY <1>5, <1>6

LEMMA CancelHitKeeps ==
    ASSUME EngineInv, NEW o \in Orders, CancelHit(o)
    PROVE  EngineInv'
  <1>1. /\ BookInv /\ TakerInv /\ IndexInv /\ levels \in [Sides -> Seq(Level)]
        /\ seen \subseteq {<<r.client, r.id>> : r \in Orders}
        /\ count \in 0 .. MaxOrders
    BY DEF EngineInv, BookInv
  <1>2. PICK side, px, id : side = idx[o.target].side /\ px = idx[o.target].px /\ id = o.target
    OBVIOUS
  <1>3. /\ ~taker.busy /\ id \in DOMAIN idx
        /\ levels' = [levels EXCEPT ![side] = Removed(side, px, id)]
        /\ idx' = Unindexed(id)
        /\ UNCHANGED <<seen, taker>> /\ count < MaxOrders /\ count' = count + 1
    BY <1>2 DEF CancelHit, Takes
  <1>4. side \in Sides /\ Rest(side, px, id)
    BY <1>1, <1>2, <1>3 DEF IndexInv, IndexNeverDangles
  <1>5. \A s \in Sides : \A k \in DOMAIN levels[s] : levels[s][k].orders # <<>>
    BY <1>1, <1>3 DEF BookInv
  <1>6. Sorted(side, levels[side])
    BY <1>1, <1>4 DEF BookInv, Sorted
  <1> DEFINE new == Removed(side, px, id)
  <1>7. /\ new \in Seq(Level) /\ Sorted(side, new)
        /\ \A k \in DOMAIN new :
              /\ new[k].orders # <<>>
              /\ \E m \in DOMAIN levels[side] : new[k].px = levels[side][m].px
        /\ \E g \in Places(levels[side]) :
              At(levels[side], g).id = id /\ Shrinks(new, levels[side], {g})
    BY <1>1, <1>4, <1>5, <1>6, RemovedParts
  <1>8. levels' = [levels EXCEPT ![side] = new]
    BY <1>3
  <1> HIDE DEF new
  <1>9. BookInv'
    <2>1. ASSUME NEW k \in DOMAIN new, NEW m \in DOMAIN levels[Opposite(side)]
          PROVE  Better(side, levels[Opposite(side)][m].px, new[k].px)
      BY <1>1, <1>4, <1>7, Uncrossed
    <2>2. \A s \in Sides : \A k \in DOMAIN levels'[s] : levels'[s][k].orders # <<>>
      BY <1>1, <1>5, <1>7, <1>8
    <2> QED  BY <1>1, <1>4, <1>7, <1>8, <2>1, <2>2, BookKeeps
  <1>10. IndexInv'
    <2>1. PICK g \in Places(levels[side]) :
             At(levels[side], g).id = id /\ Shrinks(new, levels[side], {g})
      BY <1>7
    <2>2. idx' = Unindexed(At(levels[side], g).id)
      BY <1>3, <2>1
    <2> QED  BY <1>1, <1>3, <1>4, <1>7, <1>8, <2>1, <2>2, IndexShrinks, ZenonT(60)
  <1>11. TakerInv'
    BY <1>3 DEF TakerInv
  <1>12. count' \in 0 .. MaxOrders
    BY <1>1, <1>3, MaxOrdersAssumption
  <1> QED  BY <1>1, <1>3, <1>9, <1>10, <1>11, <1>12 DEF EngineInv

\* An order that was let through has an id of its own among what rests.
LEMMA StartKeeps ==
    ASSUME EngineInv, NEW o \in Orders, Start(o)
    PROVE  EngineInv'
  <1>1. /\ BookInv /\ TakerInv /\ IndexInv
        /\ seen \subseteq {<<r.client, r.id>> : r \in Orders}
        /\ count \in 0 .. MaxOrders
    BY DEF EngineInv
  <1>2. PICK b : taker' = [busy |-> TRUE, order |-> o, rem |-> o.qty, before |-> b]
    BY DEF Start
  <1>3. /\ ~taker.busy /\ Sound(o) /\ ~Refused(o) /\ seen' = Recorded(o)
        /\ count < MaxOrders /\ count' = count + 1
        /\ levels' = levels /\ idx' = idx
    BY DEF Start, Takes
  <1>4. seen \subseteq seen' /\ seen' \subseteq {<<r.client, r.id>> : r \in Orders}
    BY <1>1, <1>3 DEF Recorded
  <1>5. BookInv'
    BY <1>1, <1>3, BookWaits
  <1>6. IndexInv'
    BY <1>1, <1>3, <1>4, IndexWaits
  <1>7. TakerInv'
    <2>1. o.qty \in Int /\ o.px \in Int
      BY OrdersAssumption
    <2>2. /\ taker' \in [busy : {TRUE}, order : Orders, rem : Int, before : {taker'.before}]
          /\ taker'.order = o /\ taker'.rem = o.qty
      BY <1>2, <2>1
    <2>3. ASSUME Rests(o)
          PROVE  /\ o.side \in Sides /\ o.px \in Nat \ {0}
                 /\ o.id # 0 => <<o.client, o.id>> \in seen' /\ Unused(o.client, o.id)'
      <3>1. ~Exempt(o) /\ ~Malformed(o) /\ ~Duplicate(o) /\ o.type # "market"
        BY <1>3, <2>3 DEF Rests, Exempt, Sound
      <3>2. o.side \in Sides /\ ~(o.px <= 0)
        BY <3>1 DEF Malformed
      <3>3. ASSUME o.id # 0
            PROVE  <<o.client, o.id>> \in seen' /\ Unused(o.client, o.id)'
        <4>1. <<o.client, o.id>> \in seen' /\ <<o.client, o.id>> \notin seen
          BY <1>3, <3>1, <3>3 DEF Recorded, Duplicate
        <4>2. Accepted
          BY <1>1 DEF IndexInv
        <4>3. Unused(o.client, o.id)
          BY <3>3, <4>1, <4>2 DEF Unused, Accepted
        <4>4. Unused(o.client, o.id)'
          BY <1>3, <4>3 DEF Unused
        <4> QED  BY <4>1, <4>4
      <3> QED  BY <2>1, <3>2, <3>3
    <2>4. o.type = "postonly" /\ levels'[Makers'] # <<>> =>
             ~Reaches(o, levels'[Makers'][1].px)
      <3>1. ASSUME o.type = "postonly"
            PROVE  o.side \in Sides /\ ~WouldCross(o)
        BY <1>3, <2>3, <3>1 DEF Refused, Rests
      <3>2. Makers' = Opposite(o.side)
        BY <2>2 DEF Makers
      <3> QED  BY <1>3, <3>1, <3>2 DEF WouldCross, Reaches, Sides
    <2>5. o.qty <= o.qty
      BY <2>1
    <2> QED  BY <2>2, <2>3, <2>4, <2>5 DEF TakerInv
  <1>8. count' \in 0 .. MaxOrders
    BY <1>1, <1>3, MaxOrdersAssumption
  <1> QED  BY <1>4, <1>5, <1>6, <1>7, <1>8 DEF EngineInv

\* Answers that leave the book as it is.
LEMMA AnswerKeeps ==
    ASSUME EngineInv, NEW o \in Orders, Reject(o) \/ CancelMiss(o) \/ Turned(o)
    PROVE  EngineInv'
  <1>1. /\ BookInv /\ IndexInv
        /\ seen \subseteq {<<r.client, r.id>> : r \in Orders}
        /\ count \in 0 .. MaxOrders
    BY DEF EngineInv
  <1>2. /\ ~taker.busy /\ taker' = taker
        /\ count < MaxOrders /\ count' = count + 1
        /\ levels' = levels /\ idx' = idx
        /\ seen' = seen \/ seen' = Recorded(o)
    BY DEF Reject, CancelMiss, Turned, Takes
  <1>3. seen \subseteq seen' /\ seen' \subseteq {<<r.client, r.id>> : r \in Orders}
    BY <1>1, <1>2 DEF Recorded
  <1>4. BookInv' /\ IndexInv' /\ TakerInv'
    BY <1>1, <1>2, <1>3, BookWaits, IndexWaits DEF TakerInv
  <1>5. count' \in 0 .. MaxOrders
    BY <1>1, <1>2, MaxOrdersAssumption
  <1> QED  BY <1>3, <1>4, <1>5 DEF EngineInv

LEMMA EngineInvHolds == Spec => []EngineInv
  <1>1. Init => EngineInv
    <2> SUFFICES ASSUME Init
                 PROVE  EngineInv
      OBVIOUS
    <2>1. /\ levels = [s \in Sides |-> <<>>] /\ idx = <<>> /\ seen = {}
          /\ ~taker.busy /\ count = 0
      BY DEF Init, Idle
    <2>2. /\ \A s \in Sides : levels[s] = <<>> /\ DOMAIN levels[s] = {} /\ Places(levels[s]) = {}
          /\ levels \in [Sides -> Seq(Level)]
      BY <2>1, EmptySeq DEF Places
    <2>3. DOMAIN idx = {} /\ idx \in [DOMAIN idx -> [side : Sides, px : Nat \ {0}, client : Int]]
      BY <2>1
    <2>4. BookInv
      BY <2>2 DEF BookInv, Sides
    <2>5. IndexInv
      BY <2>2, <2>3 DEF IndexInv, IndexNeverDangles, OnlySharedIdsOrphaned, Accepted, IdsApart
    <2>6. TakerInv /\ seen \subseteq {<<o.client, o.id>> : o \in Orders}
      BY <2>1 DEF TakerInv
    <2>7. count \in 0 .. MaxOrders
      BY <2>1, MaxOrdersAssumption
    <2> QED  BY <2>4, <2>5, <2>6, <2>7 DEF EngineInv
  <1>2. EngineInv /\ [Next]_vars => EngineInv'
    <2> SUFFICES ASSUME EngineInv, [Next]_vars
                 PROVE  EngineInv'
      OBVIOUS
    <2>1. ASSUME NEW o \in Orders, Receive(o)
          PROVE  EngineInv'
      BY <2>1, CancelHitKeeps, StartKeeps, AnswerKeeps DEF Receive
    <2>2. CASE Match
      BY <2>2, FillMakerKeeps, DropLevelKeeps, FinishKeeps DEF Match
    <2>3. CASE UNCHANGED vars
      <3>1. /\ levels' = levels /\ idx' = idx /\ seen' = seen /\ taker' = taker
            /\ count' = count
        BY <2>3 DEF vars
      <3>2. BookInv' /\ IndexInv' /\ TakerInv'
        <4>1. BookInv' = BookInv /\ TakerInv' = TakerInv
          BY <3>1 DEF BookInv, TakerInv, Makers, Unused
        <4> QED  BY <3>1, <4>1, IndexWaits DEF EngineInv
      <3> QED  BY <3>1, <3>2 DEF EngineInv
    <2> QED  BY <2>1, <2>2, <2>3 DEF Next
  <1> QED  BY <1>1, <1>2, PTL DEF Spec

-----------------------------------------------------------------------------

\* Between two orders the book is in price order, without empty levels and
\* not crossed, whatever requests came and however many: the loop, the
\* resting switch, insertResting and removeOrder keep it so together.
THEOREM BookInOrder == Spec => []BookSound
  <1>1. EngineInv => BookSound
    <2> SUFFICES ASSUME EngineInv
                 PROVE  BookSound
      OBVIOUS
    <2>1. /\ BookInv /\ TakerInv /\ IndexInv /\ levels \in [Sides -> Seq(Level)]
          /\ seen \subseteq {<<o.client, o.id>> : o \in Orders}
          /\ count \in 0 .. MaxOrders
      BY DEF EngineInv, BookInv
    <2>2. \A s \in Sides :
            /\ DOMAIN levels[s] = 1 .. Len(levels[s]) /\ Len(levels[s]) \in Nat
            /\ levels[s] # <<>> => 1 \in DOMAIN levels[s]
            /\ \A k \in DOMAIN levels[s] :
                  /\ levels[s][k].px \in Nat \ {0}
                  /\ \A j \in DOMAIN levels[s][k].orders :
                        levels[s][k].orders[j] \in Resting
      <3> SUFFICES ASSUME NEW ls \in Seq(Level)
                   PROVE  /\ DOMAIN ls = 1 .. Len(ls) /\ Len(ls) \in Nat
                          /\ ls # <<>> => 1 \in DOMAIN ls
                          /\ \A k \in DOMAIN ls :
                                /\ ls[k].px \in Nat \ {0}
                                /\ \A j \in DOMAIN ls[k].orders : ls[k].orders[j] \in Resting
        BY <2>1
      <3>1. ls # <<>> => 1 \in 1 .. Len(ls)
        BY EmptySeq
      <3> QED  BY <3>1, LevelParts
    <2>3. TypeOK
      <3>1. \A i \in DOMAIN idx : idx[i].side \in Sides /\ idx[i].px \in Nat \ {0}
        BY <2>1 DEF IndexInv
      <3>2. taker.busy => taker.order \in Orders /\ taker.rem <= taker.order.qty
        BY <2>1 DEF TakerInv
      <3> QED  BY <2>1, <2>2, <3>1, <3>2 DEF TypeOK, Resting
    <2>4. ASSUME ~taker.busy, NEW s \in Sides, NEW k \in DOMAIN levels[s]
          PROVE  /\ levels[s][k].orders # <<>>
                 /\ k > 1 => Better(s, levels[s][k-1].px, levels[s][k].px)
      <3>1. levels[s][k].orders # <<>>
        BY <2>1, <2>4 DEF BookInv
      <3>2. ASSUME k > 1
            PROVE  k - 1 \in DOMAIN levels[s] /\ k - 1 < k
        BY <2>2, <3>2
      <3> QED  BY <2>1, <3>1, <3>2 DEF BookInv
    <2>5. levels["buy"] # <<>> /\ levels["sell"] # <<>>
            => levels["buy"][1].px < levels["sell"][1].px
      BY <2>1, <2>2 DEF BookInv, Sides
    <2> QED  BY <2>3, <2>4, <2>5 DEF BookSound
  <1> QED  BY <1>1, EngineInvHolds, PTL

\* An index entry always leads to a resting order of its id, and only orders
\* with a shared id (or none) are without one, for any clients and ids: the
\* index, keyed by the id alone, is right as far as it can be.
THEOREM IndexAgrees == Spec => []IndexSound
  <1>1. EngineInv => IndexSound
    BY DEF EngineInv, IndexInv, IndexSound
  <1> QED  BY <1>1, EngineInvHolds, PTL
-----------------------------------------------------------------------------
(* A fok order's promise.                                                  *)

\* What a step takes from the best maker it takes from the order as well.
LEMMA FokFill ==
    ASSUME EngineInv, FokInv, FillMaker
    PROVE  FokInv'
  <1> DEFINE ls == levels[Makers]
             m == ls[1].orders[1]
             q == Given(m)
             new == levels'[Makers]
  <1>0. PICK o : o = taker.order
    OBVIOUS
  <1>1. /\ BookInv /\ TakerInv /\ levels \in [Sides -> Seq(Level)] /\ Makers \in Sides
        /\ levels' \in [Sides -> Seq(Level)]
    <2>1. EngineInv'
      BY FillMakerKeeps
    <2> QED  BY <2>1 DEF EngineInv, BookInv, Makers, Opposite, Sides
  <1>2. /\ taker.busy /\ taker.rem > 0 /\ ack' = ack
        /\ ls # <<>> /\ ls[1].orders # <<>> /\ Reaches(o, ls[1].px)
        /\ taker' = [taker EXCEPT !.rem = @ - q]
        /\ \/ /\ q = m.qty
              /\ levels' = [levels EXCEPT ![Makers][1].orders = Tail(@)]
           \/ q # m.qty
    BY <1>0 DEF FillMaker, Matchable, BestEmpty
  <1>3. /\ ls \in Seq(Level) /\ Len(ls) \in Nat /\ DOMAIN ls = 1 .. Len(ls)
        /\ \A k \in 1 .. Len(ls) :
              /\ ls[k] \in Level
              /\ ls[k].px \in Nat \ {0} /\ ls[k].orders \in Seq(Resting)
              /\ Len(ls[k].orders) \in Nat
    BY <1>1, LevelParts
  <1>4. 1 \in 1 .. Len(ls) /\ 1 \in 1 .. Len(ls[1].orders) /\ m \in Resting
    BY <1>2, <1>3, EmptySeq, ElementOfSeq
  <1>5. /\ q \in Nat /\ m.qty \in Nat /\ taker.rem \in Nat
        /\ q <= taker.rem /\ (q = m.qty \/ q = taker.rem)
    <2>1. taker.rem \in Int
      BY <1>1, <1>2 DEF TakerInv
    <2>2. m.qty \in Nat /\ taker.rem \in Nat
      BY <1>2, <1>4, <2>1 DEF Resting
    <2>3. {taker.rem, m.qty} \in SUBSET Nat /\ {taker.rem, m.qty} # {}
      BY <2>2
    <2>4. q \in {taker.rem, m.qty} /\ \A y \in {taker.rem, m.qty} : q <= y
      BY <2>3, LeastElement DEF Given
    <2> QED  BY <2>2, <2>4
  <1>6. new \in Seq(Level)
    BY <1>1
  <1> HIDE DEF q
  <1>7. /\ taker'.busy /\ taker'.order = o /\ Makers' = Makers
        /\ taker'.rem = taker.rem - q
    BY <1>0, <1>1, <1>2, <1>5, TakerOnward
  <1> HIDE DEF ls, m, new
  <1>8. ASSUME o.type = "fok"
        PROVE  taker'.rem \in Nat /\ taker'.rem <= Quantity(new, Offered(o, new))
    <2>1. taker.rem <= Quantity(ls, Offered(o, ls))
      BY <1>0, <1>2, <1>8 DEF FokInv, ls
    <2>2. Offered(o, new) \in SUBSET Places(new) /\ Offered(o, ls) \in SUBSET Places(ls)
      BY DEF Offered
    <2>3. CASE q = taker.rem /\ q # m.qty
      <3>1. taker'.rem = 0
        BY <1>5, <1>7, <2>3
      <3>2. Quantity(new, Offered(o, new)) \in Nat
        BY <1>6, <2>2, QuantityIsTotal
      <3> QED  BY <3>1, <3>2
    <2>4. CASE q = m.qty
      <3> DEFINE rest == Tail(ls[1].orders)
      <3>1. /\ rest \in Seq(Resting) /\ Len(rest) = Len(ls[1].orders) - 1
            /\ \A n \in 1 .. Len(ls[1].orders) - 1 : rest[n] = ls[1].orders[n + 1]
        BY <1>2, <1>3, <1>4, HeadTailProperties
      <3>2. new = [ls EXCEPT ![1] = [ls[1] EXCEPT !.orders = rest]]
        BY <1>1, <1>2, <1>4, <2>4 DEF new, ls
      <3> HIDE DEF rest
      <3>3. PICK lev : lev = [ls[1] EXCEPT !.orders = rest]
        OBVIOUS
      <3>4. lev \in Level /\ lev.px = ls[1].px /\ lev.orders = rest
        BY <1>3, <1>4, <3>1, <3>3 DEF Level, Resting
      <3>5. /\ Len(new) = Len(ls)
            /\ new[1] = lev /\ \A k \in 1 .. Len(ls) : k # 1 => new[k] = ls[k]
        BY <1>3, <1>4, <3>2, <3>3, <3>4, ExceptSeq
      <3>6. \A k \in 1 .. Len(ls) : new[k].px = ls[k].px /\ (k # 1 => new[k] = ls[k])
        BY <3>4, <3>5
      <3>7. /\ Len(new[1].orders) = Len(ls[1].orders) - 1
            /\ \A n \in 1 .. Len(ls[1].orders) - 1 :
                  new[1].orders[n] = IF n < 1 THEN ls[1].orders[n] ELSE ls[1].orders[n + 1]
        BY <1>3, <1>4, <3>1, <3>4, <3>5
      <3>8. Leaves(new, ls, {<<1, 1>>})
        BY <1>3, <1>4, <1>6, <3>5, <3>6, <3>7, OrderGone
      <3>9. Quantity(new, Offered(o, new)) = Quantity(ls, Offered(o, ls) \ {<<1, 1>>})
        BY <1>3, <1>6, <3>8, OfferedLess
      <3>10. <<1, 1>> \in Offered(o, ls) /\ At(ls, <<1, 1>>) = m
        BY <1>2, <1>3, <1>4, PlaceOf DEF Offered, At, m
      <3>11. Quantity(ls, Offered(o, ls)) = m.qty + Quantity(ls, Offered(o, ls) \ {<<1, 1>>})
        BY <1>3, <2>2, <3>10, OneLess
      <3>12. Quantity(ls, Offered(o, ls) \ {<<1, 1>>}) \in Nat
        <4>1. Offered(o, ls) \ {<<1, 1>>} \in SUBSET Places(ls)
          BY <2>2
        <4> QED  BY <1>3, <4>1, QuantityIsTotal
      <3> QED  BY <1>5, <1>7, <2>1, <2>4, <3>9, <3>11, <3>12
    <2> QED  BY <1>5, <2>3, <2>4
  <1>9. FokAllOrNothing'
    BY <1>2 DEF FokInv, FokAllOrNothing
  <1>10. o.type = "fok" => o.side \in Sides
    BY <1>0, <1>2 DEF FokInv
  <1> QED  BY <1>0, <1>7, <1>8, <1>9, <1>10 DEF FokInv, new

\* A level that is used up has nothing left to offer.
LEMMA FokDrop ==
    ASSUME EngineInv, FokInv, DropLevel
    PROVE  FokInv'
  <1> DEFINE ls == levels[Makers]
             new == Tail(ls)
  <1>1. BookInv /\ levels \in [Sides -> Seq(Level)] /\ Makers \in Sides
    BY DEF EngineInv, BookInv, Makers, Opposite, Sides
  <1>2. /\ taker.busy /\ ls # <<>> /\ ls[1].orders = <<>>
        /\ levels' = [levels EXCEPT ![Makers] = new]
        /\ taker' = taker /\ ack' = ack
    BY DEF DropLevel, BestEmpty
  <1>3. ls \in Seq(Level) /\ Len(ls) \in Nat
    BY <1>1, LevelParts
  <1>4. levels'[Makers] = new /\ Makers' = Makers
    BY <1>1, <1>2 DEF Makers
  <1> HIDE DEF ls
  <1>5. /\ 1 \in 1 .. Len(ls)
        /\ new \in Seq(Level) /\ Len(new) = Len(ls) - 1
        /\ \A n \in 1 .. Len(ls) - 1 : new[n] = ls[n + 1]
    BY <1>2, <1>3, EmptySeq, HeadTailProperties
  <1> HIDE DEF new
  <1>6. \A n \in 1 .. Len(ls) - 1 : new[n] = IF n < 1 THEN ls[n] ELSE ls[n + 1]
    <2>1. \A n \in 1 .. Len(ls) - 1 : ~(n < 1)
      BY <1>3
    <2> QED  BY <1>5, <2>1
  <1>7. Leaves(new, ls, {1} \X (1 .. Len(ls[1].orders)))
    BY <1>3, <1>5, <1>6, LevelGone
  <1>8. {1} \X (1 .. Len(ls[1].orders)) = {}
    <2>1. Len(ls[1].orders) = 0 /\ 1 .. 0 = {}
      BY <1>2
    <2> QED  BY <2>1
  <1>9. \A o : Quantity(new, Offered(o, new)) = Quantity(ls, Offered(o, ls))
    <2>1. \A o : Quantity(new, Offered(o, new)) = Quantity(ls, Offered(o, ls) \ {})
      BY <1>3, <1>5, <1>7, <1>8, OfferedLess
    <2>2. \A o : Offered(o, ls) \ {} = Offered(o, ls)
      OBVIOUS
    <2> QED  BY <2>1, <2>2
  <1> QED  BY <1>2, <1>4, <1>9 DEF FokInv, FokAllOrNothing, ls

\* The loop ends with nothing reachable left, hence with nothing wanted.
LEMMA FokFinish ==
    ASSUME EngineInv, FokInv, Finish
    PROVE  FokInv'
  <1> DEFINE ls == levels[Makers]
  <1>1. BookInv /\ levels \in [Sides -> Seq(Level)] /\ Makers \in Sides
    BY DEF EngineInv, BookInv, Makers, Opposite, Sides
  <1>2. PICK o : o = taker.order
    OBVIOUS
  <1>3. /\ taker.busy /\ ~Matchable /\ ~taker'.busy
        /\ ack' = [order |-> o, status |-> StatusOf(o, o.qty - taker.rem, taker.rem),
                   filled |-> IF Known(o) THEN o.qty - taker.rem ELSE 0]
    BY <1>2 DEF Finish, Idle, Answered
  <1>4. ASSUME o.type = "fok"
        PROVE  taker.rem = 0
    <2>1. /\ taker.rem \in Nat /\ taker.rem <= Quantity(ls, Offered(o, ls)) /\ o.side \in Sides
      BY <1>2, <1>3, <1>4 DEF FokInv
    <2>2. ls \in Seq(Level) /\ Len(ls) \in Nat /\ DOMAIN ls = 1 .. Len(ls)
          /\ \A k \in 1 .. Len(ls) : ls[k].px \in Nat \ {0}
      BY <1>1, LevelParts
    <2>3. CASE taker.rem > 0
      <3>1. ls = <<>> \/ ~Reaches(o, ls[1].px)
        BY <1>2, <1>3, <1>4, <2>3 DEF Matchable
      <3>2. ASSUME NEW p \in Places(ls)
            PROVE  ~Reaches(o, ls[p[1]].px)
        <4>1. p[1] \in 1 .. Len(ls)
          BY <2>2, PlaceOf
        <4>2. PICK k \in 1 .. Len(ls) : k = p[1]
          BY <4>1
        <4>3. 1 \in 1 .. Len(ls) /\ (k = 1 \/ 1 < k)
          BY <2>2
        <4>4. ls # <<>>
          BY <2>2, <4>3
        <4>5. k = 1 \/ Better(Makers, ls[1].px, ls[k].px)
          BY <1>1, <2>2, <4>3 DEF BookInv
        <4>6. /\ Makers = Opposite(o.side) /\ o.type # "market" /\ o \in Orders
              /\ ls[1].px \in Int /\ ls[k].px \in Int
          BY <1>2, <1>3, <1>4, <2>2, <4>3, SMTT(60) DEF Makers, EngineInv, TakerInv
        <4>7. o.px \in Int
          BY <4>6, OrdersAssumption
        <4>8. ~Reaches(o, ls[1].px)
          BY <3>1, <4>4
        <4> HIDE DEF ls
        <4>9. ~Reaches(o, ls[k].px)
          BY <2>1, <4>5, <4>6, <4>7, <4>8 DEF Reaches, Better, Opposite, Sides
        <4> QED  BY <4>2, <4>9
      <3>3. Offered(o, ls) = {}
        BY <3>2 DEF Offered
      <3>4. Quantity(ls, {}) = 0
        <4>1. {} \in SUBSET Places(ls)
          OBVIOUS
        <4> QED  BY <2>2, <4>1, QuantityIsTotal
      <3> QED  BY <2>1, <2>3, <3>3, <3>4
    <2> QED  BY <2>1, <2>3
  <1>5. ASSUME o.type = "fok"
        PROVE  ack'.status = "filled" /\ ack'.filled = o.qty
    <2>1. Known(o) /\ StatusOf(o, o.qty - taker.rem, taker.rem) = "filled"
      BY <1>5 DEF Known, Rests, StatusOf
    <2>2. o.qty \in Int
      BY <1>2, <1>3, OrdersAssumption DEF EngineInv, TakerInv
    <2> QED  BY <1>3, <1>4, <1>5, <2>1, <2>2
  <1>6. ack'.order = o
    BY <1>3
  <1> QED  BY <1>3, <1>5, <1>6 DEF FokInv, FokAllOrNothing

\* Before an order trades, and where it does not.
LEMMA FokReceive ==
    ASSUME EngineInv, FokInv, NEW o \in Orders, Receive(o)
    PROVE  FokInv'
  <1>1. CASE Reject(o) \/ Turned(o)
    BY <1>1 DEF Reject, Turned, Takes, Answered, FokInv, FokAllOrNothing
  <1>2. CASE CancelMiss(o) \/ CancelHit(o)
    BY <1>2 DEF CancelMiss, CancelHit, Takes, Answered, FokInv, FokAllOrNothing
  <1>3. CASE Start(o)
    <2>1. PICK b : taker' = [busy |-> TRUE, order |-> o, rem |-> o.qty, before |-> b]
      BY <1>3 DEF Start
    <2>2. levels' = levels /\ ack' = ack /\ Sound(o) /\ ~Refused(o)
      BY <1>3 DEF Start
    <2>3. Makers' = Opposite(o.side) /\ taker'.order = o /\ taker'.rem = o.qty
      BY <2>1 DEF Makers
    <2>4. ASSUME o.type = "fok"
          PROVE  o.side \in Sides /\ o.qty \in Nat
      <3>1. ~Malformed(o) /\ ~Exempt(o) /\ o.qty \in Int
        BY <2>2, <2>4, OrdersAssumption DEF Sound, Exempt
      <3> QED  BY <3>1 DEF Malformed
    <2>5. ASSUME o.type = "fok"
          PROVE  o.qty <= Quantity(levels[Opposite(o.side)], Offered(o, levels[Opposite(o.side)]))
      <3>1. FokFillable(o)
        BY <2>2, <2>5 DEF Refused
      <3>2. PICK ls : ls = levels[Opposite(o.side)]
        OBVIOUS
      <3>3. Quantity(ls, Offered(o, ls)) >= o.qty
        BY <3>1, <3>2 DEF FokFillable
      <3>4. Quantity(ls, Offered(o, ls)) \in Nat
        <4>1. ls \in Seq(Level)
          BY <2>4, <2>5, <3>2 DEF EngineInv, BookInv, Opposite, Sides
        <4>2. Offered(o, ls) \in SUBSET Places(ls)
          BY DEF Offered
        <4> QED  BY <4>1, <4>2, QuantityIsTotal
      <3> QED  BY <2>4, <2>5, <3>2, <3>3, <3>4
    <2>6. FokAllOrNothing'
      BY <2>2 DEF FokInv, FokAllOrNothing
    <2> QED  BY <2>2, <2>3, <2>4, <2>5, <2>6 DEF FokInv
  <1> QED  BY <1>1, <1>2, <1>3 DEF Receive

\* A fok order trades all of its quantity or nothing, whatever rests on the
\* book: the feasibility check and the matching loop come to the same sum.
THEOREM FokKept == Spec => []FokAllOrNothing
  <1>1. Init => FokInv
    BY DEF Init, Idle, NoAck, FokInv, FokAllOrNothing
  <1>2. EngineInv /\ FokInv /\ [Next]_vars => FokInv'
    <2> SUFFICES ASSUME EngineInv, FokInv, [Next]_vars
                 PROVE  FokInv'
      OBVIOUS
    <2>1. CASE Match
      BY <2>1, FokFill, FokDrop, FokFinish DEF Match
    <2>2. CASE \E o \in Orders : Receive(o)
      BY <2>2, FokReceive
    <2>3. CASE UNCHANGED vars
      BY <2>3 DEF vars, FokInv, FokAllOrNothing, Makers
    <2> QED  BY <2>1, <2>2, <2>3 DEF Next
  <1>3. FokInv => FokAllOrNothing
    BY DEF FokInv
  <1> QED  BY <1>1, <1>2, <1>3, EngineInvHolds, PTL DEF Spec

-----------------------------------------------------------------------------
(* The levels of a side laid end to end.                                   *)

Maker == [id : Int, px : Nat \ {0}, qty : Nat \ {0}]

\* The orders of a level as the reference book has them.
Laid(px, q) == [k \in DOMAIN q |-> [id |-> q[k].id, px |-> px, qty |-> q[k].qty]]

LayStep == [z \in Seq(Maker) \X Level |-> z[1] \o Laid(z[2].px, z[2].orders)]

Flatten(ls) == Run(LayStep, <<>>, ls)

LEMMA LaidParts ==
    ASSUME NEW px \in Nat \ {0}
    PROVE  /\ Laid(px, <<>>) = <<>>
           /\ \A m \in Resting : Laid(px, <<m>>) = <<[id |-> m.id, px |-> px, qty |-> m.qty]>>
           /\ \A q \in Seq(Resting) :
                 /\ Laid(px, q) \in Seq(Maker) /\ Len(Laid(px, q)) = Len(q)
                 /\ \A k \in 1 .. Len(q) :
                       Laid(px, q)[k] = [id |-> q[k].id, px |-> px, qty |-> q[k].qty]
           /\ \A a, b \in Seq(Resting) : Laid(px, a \o b) = Laid(px, a) \o Laid(px, b)
  <1>1. ASSUME NEW q \in Seq(Resting)
        PROVE  /\ Laid(px, q) \in Seq(Maker) /\ Len(Laid(px, q)) = Len(q)
               /\ \A k \in 1 .. Len(q) :
                     Laid(px, q)[k] = [id |-> q[k].id, px |-> px, qty |-> q[k].qty]
    <2>1. Len(q) \in Nat /\ DOMAIN q = 1 .. Len(q) /\ \A k \in 1 .. Len(q) : q[k] \in Resting
      BY LenProperties, ElementOfSeq
    <2>2. \A k \in 1 .. Len(q) : [id |-> q[k].id, px |-> px, qty |-> q[k].qty] \in Maker
      BY <2>1 DEF Resting, Maker
    <2>3. PICK n \in Nat : n = Len(q)
      BY <2>1
    <2>4. Laid(px, q) \in [1 .. n -> Maker]
      BY <2>1, <2>2, <2>3 DEF Laid
    <2>5. Laid(px, q) \in Seq(Maker) /\ DOMAIN Laid(px, q) = 1 .. n
      BY <2>4, IsASeq
    <2>6. Len(Laid(px, q)) = n
      BY <2>5, LenProperties
    <2> QED  BY <2>1, <2>3, <2>5, <2>6 DEF Laid
  <1>2. Laid(px, <<>>) = <<>>
    BY DEF Laid
  <1>3. ASSUME NEW m \in Resting
        PROVE  Laid(px, <<m>>) = <<[id |-> m.id, px |-> px, qty |-> m.qty]>>
    <2>1. PICK q : q = <<m>>
      OBVIOUS
    <2>2. q \in Seq(Resting) /\ Len(q) = 1 /\ q[1] = m
      BY <2>1
    <2>3. PICK e : e = [id |-> m.id, px |-> px, qty |-> m.qty]
      OBVIOUS
    <2>4. Laid(px, q) \in Seq(Maker) /\ Len(Laid(px, q)) = 1 /\ Laid(px, q)[1] = e /\ e \in Maker
      <3>1. 1 \in 1 .. Len(q)
        BY <2>2
      <3> QED  BY <1>1, <2>2, <2>3, <3>1 DEF Resting, Maker
    <2>5. PICK r : r = <<e>>
      OBVIOUS
    <2>6. r \in Seq(Maker) /\ Len(r) = 1 /\ r[1] = e
      BY <2>4, <2>5
    <2>7. Laid(px, q) = r
      <3>1. \A k \in 1 .. Len(Laid(px, q)) : Laid(px, q)[k] = r[k]
        BY <2>4, <2>6
      <3> QED  BY <2>4, <2>6, <3>1, SeqEqual
    <2> QED  BY <2>1, <2>3, <2>5, <2>7
  <1>4. ASSUME NEW a \in Seq(Resting), NEW b \in Seq(Resting)
        PROVE  Laid(px, a \o b) = Laid(px, a) \o Laid(px, b)
    <2>1. /\ a \o b \in Seq(Resting) /\ Len(a \o b) = Len(a) + Len(b)
          /\ Len(a) \in Nat /\ Len(b) \in Nat
          /\ \A n \in 1 .. Len(a) + Len(b) :
                (a \o b)[n] = IF n <= Len(a) THEN a[n] ELSE b[n - Len(a)]
      BY ConcatProperties, LenProperties
    <2> DEFINE u == Laid(px, a)
               v == Laid(px, b)
               w == Laid(px, a \o b)
    <2>2. /\ u \in Seq(Maker) /\ Len(u) = Len(a) /\ v \in Seq(Maker) /\ Len(v) = Len(b)
          /\ w \in Seq(Maker) /\ Len(w) = Len(a) + Len(b)
      BY <1>1, <2>1
    <2>3. ASSUME NEW n \in 1 .. Len(a) + Len(b)
          PROVE  w[n] = IF n <= Len(a) THEN u[n] ELSE v[n - Len(a)]
      <3>1. w[n] = [id |-> (a \o b)[n].id, px |-> px, qty |-> (a \o b)[n].qty]
        BY <1>1, <2>1
      <3>2. CASE n <= Len(a)
        <4>1. n \in 1 .. Len(a)
          BY <2>1, <3>2
        <4> QED  BY <1>1, <2>1, <3>1, <3>2, <4>1
      <3>3. CASE ~(n <= Len(a))
        <4>1. n - Len(a) \in 1 .. Len(b)
          BY <2>1, <3>3
        <4> QED  BY <1>1, <2>1, <3>1, <3>3, <4>1
      <3> QED  BY <3>2, <3>3
    <2> HIDE DEF u, v, w
    <2>4. /\ u \o v \in Seq(Maker) /\ Len(u \o v) = Len(u) + Len(v)
          /\ \A n \in 1 .. Len(u) + Len(v) :
                (u \o v)[n] = IF n <= Len(u) THEN u[n] ELSE v[n - Len(u)]
      <3>1. u \in Seq(Maker) /\ v \in Seq(Maker)
        BY <2>2
      <3> QED  BY <3>1, ConcatProperties
    <2>5. w = u \o v
      <3>1. Len(w) = Len(u \o v)
        BY <2>2, <2>4
      <3>2. \A n \in 1 .. Len(w) : w[n] = (u \o v)[n]
        BY <2>2, <2>3, <2>4
      <3> QED  BY <2>2, <2>4, <3>1, <3>2, SeqEqual
    <2> QED  BY <2>5 DEF u, v, w
  <1> QED  BY <1>1, <1>2, <1>3, <1>4

LEMMA LayTypes == LayStep \in [Seq(Maker) \X Level -> Seq(Maker)] /\ <<>> \in Seq(Maker)
  <1>1. ASSUME NEW z \in Seq(Maker) \X Level
        PROVE  z[1] \o Laid(z[2].px, z[2].orders) \in Seq(Maker)
    <2>1. z[1] \in Seq(Maker) /\ z[2] \in Level
      OBVIOUS
    <2>2. z[2].px \in Nat \ {0} /\ z[2].orders \in Seq(Resting)
      BY <2>1 DEF Level, Resting
    <2>3. Laid(z[2].px, z[2].orders) \in Seq(Maker)
      BY <2>2, LaidParts
    <2> QED  BY <2>1, <2>3, ConcatProperties
  <1> QED  BY <1>1, EmptySeq DEF LayStep

\* Flat, the book of the model, is what the folds make of the levels.
LEMMA FlatIs == levels \in [Sides -> Seq(Level)] => Flat = [s \in Sides |-> Flatten(levels[s])]
  <1> SUFFICES ASSUME levels \in [Sides -> Seq(Level)], NEW s \in Sides
               PROVE  FlatSide(s) = Flatten(levels[s])
    BY DEF Flat
  <1> DEFINE q == levels[s]
             D == DOMAIN q
             R(g) == [p \in SUBSET D |->
                        IF p = {} THEN <<>>
                        ELSE g[p \ {Max(p)}] \o Laid(q[Max(p)].px, q[Max(p)].orders)]
             sum == CHOOSE g : g = R(g)
  <1>1. q \in Seq(Level) /\ D = 1 .. Len(q) /\ \A k \in D : q[k] \in Level
    BY LenProperties, ElementOfSeq
  <1>2. FlatSide(s) = sum[D]
    BY DEF FlatSide, FoldLeft, MapThenFoldSet, Laid
  <1> HIDE DEF q
  <1>0. PICK h : Gathered(Seq(Maker), LayStep, <<>>, q, h)
    <2>1. q \in Seq(Level)
      BY <1>1
    <2> QED  BY <2>1, LayTypes, GathersExist, Zenon
  <1>3. /\ h \in [SUBSET D -> Seq(Maker)]
        /\ Gathers(LayStep, <<>>, q, h) /\ h[D] = Run(LayStep, <<>>, q)
    BY <1>0 DEF Gathered
  <1>4. \A p \in SUBSET D : p # {} => Max(p) \in p
    <2>1. ASSUME NEW p \in SUBSET D, p # {}
          PROVE  Max(p) \in p
      <3>1. Len(q) \in Nat
        BY <1>1, LenProperties
      <3>2. p \in SUBSET (0 .. Len(q))
        BY <1>1, <3>1
      <3> QED  BY <2>1, <3>1, <3>2, GreatestElement
    <2> QED  BY <2>1
  <1>5. \A p \in SUBSET D :
           h[p] = IF p = {} THEN <<>>
                  ELSE h[p \ {Max(p)}] \o Laid(q[Max(p)].px, q[Max(p)].orders)
    <2>1. ASSUME NEW p \in SUBSET D, p # {}
          PROVE  h[p] = h[p \ {Max(p)}] \o Laid(q[Max(p)].px, q[Max(p)].orders)
      <3>1. PICK k : k = Max(p)
        OBVIOUS
      <3>2. k \in D /\ q[k] \in Level /\ p \ {k} \in SUBSET D
        BY <1>1, <1>4, <2>1, <3>1
      <3>3. h[p] = LayStep[h[p \ {k}], q[k]]
        BY <1>3, <2>1, <3>1 DEF Gathers
      <3>4. h[p \ {k}] \in Seq(Maker)
        BY <1>3, <3>2
      <3>5. LayStep[h[p \ {k}], q[k]] = h[p \ {k}] \o Laid(q[k].px, q[k].orders)
        BY <3>2, <3>4 DEF LayStep
      <3> QED  BY <3>1, <3>3, <3>5
    <2>2. h[{}] = <<>>
      <3>1. {} \in SUBSET D
        OBVIOUS
      <3> QED  BY <1>3, <3>1 DEF Gathers
    <2> QED  BY <2>1, <2>2
  <1>6. sum = R(sum)
    <2>1. h = R(h)
      <3>1. h = [p \in SUBSET D |-> h[p]]
        BY <1>3
      <3> QED  BY <1>5, <3>1, Zenon
    <2> HIDE DEF R
    <2> QED  BY <2>1
  <1> HIDE DEF sum
  <1>7. \A p \in SUBSET D :
           sum[p] = IF p = {} THEN <<>>
                    ELSE sum[p \ {Max(p)}] \o Laid(q[Max(p)].px, q[Max(p)].orders)
    BY <1>6
  <1> HIDE DEF R
  <1>8. sum[D] = h[D]
    <2>1. sum[{}] = h[{}]
      <3>1. {} \in SUBSET D
        OBVIOUS
      <3> QED  BY <1>5, <1>7, <3>1
    <2>2. \A p \in SUBSET D : p # {} /\ sum[p \ {Max(p)}] = h[p \ {Max(p)}] => sum[p] = h[p]
      BY <1>5, <1>7
    <2>3. q \in Seq(Level)
      BY <1>1
    <2> QED  BY <2>1, <2>2, <2>3, GathersAgree
  <1> QED  BY <1>2, <1>3, <1>8 DEF Flatten, q

LEMMA FlatParts ==
    /\ Flatten(<<>>) = <<>>
    /\ \A l \in Level : Flatten(<<l>>) = Laid(l.px, l.orders)
    /\ \A ls \in Seq(Level) : Flatten(ls) \in Seq(Maker)
    /\ \A a, b \in Seq(Level) : Flatten(a \o b) = Flatten(a) \o Flatten(b)
  <1>1. /\ Flatten(<<>>) = <<>>
        /\ \A l \in Level : Flatten(<<l>>) = LayStep[<<>>, l]
        /\ \A ls \in Seq(Level) : Flatten(ls) \in Seq(Maker)
        /\ \A a, b \in Seq(Level) : Flatten(a \o b) = Run(LayStep, Flatten(a), b)
    <2>1. Accumulates(Seq(Maker), Level, LayStep, <<>>)
      BY LayTypes, RunParts, Zenon
    <2> QED  BY <2>1 DEF Accumulates, Flatten
  <1>2. ASSUME NEW l \in Level
        PROVE  Flatten(<<l>>) = Laid(l.px, l.orders)
    <2>1. l.px \in Nat \ {0} /\ l.orders \in Seq(Resting)
      BY DEF Level, Resting
    <2>2. Laid(l.px, l.orders) \in Seq(Maker)
      BY <2>1, LaidParts
    <2>3. LayStep[<<>>, l] = <<>> \o Laid(l.px, l.orders)
      BY EmptySeq DEF LayStep
    <2> QED  BY <1>1, <2>2, <2>3, ConcatEmptySeq
  <1>4. \A u, v, w \in Seq(Maker) : (u \o v) \o w = u \o (v \o w)
    BY ConcatAssociative
  <1>3. ASSUME NEW p \in Seq(Maker), NEW b \in Seq(Level)
        PROVE  Run(LayStep, p, b) = p \o Flatten(b)
    <2>0. \E f : Stepped(Seq(Maker), LayStep, <<>>, b, f)
      BY LayTypes, StepsExist, Zenon
    <2>1. PICK f \in [0 .. Len(b) -> Seq(Maker)] : Steps(LayStep, <<>>, b, f)
      BY <2>0 DEF Stepped
    <2> DEFINE g == [n \in 0 .. Len(b) |-> p \o f[n]]
    <2>2. Flatten(b) = f[Len(b)]
      BY <2>1, RunIs DEF Flatten
    <2>3. Len(b) \in Nat /\ \A n \in 1 .. Len(b) : b[n] \in Level
      BY LenProperties, ElementOfSeq
    <2>4. g[0] = p
      <3>1. 0 \in 0 .. Len(b)
        BY <2>3
      <3>2. f[0] = <<>>
        BY <2>1, Zenon DEF Steps
      <3> QED  BY <3>1, <3>2, ConcatEmptySeq
    <2>5. ASSUME NEW n \in 1 .. Len(b)
          PROVE  g[n] = LayStep[g[n - 1], b[n]]
      <3>1. n \in 0 .. Len(b) /\ n - 1 \in 0 .. Len(b)
        BY <2>3
      <3>2. f[n - 1] \in Seq(Maker) /\ b[n] \in Level
        BY <2>1, <2>3, <3>1
      <3> DEFINE r == Laid(b[n].px, b[n].orders)
      <3>3. r \in Seq(Maker)
        <4>1. b[n].px \in Nat \ {0} /\ b[n].orders \in Seq(Resting)
          BY <3>2 DEF Level, Resting
        <4> QED  BY <4>1, LaidParts
      <3>4. f[n] = f[n - 1] \o r
        <4>1. f[n] = LayStep[f[n - 1], b[n]]
          BY <2>1 DEF Steps
        <4> QED  BY <3>2, <4>1 DEF LayStep
      <3>5. LayStep[g[n - 1], b[n]] = (p \o f[n - 1]) \o r
        <4>1. g[n - 1] = p \o f[n - 1]
          BY <3>1
        <4>2. p \o f[n - 1] \in Seq(Maker)
          BY <3>2, ConcatProperties
        <4> HIDE DEF g
        <4> QED  BY <3>2, <4>1, <4>2 DEF LayStep
      <3>6. (p \o f[n - 1]) \o r = p \o (f[n - 1] \o r)
        <4> HIDE DEF r
        <4> QED  BY <1>4, <3>2, <3>3
      <3> QED  BY <3>1, <3>4, <3>5, <3>6
    <2> HIDE DEF g
    <2>6. Steps(LayStep, p, b, g)
      BY <2>4, <2>5 DEF Steps
    <2>7. Run(LayStep, p, b) = g[Len(b)]
      BY <2>6, RunIs
    <2> QED  BY <2>2, <2>3, <2>7 DEF g
  <1> QED  BY <1>1, <1>2, <1>3

\* What lies in the flat book are orders of the levels.
LEMMA FlatElements ==
    ASSUME NEW ls \in Seq(Level)
    PROVE  \A n \in 1 .. Len(Flatten(ls)) :
              \E k \in 1 .. Len(ls) : \E j \in 1 .. Len(ls[k].orders) :
                 Flatten(ls)[n] = [id |-> ls[k].orders[j].id, px |-> ls[k].px,
                                   qty |-> ls[k].orders[j].qty]
  <1> DEFINE Of(e, k) == \E j \in 1 .. Len(ls[k].orders) :
                            e = [id |-> ls[k].orders[j].id, px |-> ls[k].px,
                                 qty |-> ls[k].orders[j].qty]
             Upto(n) == \A i \in 1 .. Len(Flatten(SubSeq(ls, 1, n))) :
                           \E k \in 1 .. Len(ls) : Of(Flatten(SubSeq(ls, 1, n))[i], k)
             B == {n \in 0 .. Len(ls) : ~Upto(n)}
  <1>1. Len(ls) \in Nat /\ \A k \in 1 .. Len(ls) : ls[k] \in Level
    BY LenProperties, ElementOfSeq
  <1>2. ASSUME B # {}
        PROVE  FALSE
    <2>1. PICK m \in Nat : m \in B /\ \A y \in B : m <= y
      <3> HIDE DEF Upto
      <3>1. B \in SUBSET Nat
        BY <1>1
      <3> HIDE DEF B
      <3> QED  BY <1>2, <3>1, LeastElement
    <2>2. m \in 0 .. Len(ls) /\ ~Upto(m)
      <3> HIDE DEF Upto
      <3> QED  BY <1>1, <2>1
    <2>3. Upto(0)
      <3>0. SubSeq(ls, 1, 0) = <<>>
        BY SubSeqEmpty
      <3>1. Flatten(SubSeq(ls, 1, 0)) = <<>>
        BY <3>0, FlatParts
      <3> QED  BY <3>1, EmptySeq
    <2>4. m \in 1 .. Len(ls) /\ m - 1 \in 0 .. Len(ls) /\ ~(m <= m - 1)
      <3> HIDE DEF Upto
      <3> QED  BY <1>1, <2>2, <2>3
    <2>5. Upto(m - 1)
      <3> HIDE DEF Upto
      <3> QED  BY <2>1, <2>4
    <2> DEFINE a == SubSeq(ls, 1, m - 1)
               l == ls[m]
               u == Flatten(a)
               v == Laid(l.px, l.orders)
    <2>6. a \in Seq(Level) /\ l \in Level /\ <<l>> \in Seq(Level)
      BY <1>1, <2>4, SubSeqProperties
    <2>7. SubSeq(ls, 1, m) = a \o <<l>>
      BY <1>1, <2>4, SubSeqRecursiveSecond
    <2>8. Flatten(SubSeq(ls, 1, m)) = u \o v
      BY <2>6, <2>7, FlatParts
    <2>9. /\ u \in Seq(Maker) /\ v \in Seq(Maker) /\ Len(v) = Len(l.orders)
          /\ \A j \in 1 .. Len(l.orders) :
                v[j] = [id |-> l.orders[j].id, px |-> l.px, qty |-> l.orders[j].qty]
      <3>1. l.px \in Nat \ {0} /\ l.orders \in Seq(Resting)
        BY <2>6 DEF Level, Resting
      <3> QED  BY <2>6, <3>1, FlatParts, LaidParts
    <2> HIDE DEF u, v
    <2>10. ASSUME NEW i \in 1 .. Len(u \o v)
           PROVE  \E k \in 1 .. Len(ls) : Of((u \o v)[i], k)
      <3>1. /\ Len(u) \in Nat /\ Len(v) \in Nat /\ Len(u \o v) = Len(u) + Len(v)
            /\ (u \o v)[i] = IF i <= Len(u) THEN u[i] ELSE v[i - Len(u)]
        <4>1. /\ Len(u) \in Nat /\ Len(v) \in Nat /\ Len(u \o v) = Len(u) + Len(v)
              /\ \A n \in 1 .. Len(u) + Len(v) :
                    (u \o v)[n] = IF n <= Len(u) THEN u[n] ELSE v[n - Len(u)]
          <5>1. u \in Seq(Maker) /\ v \in Seq(Maker)
            BY <2>9
          <5> QED  BY <5>1, LenProperties, ConcatProperties
        <4> QED  BY <4>1
      <3>2. CASE i <= Len(u)
        <4>1. i \in 1 .. Len(u) /\ (u \o v)[i] = u[i]
          BY <3>1, <3>2
        <4>2. \A n \in 1 .. Len(u) : \E k \in 1 .. Len(ls) : Of(u[n], k)
          BY <2>5 DEF u
        <4> HIDE DEF Of
        <4> QED  BY <4>1, <4>2
      <3>3. CASE ~(i <= Len(u))
        <4>1. i - Len(u) \in 1 .. Len(l.orders) /\ (u \o v)[i] = v[i - Len(u)]
          BY <2>9, <3>1, <3>3
        <4>2. Of(v[i - Len(u)], m)
          BY <2>9, <4>1
        <4> HIDE DEF Of
        <4> QED  BY <2>4, <4>1, <4>2
      <3> QED  BY <3>2, <3>3
    <2> HIDE DEF Of
    <2> QED  BY <2>2, <2>8, <2>10
  <1>3. Upto(Len(ls))
    <2>1. Len(ls) \in 0 .. Len(ls)
      BY <1>1
    <2> HIDE DEF Upto
    <2> QED  BY <1>2, <2>1
  <1>4. SubSeq(ls, 1, Len(ls)) = ls
    BY SubSeqFull
  <1>5. \A n \in 1 .. Len(Flatten(ls)) : \E k \in 1 .. Len(ls) : Of(Flatten(ls)[n], k)
    <2> HIDE DEF Of
    <2> QED  BY <1>3, <1>4
  <1> QED  BY <1>5

-----------------------------------------------------------------------------
(* The fills of the reference book.  R holds the makers the price reaches. *)

FillState == [rem : Nat, left : Seq(Maker)]

Portion(R, r, m) == IF m \in R THEN (IF r <= m.qty THEN r ELSE m.qty) ELSE 0

Taken(R, s, m) ==
    LET q == Portion(R, s.rem, m)
    IN  [rem  |-> s.rem - q,
         left |-> IF q = m.qty THEN s.left ELSE Append(s.left, [m EXCEPT !.qty = @ - q])]

TakeStep(R) == [z \in FillState \X Maker |-> Taken(R, z[1], z[2])]

FillRun(R, r, M) == Run(TakeStep(R), [rem |-> r, left |-> <<>>], M)

LEMMA TakeTypes ==
    ASSUME NEW R
    PROVE  /\ \A s \in FillState, m \in Maker :
                 Taken(R, s, m) \in FillState /\ TakeStep(R)[s, m] = Taken(R, s, m)
           /\ TakeStep(R) \in [FillState \X Maker -> FillState]
           /\ \A r \in Nat : [rem |-> r, left |-> <<>>] \in FillState
  <1>1. ASSUME NEW s \in FillState, NEW m \in Maker
        PROVE  Taken(R, s, m) \in FillState
    <2>1. s.rem \in Nat /\ s.left \in Seq(Maker) /\ m.qty \in Nat \ {0} /\ m.id \in Int
          /\ m.px \in Nat \ {0}
      BY DEF FillState, Maker
    <2>2. PICK q : q = Portion(R, s.rem, m)
      OBVIOUS
    <2>3. q \in Nat /\ q <= s.rem /\ q <= m.qty
      BY <2>1, <2>2 DEF Portion
    <2>4. s.rem - q \in Nat
      BY <2>1, <2>3
    <2>5. ASSUME q # m.qty
          PROVE  Append(s.left, [m EXCEPT !.qty = @ - q]) \in Seq(Maker)
      <3>1. m.qty - q \in Nat \ {0}
        BY <2>1, <2>3, <2>5
      <3>2. [m EXCEPT !.qty = @ - q] \in Maker
        BY <3>1 DEF Maker
      <3> QED  BY <2>1, <3>2, AppendProperties
    <2>6. Taken(R, s, m) = [rem |-> s.rem - q,
                            left |-> IF q = m.qty THEN s.left
                                     ELSE Append(s.left, [m EXCEPT !.qty = @ - q])]
      BY <2>2 DEF Taken
    <2>7. PICK l : l = IF q = m.qty THEN s.left
                       ELSE Append(s.left, [m EXCEPT !.qty = @ - q])
      OBVIOUS
    <2>8. l \in Seq(Maker)
      BY <2>1, <2>5, <2>7
    <2> QED  BY <2>4, <2>6, <2>7, <2>8 DEF FillState
  <1>2. \A s \in FillState, m \in Maker : TakeStep(R)[s, m] = Taken(R, s, m)
    BY DEF TakeStep
  <1>3. TakeStep(R) \in [FillState \X Maker -> FillState]
    <2>1. \A z \in FillState \X Maker : Taken(R, z[1], z[2]) \in FillState
      BY <1>1
    <2> QED  BY <2>1 DEF TakeStep
  <1>4. \A r \in Nat : [rem |-> r, left |-> <<>>] \in FillState
    BY EmptySeq DEF FillState
  <1> QED  BY <1>1, <1>2, <1>3, <1>4

\* The first maker is reached: it gives all it has, or all that is wanted, and
\* then nothing more is.
FillsFrom(R, r, m, t) ==
    /\ m.qty <= r => FillRun(R, r, <<m>> \o t) = FillRun(R, r - m.qty, t)
    /\ r < m.qty /\ [m EXCEPT !.qty = @ - r] \in R =>
         FillRun(R, r, <<m>> \o t) = FillRun(R, 0, <<[m EXCEPT !.qty = @ - r]>> \o t)

LEMMA FillTake ==
    ASSUME NEW R, NEW m \in Maker, m \in R, NEW t \in Seq(Maker), NEW r \in Nat
    PROVE  FillsFrom(R, r, m, t)
  <1> DEFINE start(k) == [rem |-> k, left |-> <<>>]
  <1>1. ASSUME NEW k \in Nat, NEW n \in Maker
        PROVE  FillRun(R, k, <<n>> \o t) = Run(TakeStep(R), Taken(R, start(k), n), t)
    <2>0. start(k) \in FillState /\ TakeStep(R) \in [FillState \X Maker -> FillState]
      BY TakeTypes
    <2> HIDE DEF start
    <2>1. Accumulates(FillState, Maker, TakeStep(R), start(k))
      BY <2>0, RunParts, Zenon
    <2>2. <<n>> \in Seq(Maker)
      OBVIOUS
    <2>3. Run(TakeStep(R), start(k), <<n>> \o t)
            = Run(TakeStep(R), Run(TakeStep(R), start(k), <<n>>), t)
      BY <2>1, <2>2 DEF Accumulates
    <2>4. Run(TakeStep(R), start(k), <<n>>) = TakeStep(R)[start(k), n]
      BY <2>1 DEF Accumulates
    <2>5. TakeStep(R)[start(k), n] = Taken(R, start(k), n)
      BY <2>0, TakeTypes
    <2> QED  BY <2>3, <2>4, <2>5 DEF FillRun, start
  <1>2. m.qty \in Nat \ {0}
    BY DEF Maker
  <1>3. ASSUME m.qty <= r
        PROVE  FillRun(R, r, <<m>> \o t) = FillRun(R, r - m.qty, t)
    <2>1. Portion(R, r, m) = m.qty
      BY <1>2, <1>3 DEF Portion
    <2>2. Taken(R, start(r), m) = start(r - m.qty)
      BY <2>1 DEF Taken
    <2> QED  BY <1>1, <2>2 DEF FillRun
  <1>4. ASSUME r < m.qty, [m EXCEPT !.qty = @ - r] \in R
        PROVE  FillRun(R, r, <<m>> \o t) = FillRun(R, 0, <<[m EXCEPT !.qty = @ - r]>> \o t)
    <2>1. PICK n : n = [m EXCEPT !.qty = @ - r]
      OBVIOUS
    <2>2. n \in Maker /\ n.qty = m.qty - r /\ n.qty \in Nat \ {0} /\ n \in R
      <3>1. m.qty - r \in Nat \ {0}
        BY <1>2, <1>4
      <3> QED  BY <1>4, <2>1, <3>1 DEF Maker
    <2>3. Taken(R, start(r), m) = [rem |-> 0, left |-> <<n>>]
      <3>1. Portion(R, r, m) = r /\ r # m.qty /\ r - r = 0
        BY <1>2, <1>4 DEF Portion
      <3>2. Append(<<>>, n) = <<n>>
        OBVIOUS
      <3> QED  BY <2>1, <3>1, <3>2 DEF Taken
    <2>4. Taken(R, start(0), n) = [rem |-> 0, left |-> <<n>>]
      <3>1. Portion(R, 0, n) = 0 /\ 0 # n.qty /\ 0 - 0 = 0
        BY <2>2 DEF Portion
      <3>2. [n EXCEPT !.qty = @ - 0] = n
        <4>1. n.qty - 0 = n.qty
          BY <2>2
        <4> QED  BY <2>2, <4>1 DEF Maker
      <3>3. Append(<<>>, n) = <<n>>
        OBVIOUS
      <3> QED  BY <3>1, <3>2, <3>3 DEF Taken
    <2> QED  BY <1>1, <2>1, <2>2, <2>3, <2>4
  <1> QED  BY <1>3, <1>4 DEF FillsFrom

\* Nothing is wanted, or no maker is reached: nothing happens.
LEMMA FillNothing ==
    ASSUME NEW R, NEW M \in Seq(Maker), NEW r \in Nat,
           r = 0 \/ \A n \in 1 .. Len(M) : M[n] \notin R
    PROVE  FillRun(R, r, M) = [rem |-> r, left |-> M]
  <1> DEFINE f == [n \in 0 .. Len(M) |-> [rem |-> r, left |-> SubSeq(M, 1, n)]]
  <1>1. Len(M) \in Nat /\ \A n \in 1 .. Len(M) : M[n] \in Maker
    BY LenProperties, ElementOfSeq
  <1>2. f[0] = [rem |-> r, left |-> <<>>]
    <2>1. SubSeq(M, 1, 0) = <<>>
      BY SubSeqEmpty
    <2>2. 0 \in 0 .. Len(M)
      BY <1>1
    <2> QED  BY <2>1, <2>2
  <1>3. ASSUME NEW n \in 1 .. Len(M)
        PROVE  f[n] = TakeStep(R)[f[n - 1], M[n]]
    <2>1. n \in 0 .. Len(M) /\ n - 1 \in 0 .. Len(M)
      BY <1>1
    <2>2. PICK a : a = SubSeq(M, 1, n - 1)
      OBVIOUS
    <2>3. PICK m : m = M[n]
      OBVIOUS
    <2>4. a \in Seq(Maker) /\ m \in Maker /\ m.qty \in Nat \ {0}
      BY <1>1, <2>2, <2>3, SubSeqProperties, SMTT(60) DEF Maker
    <2>5. SubSeq(M, 1, n) = Append(a, m)
      <3>1. SubSeq(M, 1, n) = a \o <<m>>
        BY <1>1, <2>2, <2>3, SubSeqRecursiveSecond
      <3> QED  BY <2>4, <3>1, AppendIsConcat
    <2>6. Portion(R, r, m) = 0 /\ 0 # m.qty /\ r - 0 = r
      BY <2>3, <2>4 DEF Portion
    <2>7. [m EXCEPT !.qty = @ - 0] = m
      <3>1. m.qty - 0 = m.qty
        BY <2>4
      <3> QED  BY <2>4, <3>1 DEF Maker
    <2>8. PICK s : s = [rem |-> r, left |-> a]
      OBVIOUS
    <2>9. Taken(R, s, m) = [rem |-> r, left |-> Append(a, m)]
      BY <2>6, <2>7, <2>8 DEF Taken
    <2>10. s \in FillState
      BY <2>4, <2>8 DEF FillState
    <2>11. TakeStep(R)[s, m] = Taken(R, s, m)
      BY <2>4, <2>10, TakeTypes
    <2>12. f[n - 1] = s /\ f[n] = [rem |-> r, left |-> Append(a, m)]
      BY <2>1, <2>2, <2>5, <2>8
    <2> HIDE DEF f
    <2> QED  BY <2>3, <2>9, <2>11, <2>12
  <1>4. f[Len(M)] = [rem |-> r, left |-> M]
    <2>1. Len(M) \in 0 .. Len(M) /\ SubSeq(M, 1, Len(M)) = M
      BY <1>1, SubSeqFull
    <2> QED  BY <2>1
  <1> HIDE DEF f
  <1>5. Steps(TakeStep(R), [rem |-> r, left |-> <<>>], M, f)
    BY <1>2, <1>3 DEF Steps
  <1>6. Run(TakeStep(R), [rem |-> r, left |-> <<>>], M) = f[Len(M)]
    BY <1>5, RunIs
  <1> QED  BY <1>4, <1>6 DEF FillRun

\* The reference book's loop over the makers is such a run.
LEMMA FillIs ==
    ASSUME NEW o, o.qty \in Nat, NEW M \in Seq(Maker)
    PROVE  Oracle!Fill(o, M) = FillRun({m \in Maker : Oracle!WithinLimit(o, m)}, o.qty, M)
  <1> DEFINE D == DOMAIN M
             Take(acc, m) ==
                LET q == IF Oracle!WithinLimit(o, m) THEN Min({acc.rem, m.qty}) ELSE 0
                IN  [rem  |-> acc.rem - q,
                     left |-> IF q = m.qty THEN acc.left
                              ELSE Append(acc.left, [m EXCEPT !.qty = @ - q])]
             base == [rem |-> o.qty, left |-> <<>>]
             R(g) == [p \in SUBSET D |->
                        IF p = {} THEN base ELSE Take(g[p \ {Max(p)}], M[Max(p)])]
             sum == CHOOSE g : g = R(g)
             X == {m \in Maker : Oracle!WithinLimit(o, m)}
  <1>1. Len(M) \in Nat /\ D = 1 .. Len(M) /\ \A k \in D : M[k] \in Maker
    BY LenProperties, ElementOfSeq
  <1>2. Oracle!Fill(o, M) = sum[D]
    BY DEF Oracle!Fill, Oracle!FoldLeft, Oracle!MapThenFoldSet, Oracle!Max, Oracle!Min, Max, Min
  <1>3. base \in FillState /\ TakeStep(X) \in [FillState \X Maker -> FillState]
    BY TakeTypes
  <1>4. ASSUME NEW s \in FillState, NEW m \in Maker
        PROVE  Take(s, m) = TakeStep(X)[s, m]
    <2>1. s.rem \in Nat /\ m.qty \in Nat
      BY DEF FillState, Maker
    <2>2. Min({s.rem, m.qty}) = IF s.rem <= m.qty THEN s.rem ELSE m.qty
      BY <2>1 DEF Min
    <2>3. m \in X <=> Oracle!WithinLimit(o, m)
      OBVIOUS
    <2>4. Taken(X, s, m) = Take(s, m)
      <3>1. PICK q : q = Portion(X, s.rem, m)
        OBVIOUS
      <3>2. q = IF Oracle!WithinLimit(o, m) THEN Min({s.rem, m.qty}) ELSE 0
        BY <2>2, <2>3, <3>1 DEF Portion
      <3>3. Taken(X, s, m) = [rem |-> s.rem - q,
                              left |-> IF q = m.qty THEN s.left
                                       ELSE Append(s.left, [m EXCEPT !.qty = @ - q])]
        BY <3>1 DEF Taken
      <3>4. Take(s, m) = [rem |-> s.rem - q,
                          left |-> IF q = m.qty THEN s.left
                                   ELSE Append(s.left, [m EXCEPT !.qty = @ - q])]
        BY <3>2
      <3> QED  BY <3>3, <3>4
    <2> QED  BY <2>4, TakeTypes
  <1> HIDE DEF base, X, Take
  <1>5. PICK h : Gathered(FillState, TakeStep(X), base, M, h)
    BY <1>3, GathersExist, Zenon
  <1>6. /\ h \in [SUBSET D -> FillState]
        /\ Gathers(TakeStep(X), base, M, h) /\ h[D] = Run(TakeStep(X), base, M)
    BY <1>5 DEF Gathered
  <1>7. \A p \in SUBSET D : p # {} => Max(p) \in p
    <2>1. ASSUME NEW p \in SUBSET D, p # {}
          PROVE  Max(p) \in p
      <3>1. p \in SUBSET (0 .. Len(M))
        BY <1>1
      <3> QED  BY <1>1, <2>1, <3>1, GreatestElement
    <2> QED  BY <2>1
  <1>8. \A p \in SUBSET D :
           h[p] = IF p = {} THEN base ELSE Take(h[p \ {Max(p)}], M[Max(p)])
    <2>1. ASSUME NEW p \in SUBSET D, p # {}
          PROVE  h[p] = Take(h[p \ {Max(p)}], M[Max(p)])
      <3>1. PICK k : k = Max(p)
        OBVIOUS
      <3>2. k \in D /\ M[k] \in Maker /\ p \ {k} \in SUBSET D
        BY <1>1, <1>7, <2>1, <3>1
      <3>3. h[p] = TakeStep(X)[h[p \ {k}], M[k]]
        BY <1>6, <2>1, <3>1 DEF Gathers
      <3>4. h[p \ {k}] \in FillState
        BY <1>6, <3>2
      <3> QED  BY <1>4, <3>1, <3>2, <3>3, <3>4
    <2>2. h[{}] = base
      <3>1. {} \in SUBSET D
        OBVIOUS
      <3> QED  BY <1>6, <3>1 DEF Gathers
    <2> QED  BY <2>1, <2>2
  <1>9. sum = R(sum)
    <2>1. h = R(h)
      <3>1. h = [p \in SUBSET D |-> h[p]]
        BY <1>6
      <3> QED  BY <1>8, <3>1, Zenon
    <2> HIDE DEF R
    <2> QED  BY <2>1
  <1> HIDE DEF sum
  <1>10. \A p \in SUBSET D :
            sum[p] = IF p = {} THEN base ELSE Take(sum[p \ {Max(p)}], M[Max(p)])
    BY <1>9
  <1> HIDE DEF R
  <1>11. sum[D] = h[D]
    <2>1. sum[{}] = h[{}]
      <3>1. {} \in SUBSET D
        OBVIOUS
      <3> QED  BY <1>8, <1>10, <3>1
    <2>2. \A p \in SUBSET D : p # {} /\ sum[p \ {Max(p)}] = h[p \ {Max(p)}] => sum[p] = h[p]
      BY <1>8, <1>10
    <2> QED  BY <2>1, <2>2, GathersAgree
  <1> QED  BY <1>2, <1>6, <1>11 DEF FillRun, X, base

-----------------------------------------------------------------------------
(* One order less or more in the flat book.                                *)

Flat1(m, px) == [id |-> m.id, px |-> px, qty |-> m.qty]

\* Concatenation is associative: what the proofs below need of it.
Cat(a, b) == a \o b

Regrouped(a, b, c, d, e) ==
    /\ Cat(Cat(a, Cat(Cat(b, c), d)), e) = Cat(Cat(Cat(a, b), c), Cat(d, e))
    /\ Cat(Cat(a, Cat(b, c)), d) = Cat(Cat(a, b), Cat(c, d))

LEMMA CatParts ==
    ASSUME NEW S
    PROVE  \A a, b \in Seq(S) :
              Cat(a, b) \in Seq(S) /\ \A c \in Seq(S) : Cat(Cat(a, b), c) = Cat(a, Cat(b, c))
  <1>1. \A a, b \in Seq(S) : Cat(a, b) \in Seq(S)
    BY ConcatProperties DEF Cat
  <1>2. ASSUME NEW a \in Seq(S), NEW b \in Seq(S), NEW c \in Seq(S)
        PROVE  (a \o b) \o c = a \o (b \o c)
    BY ConcatAssociative
  <1>3. \A a, b, c \in Seq(S) : Cat(Cat(a, b), c) = Cat(a, Cat(b, c))
    BY <1>2 DEF Cat
  <1> QED  BY <1>1, <1>3

LEMMA Regroup ==
    ASSUME NEW S, NEW a \in Seq(S), NEW b \in Seq(S), NEW c \in Seq(S),
           NEW d \in Seq(S), NEW e \in Seq(S)
    PROVE  Regrouped(a, b, c, d, e)
  <1>1. \A u, v \in Seq(S) :
           Cat(u, v) \in Seq(S) /\ \A w \in Seq(S) : Cat(Cat(u, v), w) = Cat(u, Cat(v, w))
    BY CatParts
  <1>2. Cat(Cat(a, Cat(Cat(b, c), d)), e) = Cat(Cat(Cat(a, b), c), Cat(d, e))
    BY <1>1
  <1>3. Cat(Cat(a, Cat(b, c)), d) = Cat(Cat(a, b), Cat(c, d))
    BY <1>1
  <1> QED  BY <1>2, <1>3 DEF Regrouped

\* The book around one order of one level.
FlatWith(a, b, px, u, v, m) ==
    LET x == Flatten(a) \o Laid(px, u)
        y == Laid(px, v) \o Flatten(b)
    IN  /\ x \in Seq(Maker) /\ y \in Seq(Maker) /\ Flat1(m, px) \in Maker
        /\ Flatten((a \o <<[px |-> px, orders |-> (u \o <<m>>) \o v]>>) \o b)
             = (x \o <<Flat1(m, px)>>) \o y
        /\ Flatten((a \o <<[px |-> px, orders |-> u \o v]>>) \o b) = x \o y

LEMMA FlatOrder ==
    ASSUME NEW a \in Seq(Level), NEW b \in Seq(Level), NEW px \in Nat \ {0},
           NEW u \in Seq(Resting), NEW v \in Seq(Resting), NEW m \in Resting
    PROVE  FlatWith(a, b, px, u, v, m)
  <1> DEFINE fa == Flatten(a)
             fb == Flatten(b)
             lu == Laid(px, u)
             lv == Laid(px, v)
             e == <<Flat1(m, px)>>
  <1>1. fa \in Seq(Maker) /\ fb \in Seq(Maker) /\ lu \in Seq(Maker) /\ lv \in Seq(Maker)
    BY FlatParts, LaidParts
  <1>2. Flat1(m, px) \in Maker /\ e \in Seq(Maker) /\ Laid(px, <<m>>) = e
    <2>1. Flat1(m, px) \in Maker
      BY DEF Flat1, Maker, Resting
    <2> QED  BY <2>1, LaidParts DEF Flat1
  <1>3. ASSUME NEW q \in Seq(Resting)
        PROVE  Flatten((a \o <<[px |-> px, orders |-> q]>>) \o b) = (fa \o Laid(px, q)) \o fb
    <2>1. PICK l : l = [px |-> px, orders |-> q]
      OBVIOUS
    <2>2. l \in Level /\ l.px = px /\ l.orders = q
      BY <2>1 DEF Level, Resting
    <2>3. <<l>> \in Seq(Level)
      BY <2>2
    <2>4. a \o <<l>> \in Seq(Level)
      BY <2>3, ConcatProperties
    <2>5. Flatten((a \o <<l>>) \o b) = Flatten(a \o <<l>>) \o fb
      BY <2>4, FlatParts
    <2>6. Flatten(a \o <<l>>) = fa \o Flatten(<<l>>)
      BY <2>3, FlatParts
    <2>7. Flatten(<<l>>) = Laid(px, q)
      BY <2>2, FlatParts
    <2> QED  BY <2>1, <2>5, <2>6, <2>7
  <1>4. Laid(px, (u \o <<m>>) \o v) = (lu \o e) \o lv /\ (u \o <<m>>) \o v \in Seq(Resting)
    <2>1. <<m>> \in Seq(Resting)
      OBVIOUS
    <2>2. u \o <<m>> \in Seq(Resting)
      BY <2>1, ConcatProperties
    <2>3. (u \o <<m>>) \o v \in Seq(Resting)
      BY <2>2, ConcatProperties
    <2>4. Laid(px, (u \o <<m>>) \o v) = Laid(px, u \o <<m>>) \o lv
      BY <2>2, LaidParts
    <2>5. Laid(px, u \o <<m>>) = lu \o Laid(px, <<m>>)
      BY <2>1, LaidParts
    <2> QED  BY <1>2, <2>3, <2>4, <2>5
  <1>5. Laid(px, u \o v) = lu \o lv /\ u \o v \in Seq(Resting)
    BY LaidParts, ConcatProperties
  <1> HIDE DEF fa, fb, lu, lv, e
  <1>6. /\ (fa \o ((lu \o e) \o lv)) \o fb = ((fa \o lu) \o e) \o (lv \o fb)
        /\ (fa \o (lu \o lv)) \o fb = (fa \o lu) \o (lv \o fb)
    <2>1. e \in Seq(Maker)
      BY <1>2
    <2>2. /\ (fa \o ((lu \o e) \o lv)) \o fb = ((fa \o lu) \o e) \o (lv \o fb)
      <3>1. Regrouped(fa, lu, e, lv, fb)
        BY <1>1, <2>1, Regroup
      <3> QED  BY <3>1 DEF Regrouped, Cat
    <2>3. (fa \o (lu \o lv)) \o fb = (fa \o lu) \o (lv \o fb)
      <3>1. Regrouped(fa, lu, lv, fb, fb)
        BY <1>1, Regroup
      <3> QED  BY <3>1 DEF Regrouped, Cat
    <2> QED  BY <2>2, <2>3
  <1>7. fa \o lu \in Seq(Maker) /\ lv \o fb \in Seq(Maker)
    BY <1>1, ConcatProperties
  <1>8. Flatten((a \o <<[px |-> px, orders |-> (u \o <<m>>) \o v]>>) \o b)
          = ((fa \o lu) \o e) \o (lv \o fb)
    BY <1>3, <1>4, <1>6
  <1>9. Flatten((a \o <<[px |-> px, orders |-> u \o v]>>) \o b) = (fa \o lu) \o (lv \o fb)
    BY <1>3, <1>5, <1>6
  <1> QED  BY <1>2, <1>7, <1>8, <1>9 DEF fa, fb, lu, lv, e, FlatWith

\* What lies before an order of the level i, level by level.
Starts(a, ls, i) == Len(a) = i - 1 /\ \A k \in 1 .. i - 1 : a[k] = ls[k]

FromBefore(e, ls, i) ==
    \E k \in 1 .. Len(ls) : \E j \in 1 .. Len(ls[k].orders) :
       k < i /\ e = Flat1(ls[k].orders[j], ls[k].px)

FromLevel(e, px, u) == \E j \in 1 .. Len(u) : e = Flat1(u[j], px)

LEMMA FlatBefore ==
    ASSUME NEW ls \in Seq(Level), NEW i \in 1 .. Len(ls) + 1,
           NEW a \in Seq(Level), Starts(a, ls, i),
           NEW px \in Nat \ {0}, NEW u \in Seq(Resting),
           NEW x, x = Flatten(a) \o Laid(px, u)
    PROVE  \A n \in 1 .. Len(x) : FromBefore(x[n], ls, i) \/ FromLevel(x[n], px, u)
  <1> SUFFICES ASSUME NEW n \in 1 .. Len(x)
               PROVE  FromBefore(x[n], ls, i) \/ FromLevel(x[n], px, u)
    OBVIOUS
  <1>1. Len(ls) \in Nat /\ i \in Nat \ {0}
    BY LevelParts
  <1> DEFINE p == Flatten(a)
             q == Laid(px, u)
  <1>2. /\ p \in Seq(Maker) /\ q \in Seq(Maker) /\ Len(q) = Len(u)
        /\ \A k \in 1 .. Len(u) : q[k] = Flat1(u[k], px)
    BY <1>1, FlatParts, LaidParts DEF Flat1
  <1>3. \A t \in 1 .. Len(p) :
           \E k \in 1 .. Len(a) : \E j \in 1 .. Len(a[k].orders) :
              p[t] = Flat1(a[k].orders[j], a[k].px)
    BY FlatElements DEF Flat1
  <1> HIDE DEF p, q
  <1>4. /\ Len(p) \in Nat /\ Len(q) \in Nat /\ Len(p \o q) = Len(p) + Len(q)
        /\ \A t \in 1 .. Len(p) + Len(q) :
              (p \o q)[t] = IF t <= Len(p) THEN p[t] ELSE q[t - Len(p)]
    <2>1. p \in Seq(Maker) /\ q \in Seq(Maker)
      BY <1>2
    <2> QED  BY <2>1, LenProperties, ConcatProperties
  <1>5. x = p \o q
    BY DEF p, q
  <1>6. n \in 1 .. Len(p) + Len(q)
    BY <1>4, <1>5
  <1>7. CASE n <= Len(p)
    <2>1. n \in 1 .. Len(p) /\ x[n] = p[n]
      BY <1>4, <1>5, <1>6, <1>7
    <2>2. PICK k \in 1 .. Len(a) : \E j \in 1 .. Len(a[k].orders) :
             p[n] = Flat1(a[k].orders[j], a[k].px)
      BY <1>3, <2>1
    <2>3. k \in 1 .. i - 1
      BY DEF Starts
    <2>4. k \in 1 .. Len(ls) /\ k < i /\ a[k] = ls[k]
      <3>1. k \in 1 .. Len(ls) /\ k < i
        BY <1>1, <2>3
      <3> QED  BY <2>3, <3>1 DEF Starts
    <2> QED  BY <2>1, <2>2, <2>4 DEF FromBefore
  <1>8. CASE ~(n <= Len(p))
    <2>1. n - Len(p) \in 1 .. Len(u) /\ x[n] = q[n - Len(p)]
      BY <1>2, <1>4, <1>5, <1>6, <1>8
    <2> QED  BY <1>2, <2>1 DEF FromLevel
  <1> QED  BY <1>7, <1>8

\* removeOrder takes one order out of the flat book: the first of its id, or
\* another one of that id is still there.
FlatLess(new, ls, i, j, x, e, y) ==
    /\ e.id = ls[i].orders[j].id
    /\ Flatten(ls) = (x \o <<e>>) \o y
    /\ Flatten(new) = x \o y
    /\ \A n \in 1 .. Len(x) : \E p \in Places(ls) : p # <<i, j>> /\ At(ls, p).id = x[n].id

LEMMA FlatWithout ==
    ASSUME NEW ls \in Seq(Level), NEW new, NEW i, NEW j, TakesOut(new, ls, i, j)
    PROVE  \E x, y \in Seq(Maker), e \in Maker : FlatLess(new, ls, i, j, x, e, y)
  <1>1. /\ i \in 1 .. Len(ls) /\ j \in 1 .. Len(ls[i].orders)
        /\ Len(ls) \in Nat /\ ls[i] \in Level
        /\ ls[i].px \in Nat \ {0} /\ ls[i].orders \in Seq(Resting)
        /\ Len(ls[i].orders) \in Nat
    BY LevelParts DEF TakesOut
  <1> DEFINE px == ls[i].px
             q == ls[i].orders
             m == q[j]
  <1>2. PICK a, b \in Seq(Level) : Encloses(Level, ls, i, a, b)
    BY <1>1, Around
  <1>3. PICK u, v \in Seq(Resting) : Encloses(Resting, q, j, u, v)
    BY <1>1, Around
  <1>4. /\ Len(a) = i - 1 /\ \A n \in 1 .. Len(a) : a[n] = ls[n]
        /\ ls = (a \o <<ls[i]>>) \o b
        /\ RemoveAt(ls, i) = a \o b
        /\ \A l \in Level : [ls EXCEPT ![i] = l] = (a \o <<l>>) \o b
    BY <1>2 DEF Encloses
  <1>5. /\ Len(u) = j - 1 /\ Len(v) = Len(q) - j /\ \A n \in 1 .. Len(u) : u[n] = q[n]
        /\ q = (u \o <<m>>) \o v
        /\ RemoveAt(q, j) = u \o v
    BY <1>3 DEF Encloses
  <1>6. m \in Resting /\ ls[i] = [px |-> px, orders |-> q]
    BY <1>1, ElementOfSeq DEF Level
  <1> DEFINE x == Flatten(a) \o Laid(px, u)
             y == Laid(px, v) \o Flatten(b)
             e == Flat1(m, px)
  <1>7. /\ x \in Seq(Maker) /\ y \in Seq(Maker) /\ e \in Maker
        /\ Flatten((a \o <<[px |-> px, orders |-> (u \o <<m>>) \o v]>>) \o b)
             = (x \o <<e>>) \o y
        /\ Flatten((a \o <<[px |-> px, orders |-> u \o v]>>) \o b) = x \o y
    <2>1. px \in Nat \ {0} /\ m \in Resting
      BY <1>1, <1>6
    <2> HIDE DEF px, m
    <2>2. FlatWith(a, b, px, u, v, m)
      BY <2>1, FlatOrder
    <2> QED  BY <2>2 DEF FlatWith
  <1>8. Flatten(ls) = (x \o <<e>>) \o y
    <2>1. ls = (a \o <<[px |-> px, orders |-> (u \o <<m>>) \o v]>>) \o b
      BY <1>4, <1>5, <1>6
    <2> HIDE DEF px, m, q, x, y, e
    <2> QED  BY <1>7, <2>1
  <1>9. Flatten(new) = x \o y
    <2>1. CASE Len(q) = 1
      <3>1. new = a \o b
        BY <1>4, <2>1 DEF TakesOut
      <3>2. Len(u) = 0 /\ Len(v) = 0
        BY <1>1, <1>5, <2>1
      <3>3. u = <<>> /\ v = <<>>
        BY <3>2, EmptySeq
      <3>4. Flatten(a) \in Seq(Maker) /\ Flatten(b) \in Seq(Maker) /\ Laid(px, <<>>) = <<>>
            /\ Flatten(a \o b) = Flatten(a) \o Flatten(b)
        BY <1>1, FlatParts, LaidParts
      <3>5. x = Flatten(a) /\ y = Flatten(b)
        BY <3>3, <3>4, ConcatEmptySeq
      <3> QED  BY <3>1, <3>4, <3>5
    <2>2. CASE Len(q) # 1
      <3>1. new = [ls EXCEPT ![i] = [ls[i] EXCEPT !.orders = RemoveAt(q, j)]]
        BY <2>2 DEF TakesOut
      <3>2. [ls[i] EXCEPT !.orders = RemoveAt(q, j)] = [px |-> px, orders |-> u \o v]
        <4>1. PICK w : w = u \o v
          OBVIOUS
        <4>2. RemoveAt(q, j) = w
          BY <1>5, <4>1
        <4>3. \A p, r : [[px |-> p, orders |-> r] EXCEPT !.orders = w]
                          = [px |-> p, orders |-> w]
          OBVIOUS
        <4>4. [ls[i] EXCEPT !.orders = w] = [px |-> px, orders |-> w]
          BY <1>6, <4>3, Zenon
        <4> QED  BY <4>1, <4>2, <4>4
      <3>3. [px |-> px, orders |-> u \o v] \in Level
        <4>1. u \o v \in Seq(Resting)
          BY ConcatProperties
        <4> QED  BY <1>1, <4>1 DEF Level, Resting
      <3>4. new = (a \o <<[px |-> px, orders |-> u \o v]>>) \o b
        BY <1>4, <3>1, <3>2, <3>3
      <3> HIDE DEF px, m, q, x, y, e
      <3> QED  BY <1>7, <3>4
    <2> QED  BY <2>1, <2>2
  <1>10. ASSUME NEW n \in 1 .. Len(x)
         PROVE  \E p \in Places(ls) : p # <<i, j>> /\ At(ls, p).id = x[n].id
    <2>1. FromBefore(x[n], ls, i) \/ FromLevel(x[n], px, u)
      <3>1. i \in 1 .. Len(ls) + 1 /\ px \in Nat \ {0} /\ Starts(a, ls, i)
        BY <1>1, <1>4 DEF Starts
      <3>2. x = Flatten(a) \o Laid(px, u)
        OBVIOUS
      <3> HIDE DEF x, px
      <3>3. \A t \in 1 .. Len(x) : FromBefore(x[t], ls, i) \/ FromLevel(x[t], px, u)
        BY <3>1, <3>2, FlatBefore
      <3> QED  BY <3>3
    <2> HIDE DEF x
    <2>2. CASE FromBefore(x[n], ls, i)
      <3>1. PICK k \in 1 .. Len(ls) : \E t \in 1 .. Len(ls[k].orders) :
                   k < i /\ x[n] = Flat1(ls[k].orders[t], ls[k].px)
        BY <2>2 DEF FromBefore
      <3>2. PICK t \in 1 .. Len(ls[k].orders) :
                   k < i /\ x[n] = Flat1(ls[k].orders[t], ls[k].px)
        BY <3>1
      <3>3. <<k, t>> \in Places(ls) /\ At(ls, <<k, t>>) = ls[k].orders[t]
        BY PlaceOf DEF At
      <3>4. k # i
        BY <1>1, <3>2
      <3> QED  BY <3>2, <3>3, <3>4 DEF Flat1
    <2>3. CASE FromLevel(x[n], px, u)
      <3>1. PICK t \in 1 .. Len(u) : x[n] = Flat1(u[t], px)
        BY <2>3 DEF FromLevel
      <3>2. t \in 1 .. Len(q) /\ t # j /\ u[t] = q[t]
        <4>1. t \in 1 .. j - 1 /\ u[t] = q[t]
          BY <1>5
        <4>2. PICK l \in Nat : l = Len(q) /\ j \in 1 .. l
          BY <1>1
        <4>3. t \in 1 .. l /\ t # j
          BY <4>1, <4>2, SMTT(60)
        <4> QED  BY <4>1, <4>2, <4>3
      <3>3. <<i, t>> \in Places(ls) /\ At(ls, <<i, t>>) = q[t]
        BY <1>1, <3>2, PlaceOf DEF At
      <3> QED  BY <3>1, <3>2, <3>3 DEF Flat1
    <2> QED  BY <2>1, <2>2, <2>3
  <1>11. e.id = ls[i].orders[j].id
    BY DEF Flat1
  <1> HIDE DEF x, y, e
  <1>12. FlatLess(new, ls, i, j, x, e, y)
    BY <1>8, <1>9, <1>10, <1>11 DEF FlatLess
  <1> QED  BY <1>7, <1>12

\* What lies from a level on, level by level.
Ends(b, ls, i) == Len(b) = Len(ls) - i + 1 /\ \A k \in 1 .. Len(ls) - i + 1 : b[k] = ls[i + k - 1]

FromAfter(e, ls, i) ==
    \E k \in 1 .. Len(ls) : \E j \in 1 .. Len(ls[k].orders) :
       i <= k /\ e = Flat1(ls[k].orders[j], ls[k].px)

LEMMA FlatAfter ==
    ASSUME NEW ls \in Seq(Level), NEW i \in 1 .. Len(ls) + 1,
           NEW b \in Seq(Level), Ends(b, ls, i)
    PROVE  \A n \in 1 .. Len(Flatten(b)) : FromAfter(Flatten(b)[n], ls, i)
  <1> SUFFICES ASSUME NEW n \in 1 .. Len(Flatten(b))
               PROVE  FromAfter(Flatten(b)[n], ls, i)
    OBVIOUS
  <1>1. Len(ls) \in Nat /\ i \in Nat \ {0} /\ i <= Len(ls) + 1
    BY LevelParts
  <1>2. PICK k \in 1 .. Len(b) : \E j \in 1 .. Len(b[k].orders) :
           Flatten(b)[n] = Flat1(b[k].orders[j], b[k].px)
    BY FlatElements DEF Flat1
  <1>3. k \in 1 .. Len(ls) - i + 1
    BY DEF Ends
  <1>4. PICK m : m = i + k - 1
    OBVIOUS
  <1>5. m \in 1 .. Len(ls) /\ i <= m
    BY <1>1, <1>3, <1>4
  <1>6. b[k] = ls[m]
    BY <1>3, <1>4 DEF Ends
  <1> QED  BY <1>2, <1>5, <1>6 DEF FromAfter

\* The new order e of price px lies between x and y: behind everything that
\* is at least as good, before everything that is worse.
Lies(side, px, x, y) ==
    /\ \A n \in 1 .. Len(x) : ~Oracle!Worse(side, x[n].px, px)
    /\ \A n \in 1 .. Len(y) : Oracle!Worse(side, y[n].px, px)

LEMMA InsertedFlat ==
    ASSUME levels \in [Sides -> Seq(Level)], NEW side \in Sides,
           NEW px \in Nat \ {0}, NEW ord \in Resting,
           Sorted(side, levels[side])
    PROVE  \E x, y \in Seq(Maker) :
              /\ Flatten(levels[side]) = x \o y
              /\ Flatten(Inserted(side, px, ord)) = (x \o <<Flat1(ord, px)>>) \o y
              /\ Flat1(ord, px) \in Maker
              /\ Lies(side, px, x, y)
  <1> DEFINE ls == levels[side]
             new == Inserted(side, px, ord)
             i == Search(ls, side, px)
  <1>1. /\ ls \in Seq(Level) /\ Len(ls) \in Nat /\ DOMAIN ls = 1 .. Len(ls)
        /\ \A k \in 1 .. Len(ls) :
              /\ ls[k] \in Level
              /\ ls[k].px \in Nat \ {0} /\ ls[k].orders \in Seq(Resting)
    BY LevelParts
  <1>2. /\ i \in 1 .. Len(ls) + 1
        /\ \A k \in 1 .. Len(ls) : k < i => Better(side, ls[k].px, px)
        /\ i <= Len(ls) => ~Better(side, ls[i].px, px)
    <2>1. ls \in Seq(Level) /\ px \in Nat
      BY <1>1
    <2> HIDE DEF ls
    <2> QED  BY <2>1, SearchParts
  <1>3. new = IF i <= Len(ls) /\ ls[i].px = px
              THEN [ls EXCEPT ![i].orders = Append(@, ord)]
              ELSE InsertAt(ls, i, [px |-> px, orders |-> <<ord>>])
    BY DEF Inserted
  <1>4. \A k, m \in 1 .. Len(ls) : k < m => Better(side, ls[k].px, ls[m].px)
    BY <1>1 DEF Sorted
  <1> HIDE DEF ls, i, new
  <1>5. i \in Nat \ {0} /\ i <= Len(ls) + 1
    BY <1>1, <1>2
  <1>6. Flat1(ord, px) \in Maker
    BY DEF Flat1, Maker, Resting
  <1>7. \A p \in Nat : (Better(side, p, px) => ~Oracle!Worse(side, p, px))
                       /\ (Better(side, px, p) => Oracle!Worse(side, p, px))
                       /\ ~Oracle!Worse(side, px, px)
    BY DEF Better, Oracle!Worse
  <1>8. ASSUME NEW a \in Seq(Level), Starts(a, ls, i), NEW u \in Seq(Resting),
               NEW x, x = Flatten(a) \o Laid(px, u)
        PROVE  \A n \in 1 .. Len(x) : ~Oracle!Worse(side, x[n].px, px)
    <2> SUFFICES ASSUME NEW n \in 1 .. Len(x)
                 PROVE  ~Oracle!Worse(side, x[n].px, px)
      OBVIOUS
    <2>1. FromBefore(x[n], ls, i) \/ FromLevel(x[n], px, u)
      <3>1. \A t \in 1 .. Len(x) : FromBefore(x[t], ls, i) \/ FromLevel(x[t], px, u)
        BY <1>1, <1>2, <1>8, FlatBefore
      <3> QED  BY <3>1
    <2>2. CASE FromBefore(x[n], ls, i)
      <3>1. PICK k \in 1 .. Len(ls) : k < i /\ x[n].px = ls[k].px
        BY <2>2 DEF FromBefore, Flat1
      <3>2. Better(side, x[n].px, px) /\ x[n].px \in Nat
        BY <1>1, <1>2, <3>1
      <3> QED  BY <1>7, <3>2
    <2>3. CASE FromLevel(x[n], px, u)
      <3>1. x[n].px = px
        BY <2>3 DEF FromLevel, Flat1
      <3> QED  BY <1>7, <3>1
    <2> QED  BY <2>1, <2>2, <2>3
  <1>9. CASE i <= Len(ls) /\ ls[i].px = px
    <2>1. i \in 1 .. Len(ls)
      BY <1>1, <1>5, <1>9
    <2> DEFINE q == ls[i].orders
    <2>2. ls[i] \in Level /\ q \in Seq(Resting) /\ ls[i] = [px |-> px, orders |-> q]
      <3>1. ls[i] \in Level /\ q \in Seq(Resting)
        BY <1>1, <2>1
      <3>2. ls[i] = [px |-> ls[i].px, orders |-> q]
        BY <3>1 DEF Level
      <3> QED  BY <1>9, <3>1, <3>2
    <2>3. PICK a, b \in Seq(Level) : Encloses(Level, ls, i, a, b)
      BY <1>1, <2>1, Around
    <2>4. /\ Len(a) = i - 1 /\ \A n \in 1 .. Len(a) : a[n] = ls[n]
          /\ Len(b) = Len(ls) - i /\ \A n \in 1 .. Len(b) : b[n] = ls[i + n]
          /\ ls = (a \o <<ls[i]>>) \o b
          /\ \A l \in Level : [ls EXCEPT ![i] = l] = (a \o <<l>>) \o b
      BY <2>3 DEF Encloses
    <2>5. <<>> \in Seq(Resting) /\ q \o <<>> = q /\ Append(q, ord) = (q \o <<ord>>) \o <<>>
          /\ Append(q, ord) \in Seq(Resting)
      <3>1. Append(q, ord) \in Seq(Resting) /\ Append(q, ord) = q \o <<ord>>
        BY <2>2, AppendProperties, AppendIsConcat
      <3> QED  BY <2>2, <3>1, EmptySeq, ConcatEmptySeq
    <2>6. new = (a \o <<[px |-> px, orders |-> (q \o <<ord>>) \o <<>>]>>) \o b
      <3>1. PICK w \in Seq(Resting) : w = Append(q, ord)
        BY <2>5
      <3>2. \A p, r : [[px |-> p, orders |-> r] EXCEPT !.orders = w] = [px |-> p, orders |-> w]
        OBVIOUS
      <3>3. [ls[i] EXCEPT !.orders = w] = [px |-> px, orders |-> w]
        BY <2>2, <3>2, Zenon
      <3>4. new = [ls EXCEPT ![i] = [ls[i] EXCEPT !.orders = w]]
        BY <1>3, <1>9, <3>1
      <3>5. [px |-> px, orders |-> w] \in Level
        BY DEF Level, Resting
      <3>6. new = (a \o <<[px |-> px, orders |-> w]>>) \o b
        BY <2>4, <3>3, <3>4, <3>5
      <3> QED  BY <2>5, <3>1, <3>6
    <2>7. ls = (a \o <<[px |-> px, orders |-> q \o <<>>]>>) \o b
      BY <2>2, <2>4, <2>5
    <2> DEFINE x == Flatten(a) \o Laid(px, q)
               y == Laid(px, <<>>) \o Flatten(b)
    <2> HIDE DEF q
    <2>8. FlatWith(a, b, px, q, <<>>, ord)
      BY <2>2, <2>5, FlatOrder
    <2>9. /\ x \in Seq(Maker) /\ y \in Seq(Maker)
          /\ Flatten(new) = (x \o <<Flat1(ord, px)>>) \o y
          /\ Flatten(ls) = x \o y
      BY <2>6, <2>7, <2>8 DEF FlatWith
    <2>10. y = Flatten(b)
      <3>1. Laid(px, <<>>) = <<>> /\ Flatten(b) \in Seq(Maker)
        BY LaidParts, FlatParts
      <3> QED  BY <3>1, ConcatEmptySeq
    <2>11. Starts(a, ls, i)
      BY <2>4 DEF Starts
    <2>12. \A n \in 1 .. Len(x) : ~Oracle!Worse(side, x[n].px, px)
      BY <1>8, <2>2, <2>11
    <2>13. \A n \in 1 .. Len(y) : Oracle!Worse(side, y[n].px, px)
      <3>1. i + 1 \in 1 .. Len(ls) + 1
        BY <1>1, <2>1
      <3>2. Ends(b, ls, i + 1)
        <4>1. Len(ls) - (i + 1) + 1 = Len(ls) - i
          BY <1>1, <2>1
        <4>2. \A n \in 1 .. Len(ls) - i : (i + 1) + n - 1 = i + n
          BY <1>1, <2>1
        <4> QED  BY <2>4, <4>1, <4>2 DEF Ends
      <3>3. \A n \in 1 .. Len(Flatten(b)) : FromAfter(Flatten(b)[n], ls, i + 1)
        BY <1>1, <3>1, <3>2, FlatAfter
      <3>4. ASSUME NEW n \in 1 .. Len(Flatten(b))
            PROVE  Oracle!Worse(side, Flatten(b)[n].px, px)
        <4>1. PICK k \in 1 .. Len(ls) : i + 1 <= k /\ Flatten(b)[n].px = ls[k].px
          <5>1. PICK e : e = Flatten(b)[n]
            OBVIOUS
          <5>2. PICK k \in 1 .. Len(ls) : \E j \in 1 .. Len(ls[k].orders) :
                  i + 1 <= k /\ e = Flat1(ls[k].orders[j], ls[k].px)
            BY <3>3, <5>1 DEF FromAfter
          <5>3. e.px = ls[k].px
            BY <5>2 DEF Flat1
          <5> QED  BY <5>1, <5>2, <5>3
        <4>2. i < k
          BY <1>5, <4>1
        <4>3. Better(side, px, ls[k].px)
          BY <1>4, <1>9, <2>1, <4>2
        <4>4. ls[k].px \in Nat
          BY <1>1
        <4> QED  BY <1>7, <4>1, <4>3, <4>4
      <3> QED  BY <2>10, <3>4
    <2> HIDE DEF x, y
    <2> QED  BY <1>6, <2>9, <2>12, <2>13 DEF Lies, ls, new
  <1>10. CASE ~(i <= Len(ls) /\ ls[i].px = px)
    <2> DEFINE lev == [px |-> px, orders |-> <<ord>>]
    <2>1. lev \in Level /\ new = InsertAt(ls, i, lev)
      BY <1>3, <1>10 DEF Level, Resting
    <2>2. PICK a, b \in Seq(Level) : Parts(Level, ls, i, a, b)
      BY <1>1, <1>2, Between
    <2>3. /\ Len(a) = i - 1 /\ \A n \in 1 .. Len(a) : a[n] = ls[n]
          /\ Len(b) = Len(ls) - i + 1 /\ \A n \in 1 .. Len(b) : b[n] = ls[i + n - 1]
          /\ ls = a \o b
          /\ \A l \in Level : InsertAt(ls, i, l) = (a \o <<l>>) \o b
      BY <2>2 DEF Parts
    <2>4. /\ <<>> \in Seq(Resting) /\ (<<>> \o <<ord>>) \o <<>> = <<ord>>
      <3>1. PICK q : q = <<ord>>
        OBVIOUS
      <3>2. q \in Seq(Resting)
        BY <3>1
      <3>3. <<>> \o q = q /\ q \o <<>> = q
        BY <3>2, ConcatEmptySeq
      <3> QED  BY <3>1, <3>3, EmptySeq
    <2>5. new = (a \o <<[px |-> px, orders |-> (<<>> \o <<ord>>) \o <<>>]>>) \o b
      BY <2>1, <2>3, <2>4
    <2> DEFINE x == Flatten(a) \o Laid(px, <<>>)
               y == Laid(px, <<>>) \o Flatten(b)
    <2>6. FlatWith(a, b, px, <<>>, <<>>, ord)
      BY <2>4, FlatOrder
    <2>7. /\ x \in Seq(Maker) /\ y \in Seq(Maker)
          /\ Flatten(new) = (x \o <<Flat1(ord, px)>>) \o y
      BY <2>5, <2>6 DEF FlatWith
    <2>8. x = Flatten(a) /\ y = Flatten(b)
      <3>1. Laid(px, <<>>) = <<>> /\ Flatten(a) \in Seq(Maker) /\ Flatten(b) \in Seq(Maker)
        BY LaidParts, FlatParts
      <3> QED  BY <3>1, ConcatEmptySeq
    <2>9. Flatten(ls) = x \o y
      BY <2>3, <2>8, FlatParts
    <2>10. Starts(a, ls, i) /\ Ends(b, ls, i)
      BY <2>3 DEF Starts, Ends
    <2>11. \A n \in 1 .. Len(x) : ~Oracle!Worse(side, x[n].px, px)
      BY <1>8, <2>4, <2>10
    <2>12. \A n \in 1 .. Len(y) : Oracle!Worse(side, y[n].px, px)
      <3>1. \A n \in 1 .. Len(Flatten(b)) : FromAfter(Flatten(b)[n], ls, i)
        BY <1>1, <1>2, <2>10, FlatAfter
      <3>2. ASSUME NEW n \in 1 .. Len(Flatten(b))
            PROVE  Oracle!Worse(side, Flatten(b)[n].px, px)
        <4>1. PICK k \in 1 .. Len(ls) : i <= k /\ Flatten(b)[n].px = ls[k].px
          <5>1. PICK e : e = Flatten(b)[n]
            OBVIOUS
          <5>2. PICK k \in 1 .. Len(ls) : \E j \in 1 .. Len(ls[k].orders) :
                  i <= k /\ e = Flat1(ls[k].orders[j], ls[k].px)
            BY <3>1, <5>1 DEF FromAfter
          <5>3. e.px = ls[k].px
            BY <5>2 DEF Flat1
          <5> QED  BY <5>1, <5>2, <5>3
        <4>2. i \in 1 .. Len(ls)
          BY <1>1, <1>5, <4>1
        <4>3. ls[i].px \in Nat /\ ls[k].px \in Nat
          BY <1>1, <4>2
        <4>4. Better(side, px, ls[i].px)
          <5>1. i <= Len(ls) /\ ls[i].px # px /\ ~Better(side, ls[i].px, px)
            BY <1>1, <1>2, <1>10, <4>2
          <5> QED  BY <4>3, <5>1 DEF Better
        <4>5. k = i \/ Better(side, ls[i].px, ls[k].px)
          <5>1. k = i \/ i < k
            BY <1>5, <4>1
          <5> QED  BY <1>4, <4>2, <5>1
        <4>6. Better(side, px, ls[k].px)
          BY <4>3, <4>4, <4>5, SMTT(60) DEF Better
        <4> QED  BY <1>7, <4>1, <4>3, <4>6
      <3> QED  BY <2>8, <3>2
    <2> HIDE DEF x, y
    <2> QED  BY <1>6, <2>7, <2>9, <2>11, <2>12 DEF Lies, ls, new
  <1> QED  BY <1>9, <1>10

-----------------------------------------------------------------------------
(* How the reference book inserts and removes.                             *)

LEMMA LeastIs ==
    ASSUME NEW S \in SUBSET Int, NEW m \in S, \A y \in S : m <= y
    PROVE  Min(S) = m /\ Oracle!Min(S) = m
  <1>1. \A x \in S : (\A y \in S : x <= y) => x = m
    OBVIOUS
  <1>2. \A x \in S : x = m \/ ~(\A y \in S : x <= y)
    BY <1>1
  <1> QED  BY <1>1 DEF Min, Oracle!Min

LEMMA JoinedAt ==
    ASSUME NEW x \in Seq(Maker), NEW y \in Seq(Maker)
    PROVE  /\ x \o y \in Seq(Maker) /\ Len(x) \in Nat /\ Len(y) \in Nat
           /\ Len(x \o y) = Len(x) + Len(y)
           /\ \A n \in 1 .. Len(x) : (x \o y)[n] = x[n]
           /\ \A n \in 1 .. Len(y) : (x \o y)[Len(x) + n] = y[n]
  <1>1. /\ x \o y \in Seq(Maker) /\ Len(x) \in Nat /\ Len(y) \in Nat
        /\ Len(x \o y) = Len(x) + Len(y)
        /\ \A n \in 1 .. Len(x) + Len(y) :
              (x \o y)[n] = IF n <= Len(x) THEN x[n] ELSE y[n - Len(x)]
    BY ConcatProperties, LenProperties
  <1>2. ASSUME NEW n \in 1 .. Len(x)
        PROVE  (x \o y)[n] = x[n]
    <2>1. n \in 1 .. Len(x) + Len(y) /\ n <= Len(x)
      BY <1>1
    <2> QED  BY <1>1, <2>1
  <1>3. ASSUME NEW n \in 1 .. Len(y)
        PROVE  (x \o y)[Len(x) + n] = y[n]
    <2>1. /\ Len(x) + n \in 1 .. Len(x) + Len(y) /\ ~(Len(x) + n <= Len(x))
          /\ (Len(x) + n) - Len(x) = n
      BY <1>1
    <2> QED  BY <1>1, <2>1
  <1> QED  BY <1>1, <1>2, <1>3

RestsBetween(side, x, e, y) == Oracle!Rested(side, x \o y, e) = (x \o <<e>>) \o y

LEMMA RestedIs ==
    ASSUME NEW side, NEW x \in Seq(Maker), NEW y \in Seq(Maker), NEW e \in Maker,
           Lies(side, e.px, x, y)
    PROVE  RestsBetween(side, x, e, y)
  <1> DEFINE q == x \o y
             B == {k \in 1 .. Len(q) + 1 :
                      k <= Len(q) => Oracle!Worse(side, q[k].px, e.px)}
  <1>1. /\ Len(x) \in Nat /\ Len(y) \in Nat /\ Len(q) = Len(x) + Len(y)
        /\ \A n \in 1 .. Len(x) : q[n] = x[n]
        /\ \A n \in 1 .. Len(y) : q[Len(x) + n] = y[n]
    BY JoinedAt
  <1> HIDE DEF q
  <1>2. Len(x) + 1 \in B
    <2>1. Len(x) + 1 \in 1 .. Len(q) + 1
      BY <1>1
    <2>2. ASSUME Len(x) + 1 <= Len(q)
          PROVE  Oracle!Worse(side, q[Len(x) + 1].px, e.px)
      <3>1. 1 \in 1 .. Len(y)
        BY <1>1, <2>2
      <3> QED  BY <1>1, <3>1 DEF Lies
    <2> QED  BY <2>1, <2>2
  <1>3. ASSUME NEW k \in B
        PROVE  Len(x) + 1 <= k
    <2>1. k \in 1 .. Len(q) + 1 /\ (k <= Len(q) => Oracle!Worse(side, q[k].px, e.px))
      OBVIOUS
    <2>2. CASE k <= Len(x)
      <3>1. k \in 1 .. Len(x) /\ k <= Len(q)
        BY <1>1, <2>1, <2>2
      <3> QED  BY <1>1, <2>1, <3>1 DEF Lies
    <2> QED  BY <1>1, <2>1, <2>2
  <1>4. B \in SUBSET Int
    BY <1>1
  <1>5. Oracle!Rested(side, q, e) = Oracle!InsertAt(q, Oracle!Min(B), e)
    BY DEF Oracle!Rested
  <1> HIDE DEF B
  <1>6. Oracle!Min(B) = Len(x) + 1
    BY <1>2, <1>3, <1>4, LeastIs
  <1>7. Oracle!InsertAt(q, Len(x) + 1, e) = InsertAt(q, Len(x) + 1, e)
    BY DEF Oracle!InsertAt, InsertAt
  <1>8. InsertAt(x \o y, Len(x) + 1, e) = (x \o <<e>>) \o y
    <2>1. Wedged(Maker, x, y, e)
      BY Wedge
    <2> QED  BY <2>1, Zenon DEF Wedged
  <1> QED  BY <1>5, <1>6, <1>7, <1>8 DEF q, RestsBetween

\* One side of Oracle!Without.
Dropped(M, i) == Oracle!RemoveFirstMatch(M, LAMBDA m : m.id = i)

LEMMA DroppedNone ==
    ASSUME NEW M, NEW i, \A n \in 1 .. Len(M) : M[n].id # i
    PROVE  Dropped(M, i) = M
  BY DEF Dropped, Oracle!RemoveFirstMatch

LEMMA DroppedIs ==
    ASSUME NEW x \in Seq(Maker), NEW y \in Seq(Maker), NEW e \in Maker,
           \A n \in 1 .. Len(x) : x[n].id # e.id
    PROVE  Dropped((x \o <<e>>) \o y, e.id) = x \o y
  <1> DEFINE M == (x \o <<e>>) \o y
             I == {n \in 1 .. Len(M) : M[n].id = e.id}
  <1>1. /\ RemoveAt(M, Len(x) + 1) = x \o y
        /\ M[Len(x) + 1] = e
        /\ Len(M) = Len(x) + 1 + Len(y)
        /\ \A n \in 1 .. Len(x) : M[n] = x[n]
    <2>1. Wedged(Maker, x, y, e)
      BY Wedge
    <2> QED  BY <2>1, Zenon DEF Wedged
  <1>2. Len(x) \in Nat /\ Len(y) \in Nat
    BY LenProperties
  <1>3. Dropped(M, e.id) = IF I # {} THEN Oracle!RemoveAt(M, Oracle!Min(I)) ELSE M
    BY DEF Dropped, Oracle!RemoveFirstMatch, Oracle!SelectInSeq
  <1> HIDE DEF M
  <1>4. Len(x) + 1 \in I
    BY <1>1, <1>2
  <1>5. ASSUME NEW n \in I
        PROVE  Len(x) + 1 <= n
    <2>1. n \in 1 .. Len(M) /\ M[n].id = e.id
      OBVIOUS
    <2>2. n \in Nat /\ 1 <= n
      BY <1>1, <1>2, <2>1
    <2>3. ~(n <= Len(x))
      BY <1>1, <1>2, <2>1, <2>2
    <2> QED  BY <1>2, <2>2, <2>3
  <1>6. I \in SUBSET Int
    BY <1>1, <1>2
  <1> HIDE DEF I
  <1>7. Oracle!Min(I) = Len(x) + 1
    BY <1>4, <1>5, <1>6, LeastIs
  <1>8. Oracle!RemoveAt(M, Len(x) + 1) = RemoveAt(M, Len(x) + 1)
    BY DEF Oracle!RemoveAt, RemoveAt
  <1> QED  BY <1>1, <1>3, <1>4, <1>7, <1>8 DEF M

LEMMA WithoutIs ==
    ASSUME NEW b, NEW i
    PROVE  Oracle!Without(b, i) = [s \in Sides |-> Dropped(b[s], i)]
  BY DEF Oracle!Without, Oracle!Sides, Sides, Dropped

-----------------------------------------------------------------------------
(* A match takes from the head of the flat book of the makers.             *)

LaidOut ==
    levels \in [Sides -> Seq(Level)] => Flat = [s \in Sides |-> Flatten(levels[s])]

LEMMA FlatNext == LaidOut'
  <1>1. LaidOut
    BY FlatIs DEF LaidOut
  <1> QED  BY <1>1, PTL

LEMMA FlatSides ==
    ASSUME levels \in [Sides -> Seq(Level)], levels' \in [Sides -> Seq(Level)]
    PROVE  /\ Flat = [s \in Sides |-> Flat[s]] /\ Flat' = [s \in Sides |-> Flat'[s]]
           /\ \A s \in Sides : /\ Flat[s] = Flatten(levels[s]) /\ Flat[s] \in Seq(Maker)
                               /\ Flat'[s] = Flatten(levels'[s]) /\ Flat'[s] \in Seq(Maker)
                               /\ levels'[s] = levels[s] => Flat'[s] = Flat[s]
           /\ levels' = levels => Flat' = Flat
  <1>1. /\ Flat = [s \in Sides |-> Flatten(levels[s])]
        /\ Flat' = [s \in Sides |-> Flatten(levels'[s])]
    <2>1. Flat = [s \in Sides |-> Flatten(levels[s])]
      BY FlatIs
    <2>2. Flat' = [s \in Sides |-> Flatten(levels'[s])]
      BY FlatNext DEF LaidOut
    <2> QED  BY <2>1, <2>2
  <1>2. \A s \in Sides : Flatten(levels[s]) \in Seq(Maker) /\ Flatten(levels'[s]) \in Seq(Maker)
    BY FlatParts
  <1> HIDE DEF Flat
  <1> QED  BY <1>1, <1>2

HeadOn(S, q) ==
    /\ Tail(q) \in Seq(S) /\ q[1] \in S /\ q = <<q[1]>> \o Tail(q)
    /\ \A e \in S : [q EXCEPT ![1] = e] = <<e>> \o Tail(q)

LEMMA HeadOf ==
    ASSUME NEW S, NEW q \in Seq(S), q # <<>>
    PROVE  HeadOn(S, q) /\ 1 \in 1 .. Len(q)
  <1>1. Len(q) \in Nat /\ 1 \in 1 .. Len(q) /\ q[1] \in S
    BY EmptySeq, LenProperties, ElementOfSeq
  <1>2. /\ Tail(q) \in Seq(S) /\ Len(Tail(q)) = Len(q) - 1
        /\ \A n \in 1 .. Len(q) - 1 : Tail(q)[n] = q[n + 1]
    BY <1>1, HeadTailProperties
  <1>3. PICK a, b \in Seq(S) : Encloses(S, q, 1, a, b)
    BY <1>1, Around
  <1>4. /\ Len(a) = 1 - 1 /\ Len(b) = Len(q) - 1
        /\ \A n \in 1 .. Len(b) : b[n] = q[1 + n]
        /\ q = (a \o <<q[1]>>) \o b
        /\ \A e \in S : [q EXCEPT ![1] = e] = (a \o <<e>>) \o b
    BY <1>3 DEF Encloses
  <1>5. a = <<>>
    BY <1>4, EmptySeq
  <1>6. b = Tail(q)
    <2>1. \A n \in 1 .. Len(q) - 1 : 1 + n = n + 1
      BY <1>1
    <2>2. \A n \in 1 .. Len(b) : b[n] = Tail(q)[n]
      BY <1>2, <1>4, <2>1
    <2> QED  BY <1>2, <1>4, <2>2, SeqEqual, ZenonT(60)
  <1>7. ASSUME NEW e \in S
        PROVE  a \o <<e>> = <<e>>
    <2>1. <<e>> \in Seq(S)
      OBVIOUS
    <2> QED  BY <1>5, <2>1, ConcatEmptySeq
  <1>8. q = <<q[1]>> \o Tail(q)
    <2>1. a \o <<q[1]>> = <<q[1]>>
      BY <1>1, <1>7
    <2> QED  BY <1>4, <1>6, <2>1
  <1>9. ASSUME NEW e \in S
        PROVE  [q EXCEPT ![1] = e] = <<e>> \o Tail(q)
    <2>1. a \o <<e>> = <<e>> /\ [q EXCEPT ![1] = e] = (a \o <<e>>) \o b
      BY <1>4, <1>7
    <2> QED  BY <1>6, <2>1
  <1> QED  BY <1>1, <1>2, <1>8, <1>9 DEF HeadOn

TopFlatAt(ls, y) ==
    LET px == ls[1].px
        q == ls[1].orders
    IN  /\ Flatten(ls) = <<Flat1(q[1], px)>> \o y
        /\ Flatten([ls EXCEPT ![1] = [ls[1] EXCEPT !.orders = Tail(q)]]) = y
        /\ \A n \in Resting :
              Flatten([ls EXCEPT ![1] = [ls[1] EXCEPT !.orders = [q EXCEPT ![1] = n]]])
                = <<Flat1(n, px)>> \o y

LEMMA TopFlat ==
    ASSUME NEW ls \in Seq(Level), ls # <<>>, ls[1].orders # <<>>
    PROVE  \E y \in Seq(Maker) : TopFlatAt(ls, y)
  <1> DEFINE px == ls[1].px
             q == ls[1].orders
             t == Tail(q)
             b == Tail(ls)
             y == Laid(px, t) \o Flatten(b)
  <1>1. HeadOn(Level, ls)
    BY HeadOf
  <1>2. ls[1] \in Level /\ b \in Seq(Level) /\ ls = <<ls[1]>> \o b
        /\ \A l \in Level : [ls EXCEPT ![1] = l] = <<l>> \o b
    BY <1>1 DEF HeadOn
  <1>3. px \in Nat \ {0} /\ q \in Seq(Resting) /\ ls[1] = [px |-> px, orders |-> q]
    BY <1>2 DEF Level, Resting
  <1>4. HeadOn(Resting, q)
    BY <1>3, HeadOf
  <1>5. q[1] \in Resting /\ t \in Seq(Resting) /\ q = <<q[1]>> \o t
        /\ \A m \in Resting : [q EXCEPT ![1] = m] = <<m>> \o t
    BY <1>4 DEF HeadOn
  <1>6. y \in Seq(Maker)
    <2>1. Laid(px, t) \in Seq(Maker) /\ Flatten(b) \in Seq(Maker)
      BY <1>2, <1>3, <1>5, FlatParts, LaidParts
    <2> QED  BY <2>1, ConcatProperties
  <1>7. ASSUME NEW r \in Seq(Resting)
        PROVE  /\ [ls[1] EXCEPT !.orders = r] = [px |-> px, orders |-> r]
               /\ [ls EXCEPT ![1] = [ls[1] EXCEPT !.orders = r]]
                    = <<[px |-> px, orders |-> r]>> \o b
    <2>1. \A p, s : [[px |-> p, orders |-> s] EXCEPT !.orders = r] = [px |-> p, orders |-> r]
      OBVIOUS
    <2>2. [ls[1] EXCEPT !.orders = r] = [px |-> px, orders |-> r]
      BY <1>3, <2>1, Zenon
    <2>3. [px |-> px, orders |-> r] \in Level
      BY <1>3 DEF Level, Resting
    <2> QED  BY <1>2, <2>2, <2>3
  <1>8. ASSUME NEW m \in Resting
        PROVE  /\ Flatten(<<[px |-> px, orders |-> <<m>> \o t]>> \o b) = <<Flat1(m, px)>> \o y
               /\ Flatten(<<[px |-> px, orders |-> t]>> \o b) = y
               /\ <<m>> \o t \in Seq(Resting)
    <2> HIDE DEF px, t, b
    <2>1. FlatWith(<<>>, b, px, <<>>, t, m)
      <3>1. <<>> \in Seq(Level) /\ <<>> \in Seq(Resting)
        BY EmptySeq
      <3> QED  BY <1>2, <1>3, <1>5, <3>1, FlatOrder
    <2> DEFINE x == Flatten(<<>>) \o Laid(px, <<>>)
    <2>2. x = <<>>
      <3>1. Flatten(<<>>) = <<>> /\ Laid(px, <<>>) = <<>>
        BY <1>3, FlatParts, LaidParts
      <3>2. <<>> \in Seq(Maker)
        BY EmptySeq
      <3>3. <<>> \o <<>> = <<>>
        BY <3>2, ConcatEmptySeq
      <3> QED  BY <3>1, <3>3
    <2>3. /\ Flat1(m, px) \in Maker
          /\ Flatten((<<>> \o <<[px |-> px, orders |-> (<<>> \o <<m>>) \o t]>>) \o b)
               = (x \o <<Flat1(m, px)>>) \o y
          /\ Flatten((<<>> \o <<[px |-> px, orders |-> <<>> \o t]>>) \o b) = x \o y
      BY <2>1 DEF FlatWith
    <2> HIDE DEF x, y
    <2>4. /\ <<>> \o <<m>> = <<m>> /\ <<>> \o t = t /\ <<m>> \o t \in Seq(Resting)
      <3>1. <<m>> \in Seq(Resting)
        OBVIOUS
      <3> QED  BY <1>5, <3>1, ConcatEmptySeq, ConcatProperties
    <2>5. ASSUME NEW r \in Seq(Resting)
          PROVE  <<>> \o <<[px |-> px, orders |-> r]>> = <<[px |-> px, orders |-> r]>>
      <3>1. PICK l \in Level : l = [px |-> px, orders |-> r]
        BY <1>3 DEF Level, Resting
      <3>2. <<l>> \in Seq(Level)
        OBVIOUS
      <3> QED  BY <3>1, <3>2, ConcatEmptySeq
    <2>6. <<>> \o <<Flat1(m, px)>> = <<Flat1(m, px)>> /\ <<>> \o y = y
      <3>1. <<Flat1(m, px)>> \in Seq(Maker)
        BY <2>3
      <3> QED  BY <1>6, <3>1, ConcatEmptySeq
    <2>7. Flatten(<<[px |-> px, orders |-> <<m>> \o t]>> \o b) = <<Flat1(m, px)>> \o y
      BY <2>2, <2>3, <2>4, <2>5, <2>6
    <2>8. Flatten(<<[px |-> px, orders |-> t]>> \o b) = y
      BY <1>5, <2>2, <2>3, <2>4, <2>5, <2>6
    <2> QED  BY <2>4, <2>7, <2>8
  <1> HIDE DEF y
  <1>9. Flatten(ls) = <<Flat1(q[1], px)>> \o y
    BY <1>2, <1>3, <1>5, <1>8
  <1>10. Flatten([ls EXCEPT ![1] = [ls[1] EXCEPT !.orders = t]]) = y
    BY <1>5, <1>7, <1>8
  <1>11. ASSUME NEW n \in Resting
         PROVE  Flatten([ls EXCEPT ![1] = [ls[1] EXCEPT !.orders = [q EXCEPT ![1] = n]]])
                  = <<Flat1(n, px)>> \o y
    <2>1. [q EXCEPT ![1] = n] = <<n>> \o t /\ <<n>> \o t \in Seq(Resting)
      BY <1>5, <1>8
    <2> QED  BY <1>7, <1>8, <2>1
  <1> QED  BY <1>6, <1>9, <1>10, <1>11 DEF TopFlatAt

-----------------------------------------------------------------------------
(* Orders and the limit or market orders they trade like.                  *)

TradesAs(u, o, k) ==
    /\ u.id = o.id /\ u.px = o.px /\ u.qty = k
    /\ u.side = (IF o.side \in Sides THEN o.side ELSE "sell")
    /\ u.type = (IF o.type = "market" \/ o.side \notin Sides THEN "market" ELSE "limit")
    /\ u = [o EXCEPT !.side = u.side, !.type = u.type, !.qty = k]

LEMMA TradesParts ==
    ASSUME NEW o \in Orders, NEW k
    PROVE  TradesAs(TradesLike(o, k), o, k)
  <1>1. o \in [client : Int, id : Int, side : STRING, type : STRING,
               px : Int, qty : Int, target : Int]
    BY OrdersAssumption
  <1>2. PICK s : s = IF o.side \in Sides THEN o.side ELSE "sell"
    OBVIOUS
  <1>3. PICK t : t = IF o.type = "market" \/ o.side \notin Sides THEN "market" ELSE "limit"
    OBVIOUS
  <1>4. TradesLike(o, k) = [o EXCEPT !.side = s, !.type = t, !.qty = k]
    BY <1>2, <1>3 DEF TradesLike
  <1> QED  BY <1>1, <1>2, <1>3, <1>4 DEF TradesAs

LEMMA TradesItself ==
    ASSUME NEW o \in Orders, o.side \in Sides, o.type \in {"limit", "market"}
    PROVE  TradesLike(o, o.qty) = o
  <1>1. o \in [client : Int, id : Int, side : STRING, type : STRING,
               px : Int, qty : Int, target : Int]
    BY OrdersAssumption
  <1>2. TradesLike(o, o.qty) = [o EXCEPT !.side = o.side, !.type = o.type, !.qty = o.qty]
    BY DEF TradesLike
  <1> QED  BY <1>1, <1>2

\* The makers an order reaches.
Within(o) == {m \in Maker : Reaches(o, m.px)}

LEMMA LikeReaches ==
    ASSUME NEW o \in Orders, NEW k, NEW m \in Maker
    PROVE  Oracle!WithinLimit(TradesLike(o, k), m) <=> Reaches(o, m.px)
  <1>1. PICK u : u = TradesLike(o, k)
    OBVIOUS
  <1>2. /\ u.px = o.px /\ u.side = (IF o.side \in Sides THEN o.side ELSE "sell")
        /\ u.type = (IF o.type = "market" \/ o.side \notin Sides THEN "market" ELSE "limit")
    <2>1. TradesAs(u, o, k)
      BY <1>1, TradesParts
    <2> QED  BY <2>1, Zenon DEF TradesAs
  <1>3. o.px \in Int /\ m.px \in Int
    BY OrdersAssumption DEF Maker
  <1> QED  BY <1>1, <1>2, <1>3 DEF Oracle!WithinLimit, Reaches, Sides

LEMMA LikeFill ==
    ASSUME NEW o \in Orders, NEW k \in Nat, NEW M \in Seq(Maker)
    PROVE  Oracle!Fill(TradesLike(o, k), M) = FillRun(Within(o), k, M)
  <1>1. PICK u : u = TradesLike(o, k)
    OBVIOUS
  <1>2. u.qty = k /\ u.qty \in Nat
    <2>1. TradesAs(u, o, k)
      BY <1>1, TradesParts
    <2> QED  BY <2>1, Zenon DEF TradesAs
  <1>3. {m \in Maker : Oracle!WithinLimit(u, m)} = Within(o)
    <2>1. \A m \in Maker : Oracle!WithinLimit(u, m) <=> Reaches(o, m.px)
      BY <1>1, LikeReaches
    <2> QED  BY <2>1 DEF Within
  <1>4. Oracle!Fill(u, M) = FillRun({m \in Maker : Oracle!WithinLimit(u, m)}, u.qty, M)
    BY <1>2, FillIs
  <1> QED  BY <1>1, <1>2, <1>3, <1>4

-----------------------------------------------------------------------------
(* MatchInv step by step.                                                  *)

\* What one maker gives to z less than the rest, and to the rest.
FillsLess(o, rem, z, m, y) ==
    /\ m.qty <= rem /\ z <= rem - m.qty =>
         FillRun(Within(o), rem - z, <<m>> \o y) = FillRun(Within(o), (rem - m.qty) - z, y)
    /\ rem < m.qty =>
         FillRun(Within(o), rem, <<m>> \o y)
           = FillRun(Within(o), 0, <<[m EXCEPT !.qty = @ - rem]>> \o y)

LEMMA FillOnward ==
    ASSUME NEW o \in Orders, NEW m \in Maker, Reaches(o, m.px), NEW y \in Seq(Maker),
           NEW rem \in Nat, NEW z \in Nat
    PROVE  FillsLess(o, rem, z, m, y)
  <1>1. m \in Within(o) /\ m.qty \in Nat
    BY DEF Within, Maker
  <1>2. ASSUME m.qty <= rem, z <= rem - m.qty
        PROVE  FillRun(Within(o), rem - z, <<m>> \o y)
                 = FillRun(Within(o), (rem - m.qty) - z, y)
    <2>1. PICK r \in Nat : r = rem - z
      BY <1>1, <1>2
    <2>2. m.qty <= r /\ r - m.qty = (rem - m.qty) - z
      BY <1>1, <1>2, <2>1
    <2>3. m.qty <= r => FillRun(Within(o), r, <<m>> \o y) = FillRun(Within(o), r - m.qty, y)
      <3>1. FillsFrom(Within(o), r, m, y)
        BY <1>1, FillTake
      <3> QED  BY <3>1 DEF FillsFrom
    <2> QED  BY <2>1, <2>2, <2>3
  <1>3. ASSUME rem < m.qty
        PROVE  FillRun(Within(o), rem, <<m>> \o y)
                 = FillRun(Within(o), 0, <<[m EXCEPT !.qty = @ - rem]>> \o y)
    <2>1. [m EXCEPT !.qty = @ - rem] \in Within(o)
      <3>1. m.qty - rem \in Nat \ {0}
        BY <1>1, <1>3
      <3> QED  BY <3>1 DEF Within, Maker
    <2>2. FillsFrom(Within(o), rem, m, y)
      BY <1>1, FillTake
    <2> QED  BY <1>3, <2>1, <2>2 DEF FillsFrom
  <1> QED  BY <1>2, <1>3 DEF FillsLess

LEMMA FillMakerMatches ==
    ASSUME EngineInv, MatchInv, FillMaker
    PROVE  MatchInv'
  <1> DEFINE ls == levels[Makers]
             m == ls[1].orders[1]
             q == Given(m)
  <1>0. PICK o, b : o = taker.order /\ b = taker.before
    OBVIOUS
  <1>1. /\ TakerInv /\ levels \in [Sides -> Seq(Level)] /\ Makers \in Sides
        /\ levels' \in [Sides -> Seq(Level)]
    <2>1. EngineInv'
      BY FillMakerKeeps
    <2> QED  BY <2>1 DEF EngineInv, BookInv, Makers, Opposite, Sides
  <1>2. /\ taker.busy /\ o.type # "postonly" /\ taker.rem > 0
        /\ ls # <<>> /\ ls[1].orders # <<>> /\ Reaches(o, ls[1].px)
        /\ taker' = [taker EXCEPT !.rem = @ - q] /\ seen' = seen
        /\ \/ /\ q = m.qty
              /\ levels' = [levels EXCEPT ![Makers][1].orders = Tail(@)]
           \/ /\ q # m.qty
              /\ levels' = [levels EXCEPT ![Makers][1].orders[1].qty = @ - q]
    BY <1>0 DEF FillMaker, Matchable, BestEmpty
  <1>3. /\ ls \in Seq(Level) /\ 1 \in 1 .. Len(ls) /\ ls[1] \in Level
        /\ ls[1].px \in Nat \ {0} /\ ls[1].orders \in Seq(Resting)
        /\ 1 \in 1 .. Len(ls[1].orders) /\ m \in Resting
        /\ DOMAIN ls = 1 .. Len(ls)
    <2>1. ls \in Seq(Level)
      BY <1>1
    <2>2. 1 \in 1 .. Len(ls) /\ DOMAIN ls = 1 .. Len(ls) /\ ls[1] \in Level
          /\ ls[1].px \in Nat \ {0} /\ ls[1].orders \in Seq(Resting)
      BY <1>2, <2>1, LevelParts, HeadOf
    <2>3. 1 \in 1 .. Len(ls[1].orders) /\ m \in Resting
      BY <1>2, <2>2, HeadOf, ElementOfSeq
    <2> QED  BY <2>1, <2>2, <2>3
  <1>4. /\ o \in Orders /\ o.qty \in Int /\ taker.rem \in Nat /\ taker.rem <= o.qty
        /\ m.qty \in Nat \ {0}
    <2>1. o \in Orders /\ taker.rem \in Int /\ taker.rem <= o.qty
      BY <1>0, <1>1, <1>2 DEF TakerInv
    <2>2. o.qty \in Int
      BY <2>1, OrdersAssumption
    <2>3. taker.rem > 0 /\ m.qty \in Nat \ {0}
      BY <1>2, <1>3 DEF Resting
    <2> QED  BY <2>1, <2>2, <2>3
  <1>5. q = IF m.qty <= taker.rem THEN m.qty ELSE taker.rem
    <2>1. {taker.rem, m.qty} \in SUBSET Nat /\ {taker.rem, m.qty} # {}
      BY <1>4
    <2>2. q \in {taker.rem, m.qty} /\ \A y \in {taker.rem, m.qty} : q <= y
      BY <2>1, LeastElement DEF Given
    <2> QED  BY <1>4, <2>2
  <1> HIDE DEF q
  <1>6. /\ taker'.busy /\ taker'.order = o /\ taker'.before = b
        /\ taker'.rem = taker.rem - q /\ Makers' = Makers
    <2>1. q \in Nat
      BY <1>4, <1>5
    <2>2. /\ taker'.busy /\ taker'.order = o /\ taker'.rem = taker.rem - q
          /\ Makers' = Makers
      BY <1>0, <1>1, <1>2, <2>1, TakerOnward
    <2>3. taker'.before = b
      BY <1>0, <1>2
    <2> QED  BY <2>2, <2>3
  <1>7. PICK y \in Seq(Maker) : TopFlatAt(ls, y)
    BY <1>2, <1>3, TopFlat
  <1> DEFINE e == Flat1(m, ls[1].px)
  <1>8. /\ Flat[Makers] = <<e>> \o y
        /\ Flat'[Makers] = IF m.qty <= taker.rem THEN y
                           ELSE <<[e EXCEPT !.qty = @ - taker.rem]>> \o y
        /\ Flat'[Opposite(Makers)] = Flat[Opposite(Makers)]
    <2>1. Flat[Makers] = Flatten(ls) /\ Flat'[Makers] = Flatten(levels'[Makers])
      BY <1>1, FlatSides
    <2>2. Flat[Makers] = <<e>> \o y
      BY <1>7, <2>1 DEF TopFlatAt
    <2>3. ASSUME m.qty <= taker.rem
          PROVE  Flat'[Makers] = y
      <3>1. q = m.qty
        BY <1>5, <2>3
      <3>2. levels'[Makers] = [ls EXCEPT ![1] = [ls[1] EXCEPT !.orders = Tail(ls[1].orders)]]
        BY <1>1, <1>2, <1>3, <3>1
      <3> HIDE DEF ls
      <3>3. Flat'[Makers] = y
        BY <1>7, <2>1, <3>2 DEF TopFlatAt
      <3> QED  BY <3>3
    <2>4. ASSUME ~(m.qty <= taker.rem)
          PROVE  Flat'[Makers] = <<[e EXCEPT !.qty = @ - taker.rem]>> \o y
      <3>1. q = taker.rem /\ q # m.qty
        BY <1>4, <1>5, <2>4
      <3> DEFINE n == [m EXCEPT !.qty = @ - taker.rem]
      <3>2. levels'[Makers] = [ls EXCEPT ![1] =
                                 [ls[1] EXCEPT !.orders = [ls[1].orders EXCEPT ![1] = n]]]
        BY <1>1, <1>2, <1>3, <3>1
      <3>3. n \in Resting
        <4>1. m.qty - taker.rem \in Nat \ {0}
          BY <1>4, <2>4
        <4> QED  BY <1>3, <4>1 DEF Resting
      <3>4. Flat1(n, ls[1].px) = [e EXCEPT !.qty = @ - taker.rem]
        BY <1>3, SMTT(60) DEF Flat1, Resting
      <3> HIDE DEF n, ls
      <3>5. Flat'[Makers] = <<Flat1(n, ls[1].px)>> \o y
        BY <1>7, <2>1, <3>2, <3>3 DEF TopFlatAt
      <3> QED  BY <3>4, <3>5
    <2>5. Flat'[Opposite(Makers)] = Flat[Opposite(Makers)]
      <3>1. Opposite(Makers) \in Sides /\ Opposite(Makers) # Makers
        BY DEF Makers, Opposite, Sides
      <3>2. levels'[Opposite(Makers)] = levels[Opposite(Makers)]
        BY <1>1, <1>2, <3>1
      <3> QED  BY <1>1, <3>1, <3>2, FlatSides
    <2> QED  BY <2>2, <2>3, <2>4, <2>5
  <1>9. e \in Maker /\ e.qty = m.qty /\ Reaches(o, e.px)
    BY <1>2, <1>3 DEF Flat1, Maker, Resting
  <1>10. Flat[Makers] \in Seq(Maker) /\ Flat'[Makers] \in Seq(Maker)
    BY <1>1, FlatSides
  <1> HIDE DEF e, m, ls
  <1>11. /\ o.type # "cancel"
         /\ ~Exempt(o) => /\ o.side \in Sides /\ o.qty > 0
                          /\ o.type # "market" => o.px > 0
                          /\ o.id # 0 => <<o.client, o.id>> \notin b.seen
         /\ seen = IF Exempt(o) \/ o.id = 0 THEN b.seen
                   ELSE b.seen \cup {<<o.client, o.id>>}
         /\ b.book = [s \in Sides |-> b.book[s]]
         /\ b.book[Opposite(Makers)] = Flat[Opposite(Makers)]
         /\ \A z \in 0 .. taker.rem :
              Oracle!Fill(TradesLike(o, o.qty - z), b.book[Makers])
                = Oracle!Fill(TradesLike(o, taker.rem - z), Flat[Makers])
    BY <1>0, <1>2, Zenon DEF MatchInv
  <1>12. taker'.rem \in Nat /\ taker'.rem < o.qty
    BY <1>2, <1>4, <1>5, <1>6
  <1>13. ASSUME NEW z \in 0 .. taker'.rem
         PROVE  Oracle!Fill(TradesLike(o, o.qty - z), b.book[Makers])
                  = Oracle!Fill(TradesLike(o, taker'.rem - z), Flat'[Makers])
    <2>1. z \in Nat /\ z \in 0 .. taker.rem /\ taker.rem - z \in Nat /\ taker'.rem - z \in Nat
      BY <1>4, <1>5, <1>6, <1>12
    <2>2. Oracle!Fill(TradesLike(o, o.qty - z), b.book[Makers])
            = FillRun(Within(o), taker.rem - z, <<e>> \o y)
      <3>1. Oracle!Fill(TradesLike(o, taker.rem - z), Flat[Makers])
              = FillRun(Within(o), taker.rem - z, Flat[Makers])
        BY <1>4, <1>10, <2>1, LikeFill
      <3> QED  BY <1>8, <1>11, <2>1, <3>1
    <2>3. Oracle!Fill(TradesLike(o, taker'.rem - z), Flat'[Makers])
            = FillRun(Within(o), taker'.rem - z, Flat'[Makers])
      BY <1>4, <1>10, <2>1, LikeFill
    <2>4. CASE m.qty <= taker.rem
      <3>1. taker'.rem = taker.rem - e.qty /\ e.qty <= taker.rem /\ z <= taker.rem - e.qty
        BY <1>4, <1>5, <1>6, <1>9, <2>1, <2>4
      <3>2. FillRun(Within(o), taker.rem - z, <<e>> \o y)
              = FillRun(Within(o), (taker.rem - e.qty) - z, y)
        <4>1. FillsLess(o, taker.rem, z, e, y)
          BY <1>4, <1>9, <2>1, FillOnward
        <4> QED  BY <3>1, <4>1 DEF FillsLess
      <3> QED  BY <1>8, <2>2, <2>3, <2>4, <3>1, <3>2
    <2>5. CASE ~(m.qty <= taker.rem)
      <3>1. taker'.rem = 0 /\ z = 0 /\ taker.rem < e.qty
            /\ taker.rem - z = taker.rem /\ taker'.rem - z = 0
        <4>1. taker'.rem = taker.rem - taker.rem
          BY <1>5, <1>6, <2>5
        <4>2. taker'.rem = 0
          BY <1>4, <4>1
        <4>3. z = 0
          BY <4>2
        <4> QED  BY <1>4, <1>9, <2>5, <4>2, <4>3
      <3>2. FillRun(Within(o), taker.rem, <<e>> \o y)
              = FillRun(Within(o), 0, <<[e EXCEPT !.qty = @ - taker.rem]>> \o y)
        <4>1. FillsLess(o, taker.rem, z, e, y)
          BY <1>4, <1>9, <2>1, FillOnward
        <4> QED  BY <3>1, <4>1 DEF FillsLess
      <3> QED  BY <1>8, <2>2, <2>3, <2>5, <3>1, <3>2
    <2> QED  BY <2>4, <2>5
  <1>14. /\ ~(o.qty < 0 \/ o.type = "postonly") /\ taker'.rem # o.qty /\ taker'.rem >= 0
    BY <1>2, <1>4, <1>12
  <1>15. /\ b.book[Opposite(Makers')] = Flat'[Opposite(Makers')]
         /\ seen' = IF Exempt(o) \/ o.id = 0 THEN b.seen
                    ELSE b.seen \cup {<<o.client, o.id>>}
    BY <1>2, <1>6, <1>8, <1>11
  <1> QED  BY <1>6, <1>11, <1>13, <1>14, <1>15, Zenon DEF MatchInv

LEMMA DropLevelFlat ==
    ASSUME EngineInv, DropLevel
    PROVE  Flat' = Flat
  <1> DEFINE ls == levels[Makers]
  <1>1. /\ levels \in [Sides -> Seq(Level)] /\ Makers \in Sides
        /\ levels' \in [Sides -> Seq(Level)]
    <2>1. EngineInv'
      BY DropLevelKeeps
    <2> QED  BY <2>1 DEF EngineInv, BookInv, Makers, Opposite, Sides
  <1>2. /\ ls # <<>> /\ ls[1].orders = <<>>
        /\ levels' = [levels EXCEPT ![Makers] = Tail(ls)]
    BY DEF DropLevel, BestEmpty
  <1>3. HeadOn(Level, ls)
    BY <1>1, <1>2, HeadOf
  <1>4. ls[1] \in Level /\ Tail(ls) \in Seq(Level) /\ ls = <<ls[1]>> \o Tail(ls)
    BY <1>3 DEF HeadOn
  <1>5. Flatten(ls) = Flatten(Tail(ls))
    <2>1. PICK l, t : l = ls[1] /\ t = Tail(ls)
      OBVIOUS
    <2>2. l \in Level /\ t \in Seq(Level) /\ ls = <<l>> \o t /\ l.orders = <<>>
      BY <1>2, <1>4, <2>1
    <2>3. <<l>> \in Seq(Level) /\ l.px \in Nat \ {0}
      BY <2>2 DEF Level
    <2>4. Flatten(<<l>> \o t) = Flatten(<<l>>) \o Flatten(t)
      BY <2>2, <2>3, FlatParts
    <2>5. Flatten(<<l>>) = <<>>
      <3>1. Flatten(<<l>>) = Laid(l.px, <<>>)
        BY <2>2, FlatParts
      <3> QED  BY <2>3, <3>1, LaidParts
    <2>6. <<>> \o Flatten(t) = Flatten(t)
      <3>1. Flatten(t) \in Seq(Maker)
        BY <2>2, FlatParts
      <3> QED  BY <3>1, ConcatEmptySeq
    <2> QED  BY <2>1, <2>2, <2>4, <2>5, <2>6
  <1>6. \A s \in Sides : Flatten(levels'[s]) = Flatten(levels[s])
    BY <1>1, <1>2, <1>5
  <1>7. /\ Flat = [s \in Sides |-> Flat[s]] /\ Flat' = [s \in Sides |-> Flat'[s]]
        /\ \A s \in Sides : Flat[s] = Flatten(levels[s]) /\ Flat'[s] = Flatten(levels'[s])
    BY <1>1, FlatSides
  <1> QED  BY <1>6, <1>7, Zenon

LEMMA StartMatches ==
    ASSUME EngineInv, NEW o \in Orders, Start(o)
    PROVE  MatchInv' /\ Flat' = Flat
  <1>1. /\ ~taker.busy /\ Sound(o)
        /\ seen' = Recorded(o) /\ levels' = levels
        /\ taker' = [busy |-> TRUE, order |-> o, rem |-> o.qty,
                     before |-> [book |-> Flat, seen |-> seen]]
    BY DEF Start, Takes
  <1>2. levels \in [Sides -> Seq(Level)] /\ levels' \in [Sides -> Seq(Level)]
    BY <1>1 DEF EngineInv, BookInv
  <1>3. Flat' = Flat /\ Flat = [s \in Sides |-> Flat[s]]
    BY <1>1, <1>2, FlatSides
  <1>4. PICK f, b : f = Flat /\ b = [book |-> f, seen |-> seen]
    OBVIOUS
  <1>5. b.book = f /\ b.seen = seen
    BY <1>4
  <1>6. /\ taker'.busy /\ taker'.order = o /\ taker'.rem = o.qty /\ taker'.before = b
    BY <1>1, <1>4
  <1>7. o.qty \in Int /\ o.px \in Int
    BY OrdersAssumption
  <1>8. /\ o.type # "cancel"
        /\ ~Exempt(o) => /\ o.side \in Sides /\ o.qty > 0
                         /\ o.type # "market" => o.px > 0
                         /\ o.id # 0 => <<o.client, o.id>> \notin b.seen
        /\ seen' = IF Exempt(o) \/ o.id = 0 THEN b.seen
                   ELSE b.seen \cup {<<o.client, o.id>>}
    BY <1>1, <1>5, <1>7 DEF Sound, Malformed, Duplicate, Recorded
  <1>9. o.qty >= 0 => taker'.rem >= 0
    BY <1>6
  <1> QED  BY <1>3, <1>4, <1>5, <1>6, <1>8, <1>9, Zenon DEF MatchInv

LEMMA MatchInvHolds == Spec => []MatchInv
  <1>1. Init => MatchInv
    BY DEF Init, Idle, MatchInv
  <1>2. EngineInv /\ MatchInv /\ [Next]_vars => MatchInv'
    <2> SUFFICES ASSUME EngineInv, MatchInv, [Next]_vars
                 PROVE  MatchInv'
      OBVIOUS
    <2>1. ASSUME levels \in [Sides -> Seq(Level)], UNCHANGED <<seen, taker>>, Flat' = Flat
          PROVE  MatchInv'
      <3>1. Makers' = Makers
        BY <2>1 DEF Makers
      <3> QED  BY <2>1, <3>1, Zenon DEF MatchInv
    <2>2. ASSUME NEW o \in Orders, Receive(o), ~Start(o)
          PROVE  MatchInv'
      <3>1. ~taker'.busy
        BY <2>2 DEF Receive, Reject, CancelMiss, CancelHit, Turned, Takes
      <3> QED  BY <3>1 DEF MatchInv
    <2>3. CASE DropLevel
      <3>1. UNCHANGED <<seen, taker>> /\ levels \in [Sides -> Seq(Level)]
        BY <2>3 DEF DropLevel, EngineInv, BookInv
      <3> QED  BY <2>1, <2>3, <3>1, DropLevelFlat
    <2>4. CASE Finish
      <3>1. ~taker'.busy
        BY <2>4 DEF Finish, Idle
      <3> QED  BY <3>1 DEF MatchInv
    <2>5. CASE UNCHANGED vars
      <3>1. levels' = levels /\ UNCHANGED <<seen, taker>>
        BY <2>5 DEF vars
      <3>2. levels \in [Sides -> Seq(Level)] /\ levels' \in [Sides -> Seq(Level)]
        BY <3>1 DEF EngineInv, BookInv
      <3>3. Flat' = Flat
        BY <3>1, <3>2, FlatSides
      <3> QED  BY <2>1, <3>1, <3>2, <3>3
    <2> QED  BY <2>2, <2>3, <2>4, <2>5, FillMakerMatches, StartMatches DEF Next, Match
  <1>3. Spec => []EngineInv
    BY EngineInvHolds
  <1> QED  BY <1>1, <1>2, <1>3, PTL DEF Spec

-----------------------------------------------------------------------------
(* The end of a match.                                                     *)

\* The best maker is not reached, so none is.
LEMMA NoneReached ==
    ASSUME EngineInv, taker.busy, NEW o \in Orders, o = taker.order,
           levels[Makers] = <<>> \/ ~Reaches(o, levels[Makers][1].px)
    PROVE  \A n \in 1 .. Len(Flat[Makers]) : Flat[Makers][n] \notin Within(o)
  <1> DEFINE ls == levels[Makers]
  <1>1. /\ levels \in [Sides -> Seq(Level)] /\ Makers \in Sides /\ ls \in Seq(Level)
        /\ Sorted(Makers, ls)
    BY DEF EngineInv, BookInv, Makers, Opposite, Sides, Sorted
  <1>2. Flat[Makers] = Flatten(ls)
    BY <1>1, FlatIs
  <1>3. /\ Len(ls) \in Nat /\ DOMAIN ls = 1 .. Len(ls)
        /\ \A k \in 1 .. Len(ls) : ls[k].px \in Nat \ {0}
    BY <1>1, LevelParts
  <1>4. ASSUME NEW n \in 1 .. Len(Flatten(ls))
        PROVE  Flatten(ls)[n] \notin Within(o)
    <2>1. PICK e : e = Flatten(ls)[n]
      OBVIOUS
    <2>2. PICK k \in 1 .. Len(ls) : \E j \in 1 .. Len(ls[k].orders) :
             e = [id |-> ls[k].orders[j].id, px |-> ls[k].px, qty |-> ls[k].orders[j].qty]
      BY <1>1, <2>1, FlatElements
    <2>3. e.px = ls[k].px
      BY <2>2
    <2>4. 1 \in 1 .. Len(ls) /\ k \in Int /\ (k = 1 \/ 1 < k)
      BY <1>3
    <2>5. ~Reaches(o, ls[1].px)
      BY <1>3, <2>4, EmptySeq
    <2>6. k = 1 \/ Better(Makers, ls[1].px, ls[k].px)
      BY <1>1, <1>3, <2>4 DEF Sorted
    <2>7. ls[1].px \in Int /\ ls[k].px \in Int /\ o.px \in Int
      BY <1>3, <2>4, OrdersAssumption
    <2> HIDE DEF ls
    <2>8. ~Reaches(o, ls[k].px)
      BY <2>5, <2>6, <2>7 DEF Reaches, Better, Makers, Opposite
    <2> QED  BY <2>1, <2>3, <2>8 DEF Within
  <1> QED  BY <1>2, <1>4

\* The oracle is left with what the engine was left with.
LEMMA FinishFill ==
    ASSUME EngineInv, MatchInv, Finish, NEW z \in 0 .. taker.rem
    PROVE  Oracle!Fill(TradesLike(taker.order, taker.order.qty - z), taker.before.book[Makers])
             = [rem |-> taker.rem - z, left |-> Flat[Makers]]
  <1>0. PICK o : o = taker.order
    OBVIOUS
  <1>1. /\ taker.busy /\ ~Matchable
        /\ levels \in [Sides -> Seq(Level)] /\ Makers \in Sides
    BY DEF Finish, EngineInv, BookInv, Makers, Opposite, Sides
  <1>2. /\ o \in Orders /\ taker.rem \in Int
        /\ o.type = "postonly" /\ levels[Makers] # <<>> =>
             ~Reaches(o, levels[Makers][1].px)
    BY <1>0, <1>1 DEF EngineInv, TakerInv
  <1>3. z \in Nat /\ taker.rem - z \in Nat
    BY <1>2
  <1>4. Flat[Makers] \in Seq(Maker)
    BY <1>1, FlatIs, FlatParts
  <1>5. Oracle!Fill(TradesLike(o, o.qty - z), taker.before.book[Makers])
          = Oracle!Fill(TradesLike(o, taker.rem - z), Flat[Makers])
    BY <1>0, <1>1, Zenon DEF MatchInv
  <1>6. Oracle!Fill(TradesLike(o, taker.rem - z), Flat[Makers])
          = FillRun(Within(o), taker.rem - z, Flat[Makers])
    BY <1>2, <1>3, <1>4, LikeFill
  <1>7. \/ taker.rem - z = 0
        \/ \A n \in 1 .. Len(Flat[Makers]) : Flat[Makers][n] \notin Within(o)
    <2>1. ASSUME taker.rem - z # 0
          PROVE  levels[Makers] = <<>> \/ ~Reaches(o, levels[Makers][1].px)
      <3>1. taker.rem > 0
        BY <1>2, <1>3, <2>1
      <3> QED  BY <1>0, <1>1, <1>2, <3>1 DEF Matchable
    <2> QED  BY <1>0, <1>1, <1>2, <2>1, NoneReached
  <1>8. FillRun(Within(o), taker.rem - z, Flat[Makers])
          = [rem |-> taker.rem - z, left |-> Flat[Makers]]
    <2>1. PICK r \in Nat, M \in Seq(Maker) : r = taker.rem - z /\ M = Flat[Makers]
      BY <1>3, <1>4
    <2>2. r = 0 \/ \A n \in 1 .. Len(M) : M[n] \notin Within(o)
      BY <1>7, <2>1
    <2>3. FillRun(Within(o), r, M) = [rem |-> r, left |-> M]
      BY <2>2, FillNothing
    <2> QED  BY <2>1, <2>3
  <1> QED  BY <1>0, <1>5, <1>6, <1>8

\* The flat book after the resting switch.
LEMMA FinishFlat ==
    ASSUME EngineInv, Finish, NEW o, o = taker.order
    PROVE  Flat' = [s \in Sides |->
                      IF Rests(o) /\ taker.rem > 0 /\ s = o.side
                      THEN Oracle!Rested(s, Flat[s],
                                         [id |-> o.id, px |-> o.px, qty |-> taker.rem])
                      ELSE Flat[s]]
  <1>1. /\ taker.busy /\ levels \in [Sides -> Seq(Level)]
        /\ levels' \in [Sides -> Seq(Level)]
    <2>1. EngineInv'
      BY FinishKeeps
    <2> QED  BY <2>1 DEF Finish, EngineInv, BookInv
  <1>2. /\ Flat = [s \in Sides |-> Flat[s]] /\ Flat' = [s \in Sides |-> Flat'[s]]
        /\ \A s \in Sides : /\ Flat[s] = Flatten(levels[s]) /\ Flat'[s] = Flatten(levels'[s])
                            /\ levels'[s] = levels[s] => Flat'[s] = Flat[s]
        /\ levels' = levels => Flat' = Flat
    BY <1>1, FlatSides
  <1>3. CASE ~(Rests(o) /\ taker.rem > 0)
    <2>1. levels' = levels
      BY <1>3 DEF Finish
    <2> QED  BY <1>2, <1>3, <2>1, Zenon
  <1>4. CASE Rests(o) /\ taker.rem > 0
    <2> DEFINE ord == [id |-> o.id, client |-> o.client, qty |-> taker.rem]
    <2>1. levels' = [levels EXCEPT ![o.side] = Inserted(o.side, o.px, ord)]
      BY <1>4 DEF Finish
    <2>2. /\ o \in Orders /\ taker.rem \in Int /\ o.side \in Sides /\ o.px \in Nat \ {0}
      BY <1>1, <1>4 DEF EngineInv, TakerInv
    <2>3. o.id \in Int /\ o.client \in Int
      BY <2>2, OrdersAssumption
    <2>4. ord \in Resting
      <3>1. taker.rem \in Nat \ {0}
        BY <1>4, <2>2
      <3> QED  BY <2>3, <3>1 DEF Resting
    <2>5. Flat1(ord, o.px) = [id |-> o.id, px |-> o.px, qty |-> taker.rem]
      BY DEF Flat1
    <2> HIDE DEF ord
    <2>6. Sorted(o.side, levels[o.side])
      BY <2>2 DEF EngineInv, BookInv, Sorted
    <2>7. PICK x, y \in Seq(Maker) :
             /\ Flatten(levels[o.side]) = x \o y
             /\ Flatten(Inserted(o.side, o.px, ord)) = (x \o <<Flat1(ord, o.px)>>) \o y
             /\ Flat1(ord, o.px) \in Maker
             /\ Lies(o.side, o.px, x, y)
      BY <1>1, <2>2, <2>4, <2>6, InsertedFlat
    <2>8. Oracle!Rested(o.side, x \o y, Flat1(ord, o.px)) = (x \o <<Flat1(ord, o.px)>>) \o y
      <3>1. Flat1(ord, o.px).px = o.px
        BY DEF Flat1
      <3>2. PICK e \in Maker : e = Flat1(ord, o.px)
        BY <2>7
      <3>3. Lies(o.side, e.px, x, y)
        BY <2>7, <3>1, <3>2
      <3>4. RestsBetween(o.side, x, e, y)
        BY <3>3, RestedIs
      <3> QED  BY <3>2, <3>4, Zenon DEF RestsBetween
    <2>9. Flat'[o.side] = Oracle!Rested(o.side, Flat[o.side], Flat1(ord, o.px))
      <3>1. levels'[o.side] = Inserted(o.side, o.px, ord)
        BY <1>1, <2>1, <2>2
      <3> QED  BY <1>2, <2>2, <2>7, <2>8, <3>1
    <2>10. \A s \in Sides : s # o.side => Flat'[s] = Flat[s]
      <3>1. \A s \in Sides : s # o.side => levels'[s] = levels[s]
        BY <1>1, <2>1
      <3> QED  BY <1>2, <3>1
    <2>11. ASSUME NEW s \in Sides
           PROVE  Flat'[s] = IF s = o.side
                             THEN Oracle!Rested(s, Flat[s], Flat1(ord, o.px))
                             ELSE Flat[s]
      BY <2>9, <2>10, Zenon
    <2> QED  BY <1>2, <1>4, <2>5, <2>11, ZenonT(60)
  <1> QED  BY <1>3, <1>4

-----------------------------------------------------------------------------
(* Every step is one of the oracle, or none.                               *)

LEMMA InitMaps == Init => Oracle!Init
  <1> SUFFICES ASSUME Init
               PROVE  Oracle!Init
    OBVIOUS
  <1>1. /\ levels = [s \in Sides |-> <<>>] /\ seen = {} /\ ack = NoAck /\ ~taker.busy
    BY DEF Init, Idle
  <1>2. /\ levels \in [Sides -> Seq(Level)] /\ \A s \in Sides : levels[s] = <<>>
    BY <1>1, EmptySeq
  <1>3. Flat = [s \in Sides |-> <<>>]
    BY <1>2, FlatIs, FlatParts
  <1> QED  BY <1>1, <1>3 DEF Oracle!Init, Oracle!EmptyBook, Oracle!Sides, Sides, NoAck

LEMMA RefusalMaps ==
    ASSUME EngineInv, NEW o \in Orders, Reject(o) \/ Turned(o)
    PROVE  Oracle!Refuse(o)
  <1>1. /\ ~taker.busy /\ taker' = taker /\ levels' = levels
        /\ ack'.order = o /\ ack'.filled = 0
    BY DEF Reject, Turned, Takes, Answered
  <1>2. Flat' = Flat
    <2>1. levels \in [Sides -> Seq(Level)] /\ levels' \in [Sides -> Seq(Level)]
      BY <1>1 DEF EngineInv, BookInv
    <2> QED  BY <1>1, <2>1, FlatSides
  <1>3. /\ o.type # "cancel"
        /\ seen' \in {seen, seen \cup {<<o.client, o.id>>}}
        /\ \/ o.side \notin Sides
           \/ o.qty <= 0
           \/ o.type # "market" /\ o.px <= 0
           \/ o.id # 0 /\ <<o.client, o.id>> \in seen
           \/ o.type \notin {"limit", "market", "cancel"}
    <2>1. CASE Reject(o)
      BY <2>1 DEF Reject, Malformed, Exempt, Duplicate
    <2>2. CASE Turned(o)
      BY <2>2 DEF Turned, Sound, Refused, Recorded
    <2> QED  BY <2>1, <2>2
  <1>4. ~taker'.busy
    BY <1>1
  <1> QED  BY <1>1, <1>2, <1>3, <1>4
           DEF Oracle!Refuse, Oracle!Refusable, Oracle!Plain, Oracle!Sides, Sides

\* An id that only one accepted request carries names at most one resting order.
LEMMA OneOfAnId ==
    ASSUME EngineInv, NEW i, ~SharedId(i),
           NEW s \in Sides, NEW p \in Places(levels[s]), At(levels[s], p).id = i,
           NEW t \in Sides, NEW q \in Places(levels[t]), At(levels[t], q).id = i
    PROVE  s = t /\ p = q
  <1> DEFINE a == At(levels[s], p)
             b == At(levels[t], q)
  <1>1. i # 0 /\ \A k, l \in seen : k[2] = i /\ l[2] = i => k = l
    BY DEF SharedId
  <1>2. Accepted /\ IdsApart
    BY DEF EngineInv, IndexInv
  <1>3. <<a.client, i>> \in seen /\ <<b.client, i>> \in seen
    BY <1>1, <1>2 DEF Accepted
  <1>4. a.client = b.client
    <2>1. PICK c, d : c = a.client /\ d = b.client
      OBVIOUS
    <2>2. <<c, i>> = <<d, i>>
      BY <1>1, <1>3, <2>1
    <2> QED  BY <2>1, <2>2
  <1>5. <<s, p>> = <<t, q>>
    BY <1>1, <1>2, <1>4 DEF IdsApart
  <1> QED  BY <1>5

\* An order in the flat book is an order at some place.
LEMMA FlatPlaces ==
    ASSUME NEW ls \in Seq(Level), NEW n \in 1 .. Len(Flatten(ls))
    PROVE  \E p \in Places(ls) : At(ls, p).id = Flatten(ls)[n].id
  <1>1. PICK e : e = Flatten(ls)[n]
    OBVIOUS
  <1>2. PICK k \in 1 .. Len(ls) : \E j \in 1 .. Len(ls[k].orders) :
           e = [id |-> ls[k].orders[j].id, px |-> ls[k].px, qty |-> ls[k].orders[j].qty]
    BY <1>1, FlatElements
  <1>3. PICK j \in 1 .. Len(ls[k].orders) :
           e = [id |-> ls[k].orders[j].id, px |-> ls[k].px, qty |-> ls[k].orders[j].qty]
    BY <1>2
  <1>4. <<k, j>> \in Places(ls)
    BY PlaceOf
  <1>5. At(ls, <<k, j>>).id = e.id
    BY <1>3 DEF At
  <1> QED  BY <1>1, <1>4, <1>5

LEMMA CancelMissMaps ==
    ASSUME EngineInv, NEW o \in Orders, CancelMiss(o)
    PROVE  Oracle!Cancel(o)
  <1>1. /\ ~taker.busy /\ taker' = taker /\ levels' = levels /\ seen' = seen
        /\ ack'.order = o /\ ack'.filled = 0
        /\ o.type = "cancel" /\ o.target \notin DOMAIN idx
    BY DEF CancelMiss, Takes, Answered
  <1>2. levels \in [Sides -> Seq(Level)] /\ levels' \in [Sides -> Seq(Level)]
    BY <1>1 DEF EngineInv, BookInv
  <1>3. Flat' = Flat /\ Flat = [s \in Sides |-> Flat[s]]
        /\ \A s \in Sides : Flat[s] = Flatten(levels[s])
    BY <1>1, <1>2, FlatSides
  <1>4. ASSUME ~SharedId(o.target)
        PROVE  Flat' = Oracle!Without(Flat, o.target)
    <2>1. ASSUME NEW s \in Sides
          PROVE  Dropped(Flat[s], o.target) = Flat[s]
      <3>1. ASSUME NEW n \in 1 .. Len(Flatten(levels[s]))
            PROVE  Flatten(levels[s])[n].id # o.target
        <4>1. PICK p \in Places(levels[s]) : At(levels[s], p).id = Flatten(levels[s])[n].id
          BY <1>2, FlatPlaces
        <4>2. At(levels[s], p).id \in DOMAIN idx \/ SharedId(At(levels[s], p).id)
          BY DEF EngineInv, IndexInv, OnlySharedIdsOrphaned
        <4> QED  BY <1>1, <1>4, <4>1, <4>2
      <3> QED  BY <1>3, <3>1, DroppedNone
    <2> QED  BY <1>3, <2>1, WithoutIs
  <1>5. ~taker'.busy /\ (Oracle!Shared(o.target) <=> SharedId(o.target))
    BY <1>1 DEF Oracle!Shared, SharedId
  <1> QED  BY <1>1, <1>3, <1>4, <1>5 DEF Oracle!Cancel

LEMMA CancelHitMaps ==
    ASSUME EngineInv, NEW o \in Orders, CancelHit(o)
    PROVE  Oracle!Cancel(o)
  <1> DEFINE side == idx[o.target].side
             px == idx[o.target].px
             ls == levels[side]
             new == Removed(side, px, o.target)
  <1>1. /\ ~taker.busy /\ taker' = taker /\ seen' = seen
        /\ ack'.order = o /\ ack'.filled = 0
        /\ o.type = "cancel" /\ o.target \in DOMAIN idx
        /\ levels' = [levels EXCEPT ![side] = new]
    BY DEF CancelHit, Takes, Answered
  <1>2. /\ levels \in [Sides -> Seq(Level)] /\ levels' \in [Sides -> Seq(Level)]
        /\ side \in Sides /\ Rest(side, px, o.target)
    <2>1. EngineInv'
      BY CancelHitKeeps
    <2> QED  BY <1>1, <2>1 DEF EngineInv, BookInv, IndexInv, IndexNeverDangles
  <1>3. /\ Flat = [s \in Sides |-> Flat[s]] /\ Flat' = [s \in Sides |-> Flat'[s]]
        /\ \A s \in Sides : /\ Flat[s] = Flatten(levels[s]) /\ Flat'[s] = Flatten(levels'[s])
                            /\ levels'[s] = levels[s] => Flat'[s] = Flat[s]
    BY <1>2, FlatSides
  <1>4. PICK i, j : /\ TakesOut(new, ls, i, j)
                    /\ ls[i].px = px /\ ls[i].orders[j].id = o.target
    <2>1. PICK s, p, t : s = side /\ p = px /\ t = o.target /\ s \in Sides
      BY <1>2
    <2>2. s \in Sides /\ Rest(s, p, t) /\ levels \in [Sides -> Seq(Level)]
      BY <1>2, <2>1
    <2>3. \E i, j : /\ TakesOut(Removed(s, p, t), levels[s], i, j)
                    /\ levels[s][i].px = p /\ levels[s][i].orders[j].id = t
      BY <2>2, RemovedWhere
    <2> QED  BY <2>1, <2>3
  <1> HIDE DEF new
  <1>5. PICK x, y \in Seq(Maker), e \in Maker :
           /\ e.id = ls[i].orders[j].id
           /\ Flatten(ls) = (x \o <<e>>) \o y
           /\ Flatten(new) = x \o y
           /\ \A n \in 1 .. Len(x) :
                 \E p \in Places(ls) : p # <<i, j>> /\ At(ls, p).id = x[n].id
    <2>1. ls \in Seq(Level) /\ TakesOut(new, ls, i, j)
      BY <1>2, <1>4
    <2> HIDE DEF ls
    <2>2. PICK x, y \in Seq(Maker), e \in Maker : FlatLess(new, ls, i, j, x, e, y)
      BY <2>1, FlatWithout
    <2> QED  BY <2>2, Zenon DEF FlatLess
  <1>6. /\ Flat[side] = (x \o <<e>>) \o y /\ Flat'[side] = x \o y /\ e.id = o.target
        /\ \A s \in Sides : s # side => Flat'[s] = Flat[s]
    <2>1. levels'[side] = new /\ \A s \in Sides : s # side => levels'[s] = levels[s]
      BY <1>1, <1>2
    <2> QED  BY <1>2, <1>3, <1>4, <1>5, <2>1
  <1>7. <<i, j>> \in Places(ls) /\ At(ls, <<i, j>>).id = o.target
    <2>1. ls \in Seq(Level) /\ i \in 1 .. Len(ls) /\ j \in 1 .. Len(ls[i].orders)
      BY <1>2, <1>4 DEF TakesOut
    <2> QED  BY <1>4, <2>1, PlaceOf DEF At
  <1> HIDE DEF ls
  <1>8. ASSUME ~SharedId(o.target)
        PROVE  Flat' = Oracle!Without(Flat, o.target)
    <2>1. Dropped(Flat[side], o.target) = Flat'[side]
      <3>1. ASSUME NEW n \in 1 .. Len(x), x[n].id = e.id
            PROVE  FALSE
        <4>1. PICK p \in Places(ls) : p # <<i, j>> /\ At(ls, p).id = x[n].id
          BY <1>5
        <4>2. side \in Sides /\ levels[side] = ls
          BY <1>2 DEF ls
        <4>3. /\ <<i, j>> \in Places(levels[side]) /\ At(levels[side], <<i, j>>).id = o.target
              /\ p \in Places(levels[side]) /\ At(levels[side], p).id = o.target
          BY <1>6, <1>7, <3>1, <4>1, <4>2
        <4>4. PICK s, k : s = side /\ k = <<i, j>>
          OBVIOUS
        <4>5. /\ s \in Sides /\ k \in Places(levels[s]) /\ At(levels[s], k).id = o.target
              /\ p \in Places(levels[s]) /\ At(levels[s], p).id = o.target
          BY <4>2, <4>3, <4>4
        <4>6. p = k
          BY <1>8, <4>5, OneOfAnId, ZenonT(60)
        <4> QED  BY <4>1, <4>4, <4>6
      <3>2. Dropped((x \o <<e>>) \o y, e.id) = x \o y
        BY <3>1, DroppedIs
      <3> QED  BY <1>6, <3>2
    <2>2. ASSUME NEW s \in Sides, s # side
          PROVE  Dropped(Flat[s], o.target) = Flat'[s]
      <3>1. ASSUME NEW n \in 1 .. Len(Flatten(levels[s])),
                   Flatten(levels[s])[n].id = o.target
            PROVE  FALSE
        <4>1. levels[s] \in Seq(Level)
          BY <1>2
        <4>2. PICK p \in Places(levels[s]) : At(levels[s], p).id = Flatten(levels[s])[n].id
          BY <4>1, FlatPlaces
        <4> QED  BY <1>2, <1>7, <1>8, <2>2, <3>1, <4>2, OneOfAnId DEF ls
      <3> QED  BY <1>3, <1>6, <2>2, <3>1, DroppedNone
    <2>3. \A s \in Sides : Flat'[s] = Dropped(Flat[s], o.target)
      BY <2>1, <2>2
    <2>4. Flat' = [s \in Sides |-> Dropped(Flat[s], o.target)]
      BY <1>3, <2>3, Zenon
    <2> QED  BY <2>4, WithoutIs
  <1>9. /\ Len(x) + 1 \in DOMAIN Flat[side] /\ Flat[side][Len(x) + 1].id = o.target
        /\ Flat' = [Flat EXCEPT ![side] = Oracle!RemoveAt(@, Len(x) + 1)]
    <2>1. Wedged(Maker, x, y, e)
      BY Wedge
    <2>2. PICK M : M = (x \o <<e>>) \o y
      OBVIOUS
    <2>3. /\ RemoveAt(M, Len(x) + 1) = x \o y /\ M[Len(x) + 1] = e
          /\ M \in Seq(Maker) /\ Len(M) = Len(x) + 1 + Len(y)
      BY <2>1, <2>2, Zenon DEF Wedged
    <2>4. Len(x) \in Nat /\ Len(y) \in Nat /\ DOMAIN M = 1 .. Len(M)
      BY <2>3, LenProperties
    <2>5. Oracle!RemoveAt(M, Len(x) + 1) = RemoveAt(M, Len(x) + 1)
      BY DEF Oracle!RemoveAt, RemoveAt
    <2>6. Len(x) + 1 \in DOMAIN M
      BY <2>3, <2>4
    <2>7. Flat'[side] = Oracle!RemoveAt(Flat[side], Len(x) + 1)
      BY <1>6, <2>2, <2>3, <2>5
    <2>8. Flat' = [Flat EXCEPT ![side] = Oracle!RemoveAt(@, Len(x) + 1)]
      <3>1. PICK w : w = Oracle!RemoveAt(Flat[side], Len(x) + 1)
        OBVIOUS
      <3>2. \A s \in Sides : Flat'[s] = [Flat EXCEPT ![side] = w][s]
        BY <1>2, <1>3, <1>6, <2>7, <3>1
      <3> QED  BY <1>2, <1>3, <3>1, <3>2
    <2> QED  BY <1>6, <2>2, <2>3, <2>6, <2>8
  <1>10. ~taker'.busy /\ (Oracle!Shared(o.target) <=> SharedId(o.target))
    BY <1>1 DEF Oracle!Shared, SharedId
  <1>11. CASE ~SharedId(o.target)
    BY <1>1, <1>8, <1>10, <1>11 DEF Oracle!Cancel
  <1>12. CASE SharedId(o.target)
    <2>1. \E s \in Sides : \E k \in DOMAIN Flat[s] :
             /\ Flat[s][k].id = o.target
             /\ Flat' = [Flat EXCEPT ![s] = Oracle!RemoveAt(@, k)]
      BY <1>2, <1>9, Zenon
    <2> QED  BY <1>1, <1>10, <1>12, <2>1 DEF Oracle!Cancel, Oracle!Sides, Sides
  <1> QED  BY <1>11, <1>12

\* What Traded makes of a fill.
TradesTo(b, u, r, left) ==
    LET x == Oracle!Traded(b, u)
    IN  /\ x.filled = u.qty - r
        /\ x.book = [s \in Sides |->
                       IF s = u.side
                       THEN IF u.type = "limit" /\ r > 0
                            THEN Oracle!Rested(s, b[s], [id |-> u.id, px |-> u.px, qty |-> r])
                            ELSE b[s]
                       ELSE left]

LEMMA TradedIs ==
    ASSUME NEW b, b = [s \in Sides |-> b[s]], NEW u, u.side \in Sides, NEW r, NEW left,
           Oracle!Fill(u, b[Opposite(u.side)]) = [rem |-> r, left |-> left]
    PROVE  TradesTo(b, u, r, left)
  <1> DEFINE rest == [id |-> u.id, px |-> u.px, qty |-> r]
  <1>1. Oracle!Opposite(u.side) = Opposite(u.side) /\ Opposite(u.side) \in Sides
        /\ Opposite(u.side) # u.side
    BY DEF Oracle!Opposite, Opposite, Sides
  <1>2. PICK f : f = [rem |-> r, left |-> left]
    OBVIOUS
  <1>3. f.rem = r /\ f.left = left
    BY <1>2
  <1>4. Oracle!Traded(b, u) =
          [book   |-> [b EXCEPT ![Opposite(u.side)] = left,
                                ![u.side] = IF u.type = "limit" /\ r > 0
                                            THEN Oracle!Rested(u.side, @, rest) ELSE @],
           filled |-> u.qty - r]
    BY <1>1, <1>2, <1>3 DEF Oracle!Traded
  <1> HIDE DEF rest
  <1>5. PICK w : w = IF u.type = "limit" /\ r > 0
                     THEN Oracle!Rested(u.side, b[u.side], rest) ELSE b[u.side]
    OBVIOUS
  <1>6. [b EXCEPT ![Opposite(u.side)] = left,
                  ![u.side] = IF u.type = "limit" /\ r > 0
                              THEN Oracle!Rested(u.side, @, rest) ELSE @]
          = [s \in Sides |-> IF s = u.side THEN w ELSE left]
    <2>1. \A s \in Sides : s # u.side => s = Opposite(u.side)
      BY DEF Opposite, Sides
    <2>2. PICK c : c = [b EXCEPT ![Opposite(u.side)] = left]
      OBVIOUS
    <2>3. c = [s \in Sides |-> IF s = u.side THEN b[s] ELSE left]
      BY <1>1, <2>1, <2>2
    <2>4. c[u.side] = b[u.side]
      BY <2>3
    <2>5. [c EXCEPT ![u.side] = w] = [s \in Sides |-> IF s = u.side THEN w ELSE left]
      BY <2>3
    <2> QED  BY <1>5, <2>2, <2>4, <2>5
  <1>7. [s \in Sides |-> IF s = u.side THEN w ELSE left]
          = [s \in Sides |->
               IF s = u.side
               THEN IF u.type = "limit" /\ r > 0
                    THEN Oracle!Rested(s, b[s], rest) ELSE b[s]
               ELSE left]
    BY <1>5
  <1>8. PICK y : y = [b EXCEPT ![Opposite(u.side)] = left,
                               ![u.side] = IF u.type = "limit" /\ r > 0
                                           THEN Oracle!Rested(u.side, @, rest) ELSE @]
    OBVIOUS
  <1>9. Oracle!Traded(b, u) = [book |-> y, filled |-> u.qty - r]
    BY <1>4, <1>8
  <1>10. y = [s \in Sides |->
                IF s = u.side
                THEN IF u.type = "limit" /\ r > 0
                     THEN Oracle!Rested(s, b[s], rest) ELSE b[s]
                ELSE left]
    BY <1>6, <1>7, <1>8
  <1>11. PICK x : x = [book |-> y, filled |-> u.qty - r]
    OBVIOUS
  <1>12. x.book = y /\ x.filled = u.qty - r
    BY <1>11
  <1> QED  BY <1>9, <1>10, <1>11, <1>12, Zenon DEF TradesTo, rest

\* What the oracle does with all of the order but z of it.
EndsAs(o, u, z) ==
    LET x == Oracle!Traded(taker.before.book, u)
    IN  /\ x.filled = (o.qty - z) - (taker.rem - z)
        /\ x.book = [s \in Sides |->
                       IF s = u.side /\ u.type = "limit" /\ taker.rem - z > 0
                       THEN Oracle!Rested(s, Flat[s],
                                          [id |-> o.id, px |-> o.px, qty |-> taker.rem - z])
                       ELSE Flat[s]]

LEMMA FinishTraded ==
    ASSUME EngineInv, MatchInv, Finish, NEW o, o = taker.order,
           NEW z \in 0 .. taker.rem, NEW u, u = TradesLike(o, o.qty - z)
    PROVE  EndsAs(o, u, z)
  <1>0. PICK b : b = taker.before.book
    OBVIOUS
  <1>1. taker.busy /\ o \in Orders
    BY DEF Finish, EngineInv, TakerInv
  <1>2. /\ u.id = o.id /\ u.px = o.px /\ u.qty = o.qty - z
        /\ u.side = (IF o.side \in Sides THEN o.side ELSE "sell")
    <2>1. TradesAs(u, o, o.qty - z)
      BY <1>1, TradesParts
    <2> QED  BY <2>1, Zenon DEF TradesAs
  <1>3. /\ u.side \in Sides /\ Opposite(u.side) = Makers /\ Opposite(Makers) = u.side
        /\ \A s \in Sides : s # u.side => s = Makers
    BY <1>2 DEF Makers, Opposite, Sides
  <1>4. b = [s \in Sides |-> b[s]] /\ b[u.side] = Flat[u.side]
    BY <1>0, <1>1, <1>3 DEF MatchInv
  <1>5. Oracle!Fill(u, b[Opposite(u.side)]) = [rem |-> taker.rem - z, left |-> Flat[Makers]]
    BY <1>0, <1>3, FinishFill
  <1>6. TradesTo(b, u, taker.rem - z, Flat[Makers])
    BY <1>3, <1>4, <1>5, TradedIs
  <1>7. ASSUME NEW s \in Sides
        PROVE  (IF s = u.side
                THEN IF u.type = "limit" /\ taker.rem - z > 0
                     THEN Oracle!Rested(s, b[s],
                                        [id |-> u.id, px |-> u.px, qty |-> taker.rem - z])
                     ELSE b[s]
                ELSE Flat[Makers])
               = IF s = u.side /\ u.type = "limit" /\ taker.rem - z > 0
                 THEN Oracle!Rested(s, Flat[s],
                                    [id |-> o.id, px |-> o.px, qty |-> taker.rem - z])
                 ELSE Flat[s]
    BY <1>2, <1>3, <1>4
  <1>8. PICK x : x = Oracle!Traded(b, u)
    OBVIOUS
  <1>9. x.filled = (o.qty - z) - (taker.rem - z)
    BY <1>2, <1>6, <1>8 DEF TradesTo
  <1>10. x.book = [s \in Sides |->
                     IF s = u.side
                     THEN IF u.type = "limit" /\ taker.rem - z > 0
                          THEN Oracle!Rested(s, b[s],
                                             [id |-> u.id, px |-> u.px, qty |-> taker.rem - z])
                          ELSE b[s]
                     ELSE Flat[Makers]]
    BY <1>6, <1>8 DEF TradesTo
  <1>11. x.book = [s \in Sides |->
                     IF s = u.side /\ u.type = "limit" /\ taker.rem - z > 0
                     THEN Oracle!Rested(s, Flat[s],
                                        [id |-> o.id, px |-> o.px, qty |-> taker.rem - z])
                     ELSE Flat[s]]
    BY <1>7, <1>10, Zenon
  <1> QED  BY <1>0, <1>8, <1>9, <1>11, Zenon DEF EndsAs

LEMMA FinishMaps ==
    ASSUME EngineInv, MatchInv, Finish
    PROVE  Oracle!Next
  <1>0. PICK o, b : o = taker.order /\ b = taker.before
    OBVIOUS
  <1>1. /\ taker.busy /\ ~taker'.busy /\ seen' = seen /\ ack'.order = o
        /\ ack'.filled = IF Known(o) THEN o.qty - taker.rem ELSE 0
    BY <1>0 DEF Finish, Idle, Answered
  <1>2. o \in Orders /\ taker.rem \in Int /\ taker.rem <= o.qty /\ o.qty \in Int /\ o.px \in Int
    <2>1. o \in Orders /\ taker.rem \in Int /\ taker.rem <= o.qty
      BY <1>0, <1>1 DEF EngineInv, TakerInv
    <2> QED  BY <2>1, OrdersAssumption
  <1>3. /\ o.type # "cancel"
        /\ ~Exempt(o) => /\ o.side \in Sides /\ o.qty > 0
                         /\ o.type # "market" => o.px > 0
                         /\ o.id # 0 => <<o.client, o.id>> \notin b.seen
        /\ seen = IF Exempt(o) \/ o.id = 0 THEN b.seen
                  ELSE b.seen \cup {<<o.client, o.id>>}
        /\ o.qty < 0 \/ o.type = "postonly" => taker.rem = o.qty
        /\ taker.rem = o.qty => b.book = Flat
        /\ o.qty >= 0 => taker.rem >= 0
    BY <1>0, <1>1, Zenon DEF MatchInv
  <1>4. Flat' = [s \in Sides |->
                   IF Rests(o) /\ taker.rem > 0 /\ s = o.side
                   THEN Oracle!Rested(s, Flat[s],
                                      [id |-> o.id, px |-> o.px, qty |-> taker.rem])
                   ELSE Flat[s]]
    BY <1>0, FinishFlat
  <1>5. Flat = [s \in Sides |-> Flat[s]]
    BY DEF Flat
  <1>6. seen' \in {b.seen, b.seen \cup {<<o.client, o.id>>}}
    BY <1>1, <1>3, Zenon
  <1> HIDE DEF Flat
  \* The whole order, as the oracle has it.
  <1>7. ASSUME o.type \in {"limit", "market", "postonly"}, NEW u, u = TradesLike(o, o.qty)
        PROVE  /\ Oracle!Traded(b.book, u).book = Flat'
               /\ Oracle!Traded(b.book, u).filled = o.qty - taker.rem
               /\ u.side = o.side
    <2>1. o.side \in Sides /\ taker.rem >= 0
      BY <1>2, <1>3, <1>7 DEF Exempt
    <2>2. 0 \in 0 .. taker.rem /\ o.qty - 0 = o.qty /\ taker.rem - 0 = taker.rem
      BY <1>2, <2>1
    <2>3. EndsAs(o, u, 0)
      BY <1>0, <1>7, <2>2, FinishTraded
    <2>4. /\ u.side = (IF o.side \in Sides THEN o.side ELSE "sell")
          /\ u.type = (IF o.type = "market" \/ o.side \notin Sides THEN "market" ELSE "limit")
      <3>1. TradesAs(u, o, o.qty)
        BY <1>2, <1>7, TradesParts
      <3> QED  BY <3>1, Zenon DEF TradesAs
    <2>5. u.side = o.side /\ (u.type = "limit" <=> Rests(o))
      BY <1>7, <2>1, <2>4 DEF Rests
    <2>6. /\ Oracle!Traded(b.book, u).filled = o.qty - taker.rem
          /\ Oracle!Traded(b.book, u).book =
               [s \in Sides |->
                  IF s = u.side /\ u.type = "limit" /\ taker.rem > 0
                  THEN Oracle!Rested(s, Flat[s],
                                     [id |-> o.id, px |-> o.px, qty |-> taker.rem])
                  ELSE Flat[s]]
      BY <1>0, <2>2, <2>3 DEF EndsAs
    <2>7. ASSUME NEW s \in Sides
          PROVE  (s = u.side /\ u.type = "limit" /\ taker.rem > 0)
                   <=> (Rests(o) /\ taker.rem > 0 /\ s = o.side)
      BY <2>5
    <2> QED  BY <1>4, <2>5, <2>6, <2>7
  <1>8. CASE o.type \in {"limit", "market"}
    <2>1. TradesLike(o, o.qty) = o
      BY <1>2, <1>3, <1>8, TradesItself DEF Exempt
    <2>2. /\ Oracle!Traded(b.book, o).book = Flat'
          /\ Oracle!Traded(b.book, o).filled = o.qty - taker.rem
      BY <1>7, <1>8, <2>1
    <2>3. ack'.filled = o.qty - taker.rem
      BY <1>1, <1>8 DEF Known, Rests
    <2>4. ~(\/ o.side \notin Sides
            \/ o.qty <= 0
            \/ o.type # "market" /\ o.px <= 0
            \/ o.id # 0 /\ <<o.client, o.id>> \in b.seen
            \/ o.type \notin {"limit", "market", "cancel"})
      BY <1>2, <1>3, <1>8 DEF Exempt
    <2>5. seen' = IF o.id = 0 THEN b.seen ELSE b.seen \cup {<<o.client, o.id>>}
      BY <1>1, <1>3, <1>8 DEF Exempt
    <2>6. Oracle!Execute(o)
      BY <1>0, <1>1, <1>8, <2>2, <2>3, <2>4, <2>5
         DEF Oracle!Execute, Oracle!Refusable, Oracle!Plain, Oracle!Sides, Sides
    <2> QED  BY <1>2, <2>6 DEF Oracle!Next
  <1>9. CASE o.type \notin {"limit", "market"}
    <2>1. o.type \notin {"limit", "market", "cancel"}
      BY <1>3, <1>9
    <2>2. ASSUME NEW s \in Sides, NEW t \in {"limit", "market"}, NEW q \in 1 .. o.qty,
                 NEW u, u = [o EXCEPT !.side = s, !.type = t, !.qty = q],
                 o.side \in Sides => s = o.side,
                 Flat' = Oracle!Traded(b.book, u).book,
                 ack'.filled \in {0, Oracle!Traded(b.book, u).filled}
          PROVE  Oracle!Extra(o)
      BY <1>0, <1>1, <1>6, <2>1, <2>2 DEF Oracle!Extra, Oracle!Plain, Oracle!Sides, Sides
    <2>3. CASE o.type = "postonly"
      <3>1. PICK u : u = TradesLike(o, o.qty)
        OBVIOUS
      <3>2. /\ Oracle!Traded(b.book, u).book = Flat' /\ u.side = o.side
        BY <1>7, <2>3, <3>1
      <3>3. /\ o.side \in Sides /\ o.qty > 0 /\ taker.rem = o.qty
        BY <1>3, <2>3 DEF Exempt
      <3>4. /\ u.type = (IF o.type = "market" \/ o.side \notin Sides THEN "market" ELSE "limit")
            /\ u = [o EXCEPT !.side = u.side, !.type = u.type, !.qty = o.qty]
        <4>1. TradesAs(u, o, o.qty)
          BY <1>2, <3>1, TradesParts
        <4> QED  BY <4>1, Zenon DEF TradesAs
      <3>5. u = [o EXCEPT !.side = o.side, !.type = "limit", !.qty = o.qty]
        BY <2>3, <3>2, <3>3, <3>4
      <3>6. ack'.filled = 0 /\ o.qty \in 1 .. o.qty
        BY <1>1, <1>2, <3>3
      <3>7. Oracle!Extra(o)
        BY <2>2, <3>2, <3>3, <3>5, <3>6
      <3> QED  BY <1>2, <3>7 DEF Oracle!Next
    <2>4. CASE o.type # "postonly"
      <3>1. Flat' = Flat
        BY <1>4, <1>5, <1>9, <2>4 DEF Rests
      <3>2. CASE taker.rem = o.qty
        <4>1. b.book = Flat /\ ack'.filled = 0
          BY <1>1, <1>2, <1>3, <3>2
        <4>2. Oracle!Refuse(o)
          BY <1>0, <1>1, <1>3, <1>6, <2>1, <3>1, <4>1
             DEF Oracle!Refuse, Oracle!Refusable, Oracle!Plain
        <4> QED  BY <1>2, <4>2 DEF Oracle!Next
      <3>3. CASE taker.rem # o.qty
        <4>1. taker.rem >= 0 /\ o.qty - taker.rem \in 1 .. o.qty /\ taker.rem \in 0 .. taker.rem
              /\ taker.rem - taker.rem = 0
          BY <1>2, <1>3, <3>3
        <4>2. PICK q \in 1 .. o.qty : q = o.qty - taker.rem
          BY <4>1
        <4>3. PICK u : u = TradesLike(o, q)
          OBVIOUS
        <4>4. EndsAs(o, u, taker.rem)
          BY <1>0, <4>1, <4>2, <4>3, FinishTraded
        <4>5. /\ Oracle!Traded(b.book, u).filled = q
              /\ Oracle!Traded(b.book, u).book = Flat
          <5>1. q - 0 = q
            OBVIOUS
          <5>2. Oracle!Traded(b.book, u).book = [s \in Sides |-> Flat[s]]
            BY <1>0, <4>1, <4>4 DEF EndsAs
          <5> QED  BY <1>0, <1>5, <4>1, <4>2, <4>4, <5>1, <5>2 DEF EndsAs
        <4>6. /\ u.side = (IF o.side \in Sides THEN o.side ELSE "sell")
              /\ u.type = (IF o.type = "market" \/ o.side \notin Sides
                           THEN "market" ELSE "limit")
              /\ u = [o EXCEPT !.side = u.side, !.type = u.type, !.qty = q]
          <5>1. TradesAs(u, o, q)
            BY <1>2, <4>3, TradesParts
          <5> QED  BY <5>1, Zenon DEF TradesAs
        <4>7. /\ u.side \in Sides /\ u.type \in {"limit", "market"}
              /\ o.side \in Sides => u.side = o.side
          BY <4>6 DEF Sides
        <4>8. ack'.filled \in {0, q}
          BY <1>1, <4>2
        <4>9. Oracle!Extra(o)
          BY <2>2, <3>1, <4>5, <4>6, <4>7, <4>8
        <4> QED  BY <1>2, <4>9 DEF Oracle!Next
      <3> QED  BY <3>2, <3>3
    <2> QED  BY <2>3, <2>4
  <1> QED  BY <1>8, <1>9

LEMMA StepMaps ==
    ASSUME EngineInv, MatchInv, [Next]_vars
    PROVE  [Oracle!Next]_(Oracle!vars)
  <1>1. levels \in [Sides -> Seq(Level)]
    BY DEF EngineInv, BookInv
  <1>2. ASSUME NEW o \in Orders, Receive(o), ~Start(o)
        PROVE  Oracle!Next
    <2>1. Oracle!Refuse(o) \/ Oracle!Cancel(o)
      BY <1>2, RefusalMaps, CancelMissMaps, CancelHitMaps DEF Receive
    <2> QED  BY <2>1 DEF Oracle!Next
  <1>3. ASSUME NEW o \in Orders, Start(o)
        PROVE  UNCHANGED Oracle!vars
    <2>1. /\ ~taker.busy /\ ack' = ack /\ taker'.busy
          /\ taker'.before = [book |-> Flat, seen |-> seen]
      BY <1>3 DEF Start, Takes
    <2>2. taker'.before.book = Flat /\ taker'.before.seen = seen
      BY <2>1
    <2> QED  BY <2>1, <2>2 DEF Oracle!vars
  <1>4. CASE FillMaker \/ DropLevel
    <2>1. taker.busy /\ taker'.busy /\ ack' = ack /\ taker'.before = taker.before
      <3>1. CASE DropLevel
        BY <3>1 DEF DropLevel
      <3>2. CASE FillMaker
        <4>1. taker.busy /\ ack' = ack
          BY <3>2 DEF FillMaker, Matchable
        <4>2. \E r : taker' = [taker EXCEPT !.rem = r]
          BY <3>2 DEF FillMaker
        <4>3. taker \in [busy : {TRUE}, order : Orders, rem : Int, before : {taker.before}]
          BY <4>1 DEF EngineInv, TakerInv
        <4> QED  BY <4>1, <4>2, <4>3
      <3> QED  BY <1>4, <3>1, <3>2
    <2> QED  BY <2>1 DEF Oracle!vars
  <1>5. CASE UNCHANGED vars
    <2>1. levels' = levels /\ seen' = seen /\ taker' = taker /\ ack' = ack
      BY <1>5 DEF vars
    <2>2. levels' \in [Sides -> Seq(Level)]
      BY <1>1, <2>1
    <2>3. Flat' = Flat
      BY <1>1, <2>1, <2>2, FlatSides
    <2> QED  BY <2>1, <2>3 DEF Oracle!vars
  <1> QED  BY <1>2, <1>3, <1>4, <1>5, FinishMaps DEF Next, Match

\* The engine implements the reference book: whatever requests come, each of
\* them does to the resting orders, laid end to end, what the correctness
\* oracle's reference book does with it, and reports the quantity it fills
\* there.  The loop over levels and makers, the index, the sorted insertion
\* and the resting switch add up to one step of the oracle.
THEOREM ImplementsOracle == Spec => RefinesOracle
  <1>1. Init => Oracle!Init
    BY InitMaps
  <1>2. EngineInv /\ MatchInv /\ [Next]_vars => [Oracle!Next]_(Oracle!vars)
    BY StepMaps
  <1>3. Spec => []EngineInv
    BY EngineInvHolds
  <1>4. Spec => []MatchInv
    BY MatchInvHolds
  <1> QED  BY <1>1, <1>2, <1>3, <1>4, PTL DEF Spec, RefinesOracle, Oracle!Spec

-----------------------------------------------------------------------------
(* The oracle at work, for any runs, bots, files, faults and ways in which *)
(* an engine may behave.  First: the reference book keeps its type.        *)

Books == [Sides -> Seq(Maker)]

LEMMA SameBook ==
    ASSUME NEW b, NEW o
    PROVE  /\ Apply(b, o) = Oracle!Apply(b, o)
           /\ \A M : Fill(o, M) = Oracle!Fill(o, M)
           /\ Oracle!Sides = Sides
           /\ EmptyBook = [s \in Sides |-> <<>>]
  <1>1. \A M : Fill(o, M) = Oracle!Fill(o, M)
    BY DEF Fill, Oracle!Fill, FoldLeft, Oracle!FoldLeft, MapThenFoldSet,
           Oracle!MapThenFoldSet, WithinLimit, Oracle!WithinLimit, Max, Oracle!Max,
           Min, Oracle!Min
  <1>2. (\A s : Oracle!Opposite(s) = Opposite(s)) /\ Oracle!Sides = Sides
    BY DEF Opposite, Oracle!Opposite, Sides, Oracle!Sides
  <1>3. \A s, M, r : Rested(s, M, r) = Oracle!Rested(s, M, r)
    BY DEF Rested, Oracle!Rested, InsertAt, Oracle!InsertAt, Min,
           Oracle!Min, Worse, Oracle!Worse
  <1>4. Without(b, o.target) = Oracle!Without(b, o.target)
    BY DEF Without, Oracle!Without, RemoveFirstMatch, Oracle!RemoveFirstMatch,
           SelectInSeq, Oracle!SelectInSeq, RemoveAt, Oracle!RemoveAt,
           Min, Oracle!Min, Sides, Oracle!Sides
  <1>5. Traded(b, o) = Oracle!Traded(b, o)
    BY <1>1, <1>2, <1>3 DEF Traded, Oracle!Traded
  <1>6. Apply(b, o) = Oracle!Apply(b, o)
    BY <1>4, <1>5 DEF Apply, Oracle!Apply
  <1> QED  BY <1>1, <1>2, <1>6 DEF EmptyBook

LEMMA FillTyped ==
    ASSUME NEW o, o.qty \in Nat, NEW M \in Seq(Maker)
    PROVE  Oracle!Fill(o, M) \in FillState
  <1>1. PICK R : R = {m \in Maker : Oracle!WithinLimit(o, m)}
    OBVIOUS
  <1>2. Oracle!Fill(o, M) = FillRun(R, o.qty, M)
    BY <1>1, FillIs
  <1>3. Accumulates(FillState, Maker, TakeStep(R), [rem |-> o.qty, left |-> <<>>])
    BY TakeTypes, RunParts
  <1> QED  BY <1>2, <1>3 DEF Accumulates, FillRun

LEMMA RestedTyped ==
    ASSUME NEW side, NEW M \in Seq(Maker), NEW e \in Maker
    PROVE  Oracle!Rested(side, M, e) \in Seq(Maker)
  <1> DEFINE B == {k \in 1 .. Len(M) + 1 :
                      k <= Len(M) => Oracle!Worse(side, M[k].px, e.px)}
  <1>1. Len(M) \in Nat
    BY LenProperties
  <1>2. Len(M) + 1 \in B /\ B \in SUBSET Nat /\ B \in SUBSET Int
    BY <1>1
  <1>3. Oracle!Rested(side, M, e) = Oracle!InsertAt(M, Oracle!Min(B), e)
    BY DEF Oracle!Rested
  <1>4. B \in SUBSET (1 .. Len(M) + 1)
    OBVIOUS
  <1> HIDE DEF B
  <1>5. Min(B) \in B /\ \A y \in B : Min(B) <= y
    BY <1>2, LeastElement
  <1>6. Oracle!Min(B) = Min(B)
    BY <1>2, <1>5, LeastIs
  <1>7. Min(B) \in 1 .. Len(M) + 1
    BY <1>4, <1>5
  <1>8. InsertAt(M, Min(B), e) \in Seq(Maker)
    BY <1>7, Insertion
  <1> QED  BY <1>3, <1>6, <1>8 DEF Oracle!InsertAt, InsertAt

LEMMA DroppedTyped ==
    ASSUME NEW M \in Seq(Maker), NEW i
    PROVE  Dropped(M, i) \in Seq(Maker)
  <1> DEFINE B == {n \in 1 .. Len(M) : M[n].id = i}
  <1>1. CASE B = {}
    <2>1. \A n \in 1 .. Len(M) : M[n].id # i
      BY <1>1
    <2> QED  BY <2>1, DroppedNone
  <1>2. CASE B # {}
    <2>1. Len(M) \in Nat /\ B \in SUBSET Nat
      BY LenProperties
    <2>2. PICK n \in B : \A y \in B : n <= y
      <3> HIDE DEF B
      <3> QED  BY <1>2, <2>1, LeastElement
    <2>3. n \in 1 .. Len(M) /\ M[n].id = i /\ M[n] \in Maker
      BY <2>2, ElementOfSeq
    <2>4. PICK x, y \in Seq(Maker) : Encloses(Maker, M, n, x, y)
      BY <2>3, Around
    <2>5. /\ Len(x) = n - 1 /\ \A k \in 1 .. Len(x) : x[k] = M[k]
          /\ M = (x \o <<M[n]>>) \o y
      BY <2>4, Zenon DEF Encloses
    <2>6. ASSUME NEW k \in 1 .. Len(x)
          PROVE  x[k].id # M[n].id
      <3>1. k \in 1 .. Len(M) /\ ~(n <= k) /\ x[k] = M[k]
        BY <2>1, <2>3, <2>5
      <3> QED  BY <2>2, <2>3, <3>1
    <2>7. PICK e \in Maker : e = M[n]
      BY <2>3
    <2>8. Dropped((x \o <<e>>) \o y, e.id) = x \o y
      BY <2>6, <2>7, DroppedIs
    <2>9. x \o y \in Seq(Maker)
      BY ConcatProperties
    <2> QED  BY <2>3, <2>5, <2>7, <2>8, <2>9
  <1> QED  BY <1>1, <1>2

\* A well-formed order leaves a well-formed book.
LEMMA ApplyTyped ==
    ASSUME NEW b \in Books, NEW o, WellFormed(o)
    PROVE  Apply(b, o).book \in Books /\ Apply(b, o).filled \in Int
  <1>1. Apply(b, o) = Oracle!Apply(b, o) /\ b = [s \in Sides |-> b[s]]
        /\ \A s \in Sides : b[s] \in Seq(Maker)
    BY SameBook DEF Books
  <1>2. CASE o.type = "cancel"
    <2>1. Oracle!Apply(b, o) = [book |-> Oracle!Without(b, o.target), filled |-> 0]
      BY <1>2 DEF Oracle!Apply
    <2>2. Oracle!Without(b, o.target) = [s \in Sides |-> Dropped(b[s], o.target)]
      BY WithoutIs
    <2>3. \A s \in Sides : Dropped(b[s], o.target) \in Seq(Maker)
      BY <1>1, DroppedTyped
    <2>4. [s \in Sides |-> Dropped(b[s], o.target)] \in Books
      BY <2>3 DEF Books
    <2> QED  BY <1>1, <2>1, <2>2, <2>4
  <1>3. CASE o.type # "cancel"
    <2>1. /\ o.side \in Sides /\ o.qty \in Nat /\ o.id \in Int
          /\ o.type = "limit" => o.px \in Nat \ {0}
      BY <1>3, SameBook DEF WellFormed
    <2>2. Opposite(o.side) \in Sides
      BY DEF Opposite, Sides
    <2>3. PICK f \in FillState : f = Oracle!Fill(o, b[Opposite(o.side)])
      BY <1>1, <2>1, <2>2, FillTyped
    <2>4. f = [rem |-> f.rem, left |-> f.left] /\ f.rem \in Nat /\ f.left \in Seq(Maker)
      BY DEF FillState
    <2>5. TradesTo(b, o, f.rem, f.left)
      BY <1>1, <2>1, <2>3, <2>4, TradedIs
    <2>6. ASSUME NEW s \in Sides, o.type = "limit", f.rem > 0
          PROVE  Oracle!Rested(s, b[s], [id |-> o.id, px |-> o.px, qty |-> f.rem]) \in Seq(Maker)
      <3>1. [id |-> o.id, px |-> o.px, qty |-> f.rem] \in Maker
        BY <2>1, <2>4, <2>6 DEF Maker
      <3> QED  BY <1>1, <3>1, RestedTyped
    <2>7. Oracle!Traded(b, o).book \in Books
      <3>1. Oracle!Traded(b, o).book
              = [s \in Sides |->
                   IF s = o.side
                   THEN IF o.type = "limit" /\ f.rem > 0
                        THEN Oracle!Rested(s, b[s], [id |-> o.id, px |-> o.px, qty |-> f.rem])
                        ELSE b[s]
                   ELSE f.left]
        BY <2>5, Zenon DEF TradesTo
      <3>2. PICK c : c = [s \in Sides |->
                   IF s = o.side
                   THEN IF o.type = "limit" /\ f.rem > 0
                        THEN Oracle!Rested(s, b[s], [id |-> o.id, px |-> o.px, qty |-> f.rem])
                        ELSE b[s]
                   ELSE f.left]
        OBVIOUS
      <3>3. \A s \in Sides : c[s] \in Seq(Maker)
        BY <1>1, <2>4, <2>6, <3>2
      <3>4. c = [s \in Sides |-> c[s]]
        BY <3>2
      <3> QED  BY <3>1, <3>2, <3>3, <3>4 DEF Books
    <2>8. Oracle!Traded(b, o).filled \in Int
      BY <2>1, <2>4, <2>5 DEF TradesTo
    <2>9. Oracle!Apply(b, o) = Oracle!Traded(b, o)
      BY <1>3 DEF Oracle!Apply
    <2> QED  BY <1>1, <2>7, <2>8, <2>9
  <1> QED  BY <1>2, <1>3

-----------------------------------------------------------------------------
(* The scenario, and the oracle's own book after each of its orders.       *)

Asked == {Scenario[k] : k \in 1 .. 10}

Order(i, c, s, t, p, z, x) == [client |-> c, id |-> i, side |-> s, type |-> t,
                               px |-> p, qty |-> z, target |-> x]

ListsFirst(q) ==
    /\ q[1] = Order(1, 1, "sell", "limit", 10000, 10, 0)
    /\ q[2] = Order(2, 1, "sell", "limit", 10010, 5, 0)
    /\ q[3] = Order(3, 2, "buy", "limit", 9990, 4, 0)
    /\ q[4] = Order(4, 2, "buy", "limit", 10000, 6, 0)
    /\ q[5] = Order(5, 3, "buy", "limit", 10005, 8, 0)

ListsLast(q) ==
    /\ q[6] = Order(6, 3, "buy", "market", 0, 3, 0)
    /\ \E s : q[7] = Order(7, 1, s, "cancel", 0, 0, 2)
    /\ q[8] = Order(8, 4, "buy", "limit", 10010, 5, 0)
    /\ q[9] = Order(9, 4, "sell", "limit", 10005, 2, 0)
    /\ q[10] = Order(10, 5, "sell", "market", 0, 100, 0)

LEMMA ScenarioIs == ListsFirst(Scenario) /\ ListsLast(Scenario)
  <1>1. ListsFirst(Scenario)
    BY DEF Scenario, Order, ListsFirst
  <1>2. \A i, c, s, t, p, z, x, y :
           [Order(i, c, s, t, p, z, x) EXCEPT !.target = y] = Order(i, c, s, t, p, z, y)
    BY DEF Order
  <1>3. /\ Scenario[6] = Order(6, 3, "buy", "market", 0, 3, 0)
        /\ Scenario[8] = Order(8, 4, "buy", "limit", 10010, 5, 0)
        /\ Scenario[9] = Order(9, 4, "sell", "limit", 10005, 2, 0)
        /\ Scenario[10] = Order(10, 5, "sell", "market", 0, 100, 0)
    BY DEF Scenario, Order
  <1>4. Scenario[7] = [Order(7, 1, "", "cancel", 0, 0, 0) EXCEPT !.target = 2]
    BY DEF Scenario, Order
  <1>5. \E s : Scenario[7] = [Order(7, 1, s, "cancel", 0, 0, 0) EXCEPT !.target = 2]
    BY <1>4, Zenon
  <1> QED  BY <1>1, <1>2, <1>3, <1>5 DEF ListsLast

LEMMA ScenarioParts ==
    /\ Scenario \in Seq(Asked) /\ Len(Scenario) = 10
    /\ DOMAIN Scenario = 1 .. 10
    /\ \A k \in 1 .. 10 : /\ Scenario[k].id = k
                          /\ WellFormed(Scenario[k])
    /\ \A j, k \in 1 .. 10 :
         Key(Scenario[j]) = Key(Scenario[k]) => j = k
  <1> DEFINE q == Scenario
  <1>1. Len(q) = 10 /\ DOMAIN q = 1 .. 10
    BY DEF Scenario
  <1>2. q = [k \in 1 .. 10 |-> q[k]]
    BY DEF Scenario
  <1>3. \A k \in 1 .. 10 : k \in {1, 2, 3, 4, 5, 6, 7, 8, 9, 10}
    OBVIOUS
  <1>4. ASSUME NEW k \in 1 .. 10
        PROVE  q[k].id = k
    <2>0. ListsFirst(q) /\ ListsLast(q)
      BY ScenarioIs
    <2> HIDE DEF q
    <2>1. q[1].id = 1 /\ q[2].id = 2 /\ q[3].id = 3 /\ q[4].id = 4 /\ q[5].id = 5
      BY <2>0 DEF ListsFirst, Order
    <2>2. q[6].id = 6 /\ q[7].id = 7 /\ q[8].id = 8 /\ q[9].id = 9 /\ q[10].id = 10
      BY <2>0 DEF ListsLast, Order
    <2> QED  BY <1>3, <2>1, <2>2
  <1>5. ASSUME NEW k \in 1 .. 10
        PROVE  WellFormed(q[k])
    <2>0. ListsFirst(q) /\ ListsLast(q)
      BY ScenarioIs
    <2> HIDE DEF q
    <2>1. \A i, c, p, z \in Nat, s \in {"buy", "sell"} :
             /\ p > 0 /\ z > 0 => WellFormed(Order(i, c, s, "limit", p, z, 0))
             /\ z > 0 => WellFormed(Order(i, c, s, "market", p, z, 0))
      BY SameBook DEF WellFormed, Order, Sides
    <2>2. \A s : WellFormed(Order(7, 1, s, "cancel", 0, 0, 2))
      BY DEF WellFormed, Order
    <2>3. /\ WellFormed(q[1]) /\ WellFormed(q[2]) /\ WellFormed(q[3])
          /\ WellFormed(q[4]) /\ WellFormed(q[5])
      BY <2>0, <2>1 DEF ListsFirst
    <2>4. /\ WellFormed(q[6]) /\ WellFormed(q[7])
          /\ WellFormed(q[8]) /\ WellFormed(q[9]) /\ WellFormed(q[10])
      <3>1. WellFormed(q[7])
        BY <2>0, <2>2 DEF ListsLast
      <3> QED  BY <2>0, <2>1, <3>1, SMTT(60) DEF ListsLast
    <2> QED  BY <1>3, <2>3, <2>4
  <1> HIDE DEF q
  <1>6. q \in Seq(Asked)
    <2>1. \A k \in 1 .. 10 : q[k] \in Asked
      BY DEF Asked, q
    <2> QED  BY <1>2, <2>1
  <1>7. ASSUME NEW j \in 1 .. 10, NEW k \in 1 .. 10, Key(q[j]) = Key(q[k])
        PROVE  j = k
    BY <1>4, <1>7 DEF Key
  <1> QED  BY <1>1, <1>4, <1>5, <1>6, <1>7 DEF q

Tally == [book : Books, fills : Seq(Int)]
Opening == [book |-> [s \in Sides |-> <<>>], fills |-> <<>>]
TurnStep == [z \in Tally \X Asked |-> Turn(z[1], z[2])]

LEMMA TurnTypes ==
    /\ \A t \in Tally, o \in Asked :
         Turn(t, o) \in Tally /\ TurnStep[t, o] = Turn(t, o)
    /\ TurnStep \in [Tally \X Asked -> Tally]
    /\ Opening \in Tally
  <1>1. ASSUME NEW t \in Tally, NEW o \in Asked
        PROVE  Turn(t, o) \in Tally
    <2>1. t.book \in Books /\ t.fills \in Seq(Int) /\ WellFormed(o)
      BY ScenarioParts DEF Tally, Asked
    <2>2. PICK x : x = Apply(t.book, o)
      OBVIOUS
    <2>3. x.book \in Books /\ x.filled \in Int
      BY <2>1, <2>2, ApplyTyped
    <2>4. Turn(t, o) = [book |-> x.book, fills |-> Append(t.fills, x.filled)]
      BY <2>2 DEF Turn
    <2>5. Append(t.fills, x.filled) \in Seq(Int)
      BY <2>1, <2>3, AppendProperties
    <2> QED  BY <2>3, <2>4, <2>5 DEF Tally
  <1>2. \A t \in Tally, o \in Asked : TurnStep[t, o] = Turn(t, o)
    BY DEF TurnStep
  <1>3. TurnStep \in [Tally \X Asked -> Tally]
    <2>1. \A z \in Tally \X Asked : Turn(z[1], z[2]) \in Tally
      BY <1>1
    <2> QED  BY <2>1 DEF TurnStep
  <1>4. Opening \in Tally
    <2>1. [s \in Sides |-> <<>>] \in Books
      BY EmptySeq DEF Books
    <2> QED  BY <2>1, EmptySeq DEF Tally, Opening
  <1> QED  BY <1>1, <1>2, <1>3, <1>4

\* The oracle's loop over the scenario is a run of such turns.
LEMMA ExpectedRun ==
    ASSUME NEW n \in 0 .. 10, NEW M \in Seq(Asked), M = SubSeq(Scenario, 1, n)
    PROVE  Expected(n) = Run(TurnStep, Opening, M)
  <1> DEFINE D == DOMAIN M
             Take(acc, m) == Turn(acc, m)
             base == Opening
             R(g) == [p \in SUBSET D |->
                        IF p = {} THEN base ELSE Take(g[p \ {Max(p)}], M[Max(p)])]
             sum == CHOOSE g : g = R(g)
  <1>1. Len(M) \in Nat /\ D = 1 .. Len(M) /\ \A k \in D : M[k] \in Asked
    BY LenProperties, ElementOfSeq
  <1>2. Expected(n) = sum[D]
    <2> DEFINE G(b, q) == FoldLeft(Turn, b, q)
               a == [book |-> EmptyBook, fills |-> <<>>]
    <2>1. Expected(n) = G(a, SubSeq(Scenario, 1, n))
      BY DEF Expected
    <2>2. a = Opening
      BY SameBook DEF Opening
    <2> HIDE DEF G, a
    <2>3. Expected(n) = G(Opening, M)
      BY <2>1, <2>2
    <2>4. G(Opening, M) = sum[D]
      BY DEF G, FoldLeft, MapThenFoldSet, Max
    <2> QED  BY <2>3, <2>4
  <1>3. base \in Tally /\ TurnStep \in [Tally \X Asked -> Tally]
    BY TurnTypes
  <1>4. ASSUME NEW s \in Tally, NEW m \in Asked
        PROVE  Take(s, m) = TurnStep[s, m]
    BY TurnTypes
  <1> HIDE DEF base, Take
  <1>5. PICK h : Gathered(Tally, TurnStep, base, M, h)
    BY <1>3, GathersExist, Zenon
  <1>6. /\ h \in [SUBSET D -> Tally]
        /\ Gathers(TurnStep, base, M, h) /\ h[D] = Run(TurnStep, base, M)
    BY <1>5 DEF Gathered
  <1>7. \A p \in SUBSET D : p # {} => Max(p) \in p
    <2>1. ASSUME NEW p \in SUBSET D, p # {}
          PROVE  Max(p) \in p
      <3>1. p \in SUBSET (0 .. Len(M))
        BY <1>1
      <3> QED  BY <1>1, <2>1, <3>1, GreatestElement
    <2> QED  BY <2>1
  <1>8. \A p \in SUBSET D :
           h[p] = IF p = {} THEN base ELSE Take(h[p \ {Max(p)}], M[Max(p)])
    <2>1. ASSUME NEW p \in SUBSET D, p # {}
          PROVE  h[p] = Take(h[p \ {Max(p)}], M[Max(p)])
      <3>1. PICK k : k = Max(p)
        OBVIOUS
      <3>2. k \in D /\ M[k] \in Asked /\ p \ {k} \in SUBSET D
        BY <1>1, <1>7, <2>1, <3>1
      <3>3. h[p] = TurnStep[h[p \ {k}], M[k]]
        BY <1>6, <2>1, <3>1 DEF Gathers
      <3>4. h[p \ {k}] \in Tally
        BY <1>6, <3>2
      <3> QED  BY <1>4, <3>1, <3>2, <3>3, <3>4
    <2>2. h[{}] = base
      <3>1. {} \in SUBSET D
        OBVIOUS
      <3> QED  BY <1>6, <3>1 DEF Gathers
    <2> QED  BY <2>1, <2>2
  <1>9. sum = R(sum)
    <2>1. h = R(h)
      <3>1. h = [p \in SUBSET D |-> h[p]]
        BY <1>6
      <3> QED  BY <1>8, <3>1, Zenon
    <2> HIDE DEF R
    <2> QED  BY <2>1
  <1> HIDE DEF sum
  <1>10. \A p \in SUBSET D :
            sum[p] = IF p = {} THEN base ELSE Take(sum[p \ {Max(p)}], M[Max(p)])
    BY <1>9
  <1> HIDE DEF R
  <1>11. sum[D] = h[D]
    <2>1. sum[{}] = h[{}]
      <3>1. {} \in SUBSET D
        OBVIOUS
      <3> QED  BY <1>8, <1>10, <3>1
    <2>2. \A p \in SUBSET D : p # {} /\ sum[p \ {Max(p)}] = h[p \ {Max(p)}] => sum[p] = h[p]
      BY <1>8, <1>10
    <2> QED  BY <2>1, <2>2, GathersAgree
  <1> QED  BY <1>2, <1>6, <1>11 DEF base

\* The oracle's book, order by order.
ExpectedSteps ==
    /\ Expected(0) = Opening
    /\ \A n \in 1 .. 10 :
         Expected(n) = Turn(Expected(n - 1), Scenario[n])
    /\ \A n \in 0 .. 10 : Expected(n) \in Tally

LEMMA ExpectedParts == ExpectedSteps
  <1> DEFINE q == Scenario
  <1>1. q \in Seq(Asked) /\ Len(q) = 10 /\ \A k \in 1 .. 10 : q[k] \in Asked
    BY ScenarioParts, ElementOfSeq
  <1> HIDE DEF q
  <1>2. PICK f : Stepped(Tally, TurnStep, Opening, q, f)
    BY <1>1, TurnTypes, StepsExist, Zenon
  <1>3. f \in [0 .. 10 -> Tally] /\ Steps(TurnStep, Opening, q, f)
    BY <1>1, <1>2 DEF Stepped
  <1>4. ASSUME NEW n \in 0 .. 10
        PROVE  Expected(n) = f[n]
    <2>1. PICK M : M = SubSeq(q, 1, n)
      OBVIOUS
    <2>2. M \in Seq(Asked) /\ Len(M) = n /\ \A k \in 1 .. n : M[k] = q[k]
      BY <1>1, <2>1, SubSeqProperties
    <2>3. Steps(TurnStep, Opening, M, f)
      <3>1. \A k \in 1 .. n : k \in 1 .. Len(q)
        BY <1>1
      <3> QED  BY <1>3, <2>2, <3>1 DEF Steps
    <2>4. Run(TurnStep, Opening, M) = f[n]
      BY <2>2, <2>3, RunIs
    <2> QED  BY <2>1, <2>2, <2>4, ExpectedRun DEF q
  <1>5. ASSUME NEW n \in 1 .. 10
        PROVE  f[n] = Turn(f[n - 1], q[n])
    <2>1. n - 1 \in 0 .. 10 /\ n \in 1 .. Len(q)
      BY <1>1
    <2>2. f[n] = TurnStep[f[n - 1], q[n]] /\ f[n - 1] \in Tally /\ q[n] \in Asked
      BY <1>1, <1>3, <2>1 DEF Steps
    <2> QED  BY <2>2, TurnTypes
  <1>6. \A n \in 1 .. 10 : n - 1 \in 0 .. 10 /\ n \in 0 .. 10
    OBVIOUS
  <1>7. f[0] = Opening /\ 0 \in 0 .. 10
    <2>1. f[0] = Opening
      BY <1>3, Zenon DEF Steps
    <2> QED  BY <2>1
  <1> QED  BY <1>3, <1>4, <1>5, <1>6, <1>7 DEF ExpectedSteps, q

\* The n-th fill is that of the book after the first n - 1 orders.
FillsExpected ==
    \A n \in 1 .. 10 :
      ExpectedFills[n]
        = Apply(Expected(n - 1).book, Scenario[n]).filled

LEMMA FillsAre == FillsExpected
  <1> DEFINE F(n) == Expected(n).fills
             A(n) == Apply(Expected(n - 1).book, Scenario[n]).filled
             Good(n) == Len(F(n)) = n /\ \A k \in 1 .. n : F(n)[k] = A(k)
             B == {n \in 0 .. 10 : ~Good(n)}
  <1>1. /\ F(0) = <<>>
        /\ \A n \in 1 .. 10 : F(n) = Append(F(n - 1), A(n)) /\ F(n - 1) \in Seq(Int)
    <2>1. ASSUME NEW n \in 1 .. 10
          PROVE  F(n) = Append(F(n - 1), A(n)) /\ F(n - 1) \in Seq(Int)
      <3>1. n - 1 \in 0 .. 10
        OBVIOUS
      <3>2. /\ Expected(n) = Turn(Expected(n - 1), Scenario[n])
            /\ Expected(n - 1) \in Tally
        BY <3>1, ExpectedParts, Zenon DEF ExpectedSteps
      <3> QED  BY <3>2 DEF Turn, Tally
    <2>2. F(0) = <<>>
      BY ExpectedParts DEF ExpectedSteps, Opening
    <2> QED  BY <2>1, <2>2
  <1> HIDE DEF F, A
  <1>2. ASSUME B # {}
        PROVE  FALSE
    <2>1. PICK m \in B : \A y \in B : m <= y
      <3>1. B \in SUBSET Nat
        OBVIOUS
      <3> HIDE DEF B
      <3> QED  BY <1>2, <3>1, LeastElement
    <2>2. m \in 0 .. 10 /\ ~Good(m)
      OBVIOUS
    <2>3. Good(0)
      BY <1>1
    <2>4. m # 0
      <3> HIDE DEF Good
      <3> QED  BY <2>2, <2>3
    <2>5. m \in 1 .. 10 /\ m - 1 \in 0 .. 10 /\ ~(m <= m - 1)
      BY <2>2, <2>4
    <2>6. Good(m - 1)
      <3> HIDE DEF Good
      <3> QED  BY <2>1, <2>5
    <2>7. F(m) = Append(F(m - 1), A(m)) /\ F(m - 1) \in Seq(Int)
      BY <1>1, <2>5
    <2>8. PICK p, v, w : p = F(m - 1) /\ w = F(m) /\ v = A(m)
      OBVIOUS
    <2>9. Len(w) = Len(p) + 1 /\ (\A k \in 1 .. Len(p) : w[k] = p[k]) /\ w[Len(p) + 1] = v
      BY <2>7, <2>8
    <2>10. Len(p) = m - 1 /\ \A k \in 1 .. m - 1 : p[k] = A(k)
      BY <2>6, <2>8
    <2>11. \A k \in 1 .. m : k \in 1 .. m - 1 \/ k = m
      BY <2>5
    <2>12. Len(w) = m /\ w[m] = v
      BY <2>5, <2>9, <2>10
    <2>13. \A k \in 1 .. m : w[k] = A(k)
      BY <2>8, <2>9, <2>10, <2>11, <2>12
    <2> QED  BY <2>2, <2>8, <2>12, <2>13
  <1>3. \A n \in 1 .. 10 : F(10)[n] = A(n)
    <2>1. 10 \in 0 .. 10
      OBVIOUS
    <2>2. Good(10)
      <3> HIDE DEF Good
      <3> QED  BY <1>2, <2>1
    <2> QED  BY <2>2
  <1>4. ExpectedFills = F(10)
    BY ScenarioParts DEF ExpectedFills, F
  <1> QED  BY <1>3, <1>4 DEF FillsExpected, A

-----------------------------------------------------------------------------
(* The oracle's loop.                                                      *)

Grader == OracleSender

CaseSet == [expected : {ExpectedFills[k] : k \in 1 .. 10},
            reachable : BOOLEAN, pass : BOOLEAN]

\* What a step does to the oracle: nothing, it sends an order, it closes the
\* case of one, or it reports.
Stays == sender'[Grader] = sender[Grader] /\ oracle'.cases = oracle.cases

Sends ==
    /\ sender[Grader].pc = "idle" /\ sender[Grader].sent + 1 \in 1 .. 10
    /\ sender'[Grader] = [pc |-> "wait", sent |-> sender[Grader].sent + 1]
    /\ oracle'.cases = oracle.cases

Closes(f, ok) ==
    /\ oracle'.cases
         = Append(oracle.cases, Case(Len(oracle.cases) + 1, f, ok))
    /\ ok /\ style = "deaf" => f = 0
    /\ sender'[Grader].pc = "idle"
    /\ \/ /\ sender[Grader].pc = "idle" /\ sender[Grader].sent + 1 \in 1 .. 10 /\ ~ok
          /\ sender'[Grader].sent = sender[Grader].sent + 1
       \/ sender[Grader].pc = "wait" /\ sender'[Grader].sent = sender[Grader].sent

Reports ==
    /\ sender[Grader].pc = "idle" /\ sender[Grader].sent = 10
    /\ sender'[Grader].pc = "done" /\ sender'[Grader].sent = sender[Grader].sent
    /\ oracle'.cases = oracle.cases

\* Bounds a sender's orders stay in, and what a step does to a sender.
InBounds(n) == n \in 1 .. 10 \/ n <= PerBot \/ n \in 1 .. Lines \/ n - 1 < Lines

Paces(t) ==
    /\ sender'[t] = [pc |-> sender'[t].pc, sent |-> sender'[t].sent]
    /\ sender'[t].pc \in {"idle", "wait", "done", sender[t].pc}
    /\ sender'[t].sent \in Nat
    /\ \/ sender'[t].sent = sender[t].sent
       \/ sender'[t].sent = sender[t].sent + 1 /\ InBounds(sender'[t].sent)

Turns ==
    /\ style' = style
    /\ \A t \in Senders : Paces(t)
    /\ Stays \/ Sends \/ (\E f : \E ok \in BOOLEAN : Closes(f, ok)) \/ Reports

\* The shape of the variables that LoopInv is about.
Shaped ==
    /\ \A r \in inflight : r = [from |-> r.from, nth |-> r.nth, order |-> r.order]
                           /\ r.from \in Senders
    /\ DOMAIN sender = Senders
    /\ \A s \in Senders :
         /\ sender[s] = [pc |-> sender[s].pc, sent |-> sender[s].sent]
         /\ sender[s].sent \in Nat
    /\ oracle = [cases |-> oracle.cases, expired |-> oracle.expired]
    /\ engine = [up |-> engine.up, book |-> engine.book, seen |-> engine.seen]

LEMMA LoopParts ==
    /\ Grader \in Senders /\ Grader[2] # ReplayClient
    /\ LoopInv =>
         /\ Shaped /\ oracle.cases \in Seq(CaseSet)
         /\ Len(oracle.cases) \in 0 .. 10
         /\ sender[Grader].pc \in {"idle", "wait", "done"}
         /\ sender[Grader].pc # "wait" => sender[Grader].sent = Len(oracle.cases)
         /\ sender[Grader].pc = "wait" =>
              /\ Len(oracle.cases) + 1 \in 1 .. 10
              /\ sender[Grader].sent = Len(oracle.cases) + 1
         /\ sender[Grader].pc = "done" => Len(oracle.cases) = 10
         /\ \A k \in 1 .. Len(oracle.cases) :
              /\ oracle.cases[k].expected = ExpectedFills[k]
              /\ oracle.cases[k].pass => oracle.cases[k].reachable
              /\ oracle.cases[k].pass /\ style = "deaf" => ExpectedFills[k] = 0
  <1>1. Grader \in Senders /\ Grader[2] # ReplayClient
    BY DEF Grader, OracleSender, Senders, ReplayClient
  <1>2. ASSUME LoopInv
        PROVE  /\ Shaped /\ oracle.cases \in Seq(CaseSet)
               /\ Len(oracle.cases) <= 10
    BY <1>2, ScenarioParts DEF LoopInv, Cases, Shaped, CaseSet
  <1>3. ASSUME LoopInv
        PROVE  Len(oracle.cases) \in 0 .. 10
    <2>1. oracle.cases \in Seq(CaseSet) /\ Len(oracle.cases) <= 10
      BY <1>2, <1>3
    <2>2. PICK k : k = Len(oracle.cases)
      OBVIOUS
    <2>3. k \in Nat /\ k <= 10
      BY <2>1, <2>2, LenProperties
    <2>4. k \in 0 .. 10
      BY <2>3
    <2> QED  BY <2>2, <2>4
  <1>4. ASSUME LoopInv
        PROVE  /\ sender[Grader].pc \in {"idle", "wait", "done"}
               /\ sender[Grader].pc # "wait" => sender[Grader].sent = Len(oracle.cases)
               /\ sender[Grader].pc = "wait" =>
                    /\ Len(oracle.cases) + 1 \in 1 .. 10
                    /\ sender[Grader].sent = Len(oracle.cases) + 1
               /\ sender[Grader].pc = "done" => Len(oracle.cases) = 10
    BY <1>3, <1>4, ScenarioParts DEF LoopInv, Cases, Grader
  <1>5. ASSUME LoopInv
        PROVE  \A k \in 1 .. Len(oracle.cases) :
                 /\ oracle.cases[k].expected = ExpectedFills[k]
                 /\ oracle.cases[k].pass => oracle.cases[k].reachable
                 /\ oracle.cases[k].pass /\ style = "deaf" => ExpectedFills[k] = 0
    BY <1>5 DEF LoopInv, Cases
  <1> QED  BY <1>1, <1>2, <1>3, <1>4, <1>5

\* One sender goes on, the others stay where they are.
LEMMA SenderSet ==
    ASSUME Shaped, NEW s \in Senders, NEW o,
           NEW p \in {"idle", "wait", "done", sender[s].pc},
           NEW n \in Nat, n = sender[s].sent \/ (n = sender[s].sent + 1 /\ InBounds(n)),
           sender' = [sender EXCEPT ![s] = [pc |-> p, sent |-> n]]
    PROVE  /\ DOMAIN sender' = Senders
           /\ \A t \in Senders : Paces(t)
           /\ sender'[s] = [pc |-> p, sent |-> n]
           /\ \A t \in Senders : t # s => sender'[t] = sender[t]
  <1> DEFINE v == [pc |-> p, sent |-> n]
  <1>1. v = [pc |-> v.pc, sent |-> v.sent] /\ v.pc = p /\ v.sent = n
    OBVIOUS
  <1> HIDE DEF v
  <1>2. /\ DOMAIN sender' = Senders /\ sender'[s] = v
        /\ \A t \in Senders : t # s => sender'[t] = sender[t]
    BY DEF Shaped, v
  <1>3. ASSUME NEW t \in Senders
        PROVE  Paces(t)
    <2>1. CASE t = s
      BY <1>1, <1>2, <2>1 DEF Paces
    <2>2. CASE t # s
      <3>1. sender'[t] = sender[t]
        BY <1>2, <2>2
      <3>2. sender[t] = [pc |-> sender[t].pc, sent |-> sender[t].sent]
            /\ sender[t].sent \in Nat
        BY DEF Shaped
      <3> QED  BY <3>1, <3>2 DEF Paces
    <2> QED  BY <2>1, <2>2
  <1> QED  BY <1>2, <1>3 DEF v

LEMMA StandsStill ==
    ASSUME Shaped, sender' = sender
    PROVE  \A t \in Senders : Paces(t)
  BY DEF Shaped, Paces

\* The result of an order goes to the oracle's cases if it was the oracle's.
LEMMA JudgedParts ==
    ASSUME Shaped, NEW s \in Senders, NEW f, NEW ok, Judged(s, f, ok)
    PROVE  /\ oracle' = [cases |-> oracle'.cases, expired |-> oracle'.expired]
           /\ oracle'.cases
                = IF s = Grader
                  THEN Append(oracle.cases, Case(Len(oracle.cases) + 1, f, ok))
                  ELSE oracle.cases
  <1> PICK c : c = Append(oracle.cases, Case(Len(oracle.cases) + 1, f, ok))
    OBVIOUS
  <1>1. oracle = [cases |-> oracle.cases, expired |-> oracle.expired]
    BY DEF Shaped
  <1>2. oracle' = IF s = Grader THEN [oracle EXCEPT !.cases = c] ELSE oracle
    BY DEF Judged, Grader
  <1> QED  BY <1>1, <1>2

\* What the oracle may send is the next order of the scenario.
LEMMA GraderOffers ==
    ASSUME NEW o \in Offers(Grader)
    PROVE  sender[Grader].sent + 1 \in 1 .. 10 /\ o = Scenario[sender[Grader].sent + 1]
  BY ScenarioParts DEF Offers, Grader

LEMMA OffersInBounds ==
    ASSUME NEW s, NEW o \in Offers(s)
    PROVE  InBounds(sender[s].sent + 1)
  BY ScenarioParts DEF Offers, InBounds

LEMMA SendShapes ==
    ASSUME Shaped, NEW s \in Senders, NEW o, Send(s, o)
    PROVE  /\ Shaped' /\ Turns
           /\ s # Grader => Stays
           /\ s = Grader => Sends
  <1>0. sender[s].sent + 1 \in Nat /\ InBounds(sender[s].sent + 1)
    BY OffersInBounds DEF Shaped, Send
  <1>1. sender' = [sender EXCEPT ![s] = [pc |-> "wait", sent |-> sender[s].sent + 1]]
    BY DEF Send
  <1>2. /\ sender[s].pc = "idle" /\ o \in Offers(s) /\ oracle' = oracle /\ style' = style
        /\ engine' = engine /\ inflight' = inflight \cup {[from |-> s, nth |-> sender[s].sent + 1, order |-> o]}
    BY DEF Send, NextId
  <1>3. /\ DOMAIN sender' = Senders
        /\ \A t \in Senders : Paces(t)
        /\ sender'[s] = [pc |-> "wait", sent |-> sender[s].sent + 1]
        /\ \A t \in Senders : t # s => sender'[t] = sender[t]
    BY <1>0, <1>1, SenderSet
  <1>4. \A r \in inflight' : r = [from |-> r.from, nth |-> r.nth, order |-> r.order]
                             /\ r.from \in Senders
    <2>1. PICK e : e = [from |-> s, nth |-> sender[s].sent + 1, order |-> o]
      OBVIOUS
    <2>2. e = [from |-> e.from, nth |-> e.nth, order |-> e.order] /\ e.from \in Senders
      BY <2>1
    <2> QED  BY <1>2, <2>1, <2>2 DEF Shaped
  <1>5. Shaped'
    BY <1>2, <1>3, <1>4 DEF Shaped, Paces
  <1>6. s # Grader => Stays
    BY <1>2, <1>3, LoopParts DEF Stays
  <1>7. s = Grader => Sends
    BY <1>2, <1>3, GraderOffers DEF Sends
  <1> QED  BY <1>2, <1>3, <1>5, <1>6, <1>7 DEF Turns

LEMMA UnreachableShapes ==
    ASSUME Shaped, NEW s \in Senders, NEW o, Unreachable(s, o)
    PROVE  /\ Shaped' /\ Turns
           /\ s # Grader => Stays
           /\ s = Grader => Closes(0, FALSE)
  <1>0. sender[s].sent + 1 \in Nat /\ InBounds(sender[s].sent + 1)
    BY OffersInBounds DEF Shaped, Unreachable
  <1>1. /\ sender' = [sender EXCEPT ![s].sent = @ + 1] /\ Judged(s, 0, FALSE)
        /\ sender[s].pc = "idle" /\ o \in Offers(s) /\ style' = style
        /\ inflight' = inflight /\ engine' = engine
    BY DEF Unreachable
  <1>2. sender[s] = [pc |-> sender[s].pc, sent |-> sender[s].sent]
    BY DEF Shaped
  <1>3. [sender[s] EXCEPT !.sent = @ + 1]
          = [pc |-> sender[s].pc, sent |-> sender[s].sent + 1]
    BY <1>2
  <1>4. sender' = [sender EXCEPT ![s] = [pc |-> sender[s].pc, sent |-> sender[s].sent + 1]]
    BY <1>1, <1>3
  <1>5. /\ DOMAIN sender' = Senders
        /\ \A t \in Senders : Paces(t)
        /\ sender'[s] = [pc |-> sender[s].pc, sent |-> sender[s].sent + 1]
        /\ \A t \in Senders : t # s => sender'[t] = sender[t]
    BY <1>0, <1>4, SenderSet
  <1>6. /\ oracle' = [cases |-> oracle'.cases, expired |-> oracle'.expired]
        /\ oracle'.cases
             = IF s = Grader
               THEN Append(oracle.cases, Case(Len(oracle.cases) + 1, 0, FALSE))
               ELSE oracle.cases
    BY <1>1, JudgedParts
  <1>7. Shaped'
    BY <1>1, <1>5, <1>6 DEF Shaped, Paces
  <1>8. s # Grader => Stays
    BY <1>5, <1>6, LoopParts DEF Stays
  <1>9. s = Grader => Closes(0, FALSE)
    BY <1>1, <1>5, <1>6, GraderOffers DEF Closes
  <1> QED  BY <1>1, <1>5, <1>7, <1>8, <1>9 DEF Turns

LEMMA GiveUpShapes ==
    ASSUME Shaped, NEW s \in Senders, GiveUp(s)
    PROVE  /\ Shaped' /\ Turns
           /\ s # Grader => Stays
           /\ s = Grader => Closes(0, FALSE)
  <1>1. /\ sender' = [sender EXCEPT ![s] = [pc |-> "idle", sent |-> sender[s].sent]]
        /\ Judged(s, 0, FALSE) /\ sender[s].pc = "wait" /\ style' = style
        /\ inflight' = inflight /\ engine' = engine
    BY DEF GiveUp, Idles
  <1>2. /\ DOMAIN sender' = Senders
        /\ \A t \in Senders : Paces(t)
        /\ sender'[s] = [pc |-> "idle", sent |-> sender[s].sent]
        /\ \A t \in Senders : t # s => sender'[t] = sender[t]
    BY <1>1, SenderSet DEF Shaped
  <1>3. /\ oracle' = [cases |-> oracle'.cases, expired |-> oracle'.expired]
        /\ oracle'.cases
             = IF s = Grader
               THEN Append(oracle.cases, Case(Len(oracle.cases) + 1, 0, FALSE))
               ELSE oracle.cases
    BY <1>1, JudgedParts
  <1>4. Shaped'
    BY <1>1, <1>2, <1>3 DEF Shaped, Paces
  <1>5. s # Grader => Stays
    BY <1>2, <1>3, LoopParts DEF Stays
  <1>6. s = Grader => Closes(0, FALSE)
    BY <1>1, <1>2, <1>3 DEF Closes
  <1> QED  BY <1>1, <1>2, <1>4, <1>5, <1>6 DEF Turns

\* The answer to an order, and what the engine's book is after it.
Answer(r) ==
    IF SeenBefore(r.order) THEN [book |-> engine.book, filled |-> 0]
    ELSE Outcome(engine.book, r.order)

Waits(r) == sender[r.from].pc = "wait" /\ sender[r.from].sent = r.nth

LEMMA ExecuteParts ==
    ASSUME NEW r, Execute(r)
    PROVE  /\ r \in inflight /\ inflight' = inflight \ {r} /\ style' = style
           /\ engine' = [engine EXCEPT !.book = Answer(r).book,
                           !.seen = IF r.order.type = "cancel" THEN @
                                    ELSE @ \cup {Key(r.order)}]
           /\ refused' = IF SeenBefore(r.order)
                         THEN refused \cup {<<r.from, r.order.client, r.order.id>>}
                         ELSE refused
           /\ foreign' = (foreign \/ (r.from # Grader /\ ~Validated))
           /\ trace' = IF foreign' THEN <<>>
                       ELSE IF r.from = Grader THEN Append(trace, r.order.id) ELSE trace
           /\ Waits(r) =>
                /\ sender' = [sender EXCEPT ![r.from] =
                                [pc |-> "idle", sent |-> sender[r.from].sent]]
                /\ Judged(r.from, Answer(r).filled, TRUE)
           /\ ~Waits(r) => UNCHANGED <<sender, oracle>>
  BY DEF Execute, Idles, Answer, Waits, Grader

LEMMA EngineParts ==
    ASSUME Shaped, NEW r, Execute(r)
    PROVE  /\ engine' = [up |-> engine'.up, book |-> engine'.book, seen |-> engine'.seen]
           /\ engine'.book = Answer(r).book
           /\ r.order.type = "cancel" => engine'.seen = engine.seen
           /\ r.order.type # "cancel" =>
                engine'.seen = engine.seen \cup {Key(r.order)}
  <1> PICK x, k : x = Answer(r).book /\ k = {Key(r.order)}
    OBVIOUS
  <1>1. engine' = [engine EXCEPT !.book = x,
                     !.seen = IF r.order.type = "cancel" THEN @ ELSE @ \cup k]
    BY ExecuteParts
  <1>2. engine = [up |-> engine.up, book |-> engine.book, seen |-> engine.seen]
    BY DEF Shaped
  <1> QED  BY <1>1, <1>2

LEMMA ExecuteShapes ==
    ASSUME Shaped, NEW r, Execute(r)
    PROVE  /\ Shaped' /\ Turns
           /\ r.from # Grader \/ ~Waits(r) => Stays
           /\ r.from = Grader /\ Waits(r) => Closes(Answer(r).filled, TRUE)
  <1>1. /\ r.from \in Senders /\ inflight' \subseteq inflight /\ style' = style
        /\ engine' = [up |-> engine'.up, book |-> engine'.book, seen |-> engine'.seen]
    BY ExecuteParts, EngineParts DEF Shaped
  <1>2. CASE ~Waits(r)
    <2>1. sender' = sender /\ oracle' = oracle
      BY <1>2, ExecuteParts
    <2> QED  BY <1>1, <1>2, <2>1, StandsStill DEF Shaped, Turns, Stays
  <1>3. CASE Waits(r)
    <2> PICK s \in Senders : s = r.from
      BY <1>1
    <2> PICK f : f = Answer(r).filled
      OBVIOUS
    <2>1. /\ sender' = [sender EXCEPT ![s] =
                          [pc |-> "idle", sent |-> sender[s].sent]]
          /\ Judged(s, f, TRUE) /\ sender[s].pc = "wait"
      BY <1>3, ExecuteParts DEF Waits
    <2>2. /\ DOMAIN sender' = Senders
          /\ \A t \in Senders : Paces(t)
          /\ sender'[s] = [pc |-> "idle", sent |-> sender[s].sent]
          /\ \A t \in Senders : t # s => sender'[t] = sender[t]
      BY <2>1, SenderSet DEF Shaped
    <2>3. /\ oracle' = [cases |-> oracle'.cases, expired |-> oracle'.expired]
          /\ oracle'.cases
               = IF s = Grader
                 THEN Append(oracle.cases, Case(Len(oracle.cases) + 1, f, TRUE))
                 ELSE oracle.cases
      BY <2>1, JudgedParts
    <2>4. Shaped'
      BY <1>1, <2>2, <2>3 DEF Shaped, Paces
    <2>5. s # Grader => Stays
      BY <2>2, <2>3, LoopParts DEF Stays
    <2>6. style = "deaf" => f = 0
      <3>1. style = "deaf" =>
              Outcome(engine.book, r.order) = [book |-> engine.book, filled |-> 0]
        BY DEF Outcome
      <3> QED  BY <3>1 DEF Answer
    <2>7. s = Grader => Closes(f, TRUE)
      BY <2>1, <2>2, <2>3, <2>6 DEF Closes
    <2> QED  BY <1>1, <1>3, <2>2, <2>4, <2>5, <2>7 DEF Turns
  <1> QED  BY <1>2, <1>3

\* Every step of the system is one of the oracle's loop or nothing to it.
LEMMA NextShapes ==
    ASSUME Shaped, VNext \/ UNCHANGED vvars
    PROVE  Shaped' /\ Turns
  <1>1. ASSUME NEW r \in Runs, NEW p \in Profiles, StartRun(r, p)
        PROVE  Shaped' /\ Turns
    BY <1>1, StandsStill DEF StartRun, Shaped, Turns, Stays
  <1>2. ASSUME NEW r \in Runs, EndRun(r)
        PROVE  Shaped' /\ Turns
    BY <1>2, StandsStill DEF EndRun, Shaped, Turns, Stays
  <1>3. ASSUME NEW s \in Senders, Attempt(s)
        PROVE  Shaped' /\ Turns
    BY <1>3, SendShapes, UnreachableShapes DEF Attempt
  <1>4. ASSUME NEW s \in Senders, SkipLine(s)
        PROVE  Shaped' /\ Turns
    <2>1. /\ sender' = [sender EXCEPT ![s].sent = @ + 1] /\ oracle' = oracle
          /\ style' = style /\ inflight' = inflight /\ engine' = engine /\ s # Grader
      BY <1>4, LoopParts DEF SkipLine
    <2>2. sender[s] = [pc |-> sender[s].pc, sent |-> sender[s].sent]
      BY DEF Shaped
    <2>3. [sender[s] EXCEPT !.sent = @ + 1]
            = [pc |-> sender[s].pc, sent |-> sender[s].sent + 1]
      BY <2>2
    <2>4. sender' = [sender EXCEPT ![s] = [pc |-> sender[s].pc, sent |-> sender[s].sent + 1]]
      BY <2>1, <2>3
    <2>5. /\ DOMAIN sender' = Senders
          /\ \A t \in Senders : Paces(t)
          /\ \A t \in Senders : t # s => sender'[t] = sender[t]
      <3>1. sender[s].sent + 1 \in Nat /\ InBounds(sender[s].sent + 1)
        <4>1. sender[s].sent \in Nat
          BY DEF Shaped
        <4>2. sender[s].sent < Lines
          BY <1>4 DEF SkipLine
        <4> QED  BY <4>1, <4>2, SMTT(60) DEF InBounds
      <3> QED  BY <2>4, <3>1, SenderSet
    <2> QED  BY <2>1, <2>5, LoopParts DEF Shaped, Paces, Turns, Stays
  <1>5. ASSUME NEW s \in Senders, GiveUp(s)
        PROVE  Shaped' /\ Turns
    BY <1>5, GiveUpShapes
  <1>6. ASSUME NEW r, Execute(r)
        PROVE  Shaped' /\ Turns
    BY <1>6, ExecuteShapes
  <1>7. ASSUME StopEngine
        PROVE  Shaped' /\ Turns
    <2>1. /\ engine' = [engine EXCEPT !.up = FALSE] /\ inflight' = {}
          /\ oracle' = oracle /\ sender' = sender /\ style' = style
      BY <1>7 DEF StopEngine
    <2>2. engine' = [up |-> engine'.up, book |-> engine'.book, seen |-> engine'.seen]
      BY <2>1 DEF Shaped
    <2> QED  BY <2>1, <2>2, StandsStill DEF Shaped, Turns, Stays
  <1>8. ASSUME Expire
        PROVE  Shaped' /\ Turns
    <2>1. /\ oracle' = [oracle EXCEPT !.expired = TRUE] /\ sender' = sender
          /\ style' = style /\ inflight' = inflight /\ engine' = engine
      BY <1>8 DEF Expire
    <2>2. oracle' = [cases |-> oracle'.cases, expired |-> oracle'.expired]
          /\ oracle'.cases = oracle.cases
      BY <2>1 DEF Shaped
    <2> QED  BY <2>1, <2>2, StandsStill DEF Shaped, Turns, Stays
  <1>9. ASSUME Report
        PROVE  Shaped' /\ Turns
    <2>1. /\ sender' = [sender EXCEPT ![Grader].pc = "done"] /\ oracle' = oracle
          /\ style' = style /\ inflight' = inflight /\ engine' = engine
          /\ sender[Grader].pc = "idle" /\ sender[Grader].sent = 10
      BY <1>9, ScenarioParts DEF Report, Grader
    <2>2. /\ Grader \in Senders
          /\ sender[Grader] = [pc |-> sender[Grader].pc, sent |-> sender[Grader].sent]
      BY LoopParts DEF Shaped
    <2>3. [sender[Grader] EXCEPT !.pc = "done"]
            = [pc |-> "done", sent |-> sender[Grader].sent]
      BY <2>2
    <2>4. sender' = [sender EXCEPT ![Grader] = [pc |-> "done", sent |-> sender[Grader].sent]]
      BY <2>1, <2>3
    <2>5. /\ DOMAIN sender' = Senders
          /\ \A t \in Senders : Paces(t)
          /\ sender'[Grader] = [pc |-> "done", sent |-> sender[Grader].sent]
      BY <2>2, <2>4, SenderSet DEF Shaped
    <2> QED  BY <2>1, <2>5 DEF Shaped, Paces, Turns, Reports
  <1>10. ASSUME UNCHANGED vvars
         PROVE  Shaped' /\ Turns
    BY <1>10, StandsStill DEF vvars, Shaped, Turns, Stays
  <1> QED  BY <1>1, <1>2, <1>3, <1>4, <1>5, <1>6, <1>7, <1>8, <1>9, <1>10 DEF VNext

LEMMA LoopInvHolds == VSpec => []LoopInv
  <1>1. VInit => LoopInv
    <2> SUFFICES ASSUME VInit
                 PROVE  LoopInv
      OBVIOUS
    <2>1. /\ inflight = {} /\ oracle = [cases |-> <<>>, expired |-> FALSE]
          /\ engine = [up |-> TRUE, book |-> EmptyBook, seen |-> {}]
          /\ sender = [s \in Senders |-> [pc |-> "idle", sent |-> 0]]
      BY DEF VInit
    <2>2. <<>> \in Seq([expected : {ExpectedFills[k] : k \in DOMAIN Scenario},
                        reachable : BOOLEAN, pass : BOOLEAN]) /\ Len(<<>>) = 0
      BY EmptySeq
    <2>3. OracleSender \in Senders
      BY LoopParts DEF Grader
    <2> QED  BY <2>1, <2>2, <2>3, ScenarioParts DEF LoopInv, Cases
  <1>2. LoopInv /\ [VNext]_vvars => LoopInv'
    <2> SUFFICES ASSUME LoopInv, VNext \/ UNCHANGED vvars
                 PROVE  LoopInv'
      OBVIOUS
    <2>1. Shaped' /\ Turns
      BY LoopParts, NextShapes
    <2> DEFINE n == Len(oracle.cases)
               q == oracle.cases
               p == oracle'.cases
               m == Len(oracle'.cases)
               Fine(c, k) == /\ c.expected = ExpectedFills[k]
                             /\ c.pass => c.reachable
                             /\ c.pass /\ style = "deaf" => ExpectedFills[k] = 0
    <2>2. /\ q \in Seq(CaseSet) /\ n \in 0 .. 10
          /\ \A k \in 1 .. n : Fine(q[k], k)
      BY LoopParts
    <2> DEFINE Stands ==
                 /\ p \in Seq(CaseSet) /\ m <= 10
                 /\ \A k \in 1 .. m : Fine(p[k], k)
                 /\ sender'[Grader].pc \in {"idle", "wait", "done"}
                 /\ sender'[Grader].pc = "wait" =>
                      m < 10 /\ sender'[Grader].sent = m + 1
                 /\ sender'[Grader].pc # "wait" => sender'[Grader].sent = m
                 /\ sender'[Grader].pc = "done" => m = 10
    <2>3. ASSUME Stays \/ Sends \/ Reports
          PROVE  Stands
      <3>1. p = q /\ m = n
        BY <2>3 DEF Stays, Sends, Reports
      <3>2. /\ sender[Grader].pc \in {"idle", "wait", "done"}
            /\ sender[Grader].pc # "wait" => sender[Grader].sent = n
            /\ sender[Grader].pc = "wait" =>
                 n + 1 \in 1 .. 10 /\ sender[Grader].sent = n + 1
            /\ sender[Grader].pc = "done" => n = 10
        BY LoopParts
      <3> HIDE DEF Fine, p, q, n, m
      <3>3. /\ p \in Seq(CaseSet) /\ m <= 10 /\ \A k \in 1 .. m : Fine(p[k], k)
        BY <2>2, <3>1
      <3>4. CASE sender'[Grader] = sender[Grader]
        BY <2>2, <3>1, <3>2, <3>3, <3>4
      <3>5. CASE Sends
        <4>1. n + 1 \in 1 .. 10
          BY <3>2, <3>5 DEF Sends
        <4>2. sender'[Grader].pc = "wait" /\ sender'[Grader].sent = n + 1
          BY <3>2, <3>5 DEF Sends
        <4> QED  BY <2>2, <3>1, <3>3, <4>1, <4>2
      <3>6. CASE Reports
        <4>1. sender'[Grader].pc = "done" /\ sender'[Grader].sent = n /\ n = 10
          BY <3>2, <3>6 DEF Reports, n
        <4> QED  BY <3>1, <3>3, <4>1
      <3> QED  BY <2>3, <3>4, <3>5, <3>6 DEF Stays
    <2>4. ASSUME NEW f, NEW ok \in BOOLEAN, Closes(f, ok)
          PROVE  Stands
      <3>1. n + 1 \in 1 .. 10 /\ sender'[Grader].pc = "idle" /\ sender'[Grader].sent = n + 1
        BY <2>2, <2>4, LoopParts DEF Closes
      <3>2. PICK c : c = Case(n + 1, f, ok)
        OBVIOUS
      <3>3. c \in CaseSet /\ Fine(c, n + 1)
        BY <2>4, <3>1, <3>2 DEF Case, CaseSet, Closes
      <3>4. p = Append(q, c)
        BY <2>4, <3>2 DEF Closes
      <3> HIDE DEF Fine, p, q
      <3>5. /\ p \in Seq(CaseSet) /\ Len(p) = Len(q) + 1
            /\ \A k \in 1 .. Len(q) : p[k] = q[k]
            /\ p[Len(q) + 1] = c
        BY <2>2, <3>3, <3>4, AppendProperties
      <3>6. m = n + 1 /\ \A k \in 1 .. m : k \in 1 .. n \/ k = n + 1
        BY <2>2, <3>5 DEF p, q
      <3>7. \A k \in 1 .. m : Fine(p[k], k)
        BY <2>2, <3>3, <3>5, <3>6 DEF q
      <3> QED  BY <3>1, <3>5, <3>6, <3>7
    <2>5. Stands
      <3> HIDE DEF Stands
      <3>1. CASE Stays \/ Sends \/ Reports
        BY <2>3, <3>1
      <3>2. CASE \E f : \E ok \in BOOLEAN : Closes(f, ok)
        <4>1. PICK f : \E ok \in BOOLEAN : Closes(f, ok)
          BY <3>2
        <4>2. PICK ok \in BOOLEAN : Closes(f, ok)
          BY <4>1
        <4> QED  BY <2>4, <4>2
      <3> QED  BY <2>1, <3>1, <3>2 DEF Turns
    <2>6. style' = style
      BY <2>1 DEF Turns
    <2>7. Cases' = p /\ Len(Scenario) = 10 /\ DOMAIN Scenario = 1 .. 10
      BY ScenarioParts DEF Cases
    <2> QED  BY <2>1, <2>5, <2>6, <2>7 DEF LoopInv, Shaped, CaseSet, Grader
  <1> QED  BY <1>1, <1>2, PTL DEF VSpec

-----------------------------------------------------------------------------
(* The scenario executed.                                                  *)

Nil == <<>>
Ahead(e, t) == <<e>> \o t
Lot(i, p, z) == [id |-> i, px |-> p, qty |-> z]
Pair(bids, asks) == [s \in Sides |-> IF s = "buy" THEN bids ELSE asks]
Pxs(M) == {M[n].px : n \in 1 .. Len(M)}
Ids(M) == {M[n].id : n \in 1 .. Len(M)}

LEMMA AheadParts ==
    /\ Nil \in Seq(Maker) /\ Pxs(Nil) = {} /\ Ids(Nil) = {}
    /\ \A i \in Int, p, z \in Nat \ {0} : Lot(i, p, z) \in Maker
    /\ \A e \in Maker, t \in Seq(Maker) :
         /\ Ahead(e, t) \in Seq(Maker)
         /\ Pxs(Ahead(e, t)) = {e.px} \cup Pxs(t)
         /\ Ids(Ahead(e, t)) = {e.id} \cup Ids(t)
  <1>1. Nil \in Seq(Maker) /\ Pxs(Nil) = {} /\ Ids(Nil) = {}
    BY DEF Nil, Pxs, Ids
  <1>2. \A i \in Int, p, z \in Nat \ {0} : Lot(i, p, z) \in Maker
    BY DEF Lot, Maker
  <1>3. ASSUME NEW e \in Maker, NEW t \in Seq(Maker)
        PROVE  /\ Ahead(e, t) \in Seq(Maker)
               /\ Pxs(Ahead(e, t)) = {e.px} \cup Pxs(t)
               /\ Ids(Ahead(e, t)) = {e.id} \cup Ids(t)
    <2>1. PICK x : x = <<e>>
      OBVIOUS
    <2>2. x \in Seq(Maker) /\ Len(x) = 1 /\ x[1] = e
      BY <2>1
    <2>3. /\ x \o t \in Seq(Maker) /\ Len(t) \in Nat /\ Len(x \o t) = 1 + Len(t)
          /\ \A n \in 1 .. Len(x) : (x \o t)[n] = x[n]
          /\ \A n \in 1 .. Len(t) : (x \o t)[Len(x) + n] = t[n]
      <3>1. /\ Len(x \o t) = Len(x) + Len(t)
            /\ \A n \in 1 .. Len(x) : (x \o t)[n] = x[n]
            /\ \A n \in 1 .. Len(t) : (x \o t)[Len(x) + n] = t[n]
        BY <2>2, JoinedAt
      <3>2. x \o t \in Seq(Maker) /\ Len(t) \in Nat
        BY <2>2, ConcatProperties, LenProperties
      <3> QED  BY <2>2, <3>1, <3>2
    <2>4. PICK c : c = x \o t
      OBVIOUS
    <2>5. /\ c[1] = e /\ Len(c) = 1 + Len(t)
          /\ \A n \in 1 .. Len(t) : c[1 + n] = t[n]
      BY <2>2, <2>3, <2>4
    <2>6. \A n \in 1 .. Len(c) : n = 1 \/ (n - 1 \in 1 .. Len(t) /\ c[n] = t[n - 1])
      <3>1. \A n \in 1 .. Len(c) : n # 1 => n - 1 \in 1 .. Len(t) /\ 1 + (n - 1) = n
        BY <2>3, <2>5
      <3> QED  BY <2>5, <3>1
    <2>7. \A n \in 1 .. Len(t) : 1 + n \in 1 .. Len(c)
      BY <2>3, <2>5
    <2>8. 1 \in 1 .. Len(c)
      BY <2>3, <2>5
    <2>9. Pxs(c) = {e.px} \cup Pxs(t)
      BY <2>5, <2>6, <2>7, <2>8 DEF Pxs
    <2>10. Ids(c) = {e.id} \cup Ids(t)
      BY <2>5, <2>6, <2>7, <2>8 DEF Ids
    <2> QED  BY <2>1, <2>3, <2>4, <2>9, <2>10 DEF Ahead
  <1> QED  BY <1>1, <1>2, <1>3

\* The price of the order reaches p.
Reached(u, p) ==
    u.type = "market" \/ (u.side = "buy" /\ p <= u.px) \/ (u.side = "sell" /\ p >= u.px)

Reach(u) == {m \in Maker : Oracle!WithinLimit(u, m)}

Trader(u) ==
    /\ u.type \in {"limit", "market"} /\ u.side \in {"buy", "sell"}
    /\ u.id \in Int /\ u.px \in Nat /\ u.qty \in Nat \ {0}
    /\ u.type = "limit" => u.px > 0

\* The order u, r of it left, meets the lot of z at p with t behind.
Faces(u, r, i, p, z, t) ==
    /\ Trader(u) /\ r \in Nat /\ i \in Int /\ p \in Nat \ {0} /\ z \in Nat \ {0}
    /\ t \in Seq(Maker) /\ Reached(u, p)

Serves(u, r, i, p, z, t) ==
    /\ z <= r => FillRun(Reach(u), r, Ahead(Lot(i, p, z), t)) = FillRun(Reach(u), r - z, t)
    /\ r < z => FillRun(Reach(u), r, Ahead(Lot(i, p, z), t))
                  = [rem |-> 0, left |-> Ahead(Lot(i, p, z - r), t)]

LEMMA TakesLot ==
    ASSUME NEW u, NEW r, NEW i, NEW p, NEW z, NEW t, Faces(u, r, i, p, z, t)
    PROVE  Serves(u, r, i, p, z, t)
  <1>0. /\ Trader(u) /\ r \in Nat /\ i \in Int /\ p \in Nat \ {0} /\ z \in Nat \ {0}
        /\ t \in Seq(Maker) /\ Reached(u, p)
    BY DEF Faces
  <1>1. \A k \in Nat \ {0} : Lot(i, p, k) \in Maker /\ Lot(i, p, k) \in Reach(u)
    <2>1. \A k \in Nat \ {0} : Lot(i, p, k) \in Maker
      BY <1>0, AheadParts
    <2>2. \A k \in Nat \ {0} : Oracle!WithinLimit(u, Lot(i, p, k))
      BY <1>0 DEF Oracle!WithinLimit, Lot, Reached, Trader
    <2> QED  BY <2>1, <2>2 DEF Reach
  <1>2. PICK m \in Maker : m = Lot(i, p, z)
    BY <1>0, <1>1
  <1>3. m.qty = z
    BY <1>2 DEF Lot
  <1>4. FillsFrom(Reach(u), r, m, t)
    BY <1>0, <1>1, <1>2, FillTake
  <1>5. ASSUME r < z
        PROVE  FillRun(Reach(u), r, <<m>> \o t) = [rem |-> 0, left |-> Ahead(Lot(i, p, z - r), t)]
    <2>1. PICK k \in Nat \ {0} : k = z - r
      BY <1>0, <1>5
    <2>2. [m EXCEPT !.qty = @ - r] = Lot(i, p, k)
      BY <1>2, <2>1 DEF Lot
    <2>3. PICK e \in Maker : e = Lot(i, p, k)
      BY <1>1
    <2>4. FillRun(Reach(u), r, <<m>> \o t) = FillRun(Reach(u), 0, <<e>> \o t)
      BY <1>0, <1>1, <1>3, <1>4, <1>5, <2>2, <2>3 DEF FillsFrom
    <2>5. <<e>> \o t \in Seq(Maker)
      BY <1>0, AheadParts DEF Ahead
    <2>6. FillRun(Reach(u), 0, <<e>> \o t) = [rem |-> 0, left |-> <<e>> \o t]
      BY <2>5, FillNothing
    <2> QED  BY <2>1, <2>3, <2>4, <2>6 DEF Ahead
  <1>6. z <= r => FillRun(Reach(u), r, <<m>> \o t) = FillRun(Reach(u), r - z, t)
    BY <1>0, <1>3, <1>4 DEF FillsFrom
  <1> QED  BY <1>2, <1>5, <1>6 DEF Ahead, Serves

\* ... or makers it does not reach.
PassesBy(u, r, M) ==
    /\ Trader(u) /\ M \in Seq(Maker) /\ r \in Nat
    /\ \A p \in Pxs(M) : ~Reached(u, p)

LEMMA TakesNone ==
    ASSUME NEW u, NEW r, NEW M, PassesBy(u, r, M)
    PROVE  FillRun(Reach(u), r, M) = [rem |-> r, left |-> M]
  <1>0. Trader(u) /\ M \in Seq(Maker) /\ r \in Nat /\ \A p \in Pxs(M) : ~Reached(u, p)
    BY DEF PassesBy
  <1>1. ASSUME NEW n \in 1 .. Len(M)
        PROVE  M[n] \notin Reach(u)
    <2>1. M[n].px \in Pxs(M)
      BY DEF Pxs
    <2> QED  BY <1>0, <2>1 DEF Reach, Oracle!WithinLimit, Reached, Trader
  <1> QED  BY <1>0, <1>1, FillNothing

LEMMA RestsFirst ==
    ASSUME NEW side \in Sides, NEW M \in Seq(Maker), NEW e \in Maker,
           \A p \in Pxs(M) : IF side = "buy" THEN p < e.px ELSE p > e.px
    PROVE  Oracle!Rested(side, M, e) = Ahead(e, M)
  <1>1. PICK x \in Seq(Maker) : x = <<>>
    BY EmptySeq
  <1>2. Lies(side, e.px, x, M)
    <2>1. \A n \in 1 .. Len(M) : M[n].px \in Pxs(M)
      BY DEF Pxs
    <2> QED  BY <1>1, <2>1 DEF Lies, Oracle!Worse
  <1>3. Oracle!Rested(side, x \o M, e) = (x \o <<e>>) \o M
    BY <1>2, RestedIs DEF RestsBetween
  <1>4. x \o M = M /\ x \o <<e>> = <<e>>
    <2>1. <<e>> \in Seq(Maker)
      OBVIOUS
    <2> QED  BY <1>1, <2>1, ConcatEmptySeq
  <1> QED  BY <1>3, <1>4 DEF Ahead

LEMMA RestsLast ==
    ASSUME NEW side \in Sides, NEW d \in Maker, NEW e \in Maker,
           ~(IF side = "buy" THEN d.px < e.px ELSE d.px > e.px)
    PROVE  Oracle!Rested(side, Ahead(d, Nil), e) = Ahead(d, Ahead(e, Nil))
  <1>1. PICK x, y : x = <<d>> /\ y = <<>>
    OBVIOUS
  <1>2. x \in Seq(Maker) /\ y \in Seq(Maker) /\ Len(x) = 1 /\ x[1] = d /\ Len(y) = 0
    BY <1>1
  <1>3. Lies(side, e.px, x, y)
    <2>1. \A n \in 1 .. Len(x) : n = 1
      BY <1>2
    <2> QED  BY <1>2, <2>1 DEF Lies, Oracle!Worse
  <1>4. Oracle!Rested(side, x \o y, e) = (x \o <<e>>) \o y
    <2>1. RestsBetween(side, x, e, y)
      BY <1>2, <1>3, RestedIs
    <2> QED  BY <2>1 DEF RestsBetween
  <1>5. <<e>> \in Seq(Maker) /\ x \o <<e>> \in Seq(Maker)
    BY <1>2, ConcatProperties
  <1>6. (x \o <<e>>) \o y = x \o <<e>> /\ <<e>> \o y = <<e>>
    BY <1>1, <1>5, ConcatEmptySeq
  <1> QED  BY <1>1, <1>4, <1>6 DEF Ahead, Nil

\* An order that trades, from the fill it gets.
Makes(bids, asks, u, r, bids2, asks2) ==
    /\ Apply(Pair(bids, asks), u).filled = u.qty - r
    /\ Apply(Pair(bids, asks), u).book = Pair(bids2, asks2)

Bought(bids, asks, u, r, own, left) ==
    /\ bids \in Seq(Maker) /\ asks \in Seq(Maker)
    /\ Trader(u) /\ u.side = "buy" /\ r \in Nat
    /\ FillRun(Reach(u), u.qty, asks) = [rem |-> r, left |-> left]
    /\ own = IF u.type = "limit" /\ r > 0
             THEN Oracle!Rested("buy", bids, Lot(u.id, u.px, r)) ELSE bids

LEMMA Buys ==
    ASSUME NEW bids, NEW asks, NEW u, NEW r, NEW left, NEW own,
           Bought(bids, asks, u, r, own, left)
    PROVE  Makes(bids, asks, u, r, own, left)
  <1>0. /\ bids \in Seq(Maker) /\ asks \in Seq(Maker)
        /\ Trader(u) /\ u.side = "buy" /\ r \in Nat
        /\ FillRun(Reach(u), u.qty, asks) = [rem |-> r, left |-> left]
        /\ own = IF u.type = "limit" /\ r > 0
                 THEN Oracle!Rested("buy", bids, Lot(u.id, u.px, r)) ELSE bids
    BY DEF Bought
  <1>1. PICK b : b = Pair(bids, asks)
    OBVIOUS
  <1>2. /\ b = [s \in Sides |-> b[s]] /\ b["buy"] = bids /\ b["sell"] = asks
        /\ "buy" \in Sides /\ "sell" \in Sides /\ Opposite("buy") = "sell"
    BY <1>0, <1>1 DEF Pair, Sides, Opposite
  <1>3. Oracle!Fill(u, asks) = [rem |-> r, left |-> left]
    BY <1>0, FillIs DEF Reach, Trader
  <1>4. TradesTo(b, u, r, left)
    BY <1>0, <1>2, <1>3, TradedIs
  <1>5. Apply(b, u) = Oracle!Traded(b, u)
    BY <1>0, SameBook DEF Oracle!Apply, Trader
  <1>6. Oracle!Traded(b, u).filled = u.qty - r
    BY <1>4 DEF TradesTo
  <1>7. Oracle!Traded(b, u).book
          = [s \in Sides |->
               IF s = u.side
               THEN IF u.type = "limit" /\ r > 0
                    THEN Oracle!Rested(s, b[s], [id |-> u.id, px |-> u.px, qty |-> r])
                    ELSE b[s]
               ELSE left]
    BY <1>4, Zenon DEF TradesTo
  <1>8. ASSUME NEW s \in Sides
        PROVE  (IF s = u.side
                THEN IF u.type = "limit" /\ r > 0
                     THEN Oracle!Rested(s, b[s], [id |-> u.id, px |-> u.px, qty |-> r])
                     ELSE b[s]
                ELSE left) = IF s = "buy" THEN own ELSE left
    BY <1>0, <1>2 DEF Lot
  <1> QED  BY <1>1, <1>5, <1>6, <1>7, <1>8 DEF Makes, Pair

Sold(bids, asks, u, r, left, own) ==
    /\ bids \in Seq(Maker) /\ asks \in Seq(Maker)
    /\ Trader(u) /\ u.side = "sell" /\ r \in Nat
    /\ FillRun(Reach(u), u.qty, bids) = [rem |-> r, left |-> left]
    /\ own = IF u.type = "limit" /\ r > 0
             THEN Oracle!Rested("sell", asks, Lot(u.id, u.px, r)) ELSE asks

LEMMA Sells ==
    ASSUME NEW bids, NEW asks, NEW u, NEW r, NEW left, NEW own,
           Sold(bids, asks, u, r, left, own)
    PROVE  Makes(bids, asks, u, r, left, own)
  <1>0. /\ bids \in Seq(Maker) /\ asks \in Seq(Maker)
        /\ Trader(u) /\ u.side = "sell" /\ r \in Nat
        /\ FillRun(Reach(u), u.qty, bids) = [rem |-> r, left |-> left]
        /\ own = IF u.type = "limit" /\ r > 0
                 THEN Oracle!Rested("sell", asks, Lot(u.id, u.px, r)) ELSE asks
    BY DEF Sold
  <1>1. PICK b : b = Pair(bids, asks)
    OBVIOUS
  <1>2. /\ b = [s \in Sides |-> b[s]] /\ b["buy"] = bids /\ b["sell"] = asks
        /\ "buy" \in Sides /\ "sell" \in Sides /\ Opposite("sell") = "buy"
        /\ \A s \in Sides : s = "buy" \/ s = "sell"
    BY <1>0, <1>1 DEF Pair, Sides, Opposite
  <1>3. Oracle!Fill(u, bids) = [rem |-> r, left |-> left]
    BY <1>0, FillIs DEF Reach, Trader
  <1>4. TradesTo(b, u, r, left)
    BY <1>0, <1>2, <1>3, TradedIs
  <1>5. Apply(b, u) = Oracle!Traded(b, u)
    BY <1>0, SameBook DEF Oracle!Apply, Trader
  <1>6. Oracle!Traded(b, u).filled = u.qty - r
    BY <1>4 DEF TradesTo
  <1>7. Oracle!Traded(b, u).book
          = [s \in Sides |->
               IF s = u.side
               THEN IF u.type = "limit" /\ r > 0
                    THEN Oracle!Rested(s, b[s], [id |-> u.id, px |-> u.px, qty |-> r])
                    ELSE b[s]
               ELSE left]
    BY <1>4, Zenon DEF TradesTo
  <1>8. ASSUME NEW s \in Sides
        PROVE  (IF s = u.side
                THEN IF u.type = "limit" /\ r > 0
                     THEN Oracle!Rested(s, b[s], [id |-> u.id, px |-> u.px, qty |-> r])
                     ELSE b[s]
                ELSE left) = IF s = "buy" THEN left ELSE own
    BY <1>0, <1>2 DEF Lot
  <1> QED  BY <1>1, <1>5, <1>6, <1>7, <1>8 DEF Makes, Pair

\* One more order of the scenario.
LEMMA Proceeds ==
    ASSUME NEW n \in 1 .. 10, NEW u, u = Scenario[n], NEW bids, NEW asks,
           Expected(n - 1).book = Pair(bids, asks),
           NEW bids2, NEW asks2, NEW r, Makes(bids, asks, u, r, bids2, asks2)
    PROVE  /\ Expected(n).book = Pair(bids2, asks2)
           /\ ExpectedFills[n] = u.qty - r
  <1>1. Expected(n) = Turn(Expected(n - 1), Scenario[n])
    BY ExpectedParts DEF ExpectedSteps
  <1>2. Expected(n).book = Apply(Pair(bids, asks), u).book
    BY <1>1 DEF Turn
  <1>3. ExpectedFills[n] = Apply(Pair(bids, asks), u).filled
    BY FillsAre DEF FillsExpected
  <1> QED  BY <1>2, <1>3 DEF Makes

\* The books of the oracle: five orders until the first side is swept ...
BooksFirst ==
    /\ Expected(0).book = Pair(Nil, Nil)
    /\ Expected(1).book = Pair(Nil, Ahead(Lot(1, 10000, 10), Nil))
    /\ Expected(2).book
         = Pair(Nil, Ahead(Lot(1, 10000, 10), Ahead(Lot(2, 10010, 5), Nil)))
    /\ Expected(3).book
         = Pair(Ahead(Lot(3, 9990, 4), Nil),
                Ahead(Lot(1, 10000, 10), Ahead(Lot(2, 10010, 5), Nil)))
    /\ Expected(4).book
         = Pair(Ahead(Lot(3, 9990, 4), Nil),
                Ahead(Lot(1, 10000, 4), Ahead(Lot(2, 10010, 5), Nil)))
    /\ Expected(5).book
         = Pair(Ahead(Lot(5, 10005, 4), Ahead(Lot(3, 9990, 4), Nil)),
                Ahead(Lot(2, 10010, 5), Nil))

LEMMA FirstBooks ==
    /\ BooksFirst
    /\ ExpectedFills[1] = 0 /\ ExpectedFills[2] = 0
    /\ ExpectedFills[3] = 0 /\ ExpectedFills[4] = 6
    /\ ExpectedFills[5] = 4
  <1> DEFINE q == Scenario
             a1 == Lot(1, 10000, 10)
             a2 == Lot(2, 10010, 5)
             b3 == Lot(3, 9990, 4)
             a4 == Lot(1, 10000, 4)
             b5 == Lot(5, 10005, 4)
             M1 == Ahead(a1, Nil)
             M2 == Ahead(a1, Ahead(a2, Nil))
             N2 == Ahead(a2, Nil)
             M3 == Ahead(b3, Nil)
             M4 == Ahead(a4, Ahead(a2, Nil))
             M5 == Ahead(b5, Ahead(b3, Nil))
  <1>1. /\ Trader(q[1]) /\ Trader(q[2]) /\ Trader(q[3]) /\ Trader(q[4]) /\ Trader(q[5])
        /\ q[1] = Order(1, 1, "sell", "limit", 10000, 10, 0)
        /\ q[2] = Order(2, 1, "sell", "limit", 10010, 5, 0)
        /\ q[3] = Order(3, 2, "buy", "limit", 9990, 4, 0)
        /\ q[4] = Order(4, 2, "buy", "limit", 10000, 6, 0)
        /\ q[5] = Order(5, 3, "buy", "limit", 10005, 8, 0)
    <2>1. ListsFirst(q)
      BY ScenarioIs
    <2> HIDE DEF q
    <2> QED  BY <2>1 DEF ListsFirst, Trader, Order
  <1> HIDE DEF q
  <1>2. /\ a1 \in Maker /\ a2 \in Maker /\ b3 \in Maker /\ a4 \in Maker /\ b5 \in Maker
        /\ a1.px = 10000 /\ a2.px = 10010 /\ b3.px = 9990 /\ a4.px = 10000 /\ b5.px = 10005
    BY AheadParts DEF Lot
  <1>3. /\ M1 \in Seq(Maker) /\ M2 \in Seq(Maker) /\ M3 \in Seq(Maker)
        /\ M4 \in Seq(Maker) /\ M5 \in Seq(Maker) /\ N2 \in Seq(Maker) /\ Nil \in Seq(Maker)
        /\ Pxs(M2) = {10000, 10010} /\ Pxs(N2) = {10010} /\ Pxs(M3) = {9990} /\ Pxs(Nil) = {}
    <2> HIDE DEF a1, a2, b3, a4, b5
    <2>1. /\ M1 \in Seq(Maker) /\ M3 \in Seq(Maker) /\ N2 \in Seq(Maker) /\ Nil \in Seq(Maker)
          /\ Pxs(N2) = {10010} /\ Pxs(M3) = {9990} /\ Pxs(Nil) = {}
      BY <1>2, AheadParts
    <2>2. M2 \in Seq(Maker) /\ M4 \in Seq(Maker) /\ M5 \in Seq(Maker)
      BY <1>2, <2>1, AheadParts
    <2>3. Pxs(M2) = {10000, 10010}
      BY <1>2, <2>1, AheadParts
    <2> QED  BY <2>1, <2>2, <2>3
  <1>4. Expected(0).book = Pair(Nil, Nil)
    BY ExpectedParts DEF ExpectedSteps, Opening, Pair, Nil
  <1> HIDE DEF M1, M2, M3, M4, M5, N2
  <1>5. Expected(1).book = Pair(Nil, M1) /\ ExpectedFills[1] = 0
    <2>1. PICK u : u = q[1]
      OBVIOUS
    <2>2. /\ Trader(u) /\ u.side = "sell" /\ u.type = "limit" /\ u.px = 10000 /\ u.qty = 10
          /\ u.id = 1
      BY <1>1, <2>1 DEF Order
    <2>3. FillRun(Reach(u), 10, Nil) = [rem |-> 10, left |-> Nil]
      <3>1. PassesBy(u, 10, Nil)
        BY <1>3, <2>2 DEF PassesBy
      <3> QED  BY <3>1, TakesNone
    <2>4. Oracle!Rested("sell", Nil, a1) = M1
      BY <1>2, <1>3, RestsFirst DEF M1, Sides
    <2>5. Makes(Nil, Nil, u, 10, Nil, M1)
      <3>1. Sold(Nil, Nil, u, 10, Nil, M1)
        BY <1>3, <2>2, <2>3, <2>4 DEF Sold
      <3> QED  BY <3>1, Sells
    <2>6. Expected(1 - 1).book = Pair(Nil, Nil) /\ 1 \in 1 .. 10
      BY <1>4
    <2> QED  BY <2>1, <2>2, <2>5, <2>6, Proceeds DEF q
  <1>6. Expected(2).book = Pair(Nil, M2) /\ ExpectedFills[2] = 0
    <2>1. PICK u : u = q[2]
      OBVIOUS
    <2>2. /\ Trader(u) /\ u.side = "sell" /\ u.type = "limit" /\ u.px = 10010 /\ u.qty = 5
          /\ u.id = 2
      BY <1>1, <2>1 DEF Order
    <2>3. FillRun(Reach(u), 5, Nil) = [rem |-> 5, left |-> Nil]
      <3>1. PassesBy(u, 5, Nil)
        BY <1>3, <2>2 DEF PassesBy
      <3> QED  BY <3>1, TakesNone
    <2>4. Oracle!Rested("sell", M1, a2) = M2
      BY <1>2, RestsLast DEF M1, M2, Sides
    <2>5. Makes(Nil, M1, u, 5, Nil, M2)
      <3>1. Sold(Nil, M1, u, 5, Nil, M2)
        BY <1>3, <2>2, <2>3, <2>4 DEF Sold
      <3> QED  BY <3>1, Sells
    <2>6. Expected(2 - 1).book = Pair(Nil, M1) /\ 2 \in 1 .. 10
      BY <1>5
    <2> QED  BY <2>1, <2>2, <2>5, <2>6, Proceeds DEF q
  <1>7. Expected(3).book = Pair(M3, M2) /\ ExpectedFills[3] = 0
    <2>1. PICK u : u = q[3]
      OBVIOUS
    <2>2. /\ Trader(u) /\ u.side = "buy" /\ u.type = "limit" /\ u.px = 9990 /\ u.qty = 4
          /\ u.id = 3
      BY <1>1, <2>1 DEF Order
    <2>3. \A p \in Pxs(M2) : ~Reached(u, p)
      BY <1>3, <2>2 DEF Reached
    <2>4. FillRun(Reach(u), 4, M2) = [rem |-> 4, left |-> M2]
      <3>1. PassesBy(u, 4, M2)
        BY <1>3, <2>2, <2>3 DEF PassesBy
      <3> QED  BY <3>1, TakesNone
    <2>5. Oracle!Rested("buy", Nil, b3) = M3
      BY <1>2, <1>3, RestsFirst DEF M3, Sides
    <2>6. Makes(Nil, M2, u, 4, M3, M2)
      <3>1. Bought(Nil, M2, u, 4, M3, M2)
        BY <1>3, <2>2, <2>4, <2>5 DEF Bought
      <3> QED  BY <3>1, Buys
    <2>7. Expected(3 - 1).book = Pair(Nil, M2) /\ 3 \in 1 .. 10
      BY <1>6
    <2> QED  BY <2>1, <2>2, <2>6, <2>7, Proceeds DEF q
  <1>8. Expected(4).book = Pair(M3, M4) /\ ExpectedFills[4] = 6
    <2>1. PICK u : u = q[4]
      OBVIOUS
    <2>2. /\ Trader(u) /\ u.side = "buy" /\ u.type = "limit" /\ u.px = 10000 /\ u.qty = 6
          /\ u.id = 4
      BY <1>1, <2>1 DEF Order
    <2>3. Reached(u, 10000)
      BY <2>2 DEF Reached
    <2>4. FillRun(Reach(u), 6, Ahead(Lot(1, 10000, 10), N2))
            = [rem |-> 0, left |-> Ahead(Lot(1, 10000, 10 - 6), N2)]
      <3>1. Faces(u, 6, 1, 10000, 10, N2)
        BY <1>3, <2>2, <2>3 DEF Faces
      <3>2. Serves(u, 6, 1, 10000, 10, N2)
        BY <3>1, TakesLot
      <3> QED  BY <3>2 DEF Serves
    <2>5. FillRun(Reach(u), 6, M2) = [rem |-> 0, left |-> M4]
      BY <2>4 DEF M2, M4, N2
    <2>6. Makes(M3, M2, u, 0, M3, M4)
      <3>1. Bought(M3, M2, u, 0, M3, M4)
        BY <1>3, <2>2, <2>5 DEF Bought
      <3> QED  BY <3>1, Buys
    <2>7. Expected(4 - 1).book = Pair(M3, M2) /\ 4 \in 1 .. 10
      BY <1>7
    <2> QED  BY <2>1, <2>2, <2>6, <2>7, Proceeds DEF q
  <1>9. Expected(5).book = Pair(M5, N2) /\ ExpectedFills[5] = 4
    <2>1. PICK u : u = q[5]
      OBVIOUS
    <2>2. /\ Trader(u) /\ u.side = "buy" /\ u.type = "limit" /\ u.px = 10005 /\ u.qty = 8
          /\ u.id = 5
      BY <1>1, <2>1 DEF Order
    <2>3. Reached(u, 10000)
      BY <2>2 DEF Reached
    <2>4. FillRun(Reach(u), 8, Ahead(Lot(1, 10000, 4), N2)) = FillRun(Reach(u), 8 - 4, N2)
      <3>1. Faces(u, 8, 1, 10000, 4, N2)
        BY <1>3, <2>2, <2>3 DEF Faces
      <3>2. Serves(u, 8, 1, 10000, 4, N2)
        BY <3>1, TakesLot
      <3> QED  BY <3>2 DEF Serves
    <2>5. \A p \in Pxs(N2) : ~Reached(u, p)
      BY <1>3, <2>2 DEF Reached
    <2>6. FillRun(Reach(u), 4, N2) = [rem |-> 4, left |-> N2]
      <3>1. PassesBy(u, 4, N2)
        BY <1>3, <2>2, <2>5 DEF PassesBy
      <3> QED  BY <3>1, TakesNone
    <2>7. FillRun(Reach(u), 8, M4) = [rem |-> 4, left |-> N2]
      BY <2>4, <2>6 DEF M4, N2
    <2>8. Oracle!Rested("buy", M3, b5) = M5
      <3>1. \A p \in Pxs(M3) : p < b5.px
        BY <1>2, <1>3
      <3>2. Oracle!Rested("buy", M3, b5) = Ahead(b5, M3)
        BY <1>2, <1>3, <3>1, RestsFirst DEF Sides
      <3> QED  BY <3>2 DEF M3, M5
    <2>9. Makes(M3, M4, u, 4, M5, N2)
      <3>1. Bought(M3, M4, u, 4, M5, N2)
        BY <1>3, <2>2, <2>7, <2>8 DEF Bought
      <3> QED  BY <3>1, Buys
    <2>10. Expected(5 - 1).book = Pair(M3, M4) /\ 5 \in 1 .. 10
      BY <1>8
    <2> QED  BY <2>1, <2>2, <2>9, <2>10, Proceeds DEF q
  <1> QED  BY <1>4, <1>5, <1>6, <1>7, <1>8, <1>9 DEF BooksFirst, M1, M2, M3, M4, M5, N2

\* A side of one order, cancelled, is empty.
LEMMA DroppedOnly ==
    ASSUME NEW e \in Maker
    PROVE  Dropped(Ahead(e, Nil), e.id) = Nil
  <1>1. PICK x \in Seq(Maker) : x = <<>> /\ Len(x) = 0
    BY EmptySeq
  <1>2. Dropped((x \o <<e>>) \o x, e.id) = x \o x
    <2>1. \A n \in 1 .. Len(x) : x[n].id # e.id
      BY <1>1
    <2> QED  BY <2>1, DroppedIs
  <1>3. <<e>> \in Seq(Maker)
    OBVIOUS
  <1>4. x \o x = x /\ x \o <<e>> = <<e>> /\ <<e>> \o x = <<e>>
    BY <1>1, <1>3, ConcatEmptySeq
  <1>5. Ahead(e, Nil) = <<e>>
    BY <1>1, <1>4 DEF Ahead, Nil
  <1> QED  BY <1>1, <1>2, <1>4, <1>5 DEF Nil

\* ... and the five that empty it.  Without the cancel, the eighth order would
\* have traded.
LEMMA LastBooks ==
    /\ ExpectedFills[6] = 3 /\ ExpectedFills[7] = 0
    /\ ExpectedFills[8] = 0 /\ ExpectedFills[9] = 2
    /\ ExpectedFills[10] = 11
    /\ Apply(Expected(6).book, Scenario[8]).filled = 2
  <1> DEFINE q == Scenario
             b3 == Lot(3, 9990, 4)
             b5 == Lot(5, 10005, 4)
             a6 == Lot(2, 10010, 2)
             b8 == Lot(8, 10010, 5)
             b9 == Lot(8, 10010, 3)
             N3 == Ahead(b3, Nil)
             M5 == Ahead(b5, N3)
             N2 == Ahead(Lot(2, 10010, 5), Nil)
             N6 == Ahead(a6, Nil)
             M8 == Ahead(b8, M5)
             M9 == Ahead(b9, M5)
  <1>1. /\ Trader(q[6]) /\ Trader(q[8]) /\ Trader(q[9]) /\ Trader(q[10])
        /\ q[6] = Order(6, 3, "buy", "market", 0, 3, 0)
        /\ q[8] = Order(8, 4, "buy", "limit", 10010, 5, 0)
        /\ q[9] = Order(9, 4, "sell", "limit", 10005, 2, 0)
        /\ q[10] = Order(10, 5, "sell", "market", 0, 100, 0)
        /\ q[7].type = "cancel" /\ q[7].target = 2 /\ q[7].qty = 0
    <2>1. ListsLast(q)
      BY ScenarioIs
    <2> HIDE DEF q
    <2> QED  BY <2>1 DEF ListsLast, Trader, Order
  <1> HIDE DEF q
  <1>2. /\ b3 \in Maker /\ b5 \in Maker /\ a6 \in Maker /\ b8 \in Maker /\ b9 \in Maker
        /\ b3.px = 9990 /\ b5.px = 10005 /\ b8.px = 10010
        /\ b3.id = 3 /\ b5.id = 5 /\ a6.id = 2
    BY AheadParts DEF Lot
  <1>3. /\ N3 \in Seq(Maker) /\ M5 \in Seq(Maker) /\ N6 \in Seq(Maker)
        /\ M8 \in Seq(Maker) /\ M9 \in Seq(Maker) /\ Nil \in Seq(Maker) /\ N2 \in Seq(Maker)
        /\ Pxs(M5) = {10005, 9990} /\ Pxs(Nil) = {} /\ Ids(M5) = {5, 3}
    <2>0. Lot(2, 10010, 5) \in Maker
      BY AheadParts
    <2> HIDE DEF b3, b5, a6, b8, b9
    <2>1. /\ N3 \in Seq(Maker) /\ N6 \in Seq(Maker) /\ N2 \in Seq(Maker) /\ Nil \in Seq(Maker)
          /\ Pxs(N3) = {9990} /\ Ids(N3) = {3} /\ Pxs(Nil) = {}
      BY <1>2, <2>0, AheadParts
    <2> HIDE DEF N3, N2
    <2>2. M5 \in Seq(Maker) /\ Pxs(M5) = {10005, 9990} /\ Ids(M5) = {5, 3}
      BY <1>2, <2>1, AheadParts
    <2> HIDE DEF M5
    <2>3. M8 \in Seq(Maker) /\ M9 \in Seq(Maker)
      BY <1>2, <2>2, AheadParts
    <2> QED  BY <2>1, <2>2, <2>3
  <1> HIDE DEF M8, M9, M5, N6, N3
  <1>4. Expected(5).book = Pair(M5, N2)
    BY FirstBooks DEF BooksFirst, M5, N3
  <1> HIDE DEF N2
  <1>5. Expected(6).book = Pair(M5, N6) /\ ExpectedFills[6] = 3
    <2>1. PICK u : u = q[6]
      OBVIOUS
    <2>2. Trader(u) /\ u.side = "buy" /\ u.type = "market" /\ u.qty = 3
      BY <1>1, <2>1 DEF Order
    <2>3. Reached(u, 10010)
      BY <2>2 DEF Reached
    <2>4. FillRun(Reach(u), 3, Ahead(Lot(2, 10010, 5), Nil))
            = [rem |-> 0, left |-> Ahead(Lot(2, 10010, 5 - 3), Nil)]
      <3>1. Faces(u, 3, 2, 10010, 5, Nil)
        BY <1>3, <2>2, <2>3 DEF Faces
      <3>2. Serves(u, 3, 2, 10010, 5, Nil)
        BY <3>1, TakesLot
      <3> QED  BY <3>2 DEF Serves
    <2>5. FillRun(Reach(u), 3, N2) = [rem |-> 0, left |-> N6]
      BY <2>4 DEF N2, N6
    <2>6. Makes(M5, N2, u, 0, M5, N6)
      <3>1. Bought(M5, N2, u, 0, M5, N6)
        BY <1>3, <2>2, <2>5 DEF Bought
      <3> QED  BY <3>1, Buys
    <2>7. Expected(6 - 1).book = Pair(M5, N2) /\ 6 \in 1 .. 10
      BY <1>4
    <2> QED  BY <2>1, <2>2, <2>6, <2>7, Proceeds DEF q
  <1>6. Expected(7).book = Pair(M5, Nil) /\ ExpectedFills[7] = 0
    <2>1. PICK u : u = q[7]
      OBVIOUS
    <2>2. Apply(Pair(M5, N6), u) = [book |-> Oracle!Without(Pair(M5, N6), 2), filled |-> 0]
      BY <1>1, <2>1, SameBook DEF Oracle!Apply
    <2>3. Dropped(M5, 2) = M5
      <3>1. \A n \in 1 .. Len(M5) : M5[n].id \in Ids(M5)
        BY DEF Ids
      <3>2. \A n \in 1 .. Len(M5) : M5[n].id # 2
        BY <1>3, <3>1
      <3>3. M5 \in Seq(Maker)
        BY <1>3
      <3> QED  BY <3>2, <3>3, DroppedNone
    <2>4. Dropped(N6, 2) = Nil
      <3>1. PICK e \in Maker : e = a6 /\ e.id = 2
        BY <1>2 DEF Lot
      <3>2. Dropped(Ahead(e, Nil), e.id) = Nil
        BY DroppedOnly
      <3> QED  BY <3>1, <3>2 DEF N6
    <2>5. Oracle!Without(Pair(M5, N6), 2) = [s \in Sides |-> Dropped(Pair(M5, N6)[s], 2)]
      BY WithoutIs
    <2>6. \A s \in Sides : Dropped(Pair(M5, N6)[s], 2) = IF s = "buy" THEN M5 ELSE Nil
      BY <2>3, <2>4 DEF Pair
    <2>7. Oracle!Without(Pair(M5, N6), 2) = Pair(M5, Nil)
      BY <2>5, <2>6 DEF Pair
    <2>8. Makes(M5, N6, u, 0, M5, Nil)
      BY <1>1, <2>1, <2>2, <2>7 DEF Makes
    <2>9. Expected(7 - 1).book = Pair(M5, N6) /\ 7 \in 1 .. 10
      BY <1>5
    <2> QED  BY <1>1, <2>1, <2>8, <2>9, Proceeds DEF q
  <1>7. Expected(8).book = Pair(M8, Nil) /\ ExpectedFills[8] = 0
        /\ Apply(Expected(6).book, q[8]).filled = 2
    <2>1. PICK u : u = q[8]
      OBVIOUS
    <2>2. /\ Trader(u) /\ u.side = "buy" /\ u.type = "limit" /\ u.px = 10010 /\ u.qty = 5
          /\ u.id = 8
      BY <1>1, <2>1 DEF Order
    <2>3. ASSUME NEW r \in Nat
          PROVE  FillRun(Reach(u), r, Nil) = [rem |-> r, left |-> Nil]
      <3>1. PassesBy(u, r, Nil)
        BY <1>3, <2>2 DEF PassesBy
      <3> QED  BY <3>1, TakesNone
    <2>4. Oracle!Rested("buy", M5, b8) = M8
      <3>1. \A p \in Pxs(M5) : p < b8.px
        BY <1>2, <1>3
      <3>2. PICK side \in Sides : side = "buy"
        BY DEF Sides
      <3>3. PICK e \in Maker : e = b8
        BY <1>2
      <3>4. \A p \in Pxs(M5) : IF side = "buy" THEN p < e.px ELSE p > e.px
        BY <3>1, <3>2, <3>3
      <3>5. M5 \in Seq(Maker)
        BY <1>3
      <3>6. Oracle!Rested(side, M5, e) = Ahead(e, M5)
        BY <3>4, <3>5, RestsFirst
      <3> QED  BY <3>2, <3>3, <3>6 DEF M8
    <2>5. Makes(M5, Nil, u, 5, M8, Nil)
      <3>1. Bought(M5, Nil, u, 5, M8, Nil)
        BY <1>3, <2>2, <2>3, <2>4 DEF Bought
      <3> QED  BY <3>1, Buys
    <2>6. Expected(8 - 1).book = Pair(M5, Nil) /\ 8 \in 1 .. 10
      BY <1>6
    <2>7. Reached(u, 10010)
      BY <2>2 DEF Reached
    <2>8. FillRun(Reach(u), 5, Ahead(Lot(2, 10010, 2), Nil)) = FillRun(Reach(u), 5 - 2, Nil)
      <3>1. Faces(u, 5, 2, 10010, 2, Nil)
        BY <1>3, <2>2, <2>7 DEF Faces
      <3>2. Serves(u, 5, 2, 10010, 2, Nil)
        BY <3>1, TakesLot
      <3> QED  BY <3>2 DEF Serves
    <2>9. FillRun(Reach(u), 5, N6) = [rem |-> 3, left |-> Nil]
      BY <2>3, <2>8 DEF N6
    <2>10. \E own : Makes(M5, N6, u, 3, own, Nil)
      <3>1. PICK own : own = Oracle!Rested("buy", M5, Lot(u.id, u.px, 3))
        OBVIOUS
      <3>2. Bought(M5, N6, u, 3, own, Nil)
        BY <1>3, <2>2, <2>9, <3>1 DEF Bought
      <3> QED  BY <3>2, Buys
    <2>11. Apply(Pair(M5, N6), u).filled = 2
      BY <2>2, <2>10 DEF Makes
    <2> QED  BY <1>5, <2>1, <2>2, <2>5, <2>6, <2>11, Proceeds DEF q
  <1>8. Expected(9).book = Pair(M9, Nil) /\ ExpectedFills[9] = 2
    <2>1. PICK u : u = q[9]
      OBVIOUS
    <2>2. Trader(u) /\ u.side = "sell" /\ u.type = "limit" /\ u.px = 10005 /\ u.qty = 2
      BY <1>1, <2>1 DEF Order
    <2>3. Reached(u, 10010)
      BY <2>2 DEF Reached
    <2>4. FillRun(Reach(u), 2, Ahead(Lot(8, 10010, 5), M5))
            = [rem |-> 0, left |-> Ahead(Lot(8, 10010, 5 - 2), M5)]
      <3>1. Faces(u, 2, 8, 10010, 5, M5)
        BY <1>3, <2>2, <2>3 DEF Faces
      <3>2. Serves(u, 2, 8, 10010, 5, M5)
        BY <3>1, TakesLot
      <3> QED  BY <3>2 DEF Serves
    <2>5. FillRun(Reach(u), 2, M8) = [rem |-> 0, left |-> M9]
      BY <2>4 DEF M8, M9
    <2>6. Makes(M8, Nil, u, 0, M9, Nil)
      <3>1. Sold(M8, Nil, u, 0, M9, Nil)
        BY <1>3, <2>2, <2>5 DEF Sold
      <3> QED  BY <3>1, Sells
    <2>7. Expected(9 - 1).book = Pair(M8, Nil) /\ 9 \in 1 .. 10
      BY <1>7
    <2> QED  BY <2>1, <2>2, <2>6, <2>7, Proceeds DEF q
  <1>9. ExpectedFills[10] = 11
    <2>1. PICK u : u = q[10]
      OBVIOUS
    <2>2. Trader(u) /\ u.side = "sell" /\ u.type = "market" /\ u.qty = 100
      BY <1>1, <2>1 DEF Order
    <2>3. \A p : Reached(u, p)
      BY <2>2 DEF Reached
    <2>4. FillRun(Reach(u), 100, Ahead(Lot(8, 10010, 3), M5)) = FillRun(Reach(u), 100 - 3, M5)
      <3>1. Faces(u, 100, 8, 10010, 3, M5)
        BY <1>3, <2>2, <2>3 DEF Faces
      <3>2. Serves(u, 100, 8, 10010, 3, M5)
        BY <3>1, TakesLot
      <3> QED  BY <3>2 DEF Serves
    <2>5. FillRun(Reach(u), 97, Ahead(Lot(5, 10005, 4), N3)) = FillRun(Reach(u), 97 - 4, N3)
      <3>1. Faces(u, 97, 5, 10005, 4, N3)
        BY <1>3, <2>2, <2>3 DEF Faces
      <3>2. Serves(u, 97, 5, 10005, 4, N3)
        BY <3>1, TakesLot
      <3> QED  BY <3>2 DEF Serves
    <2>6. FillRun(Reach(u), 93, Ahead(Lot(3, 9990, 4), Nil)) = FillRun(Reach(u), 93 - 4, Nil)
      <3>1. Faces(u, 93, 3, 9990, 4, Nil)
        BY <1>3, <2>2, <2>3 DEF Faces
      <3>2. Serves(u, 93, 3, 9990, 4, Nil)
        BY <3>1, TakesLot
      <3> QED  BY <3>2 DEF Serves
    <2>7. FillRun(Reach(u), 89, Nil) = [rem |-> 89, left |-> Nil]
      <3>1. PassesBy(u, 89, Nil)
        BY <1>3, <2>2 DEF PassesBy
      <3> QED  BY <3>1, TakesNone
    <2>8. FillRun(Reach(u), 100, M9) = [rem |-> 89, left |-> Nil]
      BY <2>4, <2>5, <2>6, <2>7 DEF M9, M5, N3
    <2>9. Makes(M9, Nil, u, 89, Nil, Nil)
      <3>1. Sold(M9, Nil, u, 89, Nil, Nil)
        BY <1>3, <2>2, <2>8 DEF Sold
      <3> QED  BY <3>1, Sells
    <2>10. Expected(10 - 1).book = Pair(M9, Nil) /\ 10 \in 1 .. 10
      BY <1>8
    <2> QED  BY <2>1, <2>2, <2>9, <2>10, Proceeds DEF q
  <1> QED  BY <1>5, <1>6, <1>7, <1>8, <1>9 DEF q

-----------------------------------------------------------------------------
(* The oracle alone with the engine.                                       *)

Calm == ~foreign /\ \A k \in 1 .. Len(oracle.cases) : oracle.cases[k].reachable

\* An engine that ignores cancels keeps the book of the sixth order.
Held(n) == Expected(IF n <= 6 THEN n ELSE 6).book

Alone ==
    /\ \A r \in inflight : r.from = Grader =>
         /\ sender[Grader].pc = "wait"
         /\ r.nth = sender[Grader].sent /\ r.order = Scenario[r.nth]
    /\ trace = [k \in 1 .. Len(oracle.cases) |-> k]
    /\ sender[Grader].pc # "done" =>
         engine.seen \subseteq {Key(Scenario[k]) : k \in 1 .. Len(oracle.cases)}
    /\ style = "reference" =>
         /\ \A k \in 1 .. Len(oracle.cases) : oracle.cases[k].pass
         /\ sender[Grader].pc # "done" => engine.book = Expected(Len(oracle.cases)).book
    /\ style = "keeps" =>
         /\ Len(oracle.cases) <= 7 /\ sender[Grader].pc # "done" =>
              engine.book = Held(Len(oracle.cases))
         /\ Len(oracle.cases) >= 8 => ~oracle.cases[8].pass

LEMMA CasesAre ==
    ASSUME LoopInv
    PROVE  /\ Len(oracle.cases) \in 0 .. 10 /\ oracle.cases \in Seq(CaseSet)
           /\ DOMAIN oracle.cases = 1 .. Len(oracle.cases)
           /\ \A k \in 1 .. Len(oracle.cases) : oracle.cases[k] \in CaseSet
  <1>1. Len(oracle.cases) \in 0 .. 10 /\ oracle.cases \in Seq(CaseSet)
    BY LoopParts
  <1> QED  BY <1>1, LenProperties, ElementOfSeq

LEMMA AloneIs ==
    LoopInv => /\ Undisturbed <=> Calm
               /\ AloneInv <=> (Calm => Alone)
  <1> SUFFICES ASSUME LoopInv
               PROVE  /\ Undisturbed <=> Calm
                      /\ AloneInv <=> (Calm => Alone)
    OBVIOUS
  <1>1. Len(oracle.cases) \in 0 .. 10 /\ DOMAIN oracle.cases = 1 .. Len(oracle.cases)
    BY CasesAre
  <1>2. Undisturbed <=> Calm
    BY <1>1 DEF Undisturbed, Cases, Calm
  <1>3. Min({Len(oracle.cases), 6}) = IF Len(oracle.cases) <= 6
                                      THEN Len(oracle.cases) ELSE 6
    <2>1. \A n \in Nat : Min({n, 6}) = IF n <= 6 THEN n ELSE 6
      BY DEF Min
    <2> QED  BY <1>1, <2>1
  <1>4. Validated <=> sender[Grader].pc = "done"
    BY DEF Validated, Grader
  <1> QED  BY <1>2, <1>3, <1>4 DEF AloneInv, Cases, Alone, Held, Grader

\* The seventh order is the only cancel.
LEMMA CancelsOne == \A k \in 1 .. 10 : Scenario[k].type = "cancel" <=> k = 7
  <1> DEFINE q == Scenario
  <1>1. ListsFirst(q) /\ ListsLast(q)
    BY ScenarioIs
  <1> HIDE DEF q
  <1>2. /\ q[1].type # "cancel" /\ q[2].type # "cancel" /\ q[3].type # "cancel"
        /\ q[4].type # "cancel" /\ q[5].type # "cancel"
    BY <1>1 DEF ListsFirst, Order
  <1>3. /\ q[6].type # "cancel" /\ q[7].type = "cancel" /\ q[8].type # "cancel"
        /\ q[9].type # "cancel" /\ q[10].type # "cancel"
    BY <1>1 DEF ListsLast, Order
  <1>4. \A k \in 1 .. 10 : k \in {1, 2, 3, 4, 5, 6, 7, 8, 9, 10}
    OBVIOUS
  <1> QED  BY <1>2, <1>3, <1>4 DEF q

\* The case of an order is the next one.
LEMMA ClosedCase ==
    ASSUME LoopInv, NEW f, NEW ok \in BOOLEAN, Closes(f, ok)
    PROVE  /\ Len(oracle.cases) + 1 \in 1 .. 10
           /\ Len(oracle'.cases) = Len(oracle.cases) + 1
           /\ \A k \in 1 .. Len(oracle.cases) : oracle'.cases[k] = oracle.cases[k]
           /\ oracle'.cases[Len(oracle.cases) + 1].reachable <=> ok
           /\ oracle'.cases[Len(oracle.cases) + 1].pass
                <=> (ok /\ f = ExpectedFills[Len(oracle.cases) + 1])
  <1> DEFINE n == Len(oracle.cases)
  <1>1. n \in 0 .. 10 /\ oracle.cases \in Seq(CaseSet) /\ n + 1 \in 1 .. 10
    BY LoopParts, CasesAre DEF Closes
  <1>2. PICK c : c = Case(n + 1, f, ok)
    OBVIOUS
  <1>3. /\ c \in CaseSet /\ c.reachable = ok
        /\ c.pass = (ok /\ f = ExpectedFills[n + 1])
    BY <1>1, <1>2 DEF Case, CaseSet
  <1>4. oracle'.cases = Append(oracle.cases, c)
    BY <1>2 DEF Closes
  <1>5. /\ Len(oracle'.cases) = n + 1 /\ oracle'.cases[n + 1] = c
        /\ \A k \in 1 .. n : oracle'.cases[k] = oracle.cases[k]
    BY <1>1, <1>3, <1>4, AppendProperties
  <1> QED  BY <1>1, <1>3, <1>5

\* What was calm is calm only if it was so before.
LEMMA CalmBefore ==
    ASSUME LoopInv, Turns, ~foreign' => ~foreign, Calm'
    PROVE  Calm /\ \A f, ok : ok \in BOOLEAN /\ Closes(f, ok) => ok
  <1>1. CASE Stays \/ Sends \/ Reports
    <2>1. oracle'.cases = oracle.cases
      BY <1>1 DEF Stays, Sends, Reports
    <2>2. ASSUME NEW f, NEW ok \in BOOLEAN, Closes(f, ok)
          PROVE  FALSE
      <3>1. Len(oracle'.cases) = Len(oracle.cases) + 1 /\ Len(oracle.cases) \in 0 .. 10
        BY <2>2, ClosedCase, CasesAre
      <3> QED  BY <2>1, <3>1
    <2> QED  BY <2>1, <2>2 DEF Calm
  <1>2. ASSUME NEW f, NEW ok \in BOOLEAN, Closes(f, ok)
        PROVE  Calm /\ ok
    <2> DEFINE n == Len(oracle.cases)
    <2>1. /\ n + 1 \in 1 .. 10 /\ Len(oracle'.cases) = n + 1
          /\ \A k \in 1 .. n : oracle'.cases[k] = oracle.cases[k]
          /\ oracle'.cases[n + 1].reachable <=> ok
      BY <1>2, ClosedCase
    <2>2. n \in 0 .. 10
      BY CasesAre
    <2>3. \A k \in 1 .. n : k \in 1 .. n + 1
      BY <2>2
    <2>4. n + 1 \in 1 .. n + 1
      BY <2>2
    <2>5. \A k \in 1 .. n + 1 : oracle'.cases[k].reachable
      BY <2>1 DEF Calm
    <2> QED  BY <2>1, <2>3, <2>4, <2>5 DEF Calm
  <1> QED  BY <1>1, <1>2 DEF Turns

\* Nothing happens between the oracle and the engine.
LEMMA AloneKept ==
    ASSUME Alone, Stays \/ Sends \/ Reports, style' = style, trace' = trace,
           sender[Grader].pc = "done" \/ engine' = engine,
           \A r \in inflight' : r.from = Grader =>
              \/ r \in inflight
              \/ Sends /\ r.nth = sender'[Grader].sent /\ r.order = Scenario[r.nth]
    PROVE  Alone'
  <1>1. oracle'.cases = oracle.cases
    BY DEF Stays, Sends, Reports
  <1>2. sender'[Grader].pc # "done" => sender[Grader].pc # "done" /\ engine' = engine
    BY DEF Stays, Sends, Reports
  <1>3. ASSUME NEW r \in inflight', r.from = Grader
        PROVE  /\ sender'[Grader].pc = "wait"
               /\ r.nth = sender'[Grader].sent /\ r.order = Scenario[r.nth]
    <2>1. CASE r \in inflight
      <3>1. /\ sender[Grader].pc = "wait"
            /\ r.nth = sender[Grader].sent /\ r.order = Scenario[r.nth]
        BY <1>3, <2>1 DEF Alone
      <3> QED  BY <3>1 DEF Stays, Sends, Reports
    <2>2. CASE Sends /\ r.nth = sender'[Grader].sent /\ r.order = Scenario[r.nth]
      BY <2>2 DEF Sends
    <2> QED  BY <1>3, <2>1, <2>2
  <1>4. trace' = [k \in 1 .. Len(oracle'.cases) |-> k]
    BY <1>1 DEF Alone
  <1>5. sender'[Grader].pc # "done" =>
          engine'.seen \subseteq {Key(Scenario[k]) : k \in 1 .. Len(oracle'.cases)}
    BY <1>1, <1>2 DEF Alone
  <1>6. style' = "reference" =>
          /\ \A k \in 1 .. Len(oracle'.cases) : oracle'.cases[k].pass
          /\ sender'[Grader].pc # "done" =>
               engine'.book = Expected(Len(oracle'.cases)).book
    BY <1>1, <1>2 DEF Alone
  <1>7. style' = "keeps" =>
          /\ Len(oracle'.cases) <= 7 /\ sender'[Grader].pc # "done" =>
               engine'.book = Held(Len(oracle'.cases))
          /\ Len(oracle'.cases) >= 8 => ~oracle'.cases[8].pass
    BY <1>1, <1>2 DEF Alone
  <1> QED  BY <1>3, <1>4, <1>5, <1>6, <1>7 DEF Alone

\* What the reference answers to the next order is what the oracle expects.
LEMMA NextExpected ==
    ASSUME NEW n \in 0 .. 9
    PROVE  /\ Apply(Expected(n).book, Scenario[n + 1]).book
                = Expected(n + 1).book
           /\ Apply(Expected(n).book, Scenario[n + 1]).filled
                = ExpectedFills[n + 1]
  <1>1. n + 1 \in 1 .. 10 /\ (n + 1) - 1 = n
    OBVIOUS
  <1>2. Expected(n + 1) = Turn(Expected(n), Scenario[n + 1])
    BY <1>1, ExpectedParts DEF ExpectedSteps
  <1>3. ExpectedFills[n + 1]
          = Apply(Expected(n).book, Scenario[n + 1]).filled
    BY <1>1, FillsAre DEF FillsExpected
  <1> QED  BY <1>2, <1>3 DEF Turn

\* The engine executes the order the oracle waits for.
LEMMA AloneServed ==
    ASSUME LoopInv, Alone, NEW r, Execute(r), r.from = Grader, ~foreign'
    PROVE  Alone'
  <1> DEFINE n == Len(oracle.cases)
             o == r.order
             E(k) == Key(Scenario[k])
  <1>1. /\ Shaped /\ r \in inflight /\ inflight' = inflight \ {r} /\ style' = style
        /\ sender[Grader].pc = "wait" /\ Waits(r)
        /\ r.nth = sender[Grader].sent /\ o = Scenario[r.nth]
    BY LoopParts, ExecuteParts DEF Alone, Waits
  <1>2. /\ n \in 0 .. 9 /\ n + 1 \in 1 .. 10 /\ o = Scenario[n + 1] /\ o.id = n + 1
    <2>1. n \in 0 .. 10 /\ n + 1 \in 1 .. 10 /\ o = Scenario[n + 1]
      BY <1>1, LoopParts
    <2>2. n \in 0 .. 9
      <3> HIDE DEF n
      <3> QED  BY <2>1
    <2>3. \A k \in 1 .. 10 : Scenario[k].id = k
      BY ScenarioParts
    <2> HIDE DEF n
    <2> QED  BY <2>1, <2>2, <2>3
  <1> DEFINE f == Answer(r).filled
  <1>3. Closes(f, TRUE)
    BY <1>1, ExecuteShapes
  <1>4. /\ Len(oracle'.cases) = n + 1
        /\ \A k \in 1 .. n : oracle'.cases[k] = oracle.cases[k]
        /\ oracle'.cases[n + 1].pass <=> f = ExpectedFills[n + 1]
        /\ sender'[Grader].pc = "idle"
    <2> HIDE DEF f
    <2> QED  BY <1>3, ClosedCase DEF Closes
  <1>5. engine.seen \subseteq {E(k) : k \in 1 .. n}
    BY <1>1 DEF Alone
  <1>6. ~SeenBefore(o)
    <2>1. ASSUME NEW k \in 1 .. n
          PROVE  E(k) # E(n + 1)
      <3>1. k \in 1 .. 10 /\ k # n + 1
        BY <1>2
      <3> QED  BY <1>2, <3>1, ScenarioParts
    <2>2. Key(o) = E(n + 1)
      BY <1>2
    <2> HIDE DEF E
    <2> QED  BY <1>5, <2>1, <2>2 DEF SeenBefore
  <1>7. Answer(r) = Outcome(engine.book, o) /\ engine'.book = Answer(r).book
    BY <1>1, <1>6, EngineParts DEF Answer
  <1>8. \A q \in inflight' : q.from # Grader
    <2>1. ASSUME NEW q \in inflight', q.from = Grader
          PROVE  FALSE
      <3>1. q \in inflight /\ q # r /\ q.nth = r.nth /\ q.order = o
        BY <1>1, <2>1 DEF Alone
      <3>2. q = [from |-> q.from, nth |-> q.nth, order |-> q.order]
            /\ r = [from |-> r.from, nth |-> r.nth, order |-> r.order]
        BY <1>1, <3>1 DEF Shaped
      <3> QED  BY <2>1, <3>1, <3>2
    <2> QED  BY <2>1
  <1>9. trace' = [k \in 1 .. n + 1 |-> k]
    <2>1. trace' = Append(trace, n + 1) /\ trace = [k \in 1 .. n |-> k]
      BY <1>2, ExecuteParts DEF Alone
    <2> PICK m \in 0 .. 9 : m = n
      BY <1>2
    <2>2. trace' = Append([k \in 1 .. m |-> k], m + 1)
      BY <2>1
    <2>3. Append([k \in 1 .. m |-> k], m + 1) = [k \in 1 .. m + 1 |-> k]
      OBVIOUS
    <2> QED  BY <2>2, <2>3
  <1>10. engine'.seen \subseteq {E(k) : k \in 1 .. n + 1}
    <2>1. engine'.seen \subseteq engine.seen \cup {Key(o)}
      BY <1>1, EngineParts
    <2>2. Key(o) = E(n + 1) /\ n + 1 \in 1 .. n + 1 /\ \A k \in 1 .. n : k \in 1 .. n + 1
      BY <1>2
    <2> HIDE DEF E, o
    <2> QED  BY <1>5, <2>1, <2>2
  <1>11. \A k \in 1 .. n + 1 : k \in 1 .. n \/ k = n + 1
    BY <1>2
  <1>12. style = "reference" => /\ \A k \in 1 .. n + 1 : oracle'.cases[k].pass
                                /\ engine'.book = Expected(n + 1).book
    <2> SUFFICES ASSUME style = "reference"
                 PROVE  /\ \A k \in 1 .. n + 1 : oracle'.cases[k].pass
                        /\ engine'.book = Expected(n + 1).book
      OBVIOUS
    <2>1. Answer(r) = Apply(Expected(n).book, Scenario[n + 1])
      <3>1. engine.book = Expected(n).book
        BY <1>1 DEF Alone
      <3>2. Outcome(engine.book, o) = Apply(engine.book, o)
        BY DEF Outcome
      <3> QED  BY <1>2, <1>7, <3>1, <3>2
    <2>2. f = ExpectedFills[n + 1] /\ engine'.book = Expected(n + 1).book
      BY <1>2, <1>7, <2>1, NextExpected
    <2>3. \A k \in 1 .. n : oracle.cases[k].pass
      BY DEF Alone
    <2> HIDE DEF f
    <2> QED  BY <1>4, <1>11, <2>2, <2>3
  <1>13. style = "keeps" => /\ n + 1 <= 7 => engine'.book = Held(n + 1)
                            /\ n + 1 >= 8 => ~oracle'.cases[8].pass
    <2> SUFFICES ASSUME style = "keeps"
                 PROVE  /\ n + 1 <= 7 => engine'.book = Held(n + 1)
                        /\ n + 1 >= 8 => ~oracle'.cases[8].pass
      OBVIOUS
    <2>1. n <= 7 => engine.book = Held(n)
      BY <1>1 DEF Alone
    <2>2. n # 6 => Outcome(engine.book, o) = Apply(engine.book, o)
      <3>1. n # 6 => o.type # "cancel"
        <4> HIDE DEF n, o
        <4>1. n # 6 => n + 1 # 7
          BY <1>2
        <4> QED  BY <1>2, <4>1, CancelsOne
      <3> QED  BY <3>1 DEF Outcome
    <2>3. n = 6 => Outcome(engine.book, o).book = engine.book
      <3>1. ASSUME n = 6
            PROVE  o.type = "cancel"
        <4>1. 7 \in 1 .. 10 /\ o = Scenario[7]
          BY <1>2, <3>1
        <4> QED  BY <4>1, CancelsOne
      <3> QED  BY <3>1 DEF Outcome
    <2>4. CASE n <= 5
      <3>1. engine.book = Expected(n).book
        BY <1>2, <2>1, <2>4 DEF Held
      <3>2. engine'.book = Expected(n + 1).book
        <4>1. n # 6
          <5> HIDE DEF n
          <5> QED  BY <2>4
        <4>2. engine'.book = Apply(engine.book, o).book
          BY <1>7, <2>2, <4>1
        <4> QED  BY <1>2, <3>1, <4>2, NextExpected
      <3> QED  BY <1>2, <2>4, <3>2 DEF Held
    <2>5. CASE n = 6
      BY <1>7, <2>1, <2>3, <2>5 DEF Held
    <2>6. CASE n = 7
      <3>1. engine.book = Expected(6).book /\ o = Scenario[8]
        BY <1>2, <2>1, <2>6 DEF Held
      <3>2. f = Apply(Expected(6).book, Scenario[8]).filled
        BY <1>7, <2>2, <2>6, <3>1
      <3>3. f = 2 /\ ExpectedFills[8] = 0
        BY <3>2, LastBooks
      <3> QED  BY <1>4, <2>6, <3>3
    <2>7. CASE n >= 8
      <3>1. ~oracle.cases[8].pass /\ 8 \in 1 .. n
        BY <1>2, <2>7 DEF Alone
      <3>2. oracle'.cases[8] = oracle.cases[8]
        BY <1>4, <3>1
      <3> QED  BY <1>2, <2>7, <3>1, <3>2
    <2>8. n <= 5 \/ n = 6 \/ n = 7 \/ n >= 8
      <3> HIDE DEF n
      <3> QED  BY <1>2
    <2> QED  BY <2>4, <2>5, <2>6, <2>7, <2>8
  <1> HIDE DEF E, f, o
  <1> QED  BY <1>1, <1>4, <1>8, <1>9, <1>10, <1>12, <1>13 DEF Alone, E

LEMMA AloneNext ==
    ASSUME LoopInv, Calm => Alone, VNext \/ UNCHANGED vvars, Calm'
    PROVE  Alone'
  <1>1. Shaped /\ Turns
    BY LoopParts, NextShapes
  <1>2. \A f : ~foreign' /\ ~foreign => ~Closes(f, FALSE)
    <2>1. ~foreign' /\ ~foreign => \A f, ok : ok \in BOOLEAN /\ Closes(f, ok) => ok
      BY <1>1, CalmBefore
    <2> QED  BY <2>1
  <1>3. ~foreign'
    BY DEF Calm
  <1>4. ~foreign => Alone
    BY <1>1, <1>3, CalmBefore
  <1>5. ASSUME NEW r \in Runs, NEW p \in Profiles, StartRun(r, p)
        PROVE  Alone'
    BY <1>3, <1>4, <1>5, AloneKept DEF StartRun, Stays
  <1>6. ASSUME NEW r \in Runs, EndRun(r)
        PROVE  Alone'
    BY <1>3, <1>4, <1>6, AloneKept DEF EndRun, Stays
  <1>7. ASSUME NEW s \in Senders, NEW o, Send(s, o)
        PROVE  Alone'
    <2>1. /\ foreign' = foreign /\ trace' = trace /\ engine' = engine /\ style' = style
          /\ inflight' = inflight \cup {[from |-> s, nth |-> sender[s].sent + 1, order |-> o]}
          /\ sender' = [sender EXCEPT ![s] = [pc |-> "wait", sent |-> sender[s].sent + 1]]
      BY <1>7 DEF Send, NextId
    <2>2. Stays \/ Sends
      BY <1>1, <1>7, SendShapes
    <2>3. PICK e : e = [from |-> s, nth |-> sender[s].sent + 1, order |-> o]
      OBVIOUS
    <2>4. e.from = s /\ e.order = o /\ e.nth = sender[s].sent + 1
      BY <2>3
    <2>5. s = Grader =>
            Sends /\ e.nth = sender'[Grader].sent /\ o = Scenario[e.nth]
      <3>1. s = Grader => Sends
        BY <1>1, <1>7, SendShapes
      <3>2. s = Grader => o = Scenario[sender[Grader].sent + 1]
        BY <1>7, GraderOffers DEF Send
      <3>3. Sends => sender'[Grader].sent = sender[Grader].sent + 1
        BY DEF Sends
      <3> QED  BY <2>4, <3>1, <3>2, <3>3
    <2>6. \A r \in inflight' : r.from = Grader =>
            \/ r \in inflight
            \/ Sends /\ r.nth = sender'[Grader].sent /\ r.order = Scenario[r.nth]
      BY <2>1, <2>3, <2>4, <2>5
    <2> QED  BY <1>3, <1>4, <2>1, <2>2, <2>6, AloneKept
  <1>8. ASSUME NEW s \in Senders, NEW o, Unreachable(s, o)
        PROVE  Alone'
    <2>1. /\ foreign' = foreign /\ trace' = trace /\ engine' = engine /\ style' = style
          /\ inflight' = inflight
      BY <1>8 DEF Unreachable
    <2>2. Stays
      BY <1>1, <1>2, <1>3, <1>8, <2>1, UnreachableShapes
    <2> QED  BY <1>3, <1>4, <2>1, <2>2, AloneKept
  <1>9. ASSUME NEW s \in Senders, SkipLine(s)
        PROVE  Alone'
    <2>1. /\ foreign' = foreign /\ trace' = trace /\ engine' = engine /\ style' = style
          /\ inflight' = inflight /\ oracle' = oracle /\ s # Grader
          /\ sender' = [sender EXCEPT ![s].sent = @ + 1]
      BY <1>9, LoopParts DEF SkipLine
    <2>2. Stays
      BY <1>1, <2>1, LoopParts DEF Stays, Shaped
    <2> QED  BY <1>3, <1>4, <2>1, <2>2, AloneKept
  <1>10. ASSUME NEW s \in Senders, GiveUp(s)
         PROVE  Alone'
    <2>1. /\ foreign' = foreign /\ trace' = trace /\ engine' = engine /\ style' = style
          /\ inflight' = inflight
      BY <1>10 DEF GiveUp
    <2>2. Stays
      BY <1>1, <1>2, <1>3, <1>10, <2>1, GiveUpShapes
    <2> QED  BY <1>3, <1>4, <2>1, <2>2, AloneKept
  <1>11. ASSUME NEW r \in inflight, Execute(r)
         PROVE  Alone'
    <2>1. /\ foreign' = (foreign \/ (r.from # Grader /\ ~Validated))
          /\ trace' = IF foreign' THEN <<>>
                      ELSE IF r.from = Grader THEN Append(trace, r.order.id) ELSE trace
          /\ style' = style /\ inflight' \subseteq inflight
      BY <1>11, ExecuteParts
    <2>2. Alone
      BY <1>3, <1>4, <2>1
    <2>3. CASE r.from = Grader
      BY <1>3, <1>11, <2>2, <2>3, AloneServed
    <2>4. CASE r.from # Grader
      <3>1. sender[Grader].pc = "done" /\ trace' = trace
        BY <1>3, <2>1, <2>4 DEF Validated, Grader
      <3>2. Stays
        BY <1>1, <1>11, <2>4, ExecuteShapes
      <3> QED  BY <2>1, <2>2, <3>1, <3>2, AloneKept
    <2> QED  BY <2>3, <2>4
  <1>12. ASSUME StopEngine
         PROVE  Alone'
    <2>1. /\ engine' = [engine EXCEPT !.up = FALSE] /\ inflight' = {}
          /\ UNCHANGED <<sender, oracle, style, trace, foreign>>
      BY <1>12 DEF StopEngine
    <2>2. engine'.book = engine.book /\ engine'.seen = engine.seen
      BY <1>1, <2>1 DEF Shaped
    <2> QED  BY <1>3, <1>4, <2>1, <2>2 DEF Alone
  <1>13. ASSUME Expire
         PROVE  Alone'
    <2>1. /\ oracle' = [oracle EXCEPT !.expired = TRUE]
          /\ UNCHANGED <<engine, inflight, sender, style, trace, foreign>>
      BY <1>13 DEF Expire
    <2>2. Stays
      BY <1>1, <2>1 DEF Stays, Shaped
    <2> QED  BY <1>3, <1>4, <2>1, <2>2, AloneKept
  <1>14. ASSUME Report
         PROVE  Alone'
    <2>1. UNCHANGED <<engine, inflight, oracle, style, trace, foreign>>
          /\ sender' = [sender EXCEPT ![Grader].pc = "done"]
          /\ sender[Grader].pc = "idle" /\ sender[Grader].sent = 10
      BY <1>14, ScenarioParts DEF Report, Grader
    <2>2. Reports
      BY <1>1, <2>1, LoopParts DEF Reports, Shaped
    <2> QED  BY <1>3, <1>4, <2>1, <2>2, AloneKept
  <1>15. ASSUME UNCHANGED vvars
         PROVE  Alone'
    <2>1. UNCHANGED <<engine, inflight, oracle, sender, style, trace, foreign>>
      BY <1>15 DEF vvars
    <2> QED  BY <1>3, <1>4, <2>1, AloneKept DEF Stays
  <1> QED  BY <1>5, <1>6, <1>7, <1>8, <1>9, <1>10, <1>11, <1>12, <1>13, <1>14, <1>15
           DEF VNext, Attempt

LEMMA AloneHolds == VSpec => [](LoopInv /\ (Calm => Alone))
  <1>1. VInit => (Calm => Alone)
    <2> SUFFICES ASSUME VInit
                 PROVE  Alone
      OBVIOUS
    <2>1. /\ inflight = {} /\ oracle = [cases |-> <<>>, expired |-> FALSE] /\ trace = <<>>
          /\ engine = [up |-> TRUE, book |-> EmptyBook, seen |-> {}]
      BY DEF VInit
    <2>2. Len(oracle.cases) = 0 /\ trace = [k \in 1 .. 0 |-> k]
      BY <2>1
    <2>3. engine.book = Expected(0).book
      BY <2>1, SameBook, ExpectedParts DEF ExpectedSteps, Opening
    <2> QED  BY <2>1, <2>2, <2>3 DEF Alone, Held
  <1>2. LoopInv /\ (Calm => Alone) /\ [VNext]_vvars => (Calm => Alone)'
    BY AloneNext
  <1> QED  BY <1>1, <1>2, LoopInvHolds, PTL DEF VSpec

\* The cases that pass, counted.
Passes == {k \in 1 .. Len(oracle.cases) : oracle.cases[k].pass}

LEMMA PassesAre ==
    ASSUME LoopInv
    PROVE  /\ Passed = Cardinality(Passes) /\ Passes \subseteq 1 .. Len(oracle.cases)
           /\ IsFiniteSet(Passes) /\ Passed \in Nat
           /\ Validated =>
                /\ Len(oracle.cases) = 10
                /\ Passed = 10 <=> \A k \in 1 .. 10 : oracle.cases[k].pass
                /\ Passed <= 10
  <1>1. /\ Len(oracle.cases) \in 0 .. 10 /\ DOMAIN oracle.cases = 1 .. Len(oracle.cases)
    BY CasesAre
  <1>2. Passed = Cardinality(Passes)
    <2>1. \A S : Cardinality(S) = Cardinality(S)
      BY DEF Cardinality
    <2>2. Passed = Cardinality(Passes)
      BY <1>1 DEF Passed, Cases, Passes
    <2> QED  BY <2>1, <2>2
  <1>3. /\ IsFiniteSet(1 .. Len(oracle.cases)) /\ Passes \subseteq 1 .. Len(oracle.cases)
        /\ Cardinality(1 .. Len(oracle.cases)) = Len(oracle.cases)
    BY <1>1, FS_Interval DEF Passes
  <1>4. /\ IsFiniteSet(Passes) /\ Cardinality(Passes) \in Nat
        /\ Cardinality(Passes) <= Len(oracle.cases)
        /\ Cardinality(Passes) = Len(oracle.cases) => Passes = 1 .. Len(oracle.cases)
    BY <1>3, FS_Subset, FS_CardinalityType
  <1>5. Validated => Len(oracle.cases) = 10
    BY LoopParts DEF Validated, Grader
  <1>6. (Passes = 1 .. Len(oracle.cases)) <=> \A k \in 1 .. Len(oracle.cases) : oracle.cases[k].pass
    BY DEF Passes
  <1>7. Passes = 1 .. Len(oracle.cases) => Cardinality(Passes) = Len(oracle.cases)
    BY <1>3
  <1>8. ASSUME Validated
        PROVE  /\ Len(oracle.cases) = 10
               /\ Passed = 10 <=> \A k \in 1 .. 10 : oracle.cases[k].pass
               /\ Passed <= 10
    <2>1. Len(oracle.cases) = 10
      BY <1>5, <1>8
    <2>2. PICK c : c = Cardinality(Passes)
      OBVIOUS
    <2>3. c <= 10 /\ (c = 10 => Passes = 1 .. 10) /\ (Passes = 1 .. 10 => c = 10)
      <3>1. PICK k : k = Len(oracle.cases)
        OBVIOUS
      <3>2. c <= k /\ (c = k => Passes = 1 .. k) /\ (Passes = 1 .. k => c = k)
        BY <1>4, <1>7, <2>2, <3>1
      <3>3. k = 10
        BY <2>1, <3>1
      <3> QED  BY <3>2, <3>3
    <2>4. Passes = 1 .. 10 <=> \A k \in 1 .. 10 : oracle.cases[k].pass
      BY <1>6, <2>1
    <2> QED  BY <1>2, <2>1, <2>2, <2>3, <2>4
  <1>9. Passes \subseteq 1 .. Len(oracle.cases) /\ IsFiniteSet(Passes) /\ Passed \in Nat
    <2>1. Passes \subseteq 1 .. Len(oracle.cases)
      BY <1>3
    <2>2. IsFiniteSet(Passes) /\ Passed \in Nat
      BY <1>2, <1>4
    <2> QED  BY <2>1, <2>2
  <1> QED  BY <1>2, <1>8, <1>9

\* An engine that does what the reference book does passes every case of the
\* oracle, as long as each order was answered and nobody else traded.
THEOREM CorrectEnginePasses == VSpec => []CorrectEngineScoresFull
  <1>1. LoopInv /\ (Calm => Alone) => CorrectEngineScoresFull
    <2> SUFFICES ASSUME LoopInv, Calm => Alone, Validated,
                        style = "reference", Undisturbed
                 PROVE  Passed = Len(Scenario)
      BY DEF CorrectEngineScoresFull
    <2>1. Alone
      BY AloneIs
    <2>2. Len(oracle.cases) = 10 /\ \A k \in 1 .. 10 : oracle.cases[k].pass
      BY <2>1, PassesAre DEF Alone
    <2> QED  BY <2>2, PassesAre, ScenarioParts
  <1> QED  BY <1>1, AloneHolds, PTL

\* With no other orders about, a full score means the engine executed the
\* whole scenario, in its order.
THEOREM FullScoreInOrder == VSpec => []FullScoreMeansInOrder
  <1>1. LoopInv /\ (Calm => Alone) => FullScoreMeansInOrder
    <2> SUFFICES ASSUME LoopInv, Calm => Alone, Validated, ~foreign,
                        Passed = Len(Scenario)
                 PROVE  trace = [k \in 1 .. 10 |-> k]
      BY DEF FullScoreMeansInOrder
    <2>1. Len(oracle.cases) = 10 /\ \A k \in 1 .. 10 : oracle.cases[k].pass
      BY PassesAre, ScenarioParts
    <2>2. \A k \in 1 .. 10 : oracle.cases[k].reachable
      BY <2>1, LoopParts
    <2>3. Alone
      BY <2>1, <2>2 DEF Calm
    <2> QED  BY <2>1, <2>3 DEF Alone
  <1> QED  BY <1>1, AloneHolds, PTL

\* An engine that never fills gets half of the cases at most, whatever is lost
\* or disturbed; one that ignores cancels loses the eighth.
THEOREM BrokenEngineLoses == VSpec => []BrokenEngineCaught
  <1>1. LoopInv /\ (Calm => Alone) => BrokenEngineCaught
    <2> SUFFICES ASSUME LoopInv, Calm => Alone, Validated
                 PROVE  /\ style = "deaf" => Passed <= 5
                        /\ style = "keeps" /\ ~foreign => Passed < Len(Scenario)
      BY DEF BrokenEngineCaught
    <2>1. Len(oracle.cases) = 10 /\ Len(Scenario) = 10
      BY PassesAre, ScenarioParts
    <2>2. ASSUME style = "deaf"
          PROVE  Passed <= 5
      <3>1. \A k \in Passes : k \in 1 .. 10 /\ ExpectedFills[k] = 0
        BY <2>1, <2>2, LoopParts DEF Passes
      <3>2. \A k \in 1 .. 10 : k \in {1, 2, 3, 4, 5, 6, 7, 8, 9, 10}
        OBVIOUS
      <3>3. 4 \notin Passes /\ 5 \notin Passes /\ 6 \notin Passes
            /\ 9 \notin Passes /\ 10 \notin Passes
        BY <3>1, FirstBooks, LastBooks
      <3>4. Passes \subseteq {1, 2, 3, 7, 8}
        BY <3>1, <3>2, <3>3
      <3>5. IsFiniteSet({1, 2, 3, 7, 8}) /\ Cardinality({1, 2, 3, 7, 8}) <= 5
        <4>1. ASSUME NEW S, NEW n \in Nat, IsFiniteSet(S), Cardinality(S) <= n, NEW x
              PROVE  IsFiniteSet(S \cup {x}) /\ Cardinality(S \cup {x}) <= n + 1
          <5>1. Cardinality(S) \in Nat
            BY <4>1, FS_CardinalityType
          <5>2. IsFiniteSet(S \cup {x})
                /\ \/ Cardinality(S \cup {x}) = Cardinality(S)
                   \/ Cardinality(S \cup {x}) = Cardinality(S) + 1
            BY <4>1, FS_AddElement
          <5> QED  BY <4>1, <5>1, <5>2
        <4>2. PICK A, B, C, D, E : /\ A = {} \cup {1} /\ B = A \cup {2} /\ C = B \cup {3}
                                   /\ D = C \cup {7} /\ E = D \cup {8}
          OBVIOUS
        <4>3. IsFiniteSet(A) /\ Cardinality(A) <= 1
          <5>1. IsFiniteSet({}) /\ Cardinality({}) <= 0
            BY FS_EmptySet
          <5>2. IsFiniteSet({} \cup {1}) /\ Cardinality({} \cup {1}) <= 0 + 1
            BY <4>1, <5>1
          <5> QED  BY <4>2, <5>2
        <4>4. IsFiniteSet(B) /\ Cardinality(B) <= 2
          <5>1. IsFiniteSet(A \cup {2}) /\ Cardinality(A \cup {2}) <= 1 + 1
            BY <4>1, <4>3
          <5> QED  BY <4>2, <5>1
        <4>5. IsFiniteSet(C) /\ Cardinality(C) <= 3
          <5>1. IsFiniteSet(B \cup {3}) /\ Cardinality(B \cup {3}) <= 2 + 1
            BY <4>1, <4>4
          <5> QED  BY <4>2, <5>1
        <4>6. IsFiniteSet(D) /\ Cardinality(D) <= 4
          <5>1. IsFiniteSet(C \cup {7}) /\ Cardinality(C \cup {7}) <= 3 + 1
            BY <4>1, <4>5
          <5> QED  BY <4>2, <5>1
        <4>7. IsFiniteSet(E) /\ Cardinality(E) <= 5
          <5>1. IsFiniteSet(D \cup {8}) /\ Cardinality(D \cup {8}) <= 4 + 1
            BY <4>1, <4>6
          <5> QED  BY <4>2, <5>1
        <4>8. E = {1, 2, 3, 7, 8}
          BY <4>2
        <4> QED  BY <4>7, <4>8
      <3>6. Cardinality(Passes) <= Cardinality({1, 2, 3, 7, 8})
            /\ Cardinality({1, 2, 3, 7, 8}) \in Nat
        BY <3>4, <3>5, FS_Subset, FS_CardinalityType
      <3> QED  BY <3>5, <3>6, PassesAre
    <2>3. ASSUME style = "keeps", ~foreign, Passed = 10
          PROVE  FALSE
      <3>1. \A k \in 1 .. 10 : oracle.cases[k].pass
        BY <2>3, PassesAre
      <3>2. \A k \in 1 .. 10 : oracle.cases[k].reachable
        BY <2>1, <3>1, LoopParts
      <3>3. Alone
        BY <2>1, <2>3, <3>2 DEF Calm
      <3> QED  BY <2>1, <2>3, <3>1, <3>3 DEF Alone
    <2>4. Passed \in Nat /\ Passed <= 10
      BY PassesAre
    <2> QED  BY <2>1, <2>2, <2>3, <2>4
  <1> QED  BY <1>1, AloneHolds, PTL

-----------------------------------------------------------------------------
(* What the other senders send.                                            *)

\* A line of the file, and where it stands.
LEMMA LineParts ==
    ASSUME TradingDay, NEW n \in Nat \ {0}
    PROVE  /\ Len(File) \in Nat \ {0}
           /\ ((n - 1) % Len(File)) + 1 \in 1 .. Len(File)
           /\ (n - 1) \div Len(File) \in Nat
           /\ n - 1 = Len(File) * ((n - 1) \div Len(File)) + ((n - 1) % Len(File))
           /\ Line(n) = File[((n - 1) % Len(File)) + 1]
           /\ Line(n) \in [etype : Int, oid : Int, size : Int, px : Int, dir : Int]
           /\ Line(n).etype = 1 => Line(n).size > 0 /\ Line(n).px >= 100
  <1> DEFINE Event == [etype : Int, oid : Int, size : Int, px : Int, dir : Int]
  <1>1. /\ File \in Seq(Event) /\ File # <<>>
        /\ \A k \in DOMAIN File : File[k].etype = 1 => File[k].size > 0 /\ File[k].px >= 100
    BY DEF TradingDay
  <1> HIDE DEF Event
  <1>2. PICK L : L = Len(File)
    OBVIOUS
  <1>3. L \in Nat \ {0} /\ DOMAIN File = 1 .. L /\ \A k \in 1 .. L : File[k] \in Event
    BY <1>1, <1>2, LenProperties, ElementOfSeq, EmptySeq
  <1>4. PICK m \in Nat : m = n - 1
    OBVIOUS
  <1>5. m % L \in 0 .. L - 1 /\ m \div L \in Nat /\ m = L * (m \div L) + (m % L)
    BY <1>3
  <1>6. (m % L) + 1 \in 1 .. L
    BY <1>3, <1>5
  <1>7. Line(n) = File[(m % L) + 1]
    BY <1>2, <1>4 DEF Line
  <1> QED  BY <1>1, <1>2, <1>3, <1>4, <1>5, <1>6, <1>7 DEF Event

LEMMA OffersTyped ==
    ASSUME TradingDay, SoundDraws, Shaped,
           NEW s \in Senders, NEW o \in Offers(s)
    PROVE  WellFormed(o)
  <1>1. PICK n \in Nat \ {0} : n = sender[s].sent + 1
    BY DEF Shaped
  <1>2. CASE s = Grader
    <2>1. n \in 1 .. 10 /\ o = Scenario[n]
      BY <1>1, <1>2, GraderOffers
    <2> QED  BY <2>1, ScenarioParts
  <1>3. CASE s # Grader /\ s[2] = ReplayClient
    <2>1. o = ReplayOrder(n)
      BY <1>1, <1>3 DEF Offers, Grader
    <2>2. ReplayId(n) \in Int
      <3>1. Line(n).oid \in Int /\ (n - 1) \div Len(File) \in Nat
        BY LineParts
      <3>2. PICK d \in Nat : d = (n - 1) \div Len(File)
        BY <3>1
      <3>3. Offset * d \in Nat
        BY DEF TradingDay
      <3> QED  BY <3>1, <3>2, <3>3 DEF ReplayId
    <2>3. CASE Line(n).etype = 1
      <3>1. /\ Line(n).size \in Int /\ Line(n).size > 0
            /\ Line(n).px \in Int /\ Line(n).px >= 100
        BY <2>3, LineParts
      <3>2. PICK p \in Int : p = Line(n).px /\ p >= 100
        BY <3>1
      <3>3. p \div 100 \in Nat \ {0}
        BY <3>2
      <3>4. /\ o.type = "limit" /\ o.side \in {"buy", "sell"} /\ o.id = ReplayId(n)
            /\ o.qty = Line(n).size /\ o.px = p \div 100
        BY <2>1, <2>3, <3>2 DEF ReplayOrder
      <3> QED  BY <2>2, <3>1, <3>3, <3>4, SameBook, SMTT(60) DEF WellFormed, Sides
    <2>4. CASE Line(n).etype # 1
      <3>1. o.type = "cancel" /\ o.id = ReplayId(n)
        BY <2>1, <2>4 DEF ReplayOrder
      <3> QED  BY <2>2, <3>1 DEF WellFormed
    <2> QED  BY <2>3, <2>4
  <1>4. CASE s # Grader /\ s[2] # ReplayClient
    <2>1. PICK t \in BotOrders : o = BotOrder(s, t)
      BY <1>4 DEF Offers, Grader
    <2>2. /\ t.type \in {"limit", "market", "cancel"} /\ t.side \in Sides
          /\ t.px \in Nat \ {0} /\ t.qty \in Nat \ {0}
      BY DEF SoundDraws
    <2>3. o.type = t.type /\ o.side = t.side /\ o.px = t.px /\ o.qty = t.qty /\ o.id = n
      BY <1>1, <2>1 DEF BotOrder, NextId
    <2> QED  BY <2>2, <2>3 DEF WellFormed
  <1> QED  BY <1>2, <1>3, <1>4

\* What a step does to the orders under way: one is sent, one is executed, or
\* none but those that the engine takes with it are touched.
Quiet ==
    /\ inflight' \subseteq inflight /\ refused' = refused
    /\ engine'.book = engine.book /\ engine'.seen = engine.seen

LEMMA StepKinds ==
    ASSUME Shaped, VNext \/ UNCHANGED vvars
    PROVE  \/ Quiet
           \/ \E s \in Senders : \E o \in Offers(s) : Send(s, o)
           \/ \E r \in inflight : Execute(r)
  <1>1. ASSUME NEW r \in Runs, (\E p \in Profiles : StartRun(r, p)) \/ EndRun(r)
        PROVE  Quiet
    BY <1>1 DEF StartRun, EndRun, Quiet
  <1>2. ASSUME NEW s \in Senders, NEW o, Unreachable(s, o)
        PROVE  Quiet
    BY <1>2 DEF Unreachable, Quiet
  <1>3. ASSUME NEW s \in Senders, SkipLine(s) \/ GiveUp(s)
        PROVE  Quiet
    BY <1>3 DEF SkipLine, GiveUp, Quiet
  <1>4. ASSUME StopEngine
        PROVE  Quiet
    BY <1>4 DEF StopEngine, Quiet, Shaped
  <1>5. ASSUME Expire \/ Report \/ UNCHANGED vvars
        PROVE  Quiet
    BY <1>5 DEF Expire, Report, vvars, Quiet
  <1> QED  BY <1>1, <1>2, <1>3, <1>4, <1>5 DEF VNext, Attempt

-----------------------------------------------------------------------------
(* The types of the variables.                                             *)

Top == Max({Len(Scenario), PerBot, Lines})

Typed ==
    /\ engine.book \in Books
    /\ \A r \in inflight : WellFormed(r.order) /\ sender[r.from].sent > 0
    /\ \A s \in Senders : /\ sender[s].pc \in {"idle", "wait", "done"}
                          /\ sender[s].sent \in 0 .. Top

LEMMA TopIs ==
    ASSUME SoundDraws
    PROVE  Top \in Nat /\ 10 <= Top /\ PerBot <= Top /\ Lines <= Top
  <1>1. \A a, b, c \in Nat : \E x \in {a, b, c} : \A y \in {a, b, c} : x >= y
    OBVIOUS
  <1>2. ASSUME NEW a \in Nat, NEW b \in Nat, NEW c \in Nat, NEW S, S = {a, b, c}
        PROVE  Max(S) \in S /\ \A y \in S : Max(S) >= y
    <2>1. \E x \in S : \A y \in S : x >= y
      BY <1>1, <1>2
    <2> QED  BY <2>1 DEF Max
  <1>3. Len(Scenario) = 10 /\ PerBot \in Nat /\ Lines \in Nat
    BY ScenarioParts DEF SoundDraws
  <1>4. PICK S : S = {10, PerBot, Lines}
    OBVIOUS
  <1>5. Top = Max(S)
    BY <1>3, <1>4 DEF Top
  <1>6. Max(S) \in S /\ \A y \in S : Max(S) >= y
    BY <1>2, <1>3, <1>4
  <1> QED  BY <1>3, <1>4, <1>5, <1>6

\* The engine's book keeps its type, whichever way the engine behaves.
LEMMA OutcomeTyped ==
    ASSUME NEW b \in Books, NEW o, WellFormed(o)
    PROVE  Outcome(b, o).book \in Books
  <1>1. CASE style = "deaf" \/ (style = "keeps" /\ o.type = "cancel")
    <2>1. Outcome(b, o) = [book |-> b, filled |-> 0]
      BY <1>1 DEF Outcome
    <2> QED  BY <2>1
  <1> DEFINE rev == Reverse(b[Opposite(o.side)])
             worst == Fill(o, rev)
  <1>2. CASE style = "worst first" /\ o.type # "cancel" /\ worst.rem = 0
    <2>1. /\ o.side \in Sides /\ o.qty \in Nat
          /\ Opposite(o.side) = Opposite(o.side) /\ Opposite(o.side) \in Sides
      BY <1>2, SameBook DEF WellFormed, Opposite, Sides
    <2>2. \A M \in Seq(Maker) : Reverse(M) \in Seq(Maker)
      <3>1. ASSUME NEW M \in Seq(Maker)
            PROVE  [i \in 1 .. Len(M) |-> M[(Len(M) - i) + 1]] \in Seq(Maker)
        <4>1. PICK L \in Nat : L = Len(M)
          BY LenProperties
        <4>2. \A i \in 1 .. L : (L - i) + 1 \in 1 .. L
          BY <4>1
        <4>3. \A i \in 1 .. L : M[i] \in Maker
          BY <4>1, ElementOfSeq
        <4>4. \A i \in 1 .. L : M[(L - i) + 1] \in Maker
          BY <4>2, <4>3
        <4>5. [i \in 1 .. L |-> M[(L - i) + 1]] \in [1 .. L -> Maker]
          BY <4>4
        <4>6. [1 .. L -> Maker] \subseteq Seq(Maker)
          BY SeqDef
        <4> QED  BY <4>1, <4>5, <4>6
      <3> QED  BY <3>1 DEF Reverse
    <2>3. rev \in Seq(Maker)
      BY <2>1, <2>2 DEF Books
    <2> HIDE DEF rev
    <2>4. PICK f \in FillState : f = worst
      BY <2>1, <2>3, FillTyped, SameBook
    <2>5. f.left \in Seq(Maker)
      BY DEF FillState
    <2>6. PICK back \in Seq(Maker) : back = Reverse(f.left)
      BY <2>2, <2>5
    <2>7. Outcome(b, o)
            = [book |-> [b EXCEPT ![Opposite(o.side)] = back], filled |-> o.qty]
      BY <1>2, <2>1, <2>4, <2>6 DEF Outcome, rev
    <2>8. [b EXCEPT ![Opposite(o.side)] = back] \in Books
      BY <2>1 DEF Books
    <2> QED  BY <2>7, <2>8
  <1>3. CASE ~(style = "deaf" \/ (style = "keeps" /\ o.type = "cancel"))
             /\ ~(style = "worst first" /\ o.type # "cancel" /\ worst.rem = 0)
    <2>1. Outcome(b, o) = Apply(b, o)
      BY <1>3 DEF Outcome
    <2> QED  BY <2>1, ApplyTyped
  <1> QED  BY <1>1, <1>2, <1>3

LEMMA TypedNext ==
    ASSUME TradingDay, SoundDraws, Shaped, Typed,
           VNext \/ UNCHANGED vvars
    PROVE  Typed'
  <1>1. Shaped' /\ \A t \in Senders : Paces(t)
    BY NextShapes DEF Turns
  <1>2. ASSUME NEW s \in Senders
        PROVE  /\ sender'[s].pc \in {"idle", "wait", "done"}
               /\ sender'[s].sent \in 0 .. Top /\ sender'[s].sent >= sender[s].sent
    <2>1. /\ sender'[s].pc \in {"idle", "wait", "done", sender[s].pc}
          /\ sender'[s].sent \in Nat
          /\ \/ sender'[s].sent = sender[s].sent
             \/ sender'[s].sent = sender[s].sent + 1 /\ InBounds(sender'[s].sent)
      BY <1>1 DEF Paces
    <2>2. sender[s].pc \in {"idle", "wait", "done"} /\ sender[s].sent \in 0 .. Top
      BY DEF Typed
    <2>3. PerBot \in Nat /\ Lines \in Nat
      BY DEF SoundDraws
    <2>4. InBounds(sender'[s].sent) => sender'[s].sent <= Top
      BY <2>1, <2>3, TopIs DEF InBounds
    <2> QED  BY <2>1, <2>2, <2>4, TopIs
  <1>3. ASSUME NEW r \in inflight
        PROVE  WellFormed(r.order) /\ sender'[r.from].sent > 0
    <2>1. PICK s \in Senders : s = r.from
      BY DEF Shaped
    <2>2. sender'[s].sent \in 0 .. Top /\ sender'[s].sent >= sender[s].sent
          /\ sender[s].sent > 0 /\ sender[s].sent \in 0 .. Top
      BY <1>2, <2>1 DEF Typed
    <2> QED  BY <2>1, <2>2, TopIs DEF Typed
  <1>4. CASE Quiet
    <2>1. engine'.book \in Books /\ inflight' \subseteq inflight
      BY <1>4 DEF Quiet, Typed
    <2> QED  BY <1>2, <1>3, <2>1 DEF Typed
  <1>5. ASSUME NEW s \in Senders, NEW o \in Offers(s), Send(s, o)
        PROVE  Typed'
    <2>1. /\ inflight' = inflight \cup {[from |-> s, nth |-> sender[s].sent + 1, order |-> o]} /\ engine' = engine
          /\ sender' = [sender EXCEPT ![s] = [pc |-> "wait", sent |-> sender[s].sent + 1]]
      BY <1>5 DEF Send, NextId
    <2>2. PICK e : e = [from |-> s, nth |-> sender[s].sent + 1, order |-> o]
      OBVIOUS
    <2>3. e.from = s /\ e.order = o /\ WellFormed(o)
      BY <2>2, OffersTyped
    <2>4. sender'[s].sent = sender[s].sent + 1 /\ sender[s].sent \in Nat
      BY <2>1 DEF Shaped
    <2>5. WellFormed(e.order) /\ sender'[e.from].sent > 0
      BY <2>3, <2>4
    <2>6. engine'.book \in Books
      BY <2>1 DEF Typed
    <2> QED  BY <1>2, <1>3, <2>1, <2>2, <2>5, <2>6 DEF Typed
  <1>6. ASSUME NEW r \in inflight, Execute(r)
        PROVE  Typed'
    <2>1. engine'.book = Answer(r).book /\ inflight' \subseteq inflight
      BY <1>6, EngineParts, ExecuteParts
    <2>2. engine.book \in Books /\ WellFormed(r.order)
      BY DEF Typed
    <2>3. Outcome(engine.book, r.order).book \in Books
      BY <2>2, OutcomeTyped
    <2>4. Answer(r).book \in Books
      BY <2>2, <2>3 DEF Answer
    <2> QED  BY <1>2, <1>3, <2>1, <2>4 DEF Typed
  <1> QED  BY <1>4, <1>5, <1>6, StepKinds

LEMMA TypedHolds ==
    ASSUME TradingDay, SoundDraws
    PROVE  VSpec => [](LoopInv /\ Typed)
  <1>1. VInit => Typed
    <2> SUFFICES ASSUME VInit
                 PROVE  Typed
      OBVIOUS
    <2>1. /\ engine = [up |-> TRUE, book |-> EmptyBook, seen |-> {}] /\ inflight = {}
          /\ sender = [s \in Senders |-> [pc |-> "idle", sent |-> 0]]
      BY DEF VInit
    <2>2. engine.book \in Books
      <3>1. EmptyBook = [s \in Sides |-> <<>>] /\ <<>> \in Seq(Maker)
        BY SameBook, EmptySeq
      <3> QED  BY <2>1, <3>1 DEF Books
    <2>3. \A s \in Senders : sender[s].pc = "idle" /\ sender[s].sent = 0
      BY <2>1
    <2> QED  BY <2>1, <2>2, <2>3, TopIs DEF Typed
  <1>2. LoopInv /\ Typed /\ [VNext]_vvars => Typed'
    BY LoopParts, TypedNext
  <1> QED  BY <1>1, <1>2, LoopInvHolds, PTL DEF VSpec

\* The fills the oracle expects are those its comments and tests write down,
\* whatever the engine, the bots and the replay do, and every variable keeps
\* its type: the books hold makers of positive size, no order is under way
\* that was not counted, and no sender goes beyond its bounds.
THEOREM FillsDocumented == VSpec => []DocumentedFills
  <1>1. LoopInv /\ Typed => DocumentedFills
    <2> SUFFICES ASSUME LoopInv, Typed
                 PROVE  DocumentedFills
      OBVIOUS
    <2>1. /\ Len(oracle.cases) \in 0 .. 10 /\ DOMAIN oracle.cases = 1 .. Len(oracle.cases)
          /\ \A k \in 1 .. Len(oracle.cases) : oracle.cases[k].expected = ExpectedFills[k]
      BY CasesAre, LoopParts
    <2>2. \A k \in 1 .. 10 : ExpectedFills[k] = Documented[k]
      <3>1. /\ ExpectedFills[1] = 0 /\ ExpectedFills[2] = 0
            /\ ExpectedFills[3] = 0 /\ ExpectedFills[4] = 6
            /\ ExpectedFills[5] = 4
        BY FirstBooks
      <3>2. /\ ExpectedFills[6] = 3 /\ ExpectedFills[7] = 0
            /\ ExpectedFills[8] = 0 /\ ExpectedFills[9] = 2
            /\ ExpectedFills[10] = 11
        BY LastBooks
      <3>3. \A k \in 1 .. 10 : k \in {1, 2, 3, 4, 5, 6, 7, 8, 9, 10}
        OBVIOUS
      <3> DEFINE d == Documented
      <3>4. /\ d[1] = 0 /\ d[2] = 0 /\ d[3] = 0 /\ d[4] = 6 /\ d[5] = 4
            /\ d[6] = 3 /\ d[7] = 0 /\ d[8] = 0 /\ d[9] = 2 /\ d[10] = 11
        BY DEF Documented
      <3> HIDE DEF d
      <3> QED  BY <3>1, <3>2, <3>3, <3>4 DEF d
    <2>3. \A k \in 1 .. Len(oracle.cases) : k \in 1 .. 10
      <3>1. PICK n \in 0 .. 10 : n = Len(oracle.cases)
        BY <2>1
      <3>2. \A k \in 1 .. n : k \in 1 .. 10
        OBVIOUS
      <3> QED  BY <3>1, <3>2
    <2>4. \A k \in DOMAIN Cases : Cases[k].expected = Documented[k]
      BY <2>1, <2>2, <2>3 DEF Cases
    <2>5. ASSUME NEW s \in Sides, NEW k \in DOMAIN engine.book[s]
          PROVE  engine.book[s][k].qty \in Nat \ {0}
      <3>1. engine.book[s] \in Seq(Maker)
        BY SameBook DEF Typed, Books
      <3>2. engine.book[s][k] \in Maker
        BY <3>1, LenProperties, ElementOfSeq
      <3> QED  BY <3>2 DEF Maker
    <2>6. Len(Cases) <= Len(Scenario)
      <3>1. PICK n \in 0 .. 10 : n = Len(oracle.cases)
        BY <2>1
      <3>2. Len(Cases) = n /\ Len(Scenario) = 10
        BY <3>1, ScenarioParts DEF Cases
      <3>3. n <= 10
        OBVIOUS
      <3> QED  BY <3>2, <3>3
    <2>7. \A r \in inflight : r.from \in Senders /\ sender[r.from].sent > 0
      BY LoopParts DEF Shaped, Typed
    <2>8. VTypeOK
      BY <2>5, <2>6, <2>7 DEF VTypeOK, Typed, Top
    <2> QED  BY <2>4, <2>8 DEF DocumentedFills
  <1>2. VSpec => [](LoopInv /\ Typed)
    BY FileAssumption, BotsAssumption, TypedHolds
  <1> QED  BY <1>1, <1>2, PTL

-----------------------------------------------------------------------------
(* Ids that are fresh for their sender.                                    *)

\* The <<client, id>> pair of the n-th order of a sender, and whether the
\* engine remembers it: cancels of the file come under ids used before.
Name(s, n) ==
    IF s = Grader THEN Key(Scenario[n])
    ELSE <<s[2], IF s[2] = ReplayClient THEN ReplayId(n) ELSE n>>

Counts(s, n) ==
    IF s = Grader THEN n \in 1 .. 10
    ELSE s[2] = ReplayClient => Line(n).etype = 1

\* Adding a multiple of the offset leaves the remainder alone, and different
\* multiples of it differ.
LEMMA ShiftsKeepRemainder ==
    ASSUME NEW F \in Nat \ {0}, NEW a \in Int, NEW p \in Nat
    PROVE  (a + F * p) % F = a % F
  <1>1. PICK x \in Int : x = a + F * p
    OBVIOUS
  <1>2. PICK u \in Int, m \in 0 .. F - 1 : u = x \div F /\ m = x % F /\ x = F * u + m
    OBVIOUS
  <1>3. PICK v \in Int, n \in 0 .. F - 1 : v = a \div F /\ n = a % F /\ a = F * v + n
    OBVIOUS
  <1>4. PICK d \in Int : d = u - v - p
    OBVIOUS
  <1>5. F * d = F * u - F * v - F * p
    BY <1>4
  <1>6. F * d = n - m
    BY <1>1, <1>2, <1>3, <1>5
  <1>7. ~(d >= 1) /\ ~(d <= -1)
    <2>1. d >= 1 => F * d >= F
      <3>1. d >= 1 => d - 1 \in Nat /\ F * (d - 1) \in Nat /\ F * d = F + F * (d - 1)
        OBVIOUS
      <3> QED  BY <3>1
    <2>2. d <= -1 => F * d <= -F
      <3>1. d <= -1 => -1 - d \in Nat /\ F * (-1 - d) \in Nat /\ F * d = -F - F * (-1 - d)
        OBVIOUS
      <3> QED  BY <3>1
    <2> QED  BY <1>6, <2>1, <2>2
  <1>8. d = 0
    BY <1>7
  <1>9. F * d = 0
    BY <1>8
  <1>10. m = n
    BY <1>6, <1>9
  <1> QED  BY <1>1, <1>2, <1>3, <1>10

LEMMA ShiftsApart ==
    ASSUME NEW F \in Nat \ {0}, NEW p \in Nat, NEW q \in Nat, F * p = F * q
    PROVE  p = q
  <1>1. ASSUME NEW u \in Nat, NEW v \in Nat, u < v
        PROVE  F * u < F * v
    <2>1. PICK d \in Nat : v = u + 1 + d
      <3>1. v - u - 1 \in Nat /\ v = u + 1 + (v - u - 1)
        BY <1>1
      <3> QED  BY <3>1
    <2>2. F * v = F * u + F + F * d /\ F * d \in Nat /\ F * u \in Nat
      BY <2>1
    <2> QED  BY <2>2
  <1>2. ~(p < q) /\ ~(q < p)
    BY <1>1
  <1> QED  BY <1>2

\* The id of a line is its own, moved up by multiples of the offset, and two new
\* orders of the stream share one only if two new orders of the file do so.
LEMMA ReplayIdsApart ==
    ASSUME TradingDay, NEW j \in Nat \ {0}, NEW k \in Nat \ {0},
           Line(j).etype = 1, Line(k).etype = 1,
           ReplayId(j) = ReplayId(k), ~Clash(ReplayId(j))
    PROVE  j = k
  <1>1. PICK L \in Nat \ {0} : L = Len(File)
    BY LineParts
  <1>2. PICK a, p : a = (j - 1) % L /\ p = (j - 1) \div L
    OBVIOUS
  <1>3. PICK b, q : b = (k - 1) % L /\ q = (k - 1) \div L
    OBVIOUS
  <1>4. /\ a + 1 \in 1 .. L /\ p \in Nat /\ j - 1 = L * p + a
        /\ Line(j) = File[a + 1] /\ Line(j).oid \in Int
    BY <1>1, <1>2, LineParts
  <1>5. /\ b + 1 \in 1 .. L /\ q \in Nat /\ k - 1 = L * q + b
        /\ Line(k) = File[b + 1] /\ Line(k).oid \in Int
    BY <1>1, <1>3, LineParts
  <1>6. /\ Offset \in Nat \ {0} /\ DOMAIN File = 1 .. L
        /\ ReplayId(j) = Line(j).oid + Offset * p
        /\ ReplayId(k) = Line(k).oid + Offset * q
    BY <1>1, <1>2, <1>3, LenProperties DEF TradingDay, ReplayId
  <1>7. /\ Line(j).oid % Offset = ReplayId(j) % Offset
        /\ Line(k).oid % Offset = ReplayId(k) % Offset
        /\ Line(j).oid <= ReplayId(j) /\ Line(k).oid <= ReplayId(k)
    <2>1. ASSUME NEW o \in Int, NEW u \in Nat
          PROVE  (o + Offset * u) % Offset = o % Offset
      BY <1>6, ShiftsKeepRemainder
    <2>2. PICK r \in Int, s \in Int : r = Line(j).oid /\ s = Line(k).oid
      BY <1>4, <1>5
    <2>3. (r + Offset * p) % Offset = r % Offset /\ (s + Offset * q) % Offset = s % Offset
      BY <1>4, <1>5, <2>1
    <2>4. PICK u \in Nat, v \in Nat : u = Offset * p /\ v = Offset * q
      BY <1>4, <1>5, <1>6
    <2>5. r <= r + u /\ s <= s + v
      BY <2>2, <2>4
    <2> QED  BY <1>6, <2>2, <2>3, <2>4, <2>5
  <1>8. a + 1 = b + 1
    <2>1. a + 1 \in DOMAIN File /\ b + 1 \in DOMAIN File
      BY <1>4, <1>5, <1>6
    <2>2. /\ File[a + 1].etype = 1 /\ File[b + 1].etype = 1
          /\ File[a + 1].oid % Offset = ReplayId(j) % Offset
          /\ File[b + 1].oid % Offset = ReplayId(j) % Offset
          /\ File[a + 1].oid <= ReplayId(j) /\ File[b + 1].oid <= ReplayId(j)
      BY <1>4, <1>5, <1>7
    <2> QED  BY <2>1, <2>2 DEF Clash
  <1>9. Offset * p = Offset * q
    <2>1. PICK o \in Int : o = Line(j).oid /\ o = Line(k).oid
      BY <1>4, <1>5, <1>8
    <2>2. PICK u \in Int, v \in Int : u = Offset * p /\ v = Offset * q
      BY <1>4, <1>5, <1>6
    <2>3. o + u = o + v
      BY <1>6, <2>1, <2>2
    <2> QED  BY <2>2, <2>3
  <1>10. p = q
    BY <1>4, <1>5, <1>6, <1>9, ShiftsApart
  <1>11. a \in Int /\ b \in Int
    BY <1>2, <1>3
  <1>12. a = b
    BY <1>8, <1>11
  <1>13. j - 1 = k - 1
    BY <1>4, <1>5, <1>10, <1>12
  <1> QED  BY <1>13

LEMMA NamesApart ==
    ASSUME TradingDay, NEW s, NEW j \in Nat \ {0}, NEW k \in Nat \ {0},
           Counts(s, j), Counts(s, k), Name(s, j) = Name(s, k),
           ~Clashes(s, Name(s, j))
    PROVE  j = k
  <1>1. CASE s = Grader
    <2>1. /\ j \in 1 .. 10 /\ k \in 1 .. 10
          /\ Key(Scenario[j]) = Key(Scenario[k])
      BY <1>1 DEF Counts, Name
    <2> QED  BY <2>1, ScenarioParts
  <1>2. CASE s # Grader /\ s[2] = ReplayClient
    <2>1. /\ Line(j).etype = 1 /\ Line(k).etype = 1
          /\ ReplayId(j) = ReplayId(k) /\ ~Clash(ReplayId(j))
      BY <1>2 DEF Counts, Name, Clashes
    <2> QED  BY <2>1, ReplayIdsApart
  <1>3. CASE s # Grader /\ s[2] # ReplayClient
    BY <1>3 DEF Name
  <1> QED  BY <1>1, <1>2, <1>3

\* A new order carries the next name of its sender.
LEMMA OfferNamed ==
    ASSUME NEW s, NEW o \in Offers(s), o.type # "cancel"
    PROVE  /\ Key(o) = Name(s, sender[s].sent + 1)
           /\ Counts(s, sender[s].sent + 1)
  <1> PICK n : n = sender[s].sent + 1
    OBVIOUS
  <1>1. CASE s = Grader
    <2>1. n \in 1 .. 10 /\ o = Scenario[n]
      BY <1>1, GraderOffers
    <2> QED  BY <1>1, <2>1 DEF Name, Counts
  <1>2. CASE s # Grader /\ s[2] = ReplayClient
    <2>1. o = ReplayOrder(n)
      BY <1>2 DEF Offers, Grader
    <2>2. /\ Line(n).etype = 1 /\ o.client = ReplayClient
          /\ o.id = ReplayId(n)
      BY <2>1 DEF ReplayOrder
    <2> QED  BY <1>2, <2>2 DEF Name, Counts, Key
  <1>3. CASE s # Grader /\ s[2] # ReplayClient
    <2>1. PICK t \in BotOrders : o = BotOrder(s, t)
      BY <1>3 DEF Offers, Grader
    <2>2. o.client = s[2] /\ o.id = n
      BY <2>1 DEF BotOrder, NextId
    <2> QED  BY <1>3, <2>2 DEF Name, Counts, Key
  <1> QED  BY <1>1, <1>2, <1>3

\* The names a sender has used.
Uses(s, x) == \E n \in 1 .. sender[s].sent : Counts(s, n) /\ x = Name(s, n)

LEMMA UsedIs ==
    ASSUME LoopInv, NEW s \in Senders, NEW x
    PROVE  /\ x \in Used(s) <=> Uses(s, x)
           /\ Uses(s, x) => x \in Sent(s)
  <1>1. CASE s = Grader
    <2>1. sender[Grader].sent \in 0 .. 10
      <3>1. PICK m \in 0 .. 10 : m = Len(oracle.cases)
        BY LoopParts
      <3>2. /\ sender[Grader].pc \in {"idle", "wait", "done"}
            /\ sender[Grader].pc # "wait" => sender[Grader].sent = m
            /\ sender[Grader].pc = "wait" => m + 1 \in 1 .. 10 /\ sender[Grader].sent = m + 1
        BY <3>1, LoopParts
      <3> QED  BY <3>2
    <2>2. Used(s) = Sent(s)
          /\ Sent(s) = {Key(Scenario[n]) : n \in 1 .. sender[s].sent}
      BY <1>1 DEF Used, Sent, Grader
    <2>3. \A n \in 1 .. sender[s].sent :
            Counts(s, n) /\ Name(s, n) = Key(Scenario[n])
      BY <1>1, <2>1 DEF Counts, Name
    <2> QED  BY <2>2, <2>3 DEF Uses
  <1>2. CASE s # Grader
    <2>1. Used(s)
            = {Name(s, n) : n \in {m \in 1 .. sender[s].sent : Counts(s, m)}}
      BY <1>2 DEF Used, Name, Counts, Grader
    <2>2. Sent(s) = {Name(s, n) : n \in 1 .. sender[s].sent}
      BY <1>2 DEF Sent, Name, Grader
    <2> QED  BY <2>1, <2>2 DEF Uses
  <1> QED  BY <1>1, <1>2

\* FreshInv in these terms.
Fresh ==
    /\ \A x \in engine.seen : \E s \in Senders : Uses(s, x)
    /\ \A r \in inflight : New(r) => Uses(r.from, Key(r.order))
    /\ \A q, r \in inflight :
         New(q) /\ New(r) /\ q.from = r.from
           /\ Key(q.order) = Key(r.order) => q = r \/ Clashes(r.from, Key(r.order))
    /\ \A r \in inflight : New(r) /\ Key(r.order) \in engine.seen =>
         \/ \E s \in Senders : s # r.from /\ Uses(s, Key(r.order))
         \/ Clashes(r.from, Key(r.order))
    /\ \A x \in refused :
         \/ \E s \in Senders : s # x[1] /\ Uses(s, <<x[2], x[3]>>)
         \/ Clashes(x[1], <<x[2], x[3]>>)

LEMMA FreshIs ==
    LoopInv => /\ FreshInv <=> Fresh
               /\ Fresh => RefusedOnlyIfReused
  <1> SUFFICES ASSUME LoopInv
               PROVE  /\ FreshInv <=> Fresh
                      /\ Fresh => RefusedOnlyIfReused
    OBVIOUS
  <1>1. \A s \in Senders : \A x : /\ x \in Used(s) <=> Uses(s, x)
                                  /\ Uses(s, x) => x \in Sent(s)
    BY UsedIs
  <1>2. \A r \in inflight : r.from \in Senders
    BY LoopParts DEF Shaped
  <1>3. (\A x \in engine.seen : \E s \in Senders : Uses(s, x))
          <=> engine.seen \subseteq UNION {Used(s) : s \in Senders}
    BY <1>1
  <1>4. (\A r \in inflight : New(r) => Uses(r.from, Key(r.order)))
          <=> \A r \in inflight : New(r) => Key(r.order) \in Used(r.from)
    BY <1>1, <1>2
  <1>5. ASSUME NEW t, NEW x
        PROVE  (\E s \in Senders : s # t /\ Uses(s, x))
                 <=> \E s \in Senders \ {t} : x \in Used(s)
    BY <1>1
  <1>6. FreshInv <=> Fresh
    BY <1>3, <1>4, <1>5 DEF Fresh, FreshInv
  <1>7. Fresh => RefusedOnlyIfReused
    <2> SUFFICES ASSUME Fresh, NEW x \in refused,
                        ~Clashes(x[1], <<x[2], x[3]>>)
                 PROVE  ReusedByAnother(x)
      BY DEF RefusedOnlyIfReused, Clashes
    <2>1. PICK s \in Senders : s # x[1] /\ Uses(s, <<x[2], x[3]>>)
      BY DEF Fresh
    <2> QED  BY <1>1, <2>1 DEF ReusedByAnother
  <1> QED  BY <1>6, <1>7

\* Names once used stay used.
LEMMA UsesOn ==
    ASSUME Shaped, Turns, NEW s \in Senders, NEW x, Uses(s, x)
    PROVE  Uses(s, x)'
  <1>1. PICK n \in 1 .. sender[s].sent : Counts(s, n) /\ x = Name(s, n)
    BY DEF Uses
  <1>2. sender[s].sent \in Nat
        /\ (sender'[s].sent = sender[s].sent \/ sender'[s].sent = sender[s].sent + 1)
    BY DEF Shaped, Turns, Paces
  <1>3. n \in 1 .. sender'[s].sent
    BY <1>2
  <1>4. Counts(s, n)' = Counts(s, n) /\ Name(s, n)' = Name(s, n)
    OBVIOUS
  <1> QED  BY <1>1, <1>3, <1>4 DEF Uses

LEMMA SendFresh ==
    ASSUME TradingDay, Shaped, Turns, Fresh,
           NEW s \in Senders, NEW o \in Offers(s), Send(s, o)
    PROVE  Fresh'
  <1>1. /\ engine' = engine /\ refused' = refused
        /\ inflight' = inflight \cup {[from |-> s, nth |-> sender[s].sent + 1, order |-> o]}
        /\ sender' = [sender EXCEPT ![s] = [pc |-> "wait", sent |-> sender[s].sent + 1]]
    BY DEF Send, NextId
  <1>2. PICK e : e = [from |-> s, nth |-> sender[s].sent + 1, order |-> o]
    OBVIOUS
  <1>3. PICK m \in Nat : m = sender[s].sent
    BY DEF Shaped
  <1>4. e.from = s /\ e.order = o /\ sender'[s].sent = m + 1
    BY <1>1, <1>2, <1>3 DEF Shaped
  <1> PICK x : x = Key(o)
    OBVIOUS
  <1>5. New(e) => /\ x = Name(s, m + 1) /\ Counts(s, m + 1)
                  /\ Uses(s, x) => Clashes(s, x)
                  /\ Uses(s, x)'
    <2> SUFFICES ASSUME New(e)
                 PROVE  /\ x = Name(s, m + 1) /\ Counts(s, m + 1)
                        /\ Uses(s, x) => Clashes(s, x)
                        /\ Uses(s, x)'
      OBVIOUS
    <2>1. x = Name(s, m + 1) /\ Counts(s, m + 1)
      BY <1>3, <1>4, OfferNamed DEF New
    <2>2. ASSUME NEW n \in 1 .. m, Counts(s, n), x = Name(s, n)
          PROVE  Clashes(s, x)
      <3>1. m + 1 # n
        BY <2>2
      <3> QED  BY <2>1, <2>2, <3>1, NamesApart
    <2>3. Uses(s, x) => Clashes(s, x)
      BY <1>3, <2>2 DEF Uses
    <2>4. Counts(s, m + 1)' /\ x = Name(s, m + 1)'
      BY <2>1 DEF Counts, Name
    <2>5. m + 1 \in 1 .. sender'[s].sent
      BY <1>4
    <2> QED  BY <2>1, <2>3, <2>4, <2>5 DEF Uses
  <1>6. \A t \in Senders : \A y : Uses(t, y) => Uses(t, y)'
    BY UsesOn
  <1>7. \A r \in inflight' : r \in inflight \/ r = e
    BY <1>1, <1>2
  <1>8. \A r \in inflight : r.from \in Senders
    BY DEF Shaped
  <1>9. \A r \in inflight : New(r) => Uses(r.from, Key(r.order))
    BY DEF Fresh
  <1>10. \A y \in engine'.seen : \E t \in Senders : Uses(t, y)'
    BY <1>1, <1>6 DEF Fresh
  <1>11. \A r \in inflight' : New(r) => Uses(r.from, Key(r.order))'
    <2>1. ASSUME NEW r \in inflight', New(r)
          PROVE  Uses(r.from, Key(r.order))'
      <3>1. CASE r \in inflight
        BY <1>6, <1>8, <1>9, <2>1, <3>1
      <3>2. CASE r = e
        BY <1>4, <1>5, <2>1, <3>2
      <3> QED  BY <1>7, <3>1, <3>2
    <2> QED  BY <2>1
  <1>12. \A q, r \in inflight' :
           New(q) /\ New(r) /\ q.from = r.from
             /\ Key(q.order) = Key(r.order) => q = r \/ Clashes(r.from, Key(r.order))
    <2>1. ASSUME NEW r \in inflight, New(r), New(e), r.from = e.from,
                 Key(r.order) = Key(e.order)
          PROVE  Clashes(s, x)
      <3>1. Uses(s, x)
        BY <1>4, <1>9, <2>1
      <3> QED  BY <1>5, <2>1, <3>1
    <2> QED  BY <1>4, <1>7, <2>1 DEF Fresh
  <1>13. \A r \in inflight' : New(r) /\ Key(r.order) \in engine'.seen =>
           \/ \E t \in Senders : t # r.from /\ Uses(t, Key(r.order))'
           \/ Clashes(r.from, Key(r.order))
    <2>1. ASSUME NEW r \in inflight', New(r), Key(r.order) \in engine'.seen
          PROVE  \/ \E t \in Senders : t # r.from /\ Uses(t, Key(r.order))
                 \/ Clashes(r.from, Key(r.order))
      <3>1. CASE r \in inflight
        BY <1>1, <2>1, <3>1 DEF Fresh
      <3>2. CASE r = e
        <4>1. PICK t \in Senders : Uses(t, x)
          BY <1>1, <1>4, <2>1, <3>2 DEF Fresh
        <4>2. t # s \/ Clashes(s, x)
          BY <1>5, <2>1, <3>2, <4>1
        <4> QED  BY <1>4, <3>2, <4>1, <4>2
      <3> QED  BY <1>7, <3>1, <3>2
    <2> QED  BY <1>6, <2>1
  <1>14. \A y \in refused' :
           \/ \E t \in Senders : t # y[1] /\ Uses(t, <<y[2], y[3]>>)'
           \/ Clashes(y[1], <<y[2], y[3]>>)
    BY <1>1, <1>6 DEF Fresh
  <1> QED  BY <1>10, <1>11, <1>12, <1>13, <1>14 DEF Fresh, New, Key

LEMMA ExecuteFresh ==
    ASSUME Shaped, Turns, Fresh, NEW e \in inflight, Execute(e)
    PROVE  Fresh'
  <1>1. /\ inflight' = inflight \ {e}
        /\ e.order.type = "cancel" => engine'.seen = engine.seen
        /\ e.order.type # "cancel" =>
             engine'.seen = engine.seen \cup {Key(e.order)}
        /\ refused' = IF SeenBefore(e.order)
                      THEN refused \cup {<<e.from, e.order.client, e.order.id>>}
                      ELSE refused
    BY ExecuteParts, EngineParts
  <1> PICK x : x = Key(e.order)
    OBVIOUS
  <1>2. \A t \in Senders : \A y : Uses(t, y) => Uses(t, y)'
    BY UsesOn
  <1>3. \A y \in engine'.seen : y \in engine.seen \/ (New(e) /\ y = x)
    BY <1>1 DEF New
  <1>4. New(e) => Uses(e.from, x) /\ e.from \in Senders
    BY DEF Fresh, Shaped
  <1>5. \A y \in engine'.seen : \E t \in Senders : Uses(t, y)'
    BY <1>2, <1>3, <1>4 DEF Fresh
  <1>6. \A r \in inflight' : New(r) => Uses(r.from, Key(r.order))'
    BY <1>1, <1>2 DEF Fresh, Shaped
  <1>7. \A q, r \in inflight' :
          New(q) /\ New(r) /\ q.from = r.from
            /\ Key(q.order) = Key(r.order) => q = r \/ Clashes(r.from, Key(r.order))
    BY <1>1 DEF Fresh
  <1>8. \A r \in inflight' : New(r) /\ Key(r.order) \in engine'.seen =>
          \/ \E t \in Senders : t # r.from /\ Uses(t, Key(r.order))'
          \/ Clashes(r.from, Key(r.order))
    <2>1. ASSUME NEW r \in inflight', New(r), Key(r.order) \in engine'.seen
          PROVE  \/ \E t \in Senders : t # r.from /\ Uses(t, Key(r.order))
                 \/ Clashes(r.from, Key(r.order))
      <3>1. r \in inflight /\ r # e
        BY <1>1
      <3>2. CASE Key(r.order) \in engine.seen
        BY <2>1, <3>1, <3>2 DEF Fresh
      <3>3. CASE New(e) /\ Key(r.order) = x
        <4>1. r.from # e.from \/ Clashes(r.from, Key(r.order))
          BY <2>1, <3>1, <3>3 DEF Fresh
        <4> QED  BY <1>4, <3>3, <4>1
      <3> QED  BY <1>3, <2>1, <3>2, <3>3
    <2> QED  BY <1>2, <2>1
  <1>9. \A y \in refused' :
          \/ \E t \in Senders : t # y[1] /\ Uses(t, <<y[2], y[3]>>)'
          \/ Clashes(y[1], <<y[2], y[3]>>)
    <2>1. ASSUME NEW y \in refused'
          PROVE  \/ \E t \in Senders : t # y[1] /\ Uses(t, <<y[2], y[3]>>)
                 \/ Clashes(y[1], <<y[2], y[3]>>)
      <3>1. CASE y \in refused
        BY <3>1 DEF Fresh
      <3>2. CASE SeenBefore(e.order) /\ y = <<e.from, e.order.client, e.order.id>>
        <4>1. New(e) /\ x \in engine.seen
          BY <3>2 DEF SeenBefore, New
        <4>2. \/ \E t \in Senders : t # e.from /\ Uses(t, x)
              \/ Clashes(e.from, x)
          BY <4>1 DEF Fresh
        <4>3. y[1] = e.from /\ <<y[2], y[3]>> = x
          BY <3>2 DEF Key
        <4> QED  BY <4>2, <4>3
      <3> QED  BY <1>1, <3>1, <3>2
    <2> QED  BY <1>2, <2>1
  <1> QED  BY <1>5, <1>6, <1>7, <1>8, <1>9 DEF Fresh, New, Key

LEMMA FreshHolds ==
    ASSUME TradingDay
    PROVE  VSpec => [](LoopInv /\ Fresh)
  <1>1. VInit => Fresh
    BY DEF VInit, Fresh
  <1>2. LoopInv /\ Fresh /\ [VNext]_vvars => Fresh'
    <2> SUFFICES ASSUME LoopInv, Fresh, VNext \/ UNCHANGED vvars
                 PROVE  Fresh'
      OBVIOUS
    <2>1. Shaped /\ Turns
      BY LoopParts, NextShapes
    <2>2. CASE Quiet
      <3>1. /\ inflight' \subseteq inflight /\ refused' = refused
            /\ engine'.seen = engine.seen
        BY <2>2 DEF Quiet
      <3>2. \A t \in Senders : \A y : Uses(t, y) => Uses(t, y)'
        BY <2>1, UsesOn
      <3>3. \A r \in inflight : r.from \in Senders
        BY <2>1 DEF Shaped
      <3> QED  BY <3>1, <3>2, <3>3 DEF Fresh, New, Key
    <2>3. ASSUME NEW s \in Senders, NEW o \in Offers(s), Send(s, o)
          PROVE  Fresh'
      BY <2>1, <2>3, SendFresh
    <2>4. ASSUME NEW r \in inflight, Execute(r)
          PROVE  Fresh'
      BY <2>1, <2>4, ExecuteFresh
    <2> QED  BY <2>1, <2>2, <2>3, <2>4, StepKinds
  <1> QED  BY <1>1, <1>2, LoopInvHolds, PTL DEF VSpec

\* A sender's ids are fresh, pass after pass of the file and whatever became of
\* its earlier orders: what the engine turns down as a duplicate was used by
\* another sender as well, or it is the replay of a file that has two new orders
\* under that id, a multiple of the offset apart.  Any ids a file may have.
THEOREM RefusedOnceReused == VSpec => []RefusedOnlyIfReused
  <1>1. LoopInv /\ Fresh => RefusedOnlyIfReused
    BY FreshIs
  <1>2. VSpec => [](LoopInv /\ Fresh)
    BY FileAssumption, FreshHolds
  <1> QED  BY <1>1, <1>2, PTL
================================================================================
