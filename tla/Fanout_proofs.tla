---------------------------- MODULE Fanout_proofs ----------------------------
(***************************************************************************)
(* Proofs about Fanout, for any capacity of the channel and any number of  *)
(* messages: what a client gets is whole and in order, and one that keeps  *)
(* up is not thrown out.                                                   *)
(***************************************************************************)
EXTENDS Fanout, DataLemmas

Before(A, B) == \A x \in A, y \in B : x < y

-----------------------------------------------------------------------------
(* Ordered sequences, by what they are put together from.                  *)

LEMMA Joined ==
    ASSUME NEW a \in Seq(Nat), NEW b \in Seq(Nat)
    PROVE  /\ a \o b \in Seq(Nat)
           /\ ToSet(a \o b) = ToSet(a) \cup ToSet(b)
           /\ Ordered(a \o b) <=> Ordered(a) /\ Ordered(b) /\ Before(ToSet(a), ToSet(b))
  <1> DEFINE q == a \o b
  <1>1. /\ Len(a) \in Nat /\ Len(b) \in Nat /\ q \in Seq(Nat)
        /\ DOMAIN a = 1 .. Len(a) /\ DOMAIN b = 1 .. Len(b)
        /\ DOMAIN q = 1 .. Len(a) + Len(b)
        /\ \A i \in 1 .. Len(a) + Len(b) : q[i] = IF i <= Len(a) THEN a[i] ELSE b[i - Len(a)]
    BY ConcatProperties, LenProperties
  <1> HIDE DEF q
  <1>2. ASSUME NEW i \in 1 .. Len(a)
        PROVE  i \in DOMAIN q /\ q[i] = a[i] /\ i \in Int /\ i <= Len(a)
    BY <1>1
  <1>3. ASSUME NEW i \in 1 .. Len(b)
        PROVE  /\ Len(a) + i \in DOMAIN q /\ q[Len(a) + i] = b[i] /\ i \in Int
               /\ Len(a) + i > Len(a)
    <2>1. i \in Int /\ 1 <= i /\ i <= Len(b)
      BY <1>1
    <2>2. PICK n : n = Len(a) + i /\ n \in 1 .. Len(a) + Len(b)
      <3>1. Len(a) \in Nat /\ Len(b) \in Nat
        BY <1>1
      <3> QED  BY <2>1, <3>1
    <2>3. ~(n <= Len(a)) /\ n > Len(a) /\ n - Len(a) = i
      BY <1>1, <2>1, <2>2
    <2>4. q[n] = b[i]
      BY <1>1, <2>2, <2>3
    <2> QED  BY <1>1, <2>1, <2>2, <2>3, <2>4
  <1>4. ASSUME NEW i \in DOMAIN q
        PROVE  \/ i \in 1 .. Len(a) /\ q[i] = a[i]
               \/ \E k \in 1 .. Len(b) : i = Len(a) + k /\ q[i] = b[k]
    <2>1. i \in Int /\ 1 <= i /\ i <= Len(a) + Len(b)
      BY <1>1
    <2>2. CASE i <= Len(a)
      BY <1>1, <2>1, <2>2
    <2>3. CASE ~(i <= Len(a))
      <3>1. i - Len(a) \in 1 .. Len(b) /\ i = Len(a) + (i - Len(a))
        BY <1>1, <2>1, <2>3
      <3> QED  BY <1>1, <2>3, <3>1
    <2> QED  BY <2>2, <2>3
  <1>5. ToSet(q) = ToSet(a) \cup ToSet(b)
    <2>1. ASSUME NEW i \in DOMAIN q
          PROVE  q[i] \in ToSet(a) \cup ToSet(b)
      BY <1>1, <1>4 DEF ToSet
    <2>2. ASSUME NEW i \in DOMAIN a
          PROVE  a[i] \in ToSet(q)
      BY <1>1, <1>2 DEF ToSet
    <2>3. ASSUME NEW i \in DOMAIN b
          PROVE  b[i] \in ToSet(q)
      BY <1>1, <1>3 DEF ToSet
    <2>4. ToSet(a) \subseteq ToSet(q) /\ ToSet(b) \subseteq ToSet(q)
      BY <2>2, <2>3 DEF ToSet
    <2>5. ToSet(q) \subseteq ToSet(a) \cup ToSet(b)
      <3> SUFFICES ASSUME NEW x \in ToSet(q)
                   PROVE  x \in ToSet(a) \cup ToSet(b)
        OBVIOUS
      <3>1. PICK i \in DOMAIN q : x = q[i]
        BY DEF ToSet
      <3> QED  BY <2>1, <3>1
    <2> QED  BY <2>4, <2>5
  <1>6. ASSUME Ordered(q)
        PROVE  Ordered(a) /\ Ordered(b) /\ Before(ToSet(a), ToSet(b))
    <2>1. Ordered(a)
      BY <1>1, <1>2, <1>6 DEF Ordered
    <2>2. Ordered(b)
      <3> SUFFICES ASSUME NEW i \in 1 .. Len(b), NEW j \in 1 .. Len(b), i < j
                   PROVE  b[i] < b[j]
        BY <1>1 DEF Ordered
      <3>1. Len(a) + i < Len(a) + j
        BY <1>1, <1>3
      <3> QED  BY <1>3, <1>6, <3>1 DEF Ordered
    <2>3. ASSUME NEW i \in 1 .. Len(a), NEW j \in 1 .. Len(b)
          PROVE  a[i] < b[j]
      <3>1. i < Len(a) + j
        BY <1>1, <1>2, <1>3
      <3> QED  BY <1>2, <1>3, <1>6, <3>1 DEF Ordered
    <2> QED  BY <1>1, <2>1, <2>2, <2>3 DEF Before, ToSet
  <1>7. ASSUME Ordered(a), Ordered(b), Before(ToSet(a), ToSet(b))
        PROVE  Ordered(q)
    <2> SUFFICES ASSUME NEW i \in DOMAIN q, NEW j \in DOMAIN q, i < j
                 PROVE  q[i] < q[j]
      BY DEF Ordered
    <2>1. CASE i \in 1 .. Len(a) /\ q[i] = a[i] /\ j \in 1 .. Len(a) /\ q[j] = a[j]
      BY <1>1, <1>7, <2>1 DEF Ordered
    <2>2. ASSUME i \in 1 .. Len(a), q[i] = a[i],
                 NEW k \in 1 .. Len(b), j = Len(a) + k, q[j] = b[k]
          PROVE  q[i] < q[j]
      <3>1. a[i] \in ToSet(a) /\ b[k] \in ToSet(b)
        BY <1>1, <2>2 DEF ToSet
      <3> QED  BY <1>7, <2>2, <3>1 DEF Before
    <2>3. ASSUME NEW m \in 1 .. Len(b), i = Len(a) + m, q[i] = b[m],
                 NEW k \in 1 .. Len(b), j = Len(a) + k, q[j] = b[k]
          PROVE  q[i] < q[j]
      <3>1. m < k
        BY <1>1, <1>3, <2>3
      <3> QED  BY <1>1, <1>7, <2>3, <3>1 DEF Ordered
    <2>4. ASSUME NEW m \in 1 .. Len(b), i = Len(a) + m, j \in 1 .. Len(a)
          PROVE  FALSE
      BY <1>1, <1>2, <1>3, <2>4
    <2> QED  BY <1>4, <2>1, <2>2, <2>3, <2>4
  <1> QED  BY <1>1, <1>5, <1>6, <1>7 DEF q

LEMMA Single ==
    ASSUME NEW x \in Nat
    PROVE  <<x>> \in Seq(Nat) /\ ToSet(<<x>>) = {x} /\ Ordered(<<x>>)
  <1>1. <<x>> \in Seq(Nat) /\ DOMAIN <<x>> = 1 .. 1 /\ <<x>>[1] = x /\ 1 .. 1 = {1}
    OBVIOUS
  <1>2. ToSet(<<x>>) = {x}
    BY <1>1 DEF ToSet
  <1> QED  BY <1>1, <1>2 DEF Ordered

LEMMA Nothing == <<>> \in Seq(Nat) /\ ToSet(<<>>) = {} /\ Ordered(<<>>)
  BY DEF ToSet, Ordered

LEMMA Appended ==
    ASSUME NEW q \in Seq(Nat), NEW x \in Nat
    PROVE  /\ Append(q, x) \in Seq(Nat)
           /\ ToSet(Append(q, x)) = ToSet(q) \cup {x}
           /\ Ordered(Append(q, x)) <=> Ordered(q) /\ Before(ToSet(q), {x})
  <1>1. Append(q, x) = q \o <<x>>
    BY AppendIsConcat
  <1>2. PICK s \in Seq(Nat) : s = <<x>> /\ ToSet(s) = {x} /\ Ordered(s)
    BY Single
  <1>3. /\ q \o s \in Seq(Nat)
        /\ ToSet(q \o s) = ToSet(q) \cup ToSet(s)
        /\ Ordered(q \o s) <=> Ordered(q) /\ Ordered(s) /\ Before(ToSet(q), ToSet(s))
    BY Joined
  <1> QED  BY <1>1, <1>2, <1>3

LEMMA Beheaded ==
    ASSUME NEW q \in Seq(Nat), q # <<>>
    PROVE  /\ Head(q) \in Nat /\ Tail(q) \in Seq(Nat)
           /\ ToSet(q) = {Head(q)} \cup ToSet(Tail(q))
           /\ Ordered(q) <=> Ordered(Tail(q)) /\ Before({Head(q)}, ToSet(Tail(q)))
  <1>1. Head(q) \in Nat /\ Tail(q) \in Seq(Nat) /\ q = <<Head(q)>> \o Tail(q)
    BY HeadTailProperties
  <1>2. PICK s \in Seq(Nat) : s = <<Head(q)>> /\ ToSet(s) = {Head(q)} /\ Ordered(s)
    BY <1>1, Single
  <1>3. /\ ToSet(s \o Tail(q)) = ToSet(s) \cup ToSet(Tail(q))
        /\ Ordered(s \o Tail(q)) <=>
             Ordered(s) /\ Ordered(Tail(q)) /\ Before(ToSet(s), ToSet(Tail(q)))
    BY <1>1, Joined
  <1> QED  BY <1>1, <1>2, <1>3

-----------------------------------------------------------------------------
(* The stream, piece by piece: r is with the client, w being written, c in *)
(* the channel and p still to be forwarded.                                *)

Now(w) == IF w = 0 THEN {} ELSE {w}

InOrder(r, w, c, p) ==
    /\ Ordered(r) /\ Ordered(c) /\ Ordered(p)
    /\ Before(ToSet(r), Now(w))
    /\ Before(ToSet(r) \cup Now(w), ToSet(c))
    /\ Before(ToSet(r) \cup Now(w) \cup ToSet(c), ToSet(p))

Whole(r, w, c, p, g, d) ==
    /\ InOrder(r, w, c, p)
    /\ ToSet(r) \cup Now(w) \cup ToSet(c) \cup ToSet(p) = ToSet(g) \ d

LEMMA Pieces ==
    ASSUME NEW r \in Seq(Nat), NEW w \in Nat, NEW c \in Seq(Nat), NEW p \in Seq(Nat),
           NEW g, NEW d
    PROVE  LET s == r \o (IF w = 0 THEN <<>> ELSE <<w>>) \o c \o p
           IN  Ordered(s) /\ ToSet(s) = ToSet(g) \ d <=> Whole(r, w, c, p, g, d)
  <1>1. PICK n \in Seq(Nat) : /\ n = IF w = 0 THEN <<>> ELSE <<w>>
                              /\ ToSet(n) = Now(w) /\ Ordered(n)
    BY Single, Nothing DEF Now
  <1>2. PICK a \in Seq(Nat) : a = r \o n
    BY Joined
  <1>3. ToSet(a) = ToSet(r) \cup Now(w)
        /\ (Ordered(a) <=> Ordered(r) /\ Before(ToSet(r), Now(w)))
    <2>1. /\ ToSet(r \o n) = ToSet(r) \cup ToSet(n)
          /\ Ordered(r \o n) <=> Ordered(r) /\ Ordered(n) /\ Before(ToSet(r), ToSet(n))
      BY Joined
    <2> QED  BY <1>1, <1>2, <2>1
  <1>4. PICK b \in Seq(Nat) : b = a \o c
    BY Joined
  <1>5. ToSet(b) = ToSet(a) \cup ToSet(c)
        /\ (Ordered(b) <=> Ordered(a) /\ Ordered(c) /\ Before(ToSet(a), ToSet(c)))
    BY <1>4, Joined
  <1>6. ToSet(b \o p) = ToSet(b) \cup ToSet(p)
        /\ (Ordered(b \o p) <=> Ordered(b) /\ Ordered(p) /\ Before(ToSet(b), ToSet(p)))
    BY Joined
  <1>7. b \o p = r \o (IF w = 0 THEN <<>> ELSE <<w>>) \o c \o p
    BY <1>1, <1>2, <1>4
  <1> QED  BY <1>3, <1>5, <1>6, <1>7 DEF Whole, InOrder

\* A message is published: it comes after all the others.
LEMMA WholePublished ==
    ASSUME NEW r \in Seq(Nat), NEW w \in Nat, NEW c \in Seq(Nat), NEW p \in Seq(Nat),
           NEW g \in Seq(Nat), NEW d, NEW n \in Nat,
           \A x \in ToSet(g) \cup d : x < n, Whole(r, w, c, p, g, d)
    PROVE  Whole(r, w, c, Append(p, n), Append(g, n), d)
  <1>1. /\ ToSet(Append(p, n)) = ToSet(p) \cup {n}
        /\ Ordered(Append(p, n)) <=> Ordered(p) /\ Before(ToSet(p), {n})
        /\ ToSet(Append(g, n)) = ToSet(g) \cup {n}
    BY Appended
  <1>2. ToSet(r) \cup Now(w) \cup ToSet(c) \cup ToSet(p) = ToSet(g) \ d
    BY DEF Whole
  <1>3. \A x \in ToSet(r) \cup Now(w) \cup ToSet(c) \cup ToSet(p) : x < n
    BY <1>2
  <1>4. n \notin d
    <2>1. ~(n < n)
      OBVIOUS
    <2> QED  BY <2>1
  <1>5. InOrder(r, w, c, Append(p, n))
    <2>1. InOrder(r, w, c, p)
      BY DEF Whole
    <2> QED  BY <1>1, <1>3, <2>1 DEF InOrder, Before
  <1>6. ToSet(r) \cup Now(w) \cup ToSet(c) \cup (ToSet(p) \cup {n}) = (ToSet(g) \cup {n}) \ d
    BY <1>2, <1>4
  <1> QED  BY <1>1, <1>5, <1>6 DEF Whole

\* The forwarder moves the oldest message into the channel, or drops it.
LEMMA WholeForwarded ==
    ASSUME NEW r \in Seq(Nat), NEW w \in Nat, NEW c \in Seq(Nat), NEW p \in Seq(Nat),
           NEW g \in Seq(Nat), NEW d, p # <<>>, Whole(r, w, c, p, g, d)
    PROVE  /\ Whole(r, w, Append(c, Head(p)), Tail(p), g, d)
           /\ Whole(r, w, c, Tail(p), g, d \cup {Head(p)})
  <1>0. PICK h, t : h = Head(p) /\ t = Tail(p)
    OBVIOUS
  <1>1. /\ h \in Nat /\ t \in Seq(Nat)
        /\ ToSet(p) = {h} \cup ToSet(t)
        /\ Ordered(p) <=> Ordered(t) /\ Before({h}, ToSet(t))
    BY <1>0, Beheaded
  <1>2. /\ ToSet(Append(c, h)) = ToSet(c) \cup {h}
        /\ Ordered(Append(c, h)) <=> Ordered(c) /\ Before(ToSet(c), {h})
    BY <1>1, Appended
  <1>3. /\ InOrder(r, w, c, p)
        /\ ToSet(r) \cup Now(w) \cup ToSet(c) \cup ToSet(p) = ToSet(g) \ d
    BY DEF Whole
  <1>4. ~(h < h)
    BY <1>1
  <1>5. InOrder(r, w, Append(c, h), t)
    BY <1>1, <1>2, <1>3 DEF InOrder, Before
  <1>6. InOrder(r, w, c, t)
    BY <1>1, <1>3 DEF InOrder, Before
  <1>7. h \notin ToSet(r) \cup Now(w) \cup ToSet(c) /\ h \notin ToSet(t)
    BY <1>1, <1>3, <1>4 DEF InOrder, Before
  <1>8. /\ ToSet(r) \cup Now(w) \cup (ToSet(c) \cup {h}) \cup ToSet(t) = ToSet(g) \ d
        /\ ToSet(r) \cup Now(w) \cup ToSet(c) \cup ToSet(t) = ToSet(g) \ (d \cup {h})
    BY <1>1, <1>3, <1>7
  <1> QED  BY <1>0, <1>2, <1>5, <1>6, <1>8 DEF Whole

\* The handler takes the first message of the channel, and has written it.
LEMMA WholeTaken ==
    ASSUME NEW r \in Seq(Nat), NEW c \in Seq(Nat), NEW p \in Seq(Nat),
           NEW g \in Seq(Nat), NEW d, c # <<>>, 0 \notin ToSet(c), Whole(r, 0, c, p, g, d)
    PROVE  Whole(r, Head(c), Tail(c), p, g, d)
  <1>0. PICK h, t : h = Head(c) /\ t = Tail(c)
    OBVIOUS
  <1>1. /\ h \in Nat /\ t \in Seq(Nat)
        /\ ToSet(c) = {h} \cup ToSet(t)
        /\ Ordered(c) <=> Ordered(t) /\ Before({h}, ToSet(t))
    BY <1>0, Beheaded
  <1>2. Now(0) = {} /\ Now(h) = {h}
    BY <1>1 DEF Now
  <1>3. /\ InOrder(r, 0, c, p)
        /\ ToSet(r) \cup Now(0) \cup ToSet(c) \cup ToSet(p) = ToSet(g) \ d
    BY DEF Whole
  <1>4. InOrder(r, h, t, p)
    BY <1>1, <1>2, <1>3 DEF InOrder, Before
  <1> QED  BY <1>0, <1>1, <1>2, <1>3, <1>4 DEF Whole

LEMMA WholeWritten ==
    ASSUME NEW r \in Seq(Nat), NEW w \in Nat \ {0}, NEW c \in Seq(Nat), NEW p \in Seq(Nat),
           NEW g \in Seq(Nat), NEW d, Whole(r, w, c, p, g, d)
    PROVE  Whole(Append(r, w), 0, c, p, g, d)
  <1>1. /\ ToSet(Append(r, w)) = ToSet(r) \cup {w}
        /\ Ordered(Append(r, w)) <=> Ordered(r) /\ Before(ToSet(r), {w})
    BY Appended
  <1>2. Now(0) = {} /\ Now(w) = {w}
    BY DEF Now
  <1>3. /\ InOrder(r, w, c, p)
        /\ ToSet(r) \cup Now(w) \cup ToSet(c) \cup ToSet(p) = ToSet(g) \ d
    BY DEF Whole
  <1>4. InOrder(Append(r, w), 0, c, p)
    BY <1>1, <1>2, <1>3 DEF InOrder, Before
  <1> QED  BY <1>1, <1>2, <1>3, <1>4 DEF Whole

-----------------------------------------------------------------------------
(* The steps.                                                              *)

\* The parts of StreamInv, with the stream in its pieces.
Typed ==
    /\ published \in Nat
    /\ psq \in Seq(Nat) /\ ToSet(psq) \subseteq 1 .. published
    /\ ch \in Seq(Nat) /\ ToSet(ch) \subseteq 1 .. published
    /\ received \in Seq(Nat) /\ ToSet(received) \subseteq 1 .. published
    /\ got \in Seq(Nat) /\ ToSet(got) \subseteq 1 .. published
    /\ Len(ch) <= ChanCap
    /\ dropped \subseteq 1 .. published

Placed ==
    /\ handler \in Handler /\ writing \in 0 .. published
    /\ handler \in {"select", "ping"} => writing = 0
    /\ handler = "write" => writing # 0
    /\ handler \in {"accept", "subscribe"} =>
         /\ ps = "none" /\ forwarder = "none" /\ writing = 0 /\ dropped = {}
         /\ psq = <<>> /\ ch = <<>> /\ received = <<>> /\ got = <<>>

Flows == handler \in Serving => Whole(received, writing, ch, psq, got, dropped)

LEMMA StreamParts == StreamInv <=> Typed /\ Placed /\ Flows
  <1>1. ASSUME Typed, Placed
        PROVE  Ordered(Stream) /\ ToSet(Stream) = ToSet(got) \ dropped
                  <=> Whole(received, writing, ch, psq, got, dropped)
    <2>1. writing \in Nat
      BY <1>1 DEF Typed, Placed
    <2> QED  BY <1>1, <2>1, Pieces DEF Typed, Stream
  <1>2. StreamInv => Typed /\ Placed
    BY DEF StreamInv, Typed, Placed
  <1>3. Typed /\ Placed /\ (handler \in Serving => Ordered(Stream) /\ ToSet(Stream) = ToSet(got) \ dropped)
          <=> StreamInv
    BY DEF StreamInv, Typed, Placed
  <1> QED  BY <1>1, <1>2, <1>3 DEF Flows

LEMMA TypedKept ==
    ASSUME Typed, Placed, [Next]_vars
    PROVE  Typed'
  <1> USE DEF Typed
  <1>1. CASE Publish
    <2>1. published' = published + 1 /\ published + 1 \in Nat
      BY <1>1 DEF Publish
    <2>2. \A q \in Seq(Nat) : ToSet(q) \subseteq 1 .. published =>
             /\ ToSet(q) \subseteq 1 .. published'
             /\ Append(q, published + 1) \in Seq(Nat)
             /\ ToSet(Append(q, published + 1)) \subseteq 1 .. published'
      <3> SUFFICES ASSUME NEW q \in Seq(Nat), ToSet(q) \subseteq 1 .. published
                   PROVE  /\ ToSet(q) \subseteq 1 .. published'
                          /\ Append(q, published + 1) \in Seq(Nat)
                          /\ ToSet(Append(q, published + 1)) \subseteq 1 .. published'
        OBVIOUS
      <3>1. /\ Append(q, published + 1) \in Seq(Nat)
            /\ ToSet(Append(q, published + 1)) = ToSet(q) \cup {published + 1}
        BY <2>1, Appended
      <3>2. 1 .. published \subseteq 1 .. published' /\ published + 1 \in 1 .. published'
        BY <2>1
      <3> QED  BY <3>1, <3>2
    <2>3. dropped' \subseteq 1 .. published'
      BY <1>1, <2>1 DEF Publish
    <2>4. /\ ch' = ch /\ received' = received
          /\ psq' = psq \/ psq' = Append(psq, published + 1)
          /\ got' = got \/ got' = Append(got, published + 1)
      BY <1>1 DEF Publish
    <2> QED  BY <2>1, <2>2, <2>3, <2>4
  <1>2. CASE Forward
    <2>1. PICK h, t : h = Head(psq) /\ t = Tail(psq)
      OBVIOUS
    <2>2. /\ h \in Nat /\ t \in Seq(Nat) /\ ToSet(psq) = {h} \cup ToSet(t)
      BY <1>2, <2>1, Beheaded DEF Forward
    <2>3. psq' = t /\ UNCHANGED <<published, received, got>>
      BY <1>2, <2>1 DEF Forward
    <2>4. \/ Len(ch) < ChanCap /\ ch' = Append(ch, h) /\ dropped' = dropped
          \/ ch' = ch /\ dropped' = dropped \cup {h}
      BY <1>2, <2>1 DEF Forward, SendOrDrop
    <2>5. /\ Append(ch, h) \in Seq(Nat) /\ ToSet(Append(ch, h)) = ToSet(ch) \cup {h}
          /\ Len(Append(ch, h)) = Len(ch) + 1 /\ Len(ch) \in Nat
      BY <2>2, Appended, AppendProperties, LenProperties
    <2>6. Len(ch) < ChanCap => Len(ch) + 1 <= ChanCap
      BY <2>5, BoundsAssumption
    <2> QED  BY <2>2, <2>3, <2>4, <2>5, <2>6
  <1>3. CASE TakeMessage
    <2>1. ch # <<>> /\ ch' = Tail(ch) /\ UNCHANGED <<published, psq, received, got, dropped>>
      BY <1>3 DEF TakeMessage
    <2>2. Tail(ch) \in Seq(Nat) /\ ToSet(Tail(ch)) \subseteq ToSet(ch)
      BY <2>1, Beheaded
    <2>3. Len(Tail(ch)) = Len(ch) - 1 /\ Len(ch) \in Nat
      BY <2>1, HeadTailProperties, LenProperties
    <2> QED  BY <2>1, <2>2, <2>3, BoundsAssumption
  <1>4. CASE Written
    <2>1. received' = Append(received, writing) /\ UNCHANGED <<published, psq, ch, got, dropped>>
      BY <1>4 DEF Written
    <2>2. writing \in Nat /\ writing \in 1 .. published
      BY <1>4 DEF Placed, Written
    <2>3. /\ Append(received, writing) \in Seq(Nat)
          /\ ToSet(Append(received, writing)) = ToSet(received) \cup {writing}
      BY <2>2, Appended
    <2> QED  BY <2>1, <2>2, <2>3
  <1>5. CASE UNCHANGED <<published, psq, ch, received, got, dropped>>
    BY <1>5
  <1> QED  BY <1>1, <1>2, <1>3, <1>4, <1>5
           DEF Next, Gateway, Loop, Deferred, vars, Subscribed, ForwarderEnds, Accept, Subscribe,
               PingDue, Pong, WriteOrPingFails, ContextDone, Unsub, CancelContext, CloseConn,
               ReadFails, ClientChanges

LEMMA PlacedKept ==
    ASSUME Typed, Placed, [Next]_vars
    PROVE  Placed'
  <1>1. CASE Publish
    <2>1. published' = published + 1 /\ writing \in 0 .. published'
      BY <1>1 DEF Publish, Typed, Placed
    <2> QED  BY <1>1, <2>1 DEF Publish, Placed
  <1>2. CASE TakeMessage
    <2>1. /\ ch # <<>> /\ writing' = Head(ch) /\ handler' = "write" /\ published' = published
      BY <1>2 DEF TakeMessage, Goes
    <2>2. Head(ch) \in ToSet(ch)
      BY <2>1, Beheaded DEF Typed
    <2>3. writing' \in 1 .. published /\ published \in Nat
      BY <2>1, <2>2 DEF Typed
    <2>4. writing' \in 0 .. published' /\ writing' # 0
      BY <2>1, <2>3
    <2> QED  BY <2>1, <2>4 DEF Placed, Handler
  <1>3. CASE \/ Written \/ WriteOrPingFails
    <2>1. /\ writing' = 0 /\ handler' \in {"select", "unsub"} /\ published' = published
      BY <1>3 DEF Written, WriteOrPingFails, Goes
    <2> QED  BY <2>1 DEF Typed, Placed, Handler
  <1>4. CASE \/ Subscribed \/ Forward \/ ForwarderEnds
    <2>1. handler \notin {"accept", "subscribe"}
          /\ UNCHANGED <<handler, writing, published>>
      BY <1>4 DEF Placed, Subscribed, Forward, ForwarderEnds
    <2> QED  BY <2>1 DEF Placed
  <1>5. CASE Accept
    BY <1>5 DEF Accept, Goes, Placed, Handler
  <1>6. CASE \/ Subscribe \/ PingDue \/ Pong \/ ContextDone
    BY <1>6 DEF Subscribe, PingDue, Pong, ContextDone, Goes, Placed, Handler
  <1>7. CASE \/ Unsub \/ CancelContext \/ CloseConn
    BY <1>7 DEF Unsub, CancelContext, CloseConn, Goes, Placed, Handler
  <1>8. CASE ReadFails \/ ClientChanges \/ UNCHANGED vars
    BY <1>8 DEF ReadFails, ClientChanges, vars, Placed
  <1> QED  BY <1>1, <1>2, <1>3, <1>4, <1>5, <1>6, <1>7, <1>8
           DEF Next, Gateway, Loop, Deferred

LEMMA FlowsKept ==
    ASSUME Typed, Placed, Flows, [Next]_vars
    PROVE  Flows'
  <1>0. /\ published \in Nat /\ writing \in Nat
        /\ psq \in Seq(Nat) /\ ch \in Seq(Nat) /\ received \in Seq(Nat) /\ got \in Seq(Nat)
    BY DEF Typed, Placed
  <1>1. CASE Publish
    <2>1. /\ handler' = handler /\ received' = received /\ writing' = writing
          /\ ch' = ch /\ dropped' = dropped
          /\ \/ psq' = psq /\ got' = got
             \/ psq' = Append(psq, published + 1) /\ got' = Append(got, published + 1)
      BY <1>1 DEF Publish
    <2>2. published + 1 \in Nat /\ \A x \in ToSet(got) \cup dropped : x < published + 1
      <3>1. \A x \in 1 .. published : x < published + 1
        BY <1>0
      <3>2. ToSet(got) \cup dropped \subseteq 1 .. published
        BY DEF Typed
      <3>3. published + 1 \in Nat
        BY <1>0
      <3> QED  BY <3>1, <3>2, <3>3
    <2> QED  BY <1>0, <2>1, <2>2, WholePublished DEF Flows
  <1>2. CASE Forward
    <2>1. /\ psq # <<>> /\ psq' = Tail(psq)
          /\ handler' = handler /\ received' = received /\ writing' = writing /\ got' = got
          /\ \/ ch' = Append(ch, Head(psq)) /\ dropped' = dropped
             \/ ch' = ch /\ dropped' = dropped \cup {Head(psq)}
      BY <1>2 DEF Forward, SendOrDrop
    <2>2. ASSUME handler \in Serving
          PROVE  /\ Whole(received, writing, Append(ch, Head(psq)), Tail(psq), got, dropped)
                 /\ Whole(received, writing, ch, Tail(psq), got, dropped \cup {Head(psq)})
      <3>1. Whole(received, writing, ch, psq, got, dropped)
        BY <2>2 DEF Flows
      <3> QED  BY <1>0, <2>1, <3>1, WholeForwarded
    <2> QED  BY <2>1, <2>2 DEF Flows
  <1>3. CASE TakeMessage
    <2>1. /\ ch # <<>> /\ ch' = Tail(ch) /\ writing' = Head(ch) /\ writing = 0
          /\ handler \in Serving
          /\ UNCHANGED <<received, psq, got, dropped>>
      BY <1>3 DEF TakeMessage, Placed, Serving
    <2>2. 0 \notin ToSet(ch)
      BY <1>0 DEF Typed
    <2>3. Whole(received, 0, ch, psq, got, dropped)
      BY <2>1 DEF Flows
    <2>4. Whole(received, Head(ch), Tail(ch), psq, got, dropped)
      BY <1>0, <2>1, <2>2, <2>3, WholeTaken
    <2> QED  BY <2>1, <2>4 DEF Flows
  <1>4. CASE Written
    <2>1. /\ received' = Append(received, writing) /\ writing' = 0 /\ writing \in Nat \ {0}
          /\ handler \in Serving
          /\ UNCHANGED <<ch, psq, got, dropped>>
      BY <1>0, <1>4 DEF Written, Placed, Serving
    <2>2. Whole(received, writing, ch, psq, got, dropped)
      BY <2>1 DEF Flows
    <2>3. Whole(Append(received, writing), 0, ch, psq, got, dropped)
      BY <1>0, <2>1, <2>2, WholeWritten
    <2> QED  BY <2>1, <2>3 DEF Flows
  <1>5. CASE Subscribe
    <2>1. /\ writing = 0 /\ dropped = {}
          /\ psq = <<>> /\ ch = <<>> /\ received = <<>> /\ got = <<>>
          /\ UNCHANGED <<received, writing, ch, psq, got, dropped>>
      BY <1>5 DEF Subscribe, Placed
    <2>2. Whole(<<>>, 0, <<>>, <<>>, <<>>, {})
      BY Nothing DEF Whole, InOrder, Before, Now
    <2> QED  BY <2>1, <2>2 DEF Flows
  <1>6. CASE \/ Subscribed \/ ForwarderEnds \/ PingDue \/ Pong \/ ReadFails \/ ClientChanges
             \/ UNCHANGED vars
    <2>1. /\ handler' \in Serving => handler \in Serving
          /\ UNCHANGED <<received, writing, ch, psq, got, dropped>>
      BY <1>6 DEF Subscribed, ForwarderEnds, PingDue, Pong, ReadFails, ClientChanges, vars,
                  Goes, Serving
    <2> QED  BY <2>1 DEF Flows
  <1>7. CASE \/ Accept \/ WriteOrPingFails \/ ContextDone
             \/ Unsub \/ CancelContext \/ CloseConn
    <2>1. handler' \notin Serving
      BY <1>7 DEF Accept, WriteOrPingFails, ContextDone, Unsub, CancelContext, CloseConn,
                  Goes, Serving
    <2> QED  BY <2>1 DEF Flows
  <1> QED  BY <1>1, <1>2, <1>3, <1>4, <1>5, <1>6, <1>7 DEF Next, Gateway, Loop, Deferred

-----------------------------------------------------------------------------

\* While the handler serves, the client gets everything Redis delivered, in
\* order and each message once, but for what the full channel dropped, for
\* any capacity: through subscription, forwarder, channel and handler nothing
\* else is lost, doubled or overtaken.
THEOREM StreamDelivered == Spec => []StreamIsWhole
  <1>1. Init => StreamInv
    <2> SUFFICES ASSUME Init
                 PROVE  Typed /\ Placed /\ Flows
      BY StreamParts
    <2>1. Len(<<>>) = 0 /\ 0 <= ChanCap
      BY BoundsAssumption
    <2>2. Typed
      BY <2>1, Nothing DEF Init, Typed
    <2>3. Placed /\ Flows
      BY DEF Init, Placed, Flows, Handler, Serving
    <2> QED  BY <2>2, <2>3
  <1>2. StreamInv /\ [Next]_vars => StreamInv'
    <2>1. Typed /\ Placed /\ Flows /\ [Next]_vars => (Typed /\ Placed /\ Flows)'
      BY TypedKept, PlacedKept, FlowsKept
    <2> QED  BY <2>1, StreamParts, PTL
  <1>3. StreamInv => StreamIsWhole
    <2> SUFFICES ASSUME StreamInv
                 PROVE  TypeOK
      BY DEF StreamInv, StreamIsWhole
    <2>1. \A k \in DOMAIN psq : psq[k] \in 1 .. published
      BY DEF StreamInv, ToSet
    <2> QED  BY <2>1 DEF StreamInv, TypeOK
  <1> QED  BY <1>1, <1>2, <1>3, PTL DEF Spec

\* A client that keeps up is never thrown out, whatever is published: as long
\* as the handler serves it, the reader is there to take in its pongs.
THEOREM PromptKept == Spec => []PromptClientKept
  <1>1. Init => PromptInv
    BY DEF Init, PromptInv, Serving
  <1>2. PromptInv /\ [Next]_vars => PromptInv'
    BY DEF PromptInv, Serving, Goes, Broken, StartReader, Next, Gateway, Loop, Deferred, vars,
           Publish, Subscribed, Forward, ForwarderEnds, Accept, Subscribe, TakeMessage, Written,
           PingDue, Pong, WriteOrPingFails, ContextDone, Unsub, CancelContext, CloseConn,
           ReadFails, ClientChanges
  <1>3. PromptInv => PromptClientKept
    BY DEF PromptInv, PromptClientKept, Serving
  <1> QED  BY <1>1, <1>2, <1>3, PTL DEF Spec
================================================================================
