--------------------------- MODULE ProtomuxProofs ---------------------------
(***************************************************************************)
(* Proofs about Protomux for every pair of ends, set of keys and bound:    *)
(* ids are taken, freed and mirrored right, and a channel gets the         *)
(* messages of its peer in the order they were sent.                       *)
(***************************************************************************)
EXTENDS Protomux, WellFoundedInduction, TLAPS

\* Ids, of channels at their end and of messages, start at 1.
Ids == Nat \ {0}

----------------------------------------------------------------------------
(* Ends and slots.                                                         *)

\* There are two ends, and each is the peer of the other.
LEMMA PeerFacts ==
  ASSUME NEW e \in End
  PROVE  /\ Peer(e) \in End /\ Peer(e) # e /\ Peer(Peer(e)) = e
         /\ \A x \in End : x = e \/ x = Peer(e)
  <1>1. PICK x, y \in End : x # y /\ End = {x, y}
    BY EndAssumption, Zenon
  <1>2. \E z \in End : z # e
    BY <1>1
  <1>3. Peer(e) \in End /\ Peer(e) # e
    BY <1>2, Zenon DEF Peer
  <1>4. \A z \in End : z = e \/ z = Peer(e)
    BY <1>1, <1>3
  <1>5. \E z \in End : z # Peer(e)
    BY <1>3, Zenon
  <1>6. Peer(Peer(e)) \in End /\ Peer(Peer(e)) # Peer(e)
    BY <1>5, Zenon DEF Peer
  <1> QED BY <1>3, <1>4, <1>6, Zenon

\* The vector t is slots with v in the slot of id.
IsSet(slots, id, v, t) ==
    /\ Slot(t, id) = v
    /\ \A j \in Ids : j # id => Slot(t, j) = Slot(slots, j)
    /\ id \in DOMAIN t /\ t[id] = v
    /\ \A j \in DOMAIN slots : j \in DOMAIN t /\ (j # id => t[j] = slots[j])
    /\ id <= Len(slots) + 1 => DOMAIN t = DOMAIN slots \cup {id}

\* Setting the slot of an id leaves the other slots alone.
LEMMA SlotIsSet ==
  ASSUME NEW S, None \in S, NEW slots \in Seq(S), NEW id \in Ids, NEW v \in S
  PROVE  SetSlot(slots, id, v) \in Seq(S) /\ IsSet(slots, id, v, SetSlot(slots, id, v))
  <1> DEFINE n == IF id > Len(slots) THEN id ELSE Len(slots)
             t == SetSlot(slots, id, v)
  <1>1. n \in Nat /\ id \in 1 .. n /\ DOMAIN slots = 1 .. Len(slots) /\ 1 .. Len(slots) \subseteq 1 .. n
    BY DEF Ids
  <1>2. t = [i \in 1 .. n |-> IF i = id THEN v ELSE Slot(slots, i)]
    BY Zenon DEF SetSlot
  <1>3. \A i \in 1 .. n : Slot(slots, i) \in S
    BY DEF Slot
  <1> HIDE DEF t, n
  <1>4. \A i \in 1 .. n : t[i] \in S /\ t[i] = IF i = id THEN v ELSE Slot(slots, i)
    BY <1>2, <1>3, Zenon
  <1>5. t \in Seq(S) /\ DOMAIN t = 1 .. n
    BY <1>1, <1>2, <1>4
  <1>6. ASSUME NEW j \in Ids PROVE Slot(t, j) = IF j = id THEN v ELSE Slot(slots, j)
    <2>1. CASE j \in 1 .. n
      BY <1>4, <1>5, <2>1, Zenon DEF Slot
    <2>2. CASE j \notin 1 .. n
      BY <1>1, <1>5, <2>2, Zenon DEF Slot
    <2> QED BY <2>1, <2>2
  <1>7. \A j \in DOMAIN slots : j \in DOMAIN t /\ (j # id => t[j] = slots[j])
    BY <1>1, <1>4, <1>5, Zenon DEF Slot
  <1>8. id <= Len(slots) + 1 => 1 .. n = 1 .. Len(slots) \cup {id}
    BY DEF n, Ids
  <1> QED BY <1>1, <1>4, <1>5, <1>6, <1>7, <1>8, Zenon DEF t, IsSet

\* A slot of a vector.
LEMMA SlotIn ==
  ASSUME NEW S, None \in S, NEW slots \in Seq(S), NEW id
  PROVE  Slot(slots, id) \in S /\ (Slot(slots, id) # None => id \in DOMAIN slots)
  BY DEF Slot

----------------------------------------------------------------------------
(* Frames that open and close an id.                                       *)

\* Only whether a slot is taken, and by which channel, matters.
Alike(x, y) == (x = None <=> y = None) /\ (x # None => x.ch = y.ch)

\* Slots that are alike may take each other's place.
LEMMA FollowsAlike ==
  ASSUME NEW w, NEW id, NEW h, NEW t, NEW h2, NEW t2, Follows(w, id, h, t), Alike(h, h2), Alike(t, t2)
  PROVE  Follows(w, id, h2, t2)
  BY Zenon DEF Follows, Alike

\* What appending f to w does to the frames about an id.
Grown(f, w, x, id) ==
    /\ IsAbout(f, id) => About(x, id) = About(w, id) \cup {Len(w) + 1}
    /\ ~IsAbout(f, id) => About(x, id) = About(w, id)

\* The places of A hold the same, and are all below n.
Kept(x, w, A) == \A i \in A : x[i] = w[i]
Under(A, n) == \A i \in A : i <= n /\ i < n /\ ~(n <= i) /\ ~(n < i)

\* A frame at the end of the wire.
LEMMA WireGrows ==
  ASSUME NEW S, NEW w \in Seq(S), NEW f \in S, NEW id, NEW x, x = Append(w, f)
  PROVE  /\ Grown(f, w, x, id)
         /\ x[Len(w) + 1] = f
         /\ Kept(x, w, About(w, id)) /\ Under(About(w, id), Len(w) + 1)
         /\ Len(w) + 1 <= Len(w) + 1 /\ ~(Len(w) + 1 < Len(w) + 1)
  <1>1. /\ DOMAIN x = DOMAIN w \cup {Len(w) + 1}
        /\ \A i \in DOMAIN w : /\ i < Len(w) + 1 /\ ~(Len(w) + 1 <= i) /\ i <= Len(w) + 1 /\ ~(Len(w) + 1 < i)
                               /\ i # Len(w) + 1 /\ x[i] = w[i]
        /\ x[Len(w) + 1] = f
        /\ Len(w) + 1 <= Len(w) + 1 /\ ~(Len(w) + 1 < Len(w) + 1)
    OBVIOUS
  <1> DEFINE n == Len(w) + 1
  <1>2. /\ DOMAIN x = DOMAIN w \cup {n} /\ x[n] = f /\ n \notin DOMAIN w
        /\ \A i \in DOMAIN w : x[i] = w[i]
    BY <1>1, Zenon
  <1> HIDE DEF n
  <1>3. /\ IsAbout(f, id) => About(x, id) = About(w, id) \cup {n}
        /\ ~IsAbout(f, id) => About(x, id) = About(w, id)
    <2>1. ASSUME NEW i PROVE i \in About(x, id) <=> (i \in About(w, id) \/ (i = n /\ IsAbout(f, id)))
      BY <1>2, Zenon DEF About
    <2> QED BY <2>1, Zenon
  <1>4. About(w, id) \subseteq DOMAIN w
    BY Zenon DEF About
  <1> QED BY <1>1, <1>3, <1>4, Zenon DEF n, Kept, Under, Grown

\* A frame that is not about the id changes nothing.
LEMMA FollowsOther ==
  ASSUME NEW S, NEW w \in Seq(S), NEW f \in S, NEW id, NEW h, NEW t, Follows(w, id, h, t),
         ~IsAbout(f, id)
  PROVE  Follows(Append(w, f), id, h, t)
  <1> DEFINE x == Append(w, f)
  <1>0. x = Append(w, f)
    OBVIOUS
  <1> HIDE DEF x
  <1>01. Grown(f, w, x, id) /\ Kept(x, w, About(w, id))
    BY <1>0, WireGrows, Zenon
  <1>1. About(x, id) = About(w, id) /\ Kept(x, w, About(w, id))
    BY <1>01, Zenon DEF Grown
  <1>2. Follows(x, id, h, t)
    BY <1>1, Zenon DEF Follows, Kept
  <1> QED BY <1>2, Zenon DEF x

\* The last frame about an id is the opposite of one that follows it.
LEMMA FollowsNext ==
  ASSUME NEW S, NEW w \in Seq(S), NEW f \in S, NEW id, NEW h, NEW t, NEW h2, Follows(w, id, h, t),
         IsAbout(f, id),
         f.type = "open" <=> h = None,
         IF f.type = "open" THEN h2 # None /\ h2.ch = f.ch ELSE h2 = None
  PROVE  Follows(Append(w, f), id, h2, t)
  <1> DEFINE x == Append(w, f)
             n == Len(w) + 1
             A == About(w, id)
             B == About(x, id)
  <1>0. x = Append(w, f)
    OBVIOUS
  <1> HIDE DEF x
  <1>01. /\ Grown(f, w, x, id) /\ x[n] = f /\ n <= n /\ ~(n < n)
         /\ Kept(x, w, A) /\ Under(A, n)
    BY <1>0, WireGrows, Zenon
  <1>1. /\ B = A \cup {n} /\ x[n] = f /\ n <= n /\ ~(n < n)
        /\ \A i \in A : x[i] = w[i] /\ i <= n /\ i < n /\ ~(n <= i) /\ ~(n < i)
    BY <1>01, Zenon DEF Kept, Under, Grown
  <1>2. \A i \in A : (\A j \in A : i <= j) => (w[i].type = "open" <=> t = None)
    BY Zenon DEF Follows
  <1>3. \A i, j \in A : (i < j /\ \A m \in A : m <= i \/ j <= m) => w[i].type # w[j].type
    BY Zenon DEF Follows
  <1>31. \A i \in A : (\A j \in A : j <= i) =>
              IF w[i].type = "open" THEN h # None /\ h.ch = w[i].ch ELSE h = None
    BY Zenon DEF Follows
  <1>32. A = {} => IF t # None THEN h # None /\ h.ch = t.ch ELSE h = None
    BY Zenon DEF Follows
  <1>4. A = {} \/ \E i \in A : TRUE
    BY Zenon
  <1> HIDE DEF n, A, B
  <1>5. \A i \in B : (\A j \in B : i <= j) => (x[i].type = "open" <=> t = None)
    <2> SUFFICES ASSUME NEW i \in B, \A j \in B : i <= j PROVE x[i].type = "open" <=> t = None
      BY Zenon
    <2>1. CASE i \in A
      BY <1>1, <1>2, <2>1, Zenon
    <2>2. CASE i = n
      <3>1. A = {}
        BY <1>1, <2>2, Zenon
      <3> QED BY <1>1, <1>32, <2>2, <3>1, Zenon
    <2> QED BY <1>1, <2>1, <2>2, Zenon
  <1>6. \A i, j \in B : (i < j /\ \A m \in B : m <= i \/ j <= m) => x[i].type # x[j].type
    <2> SUFFICES ASSUME NEW i \in B, NEW j \in B, i < j, \A m \in B : m <= i \/ j <= m
                 PROVE  x[i].type # x[j].type
      BY Zenon
    <2>1. i \in A
      BY <1>1, Zenon
    <2>2. CASE j \in A
      <3>1. \A m \in A : m <= i \/ j <= m
        BY <1>1, Zenon
      <3>2. w[i].type # w[j].type
        BY <1>3, <2>1, <2>2, <3>1, Zenon
      <3> QED BY <1>1, <2>1, <2>2, <3>2, Zenon
    <2>3. CASE j = n
      <3>1. \A m \in A : m <= i
        BY <1>1, <2>3, Zenon
      <3>2. IF w[i].type = "open" THEN h # None ELSE h = None
        BY <1>31, <2>1, <3>1, Zenon
      <3>3. x[i] = w[i] /\ x[j] = f
        BY <1>1, <2>1, <2>3, Zenon
      <3>4. CASE f.type = "open"
        BY <3>2, <3>3, <3>4, Zenon
      <3>5. CASE f.type # "open"
        BY <3>2, <3>3, <3>5, Zenon
      <3> QED BY <3>4, <3>5, Zenon
    <2> QED BY <1>1, <2>2, <2>3, Zenon
  <1>7. \A i \in B : (\A j \in B : j <= i) => IF x[i].type = "open" THEN h2 # None /\ h2.ch = x[i].ch ELSE h2 = None
    BY <1>1, Zenon
  <1>8. B # {}
    BY <1>1, Zenon
  <1>9. Follows(x, id, h2, t)
    BY <1>5, <1>6, <1>7, <1>8, Zenon DEF Follows, B
  <1> QED BY <1>9, Zenon DEF x

\* A frame that is read.
LEMMA WireShrinks ==
  ASSUME NEW S, NEW w \in Seq(S), w # << >>, NEW id
  PROVE  /\ Tail(w) \in Seq(S) /\ Head(w) = w[1] /\ w[1] \in S
         /\ \A i \in About(Tail(w), id) : /\ i + 1 \in About(w, id) /\ Tail(w)[i] = w[i + 1] /\ i \in Nat \ {0}
                                          /\ 1 < i + 1
         /\ \A i \in About(w, id) : i = 1 \/ (i - 1 \in About(Tail(w), id) /\ (i - 1) + 1 = i)
         /\ \A i \in About(w, id) : i \in Nat \ {0} /\ 1 <= i
         /\ 1 \in About(w, id) <=> IsAbout(Head(w), id)
  <1>1. /\ Tail(w) \in Seq(S) /\ Head(w) = w[1] /\ w[1] \in S /\ Len(w) \in Nat \ {0}
        /\ DOMAIN w = 1 .. Len(w) /\ DOMAIN Tail(w) = 1 .. Len(w) - 1
        /\ \A i \in 1 .. Len(w) - 1 : Tail(w)[i] = w[i + 1]
    OBVIOUS
  <1>2. \A i \in DOMAIN Tail(w) : i + 1 \in DOMAIN w /\ Tail(w)[i] = w[i + 1] /\ i \in Nat \ {0} /\ 1 < i + 1
    BY <1>1
  <1>3. \A i \in DOMAIN w : i = 1 \/ (i - 1 \in DOMAIN Tail(w) /\ (i - 1) + 1 = i)
    BY <1>1
  <1>4. 1 \in DOMAIN w /\ \A i \in DOMAIN w : i \in Nat \ {0} /\ 1 <= i
    BY <1>1
  <1> DEFINE v == Tail(w)
  <1>5. /\ \A i \in DOMAIN v : i + 1 \in DOMAIN w /\ v[i] = w[i + 1]
        /\ \A i \in DOMAIN w : i = 1 \/ (i - 1 \in DOMAIN v /\ (i - 1) + 1 = i)
    BY <1>2, <1>3, Zenon
  <1> HIDE DEF v
  <1>6. \A i \in About(v, id) : i \in DOMAIN v /\ i + 1 \in About(w, id)
    BY <1>5, Zenon DEF About
  <1>7. \A i \in About(w, id) : i \in DOMAIN w /\ (i = 1 \/ (i - 1 \in About(v, id) /\ (i - 1) + 1 = i))
    <2> SUFFICES ASSUME NEW i \in About(w, id), i # 1 PROVE i - 1 \in About(v, id) /\ (i - 1) + 1 = i
      BY Zenon DEF About
    <2>1. i \in DOMAIN w /\ IsAbout(w[i], id)
      BY Zenon DEF About
    <2>2. i - 1 \in DOMAIN v /\ (i - 1) + 1 = i /\ v[i - 1] = w[i]
      BY <1>5, <2>1, Zenon
    <2> QED BY <2>1, <2>2, Zenon DEF About
  <1>8. 1 \in About(w, id) <=> IsAbout(Head(w), id)
    BY <1>1, <1>4, Zenon DEF About
  <1> QED BY <1>1, <1>2, <1>4, <1>6, <1>7, <1>8, Zenon DEF v

\* The places C are those of A after the first, each one earlier.
Earlier(A, C) ==
    /\ \A i \in C : i + 1 \in A /\ i \in Nat \ {0}
    /\ \A i \in A : i \in Nat \ {0} /\ (i = 1 \/ i - 1 \in C)

\* Their order is that of A.
LEMMA EarlierOrder ==
  ASSUME NEW A, NEW C, Earlier(A, C)
  PROVE  /\ \A i \in C : (\A j \in C : i <= j) => /\ \A n \in A : n <= 1 \/ i + 1 <= n
                                                  /\ 1 \notin A => \A n \in A : i + 1 <= n
         /\ \A i, j \in C : (i < j /\ \A n \in C : n <= i \/ j <= n) =>
                i + 1 < j + 1 /\ \A n \in A : n <= i + 1 \/ j + 1 <= n
         /\ \A i \in C : (\A j \in C : j <= i) => \A n \in A : n <= i + 1
         /\ C = {} => \A n \in A : n = 1
  <1>1. ASSUME NEW i \in C, \A j \in C : i <= j, NEW n \in A
        PROVE  (n <= 1 \/ i + 1 <= n) /\ (1 \notin A => i + 1 <= n)
    BY <1>1, SMT DEF Earlier
  <1>2. ASSUME NEW i \in C, NEW j \in C, i < j, \A n \in C : n <= i \/ j <= n, NEW m \in A
        PROVE  i + 1 < j + 1 /\ (m <= i + 1 \/ j + 1 <= m)
    BY <1>2, SMT DEF Earlier
  <1>3. ASSUME NEW i \in C, \A j \in C : j <= i, NEW n \in A
        PROVE  n <= i + 1
    BY <1>3, SMT DEF Earlier
  <1>4. C = {} => \A n \in A : n = 1
    BY Zenon DEF Earlier
  <1>5. \A i \in C : (\A j \in C : i <= j) => /\ \A n \in A : n <= 1 \/ i + 1 <= n
                                              /\ 1 \notin A => \A n \in A : i + 1 <= n
    BY <1>1, Zenon
  <1>6. \A i, j \in C : (i < j /\ \A n \in C : n <= i \/ j <= n) =>
                i + 1 < j + 1 /\ \A n \in A : n <= i + 1 \/ j + 1 <= n
    <2>1. ASSUME NEW i \in C, NEW j \in C, i < j PROVE i + 1 < j + 1
      BY <2>1, SMT DEF Earlier
    <2> QED BY <1>2, <2>1, Zenon
  <1>7. \A i \in C : (\A j \in C : j <= i) => \A n \in A : n <= i + 1
    BY <1>3, Zenon
  <1> QED BY <1>4, <1>5, <1>6, <1>7, Zenon

\* The frames at the places C have moved by one.
Moved(v, w, A, C) == \A i \in C : v[i] = w[i + 1] /\ i + 1 \in A

\* What reading a frame does to the places of the others.
LEMMA PlacesRead ==
  ASSUME NEW S, NEW w \in Seq(S), w # << >>, NEW id
  PROVE  Moved(Tail(w), w, About(w, id), About(Tail(w), id))
  <1> DEFINE v == Tail(w)
             C == About(v, id)
  <1>1. \A i \in DOMAIN v : v[i] = w[i + 1]
    OBVIOUS
  <1>2. C \subseteq DOMAIN v
    BY Zenon DEF About
  <1>3. \A i \in C : i + 1 \in About(w, id)
    BY WireShrinks, Zenon
  <1> HIDE DEF v, C
  <1>4. Moved(v, w, About(w, id), C)
    BY <1>1, <1>2, <1>3, Zenon DEF Moved
  <1> QED BY <1>4, Zenon DEF v, C

\* Reading a frame that is not about the id changes nothing.
LEMMA FollowsUnread ==
  ASSUME NEW S, NEW w \in Seq(S), w # << >>, NEW id, NEW h, NEW t, Follows(w, id, h, t),
         ~IsAbout(Head(w), id)
  PROVE  Follows(Tail(w), id, h, t)
  <1> DEFINE v == Tail(w)
             A == About(w, id)
             C == About(v, id)
  <1>1. Earlier(A, C) /\ 1 \notin A /\ \A i \in C : v[i] = w[i + 1] /\ i + 1 \in A
    BY WireShrinks, Zenon DEF Earlier
  <1>2. Follows(w, id, h, t) /\ A = About(w, id) /\ C = About(v, id)
    OBVIOUS
  <1> HIDE DEF v, A, C
  <1>3. /\ \A i \in C : (\A j \in C : i <= j) => \A n \in A : i + 1 <= n
        /\ \A i, j \in C : (i < j /\ \A n \in C : n <= i \/ j <= n) =>
                i + 1 < j + 1 /\ \A n \in A : n <= i + 1 \/ j + 1 <= n
        /\ \A i \in C : (\A j \in C : j <= i) => \A n \in A : n <= i + 1
        /\ C = {} => A = {}
    BY <1>1, EarlierOrder, Zenon
  <1>4. \A i \in C : (\A j \in C : i <= j) => (v[i].type = "open" <=> t = None)
    BY <1>1, <1>2, <1>3, Zenon DEF Follows
  <1>5. \A i, j \in C : (i < j /\ \A n \in C : n <= i \/ j <= n) => v[i].type # v[j].type
    <2> SUFFICES ASSUME NEW i \in C, NEW j \in C, i < j, \A n \in C : n <= i \/ j <= n
                 PROVE  v[i].type # v[j].type
      BY Zenon
    <2>1. i + 1 < j + 1 /\ \A n \in A : n <= i + 1 \/ j + 1 <= n
      BY <1>3, Zenon
    <2>2. i + 1 \in A /\ j + 1 \in A /\ v[i] = w[i + 1] /\ v[j] = w[j + 1]
      BY <1>1, Zenon
    <2>3. w[i + 1].type # w[j + 1].type
      BY <1>2, <2>1, <2>2, Zenon DEF Follows
    <2> QED BY <2>2, <2>3, Zenon
  <1>6. \A i \in C : (\A j \in C : j <= i) =>
              IF v[i].type = "open" THEN h # None /\ h.ch = v[i].ch ELSE h = None
    <2> SUFFICES ASSUME NEW i \in C, \A j \in C : j <= i
                 PROVE  IF v[i].type = "open" THEN h # None /\ h.ch = v[i].ch ELSE h = None
      BY Zenon
    <2>1. i + 1 \in A /\ v[i] = w[i + 1] /\ \A n \in A : n <= i + 1
      BY <1>1, <1>3, Zenon
    <2>2. IF w[i + 1].type = "open" THEN h # None /\ h.ch = w[i + 1].ch ELSE h = None
      BY <1>2, <2>1, Zenon DEF Follows
    <2> QED BY <2>1, <2>2, Zenon
  <1>7. C = {} => IF t # None THEN h # None /\ h.ch = t.ch ELSE h = None
    BY <1>2, <1>3, Zenon DEF Follows
  <1>8. Follows(v, id, h, t)
    BY <1>2, <1>4, <1>5, <1>6, <1>7, Zenon DEF Follows
  <1> QED BY <1>8, Zenon DEF v

\* An Open that is read finds the slot free, a Close finds it taken, and after
\* it the slot is what the frame says.
LEMMA FollowsRead ==
  ASSUME NEW S, NEW w \in Seq(S), w # << >>, NEW id, NEW h, NEW t, NEW t2, Follows(w, id, h, t),
         IsAbout(Head(w), id),
         Head(w).type = "open" => t2 # None /\ t2.ch = Head(w).ch,
         Head(w).type # "open" => t2 = None
  PROVE  (Head(w).type = "open" <=> t = None) /\ Follows(Tail(w), id, h, t2)
  <1> DEFINE v == Tail(w)
             f == Head(w)
             A == About(w, id)
             C == About(v, id)
  <1>00. Earlier(A, C)
    BY WireShrinks, Zenon DEF Earlier
  <1>01. f = w[1] /\ 1 \in A /\ \A i \in A : 1 <= i
    BY WireShrinks, Zenon
  <1>02. \A i \in C : v[i] = w[i + 1] /\ i + 1 \in A
    BY PlacesRead, Zenon DEF Moved
  <1>03. \A i \in C : 1 < i + 1
    BY <1>00, SMT DEF Earlier
  <1>1. /\ Earlier(A, C) /\ 1 \in A
        /\ \A i \in C : v[i] = w[i + 1] /\ i + 1 \in A /\ 1 < i + 1
        /\ f = w[1]
        /\ \A i \in A : 1 <= i
    BY <1>00, <1>01, <1>02, <1>03, Zenon
  <1>2. Follows(w, id, h, t) /\ A = About(w, id) /\ C = About(v, id)
    OBVIOUS
  <1>3. /\ f.type = "open" => t2 # None /\ t2.ch = f.ch
        /\ f.type # "open" => t2 = None
    OBVIOUS
  <1> HIDE DEF v, f, A, C
  <1>4. f.type = "open" <=> t = None
    BY <1>1, <1>2, Zenon DEF Follows
  <1>5. /\ \A i \in C : (\A j \in C : i <= j) => \A n \in A : n <= 1 \/ i + 1 <= n
        /\ \A i, j \in C : (i < j /\ \A n \in C : n <= i \/ j <= n) =>
                i + 1 < j + 1 /\ \A n \in A : n <= i + 1 \/ j + 1 <= n
        /\ \A i \in C : (\A j \in C : j <= i) => \A n \in A : n <= i + 1
        /\ C = {} => \A n \in A : n = 1
    BY <1>1, EarlierOrder, Zenon
  <1>6. \A i \in C : (\A j \in C : i <= j) => (v[i].type = "open" <=> t2 = None)
    <2> SUFFICES ASSUME NEW i \in C, \A j \in C : i <= j PROVE v[i].type = "open" <=> t2 = None
      BY Zenon
    <2>1. w[1].type # w[i + 1].type
      BY <1>1, <1>2, <1>5, Zenon DEF Follows
    <2>2. w[i + 1].type \in {"open", "close"} /\ w[1].type \in {"open", "close"}
      BY <1>1, <1>2, Zenon DEF About, IsAbout
    <2>3. v[i] = w[i + 1] /\ f = w[1]
      BY <1>1, Zenon
    <2>4. v[i].type = "open" <=> f.type # "open"
      BY <2>1, <2>2, <2>3, Zenon
    <2> QED BY <1>3, <2>4, Zenon
  <1>7. \A i, j \in C : (i < j /\ \A n \in C : n <= i \/ j <= n) => v[i].type # v[j].type
    <2> SUFFICES ASSUME NEW i \in C, NEW j \in C, i < j, \A n \in C : n <= i \/ j <= n
                 PROVE  v[i].type # v[j].type
      BY Zenon
    <2>1. i + 1 < j + 1 /\ \A n \in A : n <= i + 1 \/ j + 1 <= n
      BY <1>5, Zenon
    <2>2. i + 1 \in A /\ j + 1 \in A /\ v[i] = w[i + 1] /\ v[j] = w[j + 1]
      BY <1>1, Zenon
    <2>3. w[i + 1].type # w[j + 1].type
      BY <1>2, <2>1, <2>2, Zenon DEF Follows
    <2> QED BY <2>2, <2>3, Zenon
  <1>8. \A i \in C : (\A j \in C : j <= i) =>
              IF v[i].type = "open" THEN h # None /\ h.ch = v[i].ch ELSE h = None
    <2> SUFFICES ASSUME NEW i \in C, \A j \in C : j <= i
                 PROVE  IF v[i].type = "open" THEN h # None /\ h.ch = v[i].ch ELSE h = None
      BY Zenon
    <2>1. i + 1 \in A /\ v[i] = w[i + 1] /\ \A n \in A : n <= i + 1
      BY <1>1, <1>5, Zenon
    <2>2. IF w[i + 1].type = "open" THEN h # None /\ h.ch = w[i + 1].ch ELSE h = None
      BY <1>2, <2>1, Zenon DEF Follows
    <2> QED BY <2>1, <2>2, Zenon
  <1>9. C = {} => IF t2 # None THEN h # None /\ h.ch = t2.ch ELSE h = None
    <2> SUFFICES ASSUME C = {} PROVE IF t2 # None THEN h # None /\ h.ch = t2.ch ELSE h = None
      BY Zenon
    <2>1. \A n \in A : n <= 1
      <3>1. 1 <= 1
        OBVIOUS
      <3> QED BY <1>5, <3>1, Zenon
    <2>2. IF f.type = "open" THEN h # None /\ h.ch = f.ch ELSE h = None
      BY <1>1, <1>2, <2>1, Zenon DEF Follows
    <2> QED BY <1>3, <2>2, Zenon
  <1>10. Follows(v, id, h, t2)
    BY <1>2, <1>6, <1>7, <1>8, <1>9, Zenon DEF Follows
  <1> QED BY <1>4, <1>10, Zenon DEF v, f

----------------------------------------------------------------------------
(* The messages of a frame.                                                *)

\* What holds at 0 and is handed on holds up to N.
LEMMA UpTo ==
  ASSUME NEW N \in Nat, NEW G, 0 \in G, \A n \in 1 .. N : n - 1 \in G => n \in G
  PROVE  \A n \in 0 .. N : n \in G
  <1> SUFFICES ASSUME NEW k \in 0 .. N, k \notin G PROVE FALSE
    BY Zenon
  <1> DEFINE B == {n \in Nat : n <= N /\ n \notin G}
  <1>1. k \in B
    OBVIOUS
  <1>2. B \subseteq Nat /\ B # {}
    BY <1>1, Zenon
  <1>3. PICK n \in B : \A y \in B : ~(<<y, n>> \in OpToRel(<, Nat))
    BY <1>2, NatLessThanWellFounded, WFMin, Zenon
  <1>4. n \in Nat /\ n <= N /\ n \notin G
    BY Zenon
  <1>5. n # 0
    BY <1>4, Zenon
  <1>6. n \in 1 .. N /\ n - 1 \in Nat /\ n - 1 <= N /\ n - 1 < n
    BY <1>4, <1>5, SMT
  <1>7. n - 1 \notin G
    BY <1>4, <1>6, Zenon
  <1>8. n - 1 \in B
    BY <1>6, <1>7, Zenon
  <1>9. <<n - 1, n>> \in OpToRel(<, Nat)
    BY <1>4, <1>6, Zenon DEF OpToRel
  <1> QED BY <1>3, <1>8, <1>9, Zenon

\* The states that dispatch goes through.
Steps(g, st, items, chans) ==
    /\ g[0] = st
    /\ \A n \in 1 .. Len(items) : g[n] = Dispatch(g[n - 1], items[n], chans)
    /\ Dispatched(st, items, chans) = g[Len(items)]

\* There are such states.
LEMMA DispatchSteps ==
  ASSUME NEW st, NEW items, NEW chans, Len(items) \in Nat
  PROVE  \E g : Steps(g, st, items, chans)
  <1> DEFINE N == Len(items)
             F(g) == [n \in 0 .. N |-> IF n = 0 THEN st ELSE Dispatch(g[n - 1], items[n], chans)]
             Upto(m, f) == /\ f[0] = st
                           /\ \A n \in 1 .. m : f[n] = Dispatch(f[n - 1], items[n], chans)
             G == {m \in Nat : \E f : Upto(m, f)}
  <1>1. 0 \in G
    <2>1. \A n \in 1 .. 0 : FALSE
      OBVIOUS
    <2>2. [n \in {0} |-> st][0] = st
      OBVIOUS
    <2>3. Upto(0, [n \in {0} |-> st])
      BY <2>1, <2>2, Zenon
    <2> QED BY <2>3, Zenon
  <1>2. ASSUME NEW m \in 1 .. N, m - 1 \in G PROVE m \in G
    <2>1. PICK f : Upto(m - 1, f)
      BY <1>2, Zenon
    <2> DEFINE h == [n \in 0 .. m |-> IF n = m THEN Dispatch(f[m - 1], items[m], chans) ELSE f[n]]
    <2>2. m \in Nat /\ 0 \in 0 .. m /\ 0 # m /\ m \in 0 .. m /\ m - 1 \in 0 .. m /\ m - 1 # m
      OBVIOUS
    <2>3. \A n \in 1 .. m : n \in 0 .. m /\ n - 1 \in 0 .. m /\ n - 1 # m /\ (n # m => n \in 1 .. m - 1)
      BY SMT
    <2>4. h[0] = st
      BY <2>1, <2>2, Zenon
    <2>5. ASSUME NEW n \in 1 .. m PROVE h[n] = Dispatch(h[n - 1], items[n], chans)
      <3>1. h[n - 1] = f[n - 1]
        BY <2>3, Zenon
      <3>2. CASE n = m
        BY <2>2, <3>1, <3>2, Zenon
      <3>3. CASE n # m
        <4>1. h[n] = f[n] /\ n \in 1 .. m - 1
          BY <2>3, <3>3, Zenon
        <4> QED BY <2>1, <3>1, <4>1, Zenon
      <3> QED BY <3>2, <3>3, Zenon
    <2>6. Upto(m, h)
      BY <2>4, <2>5, Zenon
    <2> QED BY <2>2, <2>6, Zenon
  <1>3. N \in G
    <2>1. N \in 0 .. N
      OBVIOUS
    <2> HIDE DEF G, N
    <2>2. N \in Nat
      BY DEF N
    <2> QED BY <1>1, <1>2, <2>1, <2>2, UpTo, Zenon
  <1>4. PICK f : Upto(N, f)
    BY <1>3, Zenon
  <1> DEFINE a == [n \in 0 .. N |-> f[n]]
  <1>5. \A n \in 0 .. N : n # 0 => n \in 1 .. N /\ n - 1 \in 0 .. N
    BY SMT
  <1>6. 0 \in 0 .. N /\ N \in 0 .. N /\ \A n \in 1 .. N : n \in 0 .. N /\ n # 0
    BY SMT
  <1>7. \A n \in 0 .. N : a[n] = IF n = 0 THEN st ELSE Dispatch(a[n - 1], items[n], chans)
    BY <1>4, <1>5, Zenon
  <1>8. a = F(a)
    BY <1>7, Zenon
  <1> DEFINE c == CHOOSE g : g = F(g)
  <1>9. c = F(c)
    <2> HIDE DEF F
    <2> QED BY <1>8, Zenon
  <1>10. Dispatched(st, items, chans) = c[N]
    BY Zenon DEF Dispatched
  <1>11. /\ c[0] = st
         /\ \A n \in 1 .. N : c[n] = Dispatch(c[n - 1], items[n], chans)
    <2> HIDE DEF c
    <2> QED BY <1>6, <1>9, Zenon
  <1> HIDE DEF c, N
  <1> QED BY <1>10, <1>11, Zenon DEF N, Steps

\* What holds before the first message and is kept by each holds after the last.
LEMMA DispatchedIn ==
  ASSUME NEW st, NEW items, NEW chans, Len(items) \in Nat, NEW G,
         <<0, st>> \in G,
         \A n \in 1 .. Len(items) : \A s : <<n - 1, s>> \in G => <<n, Dispatch(s, items[n], chans)>> \in G
  PROVE  <<Len(items), Dispatched(st, items, chans)>> \in G
  <1> DEFINE N == Len(items)
  <1>0. PICK g : Steps(g, st, items, chans)
    BY DispatchSteps, Zenon
  <1>1. /\ g[0] = st
        /\ \A n \in 1 .. N : g[n] = Dispatch(g[n - 1], items[n], chans)
        /\ Dispatched(st, items, chans) = g[N]
    BY <1>0, Zenon DEF Steps
  <1> DEFINE H == {n \in Nat : <<n, g[n]>> \in G}
  <1>2. 0 \in H
    BY <1>1, Zenon
  <1>3. \A n \in 1 .. N : n - 1 \in H => n \in H
    <2>1. ASSUME NEW n \in 1 .. N PROVE n \in Nat
      OBVIOUS
    <2> QED BY <1>1, <2>1, Zenon
  <1>4. N \in Nat /\ N \in 0 .. N
    OBVIOUS
  <1> HIDE DEF H
  <1>5. N \in H
    BY <1>2, <1>3, <1>4, UpTo, Zenon
  <1>6. <<N, g[N]>> \in G
    BY <1>5, Zenon DEF H
  <1> QED BY <1>1, <1>6, Zenon

----------------------------------------------------------------------------
(* The two ends' maps of ids.                                              *)

Locals == Seq(Local \cup {None})
Remotes == Seq(Remote \cup {None})
Frames == Seq(Frame)

\* None is no channel.
LEMMA NoneIsNone ==
  /\ None \notin Local /\ None \notin Remote
  /\ None \in Local \cup {None} /\ None \in Remote \cup {None}
  BY DEF None, Local, Remote

\* Slots of the same channels.
Same(s, t) == \A id \in Ids : Alike(Slot(s, id), Slot(t, id))

Mirror(w, loc, rem) == \A id \in Ids : Follows(w, id, Slot(loc, id), Slot(rem, id))

\* Slots of the same channels mirror the same.
LEMMA MirrorKeeps ==
  ASSUME NEW w, NEW loc, NEW rem, NEW loc2, NEW rem2, Mirror(w, loc, rem), Same(loc, loc2), Same(rem, rem2)
  PROVE  Mirror(w, loc2, rem2)
  BY FollowsAlike, Zenon DEF Mirror, Same

\* A vector has the slots of itself.
LEMMA SameSelf ==
  ASSUME NEW s
  PROVE  Same(s, s)
  BY Zenon DEF Same, Alike

\* A channel is opened in a free slot, and the peer told.
LEMMA MirrorOpens ==
  ASSUME NEW w \in Frames, NEW loc, NEW rem, NEW loc2, Mirror(w, loc, rem), NEW id \in Ids, NEW f \in Frame,
         f.type = "open", f.id = id, Slot(loc, id) = None, Slot(loc2, id) # None, Slot(loc2, id).ch = f.ch,
         \A j \in Ids : j # id => Slot(loc2, j) = Slot(loc, j)
  PROVE  Mirror(Append(w, f), loc2, rem)
  <1> SUFFICES ASSUME NEW j \in Ids PROVE Follows(Append(w, f), j, Slot(loc2, j), Slot(rem, j))
    BY Zenon DEF Mirror
  <1>1. Follows(w, j, Slot(loc, j), Slot(rem, j)) /\ w \in Seq(Frame)
    BY Zenon DEF Mirror, Frames
  <1>2. CASE j = id
    <2>1. IsAbout(f, j)
      BY <1>2, Zenon DEF IsAbout
    <2> QED BY <1>1, <1>2, <2>1, FollowsNext, Zenon
  <1>3. CASE j # id
    <2>1. ~IsAbout(f, j)
      BY <1>3, Zenon DEF IsAbout
    <2> QED BY <1>1, <1>3, <2>1, FollowsOther, Zenon
  <1> QED BY <1>2, <1>3, Zenon

\* A channel is closed, and the peer told.
LEMMA MirrorCloses ==
  ASSUME NEW w \in Frames, NEW loc, NEW rem, NEW loc2, Mirror(w, loc, rem), NEW id \in Ids, NEW f \in Frame,
         f.type = "close", f.id = id, Slot(loc, id) # None, Slot(loc2, id) = None,
         \A j \in Ids : j # id => Slot(loc2, j) = Slot(loc, j)
  PROVE  Mirror(Append(w, f), loc2, rem)
  <1> SUFFICES ASSUME NEW j \in Ids PROVE Follows(Append(w, f), j, Slot(loc2, j), Slot(rem, j))
    BY Zenon DEF Mirror
  <1>1. Follows(w, j, Slot(loc, j), Slot(rem, j)) /\ w \in Seq(Frame)
    BY Zenon DEF Mirror, Frames
  <1>2. CASE j = id
    <2>1. IsAbout(f, j) /\ f.type # "open"
      BY <1>2, Zenon DEF IsAbout
    <2> QED BY <1>1, <1>2, <2>1, FollowsNext, Zenon
  <1>3. CASE j # id
    <2>1. ~IsAbout(f, j)
      BY <1>3, Zenon DEF IsAbout
    <2> QED BY <1>1, <1>3, <2>1, FollowsOther, Zenon
  <1> QED BY <1>2, <1>3, Zenon

\* A frame with messages is sent.
LEMMA MirrorSends ==
  ASSUME NEW w \in Frames, NEW loc, NEW rem, Mirror(w, loc, rem), NEW f \in Frame,
         f.type \notin {"open", "close"}
  PROVE  Mirror(Append(w, f), loc, rem)
  <1> SUFFICES ASSUME NEW j \in Ids PROVE Follows(Append(w, f), j, Slot(loc, j), Slot(rem, j))
    BY Zenon DEF Mirror
  <1>1. Follows(w, j, Slot(loc, j), Slot(rem, j)) /\ w \in Seq(Frame) /\ ~IsAbout(f, j)
    BY Zenon DEF Mirror, Frames, IsAbout
  <1> QED BY <1>1, FollowsOther, Zenon

\* A frame with messages is read.
LEMMA MirrorReads ==
  ASSUME NEW w \in Frames, w # << >>, NEW loc, NEW rem, Mirror(w, loc, rem),
         Head(w).type \notin {"open", "close"}
  PROVE  Mirror(Tail(w), loc, rem)
  <1> SUFFICES ASSUME NEW j \in Ids PROVE Follows(Tail(w), j, Slot(loc, j), Slot(rem, j))
    BY Zenon DEF Mirror
  <1>1. Follows(w, j, Slot(loc, j), Slot(rem, j)) /\ w \in Seq(Frame) /\ ~IsAbout(Head(w), j)
    BY Zenon DEF Mirror, Frames, IsAbout
  <1> QED BY <1>1, FollowsUnread, Zenon

\* An Open is read, which finds its slot free.
LEMMA MirrorReadsOpen ==
  ASSUME NEW w \in Frames, w # << >>, NEW loc, NEW rem, Mirror(w, loc, rem), Head(w).type = "open",
         NEW id \in Ids, Head(w).id = id
  PROVE  /\ Slot(rem, id) = None
         /\ \A rem2 : /\ Slot(rem2, id) # None /\ Slot(rem2, id).ch = Head(w).ch
                      /\ \A j \in Ids : j # id => Slot(rem2, j) = Slot(rem, j)
                      => Mirror(Tail(w), loc, rem2)
  <1>1. w \in Seq(Frame) /\ Follows(w, id, Slot(loc, id), Slot(rem, id)) /\ IsAbout(Head(w), id)
    BY Zenon DEF Mirror, Frames, IsAbout
  <1>2. Slot(rem, id) = None
    <2> DEFINE t2 == [ch |-> Head(w).ch, local |-> 0, pending |-> << >>]
    <2>1. t2 # None /\ t2.ch = Head(w).ch
      BY DEF None
    <2> HIDE DEF t2
    <2> QED BY <1>1, <2>1, FollowsRead, Zenon
  <1>3. ASSUME NEW rem2, Slot(rem2, id) # None, Slot(rem2, id).ch = Head(w).ch,
               \A j \in Ids : j # id => Slot(rem2, j) = Slot(rem, j), NEW j \in Ids
        PROVE  Follows(Tail(w), j, Slot(loc, j), Slot(rem2, j))
    <2>1. CASE j = id
      BY <1>1, <1>3, <2>1, FollowsRead, Zenon
    <2>2. CASE j # id
      <3>1. ~IsAbout(Head(w), j) /\ Follows(w, j, Slot(loc, j), Slot(rem2, j))
        BY <1>3, <2>2, Zenon DEF IsAbout, Mirror
      <3> QED BY <1>1, <3>1, FollowsUnread, Zenon
    <2> QED BY <2>1, <2>2, Zenon
  <1> QED BY <1>2, <1>3, Zenon DEF Mirror

\* A Close is read, which finds its slot taken.
LEMMA MirrorReadsClose ==
  ASSUME NEW w \in Frames, w # << >>, NEW loc, NEW rem, NEW rem2, Mirror(w, loc, rem), Head(w).type = "close",
         NEW id \in Ids, Head(w).id = id, Slot(rem2, id) = None,
         \A j \in Ids : j # id => Slot(rem2, j) = Slot(rem, j)
  PROVE  Mirror(Tail(w), loc, rem2)
  <1> SUFFICES ASSUME NEW j \in Ids PROVE Follows(Tail(w), j, Slot(loc, j), Slot(rem2, j))
    BY Zenon DEF Mirror
  <1>1. w \in Seq(Frame) /\ Follows(w, j, Slot(loc, j), Slot(rem, j)) /\ Head(w).type # "open"
    BY Zenon DEF Mirror, Frames
  <1>2. CASE j = id
    <2>1. IsAbout(Head(w), j)
      BY <1>2, Zenon DEF IsAbout
    <2> QED BY <1>1, <1>2, <2>1, FollowsRead, Zenon
  <1>3. CASE j # id
    <2>1. ~IsAbout(Head(w), j)
      BY <1>3, Zenon DEF IsAbout
    <2> QED BY <1>1, <1>3, <2>1, FollowsUnread, Zenon
  <1> QED BY <1>2, <1>3, Zenon

----------------------------------------------------------------------------
(* An end's ids.                                                           *)

FreeOK(free, loc) ==
    /\ \A i, j \in DOMAIN free : free[i] = free[j] => i = j
    /\ Range(free) = {id \in DOMAIN loc : loc[id] = None}

HandlesOK(hs, loc) ==
    \A h \in hs : h.id \in DOMAIN loc /\ loc[h.id] # None /\ loc[h.id].ch = h.ch

WaitingOK(out, loc) ==
    \A k \in Key : \A i \in DOMAIN out[k] : out[k][i] \in DOMAIN loc

\* The same channels, whatever else has changed of them.
Renewed(loc, loc2) ==
    /\ loc2 \in Locals
    /\ DOMAIN loc2 = DOMAIN loc
    /\ \A i \in DOMAIN loc : Alike(loc[i], loc2[i])

\* What depends on which channels there are stays.
LEMMA RenewedKeeps ==
  ASSUME NEW loc, NEW loc2, Renewed(loc, loc2)
  PROVE  /\ Same(loc, loc2)
         /\ \A free : FreeOK(free, loc) => FreeOK(free, loc2)
         /\ \A hs : HandlesOK(hs, loc) => HandlesOK(hs, loc2)
         /\ \A out : WaitingOK(out, loc) => WaitingOK(out, loc2)
  <1>1. Same(loc, loc2)
    BY Zenon DEF Renewed, Same, Slot, Alike
  <1>2. {id \in DOMAIN loc : loc[id] = None} = {id \in DOMAIN loc2 : loc2[id] = None}
    BY Zenon DEF Renewed, Alike
  <1>3. ASSUME NEW free, FreeOK(free, loc) PROVE FreeOK(free, loc2)
    BY <1>2, <1>3, Zenon DEF FreeOK
  <1>4. ASSUME NEW hs, HandlesOK(hs, loc) PROVE HandlesOK(hs, loc2)
    BY <1>4, Zenon DEF HandlesOK, Renewed, Alike
  <1>5. ASSUME NEW out, WaitingOK(out, loc) PROVE WaitingOK(out, loc2)
    BY <1>5, Zenon DEF WaitingOK, Renewed
  <1> QED BY <1>1, <1>3, <1>4, <1>5, Zenon

\* A vector is renewed by itself.
LEMMA RenewedSelf ==
  ASSUME NEW loc \in Locals
  PROVE  Renewed(loc, loc)
  BY Zenon DEF Renewed, Alike

\* Changing what a slot says of its channel.
LEMMA RenewsSlot ==
  ASSUME NEW loc \in Locals, NEW l \in DOMAIN loc, NEW v \in Local, loc[l] # None, v.ch = loc[l].ch
  PROVE  Renewed(loc, [loc EXCEPT ![l] = v])
  <1> DEFINE loc2 == [loc EXCEPT ![l] = v]
  <1>1. loc2 \in Locals /\ DOMAIN loc2 = DOMAIN loc
    BY DEF Locals
  <1>2. \A i \in DOMAIN loc : loc2[i] = IF i = l THEN v ELSE loc[i]
    BY Zenon
  <1>3. v # None
    BY NoneIsNone, Zenon
  <1> HIDE DEF loc2
  <1>4. \A i \in DOMAIN loc : Alike(loc[i], loc2[i])
    BY <1>2, <1>3, Zenon DEF Alike
  <1>5. Renewed(loc, loc2)
    BY <1>1, <1>4, Zenon DEF Renewed
  <1> QED BY <1>5, Zenon DEF loc2

\* shutdown_all closes the channels, and they stay where they are.
LEMMA RenewsAll ==
  ASSUME NEW loc \in Locals
  PROVE  Renewed(loc, AllClosed(loc))
  <1> DEFINE loc2 == AllClosed(loc)
  <1>1. \A i \in DOMAIN loc : loc[i] \in Local \/ loc[i] = None
    BY DEF Locals
  <1>2. ASSUME NEW c \in Local
        PROVE  [c EXCEPT !.closed = TRUE] \in Local /\ [c EXCEPT !.closed = TRUE].ch = c.ch
    BY DEF Local
  <1>3. ASSUME NEW i \in DOMAIN loc
        PROVE  loc2[i] \in Local \cup {None} /\ Alike(loc[i], loc2[i])
    <2>1. CASE loc[i] = None
      BY <2>1, Zenon DEF AllClosed, Alike
    <2>2. CASE loc[i] # None
      <3>1. loc2[i] = [loc[i] EXCEPT !.closed = TRUE]
        BY <2>2, Zenon DEF AllClosed
      <3>2. loc2[i] \in Local /\ loc2[i].ch = loc[i].ch
        BY <1>1, <1>2, <2>2, <3>1, Zenon
      <3>3. loc2[i] # None
        BY <3>2, NoneIsNone, Zenon
      <3> QED BY <2>2, <3>2, <3>3, Zenon DEF Alike
    <2> QED BY <2>1, <2>2, Zenon
  <1>4. loc2 = [i \in DOMAIN loc |-> loc2[i]] /\ DOMAIN loc2 = DOMAIN loc
    BY Zenon DEF AllClosed
  <1>5. DOMAIN loc = 1 .. Len(loc) /\ Len(loc) \in Nat
    BY DEF Locals
  <1> HIDE DEF loc2
  <1>6. loc2 \in Locals
    BY <1>3, <1>4, <1>5 DEF Locals
  <1> QED BY <1>3, <1>4, <1>6, Zenon DEF Renewed, loc2

\* Taking an id off the stack.
LEMMA FreeTaken ==
  ASSUME NEW loc \in Locals, NEW free \in Seq(Ids), FreeOK(free, loc), free # << >>,
         NEW id, id = free[Len(free)], NEW c \in Local
  PROVE  /\ id \in DOMAIN loc /\ loc[id] = None
         /\ SubSeq(free, 1, Len(free) - 1) \in Seq(Ids)
         /\ FreeOK(SubSeq(free, 1, Len(free) - 1), SetSlot(loc, id, c))
  <1> DEFINE n == Len(free)
             rest == SubSeq(free, 1, n - 1)
             loc2 == SetSlot(loc, id, c)
  <1>1. n \in Nat \ {0} /\ n \in DOMAIN free /\ DOMAIN free = 1 .. n
    OBVIOUS
  <1>2. id \in Range(free)
    BY <1>1, Zenon DEF Range
  <1>3. id \in DOMAIN loc /\ loc[id] = None
    BY <1>2, Zenon DEF FreeOK
  <1>4. rest \in Seq(Ids) /\ DOMAIN rest = 1 .. n - 1 /\ \A i \in 1 .. n - 1 : rest[i] = free[i]
    BY <1>1
  <1>41. DOMAIN rest = DOMAIN free \ {n}
    BY <1>1, <1>4, SMT
  <1>5. id \in Ids /\ loc \in Seq(Local \cup {None}) /\ id <= Len(loc) + 1 /\ c \in Local \cup {None}
    BY <1>3 DEF Locals, Ids
  <1>6. /\ DOMAIN loc2 = DOMAIN loc \cup {id} /\ loc2[id] = c
        /\ \A j \in DOMAIN loc : j # id => loc2[j] = loc[j]
    <2> DEFINE S == Local \cup {None}
    <2>1. None \in S /\ loc \in Seq(S) /\ c \in S
      BY <1>5, NoneIsNone, Zenon
    <2> HIDE DEF S
    <2>2. IsSet(loc, id, c, loc2)
      BY <1>5, <2>1, SlotIsSet, Zenon
    <2> QED BY <1>5, <2>2, Zenon DEF IsSet
  <1>7. c # None
    BY NoneIsNone, Zenon
  <1>8. \A i \in DOMAIN rest : rest[i] = free[i] /\ i \in DOMAIN free /\ i # n
    BY <1>4, <1>41, Zenon
  <1> HIDE DEF rest, loc2, n
  <1>9. \A i, j \in DOMAIN rest : rest[i] = rest[j] => i = j
    BY <1>8, Zenon DEF FreeOK
  <1>10. ASSUME NEW x PROVE x \in Range(rest) <=> x \in {i \in DOMAIN loc2 : loc2[i] = None}
    <2>1. x \in Range(free) <=> x \in DOMAIN loc /\ loc[x] = None
      BY Zenon DEF FreeOK
    <2>2. x \in Range(rest) <=> x \in Range(free) /\ x # id
      <3>1. ASSUME x \in Range(rest) PROVE x \in Range(free) /\ x # id
        <4>1. PICK i \in DOMAIN rest : rest[i] = x
          BY <3>1, Zenon DEF Range
        <4>2. x = free[i] /\ i \in DOMAIN free /\ i # n
          BY <1>8, <4>1, Zenon
        <4>3. id = free[n] /\ n \in DOMAIN free
          BY <1>1, Zenon DEF n
        <4>4. x # id
          BY <4>2, <4>3, Zenon DEF FreeOK
        <4> QED BY <4>2, <4>4, Zenon DEF Range
      <3>2. ASSUME x \in Range(free), x # id PROVE x \in Range(rest)
        <4>1. PICK i \in DOMAIN free : free[i] = x
          BY <3>2, Zenon DEF Range
        <4>2. i # n
          BY <3>2, <4>1, Zenon DEF n
        <4>3. i \in DOMAIN rest /\ rest[i] = x
          BY <1>8, <1>41, <4>1, <4>2, Zenon
        <4> QED BY <4>3, Zenon DEF Range
      <3> QED BY <3>1, <3>2, Zenon
    <2>3. x # id => (x \in DOMAIN loc2 <=> x \in DOMAIN loc) /\ (x \in DOMAIN loc => loc2[x] = loc[x])
      BY <1>6, Zenon
    <2>4. x = id => loc2[x] # None
      BY <1>6, <1>7, Zenon
    <2> QED BY <2>1, <2>2, <2>3, <2>4, Zenon
  <1>11. Range(rest) = {i \in DOMAIN loc2 : loc2[i] = None}
    BY <1>10, Zenon
  <1>12. FreeOK(rest, loc2)
    BY <1>9, <1>11, Zenon DEF FreeOK
  <1> QED BY <1>3, <1>4, <1>12, Zenon DEF rest, loc2, n

\* With no id to use again, the vector grows.
LEMMA FreeGrown ==
  ASSUME NEW loc \in Locals, FreeOK(<< >>, loc), NEW id, id = Len(loc) + 1, NEW c \in Local
  PROVE  /\ id \in Ids /\ id \notin DOMAIN loc
         /\ FreeOK(<< >>, SetSlot(loc, id, c))
  <1> DEFINE S == Local \cup {None}
             loc2 == SetSlot(loc, id, c)
  <1>1. None \in S /\ loc \in Seq(S) /\ c \in S /\ c # None
    BY NoneIsNone, Zenon DEF Locals
  <1> HIDE DEF S
  <1>2. id \in Ids /\ id <= Len(loc) + 1 /\ id \notin DOMAIN loc
    BY <1>1 DEF Ids
  <1>3. IsSet(loc, id, c, loc2)
    BY <1>1, <1>2, SlotIsSet, Zenon
  <1>4. /\ DOMAIN loc2 = DOMAIN loc \cup {id} /\ loc2[id] = c
        /\ \A j \in DOMAIN loc : j # id => loc2[j] = loc[j]
    BY <1>2, <1>3, Zenon DEF IsSet
  <1> HIDE DEF loc2
  <1>5. DOMAIN << >> = {}
    OBVIOUS
  <1>6. Range(<< >>) = {}
    BY <1>5, Zenon DEF Range
  <1>7. \A j \in DOMAIN loc : loc[j] # None
    BY <1>6, Zenon DEF FreeOK
  <1>8. {i \in DOMAIN loc2 : loc2[i] = None} = {}
    BY <1>1, <1>2, <1>4, <1>7, Zenon
  <1>9. FreeOK(<< >>, loc2)
    BY <1>5, <1>6, <1>8, Zenon DEF FreeOK
  <1> QED BY <1>2, <1>9, Zenon DEF loc2

\* An id that is closed goes on the stack.
LEMMA FreeGiven ==
  ASSUME NEW loc \in Locals, NEW free \in Seq(Ids), FreeOK(free, loc), NEW id \in DOMAIN loc, loc[id] # None
  PROVE  /\ [loc EXCEPT ![id] = None] \in Locals
         /\ Append(free, id) \in Seq(Ids)
         /\ FreeOK(Append(free, id), [loc EXCEPT ![id] = None])
  <1> DEFINE more == Append(free, id)
             n == Len(free) + 1
             loc2 == [loc EXCEPT ![id] = None]
  <1>1. id \in Ids /\ loc2 \in Locals /\ DOMAIN loc2 = DOMAIN loc
    BY DEF Ids, Locals
  <1>2. \A i \in DOMAIN loc : loc2[i] = IF i = id THEN None ELSE loc[i]
    BY Zenon
  <1>3. /\ more \in Seq(Ids) /\ DOMAIN more = DOMAIN free \cup {n} /\ more[n] = id /\ n \notin DOMAIN free
        /\ \A i \in DOMAIN free : more[i] = free[i]
    BY <1>1
  <1> HIDE DEF more, n, loc2
  <1>4. id \notin Range(free)
    BY Zenon DEF FreeOK
  <1>5. \A i \in DOMAIN free : free[i] # id
    BY <1>4, Zenon DEF Range
  <1>6. \A i, j \in DOMAIN more : more[i] = more[j] => i = j
    BY <1>3, <1>5, Zenon DEF FreeOK
  <1>7. ASSUME NEW x PROVE x \in Range(more) <=> x \in {i \in DOMAIN loc2 : loc2[i] = None}
    <2>1. x \in Range(free) <=> x \in DOMAIN loc /\ loc[x] = None
      BY Zenon DEF FreeOK
    <2>2. ASSUME x \in Range(more) PROVE x \in Range(free) \/ x = id
      <3>1. PICK i \in DOMAIN more : more[i] = x
        BY <2>2, Zenon DEF Range
      <3>2. CASE i = n
        BY <1>3, <3>1, <3>2, Zenon
      <3>3. CASE i \in DOMAIN free
        <4>1. free[i] = x
          BY <1>3, <3>1, <3>3, Zenon
        <4> QED BY <3>3, <4>1, Zenon DEF Range
      <3> QED BY <1>3, <3>2, <3>3, Zenon
    <2>3. ASSUME x \in Range(free) PROVE x \in Range(more)
      <3>1. PICK i \in DOMAIN free : free[i] = x
        BY <2>3, Zenon DEF Range
      <3>2. i \in DOMAIN more /\ more[i] = x
        BY <1>3, <3>1, Zenon
      <3> QED BY <3>2, Zenon DEF Range
    <2>4. n \in DOMAIN more /\ more[n] = id
      BY <1>3, Zenon
    <2>5. id \in Range(more)
      BY <2>4, Zenon DEF Range
    <2> QED BY <1>1, <1>2, <2>1, <2>2, <2>3, <2>5, Zenon
  <1>8. Range(more) = {i \in DOMAIN loc2 : loc2[i] = None}
    BY <1>7, Zenon
  <1>9. FreeOK(more, loc2)
    BY <1>6, <1>8, Zenon DEF FreeOK
  <1> QED BY <1>1, <1>3, <1>9, Zenon DEF more, loc2

\* A channel put in a free slot takes none of the others' places.
LEMMA HandlesTaken ==
  ASSUME NEW hs, NEW loc, NEW loc2, NEW id, NEW c, NEW ch, HandlesOK(hs, loc), IsSet(loc, id, c, loc2),
         Slot(loc, id) = None, c # None, c.ch = ch
  PROVE  HandlesOK(hs \cup {[ch |-> ch, id |-> id]}, loc2)
  <1> DEFINE new == [ch |-> ch, id |-> id]
  <1>1. new.ch = ch /\ new.id = id
    OBVIOUS
  <1> HIDE DEF new
  <1>2. ASSUME NEW h \in hs PROVE h.id \in DOMAIN loc2 /\ loc2[h.id] # None /\ loc2[h.id].ch = h.ch
    <2>1. h.id \in DOMAIN loc /\ loc[h.id] # None /\ loc[h.id].ch = h.ch
      BY Zenon DEF HandlesOK
    <2>2. h.id # id
      BY <2>1, Zenon DEF Slot
    <2>3. h.id \in DOMAIN loc2 /\ loc2[h.id] = loc[h.id]
      BY <2>1, <2>2, Zenon DEF IsSet
    <2> QED BY <2>1, <2>3, Zenon
  <1>3. new.id \in DOMAIN loc2 /\ loc2[new.id] # None /\ loc2[new.id].ch = new.ch
    BY <1>1, Zenon DEF IsSet
  <1>4. HandlesOK(hs \cup {new}, loc2)
    BY <1>2, <1>3, Zenon DEF HandlesOK
  <1> QED BY <1>4, Zenon DEF new

\* No two handles are for one id.
LEMMA HandlesGiven ==
  ASSUME NEW hs, hs \subseteq [ch : Ids, id : Ids], NEW loc, HandlesOK(hs, loc), NEW h \in hs
  PROVE  HandlesOK(hs \ {h}, [loc EXCEPT ![h.id] = None])
  <1> DEFINE loc2 == [loc EXCEPT ![h.id] = None]
  <1>1. DOMAIN loc2 = DOMAIN loc /\ \A i \in DOMAIN loc : i # h.id => loc2[i] = loc[i]
    BY Zenon
  <1> HIDE DEF loc2
  <1>2. ASSUME NEW g \in hs \ {h} PROVE g.id \in DOMAIN loc2 /\ loc2[g.id] # None /\ loc2[g.id].ch = g.ch
    <2>1. g.id \in DOMAIN loc /\ loc[g.id] # None /\ loc[g.id].ch = g.ch /\ loc[h.id].ch = h.ch
      BY Zenon DEF HandlesOK
    <2>2. g.id # h.id
      <3> SUFFICES ASSUME g.id = h.id PROVE FALSE
        BY Zenon
      <3>1. g.ch = h.ch
        BY <2>1, Zenon
      <3>2. g \in [ch : Ids, id : Ids] /\ h \in [ch : Ids, id : Ids] /\ g # h
        BY Zenon
      <3> QED BY <3>1, <3>2
    <2> QED BY <1>1, <2>1, <2>2, Zenon
  <1>3. HandlesOK(hs \ {h}, loc2)
    BY <1>2, Zenon DEF HandlesOK
  <1> QED BY <1>3, Zenon DEF loc2

\* What waits still has its place in a vector that is no shorter.
LEMMA WaitingKeeps ==
  ASSUME NEW out, NEW loc, NEW loc2, WaitingOK(out, loc), DOMAIN loc \subseteq DOMAIN loc2
  PROVE  WaitingOK(out, loc2)
  BY Zenon DEF WaitingOK

----------------------------------------------------------------------------
(* Ids are taken, freed and mirrored right.                                *)

\* What an end's handles, free ids and waiting ids say is what its channels
\* are, and its peer sees them through the frames on the way.
EndInv(e) ==
    /\ FreeOK(free_ids[e], local[e])
    /\ HandlesOK(handles[e], local[e])
    /\ WaitingOK(outgoing[e], local[e])
    /\ up[Peer(e)] => Mirror(wire[e], local[e], remote[Peer(e)])

IdsInv == TypeOK /\ \A e \in End : EndInv(e)

----------------------------------------------------------------------------
(* Commands keep the ids right.                                            *)

\* The function g is f with v at one end.
ChangedAt(f, g, e, v, S) == g \in [End -> S] /\ g[e] = v /\ g[Peer(e)] = f[Peer(e)]

\* Changing the value at one end.
LEMMA ExceptAt ==
  ASSUME NEW S, NEW f \in [End -> S], NEW e \in End, NEW v \in S
  PROVE  ChangedAt(f, [f EXCEPT ![e] = v], e, v, S)
  BY PeerFacts DEF ChangedAt

\* A step of one end leaves the other's ids alone.
LEMMA EndsKeep ==
  ASSUME IdsInv, NEW e \in End, TypeOK',
         local'[Peer(e)] = local[Peer(e)], free_ids'[Peer(e)] = free_ids[Peer(e)],
         handles'[Peer(e)] = handles[Peer(e)], outgoing'[Peer(e)] = outgoing[Peer(e)],
         remote'[Peer(e)] = remote[Peer(e)], up'[Peer(e)] = up[Peer(e)],
         FreeOK(free_ids'[e], local'[e]), HandlesOK(handles'[e], local'[e]),
         WaitingOK(outgoing'[e], local'[e]),
         up[Peer(e)] => Mirror(wire'[e], local'[e], remote[Peer(e)]),
         up'[e] => Mirror(wire'[Peer(e)], local[Peer(e)], remote'[e])
  PROVE  IdsInv'
  <1>1. Peer(e) \in End /\ Peer(Peer(e)) = e /\ \A x \in End : x = e \/ x = Peer(e)
    BY PeerFacts, Zenon
  <1>2. EndInv(Peer(e))
    BY <1>1, Zenon DEF IdsInv
  <1>3. EndInv(e)'
    BY Zenon DEF EndInv
  <1>4. EndInv(Peer(e))'
    BY <1>1, <1>2, Zenon DEF EndInv
  <1> QED BY <1>1, <1>3, <1>4, Zenon DEF IdsInv

\* Changing what a slot says of the peer's channel.
LEMMA RenewsRemote ==
  ASSUME NEW rem \in Remotes, NEW r \in DOMAIN rem, rem[r] # None, NEW v \in Remote, v.ch = rem[r].ch
  PROVE  [rem EXCEPT ![r] = v] \in Remotes /\ Same(rem, [rem EXCEPT ![r] = v])
  <1> DEFINE rem2 == [rem EXCEPT ![r] = v]
  <1>1. rem2 \in Remotes /\ DOMAIN rem2 = DOMAIN rem
    BY DEF Remotes
  <1>2. \A i \in DOMAIN rem : rem2[i] = IF i = r THEN v ELSE rem[i]
    BY Zenon
  <1>3. v # None
    BY NoneIsNone, Zenon
  <1> HIDE DEF rem2
  <1>4. Same(rem, rem2)
    BY <1>1, <1>2, <1>3, Zenon DEF Same, Slot, Alike
  <1> QED BY <1>1, <1>4, Zenon DEF rem2

\* The parts of TypeOK.
LEMMA Types ==
  ASSUME TypeOK, NEW e \in End
  PROVE  /\ up[e] \in BOOLEAN /\ local[e] \in Locals /\ free_ids[e] \in Seq(Ids)
         /\ remote[e] \in Remotes /\ outgoing[e] \in [Key -> Seq(Ids)] /\ incoming[e] \in [Key -> Seq(Ids)]
         /\ cork_depth[e] \in 0 .. MaxCork /\ batch[e] \in Seq(Item)
         /\ handles[e] \in SUBSET [ch : Ids, id : Ids] /\ wire[e] \in Frames
         /\ created[e] \in Seq(Key) /\ sent[e] \in Seq(Ids) /\ got[e] \in Seq(Seq(Ids))
  BY Zenon DEF TypeOK, Locals, Remotes, Frames, Ids

\* TypeOK by its parts.
LEMMA TypesHold ==
  ASSUME up' \in [End -> BOOLEAN], local' \in [End -> Locals], free_ids' \in [End -> Seq(Ids)],
         remote' \in [End -> Remotes], outgoing' \in [End -> [Key -> Seq(Ids)]],
         incoming' \in [End -> [Key -> Seq(Ids)]], cork_depth' \in [End -> 0 .. MaxCork],
         batch' \in [End -> Seq(Item)], handles' \in [End -> SUBSET [ch : Ids, id : Ids]],
         wire' \in [End -> Frames], created' \in [End -> Seq(Key)], sent' \in [End -> Seq(Ids)],
         got' \in [End -> Seq(Seq(Ids))], hasty' \in BOOLEAN
  PROVE  TypeOK'
  BY Zenon DEF TypeOK, Locals, Remotes, Frames, Ids

\* A frame put on the wire.
LEMMA Writes ==
  ASSUME TypeOK, NEW e \in End, NEW f \in Frame, wire' = [wire EXCEPT ![e] = Append(wire[e], f)]
  PROVE  wire' \in [End -> Frames] /\ wire'[e] = Append(wire[e], f) /\ wire'[Peer(e)] = wire[Peer(e)]
  <1>1. wire \in [End -> Frames] /\ wire[e] \in Seq(Frame)
    BY Zenon DEF TypeOK, Frames
  <1>2. Append(wire[e], f) \in Frames
    BY <1>1 DEF Frames
  <1>3. ChangedAt(wire, wire', e, Append(wire[e], f), Frames)
    BY <1>1, <1>2, ExceptAt, Zenon
  <1> QED BY <1>3, Zenon DEF ChangedAt

\* A frame taken off it by the peer.
LEMMA ReadsOff ==
  ASSUME TypeOK, NEW e \in End, NEW type, Reads(e, type)
  PROVE  /\ up[e] /\ wire[Peer(e)] # << >> /\ Head(wire[Peer(e)]).type = type
         /\ Head(wire[Peer(e)]) \in Frame
         /\ wire' \in [End -> Frames] /\ wire'[Peer(e)] = Tail(wire[Peer(e)]) /\ wire'[e] = wire[e]
  <1> DEFINE p == Peer(e)
  <1>1. p \in End /\ Peer(p) = e
    BY PeerFacts, Zenon
  <1>2. /\ up[e] /\ wire[p] # << >> /\ Head(wire[p]).type = type
        /\ wire' = [wire EXCEPT ![p] = Tail(wire[p])]
    BY Zenon DEF Reads
  <1> HIDE DEF p
  <1>3. wire \in [End -> Frames] /\ wire[p] \in Seq(Frame)
    BY <1>1, Zenon DEF TypeOK, Frames
  <1>4. Tail(wire[p]) \in Frames /\ Head(wire[p]) \in Frame
    BY <1>2, <1>3 DEF Frames
  <1>50. ChangedAt(wire, wire', p, Tail(wire[p]), Frames)
    BY <1>1, <1>2, <1>3, <1>4, ExceptAt, Zenon
  <1>5. /\ wire' \in [End -> Frames] /\ wire'[p] = Tail(wire[p]) /\ wire'[Peer(p)] = wire[Peer(p)]
    BY <1>50, Zenon DEF ChangedAt
  <1> QED BY <1>1, <1>2, <1>4, <1>5, Zenon DEF p

\* The maps of an end, before a step.
LEMMA EndsBefore ==
  ASSUME IdsInv, NEW e \in End
  PROVE  /\ FreeOK(free_ids[e], local[e]) /\ HandlesOK(handles[e], local[e]) /\ WaitingOK(outgoing[e], local[e])
         /\ up[Peer(e)] => Mirror(wire[e], local[e], remote[Peer(e)])
         /\ up[e] => Mirror(wire[Peer(e)], local[Peer(e)], remote[e])
         /\ Peer(e) \in End /\ TypeOK
  BY PeerFacts, Zenon DEF IdsInv, EndInv

\* Writing a frame with messages, or none.
LEMMA MessagesKeep ==
  ASSUME IdsInv, NEW e \in End, TypeOK',
         UNCHANGED <<local, free_ids, handles, outgoing, remote, up>>,
         wire' = wire \/ \E f \in Frame : /\ f.type \notin {"open", "close"}
                                          /\ wire' = [wire EXCEPT ![e] = Append(wire[e], f)]
  PROVE  IdsInv'
  <1>1. /\ FreeOK(free_ids[e], local[e]) /\ HandlesOK(handles[e], local[e]) /\ WaitingOK(outgoing[e], local[e])
        /\ up[Peer(e)] => Mirror(wire[e], local[e], remote[Peer(e)])
        /\ up[e] => Mirror(wire[Peer(e)], local[Peer(e)], remote[e])
        /\ TypeOK
    BY EndsBefore, Zenon
  <1>2. /\ local' = local /\ free_ids' = free_ids /\ handles' = handles /\ outgoing' = outgoing
        /\ remote' = remote /\ up' = up
    BY Zenon
  <1>3. wire[e] \in Frames
    BY <1>1, Types, Zenon
  <1>4. /\ up[Peer(e)] => Mirror(wire'[e], local[e], remote[Peer(e)])
        /\ up[e] => Mirror(wire'[Peer(e)], local[Peer(e)], remote[e])
    <2>1. CASE wire' = wire
      BY <1>1, <2>1, Zenon
    <2>2. CASE \E f \in Frame : /\ f.type \notin {"open", "close"}
                                /\ wire' = [wire EXCEPT ![e] = Append(wire[e], f)]
      <3>1. PICK f \in Frame : f.type \notin {"open", "close"} /\ wire' = [wire EXCEPT ![e] = Append(wire[e], f)]
        BY <2>2, Zenon
      <3>2. wire'[e] = Append(wire[e], f) /\ wire'[Peer(e)] = wire[Peer(e)]
        BY <1>1, <3>1, Writes, Zenon
      <3>3. up[Peer(e)] => Mirror(Append(wire[e], f), local[e], remote[Peer(e)])
        BY <1>1, <1>3, <3>1, MirrorSends, Zenon
      <3> QED BY <1>1, <3>2, <3>3, Zenon
    <2> QED BY <2>1, <2>2, Zenon
  <1> QED BY <1>1, <1>2, <1>4, EndsKeep, Zenon

\* Cork.
LEMMA CorkKeeps ==
  ASSUME IdsInv, NEW e \in End, Cork(e)
  PROVE  IdsInv'
  <1>1. TypeOK
    BY Zenon DEF IdsInv
  <1>2. cork_depth' \in [End -> 0 .. MaxCork]
    BY <1>1, MuxBoundAssumption, SMT DEF TypeOK, Cork
  <1>3. TypeOK'
    BY <1>1, <1>2, Zenon DEF TypeOK, Cork
  <1> QED BY <1>3, MessagesKeep, Zenon DEF Cork

\* Uncork.
LEMMA UncorkKeeps ==
  ASSUME IdsInv, NEW e \in End, Uncork(e)
  PROVE  IdsInv'
  <1> DEFINE f == BatchFrame(batch[e])
  <1>1. TypeOK
    BY Zenon DEF IdsInv
  <1>2. batch[e] \in Seq(Item)
    BY <1>1, Types, Zenon
  <1>3. f \in Frame /\ f.type = "batch"
    BY <1>2 DEF BatchFrame, Frame
  <1>4. cork_depth' \in [End -> 0 .. MaxCork]
    <2>1. cork_depth \in [End -> 0 .. MaxCork] /\ cork_depth' = [cork_depth EXCEPT ![e] = @ - 1] /\ cork_depth[e] > 0
      BY <1>1, Zenon DEF TypeOK, Uncork
    <2> QED BY <2>1, MuxBoundAssumption, SMT
  <1>5. wire' = wire \/ wire' = [wire EXCEPT ![e] = Append(wire[e], f)]
    BY Zenon DEF Uncork
  <1> HIDE DEF f
  <1>6. wire' \in [End -> Frames]
    <2>1. wire \in [End -> Frames]
      BY <1>1, Zenon DEF TypeOK, Frames
    <2> QED BY <1>1, <1>3, <1>5, <2>1, Writes, Zenon
  <1>7. batch' \in [End -> Seq(Item)]
    <2>1. batch \in [End -> Seq(Item)] /\ (batch' = batch \/ batch' = [batch EXCEPT ![e] = << >>])
      BY <1>1, Zenon DEF TypeOK, Uncork
    <2>2. << >> \in Seq(Item)
      OBVIOUS
    <2>3. ChangedAt(batch, [batch EXCEPT ![e] = << >>], e, << >>, Seq(Item))
      BY <2>1, <2>2, ExceptAt, Zenon
    <2> QED BY <2>1, <2>3, Zenon DEF ChangedAt
  <1>8. TypeOK'
    BY <1>1, <1>4, <1>6, <1>7, Zenon DEF TypeOK, Uncork, Frames
  <1>9. UNCHANGED <<local, free_ids, handles, outgoing, remote, up>>
    BY Zenon DEF Uncork
  <1>10. f.type \notin {"open", "close"}
    BY <1>3
  <1> QED BY <1>3, <1>5, <1>8, <1>9, <1>10, MessagesKeep, Zenon

\* SendMessage.
LEMMA SendMessageKeeps ==
  ASSUME IdsInv, NEW e \in End, NEW h \in handles[e], SendMessage(e, h)
  PROVE  IdsInv'
  <1> DEFINE n == Len(sent[e]) + 1
             f == MessageFrame(h.id, n)
             it == [id |-> h.id, msg |-> n]
  <1>1. TypeOK
    BY Zenon DEF IdsInv
  <1>2. batch[e] \in Seq(Item) /\ sent[e] \in Seq(Ids) /\ handles[e] \in SUBSET [ch : Ids, id : Ids]
    BY <1>1, Types, Zenon
  <1>3. h \in [ch : Ids, id : Ids]
    BY <1>2, Zenon
  <1>30. n \in Ids /\ h.id \in Ids /\ h.ch \in Ids
    BY <1>2, <1>3 DEF Ids
  <1>4. f \in Frame /\ f.type = "message" /\ it \in Item
    BY <1>30 DEF MessageFrame, Frame, Item, Ids
  <1>5. /\ wire' = wire \/ wire' = [wire EXCEPT ![e] = Append(wire[e], f)]
        /\ batch' = batch \/ batch' = [batch EXCEPT ![e] = Append(batch[e], it)]
        /\ sent' = [sent EXCEPT ![e] = Append(sent[e], h.ch)]
    BY Zenon DEF SendMessage
  <1> HIDE DEF f, it, n
  <1>6. wire' \in [End -> Frames]
    <2>1. wire \in [End -> Frames]
      BY <1>1, Zenon DEF TypeOK, Frames
    <2> QED BY <1>1, <1>4, <1>5, <2>1, Writes, Zenon
  <1>7. batch' \in [End -> Seq(Item)] /\ sent' \in [End -> Seq(Ids)]
    <2>1. batch \in [End -> Seq(Item)] /\ sent \in [End -> Seq(Ids)]
      BY <1>1, Zenon DEF TypeOK, Ids
    <2>2. Append(batch[e], it) \in Seq(Item) /\ Append(sent[e], h.ch) \in Seq(Ids)
      BY <1>2, <1>30, <1>4
    <2> QED BY <1>5, <2>1, <2>2
  <1>8. TypeOK'
    BY <1>1, <1>6, <1>7, Zenon DEF TypeOK, SendMessage, Frames, Ids
  <1>9. UNCHANGED <<local, free_ids, handles, outgoing, remote, up>>
    BY Zenon DEF SendMessage
  <1>10. f.type \notin {"open", "close"}
    BY <1>4
  <1> QED BY <1>4, <1>5, <1>8, <1>9, <1>10, MessagesKeep, Zenon

\* Shutdown.
LEMMA ShutdownKeeps ==
  ASSUME IdsInv, NEW e \in End, Shutdown(e)
  PROVE  IdsInv'
  <1>1. /\ FreeOK(free_ids[e], local[e]) /\ HandlesOK(handles[e], local[e]) /\ WaitingOK(outgoing[e], local[e])
        /\ up[Peer(e)] => Mirror(wire[e], local[e], remote[Peer(e)])
        /\ TypeOK /\ Peer(e) \in End
    BY EndsBefore, Zenon
  <1>2. local[e] \in Locals /\ local \in [End -> Locals] /\ up \in [End -> BOOLEAN]
    BY <1>1, Types, Zenon DEF TypeOK, Locals
  <1>3. Renewed(local[e], AllClosed(local[e]))
    BY <1>2, RenewsAll, Zenon
  <1>4. /\ local' = [local EXCEPT ![e] = AllClosed(local[e])] /\ up' = [up EXCEPT ![e] = FALSE]
        /\ UNCHANGED <<free_ids, remote, outgoing, incoming, cork_depth, batch, handles, wire,
                       created, sent, got, hasty>>
    BY Zenon DEF Shutdown
  <1>5. ChangedAt(local, local', e, AllClosed(local[e]), Locals) /\ ChangedAt(up, up', e, FALSE, BOOLEAN)
    <2>1. AllClosed(local[e]) \in Locals /\ FALSE \in BOOLEAN
      BY <1>3, Zenon DEF Renewed
    <2> QED BY <1>2, <1>4, <2>1, ExceptAt, Zenon
  <1>6. /\ local' \in [End -> Locals] /\ local'[e] = AllClosed(local[e]) /\ local'[Peer(e)] = local[Peer(e)]
        /\ up' \in [End -> BOOLEAN] /\ up'[e] = FALSE /\ up'[Peer(e)] = up[Peer(e)]
    BY <1>5, Zenon DEF ChangedAt
  <1>7. /\ Same(local[e], local'[e]) /\ FreeOK(free_ids[e], local'[e]) /\ HandlesOK(handles[e], local'[e])
        /\ WaitingOK(outgoing[e], local'[e])
    BY <1>1, <1>3, <1>6, RenewedKeeps, Zenon
  <1>8. up[Peer(e)] => Mirror(wire[e], local'[e], remote[Peer(e)])
    BY <1>1, <1>7, SameSelf, MirrorKeeps, Zenon
  <1>9. TypeOK'
    BY <1>1, <1>4, <1>6, Zenon DEF TypeOK, Locals
  <1>10. /\ free_ids' = free_ids /\ handles' = handles /\ outgoing' = outgoing /\ remote' = remote /\ wire' = wire
    BY <1>4, Zenon
  <1> QED BY <1>6, <1>7, <1>8, <1>9, <1>10, EndsKeep, Zenon

\* CloseChannel.
LEMMA CloseChannelKeeps ==
  ASSUME IdsInv, NEW e \in End, NEW h \in handles[e], CloseChannel(e, h)
  PROVE  IdsInv'
  <1> DEFINE id == h.id
             loc == local[e]
             f == CloseFrame(id)
             loc2 == [loc EXCEPT ![id] = None]
  <1>1. /\ FreeOK(free_ids[e], loc) /\ HandlesOK(handles[e], loc) /\ WaitingOK(outgoing[e], loc)
        /\ up[Peer(e)] => Mirror(wire[e], loc, remote[Peer(e)])
        /\ up[e] => Mirror(wire[Peer(e)], local[Peer(e)], remote[e])
        /\ TypeOK /\ Peer(e) \in End
    BY EndsBefore, Zenon
  <1>2. /\ loc \in Locals /\ free_ids[e] \in Seq(Ids) /\ handles[e] \in SUBSET [ch : Ids, id : Ids] /\ wire[e] \in Frames
    BY <1>1, Types, Zenon
  <1>3. /\ local \in [End -> Locals] /\ free_ids \in [End -> Seq(Ids)] /\ wire \in [End -> Frames]
        /\ handles \in [End -> SUBSET [ch : Ids, id : Ids]]
    BY <1>1, Zenon DEF TypeOK, Locals, Ids, Frames
  <1>4. id \in DOMAIN loc /\ loc[id] # None
    BY <1>1, Zenon DEF HandlesOK
  <1>40. h \in [ch : Ids, id : Ids]
    BY <1>2, Zenon
  <1>5. id \in Ids /\ f \in Frame /\ f.type = "close" /\ f.id = id
    BY <1>40 DEF CloseFrame, Frame, Ids
  <1>6. /\ handles' = [handles EXCEPT ![e] = handles[e] \ {h}]
        /\ UNCHANGED <<up, remote, outgoing, incoming, cork_depth, batch, created, sent, got>>
    BY Zenon DEF CloseChannel
  <1>7. \/ UNCHANGED <<local, free_ids, wire, hasty>>
        \/ /\ wire' = [wire EXCEPT ![e] = Append(wire[e], f)]
           /\ local' = [local EXCEPT ![e] = loc2]
           /\ free_ids' = [free_ids EXCEPT ![e] = Append(free_ids[e], id)]
           /\ hasty' = (hasty \/ ~loc[id].opened)
    BY Zenon DEF CloseChannel, WithClose
  <1>8. up' = up /\ remote' = remote /\ outgoing' = outgoing
    BY <1>6, Zenon
  <1> DEFINE hs == handles[e] \ {h}
  <1>9. handles' \in [End -> SUBSET [ch : Ids, id : Ids]] /\ handles'[e] = hs /\ handles'[Peer(e)] = handles[Peer(e)]
    <2>1. hs \in SUBSET [ch : Ids, id : Ids]
      BY <1>2, Zenon
    <2>2. ChangedAt(handles, handles', e, hs, SUBSET [ch : Ids, id : Ids])
      BY <1>3, <1>6, <2>1, ExceptAt, Zenon
    <2> QED BY <2>2, Zenon DEF ChangedAt
  <1> HIDE DEF loc2, f, id, loc, hs
  <1>10. CASE UNCHANGED <<local, free_ids, wire, hasty>>
    <2>1. local' = local /\ free_ids' = free_ids /\ wire' = wire /\ hasty' = hasty
      BY <1>10, Zenon
    <2>2. HandlesOK(hs, loc)
      BY <1>1, Zenon DEF HandlesOK, hs
    <2>3. TypeOK'
      BY <1>1, <1>6, <1>9, <2>1, Zenon DEF TypeOK, Ids
    <2> QED BY <1>1, <1>8, <1>9, <2>1, <2>2, <2>3, EndsKeep, Zenon DEF loc
  <1>11. CASE /\ wire' = [wire EXCEPT ![e] = Append(wire[e], f)]
              /\ local' = [local EXCEPT ![e] = loc2]
              /\ free_ids' = [free_ids EXCEPT ![e] = Append(free_ids[e], id)]
              /\ hasty' = (hasty \/ ~loc[id].opened)
    <2>1. loc2 \in Locals /\ Append(free_ids[e], id) \in Seq(Ids) /\ FreeOK(Append(free_ids[e], id), loc2)
      BY <1>1, <1>2, <1>4, FreeGiven, Zenon DEF loc2
    <2>2. HandlesOK(hs, loc2)
      BY <1>1, <1>2, HandlesGiven, Zenon DEF hs, loc2, id
    <2>3. DOMAIN loc2 = DOMAIN loc /\ loc2[id] = None /\ \A i \in DOMAIN loc : i # id => loc2[i] = loc[i]
      BY <1>4, Zenon DEF loc2
    <2>4. WaitingOK(outgoing[e], loc2)
      BY <1>1, <2>3, WaitingKeeps, Zenon
    <2>5. Slot(loc, id) # None /\ Slot(loc2, id) = None /\ \A j \in Ids : j # id => Slot(loc2, j) = Slot(loc, j)
      BY <1>4, <2>3, Zenon DEF Slot
    <2>6. wire' \in [End -> Frames] /\ wire'[e] = Append(wire[e], f) /\ wire'[Peer(e)] = wire[Peer(e)]
      BY <1>1, <1>5, <1>11, Writes, Zenon
    <2>7. up[Peer(e)] => Mirror(Append(wire[e], f), loc2, remote[Peer(e)])
      BY <1>1, <1>2, <1>5, <2>5, MirrorCloses, Zenon
    <2>8. ChangedAt(local, local', e, loc2, Locals)
      BY <1>3, <1>11, <2>1, ExceptAt, Zenon
    <2>9. ChangedAt(free_ids, free_ids', e, Append(free_ids[e], id), Seq(Ids))
      BY <1>3, <1>11, <2>1, ExceptAt, Zenon
    <2>10. /\ local' \in [End -> Locals] /\ local'[e] = loc2 /\ local'[Peer(e)] = local[Peer(e)]
           /\ free_ids' \in [End -> Seq(Ids)] /\ free_ids'[e] = Append(free_ids[e], id)
           /\ free_ids'[Peer(e)] = free_ids[Peer(e)]
      BY <2>8, <2>9, Zenon DEF ChangedAt
    <2>11. hasty' \in BOOLEAN
      BY <1>11, Zenon
    <2>12. TypeOK'
      BY <1>1, <1>6, <1>9, <2>6, <2>10, <2>11, Zenon DEF TypeOK, Ids, Locals, Frames
    <2>13. up[Peer(e)] => Mirror(wire'[e], local'[e], remote[Peer(e)])
      BY <2>6, <2>7, <2>10, Zenon
    <2>14. up'[e] => Mirror(wire'[Peer(e)], local[Peer(e)], remote'[e])
      BY <1>1, <1>8, <2>6, Zenon
    <2>15. /\ FreeOK(free_ids'[e], local'[e]) /\ HandlesOK(handles'[e], local'[e]) /\ WaitingOK(outgoing'[e], local'[e])
      BY <1>8, <1>9, <2>1, <2>2, <2>4, <2>10, Zenon
    <2>16. /\ local'[Peer(e)] = local[Peer(e)] /\ free_ids'[Peer(e)] = free_ids[Peer(e)]
           /\ handles'[Peer(e)] = handles[Peer(e)] /\ outgoing'[Peer(e)] = outgoing[Peer(e)]
           /\ remote'[Peer(e)] = remote[Peer(e)] /\ up'[Peer(e)] = up[Peer(e)]
      BY <1>8, <1>9, <2>10, Zenon
    <2> QED BY <2>12, <2>13, <2>14, <2>15, <2>16, EndsKeep, Zenon
  <1> QED BY <1>7, <1>10, <1>11, Zenon

\* The id a channel gets is free, and no longer free after it.
LEMMA IdTaken ==
  ASSUME IdsInv, NEW e \in End, NEW c \in Local
  PROVE  /\ alloc_local_id(e) \in Ids /\ Slot(local[e], alloc_local_id(e)) = None
         /\ PopFree(e) \in Seq(Ids)
         /\ FreeOK(PopFree(e), SetSlot(local[e], alloc_local_id(e), c))
  <1> DEFINE id == alloc_local_id(e)
             free == free_ids[e]
             loc == local[e]
             rest == PopFree(e)
  <1>1. FreeOK(free, loc) /\ loc \in Locals /\ free \in Seq(Ids)
    BY EndsBefore, Types, Zenon
  <1>2. /\ free # << >> => id = free[Len(free)] /\ rest = SubSeq(free, 1, Len(free) - 1)
        /\ free = << >> => id = Len(loc) + 1 /\ rest = << >>
    BY Zenon DEF alloc_local_id, PopFree
  <1> HIDE DEF id, free, loc, rest
  <1>3. CASE free # << >>
    <2>1. id \in DOMAIN loc /\ loc[id] = None /\ rest \in Seq(Ids) /\ FreeOK(rest, SetSlot(loc, id, c))
      BY <1>1, <1>2, <1>3, FreeTaken, Zenon
    <2>2. id \in Ids
      BY <1>1, <2>1 DEF Locals, Ids
    <2> QED BY <2>1, <2>2, Zenon DEF Slot, id, loc, rest
  <1>4. CASE free = << >>
    <2>1. id \in Ids /\ id \notin DOMAIN loc /\ FreeOK(<< >>, SetSlot(loc, id, c))
      BY <1>1, <1>2, <1>4, FreeGrown, Zenon
    <2>2. << >> \in Seq(Ids)
      OBVIOUS
    <2> QED BY <1>2, <1>4, <2>1, <2>2, Zenon DEF Slot, id, loc, rest
  <1> QED BY <1>3, <1>4, Zenon

\* What CreateChannel leaves of the unpaired ids and the messages kept.
CreateLeaves(e, k, id) ==
    /\ outgoing' = outgoing \/ outgoing' = [outgoing EXCEPT ![e][k] = Append(outgoing[e][k], id)]
    /\ incoming' \in [End -> [Key -> Seq(Ids)]]
    /\ got' \in [End -> Seq(Seq(Ids))]
    /\ remote' \in [End -> Remotes] /\ remote'[Peer(e)] = remote[Peer(e)] /\ Same(remote[e], remote'[e])
    /\ \E r \in Nat : local' = [local EXCEPT ![e] =
           SetSlot(local[e], id, [ch |-> Len(created[e]) + 1, key |-> k, remote |-> r,
                                  opened |-> r # NoId, closed |-> FALSE])]

\* Pairing a new channel changes no channel but it.
LEMMA CreatePairs ==
  ASSUME TypeOK, NEW e \in End, NEW k \in Key, CreateChannel(e, k), NEW id \in Ids, id = alloc_local_id(e)
  PROVE  CreateLeaves(e, k, id)
  <1> DEFINE r == IF IsAwaited(e, k) THEN PairsWith(incoming[e][k]) ELSE NoId
             entry == Slot(remote[e], r)
             rem == remote[e]
             v == [entry EXCEPT !.local = id, !.pending = << >>]
  <1>1. /\ rem \in Remotes /\ incoming[e] \in [Key -> Seq(Ids)] /\ got[e] \in Seq(Seq(Ids))
        /\ remote \in [End -> Remotes] /\ incoming \in [End -> [Key -> Seq(Ids)]]
        /\ got \in [End -> Seq(Seq(Ids))]
    BY Types, Zenon DEF TypeOK, Remotes, Ids
  <1>2. /\ r = NoId => /\ outgoing' = [outgoing EXCEPT ![e][k] = Append(outgoing[e][k], id)]
                       /\ got' = [got EXCEPT ![e] = Append(got[e], << >>)]
                       /\ incoming' = incoming /\ remote' = remote
        /\ r # NoId => /\ incoming' = [incoming EXCEPT ![e][k] = Tail(incoming[e][k])]
                       /\ entry = None => remote' = remote
                       /\ entry # None => remote' = [remote EXCEPT ![e][r] = [remote[e][r] EXCEPT !.local = id, !.pending = << >>]]
                       /\ got' = [got EXCEPT ![e] = Append(got[e], Drained(entry))]
                       /\ outgoing' = outgoing
    BY Zenon DEF CreateChannel
  <1>3. local' = [local EXCEPT ![e] =
                SetSlot(local[e], id, [ch |-> Len(created[e]) + 1, key |-> k, remote |-> r,
                                       opened |-> r # NoId, closed |-> FALSE])]
    BY Zenon DEF CreateChannel
  <1>4. incoming[e][k] \in Seq(Ids)
    BY <1>1, Zenon
  <1>5. r \in Nat /\ (r # NoId => incoming[e][k] # << >>)
    BY <1>4 DEF IsAwaited, PairsWith, NoId, Ids
  <1>6. entry \in Remote \cup {None} /\ (entry # None => r \in DOMAIN rem /\ rem[r] = entry)
    <2>1. rem \in Seq(Remote \cup {None})
      BY <1>1, Zenon DEF Remotes
    <2> QED BY <2>1, NoneIsNone, SlotIn, Zenon DEF Slot
  <1> HIDE DEF r, entry, rem
  <1>7. entry # None => v \in Remote /\ v.ch = entry.ch /\ entry.pending \in Seq(Ids)
    <2>1. ASSUME NEW x \in Remote
          PROVE  /\ [x EXCEPT !.local = id, !.pending = << >>] \in Remote
                 /\ [x EXCEPT !.local = id, !.pending = << >>].ch = x.ch /\ x.pending \in Seq(Ids)
      <3>1. id \in Nat /\ << >> \in Seq(Ids)
        BY DEF Ids
      <3> QED BY <3>1 DEF Remote, Ids
    <2> QED BY <1>6, <2>1, Zenon
  <1>8. got' \in [End -> Seq(Seq(Ids))]
    <2>1. Drained(entry) \in Seq(Ids) /\ << >> \in Seq(Ids)
      BY <1>7 DEF Drained
    <2>2. Append(got[e], Drained(entry)) \in Seq(Seq(Ids)) /\ Append(got[e], << >>) \in Seq(Seq(Ids))
      BY <1>1, <2>1
    <2>3. /\ ChangedAt(got, [got EXCEPT ![e] = Append(got[e], Drained(entry))], e, Append(got[e], Drained(entry)), Seq(Seq(Ids)))
          /\ ChangedAt(got, [got EXCEPT ![e] = Append(got[e], << >>)], e, Append(got[e], << >>), Seq(Seq(Ids)))
      BY <1>1, <2>2, ExceptAt, Zenon
    <2> QED BY <1>2, <2>3, Zenon DEF ChangedAt
  <1>9. incoming' \in [End -> [Key -> Seq(Ids)]]
    <2>1. CASE r = NoId
      BY <1>1, <1>2, <2>1, Zenon
    <2>2. CASE r # NoId
      <3>1. Tail(incoming[e][k]) \in Seq(Ids)
        BY <1>4, <1>5, <2>2
      <3>2. [incoming[e] EXCEPT ![k] = Tail(incoming[e][k])] \in [Key -> Seq(Ids)]
        BY <1>1, <3>1, Zenon
      <3>3. incoming' = [incoming EXCEPT ![e] = [incoming[e] EXCEPT ![k] = Tail(incoming[e][k])]]
        BY <1>2, <2>2, Zenon
      <3>4. ChangedAt(incoming, incoming', e, [incoming[e] EXCEPT ![k] = Tail(incoming[e][k])], [Key -> Seq(Ids)])
        BY <1>1, <3>2, <3>3, ExceptAt, Zenon
      <3> QED BY <3>4, Zenon DEF ChangedAt
    <2> QED BY <2>1, <2>2, Zenon
  <1>10. remote' \in [End -> Remotes] /\ remote'[Peer(e)] = remote[Peer(e)] /\ Same(rem, remote'[e])
    <2>1. CASE remote' = remote
      BY <1>1, <2>1, SameSelf, Zenon DEF rem
    <2>2. CASE entry # None /\ remote' = [remote EXCEPT ![e][r] = [remote[e][r] EXCEPT !.local = id, !.pending = << >>]]
      <3>1. remote' = [remote EXCEPT ![e] = [rem EXCEPT ![r] = v]]
        BY <1>6, <2>2, Zenon DEF rem
      <3> HIDE DEF v
      <3>2. [rem EXCEPT ![r] = v] \in Remotes /\ Same(rem, [rem EXCEPT ![r] = v])
        BY <1>1, <1>6, <1>7, <2>2, RenewsRemote, Zenon
      <3>3. ChangedAt(remote, remote', e, [rem EXCEPT ![r] = v], Remotes)
        BY <1>1, <3>1, <3>2, ExceptAt, Zenon
      <3> QED BY <3>2, <3>3, Zenon DEF ChangedAt
    <2> QED BY <1>2, <2>1, <2>2, Zenon
  <1> QED BY <1>2, <1>3, <1>5, <1>8, <1>9, <1>10, Zenon DEF rem, CreateLeaves

\* CreateChannel.
LEMMA CreateChannelKeeps ==
  ASSUME IdsInv, NEW e \in End, NEW k \in Key, CreateChannel(e, k)
  PROVE  IdsInv'
  <1> DEFINE id == alloc_local_id(e)
             ch == Len(created[e]) + 1
             f == OpenFrame(id, k, ch)
             new == [ch |-> ch, id |-> id]
             loc == local[e]
  <1>1. /\ HandlesOK(handles[e], loc) /\ WaitingOK(outgoing[e], loc)
        /\ up[Peer(e)] => Mirror(wire[e], loc, remote[Peer(e)])
        /\ up[e] => Mirror(wire[Peer(e)], local[Peer(e)], remote[e])
        /\ TypeOK /\ Peer(e) \in End
    BY EndsBefore, Zenon
  <1>2. /\ loc \in Locals /\ handles[e] \in SUBSET [ch : Ids, id : Ids] /\ wire[e] \in Frames
        /\ created[e] \in Seq(Key) /\ outgoing[e] \in [Key -> Seq(Ids)]
    BY <1>1, Types, Zenon
  <1>3. /\ local \in [End -> Locals] /\ free_ids \in [End -> Seq(Ids)] /\ outgoing \in [End -> [Key -> Seq(Ids)]]
        /\ handles \in [End -> SUBSET [ch : Ids, id : Ids]] /\ created \in [End -> Seq(Key)]
    BY <1>1, Zenon DEF TypeOK, Locals, Ids
  <1>4. /\ free_ids' = [free_ids EXCEPT ![e] = PopFree(e)]
        /\ handles' = [handles EXCEPT ![e] = handles[e] \cup {new}]
        /\ wire' = [wire EXCEPT ![e] = Append(wire[e], f)]
        /\ created' = [created EXCEPT ![e] = Append(created[e], k)]
        /\ UNCHANGED <<up, cork_depth, batch, sent, hasty>>
    BY Zenon DEF CreateChannel
  <1>5. ch \in Ids
    BY <1>2 DEF Ids
  <1>6. \A c \in Local : id \in Ids /\ Slot(loc, id) = None /\ PopFree(e) \in Seq(Ids) /\ FreeOK(PopFree(e), SetSlot(loc, id, c))
    BY IdTaken, Zenon
  <1>7. ASSUME NEW r \in Nat
        PROVE  [ch |-> ch, key |-> k, remote |-> r, opened |-> r # NoId, closed |-> FALSE] \in Local
    <2>1. (r # NoId) \in BOOLEAN /\ FALSE \in BOOLEAN
      BY Zenon
    <2> QED BY <1>5, <2>1 DEF Local, Ids
  <1>8. id \in Ids
    <2>1. 0 \in Nat
      OBVIOUS
    <2> QED BY <1>6, <1>7, <2>1, Zenon
  <1>90. CreateLeaves(e, k, id)
    BY <1>1, <1>8, CreatePairs, Zenon
  <1>9. /\ outgoing' = outgoing \/ outgoing' = [outgoing EXCEPT ![e][k] = Append(outgoing[e][k], id)]
        /\ incoming' \in [End -> [Key -> Seq(Ids)]]
        /\ got' \in [End -> Seq(Seq(Ids))]
        /\ remote' \in [End -> Remotes] /\ remote'[Peer(e)] = remote[Peer(e)] /\ Same(remote[e], remote'[e])
        /\ \E r \in Nat : local' = [local EXCEPT ![e] =
               SetSlot(loc, id, [ch |-> ch, key |-> k, remote |-> r, opened |-> r # NoId, closed |-> FALSE])]
    BY <1>90, Zenon DEF CreateLeaves
  <1>10. PICK r \in Nat : local' = [local EXCEPT ![e] =
               SetSlot(loc, id, [ch |-> ch, key |-> k, remote |-> r, opened |-> r # NoId, closed |-> FALSE])]
    BY <1>9, Zenon
  <1> DEFINE c == [ch |-> ch, key |-> k, remote |-> r, opened |-> r # NoId, closed |-> FALSE]
             loc2 == SetSlot(loc, id, c)
  <1>11. c \in Local /\ c # None /\ c.ch = ch
    <2>1. c \in Local
      BY <1>7, Zenon
    <2>2. c # None
      BY <2>1, NoneIsNone, Zenon
    <2> QED BY <2>1, <2>2
  <1>12. f \in Frame /\ f.type = "open" /\ f.id = id /\ f.ch = ch
    BY <1>5, <1>8 DEF OpenFrame, Frame, Ids
  <1>13. new \in [ch : Ids, id : Ids]
    BY <1>5, <1>8
  <1>14. local' = [local EXCEPT ![e] = loc2]
    BY <1>10, Zenon
  <1> HIDE DEF id, ch, f, loc, c
  <1>15. Slot(loc, id) = None /\ PopFree(e) \in Seq(Ids) /\ FreeOK(PopFree(e), loc2)
    BY <1>6, <1>11, Zenon
  <1>16. loc2 \in Locals /\ IsSet(loc, id, c, loc2)
    <2> DEFINE S == Local \cup {None}
    <2>1. None \in S /\ loc \in Seq(S) /\ c \in S /\ Seq(S) = Locals
      BY <1>2, <1>11, NoneIsNone, Zenon DEF Locals
    <2> HIDE DEF S
    <2> QED BY <1>8, <2>1, SlotIsSet, Zenon
  <1> HIDE DEF loc2
  <1>17. HandlesOK(handles[e] \cup {new}, loc2)
    BY <1>1, <1>11, <1>15, <1>16, HandlesTaken, Zenon DEF ch
  <1> HIDE DEF new
  <1>18. up[Peer(e)] => Mirror(Append(wire[e], f), loc2, remote[Peer(e)])
    <2>1. Slot(loc2, id) # None /\ Slot(loc2, id).ch = f.ch /\ \A j \in Ids : j # id => Slot(loc2, j) = Slot(loc, j)
      BY <1>11, <1>12, <1>16, Zenon DEF IsSet
    <2> QED BY <1>1, <1>2, <1>8, <1>12, <1>15, <2>1, MirrorOpens, Zenon
  <1>19. up[e] => Mirror(wire[Peer(e)], local[Peer(e)], remote'[e])
    BY <1>1, <1>9, SameSelf, MirrorKeeps, Zenon
  <1>20. wire' \in [End -> Frames] /\ wire'[e] = Append(wire[e], f) /\ wire'[Peer(e)] = wire[Peer(e)]
    BY <1>1, <1>4, <1>12, Writes, Zenon
  <1>21. DOMAIN loc \subseteq DOMAIN loc2 /\ id \in DOMAIN loc2
    BY <1>16, Zenon DEF IsSet
  <1>22. WaitingOK(outgoing[e], loc2)
    BY <1>1, <1>21, WaitingKeeps, Zenon
  <1>23. /\ outgoing' \in [End -> [Key -> Seq(Ids)]] /\ outgoing'[Peer(e)] = outgoing[Peer(e)]
         /\ WaitingOK(outgoing'[e], loc2)
    <2>1. CASE outgoing' = outgoing
      BY <1>3, <1>22, <2>1, Zenon
    <2>2. CASE outgoing' = [outgoing EXCEPT ![e][k] = Append(outgoing[e][k], id)]
      <3> DEFINE q == Append(outgoing[e][k], id)
                 out == [outgoing[e] EXCEPT ![k] = q]
      <3>1. outgoing[e][k] \in Seq(Ids)
        BY <1>2, Zenon
      <3>2. q \in Seq(Ids) /\ \A i \in DOMAIN q : (i \in DOMAIN outgoing[e][k] /\ q[i] = outgoing[e][k][i]) \/ q[i] = id
        BY <1>8, <3>1
      <3>3. outgoing' = [outgoing EXCEPT ![e] = out]
        BY <2>2, Zenon
      <3> HIDE DEF q
      <3>4. out \in [Key -> Seq(Ids)] /\ out[k] = q /\ \A x \in Key : x # k => out[x] = outgoing[e][x]
        BY <1>2, <3>2, Zenon
      <3> HIDE DEF out
      <3>5. WaitingOK(out, loc2)
        <4> SUFFICES ASSUME NEW x \in Key, NEW i \in DOMAIN out[x] PROVE out[x][i] \in DOMAIN loc2
          BY Zenon DEF WaitingOK
        <4>1. CASE x = k
          BY <1>21, <1>22, <3>2, <3>4, <4>1, Zenon DEF WaitingOK
        <4>2. CASE x # k
          BY <1>22, <3>4, <4>2, Zenon DEF WaitingOK
        <4> QED BY <4>1, <4>2, Zenon
      <3>6. ChangedAt(outgoing, outgoing', e, out, [Key -> Seq(Ids)])
        BY <1>3, <3>3, <3>4, ExceptAt, Zenon
      <3> QED BY <3>5, <3>6, Zenon DEF ChangedAt
    <2> QED BY <1>9, <2>1, <2>2, Zenon
  <1>24. /\ ChangedAt(local, local', e, loc2, Locals)
         /\ ChangedAt(free_ids, free_ids', e, PopFree(e), Seq(Ids))
    BY <1>3, <1>4, <1>14, <1>15, <1>16, ExceptAt, Zenon
  <1>25. ChangedAt(handles, handles', e, handles[e] \cup {new}, SUBSET [ch : Ids, id : Ids])
    <2>1. handles[e] \cup {new} \in SUBSET [ch : Ids, id : Ids]
      BY <1>2, <1>13, Zenon
    <2> QED BY <1>3, <1>4, <2>1, ExceptAt, Zenon
  <1>26. created' \in [End -> Seq(Key)]
    <2>1. Append(created[e], k) \in Seq(Key)
      BY <1>2
    <2>2. ChangedAt(created, created', e, Append(created[e], k), Seq(Key))
      BY <1>3, <1>4, <2>1, ExceptAt, Zenon
    <2> QED BY <2>2, Zenon DEF ChangedAt
  <1>27. /\ local' \in [End -> Locals] /\ local'[e] = loc2 /\ local'[Peer(e)] = local[Peer(e)]
         /\ free_ids' \in [End -> Seq(Ids)] /\ free_ids'[e] = PopFree(e) /\ free_ids'[Peer(e)] = free_ids[Peer(e)]
         /\ handles' \in [End -> SUBSET [ch : Ids, id : Ids]] /\ handles'[e] = handles[e] \cup {new}
         /\ handles'[Peer(e)] = handles[Peer(e)]
    BY <1>24, <1>25, Zenon DEF ChangedAt
  <1>28. TypeOK'
    <2>1. /\ up' \in [End -> BOOLEAN] /\ cork_depth' \in [End -> 0 .. MaxCork] /\ batch' \in [End -> Seq(Item)]
          /\ sent' \in [End -> Seq(Ids)] /\ hasty' \in BOOLEAN
      BY <1>1, <1>4, Zenon DEF TypeOK, Ids
    <2> QED BY <1>9, <1>20, <1>23, <1>26, <1>27, <2>1, TypesHold, Zenon
  <1>29. up' = up
    BY <1>4, Zenon
  <1>30. /\ up[Peer(e)] => Mirror(wire'[e], local'[e], remote[Peer(e)])
         /\ up'[e] => Mirror(wire'[Peer(e)], local[Peer(e)], remote'[e])
    BY <1>18, <1>19, <1>20, <1>27, <1>29, Zenon
  <1>31. /\ FreeOK(free_ids'[e], local'[e]) /\ HandlesOK(handles'[e], local'[e]) /\ WaitingOK(outgoing'[e], local'[e])
    BY <1>15, <1>17, <1>23, <1>27, Zenon
  <1>32. /\ local'[Peer(e)] = local[Peer(e)] /\ free_ids'[Peer(e)] = free_ids[Peer(e)]
         /\ handles'[Peer(e)] = handles[Peer(e)] /\ outgoing'[Peer(e)] = outgoing[Peer(e)]
         /\ remote'[Peer(e)] = remote[Peer(e)] /\ up'[Peer(e)] = up[Peer(e)]
    BY <1>9, <1>23, <1>27, <1>29, Zenon
  <1> QED BY <1>28, <1>30, <1>31, <1>32, EndsKeep, Zenon

----------------------------------------------------------------------------
(* Frames of the peer keep the ids right.                                  *)

\* Reading an Open, or a Close, that changes what is said of a channel.
LEMMA ReadKeeps ==
  ASSUME IdsInv, NEW e \in End, TypeOK',
         Renewed(local[e], local'[e]), local'[Peer(e)] = local[Peer(e)],
         UNCHANGED <<up, free_ids, handles>>, wire'[e] = wire[e],
         outgoing'[Peer(e)] = outgoing[Peer(e)], WaitingOK(outgoing'[e], local[e]),
         remote'[Peer(e)] = remote[Peer(e)],
         Mirror(wire'[Peer(e)], local[Peer(e)], remote'[e])
  PROVE  IdsInv'
  <1>1. /\ FreeOK(free_ids[e], local[e]) /\ HandlesOK(handles[e], local[e])
        /\ up[Peer(e)] => Mirror(wire[e], local[e], remote[Peer(e)])
    BY EndsBefore, Zenon
  <1>2. /\ Same(local[e], local'[e]) /\ FreeOK(free_ids[e], local'[e]) /\ HandlesOK(handles[e], local'[e])
        /\ WaitingOK(outgoing'[e], local'[e])
    BY <1>1, RenewedKeeps, Zenon
  <1>3. up[Peer(e)] => Mirror(wire'[e], local'[e], remote[Peer(e)])
    <2>1. Same(remote[Peer(e)], remote[Peer(e)])
      BY SameSelf, Zenon
    <2>2. up[Peer(e)] => Mirror(wire[e], local'[e], remote[Peer(e)])
      BY <1>1, <1>2, <2>1, MirrorKeeps, Zenon
    <2> QED BY <2>2, Zenon
  <1>4. free_ids' = free_ids /\ handles' = handles /\ up' = up
    BY Zenon
  <1> QED BY <1>2, <1>3, <1>4, EndsKeep, Zenon

\* What an Open or a Close says.
LEMMA FrameSays ==
  ASSUME NEW f \in Frame
  PROVE  /\ f.type = "open" => f.id \in Ids /\ f.key \in Key /\ f.ch \in Ids
         /\ f.type = "close" => f.id \in Ids
  BY DEF Frame, Ids

\* The slot of an id that was opened just now.
LEMMA NewRemote ==
  ASSUME NEW ch \in Ids, NEW l \in Nat
  PROVE  /\ [ch |-> ch, local |-> l, pending |-> << >>] \in Remote
         /\ [ch |-> ch, local |-> l, pending |-> << >>].ch = ch
         /\ [ch |-> ch, local |-> l, pending |-> << >>].pending = << >>
  BY DEF Remote, Ids

\* The channel that waits first for a key.
LEMMA FirstWaiting ==
  ASSUME NEW q \in Seq(Ids)
  PROVE  /\ (IF q # << >> THEN Head(q) ELSE NoId) \in Nat
         /\ (IF q # << >> THEN Head(q) ELSE NoId) # NoId =>
                q # << >> /\ (IF q # << >> THEN Head(q) ELSE NoId) = q[1] /\ 1 \in DOMAIN q
  BY DEF NoId, Ids

\* ReceiveOpen.
LEMMA ReceiveOpenKeeps ==
  ASSUME IdsInv, NEW e \in End, ReceiveOpen(e)
  PROVE  IdsInv'
  <1> DEFINE p == Peer(e)
             f == Head(wire[p])
             q == outgoing[e][f.key]
             l == IF q # << >> THEN Head(q) ELSE NoId
             v == [ch |-> f.ch, local |-> l, pending |-> << >>]
             rem == remote[e]
             loc == local[e]
             rem2 == SetSlot(rem, f.id, v)
  <1>1. /\ WaitingOK(outgoing[e], loc) /\ TypeOK /\ p \in End
        /\ up[e] => Mirror(wire[p], local[p], rem)
    BY EndsBefore, Zenon
  <1>2. Reads(e, "open")
    BY Zenon DEF ReceiveOpen
  <1>3. /\ up[e] /\ wire[p] # << >> /\ f.type = "open" /\ f \in Frame
        /\ wire' \in [End -> Frames] /\ wire'[p] = Tail(wire[p]) /\ wire'[e] = wire[e]
    BY <1>1, <1>2, ReadsOff, Zenon
  <1>4. f.id \in Ids /\ f.key \in Key /\ f.ch \in Ids
    BY <1>3, FrameSays, Zenon
  <1>5. /\ loc \in Locals /\ rem \in Remotes /\ outgoing[e] \in [Key -> Seq(Ids)] /\ incoming[e] \in [Key -> Seq(Ids)]
        /\ wire[p] \in Frames
    BY <1>1, Types, Zenon
  <1>6. /\ local \in [End -> Locals] /\ remote \in [End -> Remotes] /\ outgoing \in [End -> [Key -> Seq(Ids)]]
        /\ incoming \in [End -> [Key -> Seq(Ids)]]
    BY <1>1, Zenon DEF TypeOK, Locals, Remotes, Ids
  <1>7. q \in Seq(Ids) /\ incoming[e][f.key] \in Seq(Ids)
    BY <1>4, <1>5, Zenon
  <1>8. l \in Nat /\ (l # NoId => q # << >> /\ l = q[1] /\ 1 \in DOMAIN q)
    BY <1>7, FirstWaiting, Zenon
  <1>9. l # NoId => l \in DOMAIN loc
    BY <1>1, <1>4, <1>8, Zenon DEF WaitingOK
  <1>10. v \in Remote /\ v.ch = f.ch
    BY <1>4, <1>8, NewRemote, Zenon
  <1>11. v # None
    BY <1>10, NoneIsNone, Zenon
  <1>12. Slot(rem, f.id) = None
    BY <1>1, <1>3, <1>4, <1>5, MirrorReadsOpen, Zenon
  <1>13. /\ remote' = [remote EXCEPT ![e] = rem2]
         /\ UNCHANGED <<up, free_ids, cork_depth, batch, handles, created, sent, got, hasty>>
         /\ l = NoId => /\ incoming' = [incoming EXCEPT ![e][f.key] = Append(incoming[e][f.key], f.id)]
                        /\ local' = local /\ outgoing' = outgoing
         /\ l # NoId => /\ outgoing' = [outgoing EXCEPT ![e][f.key] = Tail(q)]
                        /\ loc[l] = None => local' = local
                        /\ loc[l] # None => local' = [local EXCEPT ![e][l] = [local[e][l] EXCEPT !.remote = f.id, !.opened = TRUE]]
                        /\ incoming' = incoming
    BY <1>12, Zenon DEF ReceiveOpen
  <1>14. rem2 \in Remotes /\ IsSet(rem, f.id, v, rem2)
    <2> DEFINE S == Remote \cup {None}
    <2>1. None \in S /\ rem \in Seq(S) /\ v \in S /\ Seq(S) = Remotes
      BY <1>5, <1>10, NoneIsNone, Zenon DEF Remotes
    <2> HIDE DEF S, v, rem
    <2> QED BY <1>4, <2>1, SlotIsSet, Zenon
  <1> HIDE DEF rem2, v, l, q, f, p, rem, loc
  <1>15. remote' \in [End -> Remotes] /\ remote'[e] = rem2 /\ remote'[p] = remote[p]
    <2>1. ChangedAt(remote, remote', e, rem2, Remotes)
      BY <1>6, <1>13, <1>14, ExceptAt, Zenon
    <2> QED BY <2>1, Zenon DEF ChangedAt, p
  <1>16. Mirror(Tail(wire[p]), local[p], rem2)
    <2>1. Slot(rem2, f.id) # None /\ Slot(rem2, f.id).ch = f.ch /\ \A j \in Ids : j # f.id => Slot(rem2, j) = Slot(rem, j)
      BY <1>10, <1>11, <1>14, Zenon DEF IsSet
    <2>2. Mirror(wire[p], local[p], rem) /\ f = Head(wire[p])
      BY <1>1, <1>3, Zenon DEF f
    <2> QED BY <1>3, <1>4, <1>5, <2>1, <2>2, MirrorReadsOpen, Zenon
  <1>17. local' \in [End -> Locals] /\ Renewed(loc, local'[e]) /\ local'[p] = local[p]
    <2>1. CASE local' = local
      BY <1>5, <1>6, <2>1, RenewedSelf, Zenon DEF loc
    <2>2. CASE l # NoId /\ loc[l] # None /\ local' = [local EXCEPT ![e][l] = [local[e][l] EXCEPT !.remote = f.id, !.opened = TRUE]]
      <3> DEFINE c == [loc[l] EXCEPT !.remote = f.id, !.opened = TRUE]
                 loc2 == [loc EXCEPT ![l] = c]
      <3>1. l \in DOMAIN loc
        BY <1>9, <2>2, Zenon
      <3>2. loc[l] \in Local
        BY <1>5, <2>2, <3>1 DEF Locals
      <3>3. ASSUME NEW x \in Local
            PROVE  /\ [x EXCEPT !.remote = f.id, !.opened = TRUE] \in Local
                   /\ [x EXCEPT !.remote = f.id, !.opened = TRUE].ch = x.ch
        <4>1. f.id \in Nat
          BY <1>4 DEF Ids
        <4> QED BY <4>1 DEF Local
      <3>4. c \in Local /\ c.ch = loc[l].ch
        BY <3>2, <3>3, Zenon
      <3>5. local' = [local EXCEPT ![e] = loc2]
        BY <2>2, Zenon DEF loc
      <3> HIDE DEF c
      <3>6. Renewed(loc, loc2)
        BY <1>5, <2>2, <3>1, <3>4, RenewsSlot, Zenon
      <3>7. loc2 \in Locals
        BY <3>6, Zenon DEF Renewed
      <3> HIDE DEF loc2
      <3>8. ChangedAt(local, local', e, loc2, Locals)
        BY <1>6, <3>5, <3>7, ExceptAt, Zenon
      <3> QED BY <3>6, <3>8, Zenon DEF ChangedAt, p
    <2> QED BY <1>13, <2>1, <2>2, Zenon
  <1>18. /\ outgoing' \in [End -> [Key -> Seq(Ids)]] /\ outgoing'[p] = outgoing[p] /\ WaitingOK(outgoing'[e], loc)
    <2>1. CASE outgoing' = outgoing
      BY <1>1, <1>6, <2>1, Zenon
    <2>2. CASE l # NoId /\ outgoing' = [outgoing EXCEPT ![e][f.key] = Tail(q)]
      <3> DEFINE out == [outgoing[e] EXCEPT ![f.key] = Tail(q)]
      <3>1. q # << >>
        BY <1>8, <2>2, Zenon
      <3>2. Tail(q) \in Seq(Ids) /\ \A i \in DOMAIN Tail(q) : i + 1 \in DOMAIN q /\ Tail(q)[i] = q[i + 1]
        BY <1>7, <3>1
      <3>3. outgoing' = [outgoing EXCEPT ![e] = out]
        BY <2>2, Zenon
      <3> DEFINE t == Tail(q)
      <3>4. t \in Seq(Ids) /\ \A i \in DOMAIN t : \E j \in DOMAIN q : t[i] = q[j]
        BY <3>2, Zenon
      <3>40. out = [outgoing[e] EXCEPT ![f.key] = t]
        OBVIOUS
      <3> HIDE DEF t, out
      <3>5. out \in [Key -> Seq(Ids)] /\ out[f.key] = t /\ \A x \in Key : x # f.key => out[x] = outgoing[e][x]
        BY <1>4, <1>5, <3>4, <3>40, Zenon
      <3>6. WaitingOK(out, loc)
        <4> SUFFICES ASSUME NEW x \in Key, NEW i \in DOMAIN out[x] PROVE out[x][i] \in DOMAIN loc
          BY Zenon DEF WaitingOK
        <4>1. CASE x = f.key
          <5>1. i \in DOMAIN t /\ out[x][i] = t[i]
            BY <3>5, <4>1, Zenon
          <5>2. PICK j \in DOMAIN q : t[i] = q[j]
            BY <3>4, <5>1, Zenon
          <5>3. q[j] \in DOMAIN loc
            BY <1>1, <1>4, Zenon DEF WaitingOK, q
          <5> QED BY <5>1, <5>2, <5>3, Zenon
        <4>2. CASE x # f.key
          BY <1>1, <3>5, <4>2, Zenon DEF WaitingOK
        <4> QED BY <4>1, <4>2, Zenon
      <3>7. ChangedAt(outgoing, outgoing', e, out, [Key -> Seq(Ids)])
        BY <1>6, <3>3, <3>5, ExceptAt, Zenon
      <3> QED BY <3>6, <3>7, Zenon DEF ChangedAt, p
    <2> QED BY <1>13, <2>1, <2>2, Zenon
  <1>19. incoming' \in [End -> [Key -> Seq(Ids)]]
    <2>1. CASE incoming' = incoming
      BY <1>6, <2>1, Zenon
    <2>2. CASE incoming' = [incoming EXCEPT ![e][f.key] = Append(incoming[e][f.key], f.id)]
      <3>1. Append(incoming[e][f.key], f.id) \in Seq(Ids)
        BY <1>4, <1>7
      <3>2. [incoming[e] EXCEPT ![f.key] = Append(incoming[e][f.key], f.id)] \in [Key -> Seq(Ids)]
        BY <1>5, <3>1, Zenon
      <3>3. ChangedAt(incoming, incoming', e, [incoming[e] EXCEPT ![f.key] = Append(incoming[e][f.key], f.id)], [Key -> Seq(Ids)])
        BY <1>6, <2>2, <3>2, ExceptAt, Zenon
      <3> QED BY <3>3, Zenon DEF ChangedAt
    <2> QED BY <1>13, <2>1, <2>2, Zenon
  <1>20. TypeOK'
    BY <1>1, <1>3, <1>13, <1>15, <1>17, <1>18, <1>19, Zenon DEF TypeOK, Locals, Remotes, Frames, Ids
  <1>21. UNCHANGED <<up, free_ids, handles>>
    BY <1>13, Zenon
  <1>22. Mirror(wire'[p], local[p], remote'[e])
    BY <1>3, <1>15, <1>16, Zenon
  <1> QED BY <1>3, <1>15, <1>17, <1>18, <1>20, <1>21, <1>22, ReadKeeps, Zenon DEF p, loc

\* ReceiveClose.
LEMMA ReceiveCloseKeeps ==
  ASSUME IdsInv, NEW e \in End, ReceiveClose(e)
  PROVE  IdsInv'
  <1> DEFINE p == Peer(e)
             f == Head(wire[p])
             rem == remote[e]
             loc == local[e]
             entry == Slot(rem, f.id)
             l == IF entry = None THEN NoId ELSE entry.local
             rem2 == [rem EXCEPT ![f.id] = None]
  <1>1. /\ WaitingOK(outgoing[e], loc) /\ TypeOK /\ p \in End
        /\ up[e] => Mirror(wire[p], local[p], rem)
    BY EndsBefore, Zenon
  <1>2. Reads(e, "close")
    BY Zenon DEF ReceiveClose
  <1>3. /\ up[e] /\ wire[p] # << >> /\ f.type = "close" /\ f \in Frame
        /\ wire' \in [End -> Frames] /\ wire'[p] = Tail(wire[p]) /\ wire'[e] = wire[e]
    BY <1>1, <1>2, ReadsOff, Zenon
  <1>4. f.id \in Ids
    BY <1>3, FrameSays, Zenon
  <1>5. loc \in Locals /\ rem \in Remotes /\ wire[p] \in Frames
    BY <1>1, Types, Zenon
  <1>6. local \in [End -> Locals] /\ remote \in [End -> Remotes]
    BY <1>1, Zenon DEF TypeOK, Locals, Remotes
  <1>7. /\ UNCHANGED <<up, free_ids, outgoing, incoming, cork_depth, batch, handles, created, sent, got, hasty>>
        /\ Slot(loc, l) = None => local' = local
        /\ Slot(loc, l) # None => local' = [local EXCEPT ![e][l].closed = TRUE]
        /\ f.id \in DOMAIN rem => remote' = [remote EXCEPT ![e] = rem2]
        /\ f.id \notin DOMAIN rem => remote' = remote
    BY Zenon DEF ReceiveClose
  <1> HIDE DEF l, f, p, rem, loc
  <1>8. /\ remote' \in [End -> Remotes] /\ remote'[p] = remote[p]
        /\ Slot(remote'[e], f.id) = None /\ \A j \in Ids : j # f.id => Slot(remote'[e], j) = Slot(rem, j)
    <2>1. CASE f.id \in DOMAIN rem
      <3>1. rem2 \in Remotes /\ DOMAIN rem2 = DOMAIN rem
        <4>1. None \in Remote \cup {None}
          BY NoneIsNone, Zenon
        <4>2. ASSUME NEW S, NEW s \in Seq(S), NEW x \in S, NEW i \in DOMAIN s
              PROVE  [s EXCEPT ![i] = x] \in Seq(S) /\ DOMAIN [s EXCEPT ![i] = x] = DOMAIN s
          OBVIOUS
        <4> QED BY <1>5, <2>1, <4>1, <4>2, Zenon DEF Remotes
      <3>2. rem2[f.id] = None /\ \A j \in DOMAIN rem : j # f.id => rem2[j] = rem[j]
        BY <2>1, Zenon
      <3>3. remote' = [remote EXCEPT ![e] = rem2]
        BY <1>7, <2>1, Zenon
      <3> HIDE DEF rem2
      <3>4. ChangedAt(remote, remote', e, rem2, Remotes)
        BY <1>6, <3>1, <3>3, ExceptAt, Zenon
      <3>5. remote' \in [End -> Remotes] /\ remote'[e] = rem2 /\ remote'[p] = remote[p]
        BY <3>4, Zenon DEF ChangedAt, p
      <3> QED BY <2>1, <3>1, <3>2, <3>5, Zenon DEF Slot
    <2>2. CASE f.id \notin DOMAIN rem
      BY <1>6, <1>7, <2>2, Zenon DEF Slot, rem
    <2> QED BY <2>1, <2>2, Zenon
  <1>9. local' \in [End -> Locals] /\ Renewed(loc, local'[e]) /\ local'[p] = local[p]
    <2>1. CASE local' = local
      BY <1>5, <1>6, <2>1, RenewedSelf, Zenon DEF loc
    <2>2. CASE Slot(loc, l) # None /\ local' = [local EXCEPT ![e][l].closed = TRUE]
      <3> DEFINE c == [loc[l] EXCEPT !.closed = TRUE]
                 loc2 == [loc EXCEPT ![l] = c]
      <3>1. l \in DOMAIN loc /\ loc[l] # None
        BY <2>2, Zenon DEF Slot
      <3>2. loc[l] \in Local
        BY <1>5, <3>1 DEF Locals
      <3>3. ASSUME NEW x \in Local
            PROVE  [x EXCEPT !.closed = TRUE] \in Local /\ [x EXCEPT !.closed = TRUE].ch = x.ch
        BY DEF Local
      <3>4. c \in Local /\ c.ch = loc[l].ch
        BY <3>2, <3>3, Zenon
      <3>5. local' = [local EXCEPT ![e] = loc2]
        BY <2>2, Zenon DEF loc
      <3> HIDE DEF c
      <3>6. Renewed(loc, loc2)
        BY <1>5, <3>1, <3>4, RenewsSlot, Zenon
      <3>7. loc2 \in Locals
        BY <3>6, Zenon DEF Renewed
      <3> HIDE DEF loc2
      <3>8. ChangedAt(local, local', e, loc2, Locals)
        BY <1>6, <3>5, <3>7, ExceptAt, Zenon
      <3> QED BY <3>6, <3>8, Zenon DEF ChangedAt, p
    <2> QED BY <1>7, <2>1, <2>2, Zenon
  <1>10. Mirror(Tail(wire[p]), local[p], remote'[e])
    <2>1. Mirror(wire[p], local[p], rem) /\ f = Head(wire[p])
      BY <1>1, <1>3, Zenon DEF f
    <2> QED BY <1>3, <1>4, <1>5, <1>8, <2>1, MirrorReadsClose, Zenon
  <1>11. TypeOK'
    BY <1>1, <1>3, <1>7, <1>8, <1>9, Zenon DEF TypeOK, Locals, Remotes, Frames
  <1>12. UNCHANGED <<up, free_ids, handles>> /\ outgoing' = outgoing
    BY <1>7, Zenon
  <1>13. Mirror(wire'[p], local[p], remote'[e])
    BY <1>3, <1>10, Zenon
  <1> QED BY <1>1, <1>3, <1>8, <1>9, <1>11, <1>12, <1>13, ReadKeeps, Zenon DEF p, loc

\* What dispatch goes through.
States == [remote : Remotes, got : Seq(Seq(Ids))]

\* A message changes no channel of the peer.
LEMMA DispatchKeeps ==
  ASSUME NEW st \in States, NEW it \in Item, NEW chans
  PROVE  Dispatch(st, it, chans) \in States /\ Same(st.remote, Dispatch(st, it, chans).remote)
  <1> DEFINE rem == st.remote
             entry == Slot(rem, it.id)
             chan == IF entry = None THEN None ELSE Slot(chans, entry.local)
             res == Dispatch(st, it, chans)
             g2 == [st.got EXCEPT ![chan.ch] = Append(st.got[chan.ch], it.msg)]
             v == [rem[it.id] EXCEPT !.pending = Append(rem[it.id].pending, it.msg)]
             rem2 == [rem EXCEPT ![it.id] = v]
  <1>1. rem \in Remotes /\ st.got \in Seq(Seq(Ids)) /\ it.msg \in Ids /\ it.id \in Ids
    BY DEF States, Item, Ids
  <1>2. st = [remote |-> rem, got |-> st.got]
    BY DEF States
  <1>3. Same(rem, rem)
    BY SameSelf, Zenon
  <1>4. \/ res = st
        \/ res = [st EXCEPT !.got = g2]
        \/ entry # None /\ res = [st EXCEPT !.remote = rem2]
    BY Zenon DEF Dispatch
  <1> HIDE DEF res
  <1>5. CASE res = st
    BY <1>3, <1>5, Zenon DEF res
  <1>6. CASE res = [st EXCEPT !.got = g2]
    <2>1. g2 \in Seq(Seq(Ids))
      <3> DEFINE c == chan.ch
                 gs == st.got
      <3> HIDE DEF c, gs, chan
      <3>1. gs \in Seq(Seq(Ids)) /\ it.msg \in Ids
        BY <1>1, Zenon DEF gs
      <3>2. CASE c \in DOMAIN gs
        <4>1. Append(gs[c], it.msg) \in Seq(Ids)
          BY <3>1, <3>2
        <4>2. [gs EXCEPT ![c] = Append(gs[c], it.msg)] \in Seq(Seq(Ids))
          BY <3>1, <3>2, <4>1
        <4> QED BY <4>2, Zenon DEF c, gs
      <3>3. CASE c \notin DOMAIN gs
        <4>1. [gs EXCEPT ![c] = Append(gs[c], it.msg)] = gs
          BY <3>1, <3>3
        <4> QED BY <3>1, <4>1, Zenon DEF c, gs
      <3> QED BY <3>2, <3>3, Zenon
    <2> HIDE DEF g2, rem
    <2>2. res = [remote |-> rem, got |-> g2]
      BY <1>2, <1>6
    <2>3. res \in States /\ res.remote = rem
      BY <1>1, <2>1, <2>2 DEF States
    <2> QED BY <1>3, <2>3, Zenon DEF rem, res
  <1>7. CASE entry # None /\ res = [st EXCEPT !.remote = rem2]
    <2>1. rem \in Seq(Remote \cup {None})
      BY <1>1, Zenon DEF Remotes
    <2>2. it.id \in DOMAIN rem /\ rem[it.id] # None
      BY <1>7, Zenon DEF Slot
    <2>3. rem[it.id] \in Remote
      BY <2>1, <2>2
    <2>4. ASSUME NEW x \in Remote
          PROVE  /\ [x EXCEPT !.pending = Append(x.pending, it.msg)] \in Remote
                 /\ [x EXCEPT !.pending = Append(x.pending, it.msg)].ch = x.ch
      <3>1. x.pending \in Seq(Ids)
        BY DEF Remote, Ids
      <3>2. Append(x.pending, it.msg) \in Seq(Ids)
        BY <1>1, <3>1
      <3> QED BY <3>2 DEF Remote, Ids
    <2>5. v \in Remote /\ v.ch = rem[it.id].ch
      BY <2>3, <2>4, Zenon
    <2> HIDE DEF v, rem
    <2>6. rem2 \in Remotes /\ Same(rem, rem2)
      BY <1>1, <2>2, <2>5, RenewsRemote, Zenon
    <2> HIDE DEF rem2
    <2>7. res = [remote |-> rem2, got |-> st.got]
      BY <1>2, <1>7
    <2>8. res \in States /\ res.remote = rem2
      BY <1>1, <2>6, <2>7 DEF States
    <2> QED BY <2>6, <2>8, Zenon DEF rem, res
  <1> QED BY <1>4, <1>5, <1>6, <1>7, Zenon DEF res

\* Nor do the messages of a frame.
LEMMA DispatchedKeeps ==
  ASSUME NEW st \in States, NEW items \in Seq(Item), NEW chans
  PROVE  Dispatched(st, items, chans) \in States /\ Same(st.remote, Dispatched(st, items, chans).remote)
  <1> DEFINE Good == {s \in States : Same(st.remote, s.remote)}
             G == Nat \X Good
             N == Len(items)
  <1>1. N \in Nat /\ \A n \in 1 .. N : items[n] \in Item /\ n \in Nat
    OBVIOUS
  <1>2. st \in Good
    BY SameSelf, Zenon
  <1>3. ASSUME NEW s \in Good, NEW it \in Item PROVE Dispatch(s, it, chans) \in Good
    <2>1. s \in States /\ Same(st.remote, s.remote)
      BY Zenon
    <2>2. Dispatch(s, it, chans) \in States /\ Same(s.remote, Dispatch(s, it, chans).remote)
      BY <2>1, DispatchKeeps, Zenon
    <2>3. Same(st.remote, Dispatch(s, it, chans).remote)
      BY <2>1, <2>2, Zenon DEF Same, Alike
    <2> QED BY <2>2, <2>3, Zenon
  <1> HIDE DEF Good
  <1>4. 0 \in Nat
    OBVIOUS
  <1>5. <<0, st>> \in G
    BY <1>2, <1>4
  <1>6. ASSUME NEW n \in 1 .. N, NEW s, <<n - 1, s>> \in G PROVE <<n, Dispatch(s, items[n], chans)>> \in G
    <2>1. s \in Good /\ n \in Nat
      BY <1>6
    <2>2. Dispatch(s, items[n], chans) \in Good
      BY <1>1, <1>3, <2>1, Zenon
    <2> QED BY <2>1, <2>2
  <1> HIDE DEF G
  <1>7. <<N, Dispatched(st, items, chans)>> \in G
    BY <1>1, <1>5, <1>6, DispatchedIn, Zenon
  <1>8. Dispatched(st, items, chans) \in Good
    BY <1>7 DEF G
  <1> QED BY <1>8, Zenon DEF Good

\* ReceiveMessage and ReceiveBatch.
LEMMA DispatchAllKeeps ==
  ASSUME IdsInv, NEW e \in End, NEW type \in {"message", "batch"}, Reads(e, type), NEW items \in Seq(Item),
         DispatchAll(e, items),
         UNCHANGED <<up, local, free_ids, outgoing, incoming, cork_depth, batch, handles, created, sent, hasty>>
  PROVE  IdsInv'
  <1> DEFINE p == Peer(e)
             st == [remote |-> remote[e], got |-> got[e]]
             res == Dispatched(st, items, local[e])
  <1>1. /\ WaitingOK(outgoing[e], local[e]) /\ TypeOK /\ p \in End
        /\ up[e] => Mirror(wire[p], local[p], remote[e])
    BY EndsBefore, Zenon
  <1>2. /\ up[e] /\ wire[p] # << >> /\ Head(wire[p]).type = type
        /\ wire' \in [End -> Frames] /\ wire'[p] = Tail(wire[p]) /\ wire'[e] = wire[e]
    BY <1>1, ReadsOff, Zenon
  <1>3. local[e] \in Locals /\ remote[e] \in Remotes /\ wire[p] \in Frames /\ got[e] \in Seq(Seq(Ids))
    BY <1>1, Types, Zenon
  <1>4. remote \in [End -> Remotes] /\ got \in [End -> Seq(Seq(Ids))] /\ local \in [End -> Locals]
    BY <1>1, Zenon DEF TypeOK, Remotes, Ids, Locals
  <1>5. st \in States /\ st.remote = remote[e]
    BY <1>3 DEF States
  <1>6. remote' = [remote EXCEPT ![e] = res.remote] /\ got' = [got EXCEPT ![e] = res.got]
    BY Zenon DEF DispatchAll
  <1> HIDE DEF st
  <1>7. res \in States /\ Same(remote[e], res.remote)
    BY <1>5, DispatchedKeeps, Zenon
  <1> HIDE DEF res, p
  <1>8. res.remote \in Remotes /\ res.got \in Seq(Seq(Ids))
    BY <1>7 DEF States
  <1>9. ChangedAt(remote, remote', e, res.remote, Remotes) /\ ChangedAt(got, got', e, res.got, Seq(Seq(Ids)))
    BY <1>4, <1>6, <1>8, ExceptAt, Zenon
  <1>10. /\ remote' \in [End -> Remotes] /\ remote'[e] = res.remote /\ remote'[p] = remote[p]
         /\ got' \in [End -> Seq(Seq(Ids))]
    BY <1>9, Zenon DEF ChangedAt, p
  <1>11. Mirror(Tail(wire[p]), local[p], remote[e])
    <2>1. Head(wire[p]).type \notin {"open", "close"}
      BY <1>2
    <2> QED BY <1>1, <1>2, <1>3, <2>1, MirrorReads, Zenon
  <1>12. Mirror(wire'[p], local[p], remote'[e])
    <2>1. Same(local[p], local[p])
      BY SameSelf, Zenon
    <2>2. Mirror(Tail(wire[p]), local[p], res.remote)
      BY <1>7, <1>11, <2>1, MirrorKeeps, Zenon
    <2> QED BY <1>2, <1>10, <2>2, Zenon
  <1>13. TypeOK'
    BY <1>1, <1>2, <1>10, Zenon DEF TypeOK, Remotes, Frames, Ids
  <1>14. local' = local /\ outgoing' = outgoing /\ UNCHANGED <<up, free_ids, handles>>
    BY Zenon
  <1>15. Renewed(local[e], local'[e])
    BY <1>3, <1>14, RenewedSelf, Zenon
  <1> QED BY <1>1, <1>2, <1>10, <1>12, <1>13, <1>14, <1>15, ReadKeeps, Zenon DEF p

\* ReceiveMessage.
LEMMA ReceiveMessageKeeps ==
  ASSUME IdsInv, NEW e \in End, ReceiveMessage(e)
  PROVE  IdsInv'
  <1> DEFINE f == Head(wire[Peer(e)])
             items == << [id |-> f.id, msg |-> f.msg] >>
  <1>1. TypeOK /\ Reads(e, "message") /\ DispatchAll(e, items)
        /\ UNCHANGED <<up, local, free_ids, outgoing, incoming, cork_depth, batch, handles, created, sent, hasty>>
    BY Zenon DEF ReceiveMessage, IdsInv
  <1>2. f \in Frame /\ f.type = "message"
    BY <1>1, ReadsOff, Zenon
  <1> HIDE DEF f
  <1>3. [id |-> f.id, msg |-> f.msg] \in Item
    BY <1>2 DEF Frame, Item
  <1>4. items \in Seq(Item)
    BY <1>3
  <1>5. "message" \in {"message", "batch"}
    OBVIOUS
  <1> HIDE DEF items
  <1> QED BY <1>1, <1>4, <1>5, DispatchAllKeeps, Zenon

\* ReceiveBatch.
LEMMA ReceiveBatchKeeps ==
  ASSUME IdsInv, NEW e \in End, ReceiveBatch(e)
  PROVE  IdsInv'
  <1> DEFINE f == Head(wire[Peer(e)])
  <1>1. TypeOK /\ Reads(e, "batch") /\ DispatchAll(e, f.items)
        /\ UNCHANGED <<up, local, free_ids, outgoing, incoming, cork_depth, batch, handles, created, sent, hasty>>
    BY Zenon DEF ReceiveBatch, IdsInv
  <1>2. f \in Frame /\ f.type = "batch"
    BY <1>1, ReadsOff, Zenon
  <1> HIDE DEF f
  <1>3. f.items \in Seq(Item)
    BY <1>2 DEF Frame
  <1>4. "batch" \in {"message", "batch"}
    OBVIOUS
  <1> QED BY <1>1, <1>3, <1>4, DispatchAllKeeps, Zenon

\* At the start there are no ids.
LEMMA IdsStart ==
  ASSUME Init
  PROVE  IdsInv
  <1>1. TypeOK
    <2>1. 0 \in 0 .. MaxCork /\ \A S : << >> \in Seq(S)
      BY MuxBoundAssumption
    <2> QED BY <2>1, Zenon DEF Init, TypeOK
  <1>2. DOMAIN << >> = {} /\ \A id : Slot(<< >>, id) = None
    BY DEF Slot
  <1>3. Range(<< >>) = {} /\ \A id : About(<< >>, id) = {}
    BY <1>2, Zenon DEF Range, About
  <1>4. ASSUME NEW e \in End PROVE EndInv(e)
    <2>1. /\ free_ids[e] = << >> /\ local[e] = << >> /\ handles[e] = {} /\ wire[e] = << >>
          /\ outgoing[e] = [k \in Key |-> << >>] /\ remote[Peer(e)] = << >>
      BY PeerFacts, Zenon DEF Init
    <2>2. FreeOK(<< >>, << >>)
      BY <1>2, <1>3, Zenon DEF FreeOK
    <2>3. HandlesOK({}, << >>) /\ WaitingOK([k \in Key |-> << >>], << >>)
      BY <1>2, Zenon DEF HandlesOK, WaitingOK
    <2>4. Mirror(<< >>, << >>, << >>)
      BY <1>2, <1>3, Zenon DEF Mirror, Follows
    <2> QED BY <2>1, <2>2, <2>3, <2>4, Zenon DEF EndInv
  <1> QED BY <1>1, <1>4, Zenon DEF IdsInv

\* The invariant says what IdsAgree says.
LEMMA IdsInvAgrees ==
  ASSUME IdsInv
  PROVE  IdsAgree
  <1>1. FreeIdsAreFree
    BY Zenon DEF IdsInv, EndInv, FreeOK, FreeIdsAreFree
  <1>2. ASSUME NEW e \in End, up[Peer(e)], NEW id \in DOMAIN local[e]
        PROVE  Follows(wire[e], id, local[e][id], Slot(remote[Peer(e)], id))
    <2>1. local[e] \in Locals
      BY Types, Zenon DEF IdsInv
    <2>2. id \in Ids
      BY <2>1 DEF Locals, Ids
    <2>3. Slot(local[e], id) = local[e][id]
      BY Zenon DEF Slot
    <2>4. Mirror(wire[e], local[e], remote[Peer(e)])
      BY <1>2, Zenon DEF IdsInv, EndInv
    <2> QED BY <2>2, <2>3, <2>4, Zenon DEF Mirror
  <1>3. IdsMirror
    BY <1>2, Zenon DEF IdsMirror
  <1> QED BY <1>1, <1>3, Zenon DEF IdsAgree, IdsInv

\* The id invariant holds in every state, for any keys and bounds.
THEOREM IdsInvariance == Spec => []IdsInv
  <1>1. Init => IdsInv
    BY IdsStart, Zenon
  <1>2. IdsInv /\ [Next]_vars => IdsInv'
    <2> SUFFICES ASSUME IdsInv, [Next]_vars PROVE IdsInv'
      OBVIOUS
    <2>1. CASE UNCHANGED vars
      BY <2>1, Zenon DEF vars, IdsInv, EndInv, TypeOK
    <2>2. CASE Next
      <3>1. PICK e \in End :
                \/ \E k \in Key : CreateChannel(e, k)
                \/ \E h \in handles[e] : SendMessage(e, h)
                \/ \E h \in handles[e] : CloseChannel(e, h)
                \/ Cork(e) \/ Uncork(e) \/ ReceiveOpen(e) \/ ReceiveClose(e)
                \/ ReceiveMessage(e) \/ ReceiveBatch(e) \/ Shutdown(e)
        BY <2>2, Zenon DEF Next
      <3> QED BY <3>1, CreateChannelKeeps, SendMessageKeeps, CloseChannelKeeps, CorkKeeps, UncorkKeeps,
                 ReceiveOpenKeeps, ReceiveCloseKeeps, ReceiveMessageKeeps, ReceiveBatchKeeps, ShutdownKeeps, Zenon
    <2> QED BY <2>1, <2>2
  <1> QED BY <1>1, <1>2, PTL DEF Spec

\* No id is free and in use, and the peer's map of ids is ours as seen through the
\* frames on the way, over any reuse of ids (alloc_local_id, close_channel_internal):
\* handle_remote_open never meets an id that is open already.
THEOREM IdsAlwaysAgree == Spec => []IdsAgree
  BY IdsInvariance, IdsInvAgrees, PTL

\* An Open that arrives is for an id that is not open.
LEMMA OpensAreNew ==
  ASSUME IdsInv, NEW e \in End, Reads(e, "open")
  PROVE  Slot(remote[e], Head(wire[Peer(e)]).id) = None
  <1> DEFINE p == Peer(e)
             f == Head(wire[p])
  <1>1. TypeOK /\ p \in End /\ (up[e] => Mirror(wire[p], local[p], remote[e]))
    BY EndsBefore, Zenon
  <1>2. up[e] /\ wire[p] # << >> /\ f.type = "open" /\ f \in Frame
    BY <1>1, ReadsOff, Zenon
  <1>3. f.id \in Ids /\ wire[p] \in Frames
    BY <1>1, <1>2, FrameSays, Types, Zenon
  <1> QED BY <1>1, <1>2, <1>3, MirrorReadsOpen, Zenon

\* A mux ends because its stream or its application does (run_mux), and never because
\* handle_remote_open refused an id as open already, however ids are used again.
StopsOnlyByShutdown == [][\A e \in End : up[e] /\ ~up'[e] => Shutdown(e)]_vars

\* No sequence of creates and closes leads an end into the frame error of a duplicate Open.
THEOREM NoFrameError == Spec => StopsOnlyByShutdown
  <1>1. IdsInv /\ [Next]_vars => [\A e \in End : up[e] /\ ~up'[e] => Shutdown(e)]_vars
    <2> SUFFICES ASSUME IdsInv, Next, NEW e \in End, up[e], ~up'[e] PROVE Shutdown(e)
      BY Zenon
    <2>1. PICK x \in End :
              \/ \E k \in Key : CreateChannel(x, k)
              \/ \E h \in handles[x] : SendMessage(x, h)
              \/ \E h \in handles[x] : CloseChannel(x, h)
              \/ Cork(x) \/ Uncork(x) \/ ReceiveOpen(x) \/ ReceiveClose(x)
              \/ ReceiveMessage(x) \/ ReceiveBatch(x) \/ Shutdown(x)
      BY Zenon DEF Next
    <2>2. up' # up
      BY Zenon
    <2>3. ~ReceiveOpen(x)
      <3> SUFFICES ASSUME ReceiveOpen(x) PROVE FALSE
        BY Zenon
      <3>1. Reads(x, "open")
        BY Zenon DEF ReceiveOpen
      <3>2. Slot(remote[x], Head(wire[Peer(x)]).id) = None
        BY <3>1, OpensAreNew, Zenon
      <3> QED BY <2>2, <3>2, Zenon DEF ReceiveOpen
    <2>4. ASSUME UNCHANGED up PROVE FALSE
      BY <2>2, <2>4, Zenon
    <2>5. Shutdown(x)
      BY <2>1, <2>3, <2>4, Zenon DEF CreateChannel, SendMessage, CloseChannel, Cork, Uncork, ReceiveClose,
                                     ReceiveMessage, ReceiveBatch
    <2>6. x = e
      <3>1. up \in [End -> BOOLEAN]
        BY Zenon DEF IdsInv, TypeOK
      <3>2. up' = [up EXCEPT ![x] = FALSE]
        BY <2>5, Zenon DEF Shutdown
      <3> QED BY <3>1, <3>2, Zenon
    <2> QED BY <2>5, <2>6, Zenon
  <1> QED BY <1>1, IdsInvariance, PTL DEF Spec, StopsOnlyByShutdown

----------------------------------------------------------------------------
(* Messages arrive in order.                                               *)

\* The messages of a frame.
Items(f) ==
    IF f.type = "message" THEN << [id |-> f.id, msg |-> f.msg] >>
    ELSE IF f.type = "batch" THEN f.items ELSE << >>

\* Messages are in the order they were sent, are before later ones, and are
\* among the first n.
Rising(items) == \A i, j \in DOMAIN items : i < j => items[i].msg < items[j].msg
Before(items, later) == \A i \in DOMAIN items, j \in DOMAIN later : items[i].msg < later[j].msg
Bounded(items, n) == \A i \in DOMAIN items : items[i].msg <= n

\* What an end has sent and its peer has not read, the open batch last.
FlightOK(w, b, n, cork) ==
    /\ \A i \in DOMAIN w : Rising(Items(w[i])) /\ Before(Items(w[i]), b) /\ Bounded(Items(w[i]), n)
    /\ \A i, j \in DOMAIN w : i < j => Before(Items(w[i]), Items(w[j]))
    /\ Rising(b) /\ Bounded(b, n)
    /\ b # << >> => cork > 0

\* Numbers before those of the messages that are still to arrive.
Beneath(m, items) == \A j \in DOMAIN items : m < items[j].msg
Ahead(w, b, n) == {m \in Nat : m <= n /\ Beneath(m, b) /\ \A i \in DOMAIN w : Beneath(m, Items(w[i]))}

\* Messages of M in order, handed over or kept for a channel.
Fresh(s, M) == \A i \in DOMAIN s : s[i] \in M /\ \A j \in DOMAIN s : i < j => s[i] < s[j]

ArrivedOK(rem, gs, M) ==
    /\ \A ch \in DOMAIN gs : Fresh(gs[ch], M)
    /\ \A id \in DOMAIN rem : rem[id] # None => Fresh(rem[id].pending, M)

OrderInv ==
    \A e \in End :
        /\ FlightOK(wire[e], batch[e], Len(sent[e]), cork_depth[e])
        /\ ArrivedOK(remote[e], got[e], Ahead(wire[Peer(e)], batch[Peer(e)], Len(sent[Peer(e)])))

\* Messages that are before more are before those, too.
LEMMA ArrivedWider ==
  ASSUME NEW rem, NEW gs, NEW M, NEW M2, ArrivedOK(rem, gs, M), M \subseteq M2
  PROVE  ArrivedOK(rem, gs, M2)
  BY Zenon DEF ArrivedOK, Fresh

\* A later message at the end.
LEMMA FreshAppend ==
  ASSUME NEW s \in Seq(Ids), NEW M, NEW M2, NEW m \in Ids, Fresh(s, M), \A x \in M : x < m,
         M \subseteq M2, m \in M2
  PROVE  Fresh(Append(s, m), M2)
  <1> DEFINE t == Append(s, m)
             n == Len(s) + 1
  <1>1. /\ DOMAIN t = DOMAIN s \cup {n} /\ t[n] = m /\ \A i \in DOMAIN s : t[i] = s[i]
        /\ \A i \in DOMAIN s : ~(n < i)
        /\ ~(n < n)
    OBVIOUS
  <1> HIDE DEF t, n
  <1>2. ASSUME NEW i \in DOMAIN t PROVE t[i] \in M2 /\ \A j \in DOMAIN t : i < j => t[i] < t[j]
    <2>1. CASE i \in DOMAIN s
      <3>1. s[i] \in M /\ \A j \in DOMAIN s : i < j => s[i] < s[j]
        BY <2>1, Zenon DEF Fresh
      <3>2. t[i] = s[i] /\ s[i] < m
        BY <1>1, <2>1, <3>1, Zenon
      <3> QED BY <1>1, <3>1, <3>2, Zenon
    <2>2. CASE i = n
      BY <1>1, <2>2, Zenon
    <2> QED BY <1>1, <2>1, <2>2, Zenon
  <1>3. Fresh(t, M2)
    BY <1>2, Zenon DEF Fresh
  <1> QED BY <1>3, Zenon DEF t

\* A message goes to the end of what a channel has, or of what is kept for it.
LEMMA DispatchFresh ==
  ASSUME NEW st \in States, NEW it \in Item, NEW chans, NEW M, NEW M2, ArrivedOK(st.remote, st.got, M),
         \A x \in M : x < it.msg, M \subseteq M2, it.msg \in M2
  PROVE  ArrivedOK(Dispatch(st, it, chans).remote, Dispatch(st, it, chans).got, M2)
  <1> DEFINE rem == st.remote
             gs == st.got
             entry == Slot(rem, it.id)
             chan == IF entry = None THEN None ELSE Slot(chans, entry.local)
             res == Dispatch(st, it, chans)
             c == chan.ch
             g2 == [gs EXCEPT ![c] = Append(gs[c], it.msg)]
             v == [rem[it.id] EXCEPT !.pending = Append(rem[it.id].pending, it.msg)]
             rem2 == [rem EXCEPT ![it.id] = v]
  <1>1. rem \in Remotes /\ gs \in Seq(Seq(Ids)) /\ it.msg \in Ids /\ it.id \in Ids
    BY DEF States, Item, Ids
  <1>2. st = [remote |-> rem, got |-> gs]
    BY DEF States
  <1>3. ArrivedOK(rem, gs, M2)
    BY ArrivedWider, Zenon
  <1>4. \/ res = st
        \/ res = [st EXCEPT !.got = g2]
        \/ entry # None /\ res = [st EXCEPT !.remote = rem2]
    BY Zenon DEF Dispatch
  <1>40. ArrivedOK(rem, gs, M)
    BY Zenon
  <1> HIDE DEF res, c, gs
  <1>5. CASE res = st
    BY <1>3, <1>5, Zenon DEF res, gs
  <1>6. CASE res = [st EXCEPT !.got = g2]
    <2>1. \A i \in DOMAIN gs : Fresh(g2[i], M2) /\ DOMAIN g2 = DOMAIN gs
      <3> SUFFICES ASSUME NEW i \in DOMAIN gs PROVE Fresh(g2[i], M2)
        BY Zenon
      <3>1. Fresh(gs[i], M) /\ Fresh(gs[i], M2)
        BY <1>3, <1>40, Zenon DEF ArrivedOK
      <3>2. CASE i = c
        <4>1. g2[i] = Append(gs[i], it.msg)
          BY <3>2, Zenon
        <4>2. gs[i] \in Seq(Ids)
          BY <1>1
        <4>3. Fresh(Append(gs[i], it.msg), M2)
          BY <1>1, <3>1, <4>2, FreshAppend, Zenon
        <4> QED BY <4>1, <4>3, Zenon
      <3>3. CASE i # c
        BY <3>1, <3>3, Zenon
      <3> QED BY <3>2, <3>3, Zenon
    <2>2. DOMAIN g2 = DOMAIN gs
      BY Zenon
    <2> HIDE DEF g2, rem
    <2>3. res = [remote |-> rem, got |-> g2]
      BY <1>2, <1>6
    <2>4. res.remote = rem /\ res.got = g2
      BY <2>3
    <2>5. ArrivedOK(rem, g2, M2)
      BY <1>3, <2>1, <2>2, Zenon DEF ArrivedOK
    <2> QED BY <2>4, <2>5, Zenon DEF res
  <1>7. CASE entry # None /\ res = [st EXCEPT !.remote = rem2]
    <2>1. it.id \in DOMAIN rem /\ rem[it.id] # None
      BY <1>7, Zenon DEF Slot
    <2>2. rem[it.id] \in Remote
      BY <1>1, <2>1 DEF Remotes
    <2>3. ASSUME NEW x \in Remote
          PROVE  /\ x.pending \in Seq(Ids)
                 /\ [x EXCEPT !.pending = Append(x.pending, it.msg)].pending = Append(x.pending, it.msg)
      BY DEF Remote, Ids
    <2>4. v.pending = Append(rem[it.id].pending, it.msg) /\ rem[it.id].pending \in Seq(Ids)
      BY <2>2, <2>3, Zenon
    <2>5. Fresh(rem[it.id].pending, M)
      BY <1>40, <2>1, Zenon DEF ArrivedOK
    <2>6. Fresh(v.pending, M2)
      <3>1. Fresh(Append(rem[it.id].pending, it.msg), M2)
        BY <1>1, <2>4, <2>5, FreshAppend, Zenon
      <3> HIDE DEF v
      <3> QED BY <2>4, <3>1, Zenon
    <2> HIDE DEF v, rem
    <2>7. DOMAIN rem2 = DOMAIN rem /\ \A i \in DOMAIN rem : rem2[i] = IF i = it.id THEN v ELSE rem[i]
      BY Zenon
    <2> HIDE DEF rem2
    <2>8. ASSUME NEW i \in DOMAIN rem2, rem2[i] # None PROVE Fresh(rem2[i].pending, M2)
      <3>1. CASE i = it.id
        BY <2>6, <2>7, <3>1, Zenon
      <3>2. CASE i # it.id
        <4>1. i \in DOMAIN rem /\ rem2[i] = rem[i]
          BY <2>7, <3>2, Zenon
        <4> QED BY <1>3, <2>8, <4>1, Zenon DEF ArrivedOK
      <3> QED BY <3>1, <3>2, Zenon
    <2>9. res = [remote |-> rem2, got |-> gs]
      BY <1>2, <1>7
    <2>10. res.remote = rem2 /\ res.got = gs
      BY <2>9
    <2>11. ArrivedOK(rem2, gs, M2)
      BY <1>3, <2>8, Zenon DEF ArrivedOK
    <2> QED BY <2>10, <2>11, Zenon DEF res
  <1> QED BY <1>4, <1>5, <1>6, <1>7, Zenon

\* The messages of a frame, one after another.
LEMMA DispatchedFresh ==
  ASSUME NEW st \in States, NEW items \in Seq(Item), NEW chans, NEW M0, NEW M,
         ArrivedOK(st.remote, st.got, M0), Rising(items),
         \A x \in M0 : Beneath(x, items), M0 \subseteq M, \A j \in DOMAIN items : items[j].msg \in M
  PROVE  ArrivedOK(Dispatched(st, items, chans).remote, Dispatched(st, items, chans).got, M)
  <1> DEFINE Upto(n) == {x \in M : \A j \in DOMAIN items : n < j => x < items[j].msg}
             G == {y \in Nat \X States : ArrivedOK(y[2].remote, y[2].got, Upto(y[1]))}
             N == Len(items)
  <1>1. N \in Nat /\ DOMAIN items = 1 .. N /\ \A n \in 1 .. N : items[n] \in Item
    OBVIOUS
  <1>2. ASSUME NEW n, NEW s PROVE <<n, s>> \in G <=> n \in Nat /\ s \in States /\ ArrivedOK(s.remote, s.got, Upto(n))
    <2> HIDE DEF Upto
    <2>1. <<n, s>>[1] = n /\ <<n, s>>[2] = s /\ (<<n, s>> \in Nat \X States <=> n \in Nat /\ s \in States)
      OBVIOUS
    <2> QED BY <2>1
  <1>3. <<0, st>> \in G
    <2>1. M0 \subseteq Upto(0)
      BY Zenon DEF Beneath
    <2>2. ArrivedOK(st.remote, st.got, Upto(0))
      <3> HIDE DEF Upto
      <3> QED BY <2>1, ArrivedWider, Zenon
    <2>3. 0 \in Nat
      OBVIOUS
    <2> HIDE DEF G, Upto
    <2> QED BY <1>2, <2>2, <2>3, Zenon
  <1>4. ASSUME NEW n \in 1 .. N, NEW s, <<n - 1, s>> \in G PROVE <<n, Dispatch(s, items[n], chans)>> \in G
    <2>1. s \in States /\ ArrivedOK(s.remote, s.got, Upto(n - 1))
      BY <1>2, <1>4, Zenon
    <2>2. n \in Nat /\ n \in DOMAIN items /\ n - 1 < n /\ items[n] \in Item
      BY <1>1
    <2>20. \A j \in DOMAIN items : n < j => n - 1 < j
      BY <2>2
    <2>3. \A x \in Upto(n - 1) : x < items[n].msg
      BY <2>2, Zenon
    <2>4. Upto(n - 1) \subseteq Upto(n)
      BY <2>20, Zenon
    <2>5. items[n].msg \in Upto(n)
      BY <2>2, Zenon DEF Rising
    <2> HIDE DEF Upto, G
    <2>6. ArrivedOK(Dispatch(s, items[n], chans).remote, Dispatch(s, items[n], chans).got, Upto(n))
      BY <2>1, <2>2, <2>3, <2>4, <2>5, DispatchFresh, Zenon
    <2>7. Dispatch(s, items[n], chans) \in States
      BY <2>1, <2>2, DispatchKeeps, Zenon
    <2> QED BY <1>2, <2>2, <2>6, <2>7, Zenon
  <1> HIDE DEF G
  <1>5. <<N, Dispatched(st, items, chans)>> \in G
    BY <1>1, <1>3, <1>4, DispatchedIn, Zenon
  <1>6. Upto(N) \subseteq M
    BY Zenon
  <1> HIDE DEF Upto
  <1>7. ArrivedOK(Dispatched(st, items, chans).remote, Dispatched(st, items, chans).got, Upto(N))
    BY <1>2, <1>5, Zenon
  <1> QED BY <1>6, <1>7, ArrivedWider, Zenon

\* The messages of a frame are messages.
LEMMA ItemsType ==
  ASSUME NEW f \in Frame
  PROVE  /\ Items(f) \in Seq(Item)
         /\ f.type \in {"open", "close"} => Items(f) = << >>
  <1>1. f.type = "message" => [id |-> f.id, msg |-> f.msg] \in Item
    BY DEF Frame, Item
  <1>2. f.type = "batch" => f.items \in Seq(Item)
    BY DEF Frame
  <1>3. << >> \in Seq(Item) /\ \A x \in Item : << x >> \in Seq(Item)
    OBVIOUS
  <1>4. f.type \in {"open", "close"} => f.type # "message" /\ f.type # "batch"
    BY Zenon
  <1> QED BY <1>1, <1>2, <1>3, <1>4, Zenon DEF Items

\* No messages are in any order.
LEMMA NoItems ==
  ASSUME NEW items
  PROVE  /\ Rising(<< >>) /\ Before(items, << >>) /\ Before(<< >>, items)
         /\ \A n : Bounded(<< >>, n) /\ Beneath(n, << >>)
  <1>1. DOMAIN << >> = {}
    OBVIOUS
  <1> QED BY <1>1, Zenon DEF Rising, Before, Bounded, Beneath

\* A frame written, with what else has changed.
LEMMA FlightGrows ==
  ASSUME NEW w \in Frames, NEW f \in Frame, NEW b, NEW n, NEW cork, FlightOK(w, b, n, cork),
         NEW b2, NEW n2, NEW cork2,
         Rising(Items(f)), Before(Items(f), b2), Bounded(Items(f), n2),
         \A i \in DOMAIN w : /\ Before(Items(w[i]), Items(f)) /\ Before(Items(w[i]), b2)
                             /\ Bounded(Items(w[i]), n2),
         Rising(b2), Bounded(b2, n2), b2 # << >> => cork2 > 0
  PROVE  FlightOK(Append(w, f), b2, n2, cork2)
  <1> DEFINE x == Append(w, f)
             k == Len(w) + 1
  <1>1. /\ DOMAIN x = DOMAIN w \cup {k} /\ x[k] = f /\ \A i \in DOMAIN w : x[i] = w[i]
        /\ \A i \in DOMAIN w : ~(k < i)
        /\ ~(k < k)
    BY DEF Frames
  <1> HIDE DEF x, k
  <1>2. \A i \in DOMAIN x : Rising(Items(x[i])) /\ Before(Items(x[i]), b2) /\ Bounded(Items(x[i]), n2)
    BY <1>1, Zenon DEF FlightOK
  <1>3. ASSUME NEW i \in DOMAIN x, NEW j \in DOMAIN x, i < j PROVE Before(Items(x[i]), Items(x[j]))
    <2>1. i \in DOMAIN w /\ x[i] = w[i]
      BY <1>1, <1>3, Zenon
    <2>2. CASE j \in DOMAIN w
      <3>1. x[j] = w[j] /\ Before(Items(w[i]), Items(w[j]))
        BY <1>1, <1>3, <2>1, <2>2, Zenon DEF FlightOK
      <3> QED BY <2>1, <3>1, Zenon
    <2>3. CASE j = k
      BY <1>1, <2>1, <2>3, Zenon
    <2> QED BY <1>1, <2>2, <2>3, Zenon
  <1>4. FlightOK(x, b2, n2, cork2)
    BY <1>2, <1>3, Zenon DEF FlightOK
  <1> QED BY <1>4, Zenon DEF x

\* A frame read.
LEMMA FlightReads ==
  ASSUME NEW w \in Frames, w # << >>, NEW b, NEW n, NEW cork, FlightOK(w, b, n, cork)
  PROVE  /\ FlightOK(Tail(w), b, n, cork)
         /\ Rising(Items(Head(w))) /\ Before(Items(Head(w)), b) /\ Bounded(Items(Head(w)), n)
         /\ \A i \in DOMAIN Tail(w) : Before(Items(Head(w)), Items(Tail(w)[i]))
         /\ Ahead(w, b, n) \subseteq Ahead(Tail(w), b, n)
         /\ \A m \in Ahead(w, b, n) : Beneath(m, Items(Head(w)))
  <1> DEFINE v == Tail(w)
             f == Head(w)
  <1>1. /\ f = w[1] /\ 1 \in DOMAIN w
        /\ \A i \in DOMAIN v : i + 1 \in DOMAIN w /\ v[i] = w[i + 1] /\ 1 < i + 1
        /\ \A i, j \in DOMAIN v : i < j => i + 1 < j + 1
    BY DEF Frames
  <1> HIDE DEF v, f
  <1>2. FlightOK(v, b, n, cork)
    <2>1. \A i \in DOMAIN v : Rising(Items(v[i])) /\ Before(Items(v[i]), b) /\ Bounded(Items(v[i]), n)
      BY <1>1, Zenon DEF FlightOK
    <2>2. ASSUME NEW i \in DOMAIN v, NEW j \in DOMAIN v, i < j PROVE Before(Items(v[i]), Items(v[j]))
      <3>1. i + 1 \in DOMAIN w /\ j + 1 \in DOMAIN w /\ i + 1 < j + 1 /\ v[i] = w[i + 1] /\ v[j] = w[j + 1]
        BY <1>1, <2>2, Zenon
      <3>2. Before(Items(w[i + 1]), Items(w[j + 1]))
        BY <3>1, Zenon DEF FlightOK
      <3> QED BY <3>1, <3>2, Zenon
    <2> QED BY <2>1, <2>2, Zenon DEF FlightOK
  <1>3. Rising(Items(f)) /\ Before(Items(f), b) /\ Bounded(Items(f), n)
    BY <1>1, Zenon DEF FlightOK
  <1>4. ASSUME NEW i \in DOMAIN v PROVE Before(Items(f), Items(v[i]))
    <2>1. i + 1 \in DOMAIN w /\ 1 < i + 1 /\ v[i] = w[i + 1]
      BY <1>1, Zenon
    <2>2. Before(Items(w[1]), Items(w[i + 1]))
      BY <1>1, <2>1, Zenon DEF FlightOK
    <2> QED BY <1>1, <2>1, <2>2, Zenon
  <1>5. Ahead(w, b, n) \subseteq Ahead(v, b, n)
    BY <1>1, Zenon DEF Ahead
  <1>6. \A m \in Ahead(w, b, n) : Beneath(m, Items(f))
    BY <1>1, Zenon DEF Ahead
  <1> QED BY <1>2, <1>3, <1>4, <1>5, <1>6, Zenon DEF v, f

\* What has arrived is before a frame that is written.
LEMMA AheadGrows ==
  ASSUME NEW w \in Frames, NEW f \in Frame, NEW b, NEW n \in Nat, NEW b2, NEW n2 \in Nat, n <= n2,
         \A m \in Ahead(w, b, n) : Beneath(m, Items(f)) /\ Beneath(m, b2)
  PROVE  Ahead(w, b, n) \subseteq Ahead(Append(w, f), b2, n2)
  <1> DEFINE x == Append(w, f)
             k == Len(w) + 1
  <1>1. DOMAIN x = DOMAIN w \cup {k} /\ x[k] = f /\ \A i \in DOMAIN w : x[i] = w[i]
    BY DEF Frames
  <1> HIDE DEF x, k
  <1>2. ASSUME NEW m \in Ahead(w, b, n) PROVE m \in Ahead(x, b2, n2)
    <2>1. m \in Nat /\ m <= n /\ \A i \in DOMAIN w : Beneath(m, Items(w[i]))
      BY Zenon DEF Ahead
    <2>2. m <= n2
      BY <2>1, SMT
    <2>3. \A i \in DOMAIN x : Beneath(m, Items(x[i]))
      BY <1>1, <2>1, Zenon
    <2> QED BY <2>1, <2>2, <2>3, Zenon DEF Ahead
  <1> QED BY <1>2, Zenon DEF x

\* Messages among the first n are before the next.
LEMMA NextIsLater ==
  ASSUME NEW items \in Seq(Item), NEW n \in Nat, Bounded(items, n), NEW it \in Item, it.msg = n + 1
  PROVE  /\ Before(items, << it >>) /\ Bounded(items, n + 1)
         /\ Rising(<< it >>) /\ Bounded(<< it >>, n + 1)
         /\ Rising(items) => Rising(Append(items, it))
         /\ Bounded(Append(items, it), n + 1)
         /\ \A others : Before(others, items) /\ Before(others, << it >>) => Before(others, Append(items, it))
         /\ \A m \in Nat : m <= n => Beneath(m, << it >>) /\ (Beneath(m, items) => Beneath(m, Append(items, it)))
  <1>1. \A i \in DOMAIN items : items[i].msg \in Nat /\ items[i].msg <= n
    <2>1. \A i \in DOMAIN items : items[i] \in Item
      OBVIOUS
    <2>2. \A x \in Item : x.msg \in Nat
      BY DEF Item
    <2> QED BY <2>1, <2>2, Zenon DEF Bounded
  <1>2. \A i \in DOMAIN items : items[i].msg < n + 1 /\ items[i].msg <= n + 1
    BY <1>1
  <1>3. DOMAIN << it >> = {1} /\ << it >>[1] = it /\ ~(1 < 1) /\ n + 1 <= n + 1
    OBVIOUS
  <1> DEFINE x == Append(items, it)
             k == Len(items) + 1
             y == << it >>
  <1>4. /\ DOMAIN x = DOMAIN items \cup {k} /\ x[k] = it /\ \A i \in DOMAIN items : x[i] = items[i]
        /\ \A i \in DOMAIN items : ~(k < i)
        /\ ~(k < k)
    OBVIOUS
  <1>5. DOMAIN y = {1} /\ y[1] = it /\ it.msg = n + 1
    BY <1>3, Zenon
  <1> HIDE DEF x, k, y
  <1>6. Before(items, y) /\ Bounded(items, n + 1)
    BY <1>2, <1>5, Zenon DEF Before, Bounded
  <1>7. Rising(y) /\ Bounded(y, n + 1)
    BY <1>3, <1>5, Zenon DEF Rising, Bounded
  <1>8. Rising(items) => Rising(x)
    <2> SUFFICES ASSUME Rising(items), NEW i \in DOMAIN x, NEW j \in DOMAIN x, i < j PROVE x[i].msg < x[j].msg
      BY Zenon DEF Rising
    <2>1. i \in DOMAIN items /\ x[i] = items[i]
      BY <1>4, Zenon
    <2>2. CASE j \in DOMAIN items
      <3>1. x[j] = items[j] /\ items[i].msg < items[j].msg
        BY <1>4, <2>1, <2>2, Zenon DEF Rising
      <3> QED BY <2>1, <3>1, Zenon
    <2>3. CASE j = k
      <3>1. x[j] = it /\ items[i].msg < it.msg
        BY <1>2, <1>4, <1>5, <2>1, <2>3, Zenon
      <3> QED BY <2>1, <3>1, Zenon
    <2> QED BY <1>4, <2>2, <2>3, Zenon
  <1>9. Bounded(x, n + 1)
    BY <1>2, <1>3, <1>4, <1>5, Zenon DEF Bounded
  <1>10. ASSUME NEW others, Before(others, items), Before(others, y) PROVE Before(others, x)
    <2> SUFFICES ASSUME NEW i \in DOMAIN others, NEW j \in DOMAIN x PROVE others[i].msg < x[j].msg
      BY Zenon DEF Before
    <2>1. CASE j \in DOMAIN items
      <3>1. x[j] = items[j] /\ others[i].msg < items[j].msg
        BY <1>4, <1>10, <2>1, Zenon DEF Before
      <3> QED BY <3>1, Zenon
    <2>2. CASE j = k
      <3>1. x[j] = y[1] /\ 1 \in DOMAIN y
        BY <1>4, <1>5, <2>2, Zenon
      <3>2. others[i].msg < y[1].msg
        BY <1>10, <3>1, Zenon DEF Before
      <3> QED BY <3>1, <3>2, Zenon
    <2> QED BY <1>4, <2>1, <2>2, Zenon
  <1>11. ASSUME NEW m \in Nat, m <= n PROVE Beneath(m, y) /\ (Beneath(m, items) => Beneath(m, x))
    <2>1. m < n + 1
      BY <1>11
    <2>2. Beneath(m, y)
      BY <1>5, <2>1, Zenon DEF Beneath
    <2>3. ASSUME Beneath(m, items), NEW j \in DOMAIN x PROVE m < x[j].msg
      <3>1. CASE j \in DOMAIN items
        BY <1>4, <2>3, <3>1, Zenon DEF Beneath
      <3>2. CASE j = k
        BY <1>4, <1>5, <2>1, <3>2, Zenon
      <3> QED BY <1>4, <3>1, <3>2, Zenon
    <2> QED BY <2>2, <2>3, Zenon DEF Beneath
  <1> QED BY <1>6, <1>7, <1>8, <1>9, <1>10, <1>11, Zenon DEF x, y

----------------------------------------------------------------------------
(* Commands keep the order.                                                *)

\* What is ahead of the messages an end has still to deliver.
AheadOf(e) == Ahead(wire[e], batch[e], Len(sent[e]))

\* The invariant at an end and its peer.
LEMMA OrderBefore ==
  ASSUME OrderInv, NEW e \in End
  PROVE  /\ FlightOK(wire[e], batch[e], Len(sent[e]), cork_depth[e])
         /\ FlightOK(wire[Peer(e)], batch[Peer(e)], Len(sent[Peer(e)]), cork_depth[Peer(e)])
         /\ ArrivedOK(remote[e], got[e], AheadOf(Peer(e)))
         /\ ArrivedOK(remote[Peer(e)], got[Peer(e)], AheadOf(e))
         /\ Peer(e) \in End
  BY PeerFacts, Zenon DEF OrderInv, AheadOf

\* A step that writes.
LEMMA WriterKeeps ==
  ASSUME OrderInv, NEW e \in End,
         wire'[Peer(e)] = wire[Peer(e)], batch'[Peer(e)] = batch[Peer(e)], sent'[Peer(e)] = sent[Peer(e)],
         cork_depth'[Peer(e)] = cork_depth[Peer(e)], remote'[Peer(e)] = remote[Peer(e)], got'[Peer(e)] = got[Peer(e)],
         FlightOK(wire'[e], batch'[e], Len(sent'[e]), cork_depth'[e]),
         AheadOf(e) \subseteq Ahead(wire'[e], batch'[e], Len(sent'[e])),
         ArrivedOK(remote'[e], got'[e], AheadOf(Peer(e)))
  PROVE  OrderInv'
  <1>1. /\ FlightOK(wire[Peer(e)], batch[Peer(e)], Len(sent[Peer(e)]), cork_depth[Peer(e)])
        /\ ArrivedOK(remote[Peer(e)], got[Peer(e)], AheadOf(e))
    BY OrderBefore, Zenon
  <1>2. ArrivedOK(remote'[Peer(e)], got'[Peer(e)], Ahead(wire'[e], batch'[e], Len(sent'[e])))
    BY <1>1, ArrivedWider, Zenon
  <1>3. ArrivedOK(remote'[e], got'[e], Ahead(wire'[Peer(e)], batch'[Peer(e)], Len(sent'[Peer(e)])))
    BY Zenon DEF AheadOf
  <1>4. FlightOK(wire'[Peer(e)], batch'[Peer(e)], Len(sent'[Peer(e)]), cork_depth'[Peer(e)])
    BY <1>1, Zenon
  <1>5. Peer(Peer(e)) = e /\ \A x \in End : x = e \/ x = Peer(e)
    BY PeerFacts, Zenon
  <1> QED BY <1>2, <1>3, <1>4, <1>5, Zenon DEF OrderInv

\* A step that reads.
LEMMA ReaderKeeps ==
  ASSUME OrderInv, TypeOK, NEW e \in End, wire[Peer(e)] # << >>,
         wire'[e] = wire[e], wire'[Peer(e)] = Tail(wire[Peer(e)]), UNCHANGED <<batch, sent, cork_depth>>,
         remote'[Peer(e)] = remote[Peer(e)], got'[Peer(e)] = got[Peer(e)],
         ArrivedOK(remote'[e], got'[e], Ahead(Tail(wire[Peer(e)]), batch[Peer(e)], Len(sent[Peer(e)])))
  PROVE  OrderInv'
  <1>1. /\ FlightOK(wire[Peer(e)], batch[Peer(e)], Len(sent[Peer(e)]), cork_depth[Peer(e)])
        /\ FlightOK(wire[e], batch[e], Len(sent[e]), cork_depth[e])
        /\ ArrivedOK(remote[Peer(e)], got[Peer(e)], AheadOf(e)) /\ Peer(e) \in End
    BY OrderBefore, Zenon
  <1>2. wire[Peer(e)] \in Frames
    BY <1>1, Types, Zenon
  <1>3. FlightOK(Tail(wire[Peer(e)]), batch[Peer(e)], Len(sent[Peer(e)]), cork_depth[Peer(e)])
    BY <1>1, <1>2, FlightReads, Zenon
  <1>4. batch' = batch /\ sent' = sent /\ cork_depth' = cork_depth
    BY Zenon
  <1>5. Peer(Peer(e)) = e /\ \A x \in End : x = e \/ x = Peer(e)
    BY PeerFacts, Zenon
  <1>6. /\ FlightOK(wire'[e], batch'[e], Len(sent'[e]), cork_depth'[e])
        /\ ArrivedOK(remote'[e], got'[e], Ahead(wire'[Peer(e)], batch'[Peer(e)], Len(sent'[Peer(e)])))
    BY <1>1, <1>4, Zenon
  <1>7. /\ FlightOK(wire'[Peer(e)], batch'[Peer(e)], Len(sent'[Peer(e)]), cork_depth'[Peer(e)])
        /\ ArrivedOK(remote'[Peer(e)], got'[Peer(e)], Ahead(wire'[e], batch'[e], Len(sent'[e])))
    BY <1>1, <1>3, <1>4, Zenon DEF AheadOf
  <1> QED BY <1>5, <1>6, <1>7, Zenon DEF OrderInv

\* Writing an Open or a Close.
LEMMA PlainFrameKeeps ==
  ASSUME OrderInv, TypeOK, NEW e \in End, NEW f \in Frame, f.type \in {"open", "close"}
  PROVE  /\ FlightOK(Append(wire[e], f), batch[e], Len(sent[e]), cork_depth[e])
         /\ AheadOf(e) \subseteq Ahead(Append(wire[e], f), batch[e], Len(sent[e]))
  <1> DEFINE w == wire[e]
             b == batch[e]
             n == Len(sent[e])
             cork == cork_depth[e]
  <1>1. w \in Frames /\ sent[e] \in Seq(Ids)
    BY Types, Zenon
  <1>2. n \in Nat /\ n <= n
    BY <1>1
  <1>3. FlightOK(w, b, n, cork)
    BY OrderBefore, Zenon
  <1>4. Items(f) = << >>
    BY ItemsType, Zenon
  <1> HIDE DEF w, b, n, cork
  <1>5. FlightOK(Append(w, f), b, n, cork)
    <2>1. Rising(Items(f)) /\ Before(Items(f), b) /\ Bounded(Items(f), n)
      BY <1>4, NoItems, Zenon
    <2>2. \A i \in DOMAIN w : Before(Items(w[i]), Items(f)) /\ Before(Items(w[i]), b) /\ Bounded(Items(w[i]), n)
      BY <1>3, <1>4, NoItems, Zenon DEF FlightOK
    <2>3. Rising(b) /\ Bounded(b, n) /\ (b # << >> => cork > 0)
      BY <1>3, Zenon DEF FlightOK
    <2> QED BY <1>1, <1>3, <2>1, <2>2, <2>3, FlightGrows, Zenon
  <1>6. Ahead(w, b, n) \subseteq Ahead(Append(w, f), b, n)
    <2>1. \A m \in Ahead(w, b, n) : Beneath(m, Items(f)) /\ Beneath(m, b)
      BY <1>4, NoItems, Zenon DEF Ahead
    <2> QED BY <1>1, <1>2, <2>1, AheadGrows, Zenon
  <1> QED BY <1>5, <1>6, Zenon DEF w, b, n, cork, AheadOf

\* CloseChannel and the order of messages.
LEMMA CloseChannelOrders ==
  ASSUME OrderInv, IdsInv, NEW e \in End, NEW h \in handles[e], CloseChannel(e, h)
  PROVE  OrderInv'
  <1> DEFINE f == CloseFrame(h.id)
  <1>1. TypeOK /\ Peer(e) \in End
    BY EndsBefore, Zenon
  <1>2. handles[e] \in SUBSET [ch : Ids, id : Ids]
    BY <1>1, Types, Zenon
  <1>3. h \in [ch : Ids, id : Ids]
    BY <1>2, Zenon
  <1>4. f \in Frame /\ f.type \in {"open", "close"}
    BY <1>3 DEF CloseFrame, Frame, Ids
  <1>5. wire' = wire \/ wire' = [wire EXCEPT ![e] = Append(wire[e], f)]
    BY Zenon DEF CloseChannel, WithClose
  <1>6. batch' = batch /\ sent' = sent /\ cork_depth' = cork_depth /\ remote' = remote /\ got' = got
    BY Zenon DEF CloseChannel
  <1> HIDE DEF f
  <1>7. /\ FlightOK(wire[e], batch[e], Len(sent[e]), cork_depth[e])
        /\ ArrivedOK(remote[e], got[e], AheadOf(Peer(e)))
    BY OrderBefore, Zenon
  <1>8. /\ FlightOK(wire'[e], batch[e], Len(sent[e]), cork_depth[e])
        /\ AheadOf(e) \subseteq Ahead(wire'[e], batch[e], Len(sent[e]))
        /\ wire'[Peer(e)] = wire[Peer(e)]
    <2>1. CASE wire' = wire
      BY <1>7, <2>1, Zenon DEF AheadOf
    <2>2. CASE wire' = [wire EXCEPT ![e] = Append(wire[e], f)]
      <3>1. wire'[e] = Append(wire[e], f) /\ wire'[Peer(e)] = wire[Peer(e)]
        BY <1>1, <1>4, <2>2, Writes, Zenon
      <3> QED BY <1>1, <1>4, <3>1, PlainFrameKeeps, Zenon
    <2> QED BY <1>5, <2>1, <2>2, Zenon
  <1> QED BY <1>6, <1>7, <1>8, WriterKeeps, Zenon

\* Cork and Shutdown and the order of messages.
LEMMA CorkOrders ==
  ASSUME OrderInv, IdsInv, NEW e \in End, Cork(e) \/ Shutdown(e)
  PROVE  OrderInv'
  <1>1. TypeOK /\ Peer(e) \in End /\ Peer(e) # e
    BY EndsBefore, PeerFacts, Zenon
  <1>2. /\ wire' = wire /\ batch' = batch /\ sent' = sent /\ remote' = remote /\ got' = got
        /\ cork_depth' = cork_depth \/ cork_depth' = [cork_depth EXCEPT ![e] = @ + 1]
    BY Zenon DEF Cork, Shutdown
  <1>3. /\ cork_depth \in [End -> 0 .. MaxCork]
    BY <1>1, Zenon DEF TypeOK
  <1>4. cork_depth'[Peer(e)] = cork_depth[Peer(e)] /\ (cork_depth[e] > 0 => cork_depth'[e] > 0)
    BY <1>1, <1>2, <1>3, MuxBoundAssumption
  <1>5. /\ FlightOK(wire[e], batch[e], Len(sent[e]), cork_depth[e])
        /\ ArrivedOK(remote[e], got[e], AheadOf(Peer(e)))
    BY OrderBefore, Zenon
  <1>6. FlightOK(wire[e], batch[e], Len(sent[e]), cork_depth'[e])
    BY <1>4, <1>5, Zenon DEF FlightOK
  <1>7. AheadOf(e) \subseteq Ahead(wire[e], batch[e], Len(sent[e]))
    BY Zenon DEF AheadOf
  <1> QED BY <1>2, <1>4, <1>5, <1>6, <1>7, WriterKeeps, Zenon

\* Uncork and the order of messages.
LEMMA UncorkOrders ==
  ASSUME OrderInv, IdsInv, NEW e \in End, Uncork(e)
  PROVE  OrderInv'
  <1> DEFINE f == BatchFrame(batch[e])
             w == wire[e]
             b == batch[e]
             n == Len(sent[e])
  <1>1. TypeOK /\ Peer(e) \in End /\ Peer(e) # e
    BY EndsBefore, PeerFacts, Zenon
  <1>2. b \in Seq(Item) /\ w \in Frames /\ sent[e] \in Seq(Ids)
    BY <1>1, Types, Zenon
  <1>3. f \in Frame /\ Items(f) = b
    BY <1>2 DEF BatchFrame, Frame, Items
  <1>4. /\ sent' = sent /\ remote' = remote /\ got' = got
        /\ cork_depth' = [cork_depth EXCEPT ![e] = @ - 1] /\ cork_depth[e] > 0
        /\ \/ cork_depth[e] = 1 /\ wire' = [wire EXCEPT ![e] = Append(w, f)] /\ batch' = [batch EXCEPT ![e] = << >>]
           \/ (cork_depth[e] # 1 \/ b = << >>) /\ wire' = wire /\ batch' = batch
    BY Zenon DEF Uncork
  <1>5. cork_depth \in [End -> 0 .. MaxCork] /\ batch \in [End -> Seq(Item)]
    BY <1>1, Zenon DEF TypeOK
  <1>6. cork_depth'[Peer(e)] = cork_depth[Peer(e)] /\ (cork_depth[e] # 1 => cork_depth'[e] > 0)
    BY <1>1, <1>4, <1>5, MuxBoundAssumption
  <1>7. FlightOK(w, b, n, cork_depth[e]) /\ ArrivedOK(remote[e], got[e], AheadOf(Peer(e)))
    BY OrderBefore, Zenon
  <1>8. n \in Nat /\ n <= n
    BY <1>2
  <1> HIDE DEF f, w, b, n
  <1>9. CASE (cork_depth[e] # 1 \/ b = << >>) /\ wire' = wire /\ batch' = batch
    <2>1. FlightOK(w, b, n, cork_depth'[e])
      BY <1>6, <1>7, <1>9, Zenon DEF FlightOK
    <2>2. AheadOf(e) \subseteq Ahead(w, b, n)
      BY Zenon DEF AheadOf, w, b, n
    <2> QED BY <1>4, <1>6, <1>7, <1>9, <2>1, <2>2, WriterKeeps, Zenon DEF w, b, n
  <1>10. CASE wire' = [wire EXCEPT ![e] = Append(w, f)] /\ batch' = [batch EXCEPT ![e] = << >>]
    <2>1. wire'[e] = Append(w, f) /\ wire'[Peer(e)] = wire[Peer(e)]
      BY <1>1, <1>3, <1>10, Writes, Zenon DEF w
    <2>2. batch'[e] = << >> /\ batch'[Peer(e)] = batch[Peer(e)]
      BY <1>1, <1>5, <1>10, Zenon
    <2>3. FlightOK(Append(w, f), << >>, n, cork_depth'[e])
      <3>1. Rising(Items(f)) /\ Before(Items(f), << >>) /\ Bounded(Items(f), n)
        BY <1>3, <1>7, NoItems, Zenon DEF FlightOK
      <3>2. \A i \in DOMAIN w : Before(Items(w[i]), Items(f)) /\ Before(Items(w[i]), << >>) /\ Bounded(Items(w[i]), n)
        BY <1>3, <1>7, NoItems, Zenon DEF FlightOK
      <3>3. Rising(<< >>) /\ Bounded(<< >>, n)
        BY NoItems, Zenon
      <3> QED BY <1>2, <1>3, <1>7, <3>1, <3>2, <3>3, FlightGrows, Zenon
    <2>4. AheadOf(e) \subseteq Ahead(Append(w, f), << >>, n)
      <3>1. \A m \in Ahead(w, b, n) : Beneath(m, Items(f)) /\ Beneath(m, << >>)
        BY <1>3, NoItems, Zenon DEF Ahead
      <3>2. Ahead(w, b, n) \subseteq Ahead(Append(w, f), << >>, n)
        BY <1>2, <1>3, <1>8, <3>1, AheadGrows, Zenon
      <3> QED BY <3>2, Zenon DEF AheadOf, w, b, n
    <2>5. FlightOK(wire'[e], batch'[e], Len(sent'[e]), cork_depth'[e])
      BY <1>4, <2>1, <2>2, <2>3, Zenon DEF n
    <2>6. AheadOf(e) \subseteq Ahead(wire'[e], batch'[e], Len(sent'[e]))
      BY <1>4, <2>1, <2>2, <2>4, Zenon DEF n
    <2> QED BY <1>4, <1>6, <1>7, <2>1, <2>2, <2>5, <2>6, WriterKeeps, Zenon
  <1> QED BY <1>4, <1>9, <1>10, Zenon

\* SendMessage and the order of messages.
LEMMA SendMessageOrders ==
  ASSUME OrderInv, IdsInv, NEW e \in End, NEW h \in handles[e], SendMessage(e, h)
  PROVE  OrderInv'
  <1> DEFINE w == wire[e]
             b == batch[e]
             n == Len(sent[e])
             it == [id |-> h.id, msg |-> n + 1]
             f == MessageFrame(h.id, n + 1)
  <1>1. TypeOK /\ Peer(e) \in End /\ Peer(e) # e
    BY EndsBefore, PeerFacts, Zenon
  <1>2. b \in Seq(Item) /\ w \in Frames /\ sent[e] \in Seq(Ids) /\ handles[e] \in SUBSET [ch : Ids, id : Ids]
    BY <1>1, Types, Zenon
  <1>3. h \in [ch : Ids, id : Ids] /\ cork_depth[e] \in 0 .. MaxCork
    BY <1>1, <1>2, Types, Zenon
  <1>4. n \in Nat /\ n <= n + 1 /\ n + 1 \in Nat /\ h.id \in Ids /\ h.ch \in Ids
    BY <1>2, <1>3
  <1>5. it \in Item /\ it.msg = n + 1 /\ f \in Frame
    BY <1>4 DEF Item, Ids, MessageFrame, Frame
  <1>50. Items(f) = << it >>
    BY DEF Items, MessageFrame
  <1>6. /\ sent' = [sent EXCEPT ![e] = Append(sent[e], h.ch)]
        /\ remote' = remote /\ got' = got /\ cork_depth' = cork_depth
        /\ \/ cork_depth[e] > 0 /\ batch' = [batch EXCEPT ![e] = Append(b, it)] /\ wire' = wire
           \/ ~(cork_depth[e] > 0) /\ wire' = [wire EXCEPT ![e] = Append(w, f)] /\ batch' = batch
    BY Zenon DEF SendMessage
  <1>7. Len(sent'[e]) = n + 1 /\ sent'[Peer(e)] = sent[Peer(e)]
    <2>1. sent \in [End -> Seq(Ids)]
      BY <1>1, Zenon DEF TypeOK, Ids
    <2>2. sent'[e] = Append(sent[e], h.ch) /\ sent'[Peer(e)] = sent[Peer(e)]
      BY <1>1, <1>6, <2>1, Zenon
    <2>3. Len(Append(sent[e], h.ch)) = n + 1
      BY <1>2
    <2> QED BY <2>2, <2>3, Zenon
  <1>8. FlightOK(w, b, n, cork_depth[e]) /\ ArrivedOK(remote[e], got[e], AheadOf(Peer(e)))
    BY OrderBefore, Zenon
  <1>9. batch \in [End -> Seq(Item)] /\ AheadOf(e) = Ahead(w, b, n)
    BY <1>1, Zenon DEF TypeOK, AheadOf
  <1> HIDE DEF f, it, w, b, n
  <1>10. ASSUME NEW i \in DOMAIN w
         PROVE  /\ Items(w[i]) \in Seq(Item) /\ Before(Items(w[i]), b) /\ Bounded(Items(w[i]), n)
                /\ Rising(Items(w[i])) /\ Before(Items(w[i]), << it >>) /\ Bounded(Items(w[i]), n + 1)
    <2>1. w[i] \in Frame
      BY <1>2 DEF Frames
    <2>2. Items(w[i]) \in Seq(Item)
      BY <2>1, ItemsType, Zenon
    <2>3. Before(Items(w[i]), b) /\ Bounded(Items(w[i]), n) /\ Rising(Items(w[i]))
      BY <1>8, Zenon DEF FlightOK
    <2>4. Before(Items(w[i]), << it >>) /\ Bounded(Items(w[i]), n + 1)
      BY <1>4, <1>5, <2>2, <2>3, NextIsLater, Zenon
    <2> QED BY <2>2, <2>3, <2>4, Zenon
  <1>11. Rising(b) /\ Bounded(b, n) /\ (b # << >> => cork_depth[e] > 0)
    BY <1>8, Zenon DEF FlightOK
  <1>12. CASE cork_depth[e] > 0 /\ batch' = [batch EXCEPT ![e] = Append(b, it)] /\ wire' = wire
    <2>1. batch'[e] = Append(b, it) /\ batch'[Peer(e)] = batch[Peer(e)]
      BY <1>1, <1>9, <1>12, Zenon
    <2>2. Rising(Append(b, it)) /\ Bounded(Append(b, it), n + 1)
      BY <1>2, <1>4, <1>5, <1>11, NextIsLater, Zenon
    <2>3. \A i \in DOMAIN w : Before(Items(w[i]), Append(b, it))
      BY <1>2, <1>4, <1>5, <1>10, <1>11, NextIsLater, Zenon
    <2>4. FlightOK(w, Append(b, it), n + 1, cork_depth[e])
      BY <1>8, <1>10, <1>12, <2>2, <2>3, Zenon DEF FlightOK
    <2>5. Ahead(w, b, n) \subseteq Ahead(w, Append(b, it), n + 1)
      <3> SUFFICES ASSUME NEW m \in Ahead(w, b, n) PROVE m \in Ahead(w, Append(b, it), n + 1)
        BY Zenon
      <3>1. m \in Nat /\ m <= n /\ Beneath(m, b) /\ \A i \in DOMAIN w : Beneath(m, Items(w[i]))
        BY Zenon DEF Ahead
      <3>2. m <= n + 1
        BY <1>4, <3>1
      <3>3. Beneath(m, Append(b, it))
        BY <1>2, <1>4, <1>5, <1>11, <3>1, NextIsLater, Zenon
      <3> QED BY <3>1, <3>2, <3>3, Zenon DEF Ahead
    <2>6. FlightOK(wire'[e], batch'[e], Len(sent'[e]), cork_depth'[e])
      BY <1>6, <1>7, <1>12, <2>1, <2>4, Zenon DEF w
    <2>7. AheadOf(e) \subseteq Ahead(wire'[e], batch'[e], Len(sent'[e]))
      BY <1>7, <1>9, <1>12, <2>1, <2>5, Zenon DEF w
    <2> QED BY <1>6, <1>7, <1>8, <1>12, <2>1, <2>6, <2>7, WriterKeeps, Zenon
  <1>13. CASE ~(cork_depth[e] > 0) /\ wire' = [wire EXCEPT ![e] = Append(w, f)] /\ batch' = batch
    <2>1. wire'[e] = Append(w, f) /\ wire'[Peer(e)] = wire[Peer(e)]
      BY <1>1, <1>5, <1>13, Writes, Zenon DEF w
    <2>2. b = << >>
      BY <1>11, <1>13, Zenon
    <2>3. FlightOK(Append(w, f), b, n + 1, cork_depth[e])
      <3>1. Rising(Items(f)) /\ Bounded(Items(f), n + 1)
        BY <1>2, <1>4, <1>5, <1>50, <1>11, NextIsLater, Zenon
      <3>2. Before(Items(f), b) /\ Rising(b) /\ Bounded(b, n + 1)
        BY <2>2, NoItems, Zenon
      <3>3. \A i \in DOMAIN w : Before(Items(w[i]), Items(f)) /\ Before(Items(w[i]), b) /\ Bounded(Items(w[i]), n + 1)
        BY <1>10, <1>50, Zenon
      <3> QED BY <1>2, <1>5, <1>8, <1>11, <3>1, <3>2, <3>3, FlightGrows, Zenon
    <2>4. Ahead(w, b, n) \subseteq Ahead(Append(w, f), b, n + 1)
      <3>1. ASSUME NEW m \in Ahead(w, b, n) PROVE Beneath(m, Items(f)) /\ Beneath(m, b)
        <4>1. m \in Nat /\ m <= n /\ Beneath(m, b)
          BY Zenon DEF Ahead
        <4>2. Beneath(m, << it >>)
          BY <1>2, <1>4, <1>5, <1>11, <4>1, NextIsLater, Zenon
        <4> QED BY <1>50, <4>1, <4>2, Zenon
      <3> QED BY <1>2, <1>4, <1>5, <3>1, AheadGrows, Zenon
    <2>5. FlightOK(wire'[e], batch'[e], Len(sent'[e]), cork_depth'[e])
      BY <1>6, <1>7, <1>13, <2>1, <2>3, Zenon DEF b
    <2>6. AheadOf(e) \subseteq Ahead(wire'[e], batch'[e], Len(sent'[e]))
      BY <1>7, <1>9, <1>13, <2>1, <2>4, Zenon DEF b
    <2> QED BY <1>6, <1>7, <1>8, <1>13, <2>1, <2>5, <2>6, WriterKeeps, Zenon
  <1> QED BY <1>6, <1>12, <1>13, Zenon

\* Nothing is in any order.
LEMMA FreshEmpty ==
  ASSUME NEW M
  PROVE  Fresh(<< >>, M)
  <1>1. DOMAIN << >> = {}
    OBVIOUS
  <1> QED BY <1>1, Zenon DEF Fresh

\* CreateChannel and the order of messages: what was kept for the id is handed over.
LEMMA CreateChannelOrders ==
  ASSUME OrderInv, IdsInv, NEW e \in End, NEW k \in Key, CreateChannel(e, k)
  PROVE  OrderInv'
  <1> DEFINE id == alloc_local_id(e)
             f == OpenFrame(id, k, Len(created[e]) + 1)
             r == IF IsAwaited(e, k) THEN PairsWith(incoming[e][k]) ELSE NoId
             rem == remote[e]
             gs == got[e]
             entry == Slot(rem, r)
             v == [rem[r] EXCEPT !.local = id, !.pending = << >>]
             M == AheadOf(Peer(e))
  <1>1. TypeOK /\ Peer(e) \in End /\ Peer(e) # e
    BY EndsBefore, PeerFacts, Zenon
  <1>2. created[e] \in Seq(Key) /\ rem \in Remotes /\ gs \in Seq(Seq(Ids))
    BY <1>1, Types, Zenon
  <1>3. id \in Ids
    <2>1. [ch |-> 1, key |-> k, remote |-> 0, opened |-> FALSE, closed |-> FALSE] \in Local
      BY DEF Local
    <2> QED BY <2>1, IdTaken, Zenon
  <1>4. f \in Frame /\ f.type \in {"open", "close"}
    BY <1>2, <1>3 DEF OpenFrame, Frame, Ids
  <1>5. /\ wire' = [wire EXCEPT ![e] = Append(wire[e], f)]
        /\ batch' = batch /\ sent' = sent /\ cork_depth' = cork_depth
        /\ \/ got' = [got EXCEPT ![e] = Append(gs, << >>)] /\ remote' = remote
           \/ /\ got' = [got EXCEPT ![e] = Append(gs, Drained(entry))]
              /\ \/ remote' = remote
                 \/ entry # None /\ remote' = [remote EXCEPT ![e] = [rem EXCEPT ![r] = v]]
    BY Zenon DEF CreateChannel
  <1>6. remote \in [End -> Remotes] /\ got \in [End -> Seq(Seq(Ids))]
    BY <1>1, Zenon DEF TypeOK, Remotes, Ids
  <1>7. ArrivedOK(rem, gs, M)
    BY OrderBefore, Zenon
  <1> HIDE DEF f, id, r, M
  <1>8. wire'[e] = Append(wire[e], f) /\ wire'[Peer(e)] = wire[Peer(e)]
    BY <1>1, <1>4, <1>5, Writes, Zenon
  <1>9. Fresh(<< >>, M) /\ Fresh(Drained(entry), M)
    <2>1. entry # None => r \in DOMAIN rem /\ rem[r] = entry
      BY Zenon DEF Slot
    <2> HIDE DEF entry, rem
    <2> QED BY <1>7, <2>1, FreshEmpty, Zenon DEF Drained, ArrivedOK
  <1>10. ASSUME NEW s, Fresh(s, M) PROVE \A ch \in DOMAIN Append(gs, s) : Fresh(Append(gs, s)[ch], M)
    <2> DEFINE g2 == Append(gs, s)
               c == Len(gs) + 1
    <2>1. DOMAIN g2 = DOMAIN gs \cup {c} /\ g2[c] = s /\ \A i \in DOMAIN gs : g2[i] = gs[i]
      BY <1>2
    <2> HIDE DEF g2, c, gs
    <2>2. \A ch \in DOMAIN g2 : Fresh(g2[ch], M)
      BY <1>7, <1>10, <2>1, Zenon DEF ArrivedOK
    <2> QED BY <2>2, Zenon DEF g2
  <1>11. got'[Peer(e)] = got[Peer(e)] /\ \A ch \in DOMAIN got'[e] : Fresh(got'[e][ch], M)
    <2> HIDE DEF entry, gs
    <2>1. PICK s : Fresh(s, M) /\ got' = [got EXCEPT ![e] = Append(gs, s)]
      BY <1>5, <1>9, Zenon
    <2>2. got'[e] = Append(gs, s) /\ got'[Peer(e)] = got[Peer(e)]
      BY <1>1, <1>6, <2>1, Zenon
    <2> QED BY <1>10, <2>1, <2>2, Zenon
  <1>12. /\ remote'[Peer(e)] = remote[Peer(e)]
         /\ \A i \in DOMAIN remote'[e] : remote'[e][i] # None => Fresh(remote'[e][i].pending, M)
    <2>1. CASE remote' = remote
      BY <1>7, <2>1, Zenon DEF ArrivedOK
    <2>2. CASE entry # None /\ remote' = [remote EXCEPT ![e] = [rem EXCEPT ![r] = v]]
      <3>1. remote'[e] = [rem EXCEPT ![r] = v] /\ remote'[Peer(e)] = remote[Peer(e)]
        <4> HIDE DEF v
        <4> QED BY <1>1, <1>6, <2>2, Zenon
      <3>2. r \in DOMAIN rem /\ rem[r] # None
        BY <2>2, Zenon DEF Slot
      <3>3. rem[r] \in Remote
        BY <1>2, <3>2 DEF Remotes
      <3>4. ASSUME NEW x \in Remote PROVE [x EXCEPT !.local = id, !.pending = << >>].pending = << >>
        BY DEF Remote
      <3>5. v.pending = << >>
        BY <3>3, <3>4, Zenon
      <3> DEFINE rem2 == [rem EXCEPT ![r] = v]
      <3> HIDE DEF v
      <3>6. DOMAIN rem2 = DOMAIN rem /\ \A i \in DOMAIN rem : rem2[i] = IF i = r THEN v ELSE rem[i]
        BY Zenon
      <3> HIDE DEF rem2, rem
      <3>7. ASSUME NEW i \in DOMAIN rem2, rem2[i] # None PROVE Fresh(rem2[i].pending, M)
        <4>1. CASE i = r
          BY <1>9, <3>5, <3>6, <4>1, Zenon
        <4>2. CASE i # r
          <5>1. i \in DOMAIN rem /\ rem2[i] = rem[i]
            BY <3>6, <4>2, Zenon
          <5> QED BY <1>7, <3>7, <5>1, Zenon DEF ArrivedOK
        <4> QED BY <4>1, <4>2, Zenon
      <3>8. remote'[e] = rem2
        BY <3>1, Zenon DEF rem2
      <3> QED BY <3>1, <3>7, <3>8, Zenon
    <2> QED BY <1>5, <2>1, <2>2, Zenon
  <1>13. ArrivedOK(remote'[e], got'[e], M)
    BY <1>11, <1>12, Zenon DEF ArrivedOK
  <1>14. /\ FlightOK(wire'[e], batch'[e], Len(sent'[e]), cork_depth'[e])
         /\ AheadOf(e) \subseteq Ahead(wire'[e], batch'[e], Len(sent'[e]))
    BY <1>1, <1>4, <1>5, <1>8, PlainFrameKeeps, Zenon
  <1> QED BY <1>5, <1>8, <1>11, <1>12, <1>13, <1>14, WriterKeeps, Zenon DEF M

----------------------------------------------------------------------------
(* Frames of the peer keep the order.                                      *)

\* What was in order stays so when the peer's wire is read.
LEMMA ReadingIsAhead ==
  ASSUME OrderInv, TypeOK, NEW e \in End, wire[Peer(e)] # << >>
  PROVE  AheadOf(Peer(e)) \subseteq Ahead(Tail(wire[Peer(e)]), batch[Peer(e)], Len(sent[Peer(e)]))
  <1>1. FlightOK(wire[Peer(e)], batch[Peer(e)], Len(sent[Peer(e)]), cork_depth[Peer(e)]) /\ Peer(e) \in End
    BY OrderBefore, Zenon
  <1>2. wire[Peer(e)] \in Frames
    BY <1>1, Types, Zenon
  <1> QED BY <1>1, <1>2, FlightReads, Zenon DEF AheadOf

\* ReceiveOpen and the order of messages: the new slot keeps nothing.
LEMMA ReceiveOpenOrders ==
  ASSUME OrderInv, IdsInv, NEW e \in End, ReceiveOpen(e)
  PROVE  OrderInv'
  <1> DEFINE p == Peer(e)
             f == Head(wire[p])
             q == outgoing[e][f.key]
             l == IF q # << >> THEN Head(q) ELSE NoId
             v == [ch |-> f.ch, local |-> l, pending |-> << >>]
             rem == remote[e]
             rem2 == SetSlot(rem, f.id, v)
             M == Ahead(Tail(wire[p]), batch[p], Len(sent[p]))
  <1>1. TypeOK /\ p \in End /\ p # e
    BY EndsBefore, PeerFacts, Zenon
  <1>2. Reads(e, "open")
    BY Zenon DEF ReceiveOpen
  <1>3. /\ up[e] /\ wire[p] # << >> /\ f.type = "open" /\ f \in Frame
        /\ wire'[p] = Tail(wire[p]) /\ wire'[e] = wire[e]
    BY <1>1, <1>2, ReadsOff, Zenon
  <1>4. f.id \in Ids /\ f.ch \in Ids /\ f.key \in Key
    BY <1>3, FrameSays, Zenon
  <1>5. rem \in Remotes /\ outgoing[e] \in [Key -> Seq(Ids)]
    BY <1>1, Types, Zenon
  <1>6. q \in Seq(Ids)
    BY <1>4, <1>5, Zenon
  <1>7. l \in Nat
    BY <1>6, FirstWaiting, Zenon
  <1>8. v \in Remote /\ v.pending = << >>
    BY <1>4, <1>7, NewRemote, Zenon
  <1>9. /\ UNCHANGED <<batch, sent, cork_depth>> /\ got' = got
        /\ remote' = remote \/ remote' = [remote EXCEPT ![e] = rem2]
    BY Zenon DEF ReceiveOpen
  <1>10. IsSet(rem, f.id, v, rem2)
    <2> DEFINE S == Remote \cup {None}
    <2>1. None \in S /\ rem \in Seq(S) /\ v \in S
      BY <1>5, <1>8, NoneIsNone, Zenon DEF Remotes
    <2> HIDE DEF S, v, rem
    <2> QED BY <1>4, <2>1, SlotIsSet, Zenon
  <1>11. remote \in [End -> Remotes]
    BY <1>1, Zenon DEF TypeOK, Remotes
  <1>12. ArrivedOK(rem, got[e], M)
    <2>1. AheadOf(p) \subseteq M
      BY <1>1, <1>3, ReadingIsAhead, Zenon
    <2>2. ArrivedOK(rem, got[e], AheadOf(p))
      BY OrderBefore, Zenon
    <2> HIDE DEF M, rem, p
    <2> QED BY <2>1, <2>2, ArrivedWider, Zenon
  <1>13. \A i \in DOMAIN rem2 : i \in Ids
    <2>1. rem2 \in Remotes
      <3> DEFINE S == Remote \cup {None}
      <3>1. None \in S /\ rem \in Seq(S) /\ v \in S /\ Seq(S) = Remotes
        BY <1>5, <1>8, NoneIsNone, Zenon DEF Remotes
      <3> HIDE DEF S, v, rem
      <3> QED BY <1>4, <3>1, SlotIsSet, Zenon
    <2> HIDE DEF rem2
    <2> QED BY <2>1 DEF Remotes, Ids
  <1> HIDE DEF v, l, q, f, rem2, M
  <1>14. ArrivedOK(rem2, got[e], M)
    <2> HIDE DEF rem
    <2>1. ASSUME NEW i \in DOMAIN rem2, rem2[i] # None PROVE Fresh(rem2[i].pending, M)
      <3>1. Slot(rem2, i) = rem2[i] /\ i \in Ids
        BY <1>13, Zenon DEF Slot
      <3>2. CASE i = f.id
        <4>1. rem2[i] = v
          BY <1>10, <3>1, <3>2, Zenon DEF IsSet
        <4> QED BY <1>8, <4>1, FreshEmpty, Zenon
      <3>3. CASE i # f.id
        <4>1. Slot(rem, i) = rem2[i]
          BY <1>10, <3>1, <3>3, Zenon DEF IsSet
        <4>2. i \in DOMAIN rem /\ rem[i] = rem2[i]
          BY <2>1, <4>1, Zenon DEF Slot
        <4> QED BY <1>12, <2>1, <4>2, Zenon DEF ArrivedOK
      <3> QED BY <3>2, <3>3, Zenon
    <2> QED BY <1>12, <2>1, Zenon DEF ArrivedOK
  <1>15. remote'[p] = remote[p] /\ ArrivedOK(remote'[e], got'[e], M)
    <2>1. CASE remote' = remote
      BY <1>9, <1>12, <2>1, Zenon
    <2>2. CASE remote' = [remote EXCEPT ![e] = rem2]
      <3>1. remote'[e] = rem2 /\ remote'[p] = remote[p]
        BY <1>1, <1>11, <2>2, Zenon
      <3> QED BY <1>9, <1>14, <3>1, Zenon
    <2> QED BY <1>9, <2>1, <2>2, Zenon
  <1>16. got'[p] = got[p]
    BY <1>9, Zenon
  <1> QED BY <1>1, <1>3, <1>9, <1>15, <1>16, ReaderKeeps, Zenon DEF M

\* ReceiveClose and the order of messages: what was kept for the id is dropped.
LEMMA ReceiveCloseOrders ==
  ASSUME OrderInv, IdsInv, NEW e \in End, ReceiveClose(e)
  PROVE  OrderInv'
  <1> DEFINE p == Peer(e)
             r == Head(wire[p]).id
             rem == remote[e]
             rem2 == [rem EXCEPT ![r] = None]
             M == Ahead(Tail(wire[p]), batch[p], Len(sent[p]))
  <1>1. TypeOK /\ p \in End /\ p # e
    BY EndsBefore, PeerFacts, Zenon
  <1>2. Reads(e, "close")
    BY Zenon DEF ReceiveClose
  <1>3. wire[p] # << >> /\ wire'[p] = Tail(wire[p]) /\ wire'[e] = wire[e]
    BY <1>1, <1>2, ReadsOff, Zenon
  <1>4. /\ UNCHANGED <<batch, sent, cork_depth>> /\ got' = got
        /\ remote' = remote \/ remote' = [remote EXCEPT ![e] = rem2]
    BY Zenon DEF ReceiveClose
  <1>5. remote \in [End -> Remotes]
    BY <1>1, Zenon DEF TypeOK, Remotes
  <1>6. ArrivedOK(rem, got[e], M)
    <2>1. AheadOf(p) \subseteq M
      BY <1>1, <1>3, ReadingIsAhead, Zenon
    <2>2. ArrivedOK(rem, got[e], AheadOf(p))
      BY OrderBefore, Zenon
    <2> HIDE DEF M, rem, p
    <2> QED BY <2>1, <2>2, ArrivedWider, Zenon
  <1> HIDE DEF M, r
  <1>7. ArrivedOK(rem2, got[e], M)
    <2> HIDE DEF rem
    <2>1. ASSUME NEW i \in DOMAIN rem2, rem2[i] # None PROVE i \in DOMAIN rem /\ rem2[i] = rem[i]
      BY <2>1, Zenon
    <2> HIDE DEF rem2
    <2>2. ASSUME NEW i \in DOMAIN rem2, rem2[i] # None PROVE Fresh(rem2[i].pending, M)
      BY <1>6, <2>1, <2>2, Zenon DEF ArrivedOK
    <2> QED BY <1>6, <2>2, Zenon DEF ArrivedOK
  <1> HIDE DEF rem2
  <1>8. remote'[p] = remote[p] /\ ArrivedOK(remote'[e], got'[e], M)
    <2>1. CASE remote' = remote
      BY <1>4, <1>6, <2>1, Zenon
    <2>2. CASE remote' = [remote EXCEPT ![e] = rem2]
      <3>1. remote'[e] = rem2 /\ remote'[p] = remote[p]
        BY <1>1, <1>5, <2>2, Zenon
      <3> QED BY <1>4, <1>7, <3>1, Zenon
    <2> QED BY <1>4, <2>1, <2>2, Zenon
  <1>9. got'[p] = got[p]
    BY <1>4, Zenon
  <1> QED BY <1>1, <1>3, <1>4, <1>8, <1>9, ReaderKeeps, Zenon DEF M

\* Messages are numbers.
LEMMA MessagesAreNumbers ==
  ASSUME NEW items \in Seq(Item), NEW j \in DOMAIN items
  PROVE  items[j].msg \in Nat
  <1>1. items[j] \in Item
    OBVIOUS
  <1> QED BY <1>1 DEF Item

\* The messages of the first frame are later than all that arrived before it, and
\* before all that is still to come.
LEMMA DispatchAllOrders ==
  ASSUME OrderInv, IdsInv, NEW e \in End, NEW type, Reads(e, type),
         DispatchAll(e, Items(Head(wire[Peer(e)]))), UNCHANGED <<batch, sent, cork_depth>>
  PROVE  OrderInv'
  <1> DEFINE p == Peer(e)
             w == wire[p]
             b == batch[p]
             n == Len(sent[p])
             items == Items(Head(w))
             st == [remote |-> remote[e], got |-> got[e]]
             res == Dispatched(st, items, local[e])
             M0 == Ahead(w, b, n)
             M == Ahead(Tail(w), b, n)
  <1>1. TypeOK /\ p \in End /\ p # e
    BY EndsBefore, PeerFacts, Zenon
  <1>2. w # << >> /\ Head(w) \in Frame /\ wire'[p] = Tail(w) /\ wire'[e] = wire[e]
    BY <1>1, ReadsOff, Zenon
  <1>3. remote[e] \in Remotes /\ w \in Frames /\ got[e] \in Seq(Seq(Ids)) /\ sent[p] \in Seq(Ids)
    BY <1>1, Types, Zenon
  <1>4. remote \in [End -> Remotes] /\ got \in [End -> Seq(Seq(Ids))]
    BY <1>1, Zenon DEF TypeOK, Remotes, Ids
  <1>5. st \in States /\ st.remote = remote[e] /\ st.got = got[e]
    BY <1>3 DEF States
  <1>6. remote' = [remote EXCEPT ![e] = res.remote] /\ got' = [got EXCEPT ![e] = res.got]
    BY Zenon DEF DispatchAll
  <1>7. FlightOK(w, b, n, cork_depth[p]) /\ ArrivedOK(remote[e], got[e], M0)
    BY OrderBefore, Zenon DEF AheadOf
  <1>8. items \in Seq(Item)
    BY <1>2, ItemsType, Zenon
  <1>9. /\ Rising(items) /\ Before(items, b) /\ Bounded(items, n) /\ M0 \subseteq M
        /\ \A i \in DOMAIN Tail(w) : Before(items, Items(Tail(w)[i]))
        /\ \A m \in M0 : Beneath(m, items)
    <2> HIDE DEF w, b, n
    <2> QED BY <1>2, <1>3, <1>7, FlightReads, Zenon
  <1> HIDE DEF st, items, w, b, n
  <1>10. \A j \in DOMAIN items : items[j].msg \in M
    <2> SUFFICES ASSUME NEW j \in DOMAIN items PROVE items[j].msg \in M
      BY Zenon
    <2>1. items[j].msg \in Nat
      BY <1>8, MessagesAreNumbers, Zenon
    <2>2. items[j].msg <= n /\ Beneath(items[j].msg, b)
      BY <1>9, Zenon DEF Bounded, Before, Beneath
    <2>3. \A i \in DOMAIN Tail(w) : Beneath(items[j].msg, Items(Tail(w)[i]))
      BY <1>9, Zenon DEF Before, Beneath
    <2> QED BY <2>1, <2>2, <2>3, Zenon DEF Ahead
  <1> HIDE DEF M, M0
  <1>11. ArrivedOK(st.remote, st.got, M0)
    BY <1>5, <1>7, Zenon
  <1>12. ArrivedOK(res.remote, res.got, M)
    BY <1>5, <1>8, <1>9, <1>10, <1>11, DispatchedFresh, Zenon
  <1> HIDE DEF res
  <1>13. /\ remote'[e] = res.remote /\ remote'[p] = remote[p]
         /\ got'[e] = res.got /\ got'[p] = got[p]
    BY <1>1, <1>4, <1>6, Zenon
  <1>14. ArrivedOK(remote'[e], got'[e], M)
    BY <1>12, <1>13, Zenon
  <1> QED BY <1>1, <1>2, <1>13, <1>14, ReaderKeeps, Zenon DEF M, w, b, n

\* ReceiveMessage and ReceiveBatch and the order of messages.
LEMMA ReceiveMessagesOrder ==
  ASSUME OrderInv, IdsInv, NEW e \in End, ReceiveMessage(e) \/ ReceiveBatch(e)
  PROVE  OrderInv'
  <1> DEFINE f == Head(wire[Peer(e)])
  <1>1. CASE ReceiveMessage(e)
    <2>1. Reads(e, "message") /\ UNCHANGED <<batch, sent, cork_depth>> /\ DispatchAll(e, << [id |-> f.id, msg |-> f.msg] >>)
      BY <1>1, Zenon DEF ReceiveMessage
    <2>2. f.type = "message"
      BY <2>1, Zenon DEF Reads
    <2>3. Items(f) = << [id |-> f.id, msg |-> f.msg] >>
      BY <2>2, Zenon DEF Items
    <2>4. DispatchAll(e, Items(f))
      BY <2>1, <2>3, Zenon
    <2> QED BY <2>1, <2>4, DispatchAllOrders, Zenon
  <1>2. CASE ReceiveBatch(e)
    <2>1. Reads(e, "batch") /\ UNCHANGED <<batch, sent, cork_depth>> /\ DispatchAll(e, f.items)
      BY <1>2, Zenon DEF ReceiveBatch
    <2>2. f.type = "batch"
      BY <2>1, Zenon DEF Reads
    <2>3. "batch" # "message"
      OBVIOUS
    <2>4. Items(f) = f.items
      BY <2>2, <2>3, Zenon DEF Items
    <2>5. DispatchAll(e, Items(f))
      BY <2>1, <2>4, Zenon
    <2> QED BY <2>1, <2>5, DispatchAllOrders, Zenon
  <1> QED BY <1>1, <1>2, Zenon

\* At the start nothing is sent.
LEMMA OrderStart ==
  ASSUME Init
  PROVE  OrderInv
  <1>1. DOMAIN << >> = {}
    OBVIOUS
  <1>2. ASSUME NEW n, NEW cork PROVE FlightOK(<< >>, << >>, n, cork)
    BY <1>1, NoItems, Zenon DEF FlightOK
  <1>3. ASSUME NEW M PROVE ArrivedOK(<< >>, << >>, M)
    BY <1>1, Zenon DEF ArrivedOK
  <1> SUFFICES ASSUME NEW e \in End
               PROVE  /\ FlightOK(wire[e], batch[e], Len(sent[e]), cork_depth[e])
                      /\ ArrivedOK(remote[e], got[e], Ahead(wire[Peer(e)], batch[Peer(e)], Len(sent[Peer(e)])))
    BY Zenon DEF OrderInv
  <1>4. wire[e] = << >> /\ batch[e] = << >> /\ remote[e] = << >> /\ got[e] = << >>
    BY Zenon DEF Init
  <1> QED BY <1>2, <1>3, <1>4, Zenon

\* The order of messages, on the wire and off it, holds in every state.
THEOREM OrderInvariance == Spec => []OrderInv
  <1>1. Init => OrderInv
    BY OrderStart, Zenon
  <1>2. IdsInv /\ OrderInv /\ [Next]_vars => OrderInv'
    <2> SUFFICES ASSUME IdsInv, OrderInv, [Next]_vars PROVE OrderInv'
      OBVIOUS
    <2>1. CASE UNCHANGED vars
      BY <2>1, Zenon DEF vars, OrderInv
    <2>2. CASE Next
      <3>1. PICK e \in End :
                \/ \E k \in Key : CreateChannel(e, k)
                \/ \E h \in handles[e] : SendMessage(e, h)
                \/ \E h \in handles[e] : CloseChannel(e, h)
                \/ Cork(e) \/ Uncork(e) \/ ReceiveOpen(e) \/ ReceiveClose(e)
                \/ ReceiveMessage(e) \/ ReceiveBatch(e) \/ Shutdown(e)
        BY <2>2, Zenon DEF Next
      <3> QED BY <3>1, CreateChannelOrders, SendMessageOrders, CloseChannelOrders, CorkOrders, UncorkOrders,
                 ReceiveOpenOrders, ReceiveCloseOrders, ReceiveMessagesOrder, Zenon
    <2> QED BY <2>1, <2>2
  <1> QED BY <1>1, <1>2, IdsInvariance, PTL DEF Spec

\* A channel is handed its peer's messages in the order they were sent, and none
\* twice, by handle_message, handle_batch or from what create_channel_internal drains.
THEOREM MessagesInOrder == Spec => []InOrder
  <1>1. OrderInv => InOrder
    BY Zenon DEF OrderInv, ArrivedOK, Fresh, InOrder
  <1> QED BY <1>1, OrderInvariance, PTL

=============================================================================
