---------------------------- MODULE RecordProofs ----------------------------
(***************************************************************************)
(* About the records the DHT keeps: theorems on what the chat's records    *)
(* keep of what was written, and the lemmas the proofs about HyperStore    *)
(* rest on - the caches of Persistent, operation by operation, the         *)
(* handlers and queries that use them, the calls of clients and their      *)
(* requests under way.                                                     *)
(***************************************************************************)
EXTENDS HyperStore, ChatWire, FiniteSetTheorems, WellFoundedInduction, TLAPS

----------------------------------------------------------------------------
(* What the chat's records keep of what was written, for texts and lists   *)
(* of every length.                                                        *)

\* A length up to 255 survives the cast to u8.
LEMMA ByteKeeps == \A n \in Nat : n <= 255 => U8(n) = n
BY DEF U8

\* A longer one does not.
LEMMA ByteLoses == \A n \in Nat : n > 255 => U8(n) # n
BY DEF U8

\* A length up to 65535 survives the cast to u16.
LEMMA WordKeeps == \A n \in Nat : n <= 65535 => U16(n) = n
BY DEF U16

(***************************************************************************)
(* A message that prepare_one accepts is read as it was written, if the    *)
(* author's name has at most 255 bytes.                                    *)
(***************************************************************************)
THEOREM MessagesReadBack ==
    ASSUME NEW e \in MessageEnvelope, MessageFits(e), e.name <= 255
    PROVE  EnvelopeReads(EnvelopeWritten(e)) = {[ok |-> TRUE, name |-> e.name, content |-> e.content]}
<1> DEFINE w == EnvelopeWritten(e)
<1>1. e.name \in Nat /\ e.content \in Nat /\ e.content <= 65535
  BY DEF MessageEnvelope, MessageFits, Sealed, MAX_RECORD_SIZE
<1>2. w.len1 = e.name /\ w.text1 = e.name /\ w.len2 = e.content /\ w.size = 140 + e.name + e.content
  BY <1>1, ByteKeeps, WordKeeps DEF EnvelopeWritten
<1> HIDE DEF w
<1>3. SecondLength(w) = {e.content}
  BY <1>2 DEF SecondLength
<1>4. EnvelopeReads(w) = {EnvelopeRead(w, e.content)}
  BY <1>1, <1>2, <1>3 DEF EnvelopeReads
<1>5. EnvelopeRead(w, e.content) = [ok |-> TRUE, name |-> e.name, content |-> e.content]
  BY <1>1, <1>2 DEF EnvelopeRead
<1> QED
  BY <1>4, <1>5 DEF w

(***************************************************************************)
(* Whatever its content: with a name of more than 255 bytes no message is  *)
(* read as it was written, although prepare_one accepts it.                *)
(***************************************************************************)
THEOREM LongNamesAreLost ==
    ASSUME NEW e \in MessageEnvelope, e.name > 255
    PROVE  [ok |-> TRUE, name |-> e.name, content |-> e.content] \notin EnvelopeReads(EnvelopeWritten(e))
<1> DEFINE w == EnvelopeWritten(e)
<1>1. w.len1 # e.name
  BY ByteLoses DEF EnvelopeWritten, MessageEnvelope
<1> HIDE DEF w
<1>2. \A n : EnvelopeRead(w, n) # [ok |-> TRUE, name |-> e.name, content |-> e.content]
  <2> SUFFICES ASSUME NEW n PROVE EnvelopeRead(w, n) # [ok |-> TRUE, name |-> e.name, content |-> e.content]
    OBVIOUS
  <2>1. EnvelopeRead(w, n).ok => EnvelopeRead(w, n).name = w.len1
    BY DEF EnvelopeRead, Error
  <2> QED
    BY <1>1, <2>1
<1>3. Error # [ok |-> TRUE, name |-> e.name, content |-> e.content]
  <2>1. Error.ok = FALSE
    BY DEF Error
  <2> QED
    BY <2>1
<1>4. \A r \in EnvelopeReads(w) : r = Error \/ \E n : r = EnvelopeRead(w, n)
  BY DEF EnvelopeReads
<1> QED
  BY <1>2, <1>3, <1>4 DEF w

(***************************************************************************)
(* A message of which the end is missing is refused, wherever it is cut.   *)
(***************************************************************************)
THEOREM CutMessagesAreRefused ==
    ASSUME NEW e \in MessageEnvelope, MessageFits(e), e.name <= 255,
           NEW size \in Nat, size < 140 + e.name + e.content
    PROVE  EnvelopeReads([EnvelopeWritten(e) EXCEPT !.size = size]) = {Error}
<1> DEFINE w == [EnvelopeWritten(e) EXCEPT !.size = size]
<1>1. e.name \in Nat /\ e.content \in Nat /\ e.content <= 65535
  BY DEF MessageEnvelope, MessageFits, Sealed, MAX_RECORD_SIZE
<1>2. w.len1 = e.name /\ w.text1 = e.name /\ w.len2 = e.content /\ w.size = size
  BY <1>1, ByteKeeps, WordKeeps DEF EnvelopeWritten
<1> HIDE DEF w
<1>3. SecondLength(w) = {e.content}
  BY <1>2 DEF SecondLength
<1>4. EnvelopeRead(w, e.content) = Error
  BY <1>1, <1>2 DEF EnvelopeRead
<1> QED
  BY <1>3, <1>4 DEF EnvelopeReads, w

(***************************************************************************)
(* What an author signs tells the name from the content, although only the *)
(* name's length is signed, and only a byte of it: two messages with names *)
(* of at most 255 bytes that agree on it split their bytes alike.          *)
(***************************************************************************)
THEOREM SignatureSplits ==
    ASSUME NEW d \in MessageEnvelope, NEW e \in MessageEnvelope, d.name <= 255, e.name <= 255,
           MsgSignable(d) = MsgSignable(e)
    PROVE  d.name = e.name /\ d.content = e.content
<1>1. U8(d.name) = d.name /\ U8(e.name) = e.name
  BY ByteKeeps DEF MessageEnvelope
<1>2. MsgSignable(d).len = U8(d.name) /\ MsgSignable(e).len = U8(e.name)
  BY DEF MsgSignable
<1>3. MsgSignable(d).texts = d.name + d.content /\ MsgSignable(e).texts = e.name + e.content
  BY DEF MsgSignable
<1> QED
  BY <1>1, <1>2, <1>3 DEF MessageEnvelope

(***************************************************************************)
(* A feed record holds up to 26 hashes and a summary block up to 27: they  *)
(* are read as they were written, and longer lists are refused when they   *)
(* are written, so that the byte that counts them never overflows.         *)
(***************************************************************************)
THEOREM HashesReadBack ==
    ASSUME NEW S, NEW hashes \in Seq(S), NEW fixed \in {FEED_FIXED, SUMMARY_FIXED}
    PROVE  LET w == HashesWritten(fixed, hashes)
           IN  IF Len(hashes) <= (IF fixed = FEED_FIXED THEN 26 ELSE 27)
               THEN HashesRead(fixed, w) = [ok |-> TRUE, hashes |-> hashes]
               ELSE w = Error
<1> DEFINE w == HashesWritten(fixed, hashes)
           most == IF fixed = FEED_FIXED THEN 26 ELSE 27
<1>1. Len(hashes) \in Nat /\ fixed \in Nat
  BY DEF FEED_FIXED, SUMMARY_FIXED
<1>2. (fixed + 32 * Len(hashes) <= MAX_RECORD_SIZE) <=> Len(hashes) <= most
  BY <1>1 DEF FEED_FIXED, SUMMARY_FIXED, MAX_RECORD_SIZE
<1>3. CASE Len(hashes) <= most
  <2>1. U8(Len(hashes)) = Len(hashes)
    BY <1>1, <1>3, ByteKeeps
  <2>2. w = [ok |-> TRUE, size |-> fixed + 32 * Len(hashes), count |-> Len(hashes), hashes |-> hashes]
    BY <1>1, <1>2, <1>3, <2>1 DEF HashesWritten, MAX_RECORD_SIZE
  <2> HIDE DEF w
  <2>3. SubSeq(hashes, 1, Len(hashes)) = hashes
    OBVIOUS
  <2>4. w.size = fixed + 32 * Len(hashes) /\ w.count = Len(hashes) /\ w.hashes = hashes
    BY <2>2
  <2>5. HashesRead(fixed, w) = [ok |-> TRUE, hashes |-> hashes]
    <3>1. ~(w.size < fixed) /\ ~(w.size < fixed + 32 * w.count)
      BY <1>1, <2>4
    <3>2. SubSeq(w.hashes, 1, w.count) = hashes
      BY <2>3, <2>4, Zenon
    <3> QED
      BY <3>1, <3>2, Zenon DEF HashesRead
  <2> QED
    BY <1>3, <2>5 DEF w
<1>4. CASE ~(Len(hashes) <= most)
  <2>1. w = Error
    BY <1>1, <1>2, <1>4 DEF HashesWritten, MAX_RECORD_SIZE
  <2> QED
    BY <1>4, <2>1
<1> QED
  BY <1>3, <1>4

(***************************************************************************)
(* A nudge is never too large for its record, whatever the message.        *)
(***************************************************************************)
THEOREM NudgesFit ==
    ASSUME NEW text \in Nat
    PROVE  /\ InviteFits(NudgePayload(text))
           /\ InviteRead(InviteWritten(NudgePayload(text))) = [ok |-> TRUE, payload |-> NudgePayload(text)]
<1> DEFINE p == NudgePayload(text)
<1>1. p \in Nat /\ p <= 800
  BY DEF NudgePayload
<1> HIDE DEF p
<1>2. InviteWritten(p) = [ok |-> TRUE, size |-> 131 + p, len |-> p]
  <2>1. U16(p) = p
    BY <1>1, WordKeeps
  <2>2. ~(131 + p > MAX_RECORD_SIZE)
    BY <1>1 DEF MAX_RECORD_SIZE
  <2> QED
    BY <2>1, <2>2, Zenon DEF InviteWritten
<1>3. InviteFits(p)
  BY <1>1, <1>2 DEF InviteFits, Sealed, MAX_RECORD_SIZE
<1>4. InviteRead(InviteWritten(p)) = [ok |-> TRUE, payload |-> p]
  BY <1>1, <1>2 DEF InviteRead
<1> QED
  BY <1>3, <1>4 DEF p

----------------------------------------------------------------------------
(* Picking elements of a sequence (Only).                                  *)

\* What holds at 0 and is handed on holds up to N.
LEMMA UpTo ==
  ASSUME NEW N \in Nat, NEW G, 0 \in G, \A n \in 1 .. N : n - 1 \in G => n \in G
  PROVE  \A n \in 0 .. N : n \in G
  <1> SUFFICES ASSUME NEW k \in 0 .. N, k \notin G PROVE FALSE
    BY Zenon
  <1> DEFINE B == {n \in Nat : n <= N /\ n \notin G}
  <1>1. k \in B
    OBVIOUS
  <1>2. B \subseteq Nat /\ B # {}
    BY <1>1, Zenon
  <1>3. PICK n \in B : \A y \in B : ~(<<y, n>> \in OpToRel(<, Nat))
    BY <1>2, NatLessThanWellFounded, WFMin, Zenon
  <1>4. n \in Nat /\ n <= N /\ n \notin G
    BY Zenon
  <1>5. n # 0
    BY <1>4, Zenon
  <1>6. n \in 1 .. N /\ n - 1 \in Nat /\ n - 1 <= N /\ n - 1 < n
    BY <1>4, <1>5
  <1>7. n - 1 \notin G
    BY <1>4, <1>6, Zenon
  <1>8. n - 1 \in B
    BY <1>6, <1>7, Zenon
  <1>9. <<n - 1, n>> \in OpToRel(<, Nat)
    BY <1>4, <1>6, Zenon DEF OpToRel
  <1> QED BY <1>3, <1>8, <1>9, Zenon

\* The elements picked so far.
Picks(g, s, I) ==
    /\ g[0] = <<>>
    /\ \A n \in 1 .. Len(s) : g[n] = IF n \in I THEN Append(g[n - 1], s[n]) ELSE g[n - 1]
    /\ Only(s, I) = g[Len(s)]

\* Only picks element after element.
LEMMA OnlyPicks ==
  ASSUME NEW s, NEW I, Len(s) \in Nat
  PROVE  \E g : Picks(g, s, I)
  <1> DEFINE N == Len(s)
             P(t, n) == IF n \in I THEN Append(t, s[n]) ELSE t
             F(g) == [n \in 0 .. N |-> IF n = 0 THEN <<>>
                                       ELSE IF n \in I THEN Append(g[n - 1], s[n]) ELSE g[n - 1]]
             Upto(m, f) == /\ f[0] = <<>>
                           /\ \A n \in 1 .. m : f[n] = P(f[n - 1], n)
             G == {m \in Nat : \E f : Upto(m, f)}
  <1>1. 0 \in G
    <2>1. \A n \in 1 .. 0 : FALSE
      OBVIOUS
    <2>2. [n \in {0} |-> <<>>][0] = <<>>
      OBVIOUS
    <2> HIDE DEF P
    <2>3. Upto(0, [n \in {0} |-> <<>>])
      BY <2>1, <2>2, Zenon
    <2> QED BY <2>3, Zenon
  <1>2. ASSUME NEW m \in 1 .. N, m - 1 \in G PROVE m \in G
    <2> HIDE DEF P
    <2>1. PICK f : Upto(m - 1, f)
      BY <1>2, Zenon
    <2> DEFINE h == [n \in 0 .. m |-> IF n = m THEN P(f[m - 1], m) ELSE f[n]]
    <2>2. m \in Nat /\ 0 \in 0 .. m /\ 0 # m /\ m \in 0 .. m /\ m - 1 \in 0 .. m /\ m - 1 # m
      OBVIOUS
    <2>3. \A n \in 1 .. m : n \in 0 .. m /\ n - 1 \in 0 .. m /\ n - 1 # m /\ (n # m => n \in 1 .. m - 1)
      OBVIOUS
    <2>4. h[0] = <<>>
      BY <2>1, <2>2, Zenon
    <2>5. ASSUME NEW n \in 1 .. m PROVE h[n] = P(h[n - 1], n)
      <3>1. h[n - 1] = f[n - 1]
        BY <2>3, Zenon
      <3>2. CASE n = m
        BY <2>2, <3>1, <3>2, Zenon
      <3>3. CASE n # m
        <4>1. h[n] = f[n] /\ n \in 1 .. m - 1
          BY <2>3, <3>3, Zenon
        <4> QED BY <2>1, <3>1, <4>1, Zenon
      <3> QED BY <3>2, <3>3, Zenon
    <2>6. Upto(m, h)
      BY <2>4, <2>5, Zenon
    <2> QED BY <2>2, <2>6, Zenon
  <1>3. N \in G
    <2>1. N \in 0 .. N
      OBVIOUS
    <2> HIDE DEF G, N
    <2>2. N \in Nat
      BY DEF N
    <2> QED BY <1>1, <1>2, <2>1, <2>2, UpTo, Zenon
  <1>4. PICK f : Upto(N, f)
    BY <1>3, Zenon
  <1> DEFINE a == [n \in 0 .. N |-> f[n]]
  <1>5. \A n \in 0 .. N : n # 0 => n \in 1 .. N /\ n - 1 \in 0 .. N
    OBVIOUS
  <1>6. 0 \in 0 .. N /\ N \in 0 .. N /\ \A n \in 1 .. N : n \in 0 .. N /\ n # 0
    OBVIOUS
  <1>7. \A n \in 0 .. N : a[n] = IF n = 0 THEN <<>>
                                 ELSE IF n \in I THEN Append(a[n - 1], s[n]) ELSE a[n - 1]
    BY <1>4, <1>5, Zenon
  <1>8. a = F(a)
    BY <1>7, Zenon
  <1> DEFINE c == CHOOSE g : g = F(g)
  <1>9. c = F(c)
    <2> HIDE DEF F
    <2> QED BY <1>8, Zenon
  <1>10. Only(s, I) = c[N]
    BY Zenon DEF Only
  <1>11. /\ c[0] = <<>>
         /\ \A n \in 1 .. N : c[n] = IF n \in I THEN Append(c[n - 1], s[n]) ELSE c[n - 1]
    <2> HIDE DEF c
    <2> QED BY <1>6, <1>9, Zenon
  <1> HIDE DEF c, N
  <1> QED BY <1>10, <1>11, Zenon DEF N, Picks

\* f leads from the elements of t to the places of I that they are at in s.
Placed(f, s, I, t, n) ==
    /\ \A i \in 1 .. Len(t) : f[i] \in 1 .. n /\ f[i] \in I /\ t[i] = s[f[i]]
    /\ \A i, j \in 1 .. Len(t) : i < j => f[i] < f[j]
    /\ \A m \in 1 .. n : m \in I => \E i \in 1 .. Len(t) : f[i] = m

\* One more place is taken in.
LEMMA PlacedNext ==
  ASSUME NEW S, NEW t \in Seq(S), NEW f, NEW s, NEW I, NEW n \in Nat, n # 0, n \in I, s[n] \in S,
         Placed(f, s, I, t, n - 1)
  PROVE  \E h : Placed(h, s, I, Append(t, s[n]), n)
  <1> DEFINE L == Len(t)
             u == Append(t, s[n])
             h == [i \in 1 .. L + 1 |-> IF i = L + 1 THEN n ELSE f[i]]
  <1>1. L \in Nat /\ Len(u) = L + 1 /\ u[L + 1] = s[n] /\ \A i \in 1 .. L : u[i] = t[i]
    OBVIOUS
  <1>2. \A i \in 1 .. L + 1 : i = L + 1 \/ i \in 1 .. L
    BY <1>1
  <1>3. \A i \in 1 .. L : i \in 1 .. L + 1 /\ i # L + 1
    BY <1>1
  <1>4. L + 1 \in 1 .. L + 1 /\ n \in 1 .. n
    BY <1>1
  <1>5. h[L + 1] = n /\ \A i \in 1 .. L : h[i] = f[i]
    BY <1>3, <1>4, Zenon
  <1>6. /\ \A i \in 1 .. L : f[i] \in 1 .. n - 1 /\ f[i] \in I /\ t[i] = s[f[i]]
        /\ \A i, j \in 1 .. L : i < j => f[i] < f[j]
        /\ \A m \in 1 .. n - 1 : m \in I => \E i \in 1 .. L : f[i] = m
    BY Zenon DEF Placed
  <1>7. \A x \in 1 .. n - 1 : x \in 1 .. n /\ x < n
    OBVIOUS
  <1> HIDE DEF h, u, L
  <1>8. \A i \in 1 .. L + 1 : h[i] \in 1 .. n /\ h[i] \in I /\ u[i] = s[h[i]]
    BY <1>1, <1>2, <1>4, <1>5, <1>6, <1>7, Zenon
  <1>9. ASSUME NEW i \in 1 .. L + 1, NEW j \in 1 .. L + 1, i < j PROVE h[i] < h[j]
    <2>1. i \in 1 .. L
      BY <1>1, <1>9
    <2>2. CASE j = L + 1
      BY <1>5, <1>6, <1>7, <2>1, <2>2, Zenon
    <2>3. CASE j \in 1 .. L
      BY <1>5, <1>6, <1>9, <2>1, <2>3, Zenon
    <2> QED BY <1>2, <2>2, <2>3, Zenon
  <1>10. ASSUME NEW m \in 1 .. n, m \in I PROVE \E i \in 1 .. L + 1 : h[i] = m
    <2>1. m = n \/ m \in 1 .. n - 1
      OBVIOUS
    <2>2. CASE m = n
      BY <1>4, <1>5, <2>2, Zenon
    <2>3. CASE m \in 1 .. n - 1
      <3>1. PICK i \in 1 .. L : f[i] = m
        BY <1>6, <1>10, <2>3, Zenon
      <3> QED BY <1>3, <1>5, <3>1, Zenon
    <2> QED BY <2>1, <2>2, <2>3, Zenon
  <1>11. Placed(h, s, I, u, n)
    BY <1>1, <1>8, <1>9, <1>10, Zenon DEF Placed
  <1> QED BY <1>11, Zenon DEF u

\* A place that is left out changes nothing.
LEMMA PlacedSame ==
  ASSUME NEW t, NEW f, NEW s, NEW I, NEW n \in Nat, n # 0, n \notin I, Placed(f, s, I, t, n - 1)
  PROVE  Placed(f, s, I, t, n)
  <1>1. \A x \in 1 .. n - 1 : x \in 1 .. n
    OBVIOUS
  <1>2. \A x \in 1 .. n : x = n \/ x \in 1 .. n - 1
    OBVIOUS
  <1> QED BY <1>1, <1>2, Zenon DEF Placed

\* What Only returns: the elements at I, as many as there are places.
LEMMA OnlyIs ==
  ASSUME NEW S, NEW s \in Seq(S), NEW I
  PROVE  /\ Only(s, I) \in Seq(S)
         /\ Len(Only(s, I)) = Cardinality({i \in 1 .. Len(s) : i \in I})
         /\ \E f : Placed(f, s, I, Only(s, I), Len(s))
  <1> DEFINE N == Len(s)
             J(n) == {i \in 1 .. n : i \in I}
             Q(n, t) == t \in Seq(S) /\ Len(t) = Cardinality(J(n)) /\ \E f : Placed(f, s, I, t, n)
  <1>0. N \in Nat /\ N \in 0 .. N /\ \A n \in 1 .. N : n \in Nat /\ n # 0 /\ n - 1 \in Nat /\ s[n] \in S
    OBVIOUS
  <1>1. PICK g : Picks(g, s, I)
    BY <1>0, OnlyPicks, Zenon
  <1> DEFINE G == {n \in Nat : Q(n, g[n])}
  <1>2. 0 \in G
    <2>1. J(0) = {} /\ <<>> \in Seq(S) /\ Len(<<>>) = 0 /\ 0 \in Nat
      OBVIOUS
    <2>2. Cardinality(J(0)) = 0
      BY <2>1, FS_EmptySet, Zenon
    <2>3. 1 .. Len(<<>>) = {} /\ 1 .. 0 = {}
      OBVIOUS
    <2>4. Placed(<<>>, s, I, <<>>, 0)
      BY <2>3, Zenon DEF Placed
    <2>5. g[0] = <<>>
      BY <1>1, Zenon DEF Picks
    <2>6. Q(0, g[0])
      BY <2>1, <2>2, <2>4, <2>5, Zenon
    <2> QED BY <2>1, <2>6, Zenon
  <1>3. ASSUME NEW n \in 1 .. N, n - 1 \in G PROVE n \in G
    <2>1. Q(n - 1, g[n - 1])
      BY <1>3, Zenon
    <2>2. PICK f : Placed(f, s, I, g[n - 1], n - 1)
      BY <2>1, Zenon
    <2>3. g[n] = IF n \in I THEN Append(g[n - 1], s[n]) ELSE g[n - 1]
      BY <1>1, Zenon DEF Picks
    <2>4. CASE n \in I
      <3>1. g[n] = Append(g[n - 1], s[n])
        BY <2>3, <2>4, Zenon
      <3>2. \E h : Placed(h, s, I, g[n], n)
        BY <1>0, <2>1, <2>2, <2>4, <3>1, PlacedNext, Zenon
      <3>3. J(n) = J(n - 1) \cup {n} /\ n \notin J(n - 1)
        BY <1>0, <2>4
      <3>4. IsFiniteSet(J(n - 1))
        <4>1. 1 \in Int /\ n - 1 \in Int
          BY <1>0
        <4>2. IsFiniteSet(1 .. n - 1) /\ J(n - 1) \subseteq 1 .. n - 1
          BY <4>1, FS_Interval, Zenon
        <4> QED BY <4>2, FS_Subset, Zenon
      <3>5. Cardinality(J(n)) = Cardinality(J(n - 1)) + 1
        BY <3>3, <3>4, FS_AddElement, Zenon
      <3>6. g[n] \in Seq(S) /\ Len(g[n]) = Len(g[n - 1]) + 1
        BY <1>0, <2>1, <3>1
      <3>7. Q(n, g[n])
        BY <2>1, <3>2, <3>5, <3>6, Zenon
      <3> QED BY <1>0, <3>7, Zenon
    <2>5. CASE n \notin I
      <3>1. g[n] = g[n - 1]
        BY <2>3, <2>5, Zenon
      <3>2. J(n) = J(n - 1)
        BY <1>0, <2>5
      <3>3. Placed(f, s, I, g[n], n)
        BY <1>0, <2>2, <2>5, <3>1, PlacedSame, Zenon
      <3>4. Q(n, g[n])
        BY <2>1, <3>1, <3>2, <3>3, Zenon
      <3> QED BY <1>0, <3>4, Zenon
    <2> QED BY <2>4, <2>5, Zenon
  <1>4. N \in G
    <2> HIDE DEF G, N
    <2> QED BY <1>0, <1>2, <1>3, UpTo, Zenon
  <1>5. Only(s, I) = g[N]
    BY <1>1, Zenon DEF Picks
  <1> QED BY <1>4, <1>5, Zenon

----------------------------------------------------------------------------
(* Records by topic.                                                       *)

\* The places of a sequence are the numbers up to its length.
LEMMA SeqPlaces ==
  ASSUME NEW s, IsSeq(s)
  PROVE  Len(s) \in Nat /\ DOMAIN s = 1 .. Len(s)
  BY DEF IsSeq

\* A sequence of anything is a sequence of its elements.
LEMMA SeqIs ==
  ASSUME NEW S, NEW s \in Seq(S)
  PROVE  IsSeq(s)
  <1>1. Len(s) \in Nat /\ DOMAIN s = 1 .. Len(s) /\ s = [i \in 1 .. Len(s) |-> s[i]]
    OBVIOUS
  <1>2. \A i \in 1 .. Len(s) : s[i] \in Range(s)
    BY <1>1, Zenon DEF Range
  <1> QED BY <1>1, <1>2 DEF IsSeq

\* A sequence and one more.
LEMMA SeqAppend ==
  ASSUME NEW s, IsSeq(s), NEW x
  PROVE  /\ IsSeq(Append(s, x)) /\ Len(Append(s, x)) = Len(s) + 1
         /\ Append(s, x)[Len(s) + 1] = x
         /\ \A i \in 1 .. Len(s) : Append(s, x)[i] = s[i]
  <1> DEFINE S == Range(s) \cup {x}
  <1>1. s \in Seq(S)
    <2>1. s \in Seq(Range(s))
      BY Zenon DEF IsSeq
    <2> HIDE DEF S
    <2>2. Range(s) \subseteq S
      BY Zenon DEF S
    <2> QED BY <2>1, <2>2
  <1>2. x \in S
    OBVIOUS
  <1> HIDE DEF S
  <1>3. /\ Append(s, x) \in Seq(S) /\ Len(Append(s, x)) = Len(s) + 1
        /\ Append(s, x)[Len(s) + 1] = x
        /\ \A i \in 1 .. Len(s) : Append(s, x)[i] = s[i]
    BY <1>1, <1>2
  <1> QED BY <1>3, SeqIs, Zenon

\* The elements at I are a sequence no longer than s, in the order of s.
LEMMA OnlySeq ==
  ASSUME NEW s, IsSeq(s), NEW I
  PROVE  /\ IsSeq(Only(s, I))
         /\ Len(Only(s, I)) \in Nat /\ Len(Only(s, I)) <= Len(s)
         /\ Len(Only(s, I)) = Cardinality({i \in 1 .. Len(s) : i \in I})
         /\ \E f : Placed(f, s, I, Only(s, I), Len(s))
  <1> DEFINE J == {i \in 1 .. Len(s) : i \in I}
  <1>1. s \in Seq(Range(s)) /\ Len(s) \in Nat
    BY SeqPlaces, Zenon DEF IsSeq
  <1>2. /\ Only(s, I) \in Seq(Range(s))
        /\ Len(Only(s, I)) = Cardinality(J)
        /\ \E f : Placed(f, s, I, Only(s, I), Len(s))
    BY <1>1, OnlyIs, Zenon
  <1>3. IsSeq(Only(s, I)) /\ Len(Only(s, I)) \in Nat
    BY <1>2, SeqIs, SeqPlaces, Zenon
  <1>4. 1 \in Int /\ Len(s) \in Int
    BY <1>1
  <1>5. IsFiniteSet(1 .. Len(s)) /\ Cardinality(1 .. Len(s)) = IF 1 > Len(s) THEN 0 ELSE Len(s) - 1 + 1
    BY <1>4, FS_Interval, Zenon
  <1>6. Cardinality(1 .. Len(s)) = Len(s)
    BY <1>1, <1>5
  <1>7. Cardinality(J) <= Cardinality(1 .. Len(s))
    BY <1>5, FS_Subset, Zenon
  <1> QED BY <1>2, <1>3, <1>6, <1>7, Zenon

\* The places with a key.
Topic(s, k) == {i \in 1 .. Len(s) : s[i].key = k}
TopicIn(s, I, k) == {i \in 1 .. Len(s) : i \in I /\ s[i].key = k}

\* They are finitely many.
LEMMA TopicFinite ==
  ASSUME NEW s, IsSeq(s), NEW k, NEW I
  PROVE  /\ IsFiniteSet(Topic(s, k)) /\ IsFiniteSet(TopicIn(s, I, k))
         /\ Cardinality(Topic(s, k)) \in Nat /\ Cardinality(TopicIn(s, I, k)) \in Nat
         /\ Cardinality(TopicIn(s, I, k)) <= Cardinality(Topic(s, k))
  <1>1. 1 \in Int /\ Len(s) \in Int
    BY SeqPlaces
  <1>2. IsFiniteSet(1 .. Len(s))
    BY <1>1, FS_Interval, Zenon
  <1>3. Topic(s, k) \subseteq 1 .. Len(s) /\ TopicIn(s, I, k) \subseteq Topic(s, k)
    BY Zenon DEF Topic, TopicIn
  <1>4. IsFiniteSet(Topic(s, k))
    BY <1>2, <1>3, FS_Subset, Zenon
  <1>5. IsFiniteSet(TopicIn(s, I, k)) /\ Cardinality(TopicIn(s, I, k)) <= Cardinality(Topic(s, k))
    BY <1>3, <1>4, FS_Subset, Zenon
  <1> QED BY <1>4, <1>5, FS_CardinalityType, Zenon

\* Different elements are at different places.
LEMMA PlacedApart ==
  ASSUME NEW f, NEW s, NEW I, NEW t, NEW n, Placed(f, s, I, t, n), Len(t) \in Nat,
         NEW i \in 1 .. Len(t), NEW j \in 1 .. Len(t), f[i] = f[j]
  PROVE  i = j
  <1>1. /\ \A x, y \in 1 .. Len(t) : x < y => f[x] < f[y]
        /\ \A x \in 1 .. Len(t) : f[x] \in 1 .. n
    BY Zenon DEF Placed
  <1>2. f[i] \in Int /\ f[j] \in Int
    BY <1>1
  <1>3. ~(f[i] < f[j]) /\ ~(f[j] < f[i])
    BY <1>2
  <1>4. ~(i < j) /\ ~(j < i)
    BY <1>1, <1>3, Zenon
  <1> QED BY <1>4

\* The elements with a key among those at I.
LEMMA TopicOnly ==
  ASSUME NEW s, IsSeq(s), NEW I, NEW k
  PROVE  Cardinality(Topic(Only(s, I), k)) = Cardinality(TopicIn(s, I, k))
  <1> DEFINE t == Only(s, I)
             A == Topic(t, k)
             B == TopicIn(s, I, k)
  <1>1. IsSeq(t) /\ Len(t) \in Nat
    BY OnlySeq, Zenon
  <1>2. PICK f : Placed(f, s, I, t, Len(s))
    BY OnlySeq, Zenon
  <1>3. /\ \A i \in 1 .. Len(t) : f[i] \in 1 .. Len(s) /\ f[i] \in I /\ t[i] = s[f[i]]
        /\ \A m \in 1 .. Len(s) : m \in I => \E i \in 1 .. Len(t) : f[i] = m
    BY <1>2, Zenon DEF Placed
  <1> DEFINE g == [i \in A |-> f[i]]
  <1>4. \A i \in A : i \in 1 .. Len(t) /\ t[i].key = k
    BY Zenon DEF Topic
  <1>5. \A i \in A : f[i] \in B
    BY <1>3, <1>4, Zenon DEF TopicIn
  <1>6. g \in [A -> B]
    BY <1>5, Zenon
  <1>7. \A i, j \in A : g[i] = g[j] => i = j
    <2>1. SUFFICES ASSUME NEW i \in A, NEW j \in A, f[i] = f[j] PROVE i = j
      BY Zenon
    <2> HIDE DEF A, t
    <2>2. i \in 1 .. Len(t) /\ j \in 1 .. Len(t)
      BY <1>4, Zenon
    <2> QED BY <1>1, <1>2, <2>1, <2>2, PlacedApart, Zenon
  <1>8. ASSUME NEW m \in B PROVE \E i \in A : g[i] = m
    <2>1. m \in 1 .. Len(s) /\ m \in I /\ s[m].key = k
      BY <1>8, Zenon DEF TopicIn
    <2>2. PICK i \in 1 .. Len(t) : f[i] = m
      BY <1>3, <2>1, Zenon
    <2>3. i \in A
      BY <1>3, <2>1, <2>2, Zenon DEF Topic
    <2> QED BY <2>2, <2>3, Zenon
  <1>9. IsFiniteSet(A)
    BY <1>1, TopicFinite, Zenon
  <1> HIDE DEF A, B, g
  <1>10. g \in Surjection(A, B) /\ g \in Injection(A, B)
    <2>1. DOMAIN g = A
      BY <1>6, Zenon
    <2> QED BY <1>6, <1>7, <1>8, <2>1, Zenon DEF Surjection, Injection, IsInjective
  <1>11. Cardinality(B) = Cardinality(A)
    BY <1>9, <1>10, FS_Surjection, Zenon
  <1> QED BY <1>11, Zenon DEF A, B

\* The elements with a key after one more.
LEMMA TopicAppend ==
  ASSUME NEW s, IsSeq(s), NEW x, NEW k
  PROVE  Cardinality(Topic(Append(s, x), k)) =
            IF x.key = k THEN Cardinality(Topic(s, k)) + 1 ELSE Cardinality(Topic(s, k))
  <1> DEFINE u == Append(s, x)
             L == Len(s)
  <1>1. /\ L \in Nat /\ Len(u) = L + 1 /\ u[L + 1] = x
        /\ \A i \in 1 .. L : u[i] = s[i]
    <2>1. L \in Nat
      BY SeqPlaces, Zenon
    <2> QED BY <2>1, SeqAppend
  <1>2. \A i \in 1 .. L + 1 : i = L + 1 \/ i \in 1 .. L
    BY <1>1
  <1>3. L + 1 \in 1 .. L + 1 /\ L + 1 \notin 1 .. L /\ \A i \in 1 .. L : i \in 1 .. L + 1
    BY <1>1
  <1>4. IsFiniteSet(Topic(s, k))
    BY TopicFinite, Zenon
  <1> HIDE DEF u, L
  <1>5. CASE x.key = k
    <2>1. Topic(u, k) = Topic(s, k) \cup {L + 1}
      BY <1>1, <1>2, <1>3, <1>5, Zenon DEF Topic, L
    <2>2. L + 1 \notin Topic(s, k)
      BY <1>3, Zenon DEF Topic, L
    <2> QED BY <1>4, <1>5, <2>1, <2>2, FS_AddElement, Zenon DEF u
  <1>6. CASE x.key # k
    <2>1. Topic(u, k) = Topic(s, k)
      BY <1>1, <1>2, <1>3, <1>6, Zenon DEF Topic, L
    <2> QED BY <1>6, <2>1, Zenon DEF u
  <1> QED BY <1>5, <1>6, Zenon

\* The records of a cache: what RecordsOK says of them.
IsRecord(e) ==
    /\ e = [key |-> e.key, public_key |-> e.public_key, record |-> e.record, age |-> e.age]
    /\ e.age \in Nat /\ e.key # e.public_key
SameRecord(a, b) == a.key = b.key /\ a.public_key = b.public_key
Listed(s, B) ==
    /\ IsSeq(s)
    /\ \A i \in 1 .. Len(s) :
          /\ IsRecord(s[i]) /\ s[i].key \in B
          /\ Cardinality(Topic(s, s[i].key)) <= MaxPerKey
          /\ \A j \in 1 .. Len(s) : SameRecord(s[i], s[j]) => j = i

\* The places of a bucket.
LEMMA BucketPlaces ==
  ASSUME NEW c, IsSeq(c.entries), NEW k
  PROVE  /\ InBucket(c, k) = Topic(c.entries, k)
         /\ Len(BucketOf(c, k)) = Cardinality(Topic(c.entries, k))
         /\ Topic(c.entries, k) = {} <=> BucketOf(c, k) = <<>>
         /\ IsSeq(BucketOf(c, k))
  <1> DEFINE s == c.entries
  <1>1. Len(s) \in Nat /\ DOMAIN s = 1 .. Len(s)
    BY SeqPlaces, Zenon
  <1>2. InBucket(c, k) = Topic(s, k)
    BY <1>1, Zenon DEF InBucket, Topic
  <1>3. {i \in 1 .. Len(s) : i \in Topic(s, k)} = Topic(s, k)
    BY Zenon DEF Topic
  <1>4. BucketOf(c, k) = Only(s, Topic(s, k))
    BY <1>2, Zenon DEF BucketOf
  <1>5. IsSeq(BucketOf(c, k)) /\ Len(BucketOf(c, k)) = Cardinality(Topic(s, k))
    BY <1>3, <1>4, OnlySeq, Zenon
  <1>6. IsFiniteSet(Topic(s, k))
    BY TopicFinite, Zenon
  <1>7. Topic(s, k) = {} <=> Len(BucketOf(c, k)) = 0
    BY <1>5, <1>6, FS_EmptySet, Zenon
  <1>8. Len(BucketOf(c, k)) = 0 <=> BucketOf(c, k) = <<>>
    <2>1. BucketOf(c, k) \in Seq(Range(BucketOf(c, k)))
      BY <1>5, Zenon DEF IsSeq
    <2> QED BY <2>1
  <1> QED BY <1>2, <1>5, <1>7, <1>8, Zenon

\* RecordsOK in these terms.
LEMMA RecordsAre ==
  ASSUME NEW c
  PROVE  RecordsOK(c) <=>
            /\ c = [entries |-> c.entries, buckets |-> c.buckets, total |-> c.total]
            /\ Listed(c.entries, c.buckets) /\ c.total = Len(c.entries) /\ c.total <= MaxRecords
  <1> DEFINE s == c.entries
  <1>1. CASE ~IsSeq(s)
    BY <1>1, Zenon DEF RecordsOK, Listed
  <1>2. CASE IsSeq(s)
    <2>1. DOMAIN s = 1 .. Len(s)
      BY <1>2, SeqPlaces, Zenon
    <2>2. \A k : InBucket(c, k) = Topic(s, k)
      BY <1>2, BucketPlaces, Zenon
    <2>3. ASSUME NEW i \in 1 .. Len(s)
          PROVE  RecordsOf(c, s[i].key, s[i].public_key) = {i}
                   <=> \A j \in 1 .. Len(s) : SameRecord(s[i], s[j]) => j = i
      <3>1. i \in RecordsOf(c, s[i].key, s[i].public_key)
        BY <2>1, Zenon DEF RecordsOf, InBucket
      <3>2. \A j : j \in RecordsOf(c, s[i].key, s[i].public_key)
                     <=> j \in 1 .. Len(s) /\ SameRecord(s[i], s[j])
        BY <2>1, Zenon DEF RecordsOf, InBucket, SameRecord
      <3> HIDE DEF s
      <3> QED BY <3>1, <3>2, Zenon
    <2> QED BY <1>2, <2>1, <2>2, <2>3, Zenon DEF RecordsOK, Listed, IsRecord
  <1> QED BY <1>1, <1>2, Zenon

\* Fewer records, in the same order.
LEMMA ListedOnly ==
  ASSUME NEW s, NEW B, Listed(s, B), NEW I, MaxPerKey \in Nat
  PROVE  Listed(Only(s, I), B)
  <1> DEFINE t == Only(s, I)
  <1>0. IsSeq(s)
    BY Zenon DEF Listed
  <1>1. IsSeq(t) /\ Len(t) \in Nat
    BY <1>0, OnlySeq, Zenon
  <1>2. PICK f : Placed(f, s, I, t, Len(s))
    BY <1>0, OnlySeq, Zenon
  <1>3. \A i \in 1 .. Len(t) : f[i] \in 1 .. Len(s) /\ t[i] = s[f[i]]
    BY <1>2, Zenon DEF Placed
  <1>4. ASSUME NEW k, Cardinality(Topic(s, k)) <= MaxPerKey PROVE Cardinality(Topic(t, k)) <= MaxPerKey
    <2>1. Cardinality(Topic(t, k)) = Cardinality(TopicIn(s, I, k))
      BY <1>0, TopicOnly, Zenon
    <2>2. /\ Cardinality(Topic(s, k)) \in Nat /\ Cardinality(TopicIn(s, I, k)) \in Nat
          /\ Cardinality(TopicIn(s, I, k)) <= Cardinality(Topic(s, k))
      BY <1>0, TopicFinite, Zenon
    <2> HIDE DEF t
    <2> QED BY <1>4, <2>1, <2>2
  <1>5. \A i \in 1 .. Len(t) : \A j \in 1 .. Len(t) : f[i] = f[j] => i = j
    <2> HIDE DEF t
    <2> QED BY <1>1, <1>2, PlacedApart, Zenon
  <1> HIDE DEF t
  <1>6. ASSUME NEW i \in 1 .. Len(t)
        PROVE  /\ IsRecord(t[i]) /\ t[i].key \in B
               /\ Cardinality(Topic(t, t[i].key)) <= MaxPerKey
               /\ \A j \in 1 .. Len(t) : SameRecord(t[i], t[j]) => j = i
    <2>1. f[i] \in 1 .. Len(s) /\ t[i] = s[f[i]]
      BY <1>3, Zenon
    <2>2. /\ IsRecord(t[i]) /\ t[i].key \in B
          /\ Cardinality(Topic(s, t[i].key)) <= MaxPerKey
          /\ \A j \in 1 .. Len(s) : SameRecord(t[i], s[j]) => j = f[i]
      BY <2>1, Zenon DEF Listed
    <2> QED BY <1>3, <1>4, <1>5, <2>2, Zenon
  <1> QED BY <1>1, <1>6, Zenon DEF Listed, t

\* A record more.
LEMMA ListedAppend ==
  ASSUME NEW s, NEW B, Listed(s, B), NEW e, IsRecord(e), MaxPerKey \in Nat,
         \A i \in 1 .. Len(s) : ~SameRecord(e, s[i]),
         Cardinality(Topic(s, e.key)) < MaxPerKey
  PROVE  Listed(Append(s, e), B \cup {e.key})
  <1> DEFINE u == Append(s, e)
             L == Len(s)
             C == B \cup {e.key}
  <1>0. IsSeq(s)
    BY Zenon DEF Listed
  <1>1. L \in Nat
    BY <1>0, SeqPlaces, Zenon
  <1>2. IsSeq(u) /\ Len(u) = L + 1 /\ u[L + 1] = e /\ \A i \in 1 .. L : u[i] = s[i]
    BY <1>0, SeqAppend
  <1>3. \A i \in 1 .. L + 1 : i = L + 1 \/ i \in 1 .. L
    BY <1>1
  <1>4. ASSUME NEW k, k # e.key => Cardinality(Topic(s, k)) <= MaxPerKey
        PROVE  Cardinality(Topic(u, k)) <= MaxPerKey
    <2>1. Cardinality(Topic(u, k)) =
            IF e.key = k THEN Cardinality(Topic(s, k)) + 1 ELSE Cardinality(Topic(s, k))
      BY <1>0, TopicAppend, Zenon
    <2>2. Cardinality(Topic(s, k)) \in Nat
      BY <1>0, TopicFinite, Zenon
    <2> HIDE DEF u
    <2>3. CASE e.key = k
      BY <2>1, <2>2, <2>3
    <2>4. CASE e.key # k
      BY <1>4, <2>1, <2>4, Zenon
    <2> QED BY <2>3, <2>4, Zenon
  <1> HIDE DEF u, L
  <1>5. \A i \in 1 .. L : IsRecord(s[i]) /\ s[i].key \in B
          /\ Cardinality(Topic(s, s[i].key)) <= MaxPerKey
          /\ \A j \in 1 .. L : SameRecord(s[i], s[j]) => j = i
    BY Zenon DEF Listed, L
  <1>6. ASSUME NEW i \in 1 .. L + 1
        PROVE  /\ IsRecord(u[i]) /\ u[i].key \in C
               /\ Cardinality(Topic(u, u[i].key)) <= MaxPerKey
               /\ \A j \in 1 .. L + 1 : SameRecord(u[i], u[j]) => j = i
    <2>1. \A x, y : SameRecord(x, y) => SameRecord(y, x)
      BY Zenon DEF SameRecord
    <2>2. \A j \in 1 .. L : ~SameRecord(e, s[j])
      BY Zenon DEF L
    <2>3. CASE i = L + 1
      BY <1>2, <1>3, <1>4, <2>2, <2>3, Zenon
    <2>4. CASE i \in 1 .. L
      <3>1. u[i] = s[i]
        BY <1>2, <2>4, Zenon
      <3>2. \A j \in 1 .. L + 1 : SameRecord(u[i], u[j]) => j = i
        BY <1>2, <1>3, <1>5, <2>1, <2>2, <2>4, Zenon
      <3> QED BY <1>4, <1>5, <2>4, <3>1, <3>2, Zenon
    <2> QED BY <1>3, <2>3, <2>4, Zenon
  <1> HIDE DEF C
  <1>7. Listed(u, C)
    BY <1>2, <1>6, Zenon DEF Listed
  <1> QED BY <1>7, Zenon DEF u, C

----------------------------------------------------------------------------
(* Removing records.                                                       *)

\* A set of places has a first one.
LEMMA FirstIs ==
  ASSUME NEW I \in SUBSET Nat, I # {}
  PROVE  \E i \in I : First(I) = {i} /\ \A j \in I : i <= j
  <1>1. PICK i \in I : \A y \in I : ~(<<y, i>> \in OpToRel(<, Nat))
    BY NatLessThanWellFounded, WFMin, Zenon
  <1>2. ASSUME NEW j \in I PROVE i <= j
    <2>1. ~(<<j, i>> \in OpToRel(<, Nat)) /\ j \in Nat /\ i \in Nat
      BY <1>1, Zenon
    <2>2. ~(j < i)
      BY <2>1, Zenon DEF OpToRel
    <2>3. j \in Nat /\ i \in Nat
      BY <2>1, Zenon
    <2> QED BY <2>2, <2>3
  <1>3. ASSUME NEW j \in First(I) PROVE j = i
    <2>1. j \in I /\ j <= i /\ i <= j
      BY <1>2, <1>3, Zenon DEF First
    <2> QED BY <2>1
  <1>4. i \in First(I)
    BY <1>2, Zenon DEF First
  <1> QED BY <1>2, <1>3, <1>4, Zenon

\* What is left without one element.
LEMMA OneLess ==
  ASSUME NEW s, IsSeq(s), NEW i \in 1 .. Len(s)
  PROVE  LET t == Only(s, (DOMAIN s) \ {i}) IN
         /\ Len(t) = Len(s) - 1
         /\ \A k : Cardinality(Topic(t, k)) =
                      IF s[i].key = k THEN Cardinality(Topic(s, k)) - 1 ELSE Cardinality(Topic(s, k))
  <1> DEFINE D == (DOMAIN s) \ {i}
             t == Only(s, D)
  <1>1. DOMAIN s = 1 .. Len(s) /\ Len(s) \in Nat
    BY SeqPlaces, Zenon
  <1>2. Len(t) = Cardinality({j \in 1 .. Len(s) : j \in D})
    BY OnlySeq, Zenon
  <1>3. {j \in 1 .. Len(s) : j \in D} = (1 .. Len(s)) \ {i}
    BY <1>1, Zenon
  <1>4. 1 \in Int /\ Len(s) \in Int
    BY <1>1
  <1>5. IsFiniteSet(1 .. Len(s)) /\ Cardinality(1 .. Len(s)) = IF 1 > Len(s) THEN 0 ELSE Len(s) - 1 + 1
    BY <1>4, FS_Interval, Zenon
  <1>6. Cardinality(1 .. Len(s)) = Len(s)
    BY <1>1, <1>5
  <1>7. Len(t) = Len(s) - 1
    BY <1>2, <1>3, <1>5, <1>6, FS_RemoveElement, Zenon
  <1>8. ASSUME NEW k
        PROVE  Cardinality(Topic(t, k)) =
                  IF s[i].key = k THEN Cardinality(Topic(s, k)) - 1 ELSE Cardinality(Topic(s, k))
    <2>1. Cardinality(Topic(t, k)) = Cardinality(TopicIn(s, D, k))
      BY TopicOnly, Zenon
    <2>2. TopicIn(s, D, k) = Topic(s, k) \ {i}
      BY <1>1, Zenon DEF Topic, TopicIn
    <2>3. IsFiniteSet(Topic(s, k))
      BY TopicFinite, Zenon
    <2>4. i \in Topic(s, k) <=> s[i].key = k
      BY Zenon DEF Topic
    <2> HIDE DEF t, D
    <2>5. Cardinality(Topic(s, k) \ {i}) =
             IF i \in Topic(s, k) THEN Cardinality(Topic(s, k)) - 1 ELSE Cardinality(Topic(s, k))
      BY <2>3, FS_RemoveElement, Zenon
    <2> QED BY <2>1, <2>2, <2>4, <2>5, Zenon
  <1> QED BY <1>7, <1>8, Zenon

\* What stays, and from where it comes.
Stays(s, I, t) ==
    /\ \A i \in 1 .. Len(s) : i \in I => \E j \in 1 .. Len(t) : t[j] = s[i]
    /\ \A j \in 1 .. Len(t) : \E i \in 1 .. Len(s) : i \in I /\ t[j] = s[i]

\* Of the elements at I.
LEMMA OnlyStays ==
  ASSUME NEW s, IsSeq(s), NEW I
  PROVE  Stays(s, I, Only(s, I))
  <1>1. PICK f : Placed(f, s, I, Only(s, I), Len(s))
    BY OnlySeq, Zenon
  <1> QED BY <1>1, ZenonT(60) DEF Placed, Stays

\* A cache made of its parts.
LEMMA RecordsMade ==
  ASSUME NEW s, NEW B, NEW n, Listed(s, B), n = Len(s), n <= MaxRecords
  PROVE  RecordsOK([entries |-> s, buckets |-> B, total |-> n])
  <1> DEFINE c == [entries |-> s, buckets |-> B, total |-> n]
  <1>1. c.entries = s /\ c.buckets = B /\ c.total = n
    BY Zenon
  <1>2. c = [entries |-> c.entries, buckets |-> c.buckets, total |-> c.total]
    BY <1>1, Zenon
  <1> HIDE DEF c
  <1>3. RecordsOK(c)
    BY <1>1, <1>2, RecordsAre, Zenon
  <1> QED BY <1>3, Zenon DEF c

\* Its parts.
LEMMA RecordsParts ==
  ASSUME NEW c, RecordsOK(c), MaxRecords \in Nat
  PROVE  /\ c = [entries |-> c.entries, buckets |-> c.buckets, total |-> c.total]
         /\ Listed(c.entries, c.buckets) /\ IsSeq(c.entries)
         /\ DOMAIN c.entries = 1 .. Len(c.entries) /\ Len(c.entries) \in Nat
         /\ c.total = Len(c.entries) /\ c.total <= MaxRecords
  <1>1. /\ c = [entries |-> c.entries, buckets |-> c.buckets, total |-> c.total]
        /\ Listed(c.entries, c.buckets) /\ c.total = Len(c.entries) /\ c.total <= MaxRecords
    BY RecordsAre, Zenon
  <1>2. IsSeq(c.entries)
    BY <1>1, Zenon DEF Listed
  <1> QED BY <1>1, <1>2, SeqPlaces, Zenon

\* A cache with other entries.
LEMMA RecordsExcept ==
  ASSUME NEW c, c = [entries |-> c.entries, buckets |-> c.buckets, total |-> c.total],
         NEW s, NEW n, NEW B
  PROVE  /\ [c EXCEPT !.entries = s, !.total = n] = [entries |-> s, buckets |-> c.buckets, total |-> n]
         /\ [c EXCEPT !.entries = s] = [entries |-> s, buckets |-> c.buckets, total |-> c.total]
         /\ [c EXCEPT !.buckets = B] = [entries |-> c.entries, buckets |-> B, total |-> c.total]
  <1> DEFINE d == [entries |-> s, buckets |-> c.buckets, total |-> c.total]
  <1>1. [c EXCEPT !.entries = s] = d /\ [d EXCEPT !.total = n] = [entries |-> s, buckets |-> c.buckets, total |-> n]
    OBVIOUS
  <1>2. [c EXCEPT !.buckets = B] = [entries |-> c.entries, buckets |-> B, total |-> c.total]
    OBVIOUS
  <1>3. [c EXCEPT !.entries = s, !.total = n] = [[c EXCEPT !.entries = s] EXCEPT !.total = n]
    OBVIOUS
  <1> QED BY <1>1, <1>2, <1>3, Zenon

\* Some records stay.
LEMMA RetainedOK ==
  ASSUME NEW c, RecordsOK(c), NEW I, MaxRecords \in Nat, MaxPerKey \in Nat
  PROVE  RecordsOK(Retained(c, I)) /\ Retained(c, I).entries = Only(c.entries, I)
  <1> DEFINE s == c.entries
             t == Only(s, I)
             n == c.total - (Len(s) - Len(t))
  <1>1. /\ c = [entries |-> c.entries, buckets |-> c.buckets, total |-> c.total]
        /\ Listed(s, c.buckets) /\ IsSeq(s) /\ Len(s) \in Nat /\ c.total = Len(s) /\ c.total <= MaxRecords
    BY RecordsParts, Zenon
  <1>2. Listed(t, c.buckets)
    BY <1>1, ListedOnly, Zenon
  <1>3. Len(t) \in Nat /\ Len(t) <= Len(s)
    BY <1>1, OnlySeq, Zenon
  <1>4. Retained(c, I) = [c EXCEPT !.entries = t, !.total = n]
    BY Zenon DEF Retained
  <1> HIDE DEF s, t
  <1>5. n = Len(t) /\ n <= MaxRecords
    BY <1>1, <1>3
  <1> HIDE DEF n
  <1>6. Retained(c, I) = [entries |-> t, buckets |-> c.buckets, total |-> n]
    BY <1>1, <1>4, RecordsExcept, Zenon
  <1>7. RecordsOK(Retained(c, I))
    BY <1>2, <1>5, <1>6, RecordsMade, Zenon
  <1>8. Retained(c, I).entries = t
    BY <1>6
  <1> QED BY <1>7, <1>8, Zenon DEF t, s

\* An empty bucket goes.
LEMMA WithoutEmptyOK ==
  ASSUME NEW c, RecordsOK(c), NEW k, MaxRecords \in Nat
  PROVE  /\ RecordsOK(WithoutEmpty(c, k)) /\ WithoutEmpty(c, k).entries = c.entries
         /\ WithoutEmpty(c, k).total = c.total
  <1> DEFINE B == c.buckets \ {k}
             d == [entries |-> c.entries, buckets |-> B, total |-> c.total]
  <1>1. /\ c = [entries |-> c.entries, buckets |-> c.buckets, total |-> c.total]
        /\ Listed(c.entries, c.buckets) /\ IsSeq(c.entries)
        /\ c.total = Len(c.entries) /\ c.total <= MaxRecords
    BY RecordsParts, Zenon
  <1>2. CASE BucketOf(c, k) # <<>>
    BY <1>2, Zenon DEF WithoutEmpty
  <1>3. CASE BucketOf(c, k) = <<>>
    <2>1. WithoutEmpty(c, k) = d
      BY <1>1, <1>3, RecordsExcept, Zenon DEF WithoutEmpty
    <2>2. Topic(c.entries, k) = {}
      BY <1>1, <1>3, BucketPlaces, Zenon
    <2>3. \A i \in 1 .. Len(c.entries) : c.entries[i].key # k
      BY <2>2, Zenon DEF Topic
    <2>4. Listed(c.entries, B)
      BY <1>1, <2>3, Zenon DEF Listed
    <2>5. RecordsOK(d)
      BY <1>1, <2>4, RecordsMade, Zenon
    <2>6. d.entries = c.entries /\ d.total = c.total
      BY Zenon
    <2> QED BY <2>1, <2>5, <2>6, Zenon
  <1> QED BY <1>2, <1>3, Zenon

----------------------------------------------------------------------------
(* Making room for a record.                                               *)

\* The first record of a bucket is the oldest of its topic.
LEMMA BucketHead ==
  ASSUME NEW c, IsSeq(c.entries), NEW k, NEW i \in Topic(c.entries, k),
         \A j \in Topic(c.entries, k) : i <= j
  PROVE  BucketOf(c, k)[1] = c.entries[i]
  <1> DEFINE s == c.entries
             I == Topic(s, k)
             t == Only(s, I)
  <1>0. IsSeq(s)
    OBVIOUS
  <1>1. BucketOf(c, k) = t
    BY BucketPlaces, Zenon DEF BucketOf
  <1>2. PICK f : Placed(f, s, I, t, Len(s))
    BY <1>0, OnlySeq, Zenon
  <1>3. IsSeq(t) /\ Len(t) \in Nat
    BY <1>0, OnlySeq, Zenon
  <1>4. i \in 1 .. Len(s) /\ i \in I
    BY Zenon DEF Topic
  <1> HIDE DEF t
  <1>5. PICK x \in 1 .. Len(t) : f[x] = i
    BY <1>2, <1>4, Zenon DEF Placed
  <1>6. /\ \A a \in 1 .. Len(t) : f[a] \in I /\ t[a] = s[f[a]]
        /\ \A a, b \in 1 .. Len(t) : a < b => f[a] < f[b]
    BY <1>2, Zenon DEF Placed
  <1>7. 1 \in 1 .. Len(t) /\ (x = 1 \/ 1 < x)
    BY <1>3
  <1>8. ~(f[1] < f[x])
    <2>1. i <= f[1]
      BY <1>6, <1>7, Zenon
    <2>2. i \in Int /\ f[1] \in Int
      <3>1. f[1] \in 1 .. Len(s)
        BY <1>2, <1>7, Zenon DEF Placed
      <3> QED BY <1>4, <3>1
    <2> QED BY <1>5, <2>1, <2>2
  <1>9. x = 1
    BY <1>6, <1>7, <1>8, Zenon
  <1> QED BY <1>1, <1>5, <1>6, <1>7, <1>9, Zenon

\* A cache without one of its records.
LEMMA LessOK ==
  ASSUME NEW c, RecordsOK(c), NEW i \in 1 .. Len(c.entries), MaxRecords \in Nat, MaxPerKey \in Nat
  PROVE  LET t == Only(c.entries, (DOMAIN c.entries) \ {i})
             d == [c EXCEPT !.entries = t, !.total = c.total - 1]
         IN  /\ RecordsOK(d) /\ d.entries = t /\ d.buckets = c.buckets /\ d.total = c.total - 1
             /\ d.total = Len(t) /\ Len(t) = Len(c.entries) - 1
  <1> DEFINE s == c.entries
             t == Only(s, (DOMAIN s) \ {i})
             n == c.total - 1
             d == [entries |-> t, buckets |-> c.buckets, total |-> n]
  <1>1. /\ c = [entries |-> c.entries, buckets |-> c.buckets, total |-> c.total]
        /\ Listed(s, c.buckets) /\ IsSeq(s) /\ Len(s) \in Nat /\ c.total = Len(s) /\ c.total <= MaxRecords
    BY RecordsParts, Zenon
  <1>2. Listed(t, c.buckets)
    BY <1>1, ListedOnly, Zenon
  <1>3. Len(t) = Len(s) - 1
    BY <1>1, OneLess, Zenon
  <1> HIDE DEF t, s
  <1>4. n = Len(t) /\ n <= MaxRecords
    BY <1>1, <1>3
  <1> HIDE DEF n
  <1>5. [c EXCEPT !.entries = t, !.total = n] = d
    BY <1>1, RecordsExcept, Zenon
  <1>6. d.entries = t /\ d.buckets = c.buckets /\ d.total = n
    OBVIOUS
  <1>7. RecordsOK(d)
    BY <1>2, <1>4, RecordsMade, Zenon
  <1> HIDE DEF d
  <1> QED BY <1>3, <1>4, <1>5, <1>6, <1>7, Zenon DEF t, s, n

\* Room in a bucket: which record may have left.
MadeRoom(c, d, key) ==
    /\ RecordsOK(d) /\ Cardinality(Topic(d.entries, key)) < MaxPerKey
    /\ \A j \in 1 .. Len(d.entries) : \E m \in 1 .. Len(c.entries) : d.entries[j] = c.entries[m]
    /\ \/ d = c
       \/ /\ Len(d.entries) = Len(c.entries) - 1
          /\ Cardinality(Topic(c.entries, key)) = MaxPerKey
          /\ Cardinality(Topic(d.entries, key)) = MaxPerKey - 1
          /\ \A m \in 1 .. Len(c.entries) :
                \/ \E j \in 1 .. Len(d.entries) : d.entries[j] = c.entries[m]
                \/ c.entries[m].key = key /\ c.entries[m] = BucketOf(c, key)[1]

\* RoomInBucket leaves room.
LEMMA RoomInBucketOK ==
  ASSUME NEW c, RecordsOK(c), NEW key, MaxRecords \in Nat, MaxPerKey \in Nat, MaxPerKey # 0
  PROVE  MadeRoom(c, RoomInBucket(c, key), key)
  <1> DEFINE s == c.entries
             N == Cardinality(Topic(s, key))
  <1>1. Listed(s, c.buckets) /\ IsSeq(s) /\ Len(s) \in Nat /\ DOMAIN s = 1 .. Len(s)
    BY RecordsParts, Zenon
  <1>2. Len(BucketOf(c, key)) = N /\ InBucket(c, key) = Topic(s, key)
    BY <1>1, BucketPlaces, Zenon
  <1>3. N \in Nat /\ IsFiniteSet(Topic(s, key))
    BY <1>1, TopicFinite, Zenon
  <1>4. CASE N < MaxPerKey
    BY <1>2, <1>4, Zenon DEF RoomInBucket, MadeRoom
  <1>5. CASE ~(N < MaxPerKey)
    <2>1. Topic(s, key) # {} /\ Topic(s, key) \in SUBSET Nat
      <3>1. N # 0
        BY <1>3, <1>5
      <3>2. Topic(s, key) # {}
        BY <3>1, FS_EmptySet, Zenon
      <3>3. \A x \in 1 .. Len(s) : x \in Nat
        OBVIOUS
      <3> QED BY <3>2, <3>3, Zenon DEF Topic
    <2>2. PICK i \in Topic(s, key) : First(Topic(s, key)) = {i} /\ \A j \in Topic(s, key) : i <= j
      BY <2>1, FirstIs, Zenon
    <2>3. i \in 1 .. Len(s) /\ s[i].key = key
      BY <2>2, Zenon DEF Topic
    <2>4. s[i] = BucketOf(c, key)[1]
      BY <1>1, <2>2, BucketHead, Zenon
    <2> DEFINE t == Only(s, (DOMAIN s) \ {i})
               d == [c EXCEPT !.entries = t, !.total = c.total - 1]
    <2>5. RoomInBucket(c, key) = d
      BY <1>2, <1>5, <2>2, Zenon DEF RoomInBucket, WithoutOldest
    <2>6. RecordsOK(d) /\ d.entries = t /\ Len(t) = Len(s) - 1
      BY <2>3, LessOK, Zenon
    <2>7. Cardinality(Topic(t, key)) = N - 1
      BY <1>1, <2>3, OneLess, Zenon
    <2>8. N <= MaxPerKey
      BY <1>1, <2>3, Zenon DEF Listed
    <2>9. N = MaxPerKey /\ N - 1 < MaxPerKey
      BY <1>3, <1>5, <2>8
    <2>10. /\ \A m \in 1 .. Len(s) : m \in (DOMAIN s) \ {i} => \E j \in 1 .. Len(t) : t[j] = s[m]
           /\ \A j \in 1 .. Len(t) : \E m \in 1 .. Len(s) : t[j] = s[m]
      <3>1. Stays(s, (DOMAIN s) \ {i}, t)
        BY <1>1, OnlyStays, Zenon
      <3> HIDE DEF t
      <3> QED BY <3>1, Zenon DEF Stays
    <2>11. \A m \in 1 .. Len(s) : m = i \/ \E j \in 1 .. Len(t) : t[j] = s[m]
      BY <1>1, <2>10, Zenon
    <2> HIDE DEF t, d
    <2>12. MadeRoom(c, d, key)
      BY <2>3, <2>4, <2>6, <2>7, <2>9, <2>10, <2>11, Zenon DEF MadeRoom
    <2> QED BY <2>5, <2>12, Zenon
  <1> QED BY <1>4, <1>5, Zenon

\* Room in the cache: which record may have left.
MadeSpace(c, d) ==
    /\ RecordsOK(d) /\ Len(d.entries) < MaxRecords
    /\ \A k : Cardinality(Topic(d.entries, k)) <= Cardinality(Topic(c.entries, k))
    /\ \A j \in 1 .. Len(d.entries) : \E m \in 1 .. Len(c.entries) : d.entries[j] = c.entries[m]
    /\ \/ d = c
       \/ /\ Len(c.entries) = MaxRecords /\ Len(d.entries) = MaxRecords - 1
          /\ \A m \in 1 .. Len(c.entries) :
                \/ \E j \in 1 .. Len(d.entries) : d.entries[j] = c.entries[m]
                \/ c.entries[m] = c.entries[1]

\* EvictOldest leaves room.
LEMMA EvictOldestOK ==
  ASSUME NEW c, RecordsOK(c), MaxRecords \in Nat, MaxRecords # 0, MaxPerKey \in Nat
  PROVE  MadeSpace(c, EvictOldest(c))
  <1> DEFINE s == c.entries
  <1>1. /\ Listed(s, c.buckets) /\ IsSeq(s) /\ Len(s) \in Nat /\ DOMAIN s = 1 .. Len(s)
        /\ c.total = Len(s) /\ c.total <= MaxRecords
    BY RecordsParts, Zenon
  <1>2. \A k : Cardinality(Topic(s, k)) \in Nat
    BY <1>1, TopicFinite, Zenon
  <1>3. CASE c.total < MaxRecords
    <2>1. \A k : Cardinality(Topic(s, k)) <= Cardinality(Topic(s, k))
      BY <1>2
    <2> QED BY <1>1, <1>3, <2>1, Zenon DEF EvictOldest, MadeSpace
  <1>4. CASE ~(c.total < MaxRecords)
    <2>1. Len(s) = MaxRecords /\ 1 \in 1 .. Len(s)
      BY <1>1, <1>4
    <2>2. s # <<>>
      <3>1. Len(<<>>) = 0
        OBVIOUS
      <3> QED BY <2>1, <3>1, Zenon
    <2> DEFINE t == Only(s, (DOMAIN s) \ {1})
               d == [c EXCEPT !.entries = t, !.total = c.total - 1]
               e == WithoutEmpty(d, s[1].key)
    <2>3. EvictOldest(c) = e
      BY <1>4, <2>2, Zenon DEF EvictOldest, EvictFirst
    <2>4. RecordsOK(d) /\ d.entries = t /\ Len(t) = Len(s) - 1
      BY <2>1, LessOK, Zenon
    <2>5. \A k : Cardinality(Topic(t, k)) =
                   IF s[1].key = k THEN Cardinality(Topic(s, k)) - 1 ELSE Cardinality(Topic(s, k))
      BY <1>1, <2>1, OneLess, Zenon
    <2>6. /\ \A m \in 1 .. Len(s) : m \in (DOMAIN s) \ {1} => \E j \in 1 .. Len(t) : t[j] = s[m]
          /\ \A j \in 1 .. Len(t) : \E m \in 1 .. Len(s) : t[j] = s[m]
      <3>1. Stays(s, (DOMAIN s) \ {1}, t)
        BY <1>1, OnlyStays, Zenon
      <3> HIDE DEF t
      <3> QED BY <3>1, Zenon DEF Stays
    <2>7. \A m \in 1 .. Len(s) : s[m] = s[1] \/ \E j \in 1 .. Len(t) : t[j] = s[m]
      BY <1>1, <2>6, Zenon
    <2> HIDE DEF t, d
    <2>8. RecordsOK(e) /\ e.entries = t
      BY <2>4, WithoutEmptyOK, Zenon
    <2> HIDE DEF e
    <2>9. \A k : Cardinality(Topic(t, k)) <= Cardinality(Topic(s, k))
      <3>1. \A n \in Nat : n - 1 <= n /\ n <= n
        OBVIOUS
      <3> QED BY <1>2, <2>5, <3>1, Zenon
    <2>10. Len(t) < MaxRecords /\ Len(t) = MaxRecords - 1
      BY <2>1, <2>4
    <2>11. MadeSpace(c, e)
      BY <2>1, <2>6, <2>7, <2>8, <2>9, <2>10, Zenon DEF MadeSpace
    <2> QED BY <2>3, <2>11, Zenon
  <1> QED BY <1>3, <1>4, Zenon

----------------------------------------------------------------------------
(* Adding a record.                                                        *)

\* Why a record may be gone after an announcement.
Gone(c, d, e) ==
    \/ /\ e = BucketOf(c, e.key)[1]
       /\ Len(BucketOf(c, e.key)) = MaxPerKey /\ Len(BucketOf(d, e.key)) = MaxPerKey
    \/ e = c.entries[1] /\ c.total = MaxRecords /\ d.total = MaxRecords

\* The others are there, or renewed.
Added(c, d) ==
    /\ RecordsOK(d)
    /\ \A m \in 1 .. Len(c.entries) :
          \/ \E j \in 1 .. Len(d.entries) : SameRecord(c.entries[m], d.entries[j])
          \/ Gone(c, d, c.entries[m])

\* A new record is one.
LEMMA NewRecord ==
  ASSUME NEW key, NEW public_key, NEW record, key # public_key
  PROVE  LET e == [key |-> key, public_key |-> public_key, record |-> record, age |-> 0]
         IN  IsRecord(e) /\ e.key = key /\ e.public_key = public_key
  BY DEF IsRecord

\* The record of the same peer is renewed.
LEMMA RenewOK ==
  ASSUME NEW c, RecordsOK(c), NEW e, IsRecord(e), NEW i \in 1 .. Len(c.entries),
         SameRecord(e, c.entries[i]), MaxRecords \in Nat, MaxPerKey \in Nat
  PROVE  Added(c, [c EXCEPT !.entries = Append(Only(c.entries, (DOMAIN c.entries) \ {i}), e)])
  <1> DEFINE s == c.entries
             t == Only(s, (DOMAIN s) \ {i})
             u == Append(t, e)
             d == [entries |-> u, buckets |-> c.buckets, total |-> c.total]
  <1>1. /\ c = [entries |-> c.entries, buckets |-> c.buckets, total |-> c.total]
        /\ Listed(s, c.buckets) /\ IsSeq(s) /\ Len(s) \in Nat /\ DOMAIN s = 1 .. Len(s)
        /\ c.total = Len(s) /\ c.total <= MaxRecords
    BY RecordsParts, Zenon
  <1>2. Listed(t, c.buckets) /\ IsSeq(t)
    BY <1>1, ListedOnly, OnlySeq, Zenon
  <1>3. Stays(s, (DOMAIN s) \ {i}, t)
    BY <1>1, OnlyStays, Zenon
  <1>4. s[i].key = e.key
    BY Zenon DEF SameRecord
  <1>5. /\ s[i].key \in c.buckets
        /\ Cardinality(Topic(s, s[i].key)) <= MaxPerKey
        /\ \A j \in 1 .. Len(s) : SameRecord(s[i], s[j]) => j = i
    BY <1>1, Zenon DEF Listed
  <1>6. Len(t) = Len(s) - 1 /\ Cardinality(Topic(t, e.key)) = Cardinality(Topic(s, e.key)) - 1
    <2>1. \A k : Cardinality(Topic(t, k)) =
                   IF s[i].key = k THEN Cardinality(Topic(s, k)) - 1 ELSE Cardinality(Topic(s, k))
      BY <1>1, OneLess, Zenon
    <2>2. Len(t) = Len(s) - 1
      BY <1>1, OneLess, Zenon
    <2> QED BY <1>4, <2>1, <2>2, Zenon
  <1>7. Cardinality(Topic(s, e.key)) \in Nat
    BY <1>1, TopicFinite, Zenon
  <1> HIDE DEF t
  <1>8. Cardinality(Topic(t, e.key)) < MaxPerKey
    BY <1>4, <1>5, <1>6, <1>7
  <1>9. ASSUME NEW j \in 1 .. Len(t) PROVE ~SameRecord(e, t[j])
    <2>1. PICK m \in 1 .. Len(s) : m # i /\ t[j] = s[m]
      BY <1>3, Zenon DEF Stays
    <2>2. SameRecord(e, s[m]) => SameRecord(s[i], s[m])
      BY Zenon DEF SameRecord
    <2> QED BY <1>5, <2>1, <2>2, Zenon
  <1>10. Listed(u, c.buckets)
    <2>1. Listed(u, c.buckets \cup {e.key})
      BY <1>2, <1>8, <1>9, ListedAppend, Zenon
    <2>2. c.buckets \cup {e.key} = c.buckets
      BY <1>4, <1>5, Zenon
    <2> QED BY <2>1, <2>2, Zenon
  <1>11. /\ Len(u) = Len(t) + 1 /\ u[Len(t) + 1] = e /\ \A j \in 1 .. Len(t) : u[j] = t[j]
    BY <1>2, SeqAppend
  <1>12. Len(t) \in Nat
    BY <1>2, SeqPlaces, Zenon
  <1> HIDE DEF u, s
  <1>13. Len(u) = Len(s) /\ Len(t) + 1 \in 1 .. Len(u) /\ \A j \in 1 .. Len(t) : j \in 1 .. Len(u)
    BY <1>1, <1>6, <1>11, <1>12
  <1>14. RecordsOK(d)
    BY <1>1, <1>10, <1>13, RecordsMade, Zenon
  <1>15. d.entries = u
    OBVIOUS
  <1>16. ASSUME NEW m \in 1 .. Len(s) PROVE \E j \in 1 .. Len(u) : SameRecord(s[m], u[j])
    <2>1. CASE m = i
      BY <1>11, <1>13, <2>1, Zenon DEF SameRecord, s
    <2>2. CASE m # i
      <3>1. PICK j \in 1 .. Len(t) : t[j] = s[m]
        BY <1>1, <1>3, <2>2, Zenon DEF Stays
      <3> QED BY <1>11, <1>13, <3>1, Zenon DEF SameRecord
    <2> QED BY <2>1, <2>2, Zenon
  <1>17. [c EXCEPT !.entries = u] = d
    BY <1>1, RecordsExcept, Zenon DEF s
  <1> HIDE DEF d
  <1>18. Added(c, d)
    BY <1>14, <1>15, <1>16, Zenon DEF Added, s
  <1> QED BY <1>17, <1>18, Zenon DEF u, t, s

\* A new record takes the room made for it.
LEMMA PushOK ==
  ASSUME NEW c, RecordsOK(c), NEW e, IsRecord(e), NEW c1, NEW c2,
         MadeRoom(c, c1, e.key), MadeSpace(c1, c2),
         \A m \in 1 .. Len(c.entries) : ~SameRecord(e, c.entries[m]),
         MaxRecords \in Nat, MaxPerKey \in Nat
  PROVE  Added(c, Pushed(c2, e))
  <1> DEFINE s == c.entries
             t == c2.entries
             u == Append(t, e)
             B == c2.buckets \cup {e.key}
             d == [entries |-> u, buckets |-> B, total |-> c2.total + 1]
  <1>1. /\ IsSeq(s) /\ Len(s) \in Nat /\ c.total = Len(s) /\ c.total <= MaxRecords
    BY RecordsParts, Zenon
  <1>2. RecordsOK(c1) /\ RecordsOK(c2)
    BY Zenon DEF MadeRoom, MadeSpace
  <1>3. /\ Listed(t, c2.buckets) /\ IsSeq(t) /\ Len(t) \in Nat /\ c2.total = Len(t)
    BY <1>2, RecordsParts, Zenon
  <1>4. IsSeq(c1.entries)
    BY <1>2, RecordsParts, Zenon
  <1>5. /\ Cardinality(Topic(c1.entries, e.key)) < MaxPerKey
        /\ Cardinality(Topic(t, e.key)) <= Cardinality(Topic(c1.entries, e.key))
        /\ Len(t) < MaxRecords
    BY Zenon DEF MadeRoom, MadeSpace
  <1>6. Cardinality(Topic(c1.entries, e.key)) \in Nat /\ Cardinality(Topic(t, e.key)) \in Nat
    BY <1>3, <1>4, TopicFinite, Zenon
  <1>7. Cardinality(Topic(t, e.key)) < MaxPerKey
    <2>1. \A a, b, x \in Nat : a <= b /\ b < x => a < x
      OBVIOUS
    <2> QED BY <1>5, <1>6, <2>1, Zenon
  <1>8. ASSUME NEW j \in 1 .. Len(t) PROVE ~SameRecord(e, t[j])
    <2>1. PICK m \in 1 .. Len(c1.entries) : t[j] = c1.entries[m]
      BY Zenon DEF MadeSpace
    <2>2. PICK x \in 1 .. Len(s) : c1.entries[m] = s[x]
      BY Zenon DEF MadeRoom
    <2> QED BY <2>1, <2>2, Zenon
  <1> HIDE DEF s, t
  <1>9. Listed(u, B)
    BY <1>3, <1>7, <1>8, ListedAppend, Zenon
  <1>10. /\ Len(u) = Len(t) + 1 /\ u[Len(t) + 1] = e /\ \A j \in 1 .. Len(t) : u[j] = t[j]
    BY <1>3, SeqAppend
  <1> HIDE DEF u, B
  <1>11. Len(t) + 1 = Len(u) /\ c2.total + 1 = Len(u) /\ Len(u) <= MaxRecords
         /\ \A j \in 1 .. Len(t) : j \in 1 .. Len(u)
    BY <1>3, <1>5, <1>10
  <1>12. RecordsOK(d)
    BY <1>9, <1>11, RecordsMade, Zenon
  <1>13. d.entries = u /\ d.total = Len(u)
    BY <1>11
  <1>14. d = Pushed(c2, e)
    BY Zenon DEF Pushed, u, B, t
  <1> HIDE DEF d
  <1>15. ASSUME NEW m \in 1 .. Len(s), NEW j \in 1 .. Len(t), t[j] = s[m]
         PROVE  \E x \in 1 .. Len(u) : SameRecord(s[m], u[x])
    BY <1>10, <1>11, <1>15, Zenon DEF SameRecord
  <1>16. ASSUME NEW m \in 1 .. Len(s)
         PROVE  (\E x \in 1 .. Len(u) : SameRecord(s[m], u[x])) \/ Gone(c, d, s[m])
    <2>1. CASE c1 = c
      <3>1. CASE c2 = c1
        <4>1. s = t
          BY <2>1, <3>1, Zenon DEF s, t
        <4> QED BY <1>15, <4>1, Zenon
      <3>2. CASE c2 # c1
        <4>1. /\ Len(s) = MaxRecords /\ Len(t) = MaxRecords - 1
              /\ \/ \E j \in 1 .. Len(t) : t[j] = s[m]
                 \/ s[m] = s[1]
          BY <2>1, <3>2, Zenon DEF MadeSpace, s, t
        <4>2. d.total = MaxRecords
          BY <1>11, <1>13, <4>1
        <4> QED BY <1>1, <1>15, <4>1, <4>2, Zenon DEF Gone, s
      <3> QED BY <3>1, <3>2, Zenon
    <2>2. CASE c1 # c
      <3>1. /\ Len(c1.entries) = Len(s) - 1
            /\ Cardinality(Topic(s, e.key)) = MaxPerKey
            /\ Cardinality(Topic(c1.entries, e.key)) = MaxPerKey - 1
            /\ \/ \E j \in 1 .. Len(c1.entries) : c1.entries[j] = s[m]
               \/ s[m].key = e.key /\ s[m] = BucketOf(c, e.key)[1]
        BY <2>2, Zenon DEF MadeRoom, s
      <3>2. Len(c1.entries) # MaxRecords
        BY <1>1, <3>1
      <3>3. c2 = c1
        BY <3>2, Zenon DEF MadeSpace
      <3>4. CASE \E j \in 1 .. Len(c1.entries) : c1.entries[j] = s[m]
        BY <1>15, <3>3, <3>4, Zenon DEF t
      <3>5. CASE s[m].key = e.key /\ s[m] = BucketOf(c, e.key)[1]
        <4>1. Len(BucketOf(c, e.key)) = MaxPerKey
          BY <1>1, <3>1, BucketPlaces, Zenon DEF s
        <4>2. Cardinality(Topic(u, e.key)) = Cardinality(Topic(t, e.key)) + 1
          BY <1>3, TopicAppend, Zenon DEF u
        <4>3. Cardinality(Topic(t, e.key)) = MaxPerKey - 1
          BY <3>1, <3>3, Zenon DEF t
        <4>4. Cardinality(Topic(u, e.key)) = MaxPerKey
          BY <4>2, <4>3
        <4>5. IsSeq(d.entries)
          BY <1>9, <1>13, Zenon DEF Listed
        <4>6. Len(BucketOf(d, e.key)) = MaxPerKey
          BY <1>13, <4>4, <4>5, BucketPlaces, Zenon
        <4> QED BY <3>5, <4>1, <4>6, Zenon DEF Gone
      <3> QED BY <3>1, <3>4, <3>5, Zenon
    <2> QED BY <2>1, <2>2, Zenon
  <1>17. Added(c, d)
    BY <1>12, <1>13, <1>16, Zenon DEF Added, s
  <1> QED BY <1>14, <1>17, Zenon

\* An announcement keeps the cache in order.
LEMMA RecordAddOK ==
  ASSUME NEW c, RecordsOK(c), NEW key, NEW public_key, NEW record, key # public_key,
         MaxRecords \in Nat, MaxRecords # 0, MaxPerKey \in Nat, MaxPerKey # 0
  PROVE  Added(c, RecordAdd(c, key, public_key, record))
  <1> DEFINE e == [key |-> key, public_key |-> public_key, record |-> record, age |-> 0]
             s == c.entries
             same == RecordsOf(c, key, public_key)
  <1>1. IsRecord(e) /\ e.key = key /\ e.public_key = public_key
    BY NewRecord, Zenon
  <1>2. /\ IsSeq(s) /\ Len(s) \in Nat /\ DOMAIN s = 1 .. Len(s) /\ Listed(s, c.buckets)
    BY RecordsParts, Zenon
  <1>3. RecordAdd(c, key, public_key, record) =
           IF same # {} THEN [c EXCEPT !.entries = Append(Only(c.entries, (DOMAIN c.entries) \ First(same)), e)]
           ELSE Pushed(EvictOldest(RoomInBucket(c, key)), e)
    BY Zenon DEF RecordAdd
  <1>4. \A i : i \in same <=> i \in 1 .. Len(s) /\ s[i].key = key /\ s[i].public_key = public_key
    BY <1>2, Zenon DEF RecordsOf, InBucket
  <1> HIDE DEF e, same
  <1>5. \A i \in 1 .. Len(s) : i \in same <=> SameRecord(e, s[i])
    BY <1>1, <1>4, Zenon DEF SameRecord
  <1>6. CASE same # {}
    <2>1. same \in SUBSET Nat
      <3>1. \A x \in 1 .. Len(s) : x \in Nat
        OBVIOUS
      <3> QED BY <1>4, <3>1, Zenon
    <2>2. PICK i \in same : First(same) = {i}
      BY <1>6, <2>1, FirstIs, Zenon
    <2>3. i \in 1 .. Len(s) /\ SameRecord(e, s[i])
      BY <1>4, <1>5, <2>2, Zenon
    <2>4. Added(c, [c EXCEPT !.entries = Append(Only(c.entries, (DOMAIN c.entries) \ {i}), e)])
      BY <1>1, <2>3, RenewOK, Zenon
    <2> QED BY <1>3, <1>6, <2>2, <2>4, Zenon
  <1>7. CASE same = {}
    <2> DEFINE c1 == RoomInBucket(c, key)
               c2 == EvictOldest(c1)
    <2>1. MadeRoom(c, c1, e.key)
      BY <1>1, RoomInBucketOK, Zenon
    <2>2. RecordsOK(c1)
      BY <2>1, Zenon DEF MadeRoom
    <2>3. MadeSpace(c1, c2)
      BY <2>2, EvictOldestOK, Zenon
    <2>4. \A m \in 1 .. Len(c.entries) : ~SameRecord(e, c.entries[m])
      BY <1>5, <1>7, Zenon
    <2> HIDE DEF c1, c2
    <2>5. Added(c, Pushed(c2, e))
      BY <1>1, <2>1, <2>3, <2>4, PushOK, Zenon
    <2> QED BY <1>3, <1>7, <2>5, Zenon DEF c1, c2
  <1> QED BY <1>6, <1>7, Zenon

----------------------------------------------------------------------------
(* Removing, pruning and ageing records.                                   *)

\* What a removal takes away.
Removed(c, d, key, public_key) ==
    /\ RecordsOK(d)
    /\ \A m \in 1 .. Len(c.entries) :
          \/ \E j \in 1 .. Len(d.entries) : d.entries[j] = c.entries[m]
          \/ c.entries[m].key = key /\ c.entries[m].public_key = public_key

\* An unannouncement takes away the record of that peer.
LEMMA RecordRemoveOK ==
  ASSUME NEW c, RecordsOK(c), NEW key, NEW public_key, MaxRecords \in Nat, MaxPerKey \in Nat
  PROVE  Removed(c, RecordRemove(c, key, public_key), key, public_key)
  <1> DEFINE s == c.entries
             I == (DOMAIN c.entries) \ RecordsOf(c, key, public_key)
             d == Retained(c, I)
             r == WithoutEmpty(d, key)
  <1>1. IsSeq(s) /\ DOMAIN s = 1 .. Len(s)
    BY RecordsParts, Zenon
  <1>2. \A i \in 1 .. Len(s) : i \in I \/ (s[i].key = key /\ s[i].public_key = public_key)
    BY <1>1, Zenon DEF RecordsOf, InBucket
  <1>3. r = RecordRemove(c, key, public_key)
    BY Zenon DEF RecordRemove
  <1> HIDE DEF I, r
  <1>4. RecordsOK(d) /\ d.entries = Only(s, I)
    BY RetainedOK, Zenon
  <1> HIDE DEF d
  <1>5. RecordsOK(r) /\ r.entries = Only(s, I)
    BY <1>4, WithoutEmptyOK, Zenon DEF r
  <1> HIDE DEF s
  <1>6. \A i \in 1 .. Len(s) : i \in I => \E j \in 1 .. Len(r.entries) : r.entries[j] = s[i]
    <2>1. Stays(s, I, r.entries)
      BY <1>1, <1>5, OnlyStays, Zenon
    <2> QED BY <2>1, Zenon DEF Stays
  <1>7. Removed(c, r, key, public_key)
    BY <1>2, <1>5, <1>6, Zenon DEF Removed, s
  <1> QED BY <1>3, <1>7, Zenon

\* What a lookup drops.
Pruned(c, d) ==
    /\ RecordsOK(d)
    /\ \A m \in 1 .. Len(c.entries) :
          \/ \E j \in 1 .. Len(d.entries) : d.entries[j] = c.entries[m]
          \/ ~(c.entries[m].age < MaxRecordAge)

\* Only what has expired.
LEMMA RecordPruneOK ==
  ASSUME NEW c, RecordsOK(c), NEW key, MaxRecords \in Nat, MaxPerKey \in Nat
  PROVE  Pruned(c, RecordPrune(c, key))
  <1> DEFINE s == c.entries
             I == {i \in DOMAIN c.entries : c.entries[i].key # key \/ c.entries[i].age < MaxRecordAge}
             d == Retained(c, I)
  <1>1. IsSeq(s) /\ DOMAIN s = 1 .. Len(s)
    BY RecordsParts, Zenon
  <1>2. \A i \in 1 .. Len(s) : i \in I \/ ~(s[i].age < MaxRecordAge)
    BY <1>1, Zenon
  <1>3. d = RecordPrune(c, key)
    BY Zenon DEF RecordPrune
  <1> HIDE DEF I
  <1>4. RecordsOK(d) /\ d.entries = Only(s, I)
    BY RetainedOK, Zenon
  <1> HIDE DEF d, s
  <1>5. \A i \in 1 .. Len(s) : i \in I => \E j \in 1 .. Len(d.entries) : d.entries[j] = s[i]
    <2>1. Stays(s, I, d.entries)
      BY <1>1, <1>4, OnlyStays, Zenon
    <2> QED BY <2>1, Zenon DEF Stays
  <1>6. Pruned(c, d)
    BY <1>2, <1>4, <1>5, Zenon DEF Pruned, s
  <1> QED BY <1>3, <1>6, Zenon

\* An age after a step of time.
LEMMA OlderAge ==
  ASSUME NEW max \in Nat, NEW a \in Nat
  PROVE  LET b == IF a < max THEN a + 1 ELSE a IN b \in Nat /\ a <= b
  OBVIOUS

\* A record that is older is the same one.
LEMMA OlderRecord ==
  ASSUME NEW e, IsRecord(e), NEW b \in Nat, NEW f, f = [e EXCEPT !.age = b]
  PROVE  IsRecord(f) /\ f.key = e.key /\ f.public_key = e.public_key
  <1> DEFINE k == e.key
             p == e.public_key
             r == e.record
             a == e.age
             g == [key |-> k, public_key |-> p, record |-> r, age |-> b]
  <1>1. e = [key |-> k, public_key |-> p, record |-> r, age |-> a] /\ k # p
    BY Zenon DEF IsRecord
  <1> HIDE DEF k, p, r, a
  <1>2. f = g
    BY <1>1
  <1>3. g.key = k /\ g.public_key = p /\ g.record = r /\ g.age = b
    OBVIOUS
  <1> HIDE DEF g
  <1>4. IsRecord(g)
    BY <1>1, <1>3, Zenon DEF IsRecord, g
  <1> QED BY <1>2, <1>3, <1>4, Zenon DEF k, p

\* A sequence of as many places.
LEMMA SameLen ==
  ASSUME NEW s, IsSeq(s), NEW g, DOMAIN g = DOMAIN s, g = [i \in DOMAIN s |-> g[i]]
  PROVE  IsSeq(g) /\ Len(g) = Len(s)
  <1>1. Len(s) \in Nat /\ DOMAIN s = 1 .. Len(s)
    BY SeqPlaces, Zenon
  <1>2. g \in Seq(Range(g))
    BY <1>1 DEF Range
  <1>3. Len(g) = Len(s)
    BY <1>1, <1>2
  <1> QED BY <1>2, <1>3, Zenon DEF IsSeq

\* What time does to a sequence of entries.
LEMMA OlderIs ==
  ASSUME NEW s, IsSeq(s), NEW max
  PROVE  /\ IsSeq(Older(s, max)) /\ Len(Older(s, max)) = Len(s)
         /\ \A i \in 1 .. Len(s) :
               Older(s, max)[i] = [s[i] EXCEPT !.age = IF s[i].age < max THEN s[i].age + 1 ELSE s[i].age]
  <1>1. Len(s) \in Nat /\ DOMAIN s = 1 .. Len(s)
    BY SeqPlaces, Zenon
  <1> DEFINE x(i) == [s[i] EXCEPT !.age = IF s[i].age < max THEN s[i].age + 1 ELSE s[i].age]
             g == [i \in DOMAIN s |-> x(i)]
  <1>2. g = Older(s, max)
    BY Zenon DEF Older
  <1> HIDE DEF x
  <1>3. DOMAIN g = DOMAIN s /\ g = [i \in DOMAIN s |-> g[i]] /\ \A i \in 1 .. Len(s) : g[i] = x(i)
    BY <1>1, Zenon
  <1> HIDE DEF g
  <1>4. IsSeq(g) /\ Len(g) = Len(s)
    BY <1>3, SameLen, Zenon
  <1> QED BY <1>2, <1>3, <1>4, Zenon DEF x

----------------------------------------------------------------------------
(* The bounded caches (LruCache).                                          *)

\* Time keeps the records of a cache.
LEMMA OlderListed ==
  ASSUME NEW s, NEW B, Listed(s, B), NEW max \in Nat
  PROVE  Listed(Older(s, max), B)
  <1> DEFINE t == Older(s, max)
  <1>1. IsSeq(s)
    BY Zenon DEF Listed
  <1>2. /\ IsSeq(t) /\ Len(t) = Len(s)
        /\ \A i \in 1 .. Len(s) :
              t[i] = [s[i] EXCEPT !.age = IF s[i].age < max THEN s[i].age + 1 ELSE s[i].age]
    BY <1>1, OlderIs, Zenon
  <1> HIDE DEF t
  <1>3. ASSUME NEW i \in 1 .. Len(s)
        PROVE  IsRecord(t[i]) /\ t[i].key = s[i].key /\ t[i].public_key = s[i].public_key
    <2> DEFINE b == IF s[i].age < max THEN s[i].age + 1 ELSE s[i].age
    <2>1. IsRecord(s[i]) /\ s[i].age \in Nat
      BY Zenon DEF Listed, IsRecord
    <2>2. b \in Nat
      BY <2>1, OlderAge, Zenon
    <2>3. t[i] = [s[i] EXCEPT !.age = b]
      BY <1>2, Zenon
    <2> HIDE DEF b
    <2> DEFINE f == t[i]
               e == s[i]
    <2>4. IsRecord(e) /\ f = [e EXCEPT !.age = b]
      BY <2>1, <2>3, Zenon
    <2> HIDE DEF f, e
    <2>5. IsRecord(f) /\ f.key = e.key /\ f.public_key = e.public_key
      BY <2>2, <2>4, OlderRecord, Zenon
    <2> QED BY <2>5, Zenon DEF f, e
  <1>4. \A k : Topic(t, k) = Topic(s, k)
    BY <1>2, <1>3, Zenon DEF Topic
  <1>5. ASSUME NEW i \in 1 .. Len(t)
        PROVE  /\ IsRecord(t[i]) /\ t[i].key \in B
               /\ Cardinality(Topic(t, t[i].key)) <= MaxPerKey
               /\ \A j \in 1 .. Len(t) : SameRecord(t[i], t[j]) => j = i
    <2>1. /\ IsRecord(s[i]) /\ s[i].key \in B
          /\ Cardinality(Topic(s, s[i].key)) <= MaxPerKey
          /\ \A j \in 1 .. Len(s) : SameRecord(s[i], s[j]) => j = i
      BY <1>2, Zenon DEF Listed
    <2>2. \A j \in 1 .. Len(t) : SameRecord(t[i], t[j]) => SameRecord(s[i], s[j])
      BY <1>2, <1>3, Zenon DEF SameRecord
    <2>3. t[i].key = s[i].key
      BY <1>2, <1>3, Zenon
    <2> QED BY <1>2, <1>3, <1>4, <2>1, <2>2, <2>3, Zenon
  <1>6. Listed(t, B)
    BY <1>2, <1>5, Zenon DEF Listed
  <1> QED BY <1>6, Zenon DEF t

\* An entry of a bounded cache.
IsEntry(e) == e = [key |-> e.key, value |-> e.value, age |-> e.age] /\ e.age \in Nat

\* LruOK in these terms.
LEMMA LruParts ==
  ASSUME NEW c
  PROVE  LruOK(c) <=>
            /\ IsSeq(c) /\ Len(c) <= MaxLruSize
            /\ \A i \in 1 .. Len(c) :
                  IsEntry(c[i]) /\ \A j \in 1 .. Len(c) : c[j].key = c[i].key => j = i
  <1>1. IsSeq(c) => DOMAIN c = 1 .. Len(c)
    BY SeqPlaces, Zenon
  <1>2. CASE IsSeq(c)
    BY <1>1, <1>2, Zenon DEF LruOK, IsEntry
  <1>3. CASE ~IsSeq(c)
    BY <1>3, Zenon DEF LruOK
  <1> QED BY <1>2, <1>3, Zenon

\* What a set does.
Replaced(c, d, k, v) ==
    /\ LruOK(d)
    /\ \A i \in 1 .. Len(d) : \/ d[i] = [key |-> k, value |-> v, age |-> 0]
                              \/ d[i].key # k /\ \E m \in 1 .. Len(c) : d[i] = c[m]
    /\ \E i \in 1 .. Len(d) : d[i] = [key |-> k, value |-> v, age |-> 0]

\* A full cache makes room.
LEMMA LruRoom ==
  ASSUME NEW c, LruOK(c), NEW I, MaxLruSize \in Nat, MaxLruSize # 0, Len(c) >= MaxLruSize => 1 \notin I
  PROVE  Len(Only(c, I)) + 1 <= MaxLruSize
  <1> DEFINE t == Only(c, I)
             P == {i \in 1 .. Len(c) : i \in I}
  <1>1. IsSeq(c) /\ Len(c) <= MaxLruSize
    BY LruParts, Zenon
  <1>2. Len(c) \in Nat
    BY <1>1, SeqPlaces, Zenon
  <1>3. Len(t) \in Nat /\ Len(t) <= Len(c) /\ Len(t) = Cardinality(P)
    BY <1>1, OnlySeq, Zenon
  <1> HIDE DEF t
  <1>4. CASE Len(c) < MaxLruSize
    BY <1>2, <1>3, <1>4 DEF t
  <1>5. CASE ~(Len(c) < MaxLruSize)
    <2>1. Len(c) = MaxLruSize /\ Len(c) >= MaxLruSize /\ 1 \in 1 .. Len(c)
      BY <1>1, <1>2, <1>5
    <2>2. P \subseteq (1 .. Len(c)) \ {1}
      BY <2>1, Zenon
    <2>3. IsFiniteSet(1 .. Len(c)) /\ Cardinality(1 .. Len(c)) = Len(c)
      <3>1. 1 \in Int /\ Len(c) \in Int
        BY <1>2
      <3>2. IsFiniteSet(1 .. Len(c)) /\ Cardinality(1 .. Len(c)) = IF 1 > Len(c) THEN 0 ELSE Len(c) - 1 + 1
        BY <3>1, FS_Interval, Zenon
      <3>3. Cardinality(1 .. Len(c)) = Len(c)
        BY <1>2, <3>2
      <3> QED BY <3>2, <3>3, Zenon
    <2> HIDE DEF P
    <2> DEFINE Q == (1 .. Len(c)) \ {1}
    <2>4. IsFiniteSet(Q) /\ Cardinality(Q) = Len(c) - 1
      BY <2>1, <2>3, FS_RemoveElement, Zenon
    <2> HIDE DEF Q
    <2>5. Cardinality(P) <= Cardinality(Q)
      BY <2>2, <2>4, FS_Subset, Zenon DEF Q
    <2> QED BY <1>2, <1>3, <2>1, <2>4, <2>5 DEF t
  <1> QED BY <1>4, <1>5, Zenon

\* A new entry is one.
LEMMA NewEntry ==
  ASSUME NEW k, NEW v
  PROVE  LET e == [key |-> k, value |-> v, age |-> 0] IN IsEntry(e) /\ e.key = k /\ e.value = v /\ e.age = 0
  <1> DEFINE e == [key |-> k, value |-> v, age |-> 0]
  <1>1. e.key = k /\ e.value = v /\ e.age = 0
    OBVIOUS
  <1> HIDE DEF e
  <1>2. e = [key |-> e.key, value |-> e.value, age |-> e.age]
    BY <1>1, Zenon DEF e
  <1>3. 0 \in Nat
    OBVIOUS
  <1>4. IsEntry(e)
    BY <1>1, <1>2, <1>3, Zenon DEF IsEntry
  <1> QED BY <1>1, <1>4, Zenon DEF e

\* A set replaces the entry of its key, or takes a place.
LEMMA LruSetOK ==
  ASSUME NEW c, LruOK(c), NEW k, NEW v, MaxLruSize \in Nat, MaxLruSize # 0
  PROVE  Replaced(c, LruSet(c, k, v), k, v)
  <1> DEFINE I == {i \in DOMAIN c : c[i].key # k /\ (Len(c) >= MaxLruSize => i # 1)}
             t == Only(c, I)
             e == [key |-> k, value |-> v, age |-> 0]
             d == Append(t, e)
  <1>1. /\ IsSeq(c) /\ Len(c) <= MaxLruSize
        /\ \A i \in 1 .. Len(c) :
              IsEntry(c[i]) /\ \A j \in 1 .. Len(c) : c[j].key = c[i].key => j = i
    BY LruParts, Zenon
  <1>2. d = LruSet(c, k, v)
    BY Zenon DEF LruSet
  <1>3. IsEntry(e) /\ e.key = k
    BY NewEntry, Zenon
  <1>4. (Len(c) >= MaxLruSize => 1 \notin I) /\ \A i \in I : c[i].key # k
    BY Zenon
  <1> HIDE DEF I, e
  <1>5. IsSeq(t) /\ Len(t) \in Nat /\ Len(t) <= Len(c)
    BY <1>1, OnlySeq, Zenon
  <1>6. Len(t) + 1 <= MaxLruSize
    BY <1>4, LruRoom, Zenon
  <1>7. PICK f : Placed(f, c, I, t, Len(c))
    BY <1>1, OnlySeq, Zenon
  <1> HIDE DEF t
  <1>8. /\ IsSeq(d) /\ Len(d) = Len(t) + 1 /\ d[Len(t) + 1] = e /\ \A i \in 1 .. Len(t) : d[i] = t[i]
    BY <1>5, SeqAppend
  <1> HIDE DEF d
  <1>9. ASSUME NEW i \in 1 .. Len(t)
        PROVE  f[i] \in 1 .. Len(c) /\ t[i] = c[f[i]] /\ t[i].key # k /\ IsEntry(t[i])
    <2>1. f[i] \in 1 .. Len(c) /\ f[i] \in I /\ t[i] = c[f[i]]
      BY <1>7, Zenon DEF Placed
    <2> QED BY <1>1, <1>4, <2>1, Zenon
  <1>10. ASSUME NEW i \in 1 .. Len(t), NEW j \in 1 .. Len(t), t[i].key = t[j].key
         PROVE  i = j
    <2>1. f[i] \in 1 .. Len(c) /\ f[j] \in 1 .. Len(c) /\ c[f[i]].key = c[f[j]].key
      BY <1>9, <1>10, Zenon
    <2>2. f[i] = f[j]
      BY <1>1, <2>1, Zenon
    <2> QED BY <1>5, <1>7, <2>2, PlacedApart, Zenon
  <1>11. \A i \in 1 .. Len(d) : i \in 1 .. Len(t) \/ i = Len(t) + 1
    BY <1>5, <1>8
  <1>12. Len(t) + 1 \in 1 .. Len(d)
    BY <1>5, <1>8
  <1>13. ASSUME NEW i \in 1 .. Len(d)
         PROVE  IsEntry(d[i]) /\ \A j \in 1 .. Len(d) : d[j].key = d[i].key => j = i
    <2>1. IsEntry(d[i])
      BY <1>3, <1>8, <1>9, <1>11, Zenon
    <2>2. ASSUME NEW j \in 1 .. Len(d), d[j].key = d[i].key PROVE j = i
      <3>1. CASE i \in 1 .. Len(t) /\ j \in 1 .. Len(t)
        BY <1>8, <1>10, <2>2, <3>1, Zenon
      <3>2. CASE i \in 1 .. Len(t) /\ j = Len(t) + 1
        BY <1>3, <1>8, <1>9, <2>2, <3>2, Zenon
      <3>3. CASE i = Len(t) + 1 /\ j \in 1 .. Len(t)
        BY <1>3, <1>8, <1>9, <2>2, <3>3, Zenon
      <3>4. CASE i = Len(t) + 1 /\ j = Len(t) + 1
        BY <3>4, Zenon
      <3> QED BY <1>11, <3>1, <3>2, <3>3, <3>4, Zenon
    <2> QED BY <2>1, <2>2, Zenon
  <1>14. LruOK(d)
    BY <1>6, <1>8, <1>13, LruParts, Zenon
  <1>15. \A i \in 1 .. Len(d) : \/ d[i] = e
                                \/ d[i].key # k /\ \E m \in 1 .. Len(c) : d[i] = c[m]
    BY <1>8, <1>9, <1>11, Zenon
  <1>16. Replaced(c, d, k, v)
    BY <1>8, <1>12, <1>14, <1>15, Zenon DEF Replaced, e
  <1> QED BY <1>2, <1>16, Zenon

\* Another age.
WithAge(f, e, b) == f = [e EXCEPT !.age = b]

\* An entry that is older is the same one.
LEMMA OlderEntry ==
  ASSUME NEW e, IsEntry(e), NEW b \in Nat, NEW f, WithAge(f, e, b)
  PROVE  IsEntry(f) /\ f.key = e.key /\ f.value = e.value /\ f.age = b
  <1> DEFINE k == e.key
             v == e.value
             a == e.age
             g == [key |-> k, value |-> v, age |-> b]
  <1>1. e = [key |-> k, value |-> v, age |-> a]
    BY Zenon DEF IsEntry
  <1> HIDE DEF k, v, a
  <1>2. f = g
    BY <1>1 DEF WithAge
  <1>3. g.key = k /\ g.value = v /\ g.age = b
    OBVIOUS
  <1> HIDE DEF g
  <1>4. IsEntry(g)
    BY <1>1, <1>3, Zenon DEF IsEntry, g
  <1> QED BY <1>2, <1>3, <1>4, Zenon DEF k, v

\* What time does to a bounded cache.
Ripened(c, d) ==
    /\ LruOK(d) /\ Len(d) = Len(c)
    /\ \A i \in 1 .. Len(c) : d[i].key = c[i].key /\ d[i].value = c[i].value /\ c[i].age <= d[i].age

\* It keeps keys and values.
LEMMA LruOlderOK ==
  ASSUME NEW c, LruOK(c), NEW max \in Nat
  PROVE  Ripened(c, Older(c, max))
  <1> DEFINE d == Older(c, max)
  <1>1. /\ IsSeq(c) /\ Len(c) <= MaxLruSize
        /\ \A i \in 1 .. Len(c) :
              IsEntry(c[i]) /\ \A j \in 1 .. Len(c) : c[j].key = c[i].key => j = i
    BY LruParts, Zenon
  <1>2. /\ IsSeq(d) /\ Len(d) = Len(c)
        /\ \A i \in 1 .. Len(c) :
              d[i] = [c[i] EXCEPT !.age = IF c[i].age < max THEN c[i].age + 1 ELSE c[i].age]
    BY <1>1, OlderIs, Zenon
  <1> HIDE DEF d
  <1>3. ASSUME NEW i \in 1 .. Len(c)
        PROVE  IsEntry(d[i]) /\ d[i].key = c[i].key /\ d[i].value = c[i].value /\ c[i].age <= d[i].age
    <2> DEFINE a == c[i].age
               b == IF a < max THEN a + 1 ELSE a
               f == d[i]
               e == c[i]
    <2>1. IsEntry(e) /\ e.age = a /\ a \in Nat
      BY <1>1, Zenon DEF IsEntry
    <2>2. WithAge(f, e, b)
      BY <1>2, Zenon DEF WithAge
    <2> HIDE DEF a, e, f
    <2>3. b \in Nat /\ a <= b
      <3>1. a \in Nat
        BY <2>1, Zenon
      <3>2. \A x, y \in Nat : LET z == IF x < y THEN x + 1 ELSE x IN z \in Nat /\ x <= z
        OBVIOUS
      <3> QED BY <3>1, <3>2, Zenon
    <2> HIDE DEF b
    <2>4. IsEntry(f) /\ f.key = e.key /\ f.value = e.value /\ f.age = b
      BY <2>1, <2>2, <2>3, OlderEntry, Zenon
    <2> QED BY <2>1, <2>3, <2>4, Zenon DEF e, f
  <1>4. \A i \in 1 .. Len(d) :
           IsEntry(d[i]) /\ \A j \in 1 .. Len(d) : d[j].key = d[i].key => j = i
    BY <1>1, <1>2, <1>3, Zenon
  <1>5. LruOK(d)
    BY <1>1, <1>2, <1>4, LruParts, Zenon
  <1>6. Ripened(c, d)
    BY <1>2, <1>3, <1>5, Zenon DEF Ripened
  <1> QED BY <1>6, Zenon DEF d

\* The value a cache would give out for a key.
Held(c, k, v) == \E i \in 1 .. Len(c) : c[i].key = k /\ c[i].age < MaxLruAge /\ c[i].value = v

\* What LruGet returns.
Gets(g, c, k) ==
    /\ IsSeq(g)
    /\ \A i \in 1 .. Len(g) : Held(c, k, g[i])
    /\ \A v : Held(c, k, v) => \E i \in 1 .. Len(g) : g[i] = v
    /\ \A v, w : Held(c, k, v) /\ Held(c, k, w) => v = w

\* It returns the live value of the key, if there is one.
LEMMA LruGetIs ==
  ASSUME NEW c, LruOK(c), NEW k
  PROVE  Gets(LruGet(c, k), c, k)
  <1> DEFINE I == {i \in DOMAIN c : c[i].key = k /\ c[i].age < MaxLruAge}
             t == Only(c, I)
             g == [i \in DOMAIN t |-> t[i].value]
  <1>1. /\ IsSeq(c) /\ Len(c) <= MaxLruSize
        /\ \A i \in 1 .. Len(c) :
              IsEntry(c[i]) /\ \A j \in 1 .. Len(c) : c[j].key = c[i].key => j = i
    BY LruParts, Zenon
  <1>2. DOMAIN c = 1 .. Len(c)
    BY <1>1, SeqPlaces, Zenon
  <1>3. g = LruGet(c, k)
    BY Zenon DEF LruGet
  <1>4. \A i : i \in I <=> i \in 1 .. Len(c) /\ c[i].key = k /\ c[i].age < MaxLruAge
    BY <1>2, Zenon
  <1> HIDE DEF I
  <1>5. IsSeq(t)
    BY <1>1, OnlySeq, Zenon
  <1>6. Stays(c, I, t)
    BY <1>1, OnlyStays, Zenon
  <1> HIDE DEF t
  <1>7. DOMAIN t = 1 .. Len(t)
    BY <1>5, SeqPlaces, Zenon
  <1>8. DOMAIN g = DOMAIN t /\ g = [i \in DOMAIN t |-> g[i]] /\ \A i \in 1 .. Len(t) : g[i] = t[i].value
    BY <1>7, Zenon
  <1> HIDE DEF g
  <1>9. IsSeq(g) /\ Len(g) = Len(t)
    BY <1>5, <1>8, SameLen, Zenon
  <1>10. ASSUME NEW i \in 1 .. Len(g) PROVE Held(c, k, g[i])
    <2>1. PICK m \in 1 .. Len(c) : m \in I /\ t[i] = c[m]
      BY <1>6, <1>9, Zenon DEF Stays
    <2> QED BY <1>4, <1>8, <1>9, <2>1, Zenon DEF Held
  <1>11. ASSUME NEW v, Held(c, k, v) PROVE \E i \in 1 .. Len(g) : g[i] = v
    <2>1. PICK m \in 1 .. Len(c) : c[m].key = k /\ c[m].age < MaxLruAge /\ c[m].value = v
      BY <1>11, Zenon DEF Held
    <2>2. PICK i \in 1 .. Len(t) : t[i] = c[m]
      BY <1>4, <1>6, <2>1, Zenon DEF Stays
    <2> QED BY <1>8, <1>9, <2>1, <2>2, Zenon
  <1>12. ASSUME NEW v, NEW w, Held(c, k, v), Held(c, k, w) PROVE v = w
    BY <1>1, <1>12, Zenon DEF Held
  <1>13. Gets(g, c, k)
    BY <1>9, <1>10, <1>11, <1>12, Zenon DEF Gets
  <1> QED BY <1>3, <1>13, Zenon

----------------------------------------------------------------------------
(* The storage as a whole, and announcements.                              *)

\* The bounds, as the lemmas use them.
LEMMA Bounds ==
  /\ MaxRecords \in Nat /\ MaxRecords # 0 /\ MaxPerKey \in Nat /\ MaxPerKey # 0
  /\ MaxLruSize \in Nat /\ MaxLruSize # 0 /\ MaxRecordAge \in Nat /\ MaxLruAge \in Nat
  /\ 0 < MaxLruAge
  BY StoreBoundAssumption

\* A cache of mutable records: their sequence numbers are numbers.
MutablesOK(m) == LruOK(m) /\ \A i \in 1 .. Len(m) : m[i].value.seq \in Nat

\* A storage made of its parts.
Parts(r, b, f, m, i, o) ==
    [records |-> r, bumps |-> b, refreshes |-> f, mutables |-> m, immutables |-> i, router |-> o]

\* It is nothing but its parts.
IsStorage(st) == st = Parts(st.records, st.bumps, st.refreshes, st.mutables, st.immutables, st.router)

\* A storage is in order when its parts are.
LEMMA StorageMade ==
  ASSUME NEW r, NEW b, NEW f, NEW m, NEW i, NEW o,
         RecordsOK(r), LruOK(b), LruOK(f), MutablesOK(m), LruOK(i)
  PROVE  /\ StorageOK(Parts(r, b, f, m, i, o))
         /\ Parts(r, b, f, m, i, o).records = r /\ Parts(r, b, f, m, i, o).mutables = m
  <1> DEFINE st == Parts(r, b, f, m, i, o)
  <1>1. /\ st.records = r /\ st.bumps = b /\ st.refreshes = f /\ st.mutables = m /\ st.immutables = i
        /\ st.router = o
    BY DEF Parts
  <1>2. DOMAIN m = 1 .. Len(m)
    BY LruParts, SeqPlaces, Zenon DEF MutablesOK
  <1>3. st = [records |-> r, bumps |-> b, refreshes |-> f, mutables |-> m, immutables |-> i, router |-> o]
    BY Zenon DEF Parts
  <1> HIDE DEF st
  <1>4. StorageOK(st)
    BY <1>1, <1>2, <1>3, Zenon DEF StorageOK, MutablesOK
  <1> QED BY <1>1, <1>4, Zenon DEF st

\* The parts of a storage.
LEMMA StorageParts ==
  ASSUME NEW st, StorageOK(st)
  PROVE  /\ IsStorage(st)
         /\ RecordsOK(st.records) /\ LruOK(st.bumps) /\ LruOK(st.refreshes) /\ MutablesOK(st.mutables)
         /\ LruOK(st.immutables)
  <1>1. DOMAIN st.mutables = 1 .. Len(st.mutables)
    BY LruParts, SeqPlaces, Zenon DEF StorageOK
  <1> QED BY <1>1, Zenon DEF StorageOK, MutablesOK, Parts, IsStorage

\* Storages with other parts.
LEMMA OtherPart ==
  ASSUME NEW st, IsStorage(st), NEW x
  PROVE  /\ [st EXCEPT !.records = x] =
              Parts(x, st.bumps, st.refreshes, st.mutables, st.immutables, st.router)
         /\ [st EXCEPT !.mutables = x] =
              Parts(st.records, st.bumps, st.refreshes, x, st.immutables, st.router)
         /\ [st EXCEPT !.immutables = x] =
              Parts(st.records, st.bumps, st.refreshes, st.mutables, x, st.router)
  <1> DEFINE r == st.records
             b == st.bumps
             f == st.refreshes
             m == st.mutables
             i == st.immutables
             o == st.router
  <1>1. st = Parts(r, b, f, m, i, o)
    BY Zenon DEF IsStorage
  <1> HIDE DEF r, b, f, m, i, o
  <1>2. [st EXCEPT !.records = x] = Parts(x, b, f, m, i, o)
    BY <1>1 DEF Parts
  <1>3. [st EXCEPT !.mutables = x] = Parts(r, b, f, x, i, o)
    BY <1>1 DEF Parts
  <1>4. [st EXCEPT !.immutables = x] = Parts(r, b, f, m, x, o)
    BY <1>1 DEF Parts
  <1> QED BY <1>2, <1>3, <1>4, Zenon DEF r, b, f, m, i, o

\* A storage with other records and another entry of its own.
LEMMA OtherParts ==
  ASSUME NEW st, IsStorage(st), NEW x, NEW y
  PROVE  [st EXCEPT !.records = x, !.router = y] =
            Parts(x, st.bumps, st.refreshes, st.mutables, st.immutables, y)
  <1> DEFINE r == st.records
             b == st.bumps
             f == st.refreshes
             m == st.mutables
             i == st.immutables
             o == st.router
  <1>1. st = Parts(r, b, f, m, i, o)
    BY Zenon DEF IsStorage
  <1>2. [st EXCEPT !.records = x, !.router = y] = [[st EXCEPT !.records = x] EXCEPT !.router = y]
    OBVIOUS
  <1> HIDE DEF r, b, f, m, i, o
  <1>3. [st EXCEPT !.records = x] = Parts(x, b, f, m, i, o)
    BY <1>1 DEF Parts
  <1>4. [Parts(x, b, f, m, i, o) EXCEPT !.router = y] = Parts(x, b, f, m, i, y)
    BY DEF Parts
  <1> QED BY <1>2, <1>3, <1>4, Zenon DEF b, f, m, i

\* The storages an announcement leaves.
WithSelf(st, x, y, z) == [st EXCEPT !.router = z, !.refreshes = y, !.records = x]
WithRecord(st, x, y, z) == [st EXCEPT !.records = x, !.refreshes = y, !.bumps = z]

\* A storage after an announcement of its own, or of a peer.
LEMMA MoreParts ==
  ASSUME NEW st, IsStorage(st), NEW x, NEW y, NEW z
  PROVE  /\ WithSelf(st, x, y, z) =
              Parts(x, st.bumps, y, st.mutables, st.immutables, z)
         /\ WithRecord(st, x, y, z) =
              Parts(x, z, y, st.mutables, st.immutables, st.router)
  <1> DEFINE r == st.records
             b == st.bumps
             f == st.refreshes
             m == st.mutables
             i == st.immutables
             o == st.router
  <1>1. st = Parts(r, b, f, m, i, o)
    BY Zenon DEF IsStorage
  <1>2. /\ [st EXCEPT !.router = z, !.refreshes = y, !.records = x]
             = [[[st EXCEPT !.router = z] EXCEPT !.refreshes = y] EXCEPT !.records = x]
        /\ [st EXCEPT !.records = x, !.refreshes = y, !.bumps = z]
             = [[[st EXCEPT !.records = x] EXCEPT !.refreshes = y] EXCEPT !.bumps = z]
    OBVIOUS
  <1> HIDE DEF r, b, f, m, i, o
  <1>3. /\ [st EXCEPT !.router = z] = Parts(r, b, f, m, i, z)
        /\ [st EXCEPT !.records = x] = Parts(x, b, f, m, i, o)
    BY <1>1 DEF Parts
  <1>4. /\ [Parts(r, b, f, m, i, z) EXCEPT !.refreshes = y] = Parts(r, b, y, m, i, z)
        /\ [Parts(x, b, f, m, i, o) EXCEPT !.refreshes = y] = Parts(x, b, y, m, i, o)
    BY DEF Parts
  <1>5. /\ [Parts(r, b, y, m, i, z) EXCEPT !.records = x] = Parts(x, b, y, m, i, z)
        /\ [Parts(x, b, y, m, i, o) EXCEPT !.bumps = z] = Parts(x, z, y, m, i, o)
    BY DEF Parts
  <1> QED BY <1>2, <1>3, <1>4, <1>5, Zenon DEF b, m, i, o, WithSelf, WithRecord

\* A set keeps a cache in order.
LEMMA LruSetKeeps ==
  ASSUME NEW c, LruOK(c), NEW k, NEW v
  PROVE  LruOK(LruSet(c, k, v))
  BY Bounds, LruSetOK, Zenon DEF Replaced

\* What a lookup does to a storage.
Looked(st, st2) == StorageOK(st2) /\ Pruned(st.records, st2.records) /\ st2.mutables = st.mutables

\* A lookup drops what has expired.
LEMMA AfterLookupOK ==
  ASSUME NEW st, StorageOK(st), NEW target
  PROVE  Looked(st, AfterLookup(st, target))
  <1> DEFINE d == RecordPrune(st.records, target)
             st2 == Parts(d, st.bumps, st.refreshes, st.mutables, st.immutables, st.router)
  <1>0. /\ IsStorage(st)
        /\ RecordsOK(st.records) /\ LruOK(st.bumps) /\ LruOK(st.refreshes) /\ MutablesOK(st.mutables)
        /\ LruOK(st.immutables)
    BY StorageParts, Zenon
  <1>1. Pruned(st.records, d)
    BY <1>0, Bounds, RecordPruneOK, Zenon
  <1>2. RecordsOK(d)
    BY <1>1, Zenon DEF Pruned
  <1>3. AfterLookup(st, target) = st2
    <2>1. AfterLookup(st, target) = [st EXCEPT !.records = d]
      BY Zenon DEF AfterLookup
    <2> HIDE DEF d
    <2> QED BY <1>0, <2>1, OtherPart, Zenon
  <1> HIDE DEF d
  <1>4. StorageOK(st2) /\ st2.records = d /\ st2.mutables = st.mutables
    BY <1>0, <1>2, StorageMade
  <1> QED BY <1>1, <1>3, <1>4, Zenon DEF Looked

\* What an announcement does to a storage.
Announced(st, st2) == StorageOK(st2) /\ Added(st.records, st2.records) /\ st2.mutables = st.mutables

\* An announcement that changes nothing.
LEMMA NothingAnnounced ==
  ASSUME NEW st, StorageOK(st)
  PROVE  Announced(st, st)
  <1>1. RecordsOK(st.records)
    BY StorageParts, Zenon
  <1>2. \A m \in 1 .. Len(st.records.entries) :
           SameRecord(st.records.entries[m], st.records.entries[m])
    BY Zenon DEF SameRecord
  <1>3. Added(st.records, st.records)
    BY <1>1, <1>2, Zenon DEF Added
  <1> QED BY <1>3, Zenon DEF Announced

\* A record is of a peer other than its topic, so that the removal of a peer
\* under its own key removes nothing.
LEMMA SelfRemoves ==
  ASSUME NEW c, RecordsOK(c), NEW d, NEW key, Removed(c, d, key, key)
  PROVE  Added(c, d)
  <1>1. Listed(c.entries, c.buckets)
    BY Bounds, RecordsParts, Zenon
  <1>2. ASSUME NEW m \in 1 .. Len(c.entries)
        PROVE  \E j \in 1 .. Len(d.entries) : SameRecord(c.entries[m], d.entries[j])
    <2>1. c.entries[m].key # c.entries[m].public_key
      BY <1>1, Zenon DEF Listed, IsRecord
    <2>2. \/ \E j \in 1 .. Len(d.entries) : d.entries[j] = c.entries[m]
          \/ c.entries[m].key = key /\ c.entries[m].public_key = key
      BY Zenon DEF Removed
    <2>3. PICK j \in 1 .. Len(d.entries) : d.entries[j] = c.entries[m]
      BY <2>1, <2>2, Zenon
    <2>4. SameRecord(c.entries[m], d.entries[j])
      BY <2>3, Zenon DEF SameRecord
    <2> QED BY <2>4, Zenon
  <1>3. RecordsOK(d)
    BY Zenon DEF Removed
  <1> QED BY <1>2, <1>3, Zenon DEF Added

\* An announcement adds a record or an entry of the router.
LEMMA StoreAnnounceOK ==
  ASSUME NEW st, StorageOK(st), NEW req, NEW peer
  PROVE  Announced(st, StoreAnnounce(st, req, peer))
  <1> DEFINE f == IF req.msg.refresh = <<>> THEN st.refreshes
                  ELSE LruSet(st.refreshes, req.msg.refresh[1], peer)
             o == [t \in DOMAIN st.router \cup {req.target} |->
                     IF t = req.target THEN peer ELSE st.router[t]]
             r1 == RecordRemove(st.records, req.target, peer.public_key)
             r2 == RecordAdd(st.records, req.target, peer.public_key, peer)
             b == IF req.msg.bump = 0 THEN st.bumps ELSE LruSet(st.bumps, req.target, req.msg.bump)
             new == StoreAnnounce(st, req, peer)
  <1>0. /\ IsStorage(st)
        /\ RecordsOK(st.records) /\ LruOK(st.bumps) /\ LruOK(st.refreshes) /\ MutablesOK(st.mutables)
        /\ LruOK(st.immutables)
    BY StorageParts, Zenon
  <1>1. LruOK(f)
    BY <1>0, LruSetKeeps, Zenon
  <1>2. LruOK(b)
    BY <1>0, LruSetKeeps, Zenon
  <1>3. peer.public_key = req.target => new = WithSelf(st, r1, f, o)
    BY Zenon DEF StoreAnnounce, WithSelf
  <1>4. peer.public_key # req.target => new = WithRecord(st, r2, f, b)
    BY DEF StoreAnnounce, WithRecord
  <1>5. Removed(st.records, r1, req.target, peer.public_key)
    BY <1>0, Bounds, RecordRemoveOK, Zenon
  <1>6. peer.public_key # req.target => Added(st.records, r2)
    BY <1>0, Bounds, RecordAddOK, Zenon
  <1> HIDE DEF f, o, r1, r2, b, new
  <1>7. CASE peer.public_key = req.target
    <2>1. new = Parts(r1, st.bumps, f, st.mutables, st.immutables, o)
      <3>1. WithSelf(st, r1, f, o)
               = Parts(r1, st.bumps, f, st.mutables, st.immutables, o)
        BY <1>0, MoreParts, Zenon
      <3> QED BY <1>3, <1>7, <3>1, Zenon
    <2>2. Added(st.records, r1)
      BY <1>0, <1>5, <1>7, SelfRemoves, Zenon
    <2>3. RecordsOK(r1)
      BY <2>2, Zenon DEF Added
    <2>4. StorageOK(new) /\ new.records = r1 /\ new.mutables = st.mutables
      BY <1>0, <1>1, <2>1, <2>3, StorageMade
    <2> QED BY <2>2, <2>4, Zenon DEF Announced, new
  <1>8. CASE peer.public_key # req.target
    <2>1. new = Parts(r2, b, f, st.mutables, st.immutables, st.router)
      <3>1. WithRecord(st, r2, f, b)
               = Parts(r2, b, f, st.mutables, st.immutables, st.router)
        BY <1>0, MoreParts, Zenon
      <3> QED BY <1>4, <1>8, <3>1, Zenon
    <2>2. Added(st.records, r2)
      BY <1>6, <1>8, Zenon
    <2>3. RecordsOK(r2)
      BY <2>2, Zenon DEF Added
    <2>4. StorageOK(new) /\ new.records = r2 /\ new.mutables = st.mutables
      BY <1>0, <1>1, <1>2, <2>1, <2>3, StorageMade
    <2> QED BY <2>2, <2>4, Zenon DEF Announced, new
  <1> QED BY <1>7, <1>8, Zenon

\* A request to announce adds at most that.
LEMMA AfterAnnounceOK ==
  ASSUME NEW st, StorageOK(st), NEW req, NEW n
  PROVE  Announced(st, AfterAnnounce(st, req, n))
  BY StoreAnnounceOK, NothingAnnounced, Zenon DEF AfterAnnounce

----------------------------------------------------------------------------
(* Unannouncing, and mutable records.                                      *)

\* What an unannouncement does to a storage.
Unannounced(st, st2, key, public_key) ==
    /\ StorageOK(st2) /\ Removed(st.records, st2.records, key, public_key)
    /\ st2.mutables = st.mutables

\* A request to unannounce removes at most the record of the peer it names.
LEMMA AfterUnannounceOK ==
  ASSUME NEW st, StorageOK(st), NEW req, NEW n
  PROVE  Unannounced(st, AfterUnannounce(st, req, n), req.target, req.msg.peer[1].public_key)
  <1> DEFINE pk == req.msg.peer[1].public_key
             d == RecordRemove(st.records, req.target, pk)
             o == [t \in DOMAIN st.router \ {req.target} |-> st.router[t]]
             st2 == Parts(d, st.bumps, st.refreshes, st.mutables, st.immutables, o)
  <1>0. /\ IsStorage(st)
        /\ RecordsOK(st.records) /\ LruOK(st.bumps) /\ LruOK(st.refreshes) /\ MutablesOK(st.mutables)
        /\ LruOK(st.immutables)
    BY StorageParts, Zenon
  <1>1. Removed(st.records, d, req.target, pk)
    BY <1>0, Bounds, RecordRemoveOK, Zenon
  <1>2. AcceptsUnannounce(req, n) =>
           AfterUnannounce(st, req, n) = [st EXCEPT !.records = d, !.router = o]
    BY DEF AfterUnannounce
  <1>3. ~AcceptsUnannounce(req, n) => AfterUnannounce(st, req, n) = st
    BY Zenon DEF AfterUnannounce
  <1> HIDE DEF d, o
  <1>4. [st EXCEPT !.records = d, !.router = o] = st2
    BY <1>0, OtherParts, Zenon
  <1>5. RecordsOK(d)
    BY <1>1, Zenon DEF Removed
  <1>6. StorageOK(st2) /\ st2.records = d /\ st2.mutables = st.mutables
    BY <1>0, <1>5, StorageMade
  <1>7. Removed(st.records, st.records, req.target, pk)
    BY <1>0, Zenon DEF Removed
  <1> HIDE DEF st2, pk
  <1>8. Unannounced(st, AfterUnannounce(st, req, n), req.target, pk)
    BY <1>1, <1>2, <1>3, <1>4, <1>6, <1>7, Zenon DEF Unannounced
  <1> QED BY <1>8, Zenon DEF pk

----------------------------------------------------------------------------
(* Mutable records.                                                        *)

\* For no key does the value given out fall back.
Onward(c, d) == \A k, v, w : Held(d, k, v) /\ Held(c, k, w) => w.seq <= v.seq

\* The value given out for a key is one, and has a number.
LEMMA HeldOnce ==
  ASSUME NEW c, MutablesOK(c), NEW k, NEW v, Held(c, k, v)
  PROVE  v.seq \in Nat /\ \A w : Held(c, k, w) => w = v
  <1>1. Gets(LruGet(c, k), c, k)
    BY LruGetIs, Zenon DEF MutablesOK
  <1>2. \A w : Held(c, k, w) => w = v
    BY <1>1, Zenon DEF Gets
  <1>3. v.seq \in Nat
    BY Zenon DEF Held, MutablesOK
  <1> QED BY <1>2, <1>3, Zenon

\* A cache that does not change does not fall back.
LEMMA OnwardSame ==
  ASSUME NEW c, MutablesOK(c)
  PROVE  Onward(c, c)
  <1> SUFFICES ASSUME NEW k, NEW v, NEW w, Held(c, k, v), Held(c, k, w) PROVE w.seq <= v.seq
    BY Zenon DEF Onward
  <1>1. v.seq \in Nat /\ w = v
    BY HeldOnce, Zenon
  <1>2. \A a \in Nat : a <= a
    OBVIOUS
  <1> QED BY <1>1, <1>2, Zenon

\* Nor does one in which a newer value replaces an older one.
LEMMA LruSetOnward ==
  ASSUME NEW c, MutablesOK(c), NEW k, NEW v, v.seq \in Nat, \A w : Held(c, k, w) => w.seq <= v.seq
  PROVE  LET d == LruSet(c, k, v) IN MutablesOK(d) /\ Onward(c, d) /\ Held(d, k, v)
  <1> DEFINE d == LruSet(c, k, v)
             e == [key |-> k, value |-> v, age |-> 0]
  <1>1. Replaced(c, d, k, v)
    BY Bounds, LruSetOK, Zenon DEF MutablesOK
  <1>2. e.key = k /\ e.value = v /\ e.age = 0
    BY NewEntry, Zenon
  <1> HIDE DEF d
  <1>3. /\ LruOK(d)
        /\ \A i \in 1 .. Len(d) : d[i] = e \/ (d[i].key # k /\ \E m \in 1 .. Len(c) : d[i] = c[m])
        /\ \E i \in 1 .. Len(d) : d[i] = e
    BY <1>1, Zenon DEF Replaced
  <1> HIDE DEF e
  <1>4. MutablesOK(d)
    BY <1>2, <1>3, Zenon DEF MutablesOK
  <1>5. Held(d, k, v)
    BY <1>2, <1>3, Bounds, Zenon DEF Held
  <1>6. ASSUME NEW h, NEW x, NEW w, Held(d, h, x), Held(c, h, w) PROVE w.seq <= x.seq
    <2>1. PICK i \in 1 .. Len(d) : d[i].key = h /\ d[i].age < MaxLruAge /\ d[i].value = x
      BY <1>6, Zenon DEF Held
    <2>2. CASE d[i] = e
      BY <1>2, <1>6, <2>1, <2>2, Zenon
    <2>3. CASE \E m \in 1 .. Len(c) : d[i] = c[m]
      <3>1. Held(c, h, x)
        BY <2>1, <2>3, Zenon DEF Held
      <3>2. Onward(c, c)
        BY OnwardSame, Zenon
      <3> QED BY <1>6, <3>1, <3>2, Zenon DEF Onward
    <2> QED BY <1>3, <2>2, <2>3, Zenon
  <1>7. Onward(c, d)
    BY <1>6, Zenon DEF Onward
  <1> QED BY <1>4, <1>5, <1>7, Zenon DEF d

\* Nor does one that time passes over.
LEMMA RipenedOnward ==
  ASSUME NEW c, MutablesOK(c), NEW d, Ripened(c, d)
  PROVE  MutablesOK(d) /\ Onward(c, d)
  <1>1. /\ LruOK(d) /\ Len(d) = Len(c)
        /\ \A i \in 1 .. Len(c) : d[i].key = c[i].key /\ d[i].value = c[i].value /\ c[i].age <= d[i].age
    BY Zenon DEF Ripened
  <1>2. MutablesOK(d)
    BY <1>1, Zenon DEF MutablesOK
  <1>3. \A i \in 1 .. Len(c) : c[i].age \in Nat /\ d[i].age \in Nat
    BY <1>1, LruParts, Zenon DEF MutablesOK, IsEntry
  <1>4. \A a, b, m \in Nat : a <= b /\ b < m => a < m
    OBVIOUS
  <1>5. ASSUME NEW h, NEW x, NEW w, Held(d, h, x), Held(c, h, w) PROVE w.seq <= x.seq
    <2>1. PICK i \in 1 .. Len(d) : d[i].key = h /\ d[i].age < MaxLruAge /\ d[i].value = x
      BY <1>5, Zenon DEF Held
    <2>2. c[i].age < MaxLruAge
      BY <1>1, <1>3, <1>4, <2>1, Bounds, Zenon
    <2>3. Held(c, h, x)
      BY <1>1, <2>1, <2>2, Zenon DEF Held
    <2>4. Onward(c, c)
      BY OnwardSame, Zenon
    <2> QED BY <1>5, <2>3, <2>4, Zenon DEF Onward
  <1>6. Onward(c, d)
    BY <1>5, Zenon DEF Onward
  <1> QED BY <1>2, <1>6, Zenon

\* What StoredSeq returns.
SeqsAre(q, c, k) ==
    /\ \A s : s \in Range(q) <=> \E w : Held(c, k, w) /\ s = w.seq
    /\ q # <<>> <=> \E w : Held(c, k, w)

\* The number of the live record, if there is one.
LEMMA StoredSeqIs ==
  ASSUME NEW st, StorageOK(st), NEW k
  PROVE  SeqsAre(StoredSeq(st, k), st.mutables, k)
  <1> DEFINE c == st.mutables
             g == LruGet(c, k)
             q == StoredSeq(st, k)
  <1>1. q = [i \in DOMAIN g |-> g[i].seq]
    BY Zenon DEF StoredSeq
  <1>2. Gets(g, c, k)
    BY StorageParts, LruGetIs, Zenon DEF MutablesOK
  <1> HIDE DEF c, g, q
  <1>3. IsSeq(g) /\ DOMAIN g = 1 .. Len(g) /\ Len(g) \in Nat
    BY <1>2, SeqPlaces, Zenon DEF Gets
  <1>4. DOMAIN q = DOMAIN g /\ \A i \in DOMAIN g : q[i] = g[i].seq
    BY <1>1, Zenon
  <1>5. q = [i \in DOMAIN g |-> q[i]]
    BY <1>1, Zenon
  <1>6. IsSeq(q) /\ Len(q) = Len(g)
    BY <1>3, <1>4, <1>5, SameLen, Zenon
  <1>7. \A s : s \in Range(q) <=> \E i \in 1 .. Len(g) : s = g[i].seq
    BY <1>3, <1>4, Zenon DEF Range
  <1>8. \A s : s \in Range(q) <=> \E w : Held(c, k, w) /\ s = w.seq
    BY <1>2, <1>7, Zenon DEF Gets
  <1>9. q # <<>> <=> Len(g) # 0
    BY <1>3, <1>6 DEF IsSeq
  <1>10. Len(g) # 0 => 1 \in 1 .. Len(g)
    BY <1>3
  <1>11. \A i \in 1 .. Len(g) : Len(g) # 0
    BY <1>3
  <1>12. Len(g) # 0 <=> \E w : Held(c, k, w)
    BY <1>2, <1>10, <1>11, Zenon DEF Gets
  <1> QED BY <1>8, <1>9, <1>12, Zenon DEF SeqsAre, c, q

\* What a put does to a storage.
Stored(st, st2) ==
    /\ StorageOK(st2) /\ st2.records = st.records /\ Onward(st.mutables, st2.mutables)

\* A value for a key that is at least as new as s.
AtLeast(st, k, s) == \E v : Held(st.mutables, k, v) /\ s <= v.seq

\* The answers differ.
LEMMA AnswersDiffer == \A code : Value(<<>>) # Silent /\ Value(<<>>) # Refuses(code)
  BY DEF Value, Silent, Refuses

\* A put that is answered leaves the node with its value or a newer one.
LEMMA AfterMutablePutOK ==
  ASSUME NEW st, StorageOK(st), NEW req, req.put.seq \in Nat
  PROVE  LET st2 == AfterMutablePut(st, req) IN
         Stored(st, st2) /\ (ValidPut(req) => AtLeast(st2, req.target, req.put.seq))
  <1> DEFINE c == st.mutables
             k == req.target
             v == [seq |-> req.put.seq, value |-> req.put.value, signature |-> req.put.signature]
             d == LruSet(c, k, v)
             st2 == AfterMutablePut(st, req)
             q == StoredSeq(st, k)
  <1>0. /\ IsStorage(st)
        /\ RecordsOK(st.records) /\ LruOK(st.bumps) /\ LruOK(st.refreshes) /\ MutablesOK(st.mutables)
        /\ LruOK(st.immutables)
    BY StorageParts, Zenon
  <1>1. v.seq = req.put.seq
    OBVIOUS
  <1>2. SeqsAre(q, c, k)
    BY StoredSeqIs, Zenon
  <1>3. \A w : Held(c, k, w) => w.seq \in Nat /\ w.seq \in Range(q)
    BY <1>0, <1>2, HeldOnce, Zenon DEF SeqsAre
  <1>4. \A a, b \in Nat : (a = b \/ a > b => b <= a) /\ (~(a > b) => a <= b) /\ a <= a
    OBVIOUS
  <1>5. CASE OnMutablePut(st, req) = Value(<<>>)
    <2>1. st2 = [st EXCEPT !.mutables = d]
      BY <1>5, Zenon DEF AfterMutablePut
    <2>2. ~\E seq \in Range(q) : seq > req.put.seq
      BY <1>5, AnswersDiffer, Zenon DEF OnMutablePut
    <2>3. \A w : Held(c, k, w) => w.seq <= v.seq
      BY <1>1, <1>3, <1>4, <2>2, Zenon
    <2> HIDE DEF v, c, k
    <2>4. MutablesOK(d) /\ Onward(c, d) /\ Held(d, k, v)
      BY <1>0, <1>1, <2>3, LruSetOnward, Zenon DEF c
    <2> HIDE DEF d
    <2>5. st2 = Parts(st.records, st.bumps, st.refreshes, d, st.immutables, st.router)
      BY <1>0, <2>1, OtherPart, Zenon
    <2> HIDE DEF st2
    <2>6. StorageOK(st2) /\ st2.records = st.records /\ st2.mutables = d
      BY <1>0, <2>4, <2>5, StorageMade
    <2>7. Stored(st, st2)
      BY <2>4, <2>6, Zenon DEF Stored, c
    <2>8. AtLeast(st2, k, req.put.seq)
      BY <1>1, <1>4, <2>4, <2>6, Zenon DEF AtLeast
    <2> QED BY <2>7, <2>8, Zenon DEF st2, k
  <1>6. CASE OnMutablePut(st, req) # Value(<<>>)
    <2>1. st2 = st
      BY <1>6, Zenon DEF AfterMutablePut
    <2>2. Stored(st, st2)
      BY <1>0, <2>1, OnwardSame, Zenon DEF Stored
    <2>3. ASSUME ValidPut(req) PROVE AtLeast(st2, k, req.put.seq)
      <3>1. PICK seq \in Range(q) : seq = req.put.seq \/ seq > req.put.seq
        BY <1>6, <2>3, Zenon DEF OnMutablePut
      <3>2. PICK w : Held(c, k, w) /\ seq = w.seq
        BY <1>2, Zenon DEF SeqsAre
      <3>3. req.put.seq <= w.seq
        BY <1>3, <1>4, <3>1, <3>2, Zenon
      <3> QED BY <2>1, <3>2, <3>3, Zenon DEF AtLeast
    <2> QED BY <2>2, <2>3, Zenon
  <1> QED BY <1>5, <1>6, Zenon

----------------------------------------------------------------------------
(* The handlers and the queries.                                           *)

\* A put of an immutable value.
LEMMA AfterImmutablePutOK ==
  ASSUME NEW st, StorageOK(st), NEW req
  PROVE  Stored(st, AfterImmutablePut(st, req))
  <1> DEFINE i == LruSet(st.immutables, req.target, req.value)
             st2 == AfterImmutablePut(st, req)
  <1>0. /\ IsStorage(st)
        /\ RecordsOK(st.records) /\ LruOK(st.bumps) /\ LruOK(st.refreshes) /\ MutablesOK(st.mutables)
        /\ LruOK(st.immutables)
    BY StorageParts, Zenon
  <1>1. Onward(st.mutables, st.mutables)
    BY <1>0, OnwardSame, Zenon
  <1>2. CASE ValidImmutable(req)
    <2>1. st2 = [st EXCEPT !.immutables = i]
      BY <1>2, Zenon DEF AfterImmutablePut
    <2>2. LruOK(i)
      BY <1>0, LruSetKeeps, Zenon
    <2> HIDE DEF i
    <2>3. st2 = Parts(st.records, st.bumps, st.refreshes, st.mutables, i, st.router)
      BY <1>0, <2>1, OtherPart, Zenon
    <2> HIDE DEF st2
    <2>4. StorageOK(st2) /\ st2.records = st.records /\ st2.mutables = st.mutables
      BY <1>0, <2>2, <2>3, StorageMade
    <2>5. Stored(st, st2)
      BY <1>1, <2>4, Zenon DEF Stored
    <2> QED BY <2>5, Zenon DEF st2
  <1>3. CASE ~ValidImmutable(req)
    BY <1>1, <1>3, Zenon DEF AfterImmutablePut, Stored
  <1> QED BY <1>2, <1>3, Zenon

\* What a request does to a storage.
Handled(st, st2, m) ==
    /\ StorageOK(st2) /\ Onward(st.mutables, st2.mutables)
    /\ m.cmd = "UNANNOUNCE" =>
          Removed(st.records, st2.records, m.req.target, m.req.msg.peer[1].public_key)
    /\ m.cmd # "UNANNOUNCE" => Added(st.records, st2.records)

\* The handler keeps the storage in order.
LEMMA AfterHandlerOK ==
  ASSUME NEW st, StorageOK(st), NEW m, m.cmd = "MUTABLE_PUT" => m.req.put.seq \in Nat
  PROVE  LET st2 == AfterHandler(st, m) IN
         /\ Handled(st, st2, m)
         /\ m.cmd = "MUTABLE_PUT" /\ ValidPut(m.req) => AtLeast(st2, m.req.target, m.req.put.seq)
  <1> DEFINE st2 == AfterHandler(st, m)
  <1>1. /\ m.cmd = "ANNOUNCE" => st2 = AfterAnnounce(st, m.req, m.to)
        /\ m.cmd = "UNANNOUNCE" => st2 = AfterUnannounce(st, m.req, m.to)
        /\ m.cmd = "MUTABLE_PUT" => st2 = AfterMutablePut(st, m.req)
        /\ m.cmd \notin {"ANNOUNCE", "UNANNOUNCE", "MUTABLE_PUT"} => st2 = AfterImmutablePut(st, m.req)
    BY DEF AfterHandler
  <1> HIDE DEF st2
  <1>2. Added(st.records, st.records) /\ Onward(st.mutables, st.mutables)
    BY StorageParts, NothingAnnounced, OnwardSame, Zenon DEF Announced
  <1>3. CASE m.cmd = "ANNOUNCE"
    <2>1. Announced(st, st2)
      BY <1>1, <1>3, AfterAnnounceOK, Zenon
    <2>2. Handled(st, st2, m)
      BY <1>2, <1>3, <2>1, Zenon DEF Announced, Handled
    <2> QED BY <1>3, <2>2, Zenon DEF st2
  <1>4. CASE m.cmd = "UNANNOUNCE"
    <2>1. Unannounced(st, st2, m.req.target, m.req.msg.peer[1].public_key)
      BY <1>1, <1>4, AfterUnannounceOK, Zenon
    <2>2. Handled(st, st2, m)
      BY <1>2, <1>4, <2>1, Zenon DEF Unannounced, Handled
    <2> QED BY <1>4, <2>2, Zenon DEF st2
  <1>5. CASE m.cmd = "MUTABLE_PUT"
    <2>1. Stored(st, st2) /\ (ValidPut(m.req) => AtLeast(st2, m.req.target, m.req.put.seq))
      BY <1>1, <1>5, AfterMutablePutOK, Zenon
    <2>2. Handled(st, st2, m)
      BY <1>2, <1>5, <2>1, Zenon DEF Stored, Handled
    <2> QED BY <1>5, <2>1, <2>2, Zenon DEF st2
  <1>6. CASE m.cmd \notin {"ANNOUNCE", "UNANNOUNCE", "MUTABLE_PUT"}
    <2>1. Stored(st, st2)
      BY <1>1, <1>6, AfterImmutablePutOK, Zenon
    <2>2. Handled(st, st2, m)
      BY <1>2, <1>6, <2>1, Zenon DEF Stored, Handled
    <2> QED BY <1>6, <2>2, Zenon DEF st2
  <1> QED BY <1>3, <1>4, <1>5, <1>6, Zenon

\* What a query does to a storage.
LEMMA AfterQueryOK ==
  ASSUME NEW st, StorageOK(st), NEW call
  PROVE  Looked(st, AfterQuery(st, call))
  <1>1. Looked(st, st)
    <2>1. RecordsOK(st.records)
      BY StorageParts, Zenon
    <2>2. Pruned(st.records, st.records)
      BY <2>1, Zenon DEF Pruned
    <2> QED BY <2>2, Zenon DEF Looked
  <1> QED BY <1>1, AfterLookupOK, Zenon DEF AfterQuery

\* The parts of a storage after a step of time.
LEMMA AgedParts ==
  ASSUME NEW st, IsStorage(st)
  PROVE  Aged(st) = Parts([st.records EXCEPT !.entries = Older(st.records.entries, MaxRecordAge)],
                          Older(st.bumps, MaxLruAge), Older(st.refreshes, MaxLruAge),
                          Older(st.mutables, MaxLruAge), Older(st.immutables, MaxLruAge), st.router)
  <1> DEFINE r == st.records
             b == st.bumps
             f == st.refreshes
             m == st.mutables
             i == st.immutables
             o == st.router
             b2 == Older(b, MaxLruAge)
             f2 == Older(f, MaxLruAge)
             m2 == Older(m, MaxLruAge)
             i2 == Older(i, MaxLruAge)
  <1>1. st = Parts(r, b, f, m, i, o)
    BY Zenon DEF IsStorage
  <1> DEFINE e2 == Older(r.entries, MaxRecordAge)
  <1>2. Aged(st) = [st EXCEPT !.records.entries = e2, !.bumps = b2, !.refreshes = f2, !.mutables = m2,
                              !.immutables = i2]
    BY Zenon DEF Aged
  <1> HIDE DEF r, b, f, m, i, o, b2, f2, m2, i2, e2
  <1> DEFINE s1 == [st EXCEPT !.records.entries = e2]
             s2 == [s1 EXCEPT !.bumps = b2]
             s3 == [s2 EXCEPT !.refreshes = f2]
             s4 == [s3 EXCEPT !.mutables = m2]
             s5 == [s4 EXCEPT !.immutables = i2]
  <1>3. Aged(st) = s5
    BY <1>2, Zenon
  <1> DEFINE r3 == [r EXCEPT !.entries = e2]
  <1>4. s1 = Parts(r3, b, f, m, i, o)
    BY <1>1 DEF Parts
  <1> HIDE DEF r3, s1, s2, s3, s4, s5
  <1>5. s2 = Parts(r3, b2, f, m, i, o)
    BY <1>4 DEF Parts, s2
  <1>6. s3 = Parts(r3, b2, f2, m, i, o)
    BY <1>5 DEF Parts, s3
  <1>7. s4 = Parts(r3, b2, f2, m2, i, o)
    BY <1>6 DEF Parts, s4
  <1>8. s5 = Parts(r3, b2, f2, m2, i2, o)
    BY <1>7 DEF Parts, s5
  <1>9. Aged(st) = Parts(r3, b2, f2, m2, i2, o)
    BY <1>3, <1>8, Zenon
  <1> QED BY <1>9, Zenon DEF r, b, f, m, i, o, b2, f2, m2, i2, e2, r3

\* What time does to a storage.
LEMMA AgedOK ==
  ASSUME NEW st, StorageOK(st)
  PROVE  StorageOK(Aged(st)) /\ Onward(st.mutables, Aged(st).mutables)
  <1> DEFINE c == st.records
             s == Older(c.entries, MaxRecordAge)
             r2 == [c EXCEPT !.entries = s]
             b2 == Older(st.bumps, MaxLruAge)
             f2 == Older(st.refreshes, MaxLruAge)
             m2 == Older(st.mutables, MaxLruAge)
             i2 == Older(st.immutables, MaxLruAge)
             st2 == Aged(st)
  <1>0. /\ IsStorage(st)
        /\ RecordsOK(st.records) /\ LruOK(st.bumps) /\ LruOK(st.refreshes) /\ MutablesOK(st.mutables)
        /\ LruOK(st.immutables)
    BY StorageParts, Zenon
  <1>1. /\ c = [entries |-> c.entries, buckets |-> c.buckets, total |-> c.total]
        /\ Listed(c.entries, c.buckets) /\ IsSeq(c.entries)
        /\ c.total = Len(c.entries) /\ c.total <= MaxRecords
    BY <1>0, Bounds, RecordsParts, Zenon
  <1>2. Listed(s, c.buckets) /\ Len(s) = Len(c.entries)
    BY <1>1, Bounds, OlderListed, OlderIs, Zenon
  <1>3. st2 = Parts(r2, b2, f2, m2, i2, st.router)
    BY <1>0, AgedParts, Zenon
  <1>4. LruOK(b2) /\ LruOK(f2) /\ LruOK(i2)
    BY <1>0, Bounds, LruOlderOK, Zenon DEF Ripened
  <1>5. Ripened(st.mutables, m2)
    BY <1>0, Bounds, LruOlderOK, Zenon DEF MutablesOK
  <1> HIDE DEF s, b2, f2, m2, i2, st2
  <1>6. r2 = [entries |-> s, buckets |-> c.buckets, total |-> c.total]
    BY <1>1, RecordsExcept, Zenon
  <1> HIDE DEF r2, c
  <1>7. RecordsOK(r2)
    <2>1. RecordsOK([entries |-> s, buckets |-> c.buckets, total |-> c.total])
      BY <1>1, <1>2, RecordsMade, Zenon
    <2> QED BY <1>6, <2>1, Zenon
  <1>8. MutablesOK(m2) /\ Onward(st.mutables, m2)
    BY <1>0, <1>5, RipenedOnward, Zenon
  <1>9. StorageOK(st2) /\ st2.mutables = m2
    BY <1>3, <1>4, <1>7, <1>8, StorageMade
  <1> QED BY <1>8, <1>9, Zenon DEF st2

\* A value at least as new stays at least as new, while there is one.
LEMMA AtLeastStays ==
  ASSUME NEW st, StorageOK(st), NEW st2, StorageOK(st2), Onward(st.mutables, st2.mutables),
         NEW k, NEW s \in Nat, AtLeast(st, k, s), StoredSeq(st2, k) # <<>>
  PROVE  AtLeast(st2, k, s)
  <1>1. PICK w : Held(st.mutables, k, w) /\ s <= w.seq
    BY Zenon DEF AtLeast
  <1>2. PICK v : Held(st2.mutables, k, v)
    BY StoredSeqIs, Zenon DEF SeqsAre
  <1>3. w.seq \in Nat /\ v.seq \in Nat
    BY <1>1, <1>2, StorageParts, HeldOnce, Zenon
  <1>4. w.seq <= v.seq
    BY <1>1, <1>2, Zenon DEF Onward
  <1>5. s <= v.seq
    BY <1>1, <1>3, <1>4
  <1> QED BY <1>2, <1>5, Zenon DEF AtLeast

\* A value at least as new is there.
LEMMA AtLeastHolds ==
  ASSUME NEW st, StorageOK(st), NEW k, NEW s, AtLeast(st, k, s)
  PROVE  StoredSeq(st, k) # <<>>
  BY StoredSeqIs, Zenon DEF SeqsAre, AtLeast

\* What a lookup of a mutable record answers is at least as new as what is there.
LEMMA GetIsAtLeast ==
  ASSUME NEW st, StorageOK(st), NEW k, NEW seq, NEW s \in Nat, s # 0 => AtLeast(st, k, s),
         NEW v \in Range(OnMutableGet(st, k, seq).value)
  PROVE  v.seq \in Nat /\ s <= v.seq
  <1> DEFINE c == st.mutables
             held == LruGet(c, k)
             I == {i \in DOMAIN held : held[i].seq >= seq}
             t == Only(held, I)
  <1>1. OnMutableGet(st, k, seq).value = t
    BY DEF OnMutableGet, Value
  <1>2. Gets(held, c, k)
    BY StorageParts, LruGetIs, Zenon DEF MutablesOK
  <1>3. MutablesOK(c)
    BY StorageParts, Zenon
  <1> HIDE DEF held, I, c
  <1>4. IsSeq(held)
    BY <1>2, Zenon DEF Gets
  <1>5. Stays(held, I, t) /\ IsSeq(t)
    BY <1>4, OnlyStays, OnlySeq, Zenon
  <1>6. DOMAIN t = 1 .. Len(t)
    BY <1>5, SeqPlaces, Zenon
  <1>7. PICK j \in 1 .. Len(t) : v = t[j]
    BY <1>1, <1>6, Zenon DEF Range
  <1>8. Held(c, k, v)
    BY <1>2, <1>5, <1>7, Zenon DEF Stays, Gets
  <1>9. v.seq \in Nat /\ \A w : Held(c, k, w) => w = v
    BY <1>3, <1>8, HeldOnce, Zenon
  <1>10. s # 0 => s <= v.seq
    BY <1>9, Zenon DEF AtLeast, c
  <1>11. s = 0 => s <= v.seq
    BY <1>9
  <1> QED BY <1>9, <1>10, <1>11, Zenon

----------------------------------------------------------------------------
(* The record of a call.                                                   *)

\* A running call.
Op(phase, n, call, ask, replies, commit, timeouts, stale, fl) ==
    [phase |-> phase, n |-> n, call |-> call, ask |-> ask, replies |-> replies, commit |-> commit,
     commit_timeouts |-> timeouts, stale |-> stale, floor |-> fl]

IsCall(o) ==
    o = Op(o.phase, o.n, o.call, o.ask, o.replies, o.commit, o.commit_timeouts, o.stale, o.floor)

\* The call o goes on as p.
GoesOn(o, p, phase, ask, replies, commit, timeouts, stale) ==
    p = Op(phase, o.n, o.call, ask, replies, commit, timeouts, stale, o.floor)

\* The call as it goes on.
Onwards(o, p, phase, ask, replies, commit, timeouts, stale) ==
    /\ IsCall(p) /\ p.n = o.n /\ p.call = o.call /\ p.floor = o.floor
    /\ p.phase = phase /\ p.ask = ask /\ p.replies = replies /\ p.commit = commit
    /\ p.commit_timeouts = timeouts /\ p.stale = stale

\* The fields of a call that goes on.
LEMMA GoneOn ==
  ASSUME NEW o, NEW p, NEW phase, NEW ask, NEW replies, NEW commit, NEW timeouts, NEW stale,
         GoesOn(o, p, phase, ask, replies, commit, timeouts, stale)
  PROVE  Onwards(o, p, phase, ask, replies, commit, timeouts, stale)
  <1> DEFINE n == o.n
             call == o.call
             fl == o.floor
  <1>1. p = Op(phase, n, call, ask, replies, commit, timeouts, stale, fl)
    BY Zenon DEF GoesOn
  <1> HIDE DEF n, call, fl
  <1>2. /\ p.phase = phase /\ p.n = n /\ p.call = call /\ p.ask = ask /\ p.replies = replies
        /\ p.commit = commit /\ p.commit_timeouts = timeouts /\ p.stale = stale /\ p.floor = fl
    BY <1>1 DEF Op
  <1>3. IsCall(p)
    BY <1>1, <1>2, Zenon DEF IsCall
  <1> QED BY <1>2, <1>3, Zenon DEF Onwards, n, call, fl

\* How the steps of a query and of the requests change it.
LEMMA OpSteps ==
  ASSUME NEW o, IsCall(o), NEW a, NEW r, NEW k, NEW t, NEW s
  PROVE  /\ GoesOn(o, [o EXCEPT !.ask = a], o.phase, a, o.replies, o.commit, o.commit_timeouts, o.stale)
         /\ GoesOn(o, [[o EXCEPT !.ask = a] EXCEPT !.replies = r],
                   o.phase, a, r, o.commit, o.commit_timeouts, o.stale)
         /\ GoesOn(o, [[[[o EXCEPT !.phase = "commit"] EXCEPT !.commit = k] EXCEPT !.ask = a] EXCEPT !.replies = r],
                   "commit", a, r, k, o.commit_timeouts, o.stale)
         /\ GoesOn(o, [[o EXCEPT !.commit = k] EXCEPT !.commit_timeouts = t],
                   o.phase, o.ask, o.replies, k, t, o.stale)
         /\ GoesOn(o, [[o EXCEPT !.commit = k] EXCEPT !.stale = s],
                   o.phase, o.ask, o.replies, k, o.commit_timeouts, s)
  <1> DEFINE f1 == o.phase
             f2 == o.n
             f3 == o.call
             f4 == o.ask
             f5 == o.replies
             f6 == o.commit
             f7 == o.commit_timeouts
             f8 == o.stale
             f9 == o.floor
             oa == [o EXCEPT !.ask = a]
             ok == [o EXCEPT !.commit = k]
             op1 == [o EXCEPT !.phase = "commit"]
             op2 == [op1 EXCEPT !.commit = k]
             op3 == [op2 EXCEPT !.ask = a]
             op4 == [op3 EXCEPT !.replies = r]
             oar == [oa EXCEPT !.replies = r]
             okt == [ok EXCEPT !.commit_timeouts = t]
             oks == [ok EXCEPT !.stale = s]
  <1>1. o = Op(f1, f2, f3, f4, f5, f6, f7, f8, f9)
    BY Zenon DEF IsCall
  <1> HIDE DEF f1, f2, f3, f4, f5, f6, f7, f8, f9
  <1>2. oa = Op(f1, f2, f3, a, f5, f6, f7, f8, f9)
    BY <1>1 DEF Op
  <1>3. ok = Op(f1, f2, f3, f4, f5, k, f7, f8, f9)
    BY <1>1 DEF Op
  <1>4. op1 = Op("commit", f2, f3, f4, f5, f6, f7, f8, f9)
    BY <1>1 DEF Op
  <1> HIDE DEF oa, ok, op1, op2, op3, op4, oar, okt, oks
  <1>5. op2 = Op("commit", f2, f3, f4, f5, k, f7, f8, f9)
    BY <1>4 DEF Op, op2
  <1>6. op3 = Op("commit", f2, f3, a, f5, k, f7, f8, f9)
    BY <1>5 DEF Op, op3
  <1>7. op4 = Op("commit", f2, f3, a, r, k, f7, f8, f9)
    BY <1>6 DEF Op, op4
  <1>8. oar = Op(f1, f2, f3, a, r, f6, f7, f8, f9)
    BY <1>2 DEF Op, oar
  <1>9. okt = Op(f1, f2, f3, f4, f5, k, t, f8, f9)
    BY <1>3 DEF Op, okt
  <1>10. oks = Op(f1, f2, f3, f4, f5, k, f7, s, f9)
    BY <1>3 DEF Op, oks
  <1>11. /\ GoesOn(o, oa, o.phase, a, o.replies, o.commit, o.commit_timeouts, o.stale)
         /\ GoesOn(o, oar, o.phase, a, r, o.commit, o.commit_timeouts, o.stale)
         /\ GoesOn(o, op4, "commit", a, r, k, o.commit_timeouts, o.stale)
         /\ GoesOn(o, okt, o.phase, o.ask, o.replies, k, t, o.stale)
         /\ GoesOn(o, oks, o.phase, o.ask, o.replies, k, o.commit_timeouts, s)
    BY <1>2, <1>7, <1>8, <1>9, <1>10, Zenon DEF GoesOn, f1, f2, f3, f4, f5, f6, f7, f8, f9
  <1> QED BY <1>11, Zenon DEF oa, ok, op1, op2, op3, op4, oar, okt, oks

----------------------------------------------------------------------------
(* Calls, requests and the invariant.                                      *)

\* Nodes, each at most once.
Apart(s) ==
    /\ IsSeq(s)
    /\ \A i \in 1 .. Len(s) : s[i] \in Node /\ \A j \in 1 .. Len(s) : s[i] = s[j] => i = j

\* A call that runs when x calls have started.
IsOp(o, x) ==
    /\ IsCall(o) /\ o.phase \in {"query", "commit"} /\ o.n \in Nat /\ o.n < x
    /\ o.call \in UNION Workloads /\ o.commit_timeouts \in Nat
    /\ o.phase = "query" => o.commit = <<>>
    /\ Apart(o.commit) /\ IsSeq(o.replies)

\* A request for a call.
Asks(m, call) == m.cmd = call.cmd /\ m.req = CommitRequest(m.client, call, m.to)

\* A request under way: it is of a call, which is the client's own if that one still runs.
IsMessage(m) ==
    m = [client |-> m.client, n |-> m.n, cmd |-> m.cmd, to |-> m.to, copies |-> m.copies, req |-> m.req]
IsRequest(m, ops, x) ==
    /\ IsMessage(m)
    /\ m.client \in Client /\ m.n \in Nat /\ m.n < x /\ m.to \in Node /\ m.copies \in Nat
    /\ \E call \in UNION Workloads : Asks(m, call)
    /\ ops[m.client] # Idle /\ ops[m.client].n = m.n => Asks(m, ops[m.client].call)

(***************************************************************************)
(* The inductive invariant: every node's storage is in order, every call   *)
(* has its nodes once, and a request carries what its call signed.         *)
(***************************************************************************)
StoreInv ==
    /\ storage = [n \in Node |-> storage[n]] /\ \A n \in Node : StorageOK(storage[n])
    /\ op = [c \in Client |-> op[c]] /\ \A c \in Client : op[c] = Idle \/ IsOp(op[c], calls)
    /\ \A m \in net : IsRequest(m, op, calls)
    /\ workload \in Workloads /\ calls \in Nat /\ ticks \in Nat

\* Only the call of c changes.
OnlyOf(c) == op' = [d \in Client |-> op'[d]] /\ \A d \in Client : d # c => op'[d] = op[d]

\* A call that is in a phase runs.
LEMMA Running ==
  ASSUME StoreInv, NEW c \in Client, op[c].phase \in {"query", "commit"}
  PROVE  op[c] # Idle /\ IsOp(op[c], calls) /\ IsCall(op[c])
  <1>1. Idle.phase = "idle"
    BY DEF Idle
  <1>2. op[c] # Idle
    BY <1>1, Zenon
  <1> QED BY <1>2, Zenon DEF StoreInv, IsOp

\* A call that starts.
LEMMA StartOp ==
  ASSUME StoreInv, NEW c \in Client, NEW call, Start(c, call)
  PROVE  /\ OnlyOf(c) /\ op[c] = Idle
         /\ op'[c] = Op("query", calls, call, Node, <<>>, <<>>, 0, FALSE,
                        IF call.target \in MutableKeys THEN floor[call.target] ELSE 0)
  <1> DEFINE o == Op("query", calls, call, Node, <<>>, <<>>, 0, FALSE,
                     IF call.target \in MutableKeys THEN floor[call.target] ELSE 0)
  <1>1. op' = [op EXCEPT ![c] = o] /\ op[c] = Idle
    BY Zenon DEF Start, Op
  <1> HIDE DEF o
  <1>2. op = [d \in Client |-> op[d]]
    BY Zenon DEF StoreInv
  <1> QED BY <1>1, <1>2, Zenon DEF OnlyOf, o

\* A reply to a query.
Listing(o, n, a) ==
    Only(o.replies, {i \in DOMAIN o.replies : o.replies[i].from < n})
      \o <<[from |-> n, value |-> a]>>
      \o Only(o.replies, {i \in DOMAIN o.replies : o.replies[i].from > n})

\* QueryReply adds the answer to the replies.
LEMMA QueryReplyOp ==
  ASSUME StoreInv, NEW c \in Client, NEW n \in Node, QueryReply(c, n)
  PROVE  /\ OnlyOf(c) /\ op[c] # Idle /\ IsOp(op[c], calls)
         /\ Onwards(op[c], op'[c], op[c].phase, op[c].ask \ {n},
                    Listing(op[c], n, QueryAnswer(storage[n], op[c].call).value),
                    op[c].commit, op[c].commit_timeouts, op[c].stale)
  <1> DEFINE o == op[c]
             a == o.ask \ {n}
             r == Listing(o, n, QueryAnswer(storage[n], o.call).value)
             p == [[o EXCEPT !.ask = a] EXCEPT !.replies = r]
  <1>1. op = [d \in Client |-> op[d]]
    BY Zenon DEF StoreInv
  <1>2. op' = [op EXCEPT ![c].ask = a, ![c].replies = r]
    BY DEF QueryReply, Listing
  <1>3. o # Idle /\ IsOp(o, calls) /\ IsCall(o)
    BY Running, Zenon DEF QueryReply
  <1> HIDE DEF a, r
  <1>4. op'[c] = p /\ OnlyOf(c)
    BY <1>1, <1>2, Zenon DEF OnlyOf
  <1> HIDE DEF o, p
  <1>5. GoesOn(o, p, o.phase, a, r, o.commit, o.commit_timeouts, o.stale)
    BY <1>3, OpSteps, Zenon DEF p
  <1>6. Onwards(o, p, o.phase, a, r, o.commit, o.commit_timeouts, o.stale)
    BY <1>5, GoneOn, Zenon
  <1> QED BY <1>3, <1>4, <1>6, Zenon DEF o, a, r

\* QueryTimesOut asks one node less.
LEMMA QueryTimesOutOp ==
  ASSUME StoreInv, NEW c \in Client, NEW n \in Node, QueryTimesOut(c, n)
  PROVE  /\ OnlyOf(c) /\ op[c] # Idle /\ IsOp(op[c], calls)
         /\ Onwards(op[c], op'[c], op[c].phase, op[c].ask \ {n}, op[c].replies,
                    op[c].commit, op[c].commit_timeouts, op[c].stale)
  <1> DEFINE o == op[c]
             a == o.ask \ {n}
             p == [o EXCEPT !.ask = a]
  <1>1. op = [d \in Client |-> op[d]]
    BY Zenon DEF StoreInv
  <1>2. op' = [op EXCEPT ![c].ask = a]
    BY Zenon DEF QueryTimesOut
  <1>3. o # Idle /\ IsOp(o, calls) /\ IsCall(o)
    BY Running, Zenon DEF QueryTimesOut
  <1> HIDE DEF a
  <1>4. op'[c] = p /\ OnlyOf(c)
    BY <1>1, <1>2, Zenon DEF OnlyOf
  <1> HIDE DEF o, p
  <1>5. GoesOn(o, p, o.phase, a, o.replies, o.commit, o.commit_timeouts, o.stale)
    BY <1>3, OpSteps, Zenon DEF p
  <1>6. Onwards(o, p, o.phase, a, o.replies, o.commit, o.commit_timeouts, o.stale)
    BY <1>5, GoneOn, Zenon
  <1> QED BY <1>3, <1>4, <1>6, Zenon DEF o, a

\* The nodes that replied, in order.
Replied(replied) == Only([n \in Node |-> n], replied)

\* QueryCommits turns to the nodes that replied.
LEMMA QueryCommitsOp ==
  ASSUME StoreInv, NEW c \in Client, NEW replied, QueryCommits(c, replied)
  PROVE  /\ OnlyOf(c) /\ op[c] # Idle /\ IsOp(op[c], calls)
         /\ Onwards(op[c], op'[c], "commit", {},
                    [i \in DOMAIN Replied(replied) |-> [from |-> Replied(replied)[i]]],
                    Replied(replied), op[c].commit_timeouts, op[c].stale)
         /\ net' = IF Replied(replied) = <<>> THEN net
                   ELSE net \cup {Request(c, op[c], Replied(replied)[1])}
  <1> DEFINE o == op[c]
             k == Replied(replied)
             r == [i \in DOMAIN k |-> [from |-> k[i]]]
             p == [[[[o EXCEPT !.phase = "commit"] EXCEPT !.commit = k] EXCEPT !.ask = {}] EXCEPT !.replies = r]
  <1>1. op = [d \in Client |-> op[d]]
    BY Zenon DEF StoreInv
  <1>2. /\ op' = [op EXCEPT ![c].phase = "commit", ![c].commit = k, ![c].ask = {}, ![c].replies = r]
        /\ net' = IF k = <<>> THEN net ELSE net \cup {Request(c, op[c], k[1])}
    BY Zenon DEF QueryCommits, Replied
  <1>3. o # Idle /\ IsOp(o, calls) /\ IsCall(o)
    BY Running, Zenon DEF QueryCommits
  <1> HIDE DEF k, r
  <1>4. op'[c] = p /\ OnlyOf(c)
    BY <1>1, <1>2, Zenon DEF OnlyOf
  <1> HIDE DEF o, p
  <1>5. GoesOn(o, p, "commit", {}, r, k, o.commit_timeouts, o.stale)
    BY <1>3, OpSteps, Zenon DEF p
  <1>6. Onwards(o, p, "commit", {}, r, k, o.commit_timeouts, o.stale)
    BY <1>5, GoneOn, Zenon
  <1> QED BY <1>2, <1>3, <1>4, <1>6, Zenon DEF o, k, r

\* CommitTimesOut turns to the next node.
LEMMA CommitTimesOutOp ==
  ASSUME StoreInv, NEW c \in Client, CommitTimesOut(c)
  PROVE  /\ OnlyOf(c) /\ op[c] # Idle /\ IsOp(op[c], calls)
         /\ Onwards(op[c], op'[c], op[c].phase, op[c].ask, op[c].replies,
                    Tail(op[c].commit), op[c].commit_timeouts + 1, op[c].stale)
  <1> DEFINE o == op[c]
             k == Tail(o.commit)
             t == o.commit_timeouts + 1
             p == [[o EXCEPT !.commit = k] EXCEPT !.commit_timeouts = t]
  <1>1. op = [d \in Client |-> op[d]]
    BY Zenon DEF StoreInv
  <1>2. op' = [op EXCEPT ![c].commit = k, ![c].commit_timeouts = t]
    BY DEF CommitTimesOut
  <1>3. o # Idle /\ IsOp(o, calls) /\ IsCall(o)
    BY Running, Zenon DEF CommitTimesOut
  <1> HIDE DEF k, t
  <1>4. op'[c] = p /\ OnlyOf(c)
    BY <1>1, <1>2, Zenon DEF OnlyOf
  <1> HIDE DEF o, p
  <1>5. GoesOn(o, p, o.phase, o.ask, o.replies, k, t, o.stale)
    BY <1>3, OpSteps, Zenon DEF p
  <1>6. Onwards(o, p, o.phase, o.ask, o.replies, k, t, o.stale)
    BY <1>5, GoneOn, Zenon
  <1> QED BY <1>3, <1>4, <1>6, Zenon DEF o, k, t

\* Whether a call met a stale token.
MetStale(o, stale) == o.stale \/ stale

\* DeliverAndReply turns to the next node.
LEMMA ReplyOp ==
  ASSUME StoreInv, NEW m \in net, NEW stale, DeliverAndReply(m, stale)
  PROVE  LET c == m.client IN
         /\ c \in Client /\ OnlyOf(c) /\ op[c] # Idle /\ IsOp(op[c], calls)
         /\ Onwards(op[c], op'[c], op[c].phase, op[c].ask, op[c].replies,
                    Tail(op[c].commit), op[c].commit_timeouts, MetStale(op[c], stale))
  <1> DEFINE c == m.client
             o == op[c]
             k == Tail(o.commit)
             s == MetStale(o, stale)
             p == [[o EXCEPT !.commit = k] EXCEPT !.stale = s]
  <1>0. c \in Client
    BY Zenon DEF StoreInv, IsRequest
  <1>1. op = [d \in Client |-> op[d]]
    BY Zenon DEF StoreInv
  <1>2. op' = [op EXCEPT ![c].commit = k, ![c].stale = s]
    BY Zenon DEF DeliverAndReply, MetStale
  <1>3. o # Idle /\ IsOp(o, calls) /\ IsCall(o)
    BY <1>0, Running, Zenon DEF DeliverAndReply, Awaits
  <1> HIDE DEF k, s
  <1>4. op'[c] = p /\ OnlyOf(c)
    BY <1>0, <1>1, <1>2, Zenon DEF OnlyOf
  <1> HIDE DEF o, p
  <1>5. GoesOn(o, p, o.phase, o.ask, o.replies, k, o.commit_timeouts, s)
    BY <1>3, OpSteps, Zenon DEF p
  <1>6. Onwards(o, p, o.phase, o.ask, o.replies, k, o.commit_timeouts, s)
    BY <1>5, GoneOn, Zenon
  <1> QED BY <1>0, <1>3, <1>4, <1>6, Zenon DEF o, k, s

\* Finish ends the call.
LEMMA FinishOp ==
  ASSUME StoreInv, NEW c \in Client, Finish(c)
  PROVE  OnlyOf(c) /\ op[c] # Idle /\ IsOp(op[c], calls) /\ op'[c] = Idle
  <1>1. op = [d \in Client |-> op[d]]
    BY Zenon DEF StoreInv
  <1>2. op' = [op EXCEPT ![c] = Idle]
    BY Zenon DEF Finish
  <1>3. op[c] # Idle /\ IsOp(op[c], calls)
    BY Running, Zenon DEF Finish, Finished
  <1> QED BY <1>1, <1>2, <1>3, Zenon DEF OnlyOf

----------------------------------------------------------------------------
(* The nodes and the replies of a call.                                    *)

\* The rest of a sequence.
LEMMA TailIs ==
  ASSUME NEW s, IsSeq(s), s # <<>>
  PROVE  /\ Len(s) \in Nat /\ Len(s) # 0 /\ IsSeq(Tail(s)) /\ Len(Tail(s)) = Len(s) - 1
         /\ \A i \in 1 .. Len(s) - 1 : Tail(s)[i] = s[i + 1]
  <1> DEFINE S == Range(s)
  <1>1. s \in Seq(S)
    BY Zenon DEF IsSeq
  <1> HIDE DEF S
  <1>2. /\ Len(s) \in Nat /\ Len(s) # 0 /\ Tail(s) \in Seq(S) /\ Len(Tail(s)) = Len(s) - 1
        /\ \A i \in 1 .. Len(s) - 1 : Tail(s)[i] = s[i + 1]
    BY <1>1
  <1> QED BY <1>2, SeqIs, Zenon

\* The nodes after the first one.
LEMMA TailApart ==
  ASSUME NEW s, Apart(s), s # <<>>
  PROVE  /\ Apart(Tail(s)) /\ s[1] \in Node /\ Len(s) \in Nat /\ Len(s) # 0
         /\ Len(s) # 1 => s[2] \in Node /\ s[2] # s[1]
         /\ \A n \in Range(s) : n = s[1] \/ n \in Range(Tail(s))
         /\ \A n \in Range(Tail(s)) : n \in Range(s) /\ n # s[1]
  <1> DEFINE t == Tail(s)
             z == Len(s)
  <1>1. /\ z \in Nat /\ z # 0 /\ IsSeq(t) /\ Len(t) = z - 1
        /\ \A i \in 1 .. z - 1 : t[i] = s[i + 1]
    BY TailIs, Zenon DEF Apart
  <1>2. \A i \in 1 .. z : s[i] \in Node /\ \A j \in 1 .. z : s[i] = s[j] => i = j
    BY Zenon DEF Apart
  <1>3. DOMAIN s = 1 .. z /\ DOMAIN t = 1 .. Len(t)
    BY <1>1, SeqPlaces, Zenon DEF Apart
  <1> HIDE DEF t, z
  <1>4. /\ 1 \in 1 .. z /\ (z # 1 => 2 \in 1 .. z) /\ 2 # 1
        /\ \A i \in 1 .. Len(t) : i + 1 \in 1 .. z /\ i \in 1 .. z - 1 /\ i + 1 # 1
        /\ \A i, j \in 1 .. Len(t) : i + 1 = j + 1 => i = j
        /\ \A i \in 1 .. z : i # 1 => \E j \in 1 .. Len(t) : i = j + 1
    <2>1. \A i \in 1 .. z : i # 1 => i - 1 \in 1 .. Len(t) /\ i = (i - 1) + 1
      BY <1>1
    <2>2. /\ 1 \in 1 .. z /\ (z # 1 => 2 \in 1 .. z) /\ 2 # 1
          /\ \A i \in 1 .. Len(t) : i + 1 \in 1 .. z /\ i \in 1 .. z - 1 /\ i + 1 # 1
          /\ \A i, j \in 1 .. Len(t) : i + 1 = j + 1 => i = j
      BY <1>1
    <2> QED BY <2>1, <2>2, Zenon
  <1>5. \A i \in 1 .. Len(t) : t[i] = s[i + 1]
    BY <1>1, <1>4, Zenon
  <1>6. \A i \in 1 .. Len(t) : t[i] \in Node /\ \A j \in 1 .. Len(t) : t[i] = t[j] => i = j
    <2> SUFFICES ASSUME NEW i \in 1 .. Len(t)
                 PROVE  t[i] \in Node /\ \A j \in 1 .. Len(t) : t[i] = t[j] => i = j
      BY Zenon
    <2>1. t[i] \in Node
      BY <1>2, <1>4, <1>5, Zenon
    <2>2. ASSUME NEW j \in 1 .. Len(t), t[i] = t[j] PROVE i = j
      <3>1. s[i + 1] = s[j + 1] /\ i + 1 \in 1 .. z /\ j + 1 \in 1 .. z
        BY <1>4, <1>5, <2>2, Zenon
      <3>2. i + 1 = j + 1
        BY <1>2, <3>1, Zenon
      <3> QED BY <1>4, <3>2, Zenon
    <2> QED BY <2>1, <2>2, Zenon
  <1>7. Apart(t)
    BY <1>1, <1>6, Zenon DEF Apart
  <1>8. z # 1 => s[2] \in Node /\ s[2] # s[1]
    BY <1>2, <1>4, Zenon
  <1>9. ASSUME NEW n \in Range(s), n # s[1] PROVE n \in Range(t)
    <2>1. PICK i \in 1 .. z : n = s[i]
      BY <1>3, Zenon DEF Range
    <2>2. PICK j \in 1 .. Len(t) : i = j + 1
      BY <1>4, <1>9, <2>1, Zenon
    <2>3. n = t[j]
      BY <1>5, <2>1, <2>2, Zenon
    <2> QED BY <1>3, <2>3, Zenon DEF Range
  <1>10. ASSUME NEW n \in Range(t) PROVE n \in Range(s) /\ n # s[1]
    <2>1. PICK i \in 1 .. Len(t) : n = t[i]
      BY <1>3, Zenon DEF Range
    <2>2. i + 1 \in 1 .. z /\ n = s[i + 1] /\ i + 1 # 1
      BY <1>4, <1>5, <2>1, Zenon
    <2> QED BY <1>2, <1>3, <1>4, <2>2, Zenon DEF Range
  <1> QED BY <1>1, <1>2, <1>4, <1>7, <1>8, <1>9, <1>10, Zenon DEF t, z

\* The nodes that replied are there once; when they are as many as there are nodes, all are there.
LEMMA RepliedApart ==
  ASSUME NEW R
  PROVE  /\ Apart(Replied(R))
         /\ Len(Replied(R)) = Cardinality(Node) => \A n \in Node : n \in Range(Replied(R))
  <1> DEFINE N == Cardinality(Node)
             s == [n \in Node |-> n]
             t == Replied(R)
             I == {i \in 1 .. Len(s) : i \in R}
  <1>1. N \in Nat /\ Node = 1 .. N
    BY NodeAssumption, Zenon
  <1> HIDE DEF N
  <1>2. s \in Seq(Node) /\ Len(s) = N
    BY <1>1
  <1>3. \A n \in Node : s[n] = n
    BY Zenon
  <1>4. t = Only(s, R)
    BY Zenon DEF Replied
  <1> HIDE DEF s, t
  <1>5. IsSeq(s)
    BY <1>2, SeqIs, Zenon
  <1>6. IsSeq(t) /\ Len(t) \in Nat /\ Len(t) = Cardinality(I)
    BY <1>4, <1>5, OnlySeq, Zenon
  <1>7. PICK f : Placed(f, s, R, t, Len(s))
    BY <1>4, <1>5, OnlySeq, Zenon
  <1>8. \A i \in 1 .. Len(t) : f[i] \in Node /\ t[i] = f[i]
    BY <1>1, <1>2, <1>3, <1>7, Zenon DEF Placed
  <1>9. \A i, j \in 1 .. Len(t) : t[i] = t[j] => i = j
    <2> SUFFICES ASSUME NEW i \in 1 .. Len(t), NEW j \in 1 .. Len(t), t[i] = t[j] PROVE i = j
      BY Zenon
    <2>1. f[i] = f[j]
      BY <1>8, Zenon
    <2>2. Len(t) \in Nat
      BY <1>6, Zenon
    <2> HIDE DEF I
    <2> QED BY <1>7, <2>1, <2>2, PlacedApart
  <1>10. Apart(t)
    BY <1>6, <1>8, <1>9, Zenon DEF Apart
  <1>11. ASSUME Len(t) = N PROVE \A n \in Node : n \in Range(t)
    <2>1. I \subseteq 1 .. N /\ IsFiniteSet(1 .. N) /\ Cardinality(1 .. N) = N
      <3>1. I \subseteq 1 .. N
        BY <1>2, Zenon
      <3>2. IsFiniteSet(1 .. N) /\ Cardinality(1 .. N) = N
        BY <1>1, FS_Interval
      <3> QED BY <3>1, <3>2, Zenon
    <2>2. Cardinality(I) = Cardinality(1 .. N)
      BY <1>6, <1>11, <2>1, Zenon
    <2>3. I = 1 .. N
      BY <2>1, <2>2, FS_Subset, Zenon
    <2>4. ASSUME NEW n \in Node PROVE n \in Range(t)
      <3>1. n \in 1 .. Len(s) /\ n \in R
        BY <1>1, <1>2, <2>3, Zenon
      <3>2. PICK i \in 1 .. Len(t) : f[i] = n
        BY <1>7, <3>1, Zenon DEF Placed
      <3>3. t[i] = n /\ DOMAIN t = 1 .. Len(t)
        BY <1>6, <1>8, <3>2, SeqPlaces, Zenon
      <3> QED BY <3>3, Zenon DEF Range
    <2> QED BY <2>4, Zenon
  <1> QED BY <1>10, <1>11, Zenon DEF t, N

\* One sequence after another.
LEMMA JoinIs ==
  ASSUME NEW s, NEW t, IsSeq(s), IsSeq(t)
  PROVE  IsSeq(s \o t) /\ \A x \in Range(s \o t) : x \in Range(s) \/ x \in Range(t)
  <1> DEFINE S == Range(s) \cup Range(t)
             u == s \o t
  <1>1. s \in Seq(Range(s)) /\ t \in Seq(Range(t))
    BY Zenon DEF IsSeq
  <1>2. s \in Seq(S) /\ t \in Seq(S)
    <2> DEFINE A == Range(s)
               B == Range(t)
    <2> HIDE DEF A, B
    <2>1. ASSUME s \in Seq(A), t \in Seq(B) PROVE s \in Seq(A \cup B) /\ t \in Seq(A \cup B)
      BY <2>1
    <2> QED BY <1>1, <2>1, Zenon DEF A, B
  <1> HIDE DEF S
  <1>3. u \in Seq(S)
    BY <1>2
  <1> HIDE DEF u
  <1>4. \A x \in Range(u) : x \in S
    <2>1. DOMAIN u = 1 .. Len(u) /\ \A i \in 1 .. Len(u) : u[i] \in S
      BY <1>3
    <2> QED BY <2>1, Zenon DEF Range
  <1> QED BY <1>3, <1>4, SeqIs, Zenon DEF S, u

\* The replies after one more.
LEMMA ListingIs ==
  ASSUME NEW o, IsSeq(o.replies), NEW n, NEW a
  PROVE  /\ IsSeq(Listing(o, n, a))
         /\ \A x \in Range(Listing(o, n, a)) : x \in Range(o.replies) \/ x = [from |-> n, value |-> a]
  <1> DEFINE s == o.replies
             I == {i \in DOMAIN s : s[i].from < n}
             J == {i \in DOMAIN s : s[i].from > n}
             e == [from |-> n, value |-> a]
             r == Listing(o, n, a)
  <1>1. r = (Only(s, I) \o <<e>>) \o Only(s, J)
    BY Zenon DEF Listing
  <1> HIDE DEF s, I, J, e, r
  <1>2. IsSeq(s)
    BY Zenon DEF s
  <1>3. \A K : IsSeq(Only(s, K)) /\ Range(Only(s, K)) \subseteq Range(s)
    <2> SUFFICES ASSUME NEW K PROVE IsSeq(Only(s, K)) /\ Range(Only(s, K)) \subseteq Range(s)
      BY Zenon
    <2>1. IsSeq(Only(s, K))
      BY <1>2, OnlySeq, Zenon
    <2>2. Stays(s, K, Only(s, K))
      BY <1>2, OnlyStays, Zenon
    <2>3. DOMAIN s = 1 .. Len(s) /\ DOMAIN Only(s, K) = 1 .. Len(Only(s, K))
      BY <1>2, <2>1, SeqPlaces, Zenon
    <2> DEFINE t == Only(s, K)
    <2> HIDE DEF t
    <2>4. Range(t) \subseteq Range(s)
      BY <2>2, <2>3, Zenon DEF Stays, Range, t
    <2> QED BY <2>1, <2>4, Zenon DEF t
  <1>4. IsSeq(<<e>>) /\ \A x \in Range(<<e>>) : x = e
    <2>1. <<e>> \in Seq({e}) /\ DOMAIN <<e>> = {1} /\ <<e>>[1] = e
      OBVIOUS
    <2> QED BY <2>1, SeqIs, Zenon DEF Range
  <1>5. /\ IsSeq(Only(s, I) \o <<e>>)
        /\ \A x \in Range(Only(s, I) \o <<e>>) : x \in Range(Only(s, I)) \/ x \in Range(<<e>>)
    BY <1>3, <1>4, JoinIs, Zenon
  <1> DEFINE u == Only(s, I) \o <<e>>
  <1> HIDE DEF u
  <1>6. IsSeq(u \o Only(s, J)) /\ \A x \in Range(u \o Only(s, J)) : x \in Range(u) \/ x \in Range(Only(s, J))
    BY <1>3, <1>5, JoinIs, Zenon DEF u
  <1>7. IsSeq(r) /\ \A x \in Range(r) : x \in Range(s) \/ x = e
    BY <1>1, <1>3, <1>4, <1>5, <1>6, Zenon DEF u
  <1> QED BY <1>7, Zenon DEF r, s, e

----------------------------------------------------------------------------
(* Requests under way.                                                     *)

\* A request that is sent.
LEMMA RequestIs ==
  ASSUME NEW c, NEW o, NEW n
  PROVE  LET m == Request(c, o, n) IN
         /\ IsMessage(m) /\ m.client = c /\ m.n = o.n /\ m.to = n /\ m.copies = MaxCopies
         /\ Asks(m, o.call)
  <1> DEFINE m == Request(c, o, n)
             k == o.n
             call == o.call
             q == call.cmd
             r == CommitRequest(c, call, n)
             e == [client |-> c, n |-> k, cmd |-> q, to |-> n, copies |-> MaxCopies, req |-> r]
  <1>1. m = e
    BY Zenon DEF Request
  <1> HIDE DEF k, call, q, r, m
  <1>2. /\ e.client = c /\ e.n = k /\ e.cmd = q /\ e.to = n /\ e.copies = MaxCopies /\ e.req = r
    OBVIOUS
  <1>3. IsMessage(m)
    BY <1>1, <1>2, Zenon DEF IsMessage
  <1> HIDE DEF e
  <1>4. Asks(m, call)
    BY <1>1, <1>2, Zenon DEF Asks, q, r
  <1> QED BY <1>1, <1>2, <1>3, <1>4, Zenon DEF k, call, m

\* It is a request of its call.
LEMMA NewRequest ==
  ASSUME NEW c \in Client, NEW o, NEW x, IsOp(o, x), NEW n \in Node, NEW ops, NEW y \in Nat,
         x \in Nat, x <= y, ops[c] # Idle /\ ops[c].n = o.n => ops[c].call = o.call
  PROVE  IsRequest(Request(c, o, n), ops, y)
  <1> DEFINE m == Request(c, o, n)
  <1>1. /\ IsMessage(m) /\ m.client = c /\ m.n = o.n /\ m.to = n /\ m.copies = MaxCopies
        /\ Asks(m, o.call)
    BY RequestIs, Zenon
  <1> HIDE DEF m
  <1>2. o.n \in Nat /\ o.n < x /\ o.call \in UNION Workloads
    BY Zenon DEF IsOp
  <1>3. o.n < y
    BY <1>2
  <1>4. IsRequest(m, ops, y)
    BY <1>1, <1>2, <1>3, CopiesAssumption, Zenon DEF IsRequest
  <1> QED BY <1>4, Zenon DEF m

\* A request with a copy less.
LEMMA CopyLess ==
  ASSUME NEW m, NEW ops, NEW x, IsRequest(m, ops, x), m.copies > 1
  PROVE  LET e == [m EXCEPT !.copies = m.copies - 1] IN IsRequest(e, ops, x) /\ e # m
  <1> DEFINE a == m.client
             k == m.n
             q == m.cmd
             t == m.to
             z == m.copies
             r == m.req
             e == [m EXCEPT !.copies = m.copies - 1]
             f == [client |-> a, n |-> k, cmd |-> q, to |-> t, copies |-> z - 1, req |-> r]
  <1>1. m = [client |-> a, n |-> k, cmd |-> q, to |-> t, copies |-> z, req |-> r]
    BY Zenon DEF IsRequest, IsMessage
  <1>2. e = [m EXCEPT !.copies = z - 1]
    BY Zenon
  <1>3. z \in Nat /\ z > 1
    BY Zenon DEF IsRequest
  <1> HIDE DEF a, k, q, t, z, r, e
  <1>4. e = f
    BY <1>1, <1>2
  <1>5. /\ f.client = a /\ f.n = k /\ f.cmd = q /\ f.to = t /\ f.copies = z - 1 /\ f.req = r
    OBVIOUS
  <1>6. IsMessage(e)
    BY <1>4, <1>5, Zenon DEF IsMessage
  <1> HIDE DEF f
  <1>7. z - 1 \in Nat /\ z - 1 # z
    BY <1>3
  <1>8. e.client = m.client /\ e.n = m.n /\ e.cmd = m.cmd /\ e.to = m.to /\ e.req = m.req /\ e.copies \in Nat
    BY <1>4, <1>5, <1>7, Zenon DEF a, k, q, t, r
  <1>9. \A call : Asks(m, call) => Asks(e, call)
    BY <1>8, Zenon DEF Asks
  <1>10. IsRequest(e, ops, x)
    BY <1>6, <1>8, <1>9, Zenon DEF IsRequest
  <1>11. e # m
    BY <1>4, <1>5, <1>7, Zenon DEF z
  <1> QED BY <1>10, <1>11, Zenon DEF e

\* How a step may change the call of c.
Same(c) ==
    /\ OnlyOf(c)
    /\ \/ op'[c] = Idle
       \/ op'[c].n = calls
       \/ op[c] # Idle /\ op'[c].n = op[c].n /\ op'[c].call = op[c].call

\* The requests under way stay those of their calls.
LEMMA RequestsStay ==
  ASSUME StoreInv, NEW c \in Client, Same(c), calls' \in Nat, calls <= calls', NEW m \in net
  PROVE  IsRequest(m, op', calls')
  <1>1. IsRequest(m, op, calls) /\ calls \in Nat
    BY Zenon DEF StoreInv
  <1>2. m.n \in Nat /\ m.n < calls /\ m.client \in Client
    BY <1>1, Zenon DEF IsRequest
  <1>3. m.n < calls' /\ m.n # calls
    BY <1>1, <1>2
  <1>4. ASSUME op'[m.client] # Idle, op'[m.client].n = m.n PROVE Asks(m, op'[m.client].call)
    <2>1. CASE m.client # c
      BY <1>1, <1>2, <1>4, <2>1, Zenon DEF Same, OnlyOf, IsRequest
    <2>2. CASE m.client = c
      BY <1>1, <1>3, <1>4, <2>2, Zenon DEF Same, IsRequest
    <2> QED BY <2>1, <2>2, Zenon
  <1> QED BY <1>1, <1>3, <1>4, Zenon DEF IsRequest

\* The calls stay calls.
LEMMA CallsStay ==
  ASSUME StoreInv, NEW c \in Client, OnlyOf(c), calls' \in Nat, calls <= calls',
         op'[c] = Idle \/ IsOp(op'[c], calls')
  PROVE  op' = [d \in Client |-> op'[d]] /\ \A d \in Client : op'[d] = Idle \/ IsOp(op'[d], calls')
  <1>1. ASSUME NEW d \in Client, d # c, op[d] # Idle PROVE IsOp(op[d], calls')
    <2>1. IsOp(op[d], calls) /\ calls \in Nat
      BY <1>1, Zenon DEF StoreInv
    <2>2. op[d].n \in Nat /\ op[d].n < calls
      BY <2>1, Zenon DEF IsOp
    <2>3. op[d].n < calls'
      BY <2>1, <2>2
    <2> QED BY <2>1, <2>3, Zenon DEF IsOp
  <1> QED BY <1>1, Zenon DEF OnlyOf

\* What a request asks to put has a number.
LEMMA PutHasNumber ==
  ASSUME NEW m, NEW call \in UNION Workloads, Asks(m, call), m.cmd = "MUTABLE_PUT"
  PROVE  /\ m.req.put.seq = call.seq /\ call.seq \in Nat /\ m.req.target = call.target
         /\ ValidPut(m.req) /\ call.target \in MutableKeys
  <1>1. call \in MutableCalls
    BY Zenon DEF MutableCalls, Asks
  <1>2. call.seq \in Nat /\ call.target \in MutableKeys
    BY <1>1, SeqAssumption, Zenon DEF MutableKeys
  <1>3. m.req = MutablePutRequest(m.client, call, m.to)
    BY DEF Asks, CommitRequest
  <1> DEFINE k == call.target
             s == call.seq
             v == call.value
             g == Signed(k, <<"mutable", s, v>>)
             put == [public_key |-> k, seq |-> s, value |-> v, signature |-> g]
             to == <<m.to>>
             req == [from |-> m.client, target |-> k, token |-> to, put |-> put]
  <1>4. m.req = req
    BY <1>3, Zenon DEF MutablePutRequest
  <1>5. to # <<>>
    OBVIOUS
  <1> HIDE DEF k, s, v, g, to
  <1>6. put.public_key = k /\ put.seq = s /\ put.value = v /\ put.signature = g
    OBVIOUS
  <1> HIDE DEF put
  <1>7. req.target = k /\ req.token = to /\ req.put = put
    OBVIOUS
  <1> HIDE DEF req
  <1>8. ValidPut(req)
    BY <1>5, <1>6, <1>7, Zenon DEF ValidPut, g
  <1> QED BY <1>2, <1>4, <1>6, <1>7, <1>8, Zenon DEF k, s

\* A request under way to a node does what the handler does.
LEMMA HandledByNode ==
  ASSUME StoreInv, NEW m \in net, Store(m)
  PROVE  /\ m.to \in Node /\ storage' = [n \in Node |-> storage'[n]]
         /\ \A n \in Node : n # m.to => storage'[n] = storage[n]
         /\ storage'[m.to] = AfterHandler(storage[m.to], m)
         /\ Handled(storage[m.to], storage'[m.to], m)
         /\ m.cmd = "MUTABLE_PUT" => AtLeast(storage'[m.to], m.req.target, m.req.put.seq)
  <1>1. IsRequest(m, op, calls)
    BY Zenon DEF StoreInv
  <1>2. m.to \in Node
    BY <1>1, Zenon DEF IsRequest
  <1>3. PICK call \in UNION Workloads : Asks(m, call)
    BY <1>1, Zenon DEF IsRequest
  <1>4. m.cmd = "MUTABLE_PUT" => m.req.put.seq \in Nat /\ ValidPut(m.req)
    BY <1>3, PutHasNumber, Zenon
  <1>5. storage = [n \in Node |-> storage[n]] /\ StorageOK(storage[m.to])
    BY <1>2, Zenon DEF StoreInv
  <1>6. storage' = [storage EXCEPT ![m.to] = AfterHandler(storage[m.to], m)]
    BY Zenon DEF Store
  <1> DEFINE st2 == AfterHandler(storage[m.to], m)
  <1>7. /\ Handled(storage[m.to], st2, m)
        /\ m.cmd = "MUTABLE_PUT" /\ ValidPut(m.req) => AtLeast(st2, m.req.target, m.req.put.seq)
    BY <1>4, <1>5, AfterHandlerOK, Zenon
  <1> HIDE DEF st2
  <1>8. /\ storage' = [n \in Node |-> storage'[n]] /\ storage'[m.to] = st2
        /\ \A n \in Node : n # m.to => storage'[n] = storage[n]
    BY <1>2, <1>5, <1>6, Zenon DEF st2
  <1> QED BY <1>2, <1>4, <1>7, <1>8, Zenon DEF st2

\* So does an announcement of another implementation.
LEMMA HandledForeign ==
  ASSUME StoreInv, NEW n \in Node, NEW req, ForeignAnnounce(n, req)
  PROVE  /\ storage' = [d \in Node |-> storage'[d]]
         /\ \A d \in Node : d # n => storage'[d] = storage[d]
         /\ Announced(storage[n], storage'[n])
  <1> DEFINE m == [cmd |-> "ANNOUNCE", to |-> n, req |-> req]
  <1>1. m.cmd = "ANNOUNCE" /\ m.to = n /\ m.req = req
    OBVIOUS
  <1>2. Store(m)
    BY Zenon DEF ForeignAnnounce
  <1> HIDE DEF m
  <1>3. storage' = [storage EXCEPT ![n] = AfterHandler(storage[n], m)]
    BY <1>1, <1>2, Zenon DEF Store
  <1>4. AfterHandler(storage[n], m) = AfterAnnounce(storage[n], req, n)
    BY <1>1 DEF AfterHandler
  <1>5. storage = [d \in Node |-> storage[d]] /\ StorageOK(storage[n])
    BY Zenon DEF StoreInv
  <1>6. Announced(storage[n], AfterAnnounce(storage[n], req, n))
    BY <1>5, AfterAnnounceOK, Zenon
  <1> QED BY <1>3, <1>4, <1>5, <1>6, Zenon

=============================================================================
