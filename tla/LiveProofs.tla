----------------------------- MODULE LiveProofs -----------------------------
(* Live delivery: the hub gives every subscription each event it answers for exactly
   once, and no event is handled twice, for any topics, limits and disturbances. *)
EXTENDS Live, ChangefeedProofs, SequenceTheorems, FiniteSetTheorems, TLAPS

---------------------------------------------------------------------------
(* Sequences without repetition. *)

LEMMA AppendRange ==
  ASSUME NEW S, NEW s \in Seq(S), NEW x \in S
  PROVE  /\ Range(Append(s, x)) = Range(s) \cup {x}
         /\ IsInjective(s) /\ x \notin Range(s) => IsInjective(Append(s, x))
<1> DEFINE q == Append(s, x)
<1>1. /\ q \in Seq(S) /\ Len(q) = Len(s) + 1 /\ DOMAIN q = 1 .. Len(s) + 1 /\ DOMAIN s = 1 .. Len(s)
      /\ q[Len(s) + 1] = x /\ \A i \in 1 .. Len(s) : q[i] = s[i]
  BY AppendProperties, LenProperties
<1>2. Len(s) \in Nat
  BY LenProperties
<1> HIDE DEF q
<1>3. Range(q) = Range(s) \cup {x}
  <2>1. ASSUME NEW y \in Range(q) PROVE y \in Range(s) \cup {x}
    BY <1>1, <1>2, <2>1 DEF Range
  <2>2. ASSUME NEW y \in Range(s) \cup {x} PROVE y \in Range(q)
    <3>1. PICK i \in 1 .. Len(s) + 1 : q[i] = y
      BY <1>1, <1>2, <2>2 DEF Range
    <3> QED BY <1>1, <3>1 DEF Range
  <2> QED BY <2>1, <2>2
<1>4. ASSUME IsInjective(s), x \notin Range(s) PROVE IsInjective(q)
  BY <1>1, <1>2, <1>4 DEF IsInjective, Range
<1> QED BY <1>3, <1>4 DEF q

LEMMA ConcatAppend ==
  \A S : \A s \in Seq(S), t \in Seq(S), x \in S : s \o Append(t, x) = Append(s \o t, x)
<1> SUFFICES ASSUME NEW S, NEW s \in Seq(S), NEW t \in Seq(S), NEW x \in S
             PROVE  s \o Append(t, x) = Append(s \o t, x)
  OBVIOUS
<1>1. <<x>> \in Seq(S) /\ s \o t \in Seq(S)
  BY ConcatProperties
<1>2. Append(t, x) = t \o <<x>> /\ Append(s \o t, x) = (s \o t) \o <<x>>
  BY <1>1, AppendIsConcat
<1> QED BY <1>1, <1>2, ConcatAssociative

LEMMA PassOn ==
  ASSUME NEW S, NEW s \in Seq(S), NEW t \in Seq(S), t # <<>>
  PROVE  Append(s, Head(t)) \o Tail(t) = s \o t
<1>1. Head(t) \in S /\ Tail(t) \in Seq(S) /\ <<Head(t)>> \in Seq(S) /\ t = <<Head(t)>> \o Tail(t)
  <2>1. Head(t) \in S /\ Tail(t) \in Seq(S) /\ Len(Tail(t)) = Len(t) - 1
        /\ \A i \in 1 .. Len(Tail(t)) : Tail(t)[i] = t[i + 1]
    BY HeadTailProperties
  <2>2. Len(t) \in Nat \ {0} /\ Head(t) = t[1]
    BY LenProperties
  <2>3. <<Head(t)>> \in Seq(S) /\ Len(<<Head(t)>>) = 1 /\ <<Head(t)>>[1] = Head(t)
    BY <2>1
  <2> DEFINE u == <<Head(t)>> \o Tail(t)
  <2>4. u \in Seq(S) /\ Len(u) = 1 + Len(Tail(t))
        /\ \A i \in 1 .. 1 + Len(Tail(t)) : u[i] = IF i <= 1 THEN <<Head(t)>>[i] ELSE Tail(t)[i - 1]
    BY <2>1, <2>3, ConcatProperties
  <2> HIDE DEF u
  <2>5. \A i \in 1 .. Len(u) : u[i] = t[i]
    BY <2>1, <2>2, <2>3, <2>4
  <2>6. u = t
    BY <2>1, <2>2, <2>4, <2>5, SeqEqual
  <2> QED BY <2>1, <2>3, <2>6 DEF u
<1>2. Append(s, Head(t)) = s \o <<Head(t)>>
  BY <1>1, AppendIsConcat
<1> QED BY <1>1, <1>2, ConcatAssociative
---------------------------------------------------------------------------
(* The ring of recent events. *)

LEMMA LeastOf ==
  ASSUME NEW S \in SUBSET Nat, S # {}
  PROVE  \E x \in S : \A y \in S : x <= y
<1>1. PICK x \in S : \A y \in S : ~(<<y, x>> \in OpToRel(<, Nat))
  BY NatLessThanWellFounded, WFMin
<1>2. ASSUME NEW y \in S PROVE x <= y
  <2>1. ~(y < x)
    BY <1>1 DEF OpToRel
  <2> QED BY <2>1
<1> QED BY <1>2

\* A set of events that holds whatever follows one of its members.
Suffix(R, n) == R \subseteq 1 .. n /\ \A i \in R, j \in 1 .. n : j > i => j \in R

(* Keep adds the event to the end, keeps at most RingLimit, and leaves no hole. *)
LEMMA KeepsNewest ==
  ASSUME NEW n \in Nat, NEW R, Suffix(R, n)
  PROVE  /\ Suffix(Keep(R, n + 1), n + 1)
         /\ Keep(R, n + 1) \subseteq R \cup {n + 1} /\ n + 1 \in Keep(R, n + 1)
         /\ Cardinality(Keep(R, n + 1)) <= RingLimit
<1> DEFINE S == R \cup {n + 1}
           After(j) == {k \in S : k > j}
           K == Keep(R, n + 1)
<1>1. S \subseteq 1 .. n + 1 /\ IsFiniteSet(S) /\ S \subseteq Nat
  <2>1. S \subseteq 1 .. n + 1 /\ S \subseteq Nat
    BY DEF Suffix
  <2>2. IsFiniteSet(1 .. n + 1)
    BY FS_Interval
  <2> QED BY <2>1, <2>2, FS_Subset
<1>2. RingLimit \in Nat \ {0}
  BY RealtimeAssumption
<1>3. K = {j \in S : Cardinality(After(j)) < RingLimit}
  BY DEF Keep
<1>10. \A j \in K : j \in S /\ j \in Nat /\ Cardinality(After(j)) < RingLimit
  <2>1. \A j \in K : j \in S /\ Cardinality(After(j)) < RingLimit
    BY <1>3
  <2> HIDE DEF After, K, S
  <2> QED BY <1>1, <2>1
<1>4. \A j \in S : IsFiniteSet(After(j)) /\ Cardinality(After(j)) \in Nat
  <2>1. SUFFICES ASSUME NEW j \in S PROVE IsFiniteSet(After(j)) /\ Cardinality(After(j)) \in Nat
    OBVIOUS
  <2>2. IsFiniteSet(After(j))
    BY <1>1, FS_Subset
  <2> QED BY <2>2, FS_CardinalityType
<1>5. n + 1 \in K
  <2>1. After(n + 1) = {}
    BY <1>1
  <2>2. Cardinality(After(n + 1)) = 0
    BY <2>1, FS_EmptySet
  <2> QED BY <1>2, <1>3, <2>2
<1>6. ASSUME NEW i \in K, NEW j \in 1 .. n + 1, j > i PROVE j \in K
  <2>0. i \in S /\ i \in Nat /\ j \in Nat
    <3> HIDE DEF K, After, S
    <3> QED BY <1>6, <1>10
  <2>1. j \in S
    BY <1>6, <2>0 DEF Suffix
  <2>2. After(j) \subseteq After(i)
    <3>1. ASSUME NEW k \in S, k > j PROVE k > i
      BY <1>1, <1>6, <2>0, <3>1
    <3> QED BY <3>1
  <2>3. Cardinality(After(j)) <= Cardinality(After(i))
    BY <1>3, <1>4, <2>2, FS_Subset
  <2>4. Cardinality(After(i)) < RingLimit /\ Cardinality(After(i)) \in Nat /\ Cardinality(After(j)) \in Nat
    BY <1>3, <1>4, <2>1
  <2> HIDE DEF After
  <2> QED BY <1>2, <1>3, <2>1, <2>3, <2>4
<1>7. Cardinality(K) <= RingLimit
  <2>1. PICK m \in K : \A k \in K : m <= k
    BY <1>1, <1>3, <1>5, LeastOf
  <2>0. m \in S /\ m \in Nat /\ Cardinality(After(m)) < RingLimit
    <3> HIDE DEF K, After, S
    <3> QED BY <1>10, <2>1
  <2>2. K \subseteq After(m) \cup {m}
    <3>1. ASSUME NEW k \in K PROVE k \in S /\ (k > m \/ k = m)
      <4> HIDE DEF K, After, S
      <4> QED BY <1>10, <2>0, <2>1
    <3> HIDE DEF K
    <3> QED BY <3>1
  <2>3. m \notin After(m) /\ IsFiniteSet(After(m)) /\ Cardinality(After(m)) \in Nat
    <3>1. m \notin After(m)
      BY <2>0
    <3> HIDE DEF After, S
    <3> QED BY <1>4, <2>0, <3>1
  <2> HIDE DEF After, K
  <2>4. IsFiniteSet(After(m) \cup {m}) /\ Cardinality(After(m) \cup {m}) = Cardinality(After(m)) + 1
    BY <2>3, FS_AddElement
  <2>5. IsFiniteSet(K) /\ Cardinality(K) <= Cardinality(After(m) \cup {m})
    BY <2>2, <2>4, FS_Subset
  <2>6. Cardinality(K) \in Nat
    BY <2>5, FS_CardinalityType
  <2> QED BY <1>2, <2>0, <2>3, <2>4, <2>5, <2>6
<1>8. K \subseteq S
  BY <1>3
<1> HIDE DEF K
<1>9. Suffix(K, n + 1)
  BY <1>1, <1>6, <1>8 DEF Suffix
<1> QED BY <1>5, <1>7, <1>8, <1>9 DEF K
---------------------------------------------------------------------------
(* The hub, its subscription and its client. *)

SubType ==
  [open : BOOLEAN, keys : SUBSET Topics, ch : Seq(Events), replay : SUBSET Events,
   last : Events \cup {0}, first : 1..(Len(topic) + 1), sent : Seq(Events), lost : SUBSET Events]

\* What DeliveredExactlyOnce says of a subscription.
Delivers(s) ==
  LET out == s.sent \o s.ch IN
  s.open =>
    /\ IsInjective(out)
    /\ Range(out) \cup s.replay \cup s.lost = {i \in Events : i >= s.first /\ topic[i] \in s.keys}
    /\ Range(out) \cap (s.replay \cup s.lost) = {} /\ s.replay \cap s.lost = {}

\* What is being handled was received and has not been handled.
ReceivedOnce ==
  HandledAtMostOnce /\ (client.pc = "handle" => client.event \in store.received \ Range(store.handled))

\* The ring holds the newest events: without that, the events of a replay and those of
\* the live stream would leave a hole between them.
RealtimeInv == RealtimeTypeOK /\ Suffix(ring, Len(topic)) /\ Delivers(sub) /\ ReceivedOnce

LEMMA Shapes ==
  ASSUME RealtimeTypeOK
  PROVE  /\ Len(topic) \in Nat /\ Events = 1 .. Len(topic) /\ sub \in SubType
         /\ wire \in Seq(Events) /\ store.handled \in Seq(Events)
BY LenProperties DEF RealtimeTypeOK, SubType, Events

LEMMA ClosedKeeps == ASSUME RealtimeTypeOK PROVE Closed \in SubType /\ Len(Closed.ch) = 0 /\ Delivers(Closed)
<1>1. Len(topic) \in Nat
  BY Shapes
<1>2. <<>> \in Seq(Events) /\ Len(<<>>) = 0 /\ 1 \in 1 .. Len(topic) + 1
  BY <1>1
<1>3. Closed \in SubType /\ ~Closed.open /\ Closed.ch = <<>>
  BY <1>1, <1>2 DEF Closed, SubType
<1> QED BY <1>2, <1>3 DEF Delivers

(* A subscription starts with what it answers for: nothing between the replay and the
   live stream is missing, because the ring has no hole. *)
LEMMA SubscriptionKeeps ==
  ASSUME RealtimeInv, NEW keys \in KeySets, NEW k \in Events \cup {0}
  PROVE  /\ Subscription(keys, k) \in SubType /\ Len(Subscription(keys, k).ch) = 0
         /\ Delivers(Subscription(keys, k))
<1> DEFINE s == Subscription(keys, k)
<1>1. /\ Len(topic) \in Nat /\ Events = 1 .. Len(topic) /\ Suffix(ring, Len(topic)) /\ ring \subseteq Events
      /\ keys \subseteq Topics
  BY Shapes, RealtimeAssumption DEF RealtimeInv, Suffix
<1>2. /\ s.open /\ s.keys = keys /\ s.ch = <<>> /\ s.sent = <<>> /\ s.lost = {} /\ s.replay = Replay(keys, k)
      /\ s.first = IF k \in ring THEN k + 1 ELSE Len(topic) + 1
  BY DEF Subscription
<1>3. s.replay \subseteq Events
  BY <1>1, <1>2 DEF Replay
<1>4. s.first \in 1 .. Len(topic) + 1
  BY <1>1, <1>2
<1>5. <<>> \in Seq(Events) /\ Len(<<>>) = 0
  OBVIOUS
<1>6. s \in SubType
  BY <1>1, <1>2, <1>3, <1>4, <1>5 DEF Subscription, SubType
<1>7. s.replay = {i \in Events : i >= s.first /\ topic[i] \in s.keys}
  <2> HIDE DEF s
  <2>1. CASE k \in ring
    <3>1. s.replay = {i \in ring : i > k /\ topic[i] \in keys} /\ s.first = k + 1 /\ k \in Nat
      BY <1>1, <1>2, <2>1 DEF Replay
    <3>2. \A i \in Events : i \in ring /\ i > k <=> i >= k + 1
      BY <1>1, <2>1 DEF Suffix
    <3> QED BY <1>1, <1>2, <3>1, <3>2
  <2>2. CASE k \notin ring
    BY <1>1, <1>2, <2>2 DEF Replay
  <2> QED BY <2>1, <2>2
<1>8. s.sent \o s.ch = <<>>
  BY <1>2
<1>9. Range(<<>>) = {} /\ IsInjective(<<>>)
  BY DEF Range, IsInjective
<1> HIDE DEF s
<1>10. Delivers(s)
  BY <1>2, <1>7, <1>8, <1>9 DEF Delivers
<1> QED BY <1>2, <1>5, <1>6, <1>10 DEF s

LEMMA RealtimeInitInv == RealtimeInit => RealtimeInv
<1> SUFFICES ASSUME RealtimeInit PROVE RealtimeInv
  OBVIOUS
<1>1. topic = <<>> /\ ring = {} /\ sub = Closed /\ wire = <<>> /\ client = [pc |-> "down", event |-> 0, last |-> 0]
      /\ store = [received |-> {}, handled |-> <<>>] /\ spent \in [Disturbances -> Nat]
  BY DEF RealtimeInit
<1>2. topic \in Seq(Topics) /\ Len(topic) = 0 /\ Events = {} /\ wire \in Seq(Events) /\ <<>> \in Seq(Events)
  BY <1>1 DEF Events
<1>3. Cardinality(ring) = 0
  BY <1>1, FS_EmptySet
<1>4. sub \in SubType /\ Len(sub.ch) = 0
  BY <1>1, <1>2 DEF Closed, SubType
<1>5. RealtimeTypeOK
  BY <1>1, <1>2, <1>3, <1>4, RealtimeAssumption DEF RealtimeTypeOK, SubType
<1>6. Delivers(sub)
  BY <1>1, <1>5, ClosedKeeps
<1>7. ReceivedOnce
  BY <1>1 DEF ReceivedOnce, HandledAtMostOnce, Range, IsInjective
<1> QED BY <1>1, <1>2, <1>5, <1>6, <1>7 DEF RealtimeInv, Suffix

(* A step that publishes nothing keeps the invariant when what it makes of the
   subscription, the socket and the client does. *)
LEMMA QuietKeeps ==
  ASSUME RealtimeInv, topic' = topic, Suffix(ring', Len(topic)), Cardinality(ring') <= RingLimit,
         sub' \in SubType, Len(sub'.ch) <= ChanLimit, Delivers(sub'), wire' \in Seq(Events),
         client' \in [pc : {"down", "up", "handle"}, event : Events \cup {0}, last : Events \cup {0}],
         store' \in [received : SUBSET Events, handled : Seq(Events)], spent' \in [Disturbances -> Nat],
         ReceivedOnce'
  PROVE  RealtimeInv'
<1>1. Events' = Events /\ SubType' = SubType /\ ring' \subseteq Events
  BY DEF Events, SubType, Suffix
<1>2. RealtimeTypeOK'
  BY <1>1 DEF RealtimeInv, RealtimeTypeOK, SubType
<1>3. Delivers(sub)'
  BY <1>1 DEF Delivers
<1> QED BY <1>1, <1>2, <1>3 DEF RealtimeInv
LEMMA SpendKeeps ==
  ASSUME spent \in [Disturbances -> Nat], NEW d \in Disturbances, Spend(d)
  PROVE  spent' \in [Disturbances -> Nat]
BY DEF Spend

(* What the hub publishes. *)
LEMMA PublishInv == ASSUME RealtimeInv, NEW t \in Topics, Publish(t) PROVE RealtimeInv'
<1> DEFINE n == Len(topic)
           i == n + 1
<1>1. /\ n \in Nat /\ Events = 1 .. n /\ sub \in SubType /\ wire \in Seq(Events) /\ store.handled \in Seq(Events)
      /\ RealtimeTypeOK /\ Suffix(ring, n) /\ Delivers(sub) /\ ReceivedOnce
  BY Shapes DEF RealtimeInv
<1>2. /\ i <= MaxEvents /\ topic' = Append(topic, t) /\ ring' = Keep(ring, i)
      /\ sub' = IF sub.open /\ t \in sub.keys THEN Offer(sub, i) ELSE sub
      /\ UNCHANGED <<wire, client, store, spent>>
  BY DEF Publish
<1>3. topic \in Seq(Topics)
  BY <1>1 DEF RealtimeTypeOK
<1>4. topic' \in Seq(Topics) /\ Len(topic') = i /\ topic'[i] = t /\ \A j \in Events : topic'[j] = topic[j]
  BY <1>1, <1>2, <1>3, AppendProperties
<1>5. Events' = Events \cup {i} /\ Events' = 1 .. i /\ i \notin Events /\ i \in Events'
  BY <1>1, <1>4 DEF Events
<1>6. Suffix(ring', Len(topic')) /\ Cardinality(ring') <= RingLimit
  BY <1>1, <1>2, <1>4, KeepsNewest
<1>7. ring' \subseteq Events'
  BY <1>4, <1>5, <1>6 DEF Suffix
<1>8. wire' \in Seq(Events') /\ store'.handled \in Seq(Events')
  BY <1>1, <1>2, <1>5, SeqMonotonic
<1>9. sub \in [open : BOOLEAN, keys : SUBSET Topics, ch : Seq(Events'), replay : SUBSET Events',
               last : Events' \cup {0}, first : 1..(Len(topic') + 1), sent : Seq(Events'), lost : SUBSET Events']
  <2>1. sub.ch \in Seq(Events') /\ sub.sent \in Seq(Events')
    BY <1>1, <1>5, SeqMonotonic DEF SubType
  <2>2. 1 .. (n + 1) \subseteq 1 .. (i + 1)
    BY <1>1
  <2> QED BY <1>1, <1>4, <1>5, <2>1, <2>2 DEF SubType
<1>10. sub' \in SubType' /\ Len(sub'.ch) <= ChanLimit
  <2>1. CASE Len(sub.ch) < ChanLimit /\ sub' = [sub EXCEPT !.ch = Append(@, i)]
    <3>1. Append(sub.ch, i) \in Seq(Events') /\ Len(Append(sub.ch, i)) = Len(sub.ch) + 1 /\ Len(sub.ch) \in Nat
      BY <1>5, <1>9, AppendProperties, LenProperties
    <3>2. ChanLimit \in Nat
      BY RealtimeAssumption
    <3>3. sub'.ch = Append(sub.ch, i) /\ Len(sub'.ch) <= ChanLimit
      <4> HIDE DEF i
      <4> QED BY <1>9, <2>1, <3>1, <3>2
    <3> HIDE DEF i, n
    <3> QED BY <1>9, <2>1, <3>1, <3>3 DEF SubType
  <2>2. CASE sub' = [sub EXCEPT !.lost = @ \cup {i}]
    BY <1>1, <1>5, <1>9, <2>2 DEF SubType, RealtimeTypeOK
  <2>3. CASE sub' = sub
    BY <1>1, <1>9, <2>3 DEF SubType, RealtimeTypeOK
  <2> QED BY <1>2, <2>1, <2>2, <2>3 DEF Offer
<1>11. RealtimeTypeOK'
  <2>1. client' \in [pc : {"down", "up", "handle"}, event : Events' \cup {0}, last : Events' \cup {0}]
        /\ store' \in [received : SUBSET Events', handled : Seq(Events')] /\ spent' \in [Disturbances -> Nat]
    BY <1>1, <1>2, <1>5, <1>8 DEF RealtimeTypeOK
  <2> QED BY <1>2, <1>4, <1>6, <1>7, <1>8, <1>10, <2>1 DEF RealtimeTypeOK, SubType
<1>12. Delivers(sub)'
  <2> SUFFICES ASSUME sub'.open PROVE Delivers(sub)'
    BY DEF Delivers
  <2> DEFINE out == sub.sent \o sub.ch
  <2>1. sub.open /\ sub'.first = sub.first /\ sub'.keys = sub.keys /\ sub'.sent = sub.sent /\ sub'.replay = sub.replay
    BY <1>1, <1>2 DEF Offer, SubType
  <2>2. /\ IsInjective(out)
        /\ Range(out) \cup sub.replay \cup sub.lost = {j \in Events : j >= sub.first /\ topic[j] \in sub.keys}
        /\ Range(out) \cap (sub.replay \cup sub.lost) = {} /\ sub.replay \cap sub.lost = {}
    BY <1>1, <2>1 DEF Delivers
  <2>3. sub.first \in Nat /\ sub.first <= i /\ i \in Nat
    BY <1>1 DEF SubType
  <2>4. {j \in Events' : j >= sub.first /\ topic'[j] \in sub.keys}
        = {j \in Events : j >= sub.first /\ topic[j] \in sub.keys} \cup (IF t \in sub.keys THEN {i} ELSE {})
    BY <1>4, <1>5, <2>3
  <2>5. sub.sent \in Seq(Events') /\ sub.ch \in Seq(Events') /\ out \in Seq(Events') /\ Range(out) \subseteq Events
    <3>1. out \in Seq(Events)
      BY <1>1, ConcatProperties DEF SubType
    <3> HIDE DEF out
    <3> QED BY <1>5, <1>9, <3>1, RangeOfSeq, SeqMonotonic
  <2>6. i \notin Range(out) /\ i \notin sub.replay /\ i \notin sub.lost
    BY <1>1, <1>5, <2>5 DEF SubType
  <2>7. CASE t \in sub.keys /\ sub' = [sub EXCEPT !.ch = Append(@, i)]
    <3>1. sub'.ch = Append(sub.ch, i) /\ sub'.lost = sub.lost
      BY <1>1, <2>7 DEF SubType
    <3>2. sub'.sent \o sub'.ch = Append(out, i)
      <4> HIDE DEF i
      <4> DEFINE a == sub.sent
                 b == sub.ch
                 E == Events'
      <4>1. a \in Seq(E) /\ b \in Seq(E) /\ i \in E
        BY <1>5, <2>5
      <4>2. a \o Append(b, i) = Append(a \o b, i)
        <5> HIDE DEF a, b, E, i
        <5> QED BY <4>1, ConcatAppend
      <4> QED BY <2>1, <3>1, <4>2
    <3>3. IsInjective(Append(out, i)) /\ Range(Append(out, i)) = Range(out) \cup {i}
      <4> HIDE DEF i, out
      <4> QED BY <1>5, <2>2, <2>5, <2>6, AppendRange
    <3> HIDE DEF out, i
    <3> QED BY ZenonT(40), <2>1, <2>2, <2>4, <2>6, <2>7, <3>1, <3>2, <3>3 DEF Delivers
  <2>8. CASE t \in sub.keys /\ sub' = [sub EXCEPT !.lost = @ \cup {i}]
    <3>1. sub'.ch = sub.ch /\ sub'.lost = sub.lost \cup {i}
      BY <1>1, <2>8 DEF SubType
    <3> HIDE DEF i
    <3> QED BY <2>1, <2>2, <2>4, <2>6, <2>8, <3>1 DEF Delivers
  <2>9. CASE t \notin sub.keys /\ sub' = sub
    BY <2>1, <2>2, <2>4, <2>9 DEF Delivers
  <2> QED BY <1>2, <2>1, <2>7, <2>8, <2>9 DEF Offer
<1>13. ReceivedOnce'
  BY <1>1, <1>2 DEF ReceivedOnce, HandledAtMostOnce
<1> QED BY <1>6, <1>11, <1>12, <1>13 DEF RealtimeInv
LEMMA ReplayOneInv == ASSUME RealtimeInv, ReplayOne PROVE RealtimeInv'
<1>1. /\ Len(topic) \in Nat /\ Events = 1 .. Len(topic) /\ sub \in SubType /\ wire \in Seq(Events)
      /\ store.handled \in Seq(Events) /\ RealtimeTypeOK /\ Suffix(ring, Len(topic)) /\ Delivers(sub) /\ ReceivedOnce
  BY Shapes DEF RealtimeInv
<1>2. PICK i \in sub.replay :
        /\ Len(sub.ch) < ChanLimit /\ sub' = [sub EXCEPT !.replay = @ \ {i}, !.ch = Append(@, i)]
        /\ UNCHANGED <<topic, ring, wire, client, store, spent>>
  BY DEF ReplayOne
<1> DEFINE s == [sub EXCEPT !.replay = @ \ {i}, !.ch = Append(@, i)]
           out == sub.sent \o sub.ch
<1>3. i \in Events /\ sub.ch \in Seq(Events) /\ sub.sent \in Seq(Events) /\ out \in Seq(Events)
  BY <1>1, ConcatProperties DEF SubType
<1>4. Append(sub.ch, i) \in Seq(Events) /\ Len(Append(sub.ch, i)) = Len(sub.ch) + 1 /\ Len(sub.ch) \in Nat
  BY <1>3, AppendProperties, LenProperties
<1>5. ChanLimit \in Nat
  BY RealtimeAssumption
<1>6. /\ s.open = sub.open /\ s.keys = sub.keys /\ s.ch = Append(sub.ch, i) /\ s.replay = sub.replay \ {i}
      /\ s.last = sub.last /\ s.first = sub.first /\ s.sent = sub.sent /\ s.lost = sub.lost
  BY <1>1 DEF SubType
<1>7. s \in SubType
  BY <1>1, <1>4 DEF SubType
<1>8. s.sent \o s.ch = Append(out, i)
  <2> DEFINE a == sub.sent
             b == sub.ch
  <2>1. a \in Seq(Events) /\ b \in Seq(Events) /\ i \in Events
    BY <1>3
  <2>2. a \o Append(b, i) = Append(a \o b, i)
    <3> HIDE DEF a, b
    <3> QED BY <2>1, ConcatAppend
  <2> HIDE DEF s
  <2> QED BY <1>6, <2>2
<1> HIDE DEF s, out
<1>9. Delivers(s)
  <2> SUFFICES ASSUME sub.open PROVE Delivers(s)
    BY <1>6 DEF Delivers
  <2>1. /\ IsInjective(out)
        /\ Range(out) \cup sub.replay \cup sub.lost = {j \in Events : j >= sub.first /\ topic[j] \in sub.keys}
        /\ Range(out) \cap (sub.replay \cup sub.lost) = {} /\ sub.replay \cap sub.lost = {}
    BY <1>1 DEF Delivers, out
  <2>2. IsInjective(Append(out, i)) /\ Range(Append(out, i)) = Range(out) \cup {i}
    BY <1>2, <1>3, <2>1, AppendRange
  <2> QED BY <1>2, <1>6, <1>8, <2>1, <2>2 DEF Delivers
<1>10. sub' = s /\ Len(s.ch) <= ChanLimit
  BY <1>2, <1>4, <1>5, <1>6 DEF s
<1>11. ReceivedOnce'
  BY <1>1, <1>2 DEF ReceivedOnce, HandledAtMostOnce
<1> QED BY <1>1, <1>2, <1>7, <1>9, <1>10, <1>11, QuietKeeps DEF RealtimeTypeOK

LEMMA ForwardInv == ASSUME RealtimeInv, Forward PROVE RealtimeInv'
<1>1. /\ Len(topic) \in Nat /\ Events = 1 .. Len(topic) /\ sub \in SubType /\ wire \in Seq(Events)
      /\ store.handled \in Seq(Events) /\ RealtimeTypeOK /\ Suffix(ring, Len(topic)) /\ Delivers(sub) /\ ReceivedOnce
  BY Shapes DEF RealtimeInv
<1> DEFINE i == Head(sub.ch)
           s == [sub EXCEPT !.ch = Tail(@), !.last = i, !.sent = Append(@, i)]
<1>2. /\ sub.ch # <<>> /\ wire' = Append(wire, i) /\ sub' = s
      /\ UNCHANGED <<topic, ring, client, store, spent>>
  BY DEF Forward
<1>3. sub.ch \in Seq(Events) /\ sub.sent \in Seq(Events) /\ Len(sub.ch) \in Nat /\ Len(sub.ch) <= ChanLimit /\ ChanLimit \in Nat
  BY <1>1, LenProperties, RealtimeAssumption DEF SubType, RealtimeTypeOK
<1>4. i \in Events /\ Tail(sub.ch) \in Seq(Events) /\ Len(Tail(sub.ch)) = Len(sub.ch) - 1
  BY <1>2, <1>3, HeadTailProperties
<1> HIDE DEF i
<1>5. Append(sub.sent, i) \in Seq(Events) /\ wire' \in Seq(Events)
  BY <1>1, <1>2, <1>3, <1>4, AppendProperties
<1>6. /\ s.open = sub.open /\ s.keys = sub.keys /\ s.ch = Tail(sub.ch) /\ s.replay = sub.replay
      /\ s.last = i /\ s.first = sub.first /\ s.sent = Append(sub.sent, i) /\ s.lost = sub.lost
  BY <1>1 DEF SubType
<1>7. s \in SubType
  BY <1>1, <1>4, <1>5 DEF SubType
<1> HIDE DEF s
<1>8. s.sent \o s.ch = sub.sent \o sub.ch
  BY <1>2, <1>3, <1>6, PassOn DEF i
<1>9. Delivers(s)
  BY <1>1, <1>6, <1>8 DEF Delivers
<1>10. ReceivedOnce'
  BY <1>1, <1>2 DEF ReceivedOnce, HandledAtMostOnce
<1>11. Len(sub'.ch) <= ChanLimit
  BY <1>2, <1>3, <1>4, <1>6
<1> QED BY <1>1, <1>2, <1>5, <1>7, <1>9, <1>10, <1>11, QuietKeeps DEF RealtimeTypeOK

(* What the client receives and handles: the mark of an event comes before its handler. *)
LEMMA ClientInv == ASSUME RealtimeInv, ClientStep \/ HandleFails PROVE RealtimeInv'
<1>1. /\ Len(topic) \in Nat /\ Events = 1 .. Len(topic) /\ sub \in SubType /\ wire \in Seq(Events)
      /\ store.handled \in Seq(Events) /\ RealtimeTypeOK /\ Suffix(ring, Len(topic)) /\ Delivers(sub) /\ ReceivedOnce
      /\ client \in [pc : {"down", "up", "handle"}, event : Events \cup {0}, last : Events \cup {0}]
      /\ store \in [received : SUBSET Events, handled : Seq(Events)] /\ spent \in [Disturbances -> Nat]
      /\ Len(sub.ch) <= ChanLimit /\ Cardinality(ring) <= RingLimit
  BY Shapes DEF RealtimeInv, RealtimeTypeOK
<1>2. CASE Receive
  <2> DEFINE i == Head(wire)
  <2>1. i \in Events /\ wire' \in Seq(Events)
    BY <1>1, <1>2, HeadTailProperties DEF Receive
  <2>2. /\ store' = [store EXCEPT !.received = @ \cup {i}] /\ UNCHANGED <<topic, ring, sub, spent>> /\ client.pc = "up"
        /\ client' = IF i \in store.received THEN [client EXCEPT !.last = i]
                     ELSE [client EXCEPT !.pc = "handle", !.event = i]
    BY <1>2 DEF Receive
  <2> HIDE DEF i
  <2>3. /\ store' \in [received : SUBSET Events, handled : Seq(Events)]
        /\ client' \in [pc : {"down", "up", "handle"}, event : Events \cup {0}, last : Events \cup {0}]
    BY <1>1, <2>1, <2>2
  <2>4. ReceivedOnce'
    BY <1>1, <2>1, <2>2 DEF ReceivedOnce, HandledAtMostOnce
  <2> QED BY <1>1, <2>1, <2>2, <2>3, <2>4, QuietKeeps
<1>3. CASE Handle
  <2> DEFINE i == client.event
  <2>1. /\ store' = [store EXCEPT !.handled = Append(@, i)] /\ UNCHANGED <<topic, ring, sub, wire, spent>>
        /\ client' = [client EXCEPT !.pc = "up", !.last = i] /\ i \in Events /\ i \in store.received \ Range(store.handled)
    BY <1>1, <1>3 DEF Handle, ReceivedOnce
  <2>2. Append(store.handled, i) \in Seq(Events) /\ Range(Append(store.handled, i)) = Range(store.handled) \cup {i}
        /\ IsInjective(Append(store.handled, i))
    BY <1>1, <2>1, AppendProperties, AppendRange DEF ReceivedOnce, HandledAtMostOnce
  <2> HIDE DEF i
  <2>3. /\ store' \in [received : SUBSET Events, handled : Seq(Events)]
        /\ client' \in [pc : {"down", "up", "handle"}, event : Events \cup {0}, last : Events \cup {0}]
    BY <1>1, <2>1, <2>2
  <2>4. ReceivedOnce'
    BY <1>1, <2>1, <2>2 DEF ReceivedOnce, HandledAtMostOnce
  <2> QED BY <1>1, <2>1, <2>3, <2>4, QuietKeeps
<1>4. CASE Ignore
  <2>1. client' \in [pc : {"down", "up", "handle"}, event : Events \cup {0}, last : Events \cup {0}]
    BY <1>1, <1>4 DEF Ignore
  <2>2. UNCHANGED <<topic, ring, sub, wire, store, spent>> /\ client'.pc = "up"
    BY <1>1, <1>4 DEF Ignore
  <2>3. ReceivedOnce'
    BY <1>1, <2>2 DEF ReceivedOnce, HandledAtMostOnce
  <2> QED BY <1>1, <2>1, <2>2, <2>3, QuietKeeps
<1>5. CASE Notice
  <2>1. /\ client' \in [pc : {"down", "up", "handle"}, event : Events \cup {0}, last : Events \cup {0}]
        /\ UNCHANGED <<topic, ring, sub, wire, store, spent>> /\ client'.pc = "down"
    BY <1>1, <1>5 DEF Notice
  <2>2. ReceivedOnce'
    BY <1>1, <2>1 DEF ReceivedOnce, HandledAtMostOnce
  <2> QED BY <1>1, <2>1, <2>2, QuietKeeps
<1>6. CASE HandleFails
  <2>1. /\ client' \in [pc : {"down", "up", "handle"}, event : Events \cup {0}, last : Events \cup {0}]
        /\ UNCHANGED <<topic, ring, store>> /\ client'.pc = "down" /\ sub' = Closed /\ wire' \in Seq(Events)
    <3>1. UNCHANGED <<topic, ring, store>> /\ sub' = Closed /\ wire' = <<>> /\ client' = [client EXCEPT !.pc = "down"]
      BY <1>6 DEF HandleFails
    <3>2. client' \in [pc : {"down", "up", "handle"}, event : Events \cup {0}, last : Events \cup {0}]
          /\ client'.pc = "down"
      BY <1>1, <3>1
    <3>3. wire' \in Seq(Events)
      BY <3>1
    <3> QED BY <3>1, <3>2, <3>3
  <2>4. spent' \in [Disturbances -> Nat]
    BY <1>1, <1>6, SpendKeeps DEF HandleFails, Disturbances
  <2>2. ReceivedOnce'
    BY <1>1, <2>1 DEF ReceivedOnce, HandledAtMostOnce
  <2>3. sub' \in SubType /\ Len(sub'.ch) <= ChanLimit /\ Delivers(sub')
    BY <1>1, <2>1, ClosedKeeps, RealtimeAssumption
  <2> QED BY <1>1, <2>1, <2>2, <2>3, <2>4, QuietKeeps
<1> QED BY <1>2, <1>3, <1>4, <1>5, <1>6 DEF ClientStep

(* Connections, cuts and restarts. *)
LEMMA DisturbedInv ==
  ASSUME RealtimeInv,
         \/ \E keys \in KeySets : Connect(keys) \/ Resubscribe(keys)
         \/ Cut \/ HubRestart \/ ClientRestart
  PROVE  RealtimeInv'
<1>1. /\ Len(topic) \in Nat /\ Events = 1 .. Len(topic) /\ sub \in SubType /\ wire \in Seq(Events)
      /\ store.handled \in Seq(Events) /\ RealtimeTypeOK /\ Suffix(ring, Len(topic)) /\ Delivers(sub) /\ ReceivedOnce
      /\ client \in [pc : {"down", "up", "handle"}, event : Events \cup {0}, last : Events \cup {0}]
      /\ store \in [received : SUBSET Events, handled : Seq(Events)] /\ spent \in [Disturbances -> Nat]
      /\ Len(sub.ch) <= ChanLimit /\ Cardinality(ring) <= RingLimit
  BY Shapes DEF RealtimeInv, RealtimeTypeOK
<1>2. Truncate => wire' \in Seq(Events)
  <2> SUFFICES ASSUME NEW k \in 0 .. Len(wire), wire' = SubSeq(wire, 1, k) PROVE wire' \in Seq(Events)
    BY DEF Truncate
  <2>1. \A j \in 1 .. k : wire[j] \in Events
    BY SMTT(30), <1>1, LenProperties, ElementOfSeq
  <2> QED BY <2>1, SubSeqProperties
<1>3. Closed \in SubType /\ Len(Closed.ch) <= ChanLimit /\ Delivers(Closed)
  BY <1>1, ClosedKeeps, RealtimeAssumption
<1>4. ASSUME NEW keys \in KeySets, NEW k \in Events \cup {0}
      PROVE  LET s == Subscription(keys, k) IN s \in SubType /\ Len(s.ch) <= ChanLimit /\ Delivers(s)
  BY SubscriptionKeeps, RealtimeAssumption
<1>5. ASSUME NEW keys \in KeySets, Connect(keys) PROVE RealtimeInv'
  <2>1. /\ sub' = Subscription(keys, client.last) /\ client'.pc = "up" /\ UNCHANGED <<topic, ring, wire, store, spent>>
        /\ client' \in [pc : {"down", "up", "handle"}, event : Events \cup {0}, last : Events \cup {0}]
    BY <1>1, <1>5 DEF Connect
  <2>2. sub' \in SubType /\ Len(sub'.ch) <= ChanLimit /\ Delivers(sub')
    BY <1>1, <1>4, <2>1
  <2>3. ReceivedOnce'
    BY <1>1, <2>1 DEF ReceivedOnce, HandledAtMostOnce
  <2> QED BY <1>1, <2>1, <2>2, <2>3, QuietKeeps
<1>6. ASSUME NEW keys \in KeySets, Resubscribe(keys) PROVE RealtimeInv'
  <2>1. /\ sub' = Subscription(keys, sub.last) /\ UNCHANGED <<topic, ring, wire, client, store>>
        /\ spent' \in [Disturbances -> Nat] /\ sub.last \in Events \cup {0}
    BY <1>1, <1>6, SpendKeeps DEF Resubscribe, Disturbances, SubType
  <2>2. sub' \in SubType /\ Len(sub'.ch) <= ChanLimit /\ Delivers(sub')
    BY <1>4, <2>1
  <2>3. ReceivedOnce'
    BY <1>1, <2>1 DEF ReceivedOnce, HandledAtMostOnce
  <2> QED BY <1>1, <2>1, <2>2, <2>3, QuietKeeps
<1>7. CASE Cut
  <2>1. sub' = Closed /\ wire' \in Seq(Events) /\ UNCHANGED <<topic, ring, client, store>> /\ spent' \in [Disturbances -> Nat]
    BY <1>1, <1>2, <1>7, SpendKeeps DEF Cut, Disturbances
  <2>2. ReceivedOnce'
    BY <1>1, <2>1 DEF ReceivedOnce, HandledAtMostOnce
  <2> QED BY <1>1, <1>3, <2>1, <2>2, QuietKeeps
<1>8. CASE HubRestart
  <2>1. /\ sub' = Closed /\ wire' \in Seq(Events) /\ ring' = {} /\ UNCHANGED <<topic, client, store>>
        /\ spent' \in [Disturbances -> Nat]
    BY <1>1, <1>2, <1>8, SpendKeeps DEF HubRestart, Disturbances
  <2>2. ReceivedOnce'
    BY <1>1, <2>1 DEF ReceivedOnce, HandledAtMostOnce
  <2>3. Suffix(ring', Len(topic)) /\ Cardinality(ring') <= RingLimit
    BY <2>1, FS_EmptySet, RealtimeAssumption DEF Suffix
  <2> QED BY <1>1, <1>3, <2>1, <2>2, <2>3, QuietKeeps
<1>9. CASE ClientRestart
  <2>1. /\ sub' = Closed /\ wire' \in Seq(Events) /\ UNCHANGED <<topic, ring, store>>
        /\ client' = [pc |-> "down", event |-> 0, last |-> 0] /\ spent' \in [Disturbances -> Nat]
    BY <1>1, <1>9, SpendKeeps DEF ClientRestart, Disturbances
  <2>2. ReceivedOnce'
    BY <1>1, <2>1 DEF ReceivedOnce, HandledAtMostOnce
  <2> QED BY <1>1, <1>3, <2>1, <2>2, QuietKeeps
<1> QED BY <1>5, <1>6, <1>7, <1>8, <1>9

LEMMA RealtimeNextInv == RealtimeInv /\ [RealtimeNext]_realtimeVars => RealtimeInv'
<1> SUFFICES ASSUME RealtimeInv, [RealtimeNext]_realtimeVars PROVE RealtimeInv'
  OBVIOUS
<1>1. CASE UNCHANGED realtimeVars
  BY <1>1 DEF realtimeVars, RealtimeInv, RealtimeTypeOK, Events, Suffix, Delivers, ReceivedOnce, HandledAtMostOnce
<1> QED BY <1>1, PublishInv, ReplayOneInv, ForwardInv, ClientInv, DisturbedInv DEF RealtimeNext

(* Type correctness of the hub, the route and the client. *)
THEOREM RealtimeTypeCorrect == RealtimeSpec => []RealtimeTypeOK
<1>1. RealtimeInv => RealtimeTypeOK
  BY DEF RealtimeInv
<1> QED BY <1>1, RealtimeInitInv, RealtimeNextInv, PTL DEF RealtimeSpec

(* Every event a subscription answers for is in exactly one place, once, however the
   replay and the live stream interleave, and no handler runs to the end twice for one
   event, whatever is cut, dropped, failed or restarted. *)
THEOREM LiveDeliveryIsExact == RealtimeSpec => []DeliveryIsExact
<1>1. RealtimeInv => DeliveryIsExact
  BY DEF RealtimeInv, Delivers, ReceivedOnce, DeliveryIsExact, DeliveredExactlyOnce, Due
<1> QED BY <1>1, RealtimeInitInv, RealtimeNextInv, PTL DEF RealtimeSpec
---------------------------------------------------------------------------
(* The quote hub of a symbol. *)

SubCallType == [at : Places, conn : Nat]
UnsubCallType == [at : Places, conn : Nat, counted : BOOLEAN]

HubTypes ==
  /\ HubTypeOK /\ count \in Nat /\ dialled \in Nat
  /\ subCall \in [Watchers -> SubCallType] /\ unsubCall \in [Watchers -> UnsubCallType]
  /\ \A w \in Watchers : unsubCall[w].at = "unsent" => ~unsubCall[w].counted
  /\ {known, unresolved, wanted, carried} \subseteq BOOLEAN

\* The hub holds a cancel exactly while its goroutine lives, and a symbol that is
\* watched is known, could not be resolved, or is about to be.
HubHolds ==
  /\ alive = IF holder = "none" THEN 0 ELSE 1
  /\ count > 0 => known \/ unresolved \/ \E w \in Watchers : subCall[w].at \in {"starting", "resolving"}

HubInv == HubTypes /\ HubHolds

Subscribed == {w \in Watchers : subCall[w].at # "unsent"}
Counted == {w \in Watchers : unsubCall[w].counted}

LEMMA HubInitInv == HubInit => HubInv
<1> SUFFICES ASSUME HubInit PROVE HubInv
  OBVIOUS
<1>1. {w \in Watchers : subCall[w].at # "unsent"} = {} /\ {w \in Watchers : unsubCall[w].counted} = {}
  BY DEF HubInit
<1>2. Cardinality({}) = 0
  BY FS_EmptySet
<1>3. count = Cardinality({w \in Watchers : subCall[w].at # "unsent"}) - Cardinality({w \in Watchers : unsubCall[w].counted})
  <2>1. count = Cardinality({}) - Cardinality({})
    BY <1>2 DEF HubInit
  <2> QED BY <1>1, <2>1
<1>5. /\ \A w \in Watchers : {subCall[w].at, unsubCall[w].at} \subseteq Places /\ {subCall[w].conn, unsubCall[w].conn} \subseteq 0 .. dialled
      /\ holder = "none" /\ alive = 0 /\ session = "down" /\ conn \in 0 .. dialled /\ ~carried
  BY DEF HubInit, Places
<1>6. HubTypeOK
  BY <1>3, <1>5 DEF HubTypeOK
<1>4. HubTypes
  BY <1>6 DEF HubInit, HubTypes, SubCallType, UnsubCallType, Places
<1> QED BY <1>4 DEF HubInit, HubInv, HubHolds

(* A call that moves on keeps the counting, as it was sent and what it counted stays. *)
LEMMA CallsKeep ==
  ASSUME HubTypes, UNCHANGED count, dialled' \in Nat, dialled <= dialled',
         subCall' \in [Watchers -> SubCallType], unsubCall' \in [Watchers -> UnsubCallType],
         \A w \in Watchers :
           /\ subCall'[w].at = "unsent" <=> subCall[w].at = "unsent"
           /\ unsubCall'[w].counted = unsubCall[w].counted
           /\ unsubCall'[w].at = "unsent" => unsubCall[w].at = "unsent"
           /\ {subCall'[w].conn, unsubCall'[w].conn} \subseteq 0 .. dialled',
         holder' \in {"none", "running", "cancelled"}, alive' \in Nat,
         session' \in {"down", "dialled", "opened", "up"}, conn' \in 0 .. dialled', carried' => session' # "down",
         {known', unresolved', wanted', carried'} \subseteq BOOLEAN
  PROVE  HubTypes'
<1>1. {w \in Watchers : subCall'[w].at # "unsent"} = {w \in Watchers : subCall[w].at # "unsent"}
      /\ {w \in Watchers : unsubCall'[w].counted} = {w \in Watchers : unsubCall[w].counted}
  OBVIOUS
<1>2. count' = Cardinality({w \in Watchers : subCall'[w].at # "unsent"}) - Cardinality({w \in Watchers : unsubCall'[w].counted})
  <2>1. count = Cardinality({w \in Watchers : subCall[w].at # "unsent"}) - Cardinality({w \in Watchers : unsubCall[w].counted})
    BY DEF HubTypes, HubTypeOK
  <2> QED BY <1>1, <2>1
<1>3. \A w \in Watchers : {subCall'[w].at, unsubCall'[w].at} \subseteq Places
  BY DEF SubCallType, UnsubCallType
<1>4. HubTypeOK'
  BY <1>2, <1>3 DEF HubTypeOK
<1>5. \A w \in Watchers : unsubCall'[w].at = "unsent" => ~unsubCall'[w].counted
  BY DEF HubTypes
<1> QED BY <1>4, <1>5 DEF HubTypes

LEMMA CountUpInv == ASSUME HubInv, NEW w \in Watchers, CountUp(w) PROVE HubInv'
<1> DEFINE at == IF count = 0 THEN "starting" ELSE "done"
<1>1. /\ HubTypes /\ HubHolds /\ subCall \in [Watchers -> SubCallType] /\ unsubCall \in [Watchers -> UnsubCallType]
      /\ count \in Nat /\ count = Cardinality(Subscribed) - Cardinality(Counted)
  BY DEF HubInv, HubTypes, HubTypeOK, Subscribed, Counted
<1>2. /\ subCall[w].at = "unsent" /\ count' = count + 1 /\ subCall' = [subCall EXCEPT ![w].at = at]
      /\ UNCHANGED <<unsubCall, known, unresolved, upstream, hub>>
  BY DEF CountUp, SubAt
<1>3. at \in Places /\ at # "unsent"
  BY DEF Places
<1>4. /\ subCall' \in [Watchers -> SubCallType] /\ subCall'[w].at = at
      /\ \A v \in Watchers : subCall'[v].conn = subCall[v].conn /\ (v # w => subCall'[v] = subCall[v])
  <2> HIDE DEF at
  <2> QED BY <1>1, <1>2, <1>3 DEF SubCallType
<1> HIDE DEF at
<1>5. Subscribed' = Subscribed \cup {w} /\ w \notin Subscribed /\ Counted' = Counted
  BY <1>2, <1>3, <1>4 DEF Subscribed, Counted
<1>6. IsFiniteSet(Subscribed) /\ IsFiniteSet(Counted)
  BY HubAssumption, FS_Subset DEF Subscribed, Counted
<1>7. Cardinality(Subscribed \cup {w}) = Cardinality(Subscribed) + 1
  BY <1>5, <1>6, FS_AddElement
<1>8. Cardinality(Subscribed) \in Nat /\ Cardinality(Counted) \in Nat
  BY <1>6, FS_CardinalityType
<1>9. count' = Cardinality(Subscribed') - Cardinality(Counted')
  BY <1>1, <1>2, <1>5, <1>7, <1>8
<1>10. HubTypeOK'
  BY <1>1, <1>2, <1>3, <1>4, <1>9 DEF HubTypes, HubTypeOK, Subscribed, Counted, upstream, SubCallType
<1>11. HubTypes'
  BY <1>1, <1>2, <1>4, <1>10 DEF HubTypes, upstream
<1>12. HubHolds'
  BY <1>1, <1>2, <1>4 DEF HubHolds, upstream, at
<1> QED BY <1>11, <1>12 DEF HubInv

LEMMA CountDownInv == ASSUME HubInv, NEW w \in Watchers, CountDown(w) PROVE HubInv'
<1>1. /\ HubTypes /\ HubHolds /\ subCall \in [Watchers -> SubCallType] /\ unsubCall \in [Watchers -> UnsubCallType]
      /\ count \in Nat /\ count = Cardinality(Subscribed) - Cardinality(Counted) /\ unsubCall[w].at = "unsent"
      /\ ~unsubCall[w].counted /\ UNCHANGED <<subCall, unresolved, upstream, hub>>
  BY DEF HubInv, HubTypes, HubTypeOK, Subscribed, Counted, CountDown
<1>2. CASE count = 0
  <2>1. /\ unsubCall' = [unsubCall EXCEPT ![w].at = "releasing"] /\ UNCHANGED <<count, known>>
    BY <1>2 DEF CountDown, UnsubAt
  <2>2. /\ unsubCall' \in [Watchers -> UnsubCallType]
        /\ \A v \in Watchers : /\ unsubCall'[v].counted = unsubCall[v].counted /\ unsubCall'[v].conn = unsubCall[v].conn
                               /\ unsubCall'[v].at = "unsent" => unsubCall[v].at = "unsent"
    BY <1>1, <2>1 DEF UnsubCallType, Places
  <2>3. HubTypes'
    BY <1>1, <2>1, <2>2, CallsKeep DEF HubTypes, HubTypeOK, upstream
  <2>4. HubHolds'
    BY <1>1, <2>1 DEF HubHolds, upstream
  <2> QED BY <2>3, <2>4 DEF HubInv
<1>3. CASE count # 0
  <2> DEFINE at == IF count = 1 THEN "telling" ELSE "releasing"
  <2>1. /\ count' = count - 1 /\ known' = (count > 1 /\ known)
        /\ unsubCall' = [unsubCall EXCEPT ![w].counted = TRUE, ![w].at = at]
    BY <1>3 DEF CountDown, Forget
  <2>2. at \in Places /\ at # "unsent"
    BY DEF Places
  <2> HIDE DEF at
  <2>3. /\ unsubCall' \in [Watchers -> UnsubCallType] /\ unsubCall'[w].counted /\ unsubCall'[w].at = at
        /\ unsubCall'[w].conn = unsubCall[w].conn /\ \A v \in Watchers \ {w} : unsubCall'[v] = unsubCall[v]
    BY <1>1, <2>1, <2>2 DEF UnsubCallType
  <2>4. Counted' = Counted \cup {w} /\ w \notin Counted /\ Subscribed' = Subscribed
    BY <1>1, <2>3 DEF Subscribed, Counted
  <2>5. IsFiniteSet(Subscribed) /\ IsFiniteSet(Counted)
    BY HubAssumption, FS_Subset DEF Subscribed, Counted
  <2>6. Cardinality(Counted \cup {w}) = Cardinality(Counted) + 1
    BY <2>4, <2>5, FS_AddElement
  <2>7. Cardinality(Subscribed) \in Nat /\ Cardinality(Counted) \in Nat
    BY <2>5, FS_CardinalityType
  <2>8. count' = Cardinality(Subscribed') - Cardinality(Counted') /\ count' \in Nat
    BY <1>1, <1>3, <2>1, <2>4, <2>6, <2>7
  <2>9. HubTypeOK'
    BY <1>1, <2>2, <2>3, <2>8 DEF HubTypes, HubTypeOK, Subscribed, Counted, upstream
  <2>10. HubTypes'
    BY <1>1, <2>1, <2>2, <2>3, <2>8, <2>9 DEF HubTypes, upstream
  <2>11. HubHolds'
    BY <1>1, <1>3, <2>1 DEF HubHolds, upstream, HubTypes
  <2> QED BY <2>10, <2>11 DEF HubInv
<1> QED BY <1>2, <1>3
(* A call, or the stream, moves on. *)
LEMMA SubscribeStepInv == ASSUME HubInv, NEW w \in Watchers, SubscribeStep(w) PROVE HubInv'
<1>1. /\ HubTypes /\ HubHolds /\ subCall \in [Watchers -> SubCallType] /\ unsubCall \in [Watchers -> UnsubCallType]
      /\ HubTypeOK /\ count \in Nat /\ dialled \in Nat
  BY DEF HubInv, HubTypes
<1>2. ASSUME NEW c \in SubCallType, subCall' = [subCall EXCEPT ![w] = c], subCall[w].at # "unsent", c.at # "unsent",
             c.conn \in 0 .. dialled
      PROVE  /\ subCall' \in [Watchers -> SubCallType] /\ subCall'[w] = c /\ \A v \in Watchers \ {w} : subCall'[v] = subCall[v]
             /\ \A v \in Watchers : /\ subCall'[v].at = "unsent" <=> subCall[v].at = "unsent"
                                    /\ subCall'[v].conn \in 0 .. dialled
  BY <1>1, <1>2 DEF HubTypeOK
<1>3. ASSUME NEW at \in Places PROVE /\ [subCall[w] EXCEPT !.at = at] \in SubCallType
                                     /\ [subCall[w] EXCEPT !.at = at].at = at
                                     /\ [subCall[w] EXCEPT !.at = at].conn \in 0 .. dialled
  BY <1>1 DEF HubTypeOK, SubCallType
<1>4. {"resolving", "telling", "writing", "done"} \subseteq Places
  BY DEF Places
<1>5. CASE SubscribeStarts(w)
  <2> DEFINE c == [subCall[w] EXCEPT !.at = "resolving"]
  <2>1. /\ subCall' = [subCall EXCEPT ![w] = c] /\ subCall[w].at = "starting" /\ StartStream
        /\ UNCHANGED <<count, unsubCall, known, unresolved, wanted, session, dialled, conn, carried, hub>>
    BY <1>5 DEF SubscribeStarts, SubAt
  <2>2. c \in SubCallType /\ c.at = "resolving" /\ c.conn \in 0 .. dialled
    BY <1>3, <1>4
  <2> HIDE DEF c
  <2>3. holder' \in {"none", "running", "cancelled"} /\ alive' = IF holder' = "none" THEN 0 ELSE 1
    BY <1>1, <2>1 DEF StartStream, HubHolds, HubTypeOK
  <2>4. HubTypes'
    BY <1>1, <1>2, <2>1, <2>2, <2>3, CallsKeep DEF HubTypes, HubTypeOK
  <2>5. HubHolds'
    BY <1>1, <1>2, <2>1, <2>2, <2>3 DEF HubHolds
  <2> QED BY <2>4, <2>5 DEF HubInv
<1>6. CASE Resolves(w)
  <2> DEFINE c == [subCall[w] EXCEPT !.at = "telling"]
  <2>1. /\ subCall' = [subCall EXCEPT ![w] = c] /\ subCall[w].at = "resolving" /\ (known' \/ unresolved')
        /\ UNCHANGED <<count, unsubCall, alive, holder, idleTimer, wanted, session, dialled, conn, carried, hub>>
        /\ known' \in BOOLEAN /\ unresolved' \in BOOLEAN
    BY <1>1, <1>6 DEF Resolves, SubAt, HubTypes, upstream
  <2>2. c \in SubCallType /\ c.at = "telling" /\ c.conn \in 0 .. dialled
    BY <1>3, <1>4
  <2> HIDE DEF c
  <2>3. HubTypes'
    BY <1>1, <1>2, <2>1, <2>2, CallsKeep DEF HubTypes, HubTypeOK
  <2>4. HubHolds'
    BY <1>1, <2>1 DEF HubHolds
  <2> QED BY <2>3, <2>4 DEF HubInv
<1>7. CASE SubscribeTells(w)
  <2> DEFINE c == IF wanted \/ conn = 0 THEN [at |-> "done", conn |-> 0] ELSE [at |-> "writing", conn |-> conn]
  <2>1. /\ subCall' = [subCall EXCEPT ![w] = c] /\ subCall[w].at = "telling" /\ wanted' = TRUE
        /\ UNCHANGED <<count, unsubCall, known, unresolved, alive, holder, idleTimer, session, dialled, conn, carried, hub>>
    BY <1>7 DEF SubscribeTells
  <2>2. c \in SubCallType /\ c.at \in {"done", "writing"} /\ c.conn \in 0 .. dialled
    BY <1>1, <1>4 DEF SubCallType, HubTypeOK
  <2> HIDE DEF c
  <2>3. HubTypes'
    BY <1>1, <1>2, <2>1, <2>2, CallsKeep DEF HubTypes, HubTypeOK
  <2>4. HubHolds'
    BY <1>1, <1>2, <2>1, <2>2 DEF HubHolds
  <2> QED BY <2>3, <2>4 DEF HubInv
<1>8. CASE SubscribeWrites(w)
  <2> DEFINE c == [subCall[w] EXCEPT !.at = "done"]
  <2>1. /\ subCall' = [subCall EXCEPT ![w] = c] /\ subCall[w].at = "writing"
        /\ carried' = (carried \/ (subCall[w].conn = dialled /\ session # "down"))
        /\ UNCHANGED <<count, unsubCall, known, unresolved, alive, holder, idleTimer, wanted, session, dialled, conn, hub>>
    BY <1>8 DEF SubscribeWrites, SubAt, OnWire
  <2>2. c \in SubCallType /\ c.at = "done" /\ c.conn \in 0 .. dialled
    BY <1>3, <1>4
  <2> HIDE DEF c
  <2>3. carried' \in BOOLEAN /\ (carried' => session # "down")
    BY <1>1, <2>1 DEF HubTypeOK
  <2>4. HubTypes'
    BY <1>1, <1>2, <2>1, <2>2, <2>3, CallsKeep DEF HubTypes, HubTypeOK
  <2>5. HubHolds'
    BY <1>1, <1>2, <2>1, <2>2 DEF HubHolds
  <2> QED BY <2>4, <2>5 DEF HubInv
<1> QED BY <1>5, <1>6, <1>7, <1>8 DEF SubscribeStep

LEMMA UnsubscribeStepInv == ASSUME HubInv, NEW w \in Watchers, UnsubscribeStep(w) PROVE HubInv'
<1>1. /\ HubTypes /\ HubHolds /\ subCall \in [Watchers -> SubCallType] /\ unsubCall \in [Watchers -> UnsubCallType]
      /\ HubTypeOK /\ count \in Nat /\ dialled \in Nat
  BY DEF HubInv, HubTypes
<1>2. PICK at \in Places, k \in 0 .. dialled :
        /\ at # "unsent" /\ unsubCall' = [unsubCall EXCEPT ![w] = [unsubCall[w] EXCEPT !.at = at, !.conn = k]]
        /\ UNCHANGED <<count, subCall, known, unresolved, alive, holder, session, dialled, conn, hub>>
        /\ wanted' \in BOOLEAN /\ carried' \in BOOLEAN /\ (carried' => carried)
  <2>1. {"releasing", "writing", "done"} \subseteq Places
    BY DEF Places
  <2>2. ASSUME NEW at \in {"releasing", "writing", "done"}, UnsubAt(w, at)
        PROVE  unsubCall' = [unsubCall EXCEPT ![w] = [unsubCall[w] EXCEPT !.at = at, !.conn = unsubCall[w].conn]]
    BY <1>1, <2>2 DEF UnsubAt, UnsubCallType
  <2>3. unsubCall[w].conn \in 0 .. dialled /\ conn \in 0 .. dialled /\ {wanted, carried} \subseteq BOOLEAN
    BY <1>1 DEF HubTypeOK, HubTypes
  <2>4. CASE UnsubscribeTells(w)
    <3>1. CASE unsubCall' = [unsubCall EXCEPT ![w].at = "writing", ![w].conn = conn]
      <4>1. unsubCall' = [unsubCall EXCEPT ![w] = [unsubCall[w] EXCEPT !.at = "writing", !.conn = conn]]
        BY <1>1, <3>1 DEF UnsubCallType
      <4> QED BY <2>1, <2>3, <2>4, <4>1 DEF UnsubscribeTells
    <3>2. CASE UnsubAt(w, "releasing")
      BY <2>1, <2>2, <2>3, <2>4, <3>2 DEF UnsubscribeTells
    <3> QED BY <2>4, <3>1, <3>2 DEF UnsubscribeTells
  <2>5. CASE UnsubscribeWrites(w)
    <3>1. UnsubAt(w, "releasing") /\ carried' = (carried /\ ~OnWire(unsubCall[w].conn))
          /\ UNCHANGED <<count, subCall, known, unresolved, alive, holder, idleTimer, wanted, session, dialled, conn, hub>>
      BY <2>5 DEF UnsubscribeWrites
    <3>2. carried' \in BOOLEAN /\ (carried' => carried)
      BY <3>1
    <3> QED BY <2>1, <2>2, <2>3, <3>1, <3>2
  <2>6. CASE UnsubscribeReleases(w)
    BY <2>1, <2>2, <2>3, <2>6 DEF UnsubscribeReleases
  <2> QED BY <2>4, <2>5, <2>6 DEF UnsubscribeStep
<1> DEFINE u == [unsubCall[w] EXCEPT !.at = at, !.conn = k]
<1>3. u \in UnsubCallType /\ u.at = at /\ u.conn = k /\ u.counted = unsubCall[w].counted
  <2>1. unsubCall[w] \in UnsubCallType /\ k \in Nat
    BY <1>1
  <2> QED BY <2>1 DEF UnsubCallType
<1>4. unsubCall' = [unsubCall EXCEPT ![w] = u]
  BY <1>2
<1> HIDE DEF u
<1>5. /\ unsubCall' \in [Watchers -> UnsubCallType]
      /\ \A v \in Watchers : /\ unsubCall'[v].counted = unsubCall[v].counted /\ unsubCall'[v].conn \in 0 .. dialled
                             /\ unsubCall'[v].at = "unsent" => unsubCall[v].at = "unsent"
  BY <1>1, <1>2, <1>3, <1>4 DEF HubTypeOK
<1>6. HubTypes'
  BY <1>1, <1>2, <1>5, CallsKeep DEF HubTypes, HubTypeOK
<1>7. HubHolds'
  BY <1>1, <1>2 DEF HubHolds
<1> QED BY <1>6, <1>7 DEF HubInv

LEMMA StreamInv == ASSUME HubInv, IdleStop \/ StreamStopped \/ SessionStep \/ SessionEnds PROVE HubInv'
<1>1. /\ HubTypes /\ HubHolds /\ subCall \in [Watchers -> SubCallType] /\ unsubCall \in [Watchers -> UnsubCallType]
      /\ HubTypeOK /\ count \in Nat /\ dialled \in Nat
  BY DEF HubInv, HubTypes
<1>2. UNCHANGED <<count, subCall, unsubCall, known, unresolved, wanted>>
  BY DEF IdleStop, StreamStopped, SessionStep, SessionEnds, Dial, OpenSession, ResubscribeLive, served
<1>3. /\ dialled' \in Nat /\ dialled <= dialled' /\ conn' \in 0 .. dialled'
      /\ session' \in {"down", "dialled", "opened", "up"} /\ carried' \in BOOLEAN /\ (carried' => session' # "down")
  <2>1. /\ dialled \in Nat /\ conn \in 0 .. dialled /\ session \in {"down", "dialled", "opened", "up"}
        /\ carried \in BOOLEAN /\ (carried => session # "down")
    BY <1>1 DEF HubTypeOK, HubTypes
  <2>2. CASE IdleStop \/ StreamStopped
    BY <2>1, <2>2 DEF IdleStop, StreamStopped
  <2>3. CASE Dial
    BY <2>1, <2>3 DEF Dial
  <2>4. CASE OpenSession
    BY <2>1, <2>4 DEF OpenSession, served
  <2>5. CASE ResubscribeLive
    BY <2>1, <2>5 DEF ResubscribeLive, served
  <2>6. CASE SessionEnds
    <3>1. session' = "down" /\ conn' = 0 /\ dialled' = dialled
      BY <2>6 DEF SessionEnds
    <3>2. carried' \in BOOLEAN /\ ~carried'
      BY <2>6, Zenon DEF SessionEnds
    <3> QED BY <2>1, <3>1, <3>2
  <2> QED BY <2>2, <2>3, <2>4, <2>5, <2>6 DEF SessionStep
<1>4. holder' \in {"none", "running", "cancelled"} /\ alive' = IF holder' = "none" THEN 0 ELSE 1
  BY <1>1 DEF IdleStop, StreamStopped, SessionStep, SessionEnds, Dial, OpenSession, ResubscribeLive, served, Cancel,
              RestartStream, HubHolds, HubTypeOK
<1>5. \A w \in Watchers : {subCall[w].conn, unsubCall[w].conn} \subseteq 0 .. dialled'
  BY <1>1, <1>3 DEF HubTypeOK
<1>6. HubTypes'
  BY <1>1, <1>2, <1>3, <1>4, <1>5, CallsKeep DEF HubTypes
<1>7. HubHolds'
  BY <1>1, <1>2, <1>4 DEF HubHolds
<1> QED BY <1>6, <1>7 DEF HubInv

LEMMA HubNextInv == HubInv /\ [HubNext]_hubVars => HubInv'
<1> SUFFICES ASSUME HubInv, [HubNext]_hubVars PROVE HubInv'
  OBVIOUS
<1>1. CASE UNCHANGED hubVars
  BY <1>1 DEF hubVars, hubState, HubInv, HubTypes, HubTypeOK, HubHolds
<1> QED BY <1>1, CountUpInv, CountDownInv, SubscribeStepInv, UnsubscribeStepInv, StreamInv DEF HubNext

(* The count of a symbol is the subscriptions sent less the unsubscriptions that counted,
   and its stream's places and connections keep their types. *)
THEOREM HubTypeCorrect == HubSpec => []HubTypeOK
<1>1. HubInv => HubTypeOK
  BY DEF HubInv, HubTypes
<1> QED BY <1>1, HubInitInv, HubNextInv, PTL DEF HubSpec

(* The hub never runs two upstream streams, and what is watched is known once the calls
   are answered, in whatever order calls, idle stops and restarts interleave. *)
THEOREM HubServes == HubSpec => []HubServesItsWatchers
<1>1. HubInv => HubServesItsWatchers
  BY DEF HubInv, HubHolds, HubServesItsWatchers, OneUpstream, WatchedIsKnown, Answered
<1> QED BY <1>1, HubInitInv, HubNextInv, PTL DEF HubSpec
---------------------------------------------------------------------------
(* The stream of a shard resource. *)

EventType == [seq : Nat, version : Nat]
LoopType ==
  [at : {"new", "placed", "first", "waiting", "woken", "read", "failing", "ended"},
   read : Versions, last : Versions, seq : 0 .. MaxVersion + 1, freed : BOOLEAN]
SocketType == [at : {"asked", "made", "reading", "returned"}, open : BOOLEAN, listed : BOOLEAN, valid : BOOLEAN]
ViewType == [observed : BOOLEAN, others : 0 .. StreamLimit, same : Nat, flips : Nat, errors : Nat]

StreamTypes ==
  /\ StreamTypeOK /\ loop \in LoopType /\ socket \in SocketType /\ view \in ViewType
  /\ channel \in Seq(EventType) /\ got \in Seq(EventType)

Before == {"new", "placed", "first"}
Running == {"waiting", "woken", "read"}

\* The place of a subscription is given back once, by whichever of the socket's and the
\* subscription's goroutines comes first.
Balanced ==
  /\ PlacesBalance /\ SocketLeavesNothing
  /\ loop.at \in Before => ~loop.freed /\ socket.at = "asked"
  /\ socket.listed => socket.at = "reading"
  /\ socket.at = "reading" => socket.listed \/ loop.freed

\* What was forwarded and what waits in the channel are one sequence.
Unbroken == \A n \in 1 .. Len(got) : ~IsError(got[n])
Sequenced ==
  /\ GotInSequence
  /\ channel # <<>> =>
       /\ Unbroken
       /\ ~IsError(channel[1]) => channel[1].seq = Len(got) /\ (got # <<>> => channel[1].version > got[Len(got)].version)
  /\ loop.at \in Before => got = <<>> /\ channel = <<>>
  /\ loop.at \in Running =>
       /\ Unbroken /\ loop.seq = Len(got) + Len(channel) /\ loop.seq \in 1 .. loop.last + 1
       /\ IF channel = <<>> THEN got[Len(got)].version = loop.last ELSE ~IsError(channel[1]) /\ channel[1].version = loop.last
  /\ loop.last <= loop.read /\ loop.read <= data
  /\ loop.at = "failing" /\ channel # <<>> => IsError(channel[1])

StreamsInv == StreamTypes /\ Balanced /\ Sequenced

LEMMA StreamInitInv == StreamInit => StreamsInv
<1> SUFFICES ASSUME StreamInit PROVE StreamsInv
  OBVIOUS
<1> USE StreamAssumption
<1>1. PICK c \in StreamConfigs, n \in 0 .. StreamLimit, k \in {0, SocketLimit} :
        places = n /\ k <= n /\ view = [observed |-> c.observed, others |-> n, same |-> k, flips |-> c.flips, errors |-> c.errors]
  BY DEF StreamInit
<1>2. view \in ViewType
  BY <1>1 DEF ViewType
<1>3. loop \in LoopType /\ socket \in SocketType /\ channel \in Seq(EventType) /\ got \in Seq(EventType) /\ Len(channel) = 0
  BY DEF StreamInit, LoopType, SocketType, Versions
<1>7. data \in Versions /\ allowed \in BOOLEAN /\ watch \in {"off", "on", "pending"} /\ signal \in BOOLEAN
      /\ closed \in BOOLEAN /\ places \in 0 .. StreamLimit
  <2>1. data \in Versions /\ watch \in {"off", "on", "pending"} /\ places \in 0 .. StreamLimit
    BY <1>1 DEF StreamInit, Versions
  <2>2. allowed \in BOOLEAN /\ signal \in BOOLEAN /\ closed \in BOOLEAN
    BY Zenon DEF StreamInit
  <2> QED BY <2>1, <2>2
<1>4. StreamTypes
  BY <1>2, <1>3, <1>7 DEF StreamTypes, StreamTypeOK, LoopType, SocketType
<1>5. Balanced
  BY <1>1 DEF StreamInit, Balanced, PlacesBalance, SocketLeavesNothing, Before
<1>6. Sequenced
  BY DEF StreamInit, Sequenced, GotInSequence, Before, Running
<1> QED BY <1>4, <1>5, <1>6 DEF StreamsInv

(* The provider and the credential: nothing of the subscription changes. *)
LEMMA AroundInv ==
  ASSUME StreamsInv,
         ChangeData \/ ChangePermission \/ SignalChange \/ Break \/ EndSession \/ CheckCredential
  PROVE  StreamsInv'
<1> USE StreamAssumption
<1>1. StreamTypes /\ Balanced /\ Sequenced
  BY DEF StreamsInv
<1>2. /\ UNCHANGED <<loop, channel, closed, places, got>>
      /\ socket' \in SocketType /\ socket'.at = socket.at /\ socket'.listed = socket.listed
      /\ data' \in Versions /\ data <= data' /\ watch' \in {"off", "on", "pending"} /\ signal' \in BOOLEAN /\ allowed' \in BOOLEAN
  <2>1. /\ socket \in SocketType /\ data \in Nat /\ data <= MaxVersion /\ watch \in {"off", "on", "pending"}
        /\ signal \in BOOLEAN /\ allowed \in BOOLEAN
    BY <1>1 DEF StreamTypes, StreamTypeOK, Versions
  <2>2. CASE ChangeData
    BY <2>1, <2>2 DEF ChangeData, Versions
  <2>3. CASE ChangePermission
    BY <2>1, <2>3 DEF ChangePermission, Versions
  <2>4. CASE SignalChange
    BY <2>1, <2>4 DEF SignalChange, Versions
  <2>5. CASE Break \/ EndSession \/ CheckCredential
    <3>1. socket' \in SocketType /\ socket'.at = socket.at /\ socket'.listed = socket.listed
      BY <2>1, <2>5 DEF Break, EndSession, CheckCredential, SocketType
    <3> QED BY <2>1, <2>5, <3>1 DEF Break, EndSession, CheckCredential, Unread, Versions
  <2> QED BY <2>2, <2>3, <2>4, <2>5
<1>3. view' \in ViewType /\ view'.others = view.others
  <2>1. view \in ViewType
    BY <1>1 DEF StreamTypes
  <2>2. CASE Spent("flips")
    <3>1. view' = [view EXCEPT !.flips = @ - 1] /\ view.flips > 0
      BY <2>2 DEF Spent
    <3> QED BY <2>1, <3>1 DEF ViewType
  <2>3. CASE view' = view
    BY <2>1, <2>3
  <2> QED BY <2>2, <2>3 DEF ChangeData, ChangePermission, SignalChange, Break, EndSession, CheckCredential, Unread
<1>4. StreamTypes'
  BY <1>1, <1>2, <1>3 DEF StreamTypes, StreamTypeOK, SocketType
<1>5. Balanced'
  BY <1>1, <1>2, <1>3 DEF Balanced, PlacesBalance, SocketLeavesNothing
<1>6. Sequenced'
  <2>1. data \in Nat /\ data' \in Nat /\ loop.read \in Nat
    BY <1>1, <1>2 DEF StreamTypes, StreamTypeOK, Versions, LoopType
  <2> QED BY <1>1, <1>2, <2>1 DEF Sequenced, GotInSequence, Unbroken
<1> QED BY <1>4, <1>5, <1>6 DEF StreamsInv
(* The loop of the subscription moves: what of the channel, the place and the socket
   goes with it. *)
LEMMA LoopMoves ==
  ASSUME StreamTypes, UNCHANGED <<data, allowed>>, loop' \in LoopType, socket' \in SocketType,
         watch' \in {"off", "on", "pending"}, signal' \in BOOLEAN, closed' \in BOOLEAN,
         channel' \in Seq(EventType), Len(channel') <= 1, got' \in Seq(EventType),
         places' \in 0 .. StreamLimit, view' \in ViewType
  PROVE  StreamTypes'
BY DEF StreamTypes, StreamTypeOK, LoopType, SocketType

LEMMA OneEvent == ASSUME NEW e \in EventType PROVE <<e>> \in Seq(EventType) /\ Len(<<e>>) = 1 /\ <<e>>[1] = e /\ <<e>> # <<>>
OBVIOUS

LEMMA ErrorIsEvent == TheError \in EventType /\ IsError(TheError)
BY StreamAssumption DEF TheError, Event, EventType, IsError

LEMMA SubscribeInv == ASSUME StreamsInv, Subscribe PROVE StreamsInv'
<1> USE StreamAssumption
<1>1. /\ StreamTypes /\ Balanced /\ Sequenced /\ loop \in LoopType /\ socket \in SocketType /\ view \in ViewType
      /\ places \in 0 .. StreamLimit /\ loop.at = "new" /\ UNCHANGED <<data, allowed, watch, signal, channel, closed, got, view>>
  BY DEF StreamsInv, StreamTypes, StreamTypeOK, Subscribe
<1>2. ~loop.freed /\ socket.at = "asked" /\ ~socket.listed /\ places = view.others
  BY <1>1 DEF Balanced, Before, PlacesBalance, ViewType
<1>3. \/ Admitted /\ places' = places + 1 /\ loop' = [loop EXCEPT !.at = "placed"] /\ socket' = socket
      \/ loop' = [loop EXCEPT !.at = "ended", !.freed = TRUE] /\ places' = places /\ socket' = [socket EXCEPT !.at = "reading"]
  BY DEF Subscribe
<1>4. /\ loop' \in LoopType /\ socket' \in SocketType /\ places' \in 0 .. StreamLimit
      /\ loop'.read = loop.read /\ loop'.last = loop.last /\ loop'.seq = loop.seq
  <2>1. CASE Admitted /\ places' = places + 1 /\ loop' = [loop EXCEPT !.at = "placed"] /\ socket' = socket
    <3>1. places' \in 0 .. StreamLimit
      BY <1>1, <2>1 DEF Admitted
    <3> QED BY <1>1, <2>1, <3>1 DEF LoopType
  <2>2. CASE loop' = [loop EXCEPT !.at = "ended", !.freed = TRUE] /\ places' = places /\ socket' = [socket EXCEPT !.at = "reading"]
    BY <1>1, <2>2 DEF LoopType, SocketType
  <2> QED BY <1>3, <2>1, <2>2
<1>5. StreamTypes'
  BY <1>1, <1>4, LoopMoves DEF StreamTypes, StreamTypeOK
<1>6. /\ socket'.listed = socket.listed
      /\ \/ loop'.at = "placed" /\ loop'.freed = loop.freed /\ socket'.at = socket.at /\ places' = places + 1
         \/ loop'.at = "ended" /\ loop'.freed /\ socket'.at = "reading" /\ places' = places
  BY <1>1, <1>3 DEF LoopType, SocketType
<1>7. Balanced'
  BY <1>1, <1>2, <1>6 DEF Balanced, PlacesBalance, SocketLeavesNothing, Before
<1>8. Sequenced'
  BY <1>1, <1>4, <1>6 DEF Sequenced, GotInSequence, Unbroken, Before, Running
<1> QED BY <1>5, <1>7, <1>8 DEF StreamsInv

LEMMA ObserveInv == ASSUME StreamsInv, ObserveChanges PROVE StreamsInv'
<1> USE StreamAssumption
<1>1. /\ StreamTypes /\ Balanced /\ Sequenced /\ loop \in LoopType /\ data \in Versions /\ loop.at = "placed"
      /\ UNCHANGED <<data, allowed, signal, channel, closed, places, socket, got, view>>
  BY DEF StreamsInv, StreamTypes, StreamTypeOK, ObserveChanges
<1>2. /\ watch' \in {"off", "on", "pending"}
      /\ loop' = loop \/ loop' = [loop EXCEPT !.at = "first", !.read = data]
  BY <1>1 DEF ObserveChanges, StreamTypes, StreamTypeOK
<1>3. /\ loop' \in LoopType /\ loop'.at \in {"placed", "first"} /\ loop'.last = loop.last /\ loop'.freed = loop.freed
      /\ loop'.last <= loop'.read /\ loop'.read <= data
  <2>1. loop.last <= data /\ loop.last <= loop.read /\ loop.read <= data
    BY <1>1 DEF Sequenced, LoopType, Versions
  <2>2. CASE loop' = [loop EXCEPT !.at = "first", !.read = data]
    <3>1. /\ loop' \in LoopType /\ loop'.at = "first" /\ loop'.last = loop.last /\ loop'.freed = loop.freed
          /\ loop'.read = data
      BY <1>1, <2>2 DEF LoopType
    <3>2. data <= data
      BY <1>1 DEF Versions
    <3> QED BY <2>1, <3>1, <3>2
  <2> QED BY <1>1, <1>2, <2>1, <2>2
<1>4. StreamTypes'
  BY <1>1, <1>2, <1>3, LoopMoves DEF StreamTypes, StreamTypeOK
<1>5. Balanced'
  BY <1>1, <1>3 DEF Balanced, PlacesBalance, SocketLeavesNothing, Before
<1>6. Sequenced'
  BY <1>1, <1>3 DEF Sequenced, GotInSequence, Unbroken, Before, Running
<1> QED BY <1>4, <1>5, <1>6 DEF StreamsInv

LEMMA SendInitialInv == ASSUME StreamsInv, SendInitial PROVE StreamsInv'
<1> USE StreamAssumption
<1>1. /\ StreamTypes /\ Balanced /\ Sequenced /\ loop \in LoopType /\ socket \in SocketType /\ view \in ViewType
      /\ places \in 0 .. StreamLimit /\ loop.at = "first" /\ UNCHANGED <<data, allowed, watch, signal, got, view>>
      /\ channel \in Seq(EventType) /\ got \in Seq(EventType) /\ closed \in BOOLEAN /\ data \in Versions
  BY DEF StreamsInv, StreamTypes, StreamTypeOK, SendInitial
<1>2. ~loop.freed /\ socket.at = "asked" /\ ~socket.listed /\ places = view.others + 1 /\ got = <<>> /\ channel = <<>>
      /\ loop.last <= loop.read /\ loop.read <= data
  BY <1>1 DEF Balanced, Before, PlacesBalance, Sequenced
<1>3. CASE allowed /\ socket.open
  <2> DEFINE e == Event(0, loop.read)
  <2>1. /\ channel' = <<e>> /\ loop' = [loop EXCEPT !.at = "waiting", !.last = loop.read, !.seq = 1]
        /\ socket' = [socket EXCEPT !.at = "made"] /\ UNCHANGED <<closed, places>>
    BY <1>3 DEF SendInitial
  <2>2. e \in EventType /\ e.seq = 0 /\ e.version = loop.read /\ ~IsError(e)
    BY <1>1 DEF Event, EventType, IsError, LoopType, Versions
  <2> HIDE DEF e
  <2>3. /\ loop' \in LoopType /\ loop'.at = "waiting" /\ loop'.last = loop.read /\ loop'.read = loop.read /\ loop'.seq = 1
        /\ loop'.freed = loop.freed
    <3>1. 1 \in 0 .. MaxVersion + 1
      OBVIOUS
    <3> QED BY <1>1, <2>1, <3>1 DEF LoopType
  <2>4. socket' \in SocketType /\ socket'.at = "made" /\ socket'.listed = socket.listed
    BY <1>1, <2>1 DEF SocketType
  <2>5. channel' \in Seq(EventType) /\ Len(channel') = 1 /\ channel'[1] = e /\ channel' # <<>>
    BY <2>1, <2>2, OneEvent
  <2>6. StreamTypes'
    BY <1>1, <2>1, <2>3, <2>4, <2>5, LoopMoves DEF StreamTypes, StreamTypeOK
  <2>7. Balanced'
    BY <1>1, <1>2, <2>1, <2>3, <2>4 DEF Balanced, PlacesBalance, SocketLeavesNothing, Before
  <2>8. loop.read \in Nat
    BY <1>1 DEF LoopType, Versions
  <2>9. Sequenced'
    BY <1>1, <1>2, <2>2, <2>3, <2>5, <2>8 DEF Sequenced, GotInSequence, Unbroken, Before, Running
  <2> QED BY <2>6, <2>7, <2>9 DEF StreamsInv
<1>4. CASE ~(allowed /\ socket.open)
  <2>1. /\ loop' = [loop EXCEPT !.at = "ended", !.freed = TRUE] /\ socket' = [socket EXCEPT !.at = "reading"]
        /\ places' = places - 1 /\ closed' = TRUE /\ UNCHANGED channel
    BY <1>2, <1>4 DEF SendInitial, Free
  <2>2. /\ loop' \in LoopType /\ loop'.at = "ended" /\ loop'.last = loop.last /\ loop'.read = loop.read /\ loop'.freed
    BY <1>1, <2>1 DEF LoopType
  <2>3. socket' \in SocketType /\ socket'.at = "reading" /\ socket'.listed = socket.listed
    BY <1>1, <2>1 DEF SocketType
  <2>4. places' \in 0 .. StreamLimit /\ places' = view.others
    BY <1>1, <1>2, <2>1 DEF ViewType
  <2>5. StreamTypes'
    BY <1>1, <2>1, <2>2, <2>3, <2>4, LoopMoves DEF StreamTypes, StreamTypeOK
  <2>6. Balanced'
    BY <1>1, <1>2, <2>2, <2>3, <2>4 DEF Balanced, PlacesBalance, SocketLeavesNothing, Before
  <2>7. Sequenced'
    BY <1>1, <2>1, <2>2 DEF Sequenced, GotInSequence, Unbroken, Before, Running
  <2> QED BY <2>5, <2>6, <2>7 DEF StreamsInv
<1> QED BY <1>3, <1>4
\* What every step of a running subscription leaves alone.
LEMMA RunningFacts ==
  ASSUME StreamsInv, loop.at \in Running
  PROVE  /\ StreamTypes /\ Balanced /\ Sequenced /\ loop \in LoopType /\ socket \in SocketType /\ view \in ViewType
         /\ places \in 0 .. StreamLimit /\ channel \in Seq(EventType) /\ got \in Seq(EventType) /\ closed \in BOOLEAN
         /\ watch \in {"off", "on", "pending"} /\ signal \in BOOLEAN /\ Len(channel) <= 1
         /\ Len(channel) \in Nat /\ Len(got) \in Nat /\ data \in Nat
         /\ loop.last \in Nat /\ loop.read \in Nat /\ loop.seq \in Nat /\ MaxVersion \in Nat
BY LenProperties, StreamAssumption DEF StreamsInv, StreamTypes, StreamTypeOK, LoopType, Versions

LEMMA FailingInv ==
  ASSUME StreamsInv, loop.at \in Running, Failing, UNCHANGED <<data, allowed, watch, signal, closed, places, socket, got>>,
         view' \in ViewType, view'.others = view.others
  PROVE  StreamsInv'
<1>1. /\ StreamTypes /\ Balanced /\ Sequenced /\ loop \in LoopType /\ socket \in SocketType
      /\ places \in 0 .. StreamLimit /\ got \in Seq(EventType) /\ closed \in BOOLEAN
      /\ watch \in {"off", "on", "pending"} /\ signal \in BOOLEAN
  BY RunningFacts
<1>2. /\ channel' \in Seq(EventType) /\ Len(channel') = 1 /\ channel'[1] = TheError /\ IsError(TheError) /\ channel' # <<>>
  BY ErrorIsEvent, OneEvent DEF Failing, Fail
<1>3. /\ loop' \in LoopType /\ loop'.at = "failing" /\ loop'.freed = loop.freed /\ loop'.last = loop.last /\ loop'.read = loop.read
  BY <1>1 DEF Failing, LoopType
<1>4. StreamTypes'
  BY <1>1, <1>2, <1>3, LoopMoves
<1>5. Balanced'
  BY <1>1, <1>3 DEF Balanced, PlacesBalance, SocketLeavesNothing, Before, Running
<1>6. Sequenced'
  BY <1>1, <1>2, <1>3 DEF Sequenced, GotInSequence, Unbroken, Before, Running
<1> QED BY <1>4, <1>5, <1>6 DEF StreamsInv

LEMMA WakeInv == ASSUME StreamsInv, Wake PROVE StreamsInv'
<1>1. loop.at \in Running /\ loop' = [loop EXCEPT !.at = "woken"] /\ signal' = FALSE
      /\ UNCHANGED <<data, allowed, watch, channel, closed, places, socket, got, view>>
  BY DEF Wake, Running
<1>2. /\ StreamTypes /\ Balanced /\ Sequenced /\ loop \in LoopType /\ signal' \in BOOLEAN
  BY <1>1, RunningFacts
<1>3. /\ loop' \in LoopType /\ loop'.at = "woken" /\ loop'.freed = loop.freed /\ loop'.last = loop.last
      /\ loop'.read = loop.read /\ loop'.seq = loop.seq
  BY <1>1, <1>2 DEF LoopType
<1>4. StreamTypes'
  BY <1>1, <1>2, <1>3, LoopMoves DEF StreamTypes, StreamTypeOK
<1>5. Balanced'
  BY <1>1, <1>2, <1>3 DEF Balanced, PlacesBalance, SocketLeavesNothing, Before, Running
<1>6. Sequenced'
  BY <1>1, <1>2, <1>3 DEF Sequenced, GotInSequence, Unbroken, Before, Running
<1> QED BY <1>4, <1>5, <1>6 DEF StreamsInv

LEMMA RefreshInv == ASSUME StreamsInv, Refresh PROVE StreamsInv'
<1>1. loop.at \in Running /\ UNCHANGED <<data, allowed, watch, signal, closed, places, socket, got, view>>
  BY DEF Refresh, Running
<1>2. CASE Failing
  BY <1>1, <1>2, RunningFacts, FailingInv
<1>3. CASE loop' = [loop EXCEPT !.at = "read", !.read = data] /\ UNCHANGED channel
  <2>1. /\ StreamTypes /\ Balanced /\ Sequenced /\ loop \in LoopType /\ data \in Versions /\ data \in Nat
        /\ loop.last \in Nat /\ loop.read \in Nat
    BY <1>1, RunningFacts DEF StreamTypes, StreamTypeOK
  <2>2. /\ loop' \in LoopType /\ loop'.at = "read" /\ loop'.freed = loop.freed /\ loop'.last = loop.last
        /\ loop'.read = data /\ loop'.seq = loop.seq
    BY <1>3, <2>1 DEF LoopType
  <2>3. StreamTypes'
    BY <1>1, <1>3, <2>1, <2>2, LoopMoves DEF StreamTypes, StreamTypeOK
  <2>4. Balanced'
    BY <1>1, <2>1, <2>2 DEF Balanced, PlacesBalance, SocketLeavesNothing, Before, Running
  <2>5. loop'.last <= loop'.read /\ loop'.read <= data'
    BY <1>1, <2>1, <2>2 DEF Sequenced
  <2>6. Sequenced'
    BY <1>1, <1>3, <2>1, <2>2, <2>5 DEF Sequenced, GotInSequence, Unbroken, Before, Running
  <2> QED BY <2>3, <2>4, <2>6 DEF StreamsInv
<1> QED BY <1>2, <1>3 DEF Refresh

LEMMA SendNextInv == ASSUME StreamsInv, SendNext PROVE StreamsInv'
<1>1. loop.at \in Running /\ UNCHANGED <<data, allowed, watch, signal, closed, places, socket, got, view>>
  BY DEF SendNext, Running
<1>2. /\ StreamTypes /\ Balanced /\ Sequenced /\ loop \in LoopType /\ data \in Nat /\ got \in Seq(EventType)
      /\ loop.last \in Nat /\ loop.read \in Nat /\ loop.seq \in Nat /\ MaxVersion \in Nat /\ Len(got) \in Nat
  BY <1>1, RunningFacts
<1>3. CASE Failing
  BY <1>1, <1>3, RunningFacts, FailingInv
<1>4. CASE loop' = [loop EXCEPT !.at = "waiting"] /\ UNCHANGED channel
  <2>1. /\ loop' \in LoopType /\ loop'.at = "waiting" /\ loop'.freed = loop.freed /\ loop'.last = loop.last
        /\ loop'.read = loop.read /\ loop'.seq = loop.seq
    BY <1>2, <1>4 DEF LoopType
  <2>2. StreamTypes'
    BY <1>1, <1>2, <1>4, <2>1, LoopMoves DEF StreamTypes, StreamTypeOK
  <2>3. Balanced'
    BY <1>1, <1>2, <2>1 DEF Balanced, PlacesBalance, SocketLeavesNothing, Before, Running
  <2>4. Sequenced'
    BY <1>1, <1>2, <1>4, <2>1 DEF Sequenced, GotInSequence, Unbroken, Before, Running
  <2> QED BY <2>2, <2>3, <2>4 DEF StreamsInv
<1>5. CASE /\ loop.read # loop.last /\ channel = <<>> /\ channel' = <<Event(loop.seq, loop.read)>>
           /\ loop' = [loop EXCEPT !.at = "waiting", !.last = loop.read, !.seq = @ + 1]
  <2> DEFINE e == Event(loop.seq, loop.read)
             k == loop.seq + 1
  <2>1. loop.last < loop.read /\ loop.seq \in 1 .. loop.last + 1 /\ loop.read <= MaxVersion /\ Unbroken
        /\ loop.seq = Len(got) /\ got[Len(got)].version = loop.last
    BY <1>1, <1>2, <1>5 DEF Sequenced, LoopType, Versions
  <2>2. k \in 0 .. MaxVersion + 1 /\ k \in 1 .. loop.read + 1 /\ k = Len(got) + 1 /\ loop.seq = Len(got)
    BY <1>2, <2>1
  <2>3. e \in EventType /\ e.seq = loop.seq /\ e.version = loop.read /\ ~IsError(e)
    BY <1>2, <2>1 DEF Event, EventType, IsError
  <2> HIDE DEF e
  <2>4. channel' \in Seq(EventType) /\ Len(channel') = 1 /\ channel'[1] = e /\ channel' # <<>>
    BY <1>5, <2>3, OneEvent DEF e
  <2>5. loop' = [loop EXCEPT !.at = "waiting", !.last = loop.read, !.seq = k]
    BY <1>5
  <2> HIDE DEF k
  <2>6. /\ loop' \in LoopType /\ loop'.at = "waiting" /\ loop'.last = loop.read /\ loop'.read = loop.read /\ loop'.seq = k
        /\ loop'.freed = loop.freed
    BY <1>2, <2>2, <2>5 DEF LoopType
  <2>7. StreamTypes'
    BY <1>1, <1>2, <2>4, <2>6, LoopMoves DEF StreamTypes, StreamTypeOK
  <2>8. Balanced'
    BY <1>1, <1>2, <2>6 DEF Balanced, PlacesBalance, SocketLeavesNothing, Before, Running
  <2>9. Sequenced'
    BY <1>1, <1>2, <2>1, <2>2, <2>3, <2>4, <2>6 DEF Sequenced, GotInSequence, Unbroken, Before, Running
  <2> QED BY <2>7, <2>8, <2>9 DEF StreamsInv
<1> QED BY <1>3, <1>4, <1>5 DEF SendNext

LEMMA ProviderFailsInv == ASSUME StreamsInv, ProviderFails PROVE StreamsInv'
<1>1. loop.at \in Running /\ Failing /\ UNCHANGED <<data, allowed, watch, signal, closed, places, socket, got>>
      /\ view' = [view EXCEPT !.errors = @ - 1] /\ view.errors > 0
  BY DEF ProviderFails, Running, Spent
<1>2. view' \in ViewType /\ view'.others = view.others
  BY SMTT(30), <1>1, RunningFacts DEF ViewType
<1> QED BY <1>1, <1>2, FailingInv

(* What gives the place back: the loop's end, or the socket. *)
LEMMA FreedKeeps ==
  ASSUME StreamsInv, UNCHANGED <<data, allowed, watch, signal, channel, got, view>>, closed' \in BOOLEAN,
         loop.at \notin Before, places' = Free, loop' \in LoopType, loop'.freed, loop'.last = loop.last, loop'.read = loop.read,
         \/ loop'.at = "ended"
         \/ loop'.at = loop.at /\ loop'.seq = loop.seq,
         socket' \in SocketType, socket'.listed => socket'.at = "reading",
         socket'.at = "returned" => ~socket'.listed
  PROVE  StreamsInv'
<1>1. /\ StreamTypes /\ Balanced /\ Sequenced /\ loop \in LoopType /\ view \in ViewType /\ places \in 0 .. StreamLimit
  BY DEF StreamsInv, StreamTypes, StreamTypeOK
<1>2. places' = view.others /\ places' \in 0 .. StreamLimit
  BY <1>1 DEF Free, Balanced, PlacesBalance, ViewType, Before
<1>3. StreamTypes'
  BY <1>1, <1>2, LoopMoves DEF StreamTypes, StreamTypeOK
<1>4. loop'.at \notin Before
  BY DEF Before
<1>5. Balanced'
  BY <1>1, <1>2, <1>4 DEF Balanced, PlacesBalance, SocketLeavesNothing
<1>6. Sequenced'
  BY <1>1, <1>4 DEF Sequenced, GotInSequence, Unbroken, Running
<1> QED BY <1>3, <1>5, <1>6 DEF StreamsInv

LEMMA SocketInv == ASSUME StreamsInv, EndLoop \/ SocketStep \/ Unsubscribe PROVE StreamsInv'
<1>1. /\ StreamTypes /\ Balanced /\ Sequenced /\ loop \in LoopType /\ socket \in SocketType /\ closed \in BOOLEAN
      /\ UNCHANGED <<data, allowed, watch, signal, channel, got, view>>
  BY DEF StreamsInv, StreamTypes, StreamTypeOK, EndLoop, SocketStep, Reply, EndForward, Return, Unsubscribe
<1>2. CloseSubscription => /\ loop' \in LoopType /\ loop'.freed /\ loop'.last = loop.last /\ loop'.read = loop.read
                           /\ loop'.at = loop.at /\ loop'.seq = loop.seq /\ places' = Free
  BY <1>1 DEF CloseSubscription, LoopType
<1>3. ASSUME NEW at \in {"asked", "made", "reading", "returned"}, NEW listed \in BOOLEAN,
             socket' = [socket EXCEPT !.at = at, !.listed = listed]
      PROVE  socket' \in SocketType /\ socket'.at = at /\ socket'.listed = listed
  BY <1>1, <1>3 DEF SocketType
<1>4. CASE EndLoop
  <2>1. loop.at \notin Before /\ loop' = [loop EXCEPT !.at = "ended", !.freed = TRUE] /\ places' = Free /\ closed' = TRUE
        /\ socket' = socket
    BY <1>4 DEF EndLoop, Before
  <2>2. loop' \in LoopType /\ loop'.at = "ended" /\ loop'.freed /\ loop'.last = loop.last /\ loop'.read = loop.read
    BY <1>1, <2>1 DEF LoopType
  <2>3. closed' \in BOOLEAN
    BY <2>1
  <2> QED BY <1>1, <2>1, <2>2, <2>3, FreedKeeps DEF Balanced, SocketLeavesNothing
<1>5. CASE Reply
  <2>1. socket.at = "made" /\ loop.at \notin Before /\ ~socket.listed /\ closed' = closed
    BY <1>1, <1>5 DEF Reply, Balanced
  <2>2. CASE socket' = [socket EXCEPT !.at = "reading", !.listed = TRUE] /\ UNCHANGED <<loop, places>>
    <3>1. socket' \in SocketType /\ socket'.at = "reading" /\ socket'.listed
      BY <1>1, <2>2 DEF SocketType
    <3>2. StreamTypes'
      BY <1>1, <2>1, <2>2, <3>1, LoopMoves DEF StreamTypes, StreamTypeOK
    <3>3. Balanced'
      BY <1>1, <2>1, <2>2, <3>1 DEF Balanced, PlacesBalance, SocketLeavesNothing
    <3>4. Sequenced'
      BY <1>1, <2>2 DEF Sequenced, GotInSequence, Unbroken
    <3> QED BY <3>2, <3>3, <3>4 DEF StreamsInv
  <2>3. CASE socket' = [socket EXCEPT !.at = "returned"] /\ CloseSubscription
    <3>1. socket' \in SocketType /\ socket'.at = "returned" /\ ~socket'.listed
      BY <1>1, <2>1, <2>3 DEF SocketType
    <3> QED BY <1>1, <1>2, <2>1, <2>3, <3>1, FreedKeeps
  <2> QED BY <1>5, <2>2, <2>3 DEF Reply
<1>6. CASE EndForward \/ Unsubscribe
  <2>1. socket.listed /\ socket' = [socket EXCEPT !.listed = FALSE] /\ CloseSubscription /\ closed' = closed
    BY <1>6 DEF EndForward, Unsubscribe
  <2>2. socket.at = "reading" /\ loop.at \notin Before
    BY <1>1, <2>1 DEF Balanced
  <2>3. socket' \in SocketType /\ socket'.at = "reading" /\ ~socket'.listed
    BY <1>1, <2>1, <2>2 DEF SocketType
  <2> QED BY <1>1, <1>2, <2>1, <2>2, <2>3, FreedKeeps
<1>7. CASE Return
  <2>1. socket.at = "reading" /\ socket' = [socket EXCEPT !.at = "returned", !.listed = FALSE] /\ closed' = closed
        /\ loop.at \notin Before
    BY <1>1, <1>7 DEF Return, Balanced
  <2>2. socket' \in SocketType /\ socket'.at = "returned" /\ ~socket'.listed
    BY <1>1, <2>1 DEF SocketType
  <2>3. CASE CloseSubscription
    BY <1>1, <1>2, <2>1, <2>2, <2>3, FreedKeeps
  <2>4. CASE ~socket.listed /\ UNCHANGED <<loop, places>>
    <3>1. loop.freed
      BY <1>1, <2>1, <2>4 DEF Balanced
    <3>2. StreamTypes'
      BY <1>1, <2>1, <2>2, <2>4, LoopMoves DEF StreamTypes, StreamTypeOK
    <3>3. Balanced'
      BY <1>1, <2>1, <2>2, <2>4, <3>1 DEF Balanced, PlacesBalance, SocketLeavesNothing
    <3>4. Sequenced'
      BY <1>1, <2>4 DEF Sequenced, GotInSequence, Unbroken
    <3> QED BY <3>2, <3>3, <3>4 DEF StreamsInv
  <2> QED BY <1>7, <2>3, <2>4 DEF Return
<1> QED BY <1>4, <1>5, <1>6, <1>7 DEF SocketStep
\* What the socket forwards is the channel's one event.
LEMMA ForwardFacts ==
  ASSUME StreamsInv, ForwardEvent
  PROVE  /\ channel # <<>> /\ channel' = <<>> /\ got' = Append(got, channel[1]) /\ channel[1] \in EventType
         /\ got' \in Seq(EventType) /\ Len(got') = Len(got) + 1 /\ got'[Len(got) + 1] = channel[1]
         /\ \A n \in 1 .. Len(got) : got'[n] = got[n]
         /\ Len(got) \in Nat /\ Len(channel) = 1
<1>1. channel \in Seq(EventType) /\ got \in Seq(EventType) /\ Len(channel) <= 1 /\ channel # <<>>
      /\ got' = Append(got, Head(channel)) /\ channel' = Tail(channel)
  BY DEF StreamsInv, StreamTypes, StreamTypeOK, ForwardEvent
<1>2. Len(channel) = 1 /\ Head(channel) = channel[1] /\ channel[1] \in EventType
  <2>1. Len(channel) \in Nat /\ Head(channel) \in EventType /\ Len(channel) # 0
    BY <1>1, LenProperties, HeadTailProperties, EmptySeq
  <2>4. Len(channel) <= 1
    BY <1>1
  <2>2. Len(channel) = 1
    BY SMTT(30), <2>1, <2>4
  <2>3. Head(channel) = channel[1]
    BY <1>1
  <2> QED BY <2>1, <2>2, <2>3
<1>3. Tail(channel) = <<>>
  BY <1>1, <1>2, HeadTailProperties
<1> QED BY <1>1, <1>2, <1>3, AppendProperties, LenProperties

LEMMA ForwardEventInv == ASSUME StreamsInv, ForwardEvent PROVE StreamsInv'
<1>1. /\ StreamTypes /\ Balanced /\ Sequenced
      /\ UNCHANGED <<data, allowed, watch, signal, loop, closed, places, socket, view>>
  BY DEF StreamsInv, ForwardEvent
<1>2. channel' \in Seq(EventType) /\ Len(channel') = 0
  BY ForwardFacts
<1>3. StreamTypes'
  BY <1>1, <1>2, ForwardFacts, LoopMoves DEF StreamTypes, StreamTypeOK
<1>4. Balanced'
  BY <1>1 DEF Balanced, PlacesBalance, SocketLeavesNothing
<1>5. GotInSequence'
  <2>1. Unbroken /\ GotInSequence
        /\ (~IsError(channel[1]) => channel[1].seq = Len(got) /\ (got # <<>> => channel[1].version > got[Len(got)].version))
    BY <1>1, ForwardFacts DEF Sequenced
  <2>2. SUFFICES ASSUME NEW n \in 1 .. Len(got')
                 PROVE  /\ IsError(got'[n]) => n = Len(got')
                        /\ ~IsError(got'[n]) => got'[n].seq = n - 1 /\ (n > 1 => got'[n].version > got'[n - 1].version)
    BY DEF GotInSequence, IsError
  <2>3. CASE n = Len(got) + 1
    <3>1. got'[n] = channel[1] /\ (n > 1 => got # <<>> /\ got'[n - 1] = got[Len(got)])
      BY <2>3, ForwardFacts
    <3> QED BY <2>1, <2>3, <3>1, ForwardFacts
  <2>4. CASE n \in 1 .. Len(got)
    <3>1. got'[n] = got[n] /\ (n > 1 => got'[n - 1] = got[n - 1])
      BY <2>4, ForwardFacts
    <3> QED BY <2>1, <2>4, <3>1 DEF Unbroken, GotInSequence
  <2> QED BY <2>3, <2>4, ForwardFacts
<1>6. Sequenced'
  <2>1. loop.at \in Running => Unbroken' /\ got'[Len(got')].version = loop.last /\ loop.seq = Len(got')
    <3> SUFFICES ASSUME loop.at \in Running
                 PROVE  Unbroken' /\ got'[Len(got')].version = loop.last /\ loop.seq = Len(got')
      OBVIOUS
    <3>1. Unbroken /\ ~IsError(channel[1]) /\ channel[1].version = loop.last /\ loop.seq = Len(got) + 1
      BY <1>1, ForwardFacts DEF Sequenced
    <3>2. ASSUME NEW n \in 1 .. Len(got') PROVE ~IsError(got'[n])
      BY <3>1, ForwardFacts DEF Unbroken
    <3>3. Unbroken'
      BY <3>2 DEF Unbroken, IsError
    <3> QED BY <3>1, <3>3, ForwardFacts
  <2>2. loop.at \notin Before
    BY <1>1, ForwardFacts DEF Sequenced
  <2> QED BY <1>1, <1>2, <1>5, <2>1, <2>2, ForwardFacts DEF Sequenced
<1> QED BY <1>3, <1>4, <1>6 DEF StreamsInv

LEMMA StreamNextInv == StreamsInv /\ [StreamNext]_streamVars => StreamsInv'
<1> SUFFICES ASSUME StreamsInv, [StreamNext]_streamVars PROVE StreamsInv'
  OBVIOUS
<1>1. CASE UNCHANGED streamVars
  BY <1>1 DEF streamVars, streamState, StreamsInv, StreamTypes, StreamTypeOK, Balanced, PlacesBalance, SocketLeavesNothing,
              Sequenced, GotInSequence, Unbroken, Free, IsError
<1> QED BY <1>1, AroundInv, SubscribeInv, ObserveInv, SendInitialInv, WakeInv, RefreshInv, SendNextInv, ProviderFailsInv,
           SocketInv, ForwardEventInv DEF StreamNext, LoopStep

LEMMA SilentStep ==
  StreamsInv /\ [StreamNext]_streamVars => (loop.at = "failing" /\ got' # got => IsError(Last(got')))
<1> SUFFICES ASSUME StreamsInv, [StreamNext]_streamVars, loop.at = "failing", got' # got PROVE IsError(Last(got'))
  OBVIOUS
<1>1. ForwardEvent
  BY DEF StreamNext, LoopStep, SocketStep, streamVars, streamState, ChangeData, ChangePermission, SignalChange, Subscribe,
         ObserveChanges, SendInitial, Refresh, SendNext, EndLoop, Wake, ProviderFails, Reply, EndForward, Return,
         Unsubscribe, Break, EndSession, CheckCredential, Unread
<1>2. IsError(channel[1])
  BY <1>1, ForwardFacts DEF StreamsInv, Sequenced
<1> QED BY <1>1, <1>2, ForwardFacts DEF Last

(* Type correctness of a stream and its socket. *)
THEOREM StreamTypeCorrect == StreamSpec => []StreamTypeOK
<1>1. StreamsInv => StreamTypeOK
  BY DEF StreamsInv, StreamTypes
<1> QED BY <1>1, StreamInitInv, StreamNextInv, PTL DEF StreamSpec

(* A subscriber gets versions in a strict order without a gap in their numbers, nothing
   after the error that ends them; its place is given back once, and a socket that
   returned leaves nothing behind. *)
THEOREM StreamServesSubscribers == StreamSpec => SubscribersAreServed
<1>1. StreamsInv => GotInSequence /\ PlacesBalance /\ SocketLeavesNothing
  BY DEF StreamsInv, Balanced, Sequenced
<1>2. StreamsInv /\ [StreamNext]_streamVars => [loop.at = "failing" /\ got' # got => IsError(Last(got'))]_streamVars
  BY SilentStep
<1> QED BY <1>1, <1>2, StreamInitInv, StreamNextInv, PTL DEF StreamSpec, SubscribersAreServed, SilentAfterFailure
---------------------------------------------------------------------------
(* The turns of a copilot thread. *)

Message == [role : {"user", "assistant"}, turn : Turns]
TurnType == [phase : Phases, prompt : Turns \cup {Nobody}, final : BOOLEAN, over : BOOLEAN]
AtRest == {"unsent", "conflict", "ended"}
Asked == {"loading", "ready", "streaming", "closing"}

\* At most one turn holds the thread, and while it has not persisted its answer the last
\* message of the thread is its question.
ThreadInv ==
  /\ chat \in Seq(Message) /\ turn \in [Turns -> TurnType]
  /\ reserved = {t \in Turns : turn[t].phase \notin AtRest}
  /\ \A t, u \in reserved : t = u
  /\ \A t \in Turns : turn[t].phase \in Asked => chat # <<>> /\ chat[Len(chat)] = [role |-> "user", turn |-> t]
  /\ ThreadReadsAsAsked

LEMMA ThreadInitInv == CopilotInit => ThreadInv
BY DEF CopilotInit, ThreadInv, TurnType, Phases, AtRest, Asked, ThreadReadsAsAsked, PromptIsOwn, AnswersFollowQuestions, Nobody

(* A turn of the thread moves while its chat rests. *)
LEMMA TurnKeeps ==
  ASSUME ThreadInv, UNCHANGED chat, NEW t \in Turns, NEW d \in TurnType, turn' = [turn EXCEPT ![t] = d],
         reserved' = IF d.phase \in AtRest THEN reserved \ {t} ELSE reserved \cup {t},
         d.phase \notin AtRest => \A u \in reserved : u = t,
         d.phase \in Asked => chat # <<>> /\ chat[Len(chat)] = [role |-> "user", turn |-> t],
         d.prompt \in {t, Nobody}
  PROVE  ThreadInv'
<1>1. /\ turn \in [Turns -> TurnType] /\ turn' \in [Turns -> TurnType] /\ turn'[t] = d
      /\ \A u \in Turns \ {t} : turn'[u] = turn[u]
  BY DEF ThreadInv
<1>2. reserved' = {u \in Turns : turn'[u].phase \notin AtRest}
  BY <1>1 DEF ThreadInv
<1>3. \A u, v \in reserved' : u = v
  BY DEF ThreadInv
<1>4. ThreadReadsAsAsked'
  BY <1>1 DEF ThreadInv, ThreadReadsAsAsked, PromptIsOwn, AnswersFollowQuestions
<1>5. \A u \in Turns : turn'[u].phase \in Asked => chat' # <<>> /\ chat'[Len(chat')] = [role |-> "user", turn |-> u]
  BY <1>1 DEF ThreadInv
<1> QED BY <1>1, <1>2, <1>3, <1>4, <1>5 DEF ThreadInv

LEMMA ReleaseKeeps == ASSUME ThreadInv, UNCHANGED chat, NEW t \in Turns, Release(t) PROVE ThreadInv'
<1> DEFINE d == [turn[t] EXCEPT !.phase = "ended"]
<1>1. turn \in [Turns -> TurnType] /\ turn[t].prompt \in {t, Nobody}
  BY DEF ThreadInv, ThreadReadsAsAsked, PromptIsOwn
<1>2. d \in TurnType /\ d.phase = "ended" /\ d.prompt = turn[t].prompt
  BY <1>1 DEF TurnType, Phases
<1>3. turn' = [turn EXCEPT ![t] = d] /\ reserved' = reserved \ {t}
  BY DEF Release, Phase
<1> HIDE DEF d
<1> QED BY <1>1, <1>2, <1>3, TurnKeeps DEF AtRest, Asked

(* The user's message or the answer is added, and the turn goes on. *)
LEMMA ChatKeeps ==
  ASSUME ThreadInv, NEW t \in Turns, NEW d \in TurnType, NEW m \in Message, chat' = Append(chat, m),
         turn' = [turn EXCEPT ![t] = d], t \in reserved, d.phase \notin AtRest, UNCHANGED reserved, d.prompt \in {t, Nobody},
         m.turn = t,
         \/ m.role = "user"
         \/ m.role = "assistant" /\ turn[t].phase \in Asked /\ d.phase \notin Asked
  PROVE  ThreadInv'
<1>1. /\ turn \in [Turns -> TurnType] /\ turn' \in [Turns -> TurnType] /\ turn'[t] = d
      /\ \A u \in Turns \ {t} : turn'[u] = turn[u] /\ turn[u].phase \in AtRest
  BY DEF ThreadInv
<1>2. /\ chat' \in Seq(Message) /\ Len(chat') = Len(chat) + 1 /\ chat' # <<>> /\ chat'[Len(chat) + 1] = m
      /\ \A i \in 1 .. Len(chat) : chat'[i] = chat[i]
      /\ Len(chat) \in Nat /\ DOMAIN chat = 1 .. Len(chat) /\ DOMAIN chat' = 1 .. Len(chat) + 1
  BY AppendProperties, LenProperties DEF ThreadInv
<1>3. reserved' = {u \in Turns : turn'[u].phase \notin AtRest} /\ \A u, v \in reserved' : u = v
  BY <1>1 DEF ThreadInv
<1>4. AnswersFollowQuestions'
  <2>1. ASSUME NEW i \in 1 .. Len(chat) + 1, chat'[i].role = "assistant"
        PROVE  i > 1 /\ chat'[i - 1] = [role |-> "user", turn |-> chat'[i].turn]
    <3>1. CASE i = Len(chat) + 1
      <4>1. m.role = "assistant" /\ chat # <<>> /\ chat[Len(chat)] = [role |-> "user", turn |-> t]
        BY <1>2, <2>1, <3>1 DEF ThreadInv
      <4>2. Len(chat) > 0
        BY <4>1, <1>2, EmptySeq DEF ThreadInv
      <4>3. chat'[i].turn = t /\ i - 1 = Len(chat) /\ i > 1 /\ Len(chat) \in 1 .. Len(chat)
        BY <1>2, <3>1, <4>2
      <4>4. chat'[i - 1] = chat[Len(chat)]
        BY <1>2, <4>3
      <4> QED BY <4>1, <4>3, <4>4
    <3>2. CASE i \in 1 .. Len(chat)
      <4>1. i > 1 /\ chat[i - 1] = [role |-> "user", turn |-> chat[i].turn]
        BY <1>2, <2>1, <3>2 DEF ThreadInv, ThreadReadsAsAsked, AnswersFollowQuestions
      <4> QED BY <1>2, <3>2, <4>1
    <3> QED BY <1>2, <3>1, <3>2
  <2> QED BY <1>2, <2>1 DEF AnswersFollowQuestions
<1>5. ThreadReadsAsAsked'
  BY <1>1, <1>4 DEF ThreadInv, ThreadReadsAsAsked, PromptIsOwn
<1>6. \A u \in Turns : turn'[u].phase \in Asked => chat' # <<>> /\ chat'[Len(chat')] = [role |-> "user", turn |-> u]
  <2>1. SUFFICES ASSUME turn'[t].phase \in Asked PROVE chat'[Len(chat')] = [role |-> "user", turn |-> t]
    BY <1>1, <1>2 DEF AtRest, Asked
  <2>2. m = [role |-> "user", turn |-> t]
    BY <1>1, <2>1 DEF Message
  <2> QED BY <1>2, <2>2
<1> QED BY <1>1, <1>2, <1>3, <1>5, <1>6 DEF ThreadInv

LEMMA SendMessageInv == ASSUME ThreadInv, NEW t \in Turns, SendMessage(t) PROVE ThreadInv'
<1> DEFINE phase == IF reserved = {} THEN "reserved" ELSE "conflict"
           d == [turn[t] EXCEPT !.phase = phase]
<1>1. turn \in [Turns -> TurnType] /\ turn[t].prompt \in {t, Nobody}
  BY DEF ThreadInv, ThreadReadsAsAsked, PromptIsOwn
<1>2. phase \in {"reserved", "conflict"} /\ phase \in Phases /\ phase \notin Asked
  BY DEF Phases, Asked
<1>3. /\ turn' = [turn EXCEPT ![t] = d] /\ UNCHANGED chat
      /\ reserved' = IF phase \in AtRest THEN reserved \ {t} ELSE reserved \cup {t}
  BY DEF SendMessage, ThreadFree, Phase, AtRest, ThreadInv
<1>4. phase \notin AtRest => reserved = {}
  BY DEF AtRest
<1> HIDE DEF phase
<1>5. d \in TurnType /\ d.phase = phase /\ d.prompt = turn[t].prompt
  BY <1>1, <1>2 DEF TurnType
<1> HIDE DEF d
<1> QED BY <1>1, <1>2, <1>3, <1>4, <1>5, TurnKeeps

LEMMA ServiceThreadInv == ASSUME ThreadInv, NEW t \in Turns, ServiceStep(t) PROVE ThreadInv'
<1>1. /\ turn \in [Turns -> TurnType] /\ turn[t] \in TurnType /\ turn[t].prompt \in {t, Nobody}
      /\ chat \in Seq(Message) /\ reserved = {u \in Turns : turn[u].phase \notin AtRest}
      /\ turn[t].phase \notin AtRest => t \in reserved /\ \A u \in reserved : u = t
  BY DEF ThreadInv, ThreadReadsAsAsked, PromptIsOwn
<1>2. ASSUME NEW phase \in Phases \ AtRest, Phase(t, phase), UNCHANGED <<chat, reserved>>, turn[t].phase \notin AtRest,
             phase \in Asked => turn[t].phase \in Asked
      PROVE  ThreadInv'
  <2> DEFINE d == [turn[t] EXCEPT !.phase = phase]
  <2>1. d \in TurnType /\ d.phase = phase /\ d.prompt = turn[t].prompt
    BY <1>1 DEF TurnType
  <2>2. turn' = [turn EXCEPT ![t] = d] /\ reserved' = reserved \cup {t}
    BY <1>1, <1>2 DEF Phase
  <2>3. phase \in Asked => chat # <<>> /\ chat[Len(chat)] = [role |-> "user", turn |-> t]
    BY <1>2 DEF ThreadInv
  <2> HIDE DEF d
  <2> QED BY <1>1, <1>2, <2>1, <2>2, <2>3, TurnKeeps
<1>3. CASE AppendUserMessage(t)
  <2>1. turn[t].phase = "reserved" /\ turn[t].phase \notin AtRest
    BY <1>3 DEF AppendUserMessage, AtRest
  <2>2. CASE chat' = Append(chat, [role |-> "user", turn |-> t]) /\ Phase(t, "loading") /\ UNCHANGED reserved
    <3> DEFINE d == [turn[t] EXCEPT !.phase = "loading"]
               m == [role |-> "user", turn |-> t]
    <3>1. d \in TurnType /\ d.phase = "loading" /\ d.prompt = turn[t].prompt /\ m \in Message /\ m.role = "user" /\ m.turn = t
      BY <1>1 DEF TurnType, Phases, Message
    <3>2. turn' = [turn EXCEPT ![t] = d] /\ chat' = Append(chat, m)
      BY <2>2 DEF Phase
    <3> HIDE DEF d, m
    <3> QED BY <1>1, <2>1, <2>2, <3>1, <3>2, ChatKeeps DEF AtRest
  <2>3. CASE AppendFailed(t) /\ UNCHANGED chat
    BY <2>3, ReleaseKeeps DEF AppendFailed
  <2> QED BY <1>3, <2>2, <2>3 DEF AppendUserMessage
<1>4. CASE LoadConversation(t)
  <2>1. turn[t].phase = "loading" /\ UNCHANGED chat /\ chat # <<>> /\ chat[Len(chat)] = [role |-> "user", turn |-> t]
    BY <1>4 DEF LoadConversation, ThreadInv, Asked
  <2>2. CASE Release(t)
    BY <2>1, <2>2, ReleaseKeeps
  <2>3. CASE turn' = [turn EXCEPT ![t].phase = "ready", ![t].prompt = chat[Len(chat)].turn] /\ UNCHANGED reserved
    <3> DEFINE d == [turn[t] EXCEPT !.phase = "ready", !.prompt = t]
    <3>1. d \in TurnType /\ d.phase = "ready" /\ d.prompt = t
      BY <1>1 DEF TurnType, Phases
    <3>2. turn' = [turn EXCEPT ![t] = d] /\ reserved' = reserved \cup {t}
      <4>1. chat[Len(chat)].turn = t
        BY <2>1
      <4>2. turn' = [turn EXCEPT ![t].phase = "ready", ![t].prompt = t]
        BY <2>3, <4>1
      <4>3. reserved' = reserved \cup {t}
        BY <1>1, <2>1, <2>3 DEF AtRest
      <4> QED BY <1>1, <4>2, <4>3
    <3> HIDE DEF d
    <3> QED BY <1>1, <2>1, <3>1, <3>2, TurnKeeps DEF AtRest
  <2> QED BY <1>4, <2>2, <2>3 DEF LoadConversation
<1>5. CASE StartTurn(t)
  <2>1. turn[t].phase = "ready" /\ UNCHANGED chat /\ (Release(t) \/ (Phase(t, "streaming") /\ UNCHANGED reserved))
    BY <1>5 DEF StartTurn
  <2> QED BY <1>2, <2>1, ReleaseKeeps DEF AtRest, Asked, Phases
<1>6. CASE ReceiveEvent(t)
  <2> DEFINE event == Head(frames[t])
             phase == IF event = "done" THEN "closing" ELSE "streaming"
             d == [turn[t] EXCEPT !.phase = phase, !.final = (@ \/ event = "message")]
  <2>1. turn[t].phase = "streaming" /\ UNCHANGED <<chat, reserved>> /\ turn' = [turn EXCEPT ![t] = d]
    BY <1>1, <1>6 DEF ReceiveEvent
  <2>2. phase \in {"closing", "streaming"}
    OBVIOUS
  <2>3. (turn[t].final \/ event = "message") \in BOOLEAN
    OBVIOUS
  <2> HIDE DEF phase
  <2>4. d \in TurnType /\ d.phase = phase /\ d.prompt = turn[t].prompt
    BY <1>1, <2>2, <2>3 DEF TurnType, Phases
  <2>5. chat # <<>> /\ chat[Len(chat)] = [role |-> "user", turn |-> t]
    BY <2>1 DEF ThreadInv, Asked
  <2>6. reserved' = reserved \cup {t}
    BY <1>1, <2>1 DEF AtRest
  <2> HIDE DEF d
  <2> QED BY <1>1, <2>1, <2>2, <2>4, <2>5, <2>6, TurnKeeps DEF AtRest
<1>7. CASE StreamBreaks(t)
  <2>1. turn[t].phase = "streaming" /\ Phase(t, "closing") /\ UNCHANGED <<chat, reserved>>
    BY <1>7 DEF StreamBreaks
  <2> QED BY <1>2, <2>1 DEF AtRest, Asked, Phases
<1>8. CASE PersistAnswer(t)
  <2>1. turn[t].phase = "closing" /\ Phase(t, "closed") /\ UNCHANGED reserved
        /\ chat' = IF turn[t].final THEN Append(chat, [role |-> "assistant", turn |-> t]) ELSE chat
    BY <1>8 DEF PersistAnswer
  <2>2. CASE chat' = Append(chat, [role |-> "assistant", turn |-> t])
    <3> DEFINE d == [turn[t] EXCEPT !.phase = "closed"]
               m == [role |-> "assistant", turn |-> t]
    <3>1. d \in TurnType /\ d.phase = "closed" /\ d.prompt = turn[t].prompt /\ m \in Message /\ m.role = "assistant" /\ m.turn = t
      BY <1>1 DEF TurnType, Phases, Message
    <3>2. turn' = [turn EXCEPT ![t] = d] /\ chat' = Append(chat, m)
      BY <2>1, <2>2 DEF Phase
    <3> HIDE DEF d, m
    <3> QED BY <1>1, <2>1, <3>1, <3>2, ChatKeeps DEF AtRest, Asked
  <2>3. CASE chat' = chat
    BY <1>2, <2>1, <2>3 DEF AtRest, Asked, Phases
  <2> QED BY <2>1, <2>2, <2>3
<1>9. CASE FinishTurn(t)
  BY <1>9, ReleaseKeeps DEF FinishTurn
<1> QED BY <1>3, <1>4, <1>5, <1>6, <1>7, <1>8, <1>9 DEF ServiceStep

LEMMA OverInv == ASSUME ThreadInv, NEW t \in Turns, CancelTurn(t) \/ TurnDeadline(t) PROVE ThreadInv'
<1> DEFINE d == [turn[t] EXCEPT !.over = TRUE]
<1>1. /\ turn \in [Turns -> TurnType] /\ turn[t].prompt \in {t, Nobody} /\ turn[t].phase \notin AtRest
      /\ UNCHANGED <<chat, reserved>> /\ turn' = [turn EXCEPT ![t] = d] /\ t \in reserved /\ \A u \in reserved : u = t
  BY DEF CancelTurn, TurnDeadline, CancelRegistered, ThreadInv, ThreadReadsAsAsked, PromptIsOwn
<1>2. d \in TurnType /\ d.phase = turn[t].phase /\ d.prompt = turn[t].prompt
  BY <1>1 DEF TurnType
<1>3. turn[t].phase \in Asked => chat # <<>> /\ chat[Len(chat)] = [role |-> "user", turn |-> t]
  BY DEF ThreadInv
<1> HIDE DEF d
<1> QED BY <1>1, <1>2, <1>3, TurnKeeps

LEMMA RestartThreadInv == ASSUME ThreadInv, RestartServer PROVE ThreadInv'
<1> DEFINE d(t) == IF t \in reserved THEN [turn[t] EXCEPT !.phase = "ended"] ELSE turn[t]
<1>1. turn' = [t \in Turns |-> d(t)] /\ reserved' = {} /\ UNCHANGED chat /\ turn \in [Turns -> TurnType]
  BY DEF RestartServer, ThreadInv
<1>2. ASSUME NEW t \in Turns PROVE d(t) \in TurnType /\ d(t).phase \in AtRest /\ d(t).prompt = turn[t].prompt
  BY <1>1 DEF TurnType, Phases, AtRest, ThreadInv
<1> HIDE DEF d
<1>3. turn' \in [Turns -> TurnType] /\ \A t \in Turns : turn'[t].phase \in AtRest /\ turn'[t].prompt = turn[t].prompt
  BY <1>1, <1>2
<1>4. ThreadReadsAsAsked'
  BY <1>1, <1>3 DEF ThreadInv, ThreadReadsAsAsked, PromptIsOwn, AnswersFollowQuestions
<1> QED BY <1>1, <1>3, <1>4 DEF ThreadInv, AtRest, Asked

LEMMA ThreadNextInv == ThreadInv /\ [CopilotNext]_copilotVars => ThreadInv'
<1> SUFFICES ASSUME ThreadInv, [CopilotNext]_copilotVars PROVE ThreadInv'
  OBVIOUS
<1>1. CASE UNCHANGED <<chat, reserved, turn>>
  BY <1>1 DEF ThreadInv, ThreadReadsAsAsked, PromptIsOwn, AnswersFollowQuestions
<1>2. ASSUME NEW t \in Turns,
             \/ Decide(t, TRUE) \/ Decide(t, FALSE) \/ Resolve(t) \/ HoldTool(t) \/ HoldTimesOut(t)
             \/ RunGatedTool(t) \/ EndRun(t) \/ EndTurn(t) \/ SidecarDies(t)
      PROVE  UNCHANGED <<chat, reserved, turn>>
  BY <1>2 DEF Decide, Resolve, HoldTool, HoldTimesOut, RunGatedTool, EndRun, EndTurn, SidecarDies
<1> QED BY <1>1, <1>2, SendMessageInv, ServiceThreadInv, OverInv, RestartThreadInv DEF CopilotNext, copilotVars, copilotState

\* What the sidecar says.
Says == {"proposed", "approved", "denied", "result", "message", "done"}
Unused == {"none", "running"}
Early == {"unsent", "conflict", "reserved", "loading", "ready"}

CardTypes ==
  /\ pending \subseteq Turns /\ agreed \subseteq Turns /\ ran \subseteq Turns /\ halting \subseteq Turns
  /\ click \in [Turns -> {"none", "approve", "reject", "delivered"}]
  /\ card \in [Turns -> {"none", "shown", "failed", "done"}]
  /\ side \in [Turns -> {"none", "running", "asked", "holding", "acting", "over"}]
  /\ frames \in [Turns -> Seq(Says)]
  /\ faults \in [breaks : Nat, restarts : Nat, losses : Nat]

\* An action is proposed once, decided once, and acted on only when it was approved.
Decided(t) ==
  /\ side[t] \in Unused => card[t] = "none" /\ click[t] = "none" /\ t \notin pending /\ frames[t] = <<>>
  /\ \A i \in 1 .. Len(frames[t]) : frames[t][i] = "proposed" => i = 1 /\ card[t] = "none" /\ click[t] = "none"
  /\ t \in pending => click[t] = "none"
  /\ click[t] = "approve" => t \in agreed
  /\ side[t] = "acting" => t \in agreed
  /\ t \in ran => t \in agreed
  /\ turn[t].phase \in Early => side[t] = "none"
  /\ Len(frames[t]) <= CASE side[t] \in Unused -> 0 [] side[t] = "holding" -> 1 [] side[t] = "acting" -> 2
                         [] side[t] = "asked" -> 3 [] OTHER -> 5

\* Without lost replies an action that runs is not one that was published as failed.
Undenied(t) == card[t] # "failed" /\ \A i \in 1 .. Len(frames[t]) : frames[t][i] # "denied"
Kept(t) ==
  /\ side[t] = "holding" => Undenied(t)
  /\ side[t] = "acting" \/ t \in ran => Undenied(t) /\ click[t] = "delivered"
  /\ t \in ran => side[t] \in {"asked", "over"}

CardInv == CardTypes /\ \A t \in Turns : Decided(t)
KeptInv == faults.losses = 0 /\ \A t \in Turns : Kept(t)

LEMMA CardInitInv == CopilotInit => CardInv /\ (faults.losses = 0 => KeptInv)
<1> SUFFICES ASSUME CopilotInit PROVE CardInv /\ (faults.losses = 0 => KeptInv)
  OBVIOUS
<1>1. CardTypes
  BY CopilotAssumption DEF CopilotInit, CardTypes
<1>2. \A t \in Turns : Decided(t) /\ Kept(t)
  BY DEF CopilotInit, Decided, Kept, Unused, Early
<1> QED BY <1>1, <1>2 DEF CardInv, KeptInv
\* A step on one turn leaves the other turns alone, and takes no approval back.
Others(t) ==
  /\ \A u \in Turns \ {t} :
       /\ card'[u] = card[u] /\ click'[u] = click[u] /\ side'[u] = side[u] /\ frames'[u] = frames[u]
       /\ turn'[u].phase = turn[u].phase
       /\ (u \in pending' => u \in pending) /\ (u \in ran' => u \in ran)
  /\ agreed \subseteq agreed'

Moved(t) == CardTypes' /\ Others(t) /\ Decided(t)' /\ (KeptInv => Kept(t)' /\ faults'.losses = 0)

LEMMA MovedKeeps == ASSUME CardInv, NEW t \in Turns, Moved(t) PROVE CardInv' /\ (KeptInv => KeptInv')
<1>1. ASSUME NEW u \in Turns \ {t} PROVE Decided(u)'
  <2>1. Decided(u) /\ (u \in pending' => u \in pending) /\ (u \in ran' => u \in ran) /\ (u \in agreed => u \in agreed')
        /\ turn'[u].phase = turn[u].phase
    BY DEF CardInv, Moved, Others
  <2>2. card'[u] = card[u] /\ click'[u] = click[u] /\ side'[u] = side[u] /\ frames'[u] = frames[u]
    BY DEF Moved, Others
  <2> QED BY <2>1, <2>2 DEF Decided
<1>2. ASSUME KeptInv, NEW u \in Turns \ {t} PROVE Kept(u)'
  BY <1>2 DEF KeptInv, Moved, Others, Kept, Undenied
<1> QED BY <1>1, <1>2 DEF CardInv, KeptInv, Moved

LEMMA SpendFaultKeeps ==
  ASSUME CardTypes, \/ UNCHANGED faults \/ \E what \in {"breaks", "restarts", "losses"} : SpendFault(what)
  PROVE  faults' \in [breaks : Nat, restarts : Nat, losses : Nat] /\ (faults.losses = 0 => faults'.losses = 0)
BY DEF CardTypes, SpendFault

(* The service moves a turn on and leaves what the sidecar says where it is. *)
LEMMA PhaseMoves ==
  ASSUME CardInv, NEW t \in Turns, UNCHANGED <<pending, click, agreed, card, side, frames, ran>>,
         halting' \subseteq Turns,
         \A u \in Turns \ {t} : turn'[u].phase = turn[u].phase,
         turn'[t].phase \in Early => turn[t].phase \in Early,
         \/ UNCHANGED faults \/ SpendFault("breaks")
  PROVE  Moved(t)
<1>1. faults' \in [breaks : Nat, restarts : Nat, losses : Nat] /\ (faults.losses = 0 => faults'.losses = 0)
  BY SpendFaultKeeps DEF CardInv
<1>2. CardTypes' /\ Others(t)
  BY <1>1 DEF CardInv, CardTypes, Others
<1>3. Decided(t)'
  BY DEF CardInv, Decided
<1>4. KeptInv => Kept(t)' /\ faults'.losses = 0
  BY <1>1 DEF KeptInv, Kept, Undenied
<1> QED BY <1>2, <1>3, <1>4 DEF Moved

LEMMA SetPhase ==
  ASSUME ThreadInv, NEW t \in Turns, NEW phase, Phase(t, phase)
  PROVE  turn'[t].phase = phase /\ \A u \in Turns \ {t} : turn'[u].phase = turn[u].phase
BY DEF ThreadInv, TurnType, Phase

LEMMA QuietMoves ==
  ASSUME ThreadInv, CardInv, NEW t \in Turns,
         \/ SendMessage(t) \/ AppendUserMessage(t) \/ LoadConversation(t) \/ PersistAnswer(t) \/ FinishTurn(t)
         \/ CancelTurn(t) \/ TurnDeadline(t)
  PROVE  Moved(t)
<1>1. /\ UNCHANGED <<pending, click, agreed, card, side, frames, ran>>
      /\ \/ UNCHANGED faults \/ SpendFault("breaks")
      /\ halting' \subseteq Turns
  BY DEF SendMessage, AppendUserMessage, LoadConversation, PersistAnswer, FinishTurn, CancelTurn, TurnDeadline, CardInv, CardTypes
<1>2. /\ turn'[t].phase \in Early => turn[t].phase \in Early
      /\ \A u \in Turns \ {t} : turn'[u].phase = turn[u].phase
  <2>1. CASE \E phase \in Phases : Phase(t, phase) /\ (phase \in Early => turn[t].phase \in Early)
    BY <2>1, SetPhase
  <2>2. CASE SendMessage(t) \/ AppendUserMessage(t) \/ PersistAnswer(t) \/ FinishTurn(t)
    BY <2>1, <2>2 DEF SendMessage, AppendUserMessage, AppendFailed, PersistAnswer, FinishTurn, Release, Early, Phases
  <2>3. CASE LoadConversation(t)
    <3>1. CASE Release(t)
      BY <2>1, <3>1 DEF Release, Early, Phases
    <3>2. CASE turn[t].phase = "loading" /\ turn' = [turn EXCEPT ![t].phase = "ready", ![t].prompt = chat[Len(chat)].turn]
      BY <3>2 DEF ThreadInv, TurnType, Early
    <3> QED BY <2>3, <3>1, <3>2 DEF LoadConversation
  <2>4. CASE CancelTurn(t) \/ TurnDeadline(t)
    BY <2>4 DEF CancelTurn, TurnDeadline, CancelRegistered, ThreadInv, TurnType
  <2> QED BY <2>2, <2>3, <2>4
<1> QED BY <1>1, <1>2, PhaseMoves
(* The facts of a turn's cards, for the steps on it. *)
LEMMA CardFacts ==
  ASSUME CardInv, NEW t \in Turns
  PROVE  /\ CardTypes /\ Decided(t) /\ frames[t] \in Seq(Says) /\ Len(frames[t]) \in Nat
         /\ DOMAIN frames[t] = 1 .. Len(frames[t])
         /\ (KeptInv => Kept(t) /\ faults.losses = 0)
<1>1. CardTypes /\ Decided(t) /\ frames[t] \in Seq(Says) /\ (KeptInv => Kept(t) /\ faults.losses = 0)
  BY DEF CardInv, CardTypes, KeptInv
<1> QED BY <1>1, LenProperties

LEMMA StartMoves == ASSUME ThreadInv, CardInv, NEW t \in Turns, StartTurn(t) PROVE Moved(t)
<1>1. turn[t].phase = "ready" /\ UNCHANGED <<pending, click, agreed, card, frames, ran, halting>>
      /\ (UNCHANGED faults \/ SpendFault("breaks"))
  BY DEF StartTurn
<1>2. CASE Release(t) /\ UNCHANGED side
  BY <1>1, <1>2, SetPhase, PhaseMoves DEF Release, Early, CardInv, CardTypes
<1>3. CASE side' = [side EXCEPT ![t] = "running"] /\ Phase(t, "streaming") /\ UNCHANGED faults
  <2>1. CardTypes /\ Decided(t) /\ side[t] = "none" /\ (KeptInv => Kept(t) /\ faults.losses = 0)
    BY <1>1, CardFacts DEF Decided, Early
  <2>2. side' \in [Turns -> {"none", "running", "asked", "holding", "acting", "over"}] /\ side'[t] = "running"
        /\ \A u \in Turns \ {t} : side'[u] = side[u]
    BY <1>3, <2>1 DEF CardTypes
  <2>3. CardTypes' /\ Others(t)
    BY <1>1, <1>3, <2>1, <2>2, SetPhase DEF CardTypes, Others
  <2>4. Decided(t)'
    BY <1>1, <1>3, <2>1, <2>2, SetPhase DEF Decided, Unused, Early
  <2>5. KeptInv => Kept(t)' /\ faults'.losses = 0
    BY <1>1, <1>3, <2>1, <2>2 DEF Kept, Undenied
  <2> QED BY <2>3, <2>4, <2>5 DEF Moved
<1> QED BY <1>2, <1>3 DEF StartTurn

LEMMA BreakMoves == ASSUME ThreadInv, CardInv, NEW t \in Turns, StreamBreaks(t) PROVE Moved(t)
<1>1. /\ turn[t].phase = "streaming" /\ Phase(t, "closing") /\ frames' = [frames EXCEPT ![t] = <<>>]
      /\ UNCHANGED <<pending, click, agreed, card, side, ran, halting>> /\ (UNCHANGED faults \/ SpendFault("breaks"))
  BY DEF StreamBreaks
<1>2. CardTypes /\ Decided(t) /\ Len(frames[t]) \in Nat /\ (KeptInv => Kept(t) /\ faults.losses = 0)
  BY CardFacts
<1>3. frames' \in [Turns -> Seq(Says)] /\ frames'[t] = <<>> /\ \A u \in Turns \ {t} : frames'[u] = frames[u]
  BY <1>1, <1>2 DEF CardTypes
<1>4. faults' \in [breaks : Nat, restarts : Nat, losses : Nat] /\ (faults.losses = 0 => faults'.losses = 0)
  BY <1>1, <1>2, SpendFaultKeeps
<1>5. CardTypes' /\ Others(t)
  BY <1>1, <1>2, <1>3, <1>4, SetPhase DEF CardTypes, Others
<1>6. Decided(t)'
  BY <1>1, <1>2, <1>3, SetPhase DEF Decided, Early
<1>7. KeptInv => Kept(t)' /\ faults'.losses = 0
  BY <1>1, <1>2, <1>3, <1>4 DEF Kept, Undenied
<1> QED BY <1>5, <1>6, <1>7 DEF Moved

LEMMA EventMoves == ASSUME ThreadInv, CardInv, NEW t \in Turns, ReceiveEvent(t) PROVE Moved(t)
<1> DEFINE event == Head(frames[t])
           rest == Tail(frames[t])
<1>1. CardTypes /\ Decided(t) /\ frames[t] \in Seq(Says) /\ Len(frames[t]) \in Nat /\ (KeptInv => Kept(t) /\ faults.losses = 0)
  BY CardFacts
<1>2. /\ turn[t].phase = "streaming" /\ frames[t] # <<>> /\ frames' = [frames EXCEPT ![t] = rest]
      /\ UNCHANGED <<click, agreed, side, ran, halting, faults>>
  BY DEF ReceiveEvent
<1>3. /\ event \in Says /\ rest \in Seq(Says) /\ Len(rest) = Len(frames[t]) - 1 /\ event = frames[t][1]
      /\ \A i \in 1 .. Len(rest) : rest[i] = frames[t][i + 1]
  BY <1>1, <1>2, HeadTailProperties
<1>4. 1 \in 1 .. Len(frames[t])
  BY <1>1, <1>2, EmptySeq
<1>5. \A i \in 1 .. Len(rest) : rest[i] # "proposed" /\ i + 1 \in 1 .. Len(frames[t])
  BY <1>1, <1>3 DEF Decided
<1>6. event = "proposed" => click[t] = "none"
  BY <1>1, <1>3, <1>4 DEF Decided
<1>7. side[t] \notin Unused
  BY <1>1, <1>2 DEF Decided
<1>8. \/ event = "proposed" /\ card' = [card EXCEPT ![t] = "shown"] /\ pending' \subseteq pending \cup {t}
      \/ event = "denied" /\ card' = [card EXCEPT ![t] = "failed"] /\ pending' = pending \ {t}
      \/ event = "result" /\ card' = [card EXCEPT ![t] = "done"] /\ pending' = pending \ {t}
      \/ event \notin {"proposed", "denied", "result"} /\ card' = card /\ pending' = pending
  <2>1. /\ card' = [card EXCEPT ![t] = CASE event = "proposed" -> "shown" [] event = "denied" -> "failed"
                                         [] event = "result" -> "done" [] OTHER -> card[t]]
        /\ IF event = "proposed" THEN Register(t)
           ELSE pending' = IF event \in {"denied", "result"} THEN pending \ {t} ELSE pending
    BY DEF ReceiveEvent
  <2> HIDE DEF event
  <2> QED BY <1>1, <2>1 DEF Register, CardTypes
<1>9. turn'[t].phase \in {"closing", "streaming"} /\ \A u \in Turns \ {t} : turn'[u].phase = turn[u].phase
  <2> DEFINE phase == IF event = "done" THEN "closing" ELSE "streaming"
  <2> DEFINE d == [turn[t] EXCEPT !.phase = phase, !.final = (@ \/ event = "message")]
  <2>1. turn \in [Turns -> TurnType] /\ turn[t] \in TurnType
    BY DEF ThreadInv
  <2>2. turn' = [turn EXCEPT ![t] = d]
    BY <2>1 DEF ReceiveEvent
  <2>3. phase \in {"closing", "streaming"}
    OBVIOUS
  <2> HIDE DEF phase
  <2>4. d.phase = phase
    BY <2>1 DEF TurnType
  <2> HIDE DEF d
  <2> QED BY <2>1, <2>2, <2>3, <2>4
<1> HIDE DEF event, rest
<1>10. frames' \in [Turns -> Seq(Says)] /\ frames'[t] = rest /\ \A u \in Turns \ {t} : frames'[u] = frames[u]
  BY <1>1, <1>2, <1>3 DEF CardTypes
<1>11. /\ card' \in [Turns -> {"none", "shown", "failed", "done"}] /\ pending' \subseteq Turns
       /\ \A u \in Turns \ {t} : card'[u] = card[u] /\ (u \in pending' => u \in pending)
       /\ (t \in pending' => t \in pending \/ event = "proposed")
       /\ (card'[t] = "failed" => card[t] = "failed" \/ event = "denied")
  BY <1>1, <1>8 DEF CardTypes
<1>12. CardTypes' /\ Others(t)
  BY <1>1, <1>2, <1>9, <1>10, <1>11 DEF CardTypes, Others
<1>13. Decided(t)'
  <2>1. Len(rest) <= Len(frames[t])
    BY <1>1, <1>3
  <2>2. \A i \in 1 .. Len(frames'[t]) : frames'[t][i] # "proposed"
    BY <1>5, <1>10
  <2>3. /\ click'[t] = click[t] /\ side'[t] = side[t] /\ agreed' = agreed /\ ran' = ran /\ side'[t] \notin Unused
        /\ (t \in pending' => click'[t] = "none") /\ turn'[t].phase \notin Early
    BY <1>1, <1>2, <1>6, <1>7, <1>9, <1>11 DEF Early, Decided
  <2>4. Len(frames[t]) <= CASE side[t] \in Unused -> 0 [] side[t] = "holding" -> 1 [] side[t] = "acting" -> 2
                            [] side[t] = "asked" -> 3 [] OTHER -> 5
    BY <1>1 DEF Decided
  <2>5. (CASE side[t] \in Unused -> 0 [] side[t] = "holding" -> 1 [] side[t] = "acting" -> 2
          [] side[t] = "asked" -> 3 [] OTHER -> 5) \in Nat
    OBVIOUS
  <2>6. Len(rest) <= CASE side[t] \in Unused -> 0 [] side[t] = "holding" -> 1 [] side[t] = "acting" -> 2
                            [] side[t] = "asked" -> 3 [] OTHER -> 5
    BY <1>1, <1>3, <2>4, <2>5
  <2> QED BY <1>1, <1>10, <2>2, <2>3, <2>6 DEF Decided
<1>14. KeptInv => Kept(t)' /\ faults'.losses = 0
  <2>1. ASSUME Undenied(t) PROVE Undenied(t)'
    BY SMTT(30), <1>3, <1>4, <1>5, <1>10, <1>11, <2>1 DEF Undenied
  <2> QED BY <1>1, <1>2, <2>1 DEF Kept
<1> QED BY <1>12, <1>13, <1>14 DEF Moved
Sides == {"none", "running", "asked", "holding", "acting", "over"}

\* At most n events more of a turn are on their way, all of them among what.
Longer(t, what, n) ==
  /\ frames' \in [Turns -> Seq(Says)] /\ \A u \in Turns \ {t} : frames'[u] = frames[u]
  /\ Len(frames'[t]) \in Nat /\ Len(frames'[t]) <= Len(frames[t]) + n
  /\ \A i \in 1 .. Len(frames'[t]) :
       (i \in 1 .. Len(frames[t]) /\ frames'[t][i] = frames[t][i]) \/ frames'[t][i] \in what

LEMMA LongerBy ==
  ASSUME NEW s \in Seq(Says), NEW e \in Seq(Says), NEW what, \A k \in 1 .. Len(e) : e[k] \in what
  PROVE  /\ s \o e \in Seq(Says) /\ Len(s \o e) \in Nat /\ Len(s \o e) <= Len(s) + Len(e)
         /\ \A i \in 1 .. Len(s \o e) : (i \in 1 .. Len(s) /\ (s \o e)[i] = s[i]) \/ (s \o e)[i] \in what
<1> DEFINE q == s \o e
<1>1. /\ q \in Seq(Says) /\ Len(q) = Len(s) + Len(e) /\ Len(s) \in Nat /\ Len(e) \in Nat
      /\ \A i \in 1 .. Len(s) + Len(e) : q[i] = IF i <= Len(s) THEN s[i] ELSE e[i - Len(s)]
  BY ConcatProperties, LenProperties
<1> HIDE DEF q
<1>2. ASSUME NEW i \in 1 .. Len(q) PROVE (i \in 1 .. Len(s) /\ q[i] = s[i]) \/ q[i] \in what
  <2>1. CASE i <= Len(s)
    BY <1>1, <2>1
  <2>2. CASE ~(i <= Len(s))
    <3>1. i - Len(s) \in 1 .. Len(e) /\ q[i] = e[i - Len(s)]
      BY <1>1, <2>2
    <3> QED BY <3>1
  <2> QED BY <2>1, <2>2
<1>3. q \in Seq(Says) /\ Len(q) \in Nat /\ Len(q) <= Len(s) + Len(e)
  BY <1>1
<1> QED BY <1>2, <1>3 DEF q

LEMMA SideStepSays ==
  ASSUME CardTypes, NEW t \in Turns, NEW from, NEW to \in Sides, NEW events \in Seq(Says), NEW what,
         \A k \in 1 .. Len(events) : events[k] \in what, SideStep(t, from, to, events)
  PROVE  /\ Longer(t, what, Len(events)) /\ side[t] = from /\ side'[t] = to
         /\ side' \in [Turns -> Sides] /\ \A u \in Turns \ {t} : side'[u] = side[u]
<1>1. /\ frames[t] \in Seq(Says) /\ Len(frames[t]) \in Nat /\ Len(events) \in Nat /\ frames \in [Turns -> Seq(Says)]
      /\ side \in [Turns -> Sides]
  BY LenProperties DEF CardTypes, Sides
<1> DEFINE more == frames[t] \o events
<1>2. /\ more \in Seq(Says) /\ Len(more) \in Nat /\ Len(more) <= Len(frames[t]) + Len(events)
      /\ \A i \in 1 .. Len(more) : (i \in 1 .. Len(frames[t]) /\ more[i] = frames[t][i]) \/ more[i] \in what
  BY <1>1, LongerBy
<1>3. frames' = [frames EXCEPT ![t] = more] \/ frames' = [frames EXCEPT ![t] = <<>>]
  BY DEF SideStep
<1> HIDE DEF more
<1>4. Longer(t, what, Len(events))
  <2>1. CASE frames' = [frames EXCEPT ![t] = more]
    <3>1. frames' \in [Turns -> Seq(Says)] /\ frames'[t] = more /\ \A u \in Turns \ {t} : frames'[u] = frames[u]
      BY <1>1, <1>2, <2>1
    <3> QED BY <1>2, <3>1 DEF Longer
  <2>2. CASE frames' = [frames EXCEPT ![t] = <<>>]
    <3>1. <<>> \in Seq(Says) /\ Len(<<>>) = 0
      OBVIOUS
    <3>2. frames' \in [Turns -> Seq(Says)] /\ frames'[t] = <<>> /\ \A u \in Turns \ {t} : frames'[u] = frames[u]
      BY <1>1, <2>2, <3>1
    <3>3. Len(frames'[t]) = 0 /\ 0 <= Len(frames[t]) + Len(events)
      BY <1>1, <3>1, <3>2
    <3> QED BY <3>2, <3>3 DEF Longer
  <2> QED BY <1>3, <2>1, <2>2
<1> QED BY <1>1, <1>4 DEF SideStep

LEMMA HoldMoves == ASSUME CardInv, NEW t \in Turns, HoldTool(t) PROVE Moved(t)
<1>1. /\ CardTypes /\ Decided(t) /\ (KeptInv => Kept(t) /\ faults.losses = 0)
      /\ UNCHANGED <<turn, pending, click, agreed, card, halting, ran, faults>>
  BY CardFacts DEF HoldTool
<1> DEFINE events == <<"proposed">>
           what == {"proposed"}
<1>2. /\ events \in Seq(Says) /\ Len(events) = 1 /\ \A k \in 1 .. Len(events) : events[k] \in what
      /\ SideStep(t, "running", "holding", events) /\ "holding" \in Sides
  BY DEF Says, Sides, HoldTool
<1> HIDE DEF events, what
<1>3. /\ Longer(t, what, 1) /\ side[t] = "running" /\ side'[t] = "holding"
      /\ side' \in [Turns -> Sides] /\ \A u \in Turns \ {t} : side'[u] = side[u]
  <2>1. /\ Longer(t, what, Len(events)) /\ side[t] = "running" /\ side'[t] = "holding"
        /\ side' \in [Turns -> Sides] /\ \A u \in Turns \ {t} : side'[u] = side[u]
    BY <1>1, <1>2, SideStepSays
  <2> QED BY <1>2, <2>1
<1>4. CardTypes' /\ Others(t)
  BY <1>1, <1>3 DEF CardTypes, Others, Longer, Sides
<1>5. card[t] = "none" /\ click[t] = "none" /\ t \notin pending /\ Len(frames[t]) = 0
  BY <1>1, <1>3 DEF Decided, Unused
<1>6. Len(frames'[t]) \in Nat /\ Len(frames'[t]) <= 1 /\ \A i \in 1 .. Len(frames'[t]) : frames'[t][i] = "proposed"
  BY <1>3, <1>5 DEF Longer, what
<1>7. \A i \in 1 .. Len(frames'[t]) : i = 1
  BY <1>6
<1>8. Decided(t)'
  BY <1>1, <1>3, <1>5, <1>6, <1>7 DEF Decided, Unused
<1>9. KeptInv => Kept(t)' /\ faults'.losses = 0
  BY <1>1, <1>3, <1>5, <1>6 DEF Kept, Undenied, Decided
<1> QED BY <1>4, <1>8, <1>9 DEF Moved

(* The run of a turn goes on: what it says is no proposal, and only a hold is denied. *)
LEMMA SayMoves ==
  ASSUME CardInv, NEW t \in Turns, NEW from \in Sides, NEW to \in Sides, NEW events \in Seq(Says), NEW what,
         \A k \in 1 .. Len(events) : events[k] \in what, SideStep(t, from, to, events),
         "proposed" \notin what, "denied" \in what => from = "holding" /\ to = "asked",
         \/ from \in {"holding", "acting"} /\ to = "asked" /\ Len(events) <= 1
         \/ from \in {"running", "asked"} /\ to = "over" /\ Len(events) <= 2,
         UNCHANGED <<turn, pending, click, agreed, card, halting, faults>>,
         ran' = ran \/ (from = "acting" /\ ran' = ran \cup {t})
  PROVE  Moved(t)
<1>1. CardTypes /\ Decided(t) /\ Len(frames[t]) \in Nat /\ Len(events) \in Nat /\ (KeptInv => Kept(t) /\ faults.losses = 0)
  BY CardFacts, LenProperties
<1>2. /\ Longer(t, what, Len(events)) /\ side[t] = from /\ side'[t] = to
      /\ side' \in [Turns -> Sides] /\ \A u \in Turns \ {t} : side'[u] = side[u]
  BY <1>1, SideStepSays
<1>3. CardTypes' /\ Others(t)
  BY <1>1, <1>2 DEF CardTypes, Others, Longer, Sides
<1>4. Len(frames'[t]) \in Nat /\ Len(frames'[t]) <= IF to = "asked" THEN 3 ELSE 5
  <2>1. Len(frames'[t]) \in Nat /\ Len(frames'[t]) <= Len(frames[t]) + Len(events)
    BY <1>2 DEF Longer
  <2>2. CASE from \in {"holding", "acting"}
    <3>1. to = "asked" /\ Len(frames[t]) <= 2 /\ Len(events) <= 1
      BY <1>1, <1>2, <2>2 DEF Decided, Unused
    <3> QED BY <1>1, <2>1, <3>1
  <2>3. CASE from \in {"running", "asked"}
    <3>1. to = "over" /\ Len(frames[t]) <= 3 /\ Len(events) <= 2
      BY <1>1, <1>2, <2>3 DEF Decided, Unused
    <3> QED BY <1>1, <2>1, <3>1
  <2> QED BY <2>2, <2>3
<1>5. \A i \in 1 .. Len(frames'[t]) : frames'[t][i] = "proposed" => i = 1 /\ card[t] = "none" /\ click[t] = "none"
  BY <1>1, <1>2 DEF Longer, Decided
<1>6. Decided(t)'
  <2>1. to \in {"asked", "over"} /\ turn'[t].phase \notin Early
    BY <1>1, <1>2 DEF Decided
  <2>2. t \in ran' => t \in agreed
    BY <1>1, <1>2 DEF Decided
  <2>3. Len(frames'[t]) <= CASE to \in Unused -> 0 [] to = "holding" -> 1 [] to = "acting" -> 2
                             [] to = "asked" -> 3 [] OTHER -> 5
    BY <1>4, <2>1 DEF Unused
  <2> QED BY <1>1, <1>2, <1>5, <2>1, <2>2, <2>3 DEF Decided, Unused
<1>7. KeptInv => Kept(t)' /\ faults'.losses = 0
  <2>1. ASSUME Undenied(t), "denied" \notin what PROVE Undenied(t)'
    BY <1>2, <2>1 DEF Undenied, Longer
  <2>2. ASSUME KeptInv PROVE t \in ran' => Undenied(t)' /\ click[t] = "delivered" /\ to \in {"asked", "over"}
    BY <1>1, <1>2, <2>1, <2>2 DEF Kept
  <2> QED BY <1>1, <1>2, <2>2 DEF Kept
<1> QED BY <1>3, <1>6, <1>7 DEF Moved
LEMMA TimesOutMoves == ASSUME CardInv, NEW t \in Turns, HoldTimesOut(t) PROVE Moved(t)
<1> DEFINE events == <<"denied">>
           what == {"denied"}
<1>1. /\ events \in Seq(Says) /\ Len(events) <= 1 /\ (\A k \in 1 .. Len(events) : events[k] \in what) /\ "proposed" \notin what
      /\ "holding" \in Sides /\ "asked" \in Sides /\ SideStep(t, "holding", "asked", events)
      /\ UNCHANGED <<turn, pending, click, agreed, card, halting, ran, faults>>
  BY DEF HoldTimesOut, AfterTimeout, Says, Sides
<1> HIDE DEF events, what
<1> QED BY <1>1, SayMoves

LEMMA RunToolMoves == ASSUME CardInv, NEW t \in Turns, RunGatedTool(t) PROVE Moved(t)
<1> DEFINE events == <<"result">>
           what == {"result"}
<1>1. /\ events \in Seq(Says) /\ Len(events) <= 1 /\ \A k \in 1 .. Len(events) : events[k] \in what
      /\ "proposed" \notin what /\ "denied" \notin what
      /\ "acting" \in Sides /\ "asked" \in Sides /\ SideStep(t, "acting", "asked", events)
      /\ UNCHANGED <<turn, pending, click, agreed, card, halting, faults>> /\ ran' = ran \cup {t}
  BY DEF RunGatedTool, Says, Sides
<1> HIDE DEF events, what
<1> QED BY <1>1, SayMoves

LEMMA EndRunMoves == ASSUME CardInv, NEW t \in Turns, EndRun(t) PROVE Moved(t)
<1>1. PICK from \in {"running", "asked"}, events \in {<<"message", "done">>, <<"done">>} : SideStep(t, from, "over", events)
  BY DEF EndRun
<1> DEFINE what == {"message", "done"}
<1>2. /\ events \in Seq(Says) /\ Len(events) <= 2 /\ \A k \in 1 .. Len(events) : events[k] \in what
      /\ "proposed" \notin what /\ "denied" \notin what
  <2>1. CASE events = <<"message", "done">>
    BY <2>1 DEF Says
  <2>2. CASE events = <<"done">>
    BY <2>2 DEF Says
  <2> QED BY <2>1, <2>2
<1>3. /\ from \in Sides /\ "over" \in Sides /\ UNCHANGED <<turn, pending, click, agreed, card, halting, ran, faults>>
  BY DEF EndRun, Sides
<1> HIDE DEF what
<1> QED BY <1>1, <1>2, <1>3, SayMoves

LEMMA OverMoves == ASSUME CardInv, NEW t \in Turns, EndTurn(t) \/ SidecarDies(t) PROVE Moved(t)
<1>1. /\ CardTypes /\ Decided(t) /\ Len(frames[t]) \in Nat /\ (KeptInv => Kept(t) /\ faults.losses = 0)
      /\ UNCHANGED <<turn, pending, click, agreed, card, frames, ran>> /\ side[t] \notin {"none", "over"}
      /\ side' = [side EXCEPT ![t] = "over"] /\ halting' \subseteq halting /\ (UNCHANGED faults \/ SpendFault("breaks"))
  BY CardFacts DEF EndTurn, SidecarDies
<1>2. side' \in [Turns -> Sides] /\ side'[t] = "over" /\ \A u \in Turns \ {t} : side'[u] = side[u]
  BY <1>1 DEF CardTypes, Sides
<1>3. faults' \in [breaks : Nat, restarts : Nat, losses : Nat] /\ (faults.losses = 0 => faults'.losses = 0)
  BY <1>1, SpendFaultKeeps
<1>4. CardTypes' /\ Others(t)
  BY <1>1, <1>2, <1>3 DEF CardTypes, Others, Sides
<1>5. Len(frames[t]) <= 5 /\ turn[t].phase \notin Early
  <2>1. Len(frames[t]) <= CASE side[t] \in Unused -> 0 [] side[t] = "holding" -> 1 [] side[t] = "acting" -> 2
                            [] side[t] = "asked" -> 3 [] OTHER -> 5
    BY <1>1 DEF Decided
  <2>2. Len(frames[t]) <= 0 \/ Len(frames[t]) <= 1 \/ Len(frames[t]) <= 2 \/ Len(frames[t]) <= 3 \/ Len(frames[t]) <= 5
    BY <2>1
  <2> QED BY <1>1, <2>2 DEF Decided
<1>6. Decided(t)'
  BY <1>1, <1>2, <1>5 DEF Decided, Unused
<1>7. KeptInv => Kept(t)' /\ faults'.losses = 0
  BY <1>1, <1>2, <1>3 DEF Kept, Undenied
<1> QED BY <1>4, <1>6, <1>7 DEF Moved

LEMMA DecideMoves == ASSUME CardInv, NEW t \in Turns, NEW yes \in BOOLEAN, Decide(t, yes) PROVE Moved(t)
<1> DEFINE said == IF yes THEN "approve" ELSE "reject"
<1>1. /\ CardTypes /\ Decided(t) /\ Len(frames[t]) \in Nat /\ (KeptInv => Kept(t) /\ faults.losses = 0)
      /\ UNCHANGED <<turn, card, side, frames, ran, halting, faults>> /\ click' = [click EXCEPT ![t] = said]
      /\ card[t] # "none" /\ t \in pending /\ pending' = pending \ {t}
      /\ agreed' = IF yes THEN agreed \cup {t} ELSE agreed
  BY CardFacts DEF Decide, TakePending
<1>2. said \in {"approve", "reject"} /\ (said = "approve" => yes)
  OBVIOUS
<1> HIDE DEF said
<1>3. /\ click' \in [Turns -> {"none", "approve", "reject", "delivered"}] /\ click'[t] = said
      /\ \A u \in Turns \ {t} : click'[u] = click[u]
  BY <1>1, <1>2 DEF CardTypes
<1>4. agreed' \subseteq Turns /\ agreed \subseteq agreed' /\ pending' \subseteq Turns
  BY <1>1 DEF CardTypes
<1>5. CardTypes' /\ Others(t)
  BY <1>1, <1>3, <1>4 DEF CardTypes, Others
<1>6. Decided(t)'
  BY <1>1, <1>2, <1>3, <1>4 DEF Decided
<1>7. KeptInv => Kept(t)' /\ faults'.losses = 0
  BY <1>1 DEF Kept, Undenied, Decided
<1> QED BY <1>5, <1>6, <1>7 DEF Moved

LEMMA ResolveMoves == ASSUME CardInv, NEW t \in Turns, Resolve(t) PROVE Moved(t)
<1>1. /\ CardTypes /\ Decided(t) /\ frames[t] \in Seq(Says) /\ Len(frames[t]) \in Nat
      /\ (KeptInv => Kept(t) /\ faults.losses = 0)
      /\ UNCHANGED <<turn, pending, agreed, ran, halting>> /\ click' = [click EXCEPT ![t] = "delivered"]
      /\ click[t] \in {"approve", "reject"}
  BY CardFacts DEF Resolve
<1>2. /\ click' \in [Turns -> {"none", "approve", "reject", "delivered"}] /\ click'[t] = "delivered"
      /\ \A u \in Turns \ {t} : click'[u] = click[u]
  BY <1>1 DEF CardTypes
<1>3. card[t] # "none" \/ \A i \in 1 .. Len(frames[t]) : frames[t][i] # "proposed"
  BY <1>1 DEF Decided
<1>4. faults' \in [breaks : Nat, restarts : Nat, losses : Nat] /\ (faults.losses = 0 => faults'.losses = 0)
  <2>1. UNCHANGED faults \/ SpendFault("losses")
    BY DEF Resolve
  <2> QED BY <1>1, <2>1, SpendFaultKeeps
<1>5. /\ card' \in [Turns -> {"none", "shown", "failed", "done"}] /\ \A u \in Turns \ {t} : card'[u] = card[u]
      /\ card'[t] = card[t] \/ card'[t] = "failed"
  BY <1>1 DEF Resolve, CardTypes
<1>6. CASE side[t] # "holding" /\ card' = [card EXCEPT ![t] = "failed"] /\ UNCHANGED <<side, frames, faults>>
  <2>1. side[t] \notin Unused
    BY <1>1 DEF Decided
  <2>2. CardTypes' /\ Others(t)
    BY <1>1, <1>2, <1>5, <1>6 DEF CardTypes, Others
  <2>3. \A i \in 1 .. Len(frames[t]) : frames[t][i] # "proposed"
    BY <1>1 DEF Decided
  <2>4. Decided(t)'
    BY <1>1, <1>2, <1>6, <2>1, <2>3 DEF Decided
  <2>5. KeptInv => Kept(t)' /\ faults'.losses = 0
    BY <1>1, <1>6 DEF Kept
  <2> QED BY <2>2, <2>4, <2>5 DEF Moved
<1>7. ASSUME side[t] = "holding", NEW to \in {"acting", "asked"}, NEW said \in {"approved", "denied"},
             side' = [side EXCEPT ![t] = to], Emit(t, said), to = "acting" => click[t] = "approve" /\ said = "approved",
             faults.losses = 0 => UNCHANGED card
      PROVE  Moved(t)
  <2> DEFINE q == Append(frames[t], said)
  <2>1. /\ q \in Seq(Says) /\ Len(q) = Len(frames[t]) + 1 /\ \A i \in 1 .. Len(frames[t]) : q[i] = frames[t][i]
        /\ q[Len(frames[t]) + 1] = said
    <3>1. said \in Says
      BY DEF Says
    <3> QED BY <1>1, <3>1, AppendProperties
  <2>2. frames' = [frames EXCEPT ![t] = q]
    BY <1>7 DEF Emit
  <2> HIDE DEF q
  <2>3. /\ frames' \in [Turns -> Seq(Says)] /\ frames'[t] = q /\ (\A u \in Turns \ {t} : frames'[u] = frames[u])
        /\ side' \in [Turns -> Sides] /\ side'[t] = to /\ \A u \in Turns \ {t} : side'[u] = side[u]
    BY <1>1, <1>7, <2>1, <2>2 DEF CardTypes, Sides
  <2>4. CardTypes' /\ Others(t)
    BY <1>1, <1>2, <1>4, <1>5, <2>3 DEF CardTypes, Others, Sides
  <2>5. Len(frames[t]) <= 1
    BY <1>1, <1>7 DEF Decided, Unused
  <2>6. Len(q) \in Nat /\ Len(q) <= 2 /\ \A i \in 1 .. Len(q) : i \in 1 .. Len(frames[t]) \/ i = Len(frames[t]) + 1
    BY <1>1, <2>1, <2>5
  <2>7. \A i \in 1 .. Len(q) : (i \in 1 .. Len(frames[t]) /\ q[i] = frames[t][i]) \/ q[i] = said
    BY <2>1, <2>6
  <2>8. \A i \in 1 .. Len(q) : q[i] # "proposed"
    BY <1>1, <2>7 DEF Decided
  <2>9. Len(q) <= CASE to \in Unused -> 0 [] to = "holding" -> 1 [] to = "acting" -> 2 [] to = "asked" -> 3 [] OTHER -> 5
    BY <2>6 DEF Unused
  <2>10. Decided(t)'
    BY <1>1, <1>2, <1>7, <2>3, <2>8, <2>9 DEF Decided, Unused
  <2>11. KeptInv => Kept(t)' /\ faults'.losses = 0
    <3>1. SUFFICES ASSUME KeptInv PROVE Kept(t)'
      BY <1>1, <1>4
    <3>2. t \notin ran' /\ Undenied(t) /\ card' = card
      BY <1>1, <1>7, <3>1 DEF Kept
    <3>3. to = "acting" => Undenied(t)'
      BY <1>7, <2>3, <2>7, <3>2 DEF Undenied
    <3> QED BY <1>2, <2>3, <3>2, <3>3 DEF Kept
  <2> QED BY <2>4, <2>10, <2>11 DEF Moved
<1>8. CASE side[t] = "holding" /\ click[t] = "approve"
  <2>1. side' = [side EXCEPT ![t] = "acting"] /\ Emit(t, "approved")
    BY <1>8 DEF Resolve
  <2>2. faults.losses = 0 => UNCHANGED card
    BY <1>8 DEF Resolve, SpendFault
  <2> QED BY <1>7, <1>8, <2>1, <2>2
<1>9. CASE side[t] = "holding" /\ click[t] # "approve"
  <2>1. side' = [side EXCEPT ![t] = "asked"] /\ Emit(t, "denied")
    BY <1>9 DEF Resolve
  <2>2. faults.losses = 0 => UNCHANGED card
    BY <1>9 DEF Resolve, SpendFault
  <2> QED BY <1>7, <1>9, <2>1, <2>2
<1> QED BY <1>6, <1>8, <1>9 DEF Resolve
LEMMA RestartCards == ASSUME ThreadInv, CardInv, RestartServer PROVE CardInv' /\ (KeptInv => KeptInv')
<1> DEFINE c(t) == IF click[t] = "none" THEN "none" ELSE "delivered"
           d(t) == IF t \in reserved THEN [turn[t] EXCEPT !.phase = "ended"] ELSE turn[t]
<1>1. /\ CardTypes /\ (\A t \in Turns : Decided(t)) /\ pending' = {} /\ halting' = {} /\ UNCHANGED <<agreed, card, side, ran>>
      /\ frames' = [t \in Turns |-> <<>>] /\ click' = [t \in Turns |-> c(t)] /\ turn' = [t \in Turns |-> d(t)]
      /\ SpendFault("restarts") /\ turn \in [Turns -> TurnType]
  BY DEF RestartServer, CardInv, ThreadInv
<1>2. ASSUME NEW t \in Turns
      PROVE  /\ c(t) \in {"none", "delivered"} /\ (click[t] = "none" => c(t) = "none") /\ (click[t] = "delivered" => c(t) = "delivered")
             /\ (d(t).phase \in Early => turn[t].phase \in Early)
  BY <1>1 DEF TurnType, Early
<1> HIDE DEF c, d
<1>3. /\ click' \in [Turns -> {"none", "approve", "reject", "delivered"}] /\ frames' \in [Turns -> Seq(Says)]
      /\ \A t \in Turns : click'[t] = c(t) /\ frames'[t] = <<>> /\ turn'[t] = d(t)
  BY <1>1, <1>2
<1>4. faults' \in [breaks : Nat, restarts : Nat, losses : Nat] /\ (faults.losses = 0 => faults'.losses = 0)
  BY <1>1, SpendFaultKeeps
<1>5. CardTypes'
  BY <1>1, <1>3, <1>4 DEF CardTypes
<1>6. ASSUME NEW t \in Turns PROVE Decided(t)'
  <2>1. /\ Decided(t) /\ frames'[t] = <<>> /\ Len(frames'[t]) = 0 /\ t \notin pending' /\ card'[t] = card[t] /\ side'[t] = side[t]
        /\ agreed' = agreed /\ ran' = ran /\ click'[t] \in {"none", "delivered"} /\ (click[t] = "none" => click'[t] = "none")
        /\ (turn'[t].phase \in Early => turn[t].phase \in Early)
    BY <1>1, <1>2, <1>3
  <2> QED BY <2>1 DEF Decided
<1>7. ASSUME KeptInv, NEW t \in Turns PROVE Kept(t)'
  <2>1. /\ Kept(t) /\ frames'[t] = <<>> /\ card'[t] = card[t] /\ side'[t] = side[t] /\ ran' = ran
        /\ (click[t] = "delivered" => click'[t] = "delivered")
    BY <1>1, <1>2, <1>3, <1>7 DEF KeptInv
  <2> QED BY <2>1 DEF Kept, Undenied
<1> QED BY <1>4, <1>5, <1>6, <1>7 DEF CardInv, KeptInv

LEMMA CardNextInv == ThreadInv /\ CardInv /\ [CopilotNext]_copilotVars => CardInv' /\ (KeptInv => KeptInv')
<1> SUFFICES ASSUME ThreadInv, CardInv, [CopilotNext]_copilotVars PROVE CardInv' /\ (KeptInv => KeptInv')
  OBVIOUS
<1>1. CASE UNCHANGED copilotVars
  BY <1>1 DEF copilotVars, copilotState, CardInv, CardTypes, Decided, KeptInv, Kept, Undenied
<1>2. ASSUME NEW t \in Turns,
             \/ SendMessage(t) \/ ServiceStep(t) \/ CancelTurn(t) \/ TurnDeadline(t)
             \/ Decide(t, TRUE) \/ Decide(t, FALSE) \/ Resolve(t)
             \/ HoldTool(t) \/ HoldTimesOut(t) \/ RunGatedTool(t) \/ EndRun(t) \/ EndTurn(t) \/ SidecarDies(t)
      PROVE  Moved(t)
  <2>1. CASE SendMessage(t) \/ ServiceStep(t) \/ CancelTurn(t) \/ TurnDeadline(t)
    BY <2>1, QuietMoves, StartMoves, EventMoves, BreakMoves DEF ServiceStep
  <2>2. CASE Decide(t, TRUE) \/ Decide(t, FALSE) \/ Resolve(t)
    BY <2>2, DecideMoves, ResolveMoves
  <2>3. CASE HoldTool(t) \/ HoldTimesOut(t) \/ RunGatedTool(t) \/ EndRun(t) \/ EndTurn(t) \/ SidecarDies(t)
    BY <2>3, HoldMoves, TimesOutMoves, RunToolMoves, EndRunMoves, OverMoves
  <2> QED BY <1>2, <2>1, <2>2, <2>3
<1>3. CASE RestartServer
  BY <1>3, RestartCards
<1>4. CASE \E t \in Turns : Moved(t)
  BY <1>4, MovedKeeps
<1> QED BY <1>1, <1>2, <1>3, <1>4 DEF CopilotNext

(* A thread is held by the turns between their send and their end, and never by two. *)
THEOREM CopilotTypeCorrect == CopilotSpec => []CopilotTypeOK
<1>1. ThreadInv /\ CardInv => CopilotTypeOK
  <2> SUFFICES ASSUME ThreadInv, CardInv PROVE CopilotTypeOK
    OBVIOUS
  <2>1. ASSUME NEW i \in DOMAIN chat PROVE chat[i].role \in {"user", "assistant"} /\ chat[i].turn \in Turns
    <3>1. chat[i] \in Message
      BY ElementOfSeq, LenProperties DEF ThreadInv
    <3> QED BY <3>1 DEF Message
  <2>2. ASSUME NEW t \in Turns
        PROVE  /\ turn[t].phase \in Phases /\ turn[t].prompt \in Turns \cup {Nobody}
               /\ card[t] \in {"none", "shown", "failed", "done"}
               /\ side[t] \in {"none", "running", "asked", "holding", "acting", "over"}
    BY DEF ThreadInv, TurnType, CardInv, CardTypes
  <2>3. reserved = {t \in Turns : turn[t].phase \notin {"unsent", "conflict", "ended"}}
    BY DEF ThreadInv, AtRest
  <2>4. pending \cup agreed \cup ran \cup halting \subseteq Turns
    BY DEF CardInv, CardTypes
  <2>5. ASSUME NEW t \in Turns PROVE Len(frames[t]) <= 5
    <3>1. Decided(t) /\ Len(frames[t]) \in Nat
      BY CardFacts
    <3>2. Len(frames[t]) <= CASE side[t] \in Unused -> 0 [] side[t] = "holding" -> 1 [] side[t] = "acting" -> 2
                              [] side[t] = "asked" -> 3 [] OTHER -> 5
      BY <3>1 DEF Decided
    <3>3. Len(frames[t]) <= 0 \/ Len(frames[t]) <= 1 \/ Len(frames[t]) <= 2 \/ Len(frames[t]) <= 3 \/ Len(frames[t]) <= 5
      BY <3>2
    <3> QED BY <3>1, <3>3
  <2> QED BY <2>1, <2>2, <2>3, <2>4, <2>5 DEF CopilotTypeOK
<1> QED BY <1>1, ThreadInitInv, CardInitInv, ThreadNextInv, CardNextInv, PTL DEF CopilotSpec

(* Whatever fails, also when the replies to approvals are lost: a turn answers its own
   message, its answer follows it, and a gated tool only runs when the user agreed. *)
THEOREM TurnsAreAgreed == CopilotSpec => [](ThreadReadsAsAsked /\ GatedToolsWereApproved)
<1>1. ThreadInv /\ CardInv => ThreadReadsAsAsked /\ GatedToolsWereApproved
  BY DEF ThreadInv, CardInv, CardTypes, Decided, GatedToolsWereApproved
<1> QED BY <1>1, ThreadInitInv, CardInitInv, ThreadNextInv, CardNextInv, PTL DEF CopilotSpec

(* While no reply to an approval is lost, no action that was published as failed has run
   either: what ran, what was agreed to and what the cards tell is one story. *)
THEOREM TurnsStayTrue == (\A f \in CopilotFaults : f.losses = 0) => (CopilotSpec => []TurnsAreTrue)
<1> SUFFICES ASSUME \A f \in CopilotFaults : f.losses = 0 PROVE CopilotSpec => []TurnsAreTrue
  OBVIOUS
<1>1. CopilotInit => ThreadInv /\ CardInv /\ KeptInv
  <2>1. CopilotInit => faults.losses = 0
    BY DEF CopilotInit
  <2> QED BY <2>1, ThreadInitInv, CardInitInv
<1>2. ThreadInv /\ CardInv /\ KeptInv /\ [CopilotNext]_copilotVars => ThreadInv' /\ CardInv' /\ KeptInv'
  BY ThreadNextInv, CardNextInv
<1>3. ThreadInv /\ CardInv /\ KeptInv => TurnsAreTrue
  BY DEF ThreadInv, CardInv, CardTypes, Decided, KeptInv, Kept, Undenied,
         TurnsAreTrue, ToolsMatchApprovals, GatedToolsWereApproved, FailedActionsNeverRan
<1> QED BY <1>1, <1>2, <1>3, PTL DEF CopilotSpec

---------------------------------------------------------------------------
(* Price alerts. *)

RowType == [there : BOOLEAN, armed : BOOLEAN, active : BOOLEAN, began : BOOLEAN]
SeedLevels == Levels \cup {Unseen}

\* What the engine holds, whatever it was seeded with.
EngineTypes ==
  /\ level \in Levels /\ lastLevel \in SeedLevels /\ ticks \in Seq(Levels) /\ Len(ticks) <= TickBuffer
  /\ reload = [at |-> reload.at, rows |-> reload.rows, seed |-> reload.seed]
  /\ reload.seed \in SeedLevels /\ DOMAIN reload.rows \subseteq Alerts
  /\ Len(cmd) \in 0 .. 1 /\ (cmd # <<>> => cmd[1].seed \in SeedLevels /\ DOMAIN cmd[1].rows \subseteq Alerts)
  /\ index \in [Alerts -> {"none", "armed", "disarmed"}] /\ due \subseteq Alerts
  /\ \A a \in due : index[a] = "disarmed"

\* A row is armed at most once, as it is created: an armed one was never told of, and one
\* that began armed was told of before it was disarmed.
AlertRows ==
  /\ alertRow \in [Alerts -> RowType] /\ notified \in [Alerts -> 0 .. 2]
  /\ \A a \in Alerts :
       /\ alertRow[a] = Unborn \/ alertRow[a].armed => notified[a] = 0
       /\ alertRow[a].armed => alertRow[a].there
       /\ alertRow[a].there /\ alertRow[a].began /\ ~alertRow[a].armed => notified[a] > 0

AlertInv == EngineTypes /\ AlertRows

LEMMA AlertInitInv == AlertInit => AlertInv
<1> SUFFICES ASSUME AlertInit PROVE AlertInv
  OBVIOUS
<1>1. EngineTypes
  BY AlertAssumption DEF AlertInit, EngineTypes, SeedLevels, NoReload, Levels, Unseen
<1>2. AlertRows
  BY DEF AlertInit, AlertRows, RowType, Unborn
<1> QED BY <1>1, <1>2 DEF AlertInv

\* The users.
LEMMA RowsChange ==
  ASSUME AlertInv, NEW a \in Alerts, CreateAlert(a) \/ DeleteAlert(a) \/ PauseAlert(a)
  PROVE  AlertInv' /\ UNCHANGED notified
<1>1. UNCHANGED <<level, ticks, index, lastLevel, reload, cmd, due, notified>>
  BY DEF CreateAlert, DeleteAlert, PauseAlert
<1>2. EngineTypes'
  BY <1>1 DEF AlertInv, EngineTypes
<1>3. PICK r \in RowType :
        /\ alertRow' = [alertRow EXCEPT ![a] = r]
        /\ r # Unborn /\ (r.armed => notified[a] = 0 /\ r.there)
        /\ r.there /\ r.began /\ ~r.armed => notified[a] > 0
  <2>1. alertRow[a] \in RowType
    BY DEF AlertInv, AlertRows
  <2>2. CASE CreateAlert(a)
    <3>1. PICK first \in {level, Unseen} :
            alertRow' = [alertRow EXCEPT ![a] = [there |-> TRUE, armed |-> InitialArmed(a, first), active |-> TRUE,
                                                 began |-> InitialArmed(a, first)]]
      BY <2>2 DEF CreateAlert
    <3>2. InitialArmed(a, first) \in BOOLEAN /\ notified[a] = 0
      BY <2>2 DEF InitialArmed, CreateAlert, AlertInv, AlertRows, Back
    <3> DEFINE r == [there |-> TRUE, armed |-> InitialArmed(a, first), active |-> TRUE, began |-> InitialArmed(a, first)]
    <3>3. r \in RowType /\ r # Unborn /\ r.there /\ (r.began => r.armed)
      BY <3>2 DEF RowType, Unborn
    <3> QED BY <3>1, <3>2, <3>3
  <2>3. CASE DeleteAlert(a)
    <3>1. Deleted \in RowType /\ Deleted # Unborn /\ ~Deleted.armed /\ ~Deleted.there
      BY DEF Deleted, Unborn, RowType
    <3> QED BY <2>3, <3>1 DEF DeleteAlert
  <2>4. CASE PauseAlert(a)
    <3> DEFINE r == [alertRow[a] EXCEPT !.active = FALSE]
    <3>1. /\ r \in RowType /\ r.there = alertRow[a].there /\ r.armed = alertRow[a].armed /\ r.began = alertRow[a].began
          /\ r.there /\ r # Unborn /\ alertRow' = [alertRow EXCEPT ![a] = r]
      BY <2>1, <2>4 DEF PauseAlert, RowType, Unborn, AlertInv, AlertRows
    <3> QED BY <3>1 DEF AlertInv, AlertRows
  <2> QED BY <2>2, <2>3, <2>4
<1>4. AlertRows'
  BY <1>1, <1>3 DEF AlertInv, AlertRows
<1> QED BY <1>1, <1>2, <1>4 DEF AlertInv

\* The engine, which only remembers.
LEMMA EngineTurns ==
  ASSUME AlertInv, UNCHANGED <<alertRow, notified>>, EngineTypes'
  PROVE  AlertInv'
BY DEF AlertInv, AlertRows

LEMMA OnTickInv == ASSUME AlertInv, NEW price \in Levels, OnTick(price) PROVE AlertInv' /\ UNCHANGED notified
<1>1. /\ level' = price /\ ticks' \in {ticks} \cup Offered(price)
      /\ UNCHANGED <<alertRow, index, lastLevel, reload, cmd, due, notified>>
  BY DEF OnTick
<1>2. ticks' \in Seq(Levels) /\ Len(ticks') <= TickBuffer
  BY <1>1, AlertAssumption DEF Offered, AlertInv, EngineTypes
<1> QED BY <1>1, <1>2, EngineTurns DEF AlertInv, EngineTypes

LEMMA OnTickEvalInv == ASSUME AlertInv, OnTickEval PROVE AlertInv' /\ UNCHANGED notified
<1>1. /\ due = {} /\ ticks # <<>> /\ ticks' = Tail(ticks) /\ UNCHANGED <<alertRow, level, reload, cmd, notified>>
      /\ lastLevel' \in {lastLevel, Head(ticks)}
  BY DEF OnTickEval
<1>2. ticks' \in Seq(Levels) /\ Len(ticks') <= TickBuffer /\ Head(ticks) \in Levels
  BY <1>1, AlertAssumption DEF AlertInv, EngineTypes
<1>3. /\ index' \in [Alerts -> {"none", "armed", "disarmed"}] /\ due' \subseteq Alerts
      /\ \A a \in due' : index'[a] = "disarmed"
  <2>1. CASE UNCHANGED <<index, due>>
    BY <1>1, <2>1 DEF AlertInv, EngineTypes
  <2>2. ASSUME NEW firing \in SUBSET Alerts, NEW arming \in SUBSET Alerts, due' = firing,
               index' = [a \in Alerts |-> IF a \in firing THEN "disarmed" ELSE IF a \in arming THEN "armed" ELSE index[a]]
        PROVE  /\ index' \in [Alerts -> {"none", "armed", "disarmed"}] /\ due' \subseteq Alerts
               /\ \A a \in due' : index'[a] = "disarmed"
    BY <2>2 DEF AlertInv, EngineTypes
  <2>3. UNCHANGED <<index, due>> \/ \E firing, arming \in SUBSET Alerts :
          /\ due' = firing
          /\ index' = [a \in Alerts |-> IF a \in firing THEN "disarmed" ELSE IF a \in arming THEN "armed" ELSE index[a]]
    <3>1. CASE ~((\A a \in Alerts : index[a] = "none") \/ lastLevel = Unseen)
      <4>1. PICK velocity \in {"up", "down", "flat"} :
              LET firing == {a \in Alerts : Fires(a, Head(ticks), velocity)}
                  arming == {a \in Alerts : Rearms(a, Head(ticks), velocity)}
              IN /\ due' = firing
                 /\ index' = [a \in Alerts |-> IF a \in firing THEN "disarmed" ELSE IF a \in arming THEN "armed" ELSE index[a]]
        BY <3>1 DEF OnTickEval
      <4> DEFINE firing == {a \in Alerts : Fires(a, Head(ticks), velocity)}
                 arming == {a \in Alerts : Rearms(a, Head(ticks), velocity)}
      <4>2. firing \in SUBSET Alerts /\ arming \in SUBSET Alerts
        OBVIOUS
      <4> QED BY <4>1, <4>2
    <3>2. CASE (\A a \in Alerts : index[a] = "none") \/ lastLevel = Unseen
      BY <3>2 DEF OnTickEval
    <3> QED BY <3>1, <3>2
  <2> QED BY <2>1, <2>2, <2>3
<1>4. EngineTypes'
  BY <1>1, <1>2, <1>3 DEF AlertInv, EngineTypes, SeedLevels
<1> QED BY <1>1, <1>4, EngineTurns

LEMMA ApplyReconcileInv == ASSUME AlertInv, ApplyReconcile PROVE AlertInv' /\ UNCHANGED notified
<1> DEFINE listed == cmd[1].rows
           late == Backstop(listed, cmd[1].seed)
<1>1. /\ cmd # <<>> /\ cmd' = <<>> /\ UNCHANGED <<alertRow, level, ticks, reload, notified>>
      /\ due' = late /\ lastLevel' \in {Unseen, cmd[1].seed, lastLevel}
      /\ index' = [a \in Alerts |-> IF a \notin DOMAIN listed THEN "none"
                                    ELSE IF listed[a] /\ a \notin late THEN "armed" ELSE "disarmed"]
  BY DEF ApplyReconcile
<1>2. cmd[1].seed \in SeedLevels /\ DOMAIN listed \subseteq Alerts
  BY <1>1 DEF AlertInv, EngineTypes
<1>3. late \subseteq DOMAIN listed
  BY DEF Backstop
<1> HIDE DEF late, listed
<1>4. index' \in [Alerts -> {"none", "armed", "disarmed"}] /\ due' \subseteq Alerts /\ \A a \in due' : index'[a] = "disarmed"
  BY <1>1, <1>2, <1>3
<1>5. EngineTypes'
  BY <1>1, <1>2, <1>4 DEF AlertInv, EngineTypes, SeedLevels
<1> QED BY <1>1, <1>5, EngineTurns

\* The fire's transaction: the one step that tells the user.
LEMMA FireDueInv ==
  ASSUME AlertInv, FireDue
  PROVE  AlertInv' /\ \A a \in Alerts : notified'[a] # notified[a] => notified[a] = 0
<1>1. PICK a \in due : due' = due \ {a} /\ (Fire(a) \/ FireFails(a))
  BY DEF FireDue
<1>2. UNCHANGED <<level, ticks, index, lastLevel, reload, cmd>> /\ a \in Alerts
  BY DEF FireDue, AlertInv, EngineTypes
<1>3. EngineTypes'
  BY <1>1, <1>2 DEF AlertInv, EngineTypes
<1>4. CASE UNCHANGED <<alertRow, notified>>
  BY <1>3, <1>4 DEF AlertInv, AlertRows
<1>5. CASE ~UNCHANGED <<alertRow, notified>>
  <2>1. /\ alertRow[a].armed /\ alertRow' = [alertRow EXCEPT ![a].armed = FALSE]
        /\ notified' = [notified EXCEPT ![a] = IF @ = 2 THEN 2 ELSE @ + 1]
    BY <1>1, <1>5 DEF Fire, FireFails
  <2>2. notified[a] = 0 /\ alertRow[a] \in RowType /\ alertRow[a].there
    BY <1>2, <2>1 DEF AlertInv, AlertRows
  <2>3. notified' = [notified EXCEPT ![a] = 1]
    BY <2>1, <2>2, <1>2 DEF AlertInv, AlertRows
  <2> DEFINE r == [alertRow[a] EXCEPT !.armed = FALSE]
  <2>4. r \in RowType /\ ~r.armed /\ r # Unborn /\ alertRow' = [alertRow EXCEPT ![a] = r]
    BY <2>1, <2>2, <1>2 DEF RowType, Unborn, AlertInv, AlertRows
  <2> HIDE DEF r
  <2>5. AlertRows'
    BY <1>2, <2>3, <2>4 DEF AlertInv, AlertRows
  <2>6. \A b \in Alerts : notified'[b] # notified[b] => notified[b] = 0
    BY <1>2, <2>2, <2>3 DEF AlertInv, AlertRows
  <2> QED BY <1>3, <2>5, <2>6 DEF AlertInv
<1> QED BY <1>4, <1>5

\* The reconcile, and a restart.
LEMMA ReloadInv ==
  ASSUME AlertInv, ListActive \/ FetchSnapshot \/ SendReconcile \/ RestartEngine
  PROVE  AlertInv' /\ UNCHANGED notified
<1>1. CASE ListActive
  <2> DEFINE active == {a \in Alerts : alertRow[a].active}
             r == [at |-> "loaded", rows |-> [a \in active |-> alertRow[a].armed], seed |-> Unseen]
  <2>1. reload' = r /\ UNCHANGED <<alertRow, level, ticks, index, lastLevel, cmd, due, notified>>
    BY <1>1 DEF ListActive
  <2>2. r.seed \in SeedLevels /\ DOMAIN r.rows \subseteq Alerts /\ r = [at |-> r.at, rows |-> r.rows, seed |-> r.seed]
    BY DEF SeedLevels
  <2> HIDE DEF r
  <2>3. EngineTypes'
    BY <2>1, <2>2 DEF AlertInv, EngineTypes
  <2> QED BY <2>1, <2>3, EngineTurns
<1>2. CASE FetchSnapshot
  <2>1. reload' \in {[reload EXCEPT !.at = "seeded", !.seed = IF DOMAIN reload.rows = {} THEN Unseen ELSE level],
                     [reload EXCEPT !.at = "seeded"]}
        /\ UNCHANGED <<alertRow, level, ticks, index, lastLevel, cmd, due, notified>>
    BY <1>2 DEF FetchSnapshot
  <2>2. reload'.rows = reload.rows /\ reload'.seed \in {reload.seed, Unseen, level}
    BY <1>2 DEF FetchSnapshot, AlertInv, EngineTypes
  <2>3. reload' = [at |-> reload'.at, rows |-> reload'.rows, seed |-> reload'.seed]
    BY <2>1 DEF AlertInv, EngineTypes
  <2>4. EngineTypes'
    BY <2>1, <2>2, <2>3 DEF AlertInv, EngineTypes, SeedLevels
  <2> QED BY <2>1, <2>4, EngineTurns
<1>3. CASE SendReconcile
  <2>1. /\ cmd' = <<[rows |-> reload.rows, seed |-> reload.seed]>> /\ reload' = NoReload
        /\ UNCHANGED <<alertRow, level, ticks, index, lastLevel, due, notified>>
    BY <1>3 DEF SendReconcile
  <2>2. /\ NoReload.seed \in SeedLevels /\ DOMAIN NoReload.rows = {}
        /\ NoReload = [at |-> NoReload.at, rows |-> NoReload.rows, seed |-> NoReload.seed]
    BY DEF NoReload, SeedLevels
  <2>3. EngineTypes'
    BY <2>1, <2>2 DEF AlertInv, EngineTypes
  <2> QED BY <2>1, <2>3, EngineTurns
<1>4. CASE RestartEngine
  <2>1. /\ ticks' = <<>> /\ index' = [a \in Alerts |-> "none"] /\ lastLevel' = Unseen
        /\ reload' = NoReload /\ cmd' = <<>> /\ due' = {} /\ UNCHANGED <<alertRow, level, notified>>
    BY <1>4 DEF RestartEngine
  <2>2. /\ NoReload.seed \in SeedLevels /\ DOMAIN NoReload.rows = {}
        /\ NoReload = [at |-> NoReload.at, rows |-> NoReload.rows, seed |-> NoReload.seed]
    BY DEF NoReload, SeedLevels
  <2>3. EngineTypes'
    BY <2>1, <2>2, AlertAssumption DEF AlertInv, EngineTypes, SeedLevels
  <2> QED BY <2>1, <2>3, EngineTurns
<1> QED BY <1>1, <1>2, <1>3, <1>4

LEMMA AlertNextInv ==
  AlertInv /\ [AlertNext]_alertVars
    => AlertInv' /\ \A a \in Alerts : notified'[a] # notified[a] => notified[a] = 0
<1> SUFFICES ASSUME AlertInv, [AlertNext]_alertVars
             PROVE  AlertInv' /\ \A a \in Alerts : notified'[a] # notified[a] => notified[a] = 0
  OBVIOUS
<1>1. CASE UNCHANGED alertVars
  <2>1. UNCHANGED <<alertRow, level, ticks, index, lastLevel, reload, cmd, due, notified>>
    BY <1>1 DEF alertVars, alertState
  <2>2. EngineTypes'
    BY <2>1 DEF AlertInv, EngineTypes
  <2> QED BY <2>1, <2>2, EngineTurns
<1>2. CASE AlertNext
  BY <1>2, RowsChange, OnTickInv, OnTickEvalInv, ApplyReconcileInv, FireDueInv, ReloadInv DEF AlertNext
<1> QED BY <1>1, <1>2

\* The rows and the engine's copy of them keep their types: an alert on its way to the
\* database is disarmed in the engine.
THEOREM AlertTypeCorrect == AlertSpec => []AlertTypeOK
<1>1. ASSUME AlertInv PROVE AlertTypeOK
  <2>1. Len(cmd) <= 1
    <3> DEFINE n == Len(cmd)
    <3>1. n \in 0 .. 1
      BY <1>1 DEF AlertInv, EngineTypes
    <3> HIDE DEF n
    <3>2. n <= 1
      BY <3>1
    <3> QED BY <3>2 DEF n
  <2>2. alertRow \in [Alerts -> [there : BOOLEAN, armed : BOOLEAN, active : BOOLEAN, began : BOOLEAN]]
    BY <1>1 DEF AlertInv, AlertRows, RowType
  <2>3. notified \in [Alerts -> 0 .. 2]
    BY <1>1 DEF AlertInv, AlertRows
  <2> QED BY <1>1, <2>1, <2>2, <2>3 DEF AlertInv, EngineTypes, AlertTypeOK, SeedLevels
<1> QED BY <1>1, AlertInitInv, AlertNextInv, PTL DEF AlertSpec

\* Each cross is told once: an alert is disarmed only with the notification that goes with
\* it, and told again only after a pullback, for any alerts, ticks, snapshots, failures and
\* restarts (PostgresAlertRepository.Fire).
THEOREM CrossesAreToldOnce == AlertSpec => CrossIsToldOnce
<1>1. AlertInv => DisarmedWasNotified
  BY DEF AlertInv, AlertRows, DisarmedWasNotified
<1>2. AlertInv /\ [AlertNext]_alertVars
        => [\A a \in Alerts : notified'[a] # notified[a] => notified[a] = 0 \/ a \in retreated]_alertVars
  BY AlertNextInv
<1> QED BY <1>1, <1>2, AlertInitInv, AlertNextInv, PTL DEF AlertSpec, CrossIsToldOnce, NoRepeatWithoutPullback
-----------------------------------------------------------------------------
(* Daily bars. *)

\* A non-empty set of sessions has a last one.
LEMMA LastSession ==
  ASSUME NEW n \in Nat, NEW S \in SUBSET (1 .. n), S # {}
  PROVE  \E m \in S : \A d \in S : d <= m
<1> DEFINE T == {n - d : d \in S}
<1>1. T \in SUBSET Nat /\ T # {}
  <2>1. \A d \in S : n - d \in Nat
    OBVIOUS
  <2>2. PICK d \in S : TRUE
    OBVIOUS
  <2>3. n - d \in T
    BY <2>2
  <2> QED BY <2>1, <2>3
<1>2. PICK t \in T : \A u \in T : t <= u
  <2> HIDE DEF T
  <2> QED BY <1>1, LeastNat
<1>3. PICK m \in S : t = n - m
  BY <1>2
<1>4. ASSUME NEW d \in S PROVE d <= m
  <2>1. n - m <= n - d
    BY <1>2, <1>3
  <2>2. d \in Nat /\ m \in Nat
    BY <1>3
  <2> HIDE DEF T
  <2> QED BY <2>1, <2>2
<1> QED BY <1>3, <1>4

\* What is listed ends with a session that is stored.
Listed(bars) == bars = <<>> \/ (Last(bars) \in Sessions /\ stored[Last(bars)] # "none")

\* What the vendor served, still to be written: every session since one that is stored, those
\* that are over as they ended.
Served(batch) ==
  \E from \in 1 .. market.today :
    /\ from = 1 \/ (from \in Sessions /\ stored[from] # "none")
    /\ \A b \in batch : b[1] \in from .. market.today /\ b[2] \in {"partial", "final"} /\ (b[1] < market.today => b[2] = "final")
    /\ \A d \in from .. market.today : \E b \in batch : b[1] = d

MarketTypes ==
  /\ market = [worth |-> market.worth, actions |-> market.actions, limit |-> market.limit, mode |-> market.mode,
               listed |-> market.listed, faults |-> market.faults, runs |-> market.runs, today |-> market.today,
               open |-> market.open]
  /\ market.worth \in Seq(Nat \ {0}) /\ market.today \in Nat \ {0} /\ market.open \in BOOLEAN

ChartInv(x) ==
  /\ x = [at |-> x.at, bars |-> x.bars, batch |-> x.batch]
  /\ x.at \in {"idle", "listed", "asking", "fetched", "filled", "settled"}
  /\ x.at \in {"listed", "asking"} => Listed(x.bars)
  /\ x.at = "fetched" => Served(x.batch)

CommandInv(k, x) ==
  /\ x.at \in {"idle", "fetched"}
  /\ x.at = "fetched" => IF k = "bars" THEN Served(x.batch) ELSE x.batch \subseteq market.actions

StoredInv ==
  /\ stored \in [Sessions -> {"none", "partial", "final"}] /\ SeriesIsSettled
  /\ \A e \in Sessions : stored[e] # "none" => e <= market.today

PriceInv ==
  /\ MarketTypes /\ StoredInv /\ actionLog \subseteq market.actions
  /\ fetchedAt = [recent |-> fetchedAt.recent, asked |-> fetchedAt.asked] /\ fetchedAt.recent \in BOOLEAN
  /\ fetchedAt.asked \in 0 .. 1 /\ (~fetchedAt.recent => fetchedAt.asked = 0)
  /\ chart = [g \in Charts |-> chart[g]] /\ \A g \in Charts : ChartInv(chart[g])
  /\ command = [k \in {"bars", "actions"} |-> command[k]] /\ \A k \in {"bars", "actions"} : CommandInv(k, command[k])

\* A list of bars ends with the newest.
LEMMA ListEnds == ASSUME MarketTypes PROVE Listed(ListBars)
<1> DEFINE rows_ == {d \in Sessions : stored[d] # "none"}
           newest == {d \in rows_ : Cardinality({e \in rows_ : e > d}) < market.limit}
           n == Cardinality(newest)
           At(k) == CHOOSE d \in newest : Cardinality({e \in newest : e <= d}) = k
<1>1. ListBars = [k \in 1 .. n |-> At(k)]
  BY DEF ListBars
<1>2. newest \subseteq rows_ /\ rows_ \subseteq Sessions
  OBVIOUS
<1>3. Len(market.worth) \in Nat
  BY DEF MarketTypes
<1>4. IsFiniteSet(newest) /\ n \in Nat
  <2>1. IsFiniteSet(Sessions)
    BY <1>3, FS_Interval DEF Sessions
  <2> QED BY <1>2, <2>1, FS_Subset, FS_CardinalityType
<1>5. ListBars \in Seq({At(k) : k \in 1 .. n}) /\ Len(ListBars) = n
  <2> HIDE DEF At, n
  <2> QED BY <1>1, <1>4
<1>6. CASE n = 0
  BY <1>5, <1>6 DEF Listed
<1>7. CASE n # 0
  <2>1. newest # {}
    BY <1>7, FS_EmptySet
  <2>2. PICK m \in newest : \A d \in newest : d <= m
    <3> HIDE DEF newest
    <3> QED BY <1>2, <1>3, <2>1, LastSession DEF Sessions
  <2>3. {e \in newest : e <= m} = newest
    BY <2>2
  <2>4. At(n) \in newest
    BY <2>3
  <2>5. Last(ListBars) = At(n)
    <3> HIDE DEF At, n
    <3> QED BY <1>1, <1>4, <1>5, <1>7 DEF Last
  <2> QED BY <1>2, <2>4, <2>5 DEF Listed
<1> QED BY <1>6, <1>7

\* What is written is settled up to the newest, and nothing that was stored is gone.
LEMMA UpsertKeeps ==
  ASSUME PriceInv, NEW batch, Served(batch), stored' = UpsertBars(batch), market'.worth = market.worth, market'.today = market.today
  PROVE  StoredInv' /\ \A d \in Sessions : stored[d] # "none" => stored'[d] # "none"
<1> DEFINE Of(d) == {b \in batch : b[1] = d}
           put(d) == market.listed /\ Of(d) # {}
           value(d) == (CHOOSE b \in batch : b[1] = d)[2]
<1>1. stored' = [d \in Sessions |-> IF put(d) THEN value(d) ELSE stored[d]]
  BY DEF UpsertBars
<1>2. PICK from \in 1 .. market.today :
        /\ from = 1 \/ (from \in Sessions /\ stored[from] # "none")
        /\ \A b \in batch : b[1] \in from .. market.today /\ b[2] \in {"partial", "final"} /\ (b[1] < market.today => b[2] = "final")
        /\ \A d \in from .. market.today : \E b \in batch : b[1] = d
  BY DEF Served
<1>3. ASSUME NEW d \in Sessions, put(d)
      PROVE  value(d) \in {"partial", "final"} /\ d \in from .. market.today /\ (d < market.today => value(d) = "final")
  <2>1. PICK b \in batch : b[1] = d /\ value(d) = b[2]
    BY <1>3
  <2> QED BY <1>2, <2>1
<1>4. \A d \in Sessions : market.listed /\ d \in from .. market.today => put(d)
  BY <1>2
<1>5. stored \in [Sessions -> {"none", "partial", "final"}] /\ market.today \in Nat /\ Sessions' = Sessions
      /\ \A d \in Sessions : d \in Nat \ {0} /\ (stored[d] # "none" => d <= market.today)
  BY DEF PriceInv, StoredInv, MarketTypes, Sessions
<1>6. \A d, e \in Sessions : d < e /\ stored[e] # "none" => stored[d] = "final"
  BY DEF PriceInv, StoredInv, SeriesIsSettled
<1> HIDE DEF put, value
<1>7. stored' \in [Sessions -> {"none", "partial", "final"}]
  BY <1>1, <1>3, <1>5
<1>8. \A d \in Sessions : (stored[d] # "none" => stored'[d] # "none") /\ (stored'[d] # "none" => d <= market.today)
  BY <1>1, <1>3, <1>5
<1>9. ASSUME NEW d \in Sessions, NEW e \in Sessions, d < e, stored'[e] # "none" PROVE stored'[d] = "final"
  <2>1. d < market.today /\ e <= market.today /\ d \in Nat \ {0}
    BY <1>5, <1>8, <1>9
  <2>2. CASE put(d)
    BY <1>1, <1>3, <2>1, <2>2
  <2>3. CASE ~put(d)
    <3>1. stored'[d] = stored[d]
      BY <1>1, <2>3
    <3>2. CASE put(e)
      <4>1. market.listed
        BY <3>2 DEF put
      <4>2. d \notin from .. market.today
        BY <1>4, <2>3, <4>1
      <4>3. d < from
        BY <1>2, <1>5, <2>1, <4>2
      <4>4. from \in Sessions /\ stored[from] # "none"
        BY <1>2, <2>1, <4>3
      <4> QED BY <1>6, <3>1, <4>3, <4>4
    <3>3. CASE ~put(e)
      BY <1>1, <1>6, <1>9, <3>1, <3>3
    <3> QED BY <3>2, <3>3
  <2> QED BY <2>2, <2>3
<1> QED BY <1>5, <1>7, <1>8, <1>9 DEF StoredInv, SeriesIsSettled

LEMMA PriceInitInv == ASSUME PriceInit PROVE PriceInv
<1>1. PICK c \in PriceCases :
        market = [worth |-> c.worth, actions |-> c.actions, limit |-> c.limit, mode |-> c.mode,
                  listed |-> c.listed, faults |-> c.faults, runs |-> c.runs, today |-> 1, open |-> TRUE]
  BY DEF PriceInit
<1>2. c.worth \in Seq(Nat \ {0})
  BY PriceAssumption
<1>3. MarketTypes
  BY <1>1, <1>2 DEF MarketTypes
<1>4. StoredInv
  BY DEF PriceInit, StoredInv, SeriesIsSettled
<1>5. /\ chart = [g \in Charts |-> chart[g]] /\ \A g \in Charts : ChartInv(chart[g])
      /\ command = [k \in {"bars", "actions"} |-> command[k]] /\ \A k \in {"bars", "actions"} : CommandInv(k, command[k])
  BY DEF PriceInit, ChartInv, CommandInv, Idle
<1>6. actionLog \subseteq market.actions /\ fetchedAt = [recent |-> FALSE, asked |-> 0]
  BY DEF PriceInit
<1> QED BY <1>3, <1>4, <1>5, <1>6 DEF PriceInv

\* What is said of a read and of a command outlives a step that writes no bar away.
LEMMA ServedLasts ==
  ASSUME NEW batch, Served(batch), market'.today = market.today, market'.worth = market.worth,
         \A d \in Sessions : stored[d] # "none" => stored'[d] # "none"
  PROVE  Served(batch)'
<1>1. Sessions' = Sessions
  BY DEF Sessions
<1> QED BY <1>1 DEF Served

\* The bounds on failures and runs are all that a step under way changes of the market.
SameMarket ==
  /\ MarketTypes' /\ market'.worth = market.worth /\ market'.today = market.today
  /\ market'.actions = market.actions /\ market'.listed = market.listed

LEMMA BoundsUsed ==
  ASSUME MarketTypes, (\E fails \in BOOLEAN : Faulty(fails)) \/ market' = [market EXCEPT !.runs = @ - 1] \/ UNCHANGED market
  PROVE  SameMarket
BY DEF MarketTypes, SameMarket, Faulty

\* So does what is said of reads and commands.
LEMMA ReadsLast ==
  ASSUME PriceInv, SameMarket, \A d \in Sessions : stored[d] # "none" => stored'[d] # "none"
  PROVE  /\ \A g \in Charts : ChartInv(chart[g])' \/ chart'[g] # chart[g]
         /\ \A k \in {"bars", "actions"} : CommandInv(k, command[k])' \/ command'[k] # command[k]
<1>1. Sessions' = Sessions
  BY DEF SameMarket, Sessions
<1>2. ASSUME NEW g \in Charts, chart'[g] = chart[g] PROVE ChartInv(chart[g])'
  <2>1. PICK x : x = chart[g]
    OBVIOUS
  <2>2. ChartInv(x)
    BY <2>1 DEF PriceInv
  <2>3. x.at = "fetched" => Served(x.batch)'
    <3>1. PICK y : y = x.batch
      OBVIOUS
    <3>2. Served(y) => Served(y)'
      BY ServedLasts DEF SameMarket
    <3> QED BY <2>2, <3>1, <3>2 DEF ChartInv
  <2>4. x.at \in {"listed", "asking"} => Listed(x.bars)'
    BY <1>1, <2>2 DEF ChartInv, Listed
  <2> QED BY <1>2, <2>1, <2>2, <2>3, <2>4 DEF ChartInv
<1>3. ASSUME NEW k \in {"bars", "actions"}, command'[k] = command[k] PROVE CommandInv(k, command[k])'
  <2>1. PICK x : x = command[k]
    OBVIOUS
  <2>2. CommandInv(k, x)
    BY <2>1 DEF PriceInv
  <2>3. PICK y : y = x.batch
    OBVIOUS
  <2>4. Served(y) => Served(y)'
    BY ServedLasts DEF SameMarket
  <2> QED BY <1>3, <2>1, <2>2, <2>3, <2>4 DEF CommandInv, SameMarket
<1> QED BY <1>2, <1>3

\* A step that changes a read.
LEMMA ReadMoves ==
  ASSUME PriceInv, SameMarket, \A d \in Sessions : stored[d] # "none" => stored'[d] # "none",
         NEW g \in Charts, NEW to, Goes(g, to), ChartInv(to)', UNCHANGED command
  PROVE  /\ chart' = [h \in Charts |-> chart'[h]] /\ \A h \in Charts : ChartInv(chart[h])'
         /\ command' = [k \in {"bars", "actions"} |-> command'[k]] /\ \A k \in {"bars", "actions"} : CommandInv(k, command[k])'
<1>1. chart = [h \in Charts |-> chart[h]] /\ command = [k \in {"bars", "actions"} |-> command[k]]
  BY DEF PriceInv
<1>2. chart' = [h \in Charts |-> IF h = g THEN to ELSE chart[h]]
  BY <1>1 DEF Goes
<1>3. \A h \in Charts : ChartInv(chart[h])'
  <2>1. ASSUME NEW h \in Charts PROVE ChartInv(chart[h])'
    <3>1. CASE h = g
      <4>1. chart'[h] = to
        BY <1>2, <3>1
      <4> QED BY <4>1 DEF ChartInv, Listed, Served
    <3>2. CASE h # g
      <4>1. chart'[h] = chart[h]
        BY <1>2, <3>2
      <4> QED BY <4>1, ReadsLast
    <3> QED BY <3>1, <3>2
  <2> QED BY <2>1
<1>4. \A k \in {"bars", "actions"} : CommandInv(k, command[k])'
  BY ReadsLast
<1> QED BY <1>1, <1>2, <1>3, <1>4

\* A step that changes a command.
LEMMA CommandMoves ==
  ASSUME PriceInv, SameMarket, \A d \in Sessions : stored[d] # "none" => stored'[d] # "none",
         NEW k \in {"bars", "actions"}, NEW to, command' = [command EXCEPT ![k] = to], CommandInv(k, to)', UNCHANGED chart
  PROVE  /\ chart' = [h \in Charts |-> chart'[h]] /\ \A h \in Charts : ChartInv(chart[h])'
         /\ command' = [j \in {"bars", "actions"} |-> command'[j]] /\ \A j \in {"bars", "actions"} : CommandInv(j, command[j])'
<1>1. chart = [h \in Charts |-> chart[h]] /\ command = [j \in {"bars", "actions"} |-> command[j]]
  BY DEF PriceInv
<1>2. command' = [j \in {"bars", "actions"} |-> IF j = k THEN to ELSE command[j]]
  BY <1>1
<1>3. \A j \in {"bars", "actions"} : CommandInv(j, command[j])'
  <2>1. ASSUME NEW j \in {"bars", "actions"} PROVE CommandInv(j, command[j])'
    <3>1. CASE j = k
      <4>1. command'[j] = to
        BY <1>2, <3>1
      <4> QED BY <3>1, <4>1 DEF CommandInv, Served
    <3>2. CASE j # k
      <4>1. command'[j] = command[j]
        BY <1>2, <3>2
      <4> QED BY <4>1, ReadsLast
    <3> QED BY <3>1, <3>2
  <2> QED BY <2>1
<1>4. \A h \in Charts : ChartInv(chart[h])'
  BY ReadsLast
<1> QED BY <1>1, <1>2, <1>3, <1>4

LEMMA StoredKept ==
  ASSUME PriceInv, SameMarket, UNCHANGED stored
  PROVE  StoredInv' /\ \A d \in Sessions : stored[d] # "none" => stored'[d] # "none"
<1>1. Sessions' = Sessions
  BY DEF SameMarket, Sessions
<1> QED BY <1>1 DEF PriceInv, StoredInv, SeriesIsSettled, SameMarket

\* What the vendor serves since a session that is stored.
LEMMA VendorServes ==
  ASSUME MarketTypes, NEW from \in 1 .. market.today, from = 1 \/ (from \in Sessions /\ stored[from] # "none")
  PROVE  Served(GetBars(from))
<1>1. \A b \in GetBars(from) :
        b[1] \in from .. market.today /\ b[2] \in {"partial", "final"} /\ (b[1] < market.today => b[2] = "final")
  BY DEF GetBars, MarketTypes
<1>2. ASSUME NEW d \in from .. market.today PROVE \E b \in GetBars(from) : b[1] = d
  <2> DEFINE b == <<d, IF d = market.today /\ market.open THEN "partial" ELSE "final">>
  <2>1. b \in GetBars(from)
    BY DEF GetBars
  <2> QED BY <2>1
<1> QED BY <1>1, <1>2 DEF Served

\* What a step must still show, once the reads and commands are settled.
PriceRest ==
  /\ MarketTypes /\ StoredInv /\ actionLog \subseteq market.actions
  /\ fetchedAt = [recent |-> fetchedAt.recent, asked |-> fetchedAt.asked] /\ fetchedAt.recent \in BOOLEAN
  /\ fetchedAt.asked \in 0 .. 1 /\ (~fetchedAt.recent => fetchedAt.asked = 0)

LEMMA RestKept == ASSUME PriceInv, SameMarket, UNCHANGED <<stored, actionLog, fetchedAt>> PROVE PriceRest'
BY StoredKept DEF PriceInv, PriceRest, SameMarket

LEMMA TickKeeps == ASSUME PriceInv, Tick PROVE PriceInv'
<1>1. MarketTypes' /\ market'.worth = market.worth /\ market'.actions = market.actions /\ market'.today >= market.today
  <2>1. MarketTypes
    BY DEF PriceInv
  <2>2. PICK n, o : market' = [market EXCEPT !.open = o, !.today = n] /\ n \in Nat \ {0} /\ n >= market.today /\ o \in BOOLEAN
    <3>1. CASE market.open
      <4>1. market' = [market EXCEPT !.open = FALSE, !.today = market.today]
        BY <2>1, <3>1 DEF MarketTypes, Tick
      <4>2. market.today \in Nat \ {0} /\ market.today >= market.today
        BY <2>1 DEF MarketTypes
      <4> QED BY <4>1, <4>2
    <3>2. CASE ~market.open
      <4>1. market' = [market EXCEPT !.open = TRUE, !.today = market.today + 1]
        BY <3>2 DEF Tick
      <4>2. market.today + 1 \in Nat \ {0} /\ market.today + 1 >= market.today
        BY <2>1 DEF MarketTypes
      <4> QED BY <4>1, <4>2
    <3> QED BY <3>1, <3>2
  <2> QED BY <2>1, <2>2 DEF MarketTypes
<1>2. Sessions' = Sessions
  BY <1>1 DEF Sessions
<1>3. StoredInv'
  <2>1. \A e \in Sessions : e <= market.today => e <= market'.today
    BY <1>1 DEF PriceInv, MarketTypes, Sessions
  <2> QED BY <1>2, <2>1 DEF PriceInv, StoredInv, SeriesIsSettled, Tick
<1>4. CASE market.open
  <2>1. SameMarket
    BY <1>1, <1>4 DEF SameMarket, Tick, PriceInv, MarketTypes
  <2>2. (\A g \in Charts : ChartInv(chart[g])') /\ \A k \in {"bars", "actions"} : CommandInv(k, command[k])'
    BY <2>1, StoredKept, ReadsLast DEF Tick
  <2> QED BY <1>1, <1>3, <2>2 DEF PriceInv, Tick
<1>5. CASE ~market.open
  <2>1. ASSUME NEW g \in Charts PROVE ChartInv(chart[g])'
    <3>1. ChartInv(chart[g]) /\ chart[g].at # "fetched"
      BY <1>5 DEF PriceInv, Tick
    <3> QED BY <1>2, <3>1 DEF ChartInv, Listed, Tick
  <2>2. ASSUME NEW k \in {"bars", "actions"} PROVE CommandInv(k, command[k])'
    <3>1. CommandInv(k, command[k]) /\ DOMAIN command = {"bars", "actions"}
      BY DEF PriceInv
    <3>2. command[k].at # "fetched"
      BY <1>5, <3>1 DEF Tick
    <3> QED BY <3>1, <3>2 DEF CommandInv, Tick
  <2> QED BY <1>1, <1>3, <2>1, <2>2 DEF PriceInv, Tick
<1> QED BY <1>4, <1>5

LEMMA IntervalKeeps == ASSUME PriceInv, IntervalPasses PROVE PriceInv'
<1>1. SameMarket /\ UNCHANGED stored
  BY DEF PriceInv, SameMarket, MarketTypes, IntervalPasses
<1>2. (\A g \in Charts : ChartInv(chart[g])') /\ \A k \in {"bars", "actions"} : CommandInv(k, command[k])'
  BY <1>1, StoredKept, ReadsLast DEF IntervalPasses
<1> QED BY <1>1, <1>2, StoredKept DEF PriceInv, IntervalPasses, SameMarket

LEMMA ListKeeps == ASSUME PriceInv, NEW g \in Charts, GetAdjusted(g) \/ ListAgain(g) PROVE PriceInv'
<1>1. SameMarket /\ UNCHANGED <<stored, actionLog, fetchedAt, command>>
  BY DEF PriceInv, SameMarket, MarketTypes, GetAdjusted, ListAgain
<1>2. PICK b : b = ListBars
  OBVIOUS
<1>3. Listed(b)'
  <2>1. Listed(b)
    BY <1>2, ListEnds DEF PriceInv
  <2> QED BY <1>1, <2>1 DEF Listed, Sessions, SameMarket
<1>4. PICK to : to = [at |-> IF GetAdjusted(g) THEN "listed" ELSE "settled", bars |-> b, batch |-> {}]
  OBVIOUS
<1>5. Goes(g, to)
  BY <1>2, <1>4 DEF GetAdjusted, ListAgain
<1>6. ChartInv(to)'
  BY <1>3, <1>4 DEF ChartInv
<1>7. PriceRest'
  BY <1>1, RestKept
<1> QED BY <1>1, <1>5, <1>6, <1>7, StoredKept, ReadMoves DEF PriceInv, PriceRest

LEMMA DecideKeeps == ASSUME PriceInv, NEW g \in Charts, DecideToFetch(g) PROVE PriceInv'
<1>1. SameMarket /\ UNCHANGED <<stored, actionLog, command>>
  BY DEF PriceInv, SameMarket, MarketTypes, DecideToFetch
<1>2. PICK x : x = chart[g]
  OBVIOUS
<1>3. ChartInv(x) /\ x.at = "listed"
  BY <1>2 DEF PriceInv, DecideToFetch
<1>4. PICK to : to = [x EXCEPT !.at = IF ShouldFetch(x.bars) THEN "asking" ELSE "settled"]
  OBVIOUS
<1>5. Goes(g, to)
  BY <1>2, <1>4 DEF DecideToFetch
<1>6. Listed(x.bars)'
  BY <1>1, <1>3 DEF ChartInv, Listed, Sessions, SameMarket
<1>7. ChartInv(to)'
  BY <1>3, <1>4, <1>6 DEF ChartInv
<1>8. PriceRest'
  <2>1. CASE ShouldFetch(x.bars)
    <3>1. ~fetchedAt.recent /\ fetchedAt' = [recent |-> TRUE, asked |-> fetchedAt.asked + 1]
      BY <1>2, <2>1 DEF DecideToFetch, ShouldFetch
    <3>2. fetchedAt' = [recent |-> TRUE, asked |-> 1]
      <4>1. fetchedAt.asked = 0
        BY <3>1 DEF PriceInv
      <4> QED BY <3>1, <4>1
    <3>3. StoredInv' /\ MarketTypes' /\ actionLog' \subseteq market'.actions
      BY <1>1, StoredKept DEF PriceInv, SameMarket
    <3> QED BY <3>2, <3>3 DEF PriceRest
  <2>2. CASE ~ShouldFetch(x.bars)
    BY <1>1, <1>2, <2>2, RestKept DEF DecideToFetch
  <2> QED BY <2>1, <2>2
<1> QED BY <1>1, <1>5, <1>7, <1>8, StoredKept, ReadMoves DEF PriceInv, PriceRest

LEMMA FillFetchesKeeps == ASSUME PriceInv, NEW g \in Charts, FillFetches(g) PROVE PriceInv'
<1>1. SameMarket /\ UNCHANGED <<stored, actionLog, fetchedAt, command>>
  BY BoundsUsed DEF PriceInv, FillFetches
<1>2. PICK fails \in BOOLEAN :
        LET batch == IF fails THEN {} ELSE GetBars(GapAfter(chart[g].bars)) IN
        Goes(g, [chart[g] EXCEPT !.at = IF batch = {} THEN "settled" ELSE "fetched", !.batch = batch])
  BY DEF FillFetches
<1>3. PICK x, batch : x = chart[g] /\ batch = IF fails THEN {} ELSE GetBars(GapAfter(chart[g].bars))
  OBVIOUS
<1>4. PICK to : to = [x EXCEPT !.at = IF batch = {} THEN "settled" ELSE "fetched", !.batch = batch]
  OBVIOUS
<1>5. ChartInv(x) /\ x.at = "asking"
  BY <1>3 DEF PriceInv, FillFetches
<1>6. Goes(g, to)
  BY <1>2, <1>3, <1>4
<1>7. ~fails => Served(batch)'
  <2>1. GapAfter(x.bars) \in 1 .. market.today
        /\ (GapAfter(x.bars) = 1 \/ (GapAfter(x.bars) \in Sessions /\ stored[GapAfter(x.bars)] # "none"))
    BY <1>5 DEF ChartInv, Listed, GapAfter, PriceInv, StoredInv, MarketTypes, Sessions
  <2>2. ~fails => Served(batch)
    BY <1>3, <2>1, VendorServes DEF PriceInv
  <2> QED BY <1>1, <2>2, ServedLasts DEF SameMarket
<1>8. ChartInv(to)'
  BY <1>3, <1>4, <1>5, <1>7 DEF ChartInv
<1>9. PriceRest'
  BY <1>1, RestKept
<1> QED BY <1>1, <1>6, <1>8, <1>9, StoredKept, ReadMoves DEF PriceInv, PriceRest

LEMMA FillWritesKeeps == ASSUME PriceInv, NEW g \in Charts, FillWrites(g) PROVE PriceInv'
<1>1. SameMarket /\ UNCHANGED <<actionLog, fetchedAt, command>>
  BY BoundsUsed DEF PriceInv, FillWrites
<1>2. PICK fails \in BOOLEAN :
        /\ stored' = IF fails THEN stored ELSE UpsertBars(chart[g].batch)
        /\ Goes(g, [chart[g] EXCEPT !.at = IF fails \/ ~market.listed THEN "settled" ELSE "filled", !.batch = {}])
  BY DEF FillWrites
<1>3. PICK x : x = chart[g]
  OBVIOUS
<1>4. PICK to : to = [x EXCEPT !.at = IF fails \/ ~market.listed THEN "settled" ELSE "filled", !.batch = {}]
  OBVIOUS
<1>5. ChartInv(x) /\ Served(x.batch)
  BY <1>3 DEF PriceInv, ChartInv, FillWrites
<1>6. StoredInv' /\ \A d \in Sessions : stored[d] # "none" => stored'[d] # "none"
  <2>1. CASE fails
    BY <1>1, <1>2, <2>1, StoredKept
  <2>2. CASE ~fails
    BY <1>1, <1>2, <1>3, <1>5, <2>2, UpsertKeeps DEF SameMarket
  <2> QED BY <2>1, <2>2
<1>7. Goes(g, to) /\ ChartInv(to)'
  BY <1>2, <1>3, <1>4, <1>5 DEF ChartInv
<1>8. PriceRest'
  BY <1>1, <1>6 DEF PriceInv, PriceRest, SameMarket
<1> QED BY <1>1, <1>6, <1>7, <1>8, ReadMoves DEF PriceInv, PriceRest

LEMMA DrawKeeps == ASSUME PriceInv, NEW g \in Charts, Draw(g) PROVE PriceInv'
<1>1. SameMarket /\ UNCHANGED <<stored, actionLog, fetchedAt, command>>
  BY BoundsUsed DEF PriceInv, Draw
<1>2. Goes(g, Idle) /\ ChartInv(Idle)'
  BY DEF Draw, ChartInv, Idle
<1>3. PriceRest'
  BY <1>1, RestKept
<1> QED BY <1>1, <1>2, <1>3, StoredKept, ReadMoves DEF PriceInv, PriceRest

LEMMA BackfillFetchesKeeps == ASSUME PriceInv, NEW k \in {"bars", "actions"}, BackfillFetches(k) PROVE PriceInv'
<1>1. SameMarket /\ UNCHANGED <<stored, actionLog, fetchedAt, chart>>
  BY BoundsUsed DEF PriceInv, BackfillFetches
<1>2. PICK to : to = [at |-> "fetched", bars |-> <<>>, batch |-> IF k = "bars" THEN GetBars(1) ELSE GetCorporateActions]
  OBVIOUS
<1>3. CommandInv(k, to)'
  <2>1. CASE k = "bars"
    <3>1. 1 \in 1 .. market.today
      BY DEF PriceInv, MarketTypes
    <3>2. PICK y : y = to.batch
      OBVIOUS
    <3>3. Served(y)'
      BY <1>1, <1>2, <2>1, <3>1, <3>2, VendorServes, ServedLasts DEF PriceInv, SameMarket
    <3> QED BY <1>2, <2>1, <3>2, <3>3 DEF CommandInv
  <2>2. CASE k = "actions"
    BY <1>1, <1>2, <2>2 DEF CommandInv, GetCorporateActions, SameMarket
  <2> QED BY <2>1, <2>2
<1>4. PriceRest'
  BY <1>1, RestKept
<1>5. command' = [command EXCEPT ![k] = to]
  BY <1>2 DEF BackfillFetches
<1> QED BY <1>1, <1>3, <1>4, <1>5, StoredKept, CommandMoves DEF PriceInv, PriceRest

LEMMA BackfillWritesKeeps == ASSUME PriceInv, BackfillBars \/ BackfillCorporateActions PROVE PriceInv'
<1>1. SameMarket /\ UNCHANGED <<fetchedAt, chart>>
  BY BoundsUsed DEF PriceInv, BackfillBars, BackfillCorporateActions
<1>2. CommandInv("bars", Idle)' /\ CommandInv("actions", Idle)'
  BY DEF CommandInv, Idle
<1>3. CASE BackfillBars
  <2>1. Served(command["bars"].batch)
    BY <1>3 DEF PriceInv, CommandInv, BackfillBars
  <2>2. StoredInv' /\ \A d \in Sessions : stored[d] # "none" => stored'[d] # "none"
    BY <1>1, <1>3, <2>1, UpsertKeeps DEF SameMarket, BackfillBars
  <2>3. PriceRest'
    BY <1>1, <1>3, <2>2 DEF PriceInv, PriceRest, SameMarket, BackfillBars
  <2>4. command' = [command EXCEPT !["bars"] = Idle]
    BY <1>3 DEF BackfillBars
  <2> QED BY <1>1, <1>2, <2>2, <2>3, <2>4, CommandMoves DEF PriceInv, PriceRest
<1>4. CASE BackfillCorporateActions
  <2>1. command["actions"].batch \subseteq market.actions /\ actionLog \subseteq market.actions
    BY <1>4 DEF PriceInv, CommandInv, BackfillCorporateActions
  <2>2. actionLog' \subseteq market.actions /\ UNCHANGED stored
    BY <1>4, <2>1 DEF BackfillCorporateActions, UpsertActions
  <2>3. PriceRest'
    BY <1>1, <2>2, StoredKept DEF PriceInv, PriceRest, SameMarket
  <2>4. command' = [command EXCEPT !["actions"] = Idle]
    BY <1>4 DEF BackfillCorporateActions
  <2> QED BY <1>1, <1>2, <2>2, <2>3, <2>4, StoredKept, CommandMoves DEF PriceInv, PriceRest
<1> QED BY <1>3, <1>4

LEMMA BackfillFailsKeeps == ASSUME PriceInv, NEW k \in {"bars", "actions"}, BackfillFails(k) PROVE PriceInv'
<1>1. SameMarket /\ UNCHANGED <<stored, actionLog, fetchedAt, chart>>
  BY BoundsUsed DEF PriceInv, BackfillFails
<1>2. CommandInv(k, Idle)' /\ command' = [command EXCEPT ![k] = Idle]
  BY DEF CommandInv, Idle, BackfillFails
<1>3. PriceRest'
  BY <1>1, RestKept
<1> QED BY <1>1, <1>2, <1>3, StoredKept, CommandMoves DEF PriceInv, PriceRest

LEMMA PriceStutters == ASSUME PriceInv, UNCHANGED priceVars PROVE PriceInv'
BY DEF PriceInv, priceVars, priceState, MarketTypes, StoredInv, SeriesIsSettled, ChartInv, CommandInv, Served, Listed, Sessions

LEMMA PriceInvariant == PriceSpec => []PriceInv
<1>1. PriceInit => PriceInv
  BY PriceInitInv
<1>2. PriceInv /\ [PriceNext]_priceVars => PriceInv'
  <2> SUFFICES ASSUME PriceInv, [PriceNext]_priceVars PROVE PriceInv'
    OBVIOUS
  <2>1. ASSUME NEW g \in Charts, GetAdjusted(g) \/ DecideToFetch(g) \/ FillFetches(g) \/ FillWrites(g) \/ ListAgain(g) \/ Draw(g)
        PROVE  PriceInv'
    BY <2>1, ListKeeps, DecideKeeps, FillFetchesKeeps, FillWritesKeeps, DrawKeeps
  <2>2. ASSUME NEW k \in {"bars", "actions"}, BackfillFetches(k) \/ BackfillFails(k) PROVE PriceInv'
    BY <2>2, BackfillFetchesKeeps, BackfillFailsKeeps
  <2> QED BY <2>1, <2>2, TickKeeps, IntervalKeeps, BackfillWritesKeeps, PriceStutters DEF PriceNext
<1> QED BY <1>1, <1>2, PTL DEF PriceSpec

\* The bars are those of sessions, the log holds what the vendor knows, and the vendor is
\* asked at most once in an interval, whatever reads overlap (mdbars/service.go).
THEOREM PriceTypeCorrect == PriceSpec => []PriceTypeOK
<1>1. PriceInv => PriceTypeOK
  BY DEF PriceInv, StoredInv, ChartInv, CommandInv, PriceTypeOK
<1> QED BY <1>1, PriceInvariant, PTL

\* Reads that fill gaps and the backfill leave no hole between two stored sessions, and no
\* bar taken while its session traded under a newer one, where no read would replace it.
THEOREM SeriesSettles == PriceSpec => []SeriesIsSettled
<1>1. PriceInv => SeriesIsSettled
  BY DEF PriceInv, StoredInv
<1> QED BY <1>1, PriceInvariant, PTL

-----------------------------------------------------------------------------
(* The components side by side. *)

\* A behaviour of the composition is a behaviour of each component.
LEMMA LiveComposes ==
  LiveSpec => Spec /\ RealtimeSpec /\ StreamSpec /\ CopilotSpec /\ AlertSpec /\ HubSpec /\ PriceSpec
<1>1. LiveInit => Init /\ RealtimeInit /\ StreamInit /\ CopilotInit /\ AlertInit /\ HubInit /\ PriceInit
  BY DEF LiveInit
<1> DEFINE all == <<part, vars, realtimeVars, streamVars, copilotVars, alertVars, hubVars, priceVars>>
<1>2. [LiveNext]_all => [Next]_vars /\ [RealtimeNext]_realtimeVars /\ [StreamNext]_streamVars /\ [CopilotNext]_copilotVars
                        /\ [AlertNext]_alertVars /\ [HubNext]_hubVars /\ [PriceNext]_priceVars
  BY DEF LiveNext
<1> QED BY <1>1, <1>2, PTL DEF LiveSpec, Spec, RealtimeSpec, StreamSpec, CopilotSpec, AlertSpec, HubSpec, PriceSpec

\* The types the run checks, of every component of the live side at once.
THEOREM LiveTypeCorrect == LiveSpec => []LiveTypeOK
<1>1. FeedTypeOK /\ RealtimeTypeOK /\ StreamTypeOK /\ CopilotTypeOK /\ AlertTypeOK /\ HubTypeOK /\ PriceTypeOK => LiveTypeOK
  BY DEF LiveTypeOK
<1> QED BY <1>1, LiveComposes, FeedTypeCorrect, RealtimeTypeCorrect, StreamTypeCorrect, CopilotTypeCorrect, AlertTypeCorrect,
           HubTypeCorrect, PriceTypeCorrect, PTL
=============================================================================
