-------------------------- MODULE EndDevice_proofs --------------------------
(***************************************************************************)
(* The class A end device, for any number of packets and attempts, any     *)
(* delays and any environment: its types, that no packet is reported       *)
(* twice, and, when copies carry the flag that makes the PHY transmit      *)
(* them, that the attempts counted and reported are those on the air.      *)
(***************************************************************************)
EXTENDS EndDevice, FiniteSetTheorems, SequenceTheorems, WellFoundedInduction, TLAPS

-----------------------------------------------------------------------------
(* Sequences into which an element is inserted, or from which one is taken.*)

\* The sequence new is s with e inserted at p.
Inserted(s, p, e, new) ==
  /\ DOMAIN new = 1 .. (Len(s) + 1)
  /\ new[p] = e
  /\ \A i \in 1 .. (p - 1) : new[i] = s[i]
  /\ \A i \in (p + 1) .. (Len(s) + 1) : new[i] = s[i - 1]

LEMMA InsertedAt ==
  ASSUME NEW S, NEW s \in Seq(S), NEW e \in S, NEW p \in 1 .. (Len(s) + 1)
  PROVE  InsertAt(s, p, e) \in Seq(S) /\ Inserted(s, p, e, InsertAt(s, p, e))
<1> DEFINE a == SubSeq(s, 1, p - 1)
           m == <<e>>
           b == SubSeq(s, p, Len(s))
<1>1. Len(s) \in Nat /\ DOMAIN s = 1 .. Len(s) /\ \A i \in 1 .. Len(s) : s[i] \in S
  BY LenProperties, ElementOfSeq
<1>2. a \in Seq(S) /\ Len(a) = p - 1 /\ \A i \in 1 .. (p - 1) : a[i] = s[i]
  <2>1. \A i \in 1 .. (p - 1) : s[i] \in S
    BY <1>1
  <2>2. 1 \in Int /\ p - 1 \in Int
    BY <1>1
  <2> QED
    BY <1>1, <2>1, <2>2, SubSeqProperties
<1>3. b \in Seq(S) /\ Len(b) = Len(s) - p + 1 /\ \A i \in 1 .. (Len(s) - p + 1) : b[i] = s[p + i - 1]
  <2>1. \A i \in p .. Len(s) : s[i] \in S
    BY <1>1
  <2>2. p \in Int /\ Len(s) \in Int
    BY <1>1
  <2> QED
    BY <1>1, <2>1, <2>2, SubSeqProperties
<1>4. m \in Seq(S) /\ Len(m) = 1 /\ m[1] = e
  OBVIOUS
<1> HIDE DEF a, m, b
<1>5. /\ a \o m \in Seq(S) /\ Len(a \o m) = p
      /\ \A i \in 1 .. p : (a \o m)[i] = IF i <= p - 1 THEN a[i] ELSE m[i - (p - 1)]
  <2>1. /\ a \o m \in Seq(S) /\ Len(a \o m) = Len(a) + Len(m)
        /\ \A i \in 1 .. Len(a) + Len(m) : (a \o m)[i] = IF i <= Len(a) THEN a[i] ELSE m[i - Len(a)]
    BY <1>2, <1>4, ConcatProperties
  <2>2. Len(a) + Len(m) = p
    BY <1>1, <1>2, <1>4
  <2> QED
    BY <1>2, <2>1, <2>2
<1>6. /\ (a \o m) \o b \in Seq(S) /\ Len((a \o m) \o b) = Len(s) + 1
      /\ \A i \in 1 .. (Len(s) + 1) : ((a \o m) \o b)[i] = IF i <= p THEN (a \o m)[i] ELSE b[i - p]
  <2>1. /\ (a \o m) \o b \in Seq(S) /\ Len((a \o m) \o b) = Len(a \o m) + Len(b)
        /\ \A i \in 1 .. Len(a \o m) + Len(b) :
             ((a \o m) \o b)[i] = IF i <= Len(a \o m) THEN (a \o m)[i] ELSE b[i - Len(a \o m)]
    BY <1>3, <1>5, ConcatProperties
  <2>2. Len(a \o m) + Len(b) = Len(s) + 1
    BY <1>1, <1>3, <1>5
  <2> QED
    BY <1>5, <2>1, <2>2
<1>7. InsertAt(s, p, e) = (a \o m) \o b
  BY DEF InsertAt, a, m, b
<1>8. DOMAIN InsertAt(s, p, e) = 1 .. (Len(s) + 1)
  BY <1>6, <1>7, LenProperties
<1>9. ((a \o m) \o b)[p] = e
  <2>1. p \in 1 .. p /\ p \in 1 .. (Len(s) + 1) /\ p - (p - 1) = 1 /\ p <= p /\ ~ (p <= p - 1)
    BY <1>1
  <2>2. ((a \o m) \o b)[p] = (a \o m)[p]
    BY <1>6, <2>1
  <2>3. (a \o m)[p] = m[p - (p - 1)]
    BY <1>5, <2>1
  <2> QED
    BY <1>4, <2>1, <2>2, <2>3
<1>10. \A i \in 1 .. (p - 1) : ((a \o m) \o b)[i] = s[i]
  <2> TAKE i \in 1 .. (p - 1)
  <2>1. i \in 1 .. p /\ i \in 1 .. (Len(s) + 1) /\ i <= p
    BY <1>1
  <2> QED
    BY <1>1, <1>2, <1>5, <1>6, <2>1
<1>11. \A i \in (p + 1) .. (Len(s) + 1) : ((a \o m) \o b)[i] = s[i - 1]
  <2> TAKE i \in (p + 1) .. (Len(s) + 1)
  <2>1. i - p \in 1 .. (Len(s) - p + 1) /\ i \in 1 .. (Len(s) + 1) /\ ~ (i <= p) /\ p + (i - p) - 1 = i - 1
    BY <1>1
  <2> QED
    BY <1>1, <1>3, <1>6, <2>1
<1> QED
  BY <1>6, <1>7, <1>8, <1>9, <1>10, <1>11 DEF Inserted

LEMMA RemovedAt ==
  ASSUME NEW S, NEW s \in Seq(S), NEW p \in DOMAIN s
  PROVE  /\ RemoveAt(s, p) \in Seq(S)
         /\ Len(s) \in Nat /\ DOMAIN s = 1 .. Len(s)
         /\ DOMAIN RemoveAt(s, p) = 1 .. (Len(s) - 1)
         /\ \A i \in 1 .. (p - 1) : RemoveAt(s, p)[i] = s[i]
         /\ \A i \in p .. (Len(s) - 1) : RemoveAt(s, p)[i] = s[i + 1]
<1> DEFINE a == SubSeq(s, 1, p - 1)
           b == SubSeq(s, p + 1, Len(s))
<1>1. Len(s) \in Nat /\ DOMAIN s = 1 .. Len(s) /\ (\A i \in 1 .. Len(s) : s[i] \in S) /\ p \in 1 .. Len(s)
  BY LenProperties, ElementOfSeq
<1>2. a \in Seq(S) /\ Len(a) = p - 1 /\ \A i \in 1 .. (p - 1) : a[i] = s[i]
  <2>1. \A i \in 1 .. (p - 1) : s[i] \in S
    BY <1>1
  <2>2. 1 \in Int /\ p - 1 \in Int
    BY <1>1
  <2> QED
    BY <1>1, <2>1, <2>2, SubSeqProperties
<1>3. b \in Seq(S) /\ Len(b) = Len(s) - p /\ \A i \in 1 .. (Len(s) - p) : b[i] = s[p + i]
  <2>1. \A i \in (p + 1) .. Len(s) : s[i] \in S
    BY <1>1
  <2>2. p + 1 \in Int /\ Len(s) \in Int
    BY <1>1
  <2>3. b \in Seq(S) /\ Len(b) = IF p + 1 <= Len(s) THEN Len(s) - (p + 1) + 1 ELSE 0
    BY <2>1, <2>2, SubSeqProperties
  <2>4. \A i \in 1 .. (Len(s) - (p + 1) + 1) : b[i] = s[(p + 1) + i - 1]
    BY <2>1, <2>2, SubSeqProperties
  <2> HIDE DEF b
  <2>5. Len(s) - (p + 1) + 1 = Len(s) - p
    BY <1>1
  <2>6. Len(b) = Len(s) - p
    BY <1>1, <2>3
  <2>7. \A i \in 1 .. (Len(s) - p) : b[i] = s[p + i]
    <3> TAKE i \in 1 .. (Len(s) - p)
    <3>1. b[i] = s[(p + 1) + i - 1]
      BY <2>4, <2>5
    <3>2. (p + 1) + i - 1 = p + i
      BY <1>1
    <3> QED
      BY <3>1, <3>2
  <2> QED
    BY <2>3, <2>6, <2>7
<1> HIDE DEF a, b
<1>4. /\ a \o b \in Seq(S) /\ Len(a \o b) = Len(s) - 1
      /\ \A i \in 1 .. (Len(s) - 1) : (a \o b)[i] = IF i <= p - 1 THEN a[i] ELSE b[i - (p - 1)]
  <2>1. /\ a \o b \in Seq(S) /\ Len(a \o b) = Len(a) + Len(b)
        /\ \A i \in 1 .. Len(a) + Len(b) : (a \o b)[i] = IF i <= Len(a) THEN a[i] ELSE b[i - Len(a)]
    BY <1>2, <1>3, ConcatProperties
  <2>2. Len(a) + Len(b) = Len(s) - 1
    BY <1>1, <1>2, <1>3
  <2> QED
    BY <1>2, <2>1, <2>2
<1>5. RemoveAt(s, p) = a \o b
  BY DEF RemoveAt, a, b
<1>6. \A i \in 1 .. (p - 1) : (a \o b)[i] = s[i]
  BY <1>1, <1>2, <1>4
<1>7. \A i \in p .. (Len(s) - 1) : (a \o b)[i] = s[i + 1]
  <2> TAKE i \in p .. (Len(s) - 1)
  <2>1. i - (p - 1) \in 1 .. (Len(s) - p) /\ i \in 1 .. (Len(s) - 1) /\ ~ (i <= p - 1)
        /\ p + (i - (p - 1)) = i + 1
    BY <1>1
  <2> QED
    BY <1>1, <1>3, <1>4, <2>1
<1>8. DOMAIN (a \o b) = 1 .. (Len(s) - 1)
  BY <1>4, LenProperties
<1> QED
  BY <1>1, <1>4, <1>5, <1>6, <1>7, <1>8

LEMMA TailAt ==
  ASSUME NEW S, NEW s \in Seq(S), s # <<>>
  PROVE  /\ Tail(s) \in Seq(S)
         /\ Len(s) \in Nat \ {0} /\ DOMAIN s = 1 .. Len(s) /\ 1 \in DOMAIN s
         /\ Head(s) = s[1] /\ Head(s) \in S
         /\ DOMAIN Tail(s) = 1 .. (Len(s) - 1)
         /\ \A i \in DOMAIN Tail(s) : i + 1 \in DOMAIN s /\ Tail(s)[i] = s[i + 1]
<1>1. /\ Tail(s) \in Seq(S) /\ Head(s) \in S /\ Len(Tail(s)) = Len(s) - 1
      /\ \A i \in 1 .. Len(Tail(s)) : Tail(s)[i] = s[i + 1]
  BY HeadTailProperties
<1>2. Len(s) \in Nat \ {0} /\ DOMAIN s = 1 .. Len(s)
  BY LenProperties, EmptySeq
<1>3. DOMAIN Tail(s) = 1 .. (Len(s) - 1)
  BY <1>1, LenProperties
<1>4. Head(s) = s[1]
  BY <1>2
<1> QED
  BY <1>1, <1>2, <1>3, <1>4

-----------------------------------------------------------------------------
(* Least and greatest elements; initial segments.                          *)

LEMMA LeastOf ==
  ASSUME NEW T \in SUBSET Nat, T # {}
  PROVE  \E x \in T : \A y \in T : x <= y
<1>1. PICK x \in T : \A y \in T : ~ (<<y, x>> \in OpToRel(<, Nat))
  BY NatLessThanWellFounded, WFMin
<1>2. \A y \in T : ~ (y < x)
  BY <1>1 DEF OpToRel
<1> QED
  BY <1>2

LEMMA GreatestOf ==
  ASSUME NEW n \in Nat, NEW T \in SUBSET (1 .. n), T # {}
  PROVE  \E x \in T : \A y \in T : y <= x
<1> DEFINE U == {n - x : x \in T}
<1>1. U \in SUBSET Nat /\ U # {}
  <2>1. \A x \in T : n - x \in Nat /\ n - x \in U
    OBVIOUS
  <2> QED
    BY <2>1
<1>2. PICK u \in U : \A v \in U : u <= v
  <2> HIDE DEF U
  <2> QED
    BY <1>1, LeastOf
<1>3. PICK x \in T : u = n - x
  OBVIOUS
<1>4. \A y \in T : n - x <= n - y
  BY <1>2, <1>3
<1> QED
  BY <1>4

LEMMA InitialSegment ==
  ASSUME NEW n \in Nat, NEW T \in SUBSET (1 .. n),
         \A i \in T : \A j \in 1 .. n : j <= i => j \in T
  PROVE  Cardinality(T) \in 0 .. n /\ T = 1 .. Cardinality(T)
<1>1. CASE T = {}
  <2>1. Cardinality(T) = 0
    BY <1>1, FS_EmptySet
  <2> QED
    BY <1>1, <2>1
<1>2. CASE T # {}
  <2>1. PICK x \in T : \A y \in T : y <= x
    BY <1>2, GreatestOf
  <2>2. x \in 1 .. n /\ T = 1 .. x
    <3>1. \A j \in 1 .. x : j \in T
      <4>1. \A j \in 1 .. x : j \in 1 .. n /\ j <= x
        OBVIOUS
      <4> QED
        BY <2>1, <4>1
    <3>2. \A j \in T : j \in 1 .. x
      BY <2>1
    <3> QED
      BY <3>1, <3>2
  <2>3. Cardinality(1 .. x) = x
    <3>1. 1 \in Int /\ x \in Int /\ ~ (1 > x) /\ x - 1 + 1 = x
      BY <2>2
    <3> QED
      BY <3>1, FS_Interval
  <2> QED
    BY <2>2, <2>3
<1> QED
  BY <1>1, <1>2

-----------------------------------------------------------------------------
(* The device's type, and what its event queue is made of.                 *)

Radio  == {"SLEEP", "STANDBY", "TX", "RX"}
Args   == Pointers \cup AllContents
Event  == [kind : Events, left : Nat, arg : Args, handle : BOOLEAN]
Faults == {"none", "sleepAssert", "txAssert", "nullChannel", "closeInTx"}
Reports == [pkt : 0 .. NumPackets, success : BOOLEAN, txs : 0 .. 255]
Device ==
  [phy : Radio, queue : Seq(Event), secondTs : Int, duty : Nat, waitingAck : BOOLEAN,
   retxLeft : 0 .. 255, retxPkt : Pointers, fault : Faults,
   onAir : [1 .. NumPackets -> Nat], reports : Seq(Reports)]

\* The order in which the simulator runs events.
Ordered(q) == \A i, j \in DOMAIN q : i < j => q[i].left <= q[j].left

\* At most one event of the kind is queued, and the MAC has its handle.
Single(q, k) ==
  \A i, j \in DOMAIN q : q[i].kind = k /\ q[j].kind = k => i = j /\ q[i].handle

OfKind(q, k) == {e \in {q[i] : i \in DOMAIN q} : e.kind = k}

NewEvent(k, delay, arg) == [kind |-> k, left |-> delay, arg |-> arg, handle |-> TRUE]
Demoted(e, k) == IF e.kind = k THEN [e EXCEPT !.handle = FALSE] ELSE e

\* The queue new is q with the event x of kind k at p.
PlacedAt(q, new, p, k, x) ==
  /\ Len(q) \in Nat /\ DOMAIN q = 1 .. Len(q) /\ DOMAIN new = 1 .. (Len(q) + 1)
  /\ new[p] = x
  /\ \A i \in 1 .. (p - 1) : q[i].left <= x.left /\ new[i] = Demoted(q[i], k)
  /\ \A i \in (p + 1) .. (Len(q) + 1) : q[i - 1].left > x.left /\ new[i] = Demoted(q[i - 1], k)

LEMMA ScheduledAt ==
  ASSUME NEW d \in Device, Ordered(d.queue), NEW k \in Events, NEW delay \in Nat, NEW arg \in Args
  PROVE  \E new \in Seq(Event) : \E p \in 1 .. (Len(d.queue) + 1) :
           /\ Schedule(d, k, delay, arg) = [d EXCEPT !.queue = new]
           /\ PlacedAt(d.queue, new, p, k, NewEvent(k, delay, arg))
<1> DEFINE q == d.queue
           n == Len(q)
           old == [i \in DOMAIN q |-> IF q[i].kind = k THEN [q[i] EXCEPT !.handle = FALSE] ELSE q[i]]
           T == {i \in DOMAIN old : old[i].left <= delay}
           before == Cardinality(T)
           x == NewEvent(k, delay, arg)
           pos == before + 1
           new == InsertAt(old, pos, x)
<1>1. q \in Seq(Event) /\ n \in Nat /\ DOMAIN q = 1 .. n /\ \A i \in 1 .. n : q[i] \in Event
  <2>1. q \in Seq(Event)
    BY DEF Device
  <2> QED
    BY <2>1, LenProperties, ElementOfSeq
<1> HIDE DEF q, n
<1>2. old \in Seq(Event) /\ Len(old) = n /\ DOMAIN old = 1 .. n
      /\ \A i \in 1 .. n : old[i] = Demoted(q[i], k) /\ old[i].left = q[i].left
  <2>1. \A i \in 1 .. n : old[i] \in Event /\ old[i] = Demoted(q[i], k) /\ old[i].left = q[i].left
    BY <1>1 DEF Event, Demoted
  <2>2. old \in [1 .. n -> Event]
    <3>1. DOMAIN old = 1 .. n /\ old = [i \in 1 .. n |-> old[i]]
      BY <1>1
    <3> HIDE DEF old
    <3> QED
      BY <2>1, <3>1
  <2> HIDE DEF old
  <2>3. old \in Seq(Event)
    BY <1>1, <2>2, SeqDef
  <2>4. DOMAIN old = 1 .. n /\ Len(old) \in Nat /\ DOMAIN old = 1 .. Len(old)
    BY <2>2, <2>3, LenProperties
  <2> QED
    BY <1>1, <2>1, <2>3, <2>4
<1>3. x \in Event
  BY DEF NewEvent, Event
<1>4. before \in 0 .. n /\ T = 1 .. before
  <2>1. T \in SUBSET (1 .. n)
    BY <1>2
  <2>2. \A i \in T : \A j \in 1 .. n : j <= i => j \in T
    <3> SUFFICES ASSUME NEW i \in T, NEW j \in 1 .. n, j < i PROVE j \in T
      BY <1>1, <2>1
    <3>1. q[j].left <= q[i].left
      BY <1>1, <2>1 DEF Ordered, q
    <3>2. q[j].left \in Nat /\ q[i].left \in Nat /\ old[i].left = q[i].left /\ old[j].left = q[j].left
          /\ old[i].left <= delay
      BY <1>1, <1>2, <2>1 DEF Event
    <3> HIDE DEF old
    <3> QED
      BY <1>2, <3>1, <3>2
  <2> HIDE DEF T
  <2> QED
    BY <1>1, <2>1, <2>2, InitialSegment
<1>5. Schedule(d, k, delay, arg) = [d EXCEPT !.queue = new]
  BY DEF Schedule, NewEvent, q
<1>6. pos \in 1 .. (n + 1)
  BY <1>1, <1>4
<1>7. \A i \in 1 .. n : i \in 1 .. (pos - 1) <=> q[i].left <= delay
  <2>1. pos - 1 = before
    BY <1>4
  <2>2. \A i \in 1 .. n : i \in T <=> q[i].left <= delay
    BY <1>2
  <2> HIDE DEF T, before, pos
  <2> QED
    BY <1>4, <2>1, <2>2
<1> HIDE DEF old, T, before, x, pos
<1>8. /\ new \in Seq(Event) /\ DOMAIN new = 1 .. (n + 1)
      /\ new[pos] = x
      /\ \A i \in 1 .. (pos - 1) : new[i] = old[i]
      /\ \A i \in (pos + 1) .. (n + 1) : new[i] = old[i - 1]
  <2>1. pos \in 1 .. (Len(old) + 1)
    BY <1>2, <1>6
  <2>2. old \in Seq(Event) /\ x \in Event
    BY <1>2, <1>3
  <2>3. new \in Seq(Event) /\ Inserted(old, pos, x, new)
    BY <2>1, <2>2, InsertedAt
  <2> HIDE DEF new
  <2> QED
    BY <1>2, <2>3 DEF Inserted
<1> HIDE DEF new
<1>9. \A i \in 1 .. (pos - 1) : q[i].left <= delay /\ new[i] = Demoted(q[i], k)
  <2> TAKE i \in 1 .. (pos - 1)
  <2>1. i \in 1 .. n
    BY <1>1, <1>6
  <2> QED
    BY <1>2, <1>7, <1>8, <2>1
<1>10. \A i \in (pos + 1) .. (n + 1) : q[i - 1].left > delay /\ new[i] = Demoted(q[i - 1], k)
  <2> TAKE i \in (pos + 1) .. (n + 1)
  <2>1. i - 1 \in 1 .. n /\ i - 1 \notin 1 .. (pos - 1)
    BY <1>1, <1>6
  <2>2. q[i - 1].left \in Nat
    BY <1>1, <2>1 DEF Event
  <2> QED
    BY <1>2, <1>7, <1>8, <2>1, <2>2
<1>11. x.left = delay
  BY DEF x, NewEvent
<1>12. PlacedAt(q, new, pos, k, x)
  BY <1>1, <1>8, <1>9, <1>10, <1>11 DEF PlacedAt, n
<1>13. /\ new \in Seq(Event) /\ pos \in 1 .. (Len(d.queue) + 1)
       /\ Schedule(d, k, delay, arg) = [d EXCEPT !.queue = new]
       /\ PlacedAt(d.queue, new, pos, k, NewEvent(k, delay, arg))
  BY <1>5, <1>6, <1>8, <1>12 DEF q, n, x
<1> HIDE DEF q, n, x
<1> QED
  BY <1>13

LEMMA DemotedEvent ==
  ASSUME NEW e \in Event, NEW k
  PROVE  /\ Demoted(e, k) \in Event
         /\ Demoted(e, k).kind = e.kind /\ Demoted(e, k).left = e.left /\ Demoted(e, k).arg = e.arg
         /\ e.kind # k => Demoted(e, k) = e
  BY DEF Demoted, Event

LEMMA PlacedFrom ==
  ASSUME NEW q \in Seq(Event), NEW new \in Seq(Event), NEW k, NEW x,
         NEW p \in 1 .. (Len(q) + 1), PlacedAt(q, new, p, k, x)
  PROVE  /\ p \in DOMAIN new /\ new[p] = x
         /\ \A j \in DOMAIN new \ {p} : \E i \in DOMAIN q :
              /\ i = IF j < p THEN j ELSE j - 1
              /\ q[i] \in Event /\ new[j] = Demoted(q[i], k)
              /\ IF j < p THEN q[i].left <= x.left ELSE x.left < q[i].left
         /\ \A i \in DOMAIN q : \E j \in DOMAIN new \ {p} : new[j] = Demoted(q[i], k)
<1>1. Len(q) \in Nat /\ DOMAIN q = 1 .. Len(q) /\ DOMAIN new = 1 .. (Len(q) + 1)
      /\ \A i \in 1 .. Len(q) : q[i] \in Event /\ q[i].left \in Nat
  <2>1. \A i \in 1 .. Len(q) : q[i] \in Event
    BY ElementOfSeq
  <2> QED
    BY <2>1 DEF PlacedAt, Event
<1>2. p \in DOMAIN new /\ new[p] = x
  BY <1>1 DEF PlacedAt
<1>3. ASSUME NEW j \in DOMAIN new \ {p}
      PROVE \E i \in DOMAIN q :
              /\ i = IF j < p THEN j ELSE j - 1
              /\ q[i] \in Event /\ new[j] = Demoted(q[i], k)
              /\ IF j < p THEN q[i].left <= x.left ELSE x.left < q[i].left
  <2>1. CASE j < p
    <3>1. j \in 1 .. (p - 1) /\ j \in DOMAIN q
      BY <1>1, <2>1
    <3> QED
      BY <1>1, <2>1, <3>1 DEF PlacedAt
  <2>2. CASE ~ (j < p)
    <3>1. j \in (p + 1) .. (Len(q) + 1) /\ j - 1 \in DOMAIN q
      BY <1>1, <2>2
    <3>2. q[j - 1].left > x.left /\ new[j] = Demoted(q[j - 1], k)
      BY <3>1 DEF PlacedAt
    <3> QED
      BY <1>1, <2>2, <3>1, <3>2
  <2> QED
    BY <2>1, <2>2
<1>4. ASSUME NEW i \in DOMAIN q
      PROVE \E j \in DOMAIN new \ {p} : new[j] = Demoted(q[i], k)
  <2>1. CASE i < p
    <3>1. i \in 1 .. (p - 1) /\ i \in DOMAIN new \ {p}
      BY <1>1, <2>1
    <3> QED
      BY <3>1 DEF PlacedAt
  <2>2. CASE ~ (i < p)
    <3>1. i + 1 \in (p + 1) .. (Len(q) + 1) /\ i + 1 \in DOMAIN new \ {p} /\ (i + 1) - 1 = i
      BY <1>1, <2>2
    <3>2. new[i + 1] = Demoted(q[(i + 1) - 1], k)
      BY <3>1 DEF PlacedAt
    <3> QED
      BY <3>1, <3>2
  <2> QED
    BY <2>1, <2>2
<1> QED
  BY <1>2, <1>3, <1>4

\* Events of kind k precede those of kind kk in the queue.
Before(q, k, kk) ==
  \A i, j \in DOMAIN q : q[i].kind = k /\ q[j].kind = kk => i < j

\* What a new event x does to the queue.
Enqueued(q, new, x) ==
  /\ Ordered(new)
  /\ \A k, kk \in Events \ {x.kind} : Before(q, k, kk) => Before(new, k, kk)
  /\ \A k \in Events \ {x.kind} :
       OfKind(q, x.kind) = {} /\ (\A e \in OfKind(q, k) : e.left <= x.left) => Before(new, k, x.kind)
  /\ \A k \in Events \ {x.kind} :
       OfKind(new, k) = OfKind(q, k) /\ (Single(q, k) => Single(new, k))
  /\ OfKind(q, x.kind) = {} => OfKind(new, x.kind) = {x} /\ Single(new, x.kind)

LEMMA PlacedIsEnqueued ==
  ASSUME NEW q \in Seq(Event), NEW new \in Seq(Event), NEW x \in Event, x.handle,
         NEW p \in 1 .. (Len(q) + 1), PlacedAt(q, new, p, x.kind, x), Ordered(q)
  PROVE  Enqueued(q, new, x)
<1> DEFINE Src(j) == IF j < p THEN j ELSE j - 1
<1>1. /\ p \in DOMAIN new /\ new[p] = x /\ p \in Int
      /\ \A j \in DOMAIN new \ {p} :
           /\ j \in Int /\ Src(j) \in DOMAIN q /\ Src(j) \in Int /\ q[Src(j)] \in Event
           /\ new[j] = Demoted(q[Src(j)], x.kind)
           /\ IF j < p THEN q[Src(j)].left <= x.left ELSE x.left < q[Src(j)].left
      /\ \A i \in DOMAIN q : \E j \in DOMAIN new \ {p} : new[j] = Demoted(q[i], x.kind)
  <2>1. \A j \in DOMAIN new \cup DOMAIN q : j \in Int
    BY LenProperties
  <2> QED
    BY <2>1, PlacedFrom
<1>2. \A i, j \in DOMAIN new \ {p} : i # j => Src(i) # Src(j) /\ (i < j => Src(i) < Src(j))
  <2>1. \A j \in DOMAIN new \ {p} : j \in Int /\ j # p
    BY <1>1
  <2>2. \A i, j \in Int : i # j /\ i # p /\ j # p => Src(i) # Src(j) /\ (i < j => Src(i) < Src(j))
    BY <1>1
  <2> HIDE DEF Src
  <2> QED
    BY <2>1, <2>2
<1>3. \A j \in DOMAIN new \ {p} :
        /\ new[j].kind = q[Src(j)].kind /\ new[j].left = q[Src(j)].left
        /\ new[j].kind # x.kind => new[j] = q[Src(j)]
        /\ q[Src(j)].left \in Int
  <2>1. \A j \in DOMAIN new \ {p} : q[Src(j)] \in Event /\ q[Src(j)].left \in Nat
    BY <1>1 DEF Event
  <2> HIDE DEF Src
  <2> QED
    BY <1>1, <2>1, DemotedEvent, SMTT(40)
<1>4. x.left \in Int /\ \A i \in DOMAIN q : q[i] \in Event
  <2>1. x.left \in Int
    BY DEF Event
  <2>2. DOMAIN q = 1 .. Len(q)
    BY LenProperties
  <2>3. \A i \in 1 .. Len(q) : q[i] \in Event
    BY ElementOfSeq
  <2> QED
    BY <2>1, <2>2, <2>3
<1>5. \A i, j \in DOMAIN new : i < j => new[i].left <= new[j].left
  <2>0. /\ \A j \in DOMAIN new : j \in Int
        /\ \A j \in DOMAIN new \ {p} :
             /\ new[j].left \in Int
             /\ j < p => new[j].left <= x.left
             /\ j > p => x.left < new[j].left
        /\ new[p].left = x.left
    <3>1. \A j \in DOMAIN new \ {p} : j \in Int /\ (j > p => ~ (j < p))
      BY <1>1
    <3> HIDE DEF Src
    <3> QED
      BY <1>1, <1>3, <3>1
  <2> HIDE DEF Src
  <2> SUFFICES ASSUME NEW i \in DOMAIN new, NEW j \in DOMAIN new, i < j
               PROVE  new[i].left <= new[j].left
    OBVIOUS
  <2>1. CASE i # p /\ j # p
    <3>1. q[Src(i)].left <= q[Src(j)].left
      BY <1>1, <1>2, <2>1 DEF Ordered
    <3> QED
      BY <1>3, <2>1, <3>1
  <2>2. CASE i = p
    <3>1. j \in DOMAIN new \ {p} /\ j > p
      BY <2>0, <2>2
    <3> QED
      BY <1>4, <2>0, <2>2, <3>1
  <2>3. CASE j = p
    <3>1. i \in DOMAIN new \ {p} /\ i < p
      BY <2>0, <2>3
    <3> QED
      BY <1>4, <2>0, <2>3, <3>1
  <2> QED
    BY <2>1, <2>2, <2>3
<1> HIDE DEF Src
<1>6. ASSUME NEW k \in Events \ {x.kind}
      PROVE OfKind(new, k) = OfKind(q, k) /\ (Single(q, k) => Single(new, k))
  <2>1. ASSUME NEW e \in OfKind(new, k) PROVE e \in OfKind(q, k)
    <3>1. PICK j \in DOMAIN new : e = new[j] /\ e.kind = k
      BY DEF OfKind
    <3>2. j # p /\ e = q[Src(j)]
      BY <1>1, <1>3, <3>1
    <3> QED
      BY <1>1, <3>1, <3>2 DEF OfKind
  <2>2. ASSUME NEW e \in OfKind(q, k) PROVE e \in OfKind(new, k)
    <3>1. PICK i \in DOMAIN q : e = q[i] /\ e.kind = k
      BY DEF OfKind
    <3>2. PICK j \in DOMAIN new \ {p} : new[j] = Demoted(q[i], x.kind)
      BY <1>1
    <3>3. new[j] = e
      BY <1>4, <3>1, <3>2, DemotedEvent
    <3> QED
      BY <3>1, <3>3 DEF OfKind
  <2>3. ASSUME Single(q, k) PROVE Single(new, k)
    <3> SUFFICES ASSUME NEW i \in DOMAIN new, NEW j \in DOMAIN new, new[i].kind = k, new[j].kind = k
                 PROVE  i = j /\ new[i].handle
      BY DEF Single
    <3>1. i # p /\ j # p /\ new[i] = q[Src(i)] /\ new[j] = q[Src(j)]
      BY <1>1, <1>3
    <3>2. Src(i) = Src(j) /\ q[Src(i)].handle
      BY <1>1, <2>3, <3>1, SMTT(40) DEF Single
    <3> QED
      BY <1>2, <3>1, <3>2
  <2> QED
    BY <2>1, <2>2, <2>3
<1>7. ASSUME OfKind(q, x.kind) = {}
      PROVE OfKind(new, x.kind) = {x} /\ Single(new, x.kind)
  <2>1. \A j \in DOMAIN new : new[j].kind = x.kind => j = p
    <3> SUFFICES ASSUME NEW j \in DOMAIN new \ {p}, new[j].kind = x.kind PROVE FALSE
      OBVIOUS
    <3>1. q[Src(j)].kind = x.kind /\ Src(j) \in DOMAIN q
      BY <1>1, <1>3
    <3>2. q[Src(j)] \in OfKind(q, x.kind)
      BY <3>1 DEF OfKind
    <3> QED
      BY <1>7, <3>2
  <2> QED
    BY <1>1, <2>1 DEF OfKind, Single
<1>8. ASSUME NEW k \in Events \ {x.kind}, NEW kk \in Events \ {x.kind}, Before(q, k, kk)
      PROVE Before(new, k, kk)
  <2> SUFFICES ASSUME NEW i \in DOMAIN new, NEW j \in DOMAIN new, new[i].kind = k, new[j].kind = kk
               PROVE  i < j
    BY DEF Before
  <2>1. i # p /\ j # p /\ new[i] = q[Src(i)] /\ new[j] = q[Src(j)]
    BY <1>1, <1>3
  <2>2. Src(i) < Src(j)
    BY <1>1, <1>8, <2>1 DEF Before
  <2>3. i \in Int /\ j \in Int /\ Src(i) \in Int /\ Src(j) \in Int
    BY <1>1, <2>1
  <2>4. j < i => Src(j) < Src(i)
    BY <1>2, <2>1
  <2> QED
    BY <2>2, <2>3, <2>4
<1>9. ASSUME NEW k \in Events \ {x.kind}, OfKind(q, x.kind) = {}, \A e \in OfKind(q, k) : e.left <= x.left
      PROVE Before(new, k, x.kind)
  <2> SUFFICES ASSUME NEW i \in DOMAIN new, NEW j \in DOMAIN new, new[i].kind = k, new[j].kind = x.kind
               PROVE  i < j
    BY DEF Before
  <2>1. i # p /\ new[i] = q[Src(i)] /\ Src(i) \in DOMAIN q
    BY <1>1, <1>3
  <2>2. q[Src(i)].left <= x.left
    BY <1>9, <2>1 DEF OfKind
  <2>3. i < p
    BY <1>1, <1>3, <1>4, <2>1, <2>2, SMTT(40)
  <2>4. j = p
    <3> SUFFICES ASSUME j # p PROVE FALSE
      OBVIOUS
    <3>1. q[Src(j)] \in OfKind(q, x.kind)
      BY <1>1, <1>3 DEF OfKind
    <3> QED
      BY <1>9, <3>1
  <2> QED
    BY <2>3, <2>4
<1>10. /\ \A k, kk \in Events \ {x.kind} : Before(q, k, kk) => Before(new, k, kk)
       /\ \A k \in Events \ {x.kind} :
            OfKind(q, x.kind) = {} /\ (\A e \in OfKind(q, k) : e.left <= x.left) => Before(new, k, x.kind)
  BY <1>8, <1>9
<1>11. Ordered(new)
  BY <1>5 DEF Ordered
<1> QED
  BY <1>6, <1>7, <1>10, <1>11 DEF Enqueued

\* What becomes of the queue when its event x is taken out.
Dequeued(q, new, x) ==
  /\ Ordered(new)
  /\ \A k, kk \in Events : Before(q, k, kk) => Before(new, k, kk)
  /\ \A k \in Events :
       /\ Single(q, k) => Single(new, k)
       /\ OfKind(new, k) \subseteq OfKind(q, k)
       /\ k # x.kind => OfKind(new, k) = OfKind(q, k)
  /\ Single(q, x.kind) => OfKind(new, x.kind) = {}

LEMMA TakenOut ==
  ASSUME NEW q \in Seq(Event), NEW new \in Seq(Event), NEW p \in DOMAIN q, Ordered(q),
         DOMAIN new = 1 .. (Len(q) - 1),
         \A i \in 1 .. (Len(q) - 1) : new[i] = q[IF i < p THEN i ELSE i + 1]
  PROVE  Dequeued(q, new, q[p])
<1> DEFINE Src(i) == IF i < p THEN i ELSE i + 1
<1>1. /\ Len(q) \in Nat /\ DOMAIN q = 1 .. Len(q) /\ p \in 1 .. Len(q)
      /\ \A i \in 1 .. Len(q) : q[i] \in Event
  BY LenProperties, ElementOfSeq
<1>2. \A i \in DOMAIN new : i \in Int /\ Src(i) \in DOMAIN q \ {p} /\ Src(i) \in Int
  BY <1>1
<1>3. \A i, j \in DOMAIN new : i # j => Src(i) # Src(j) /\ (i < j => Src(i) < Src(j))
  <2>1. \A i, j \in Int : i # j => Src(i) # Src(j) /\ (i < j => Src(i) < Src(j))
    BY <1>1
  <2> HIDE DEF Src
  <2> QED
    BY <1>2, <2>1
<1>4. \A i \in DOMAIN new : new[i] = q[Src(i)]
  OBVIOUS
<1>5. \A j \in DOMAIN q \ {p} : \E i \in DOMAIN new : Src(i) = j
  <2> SUFFICES ASSUME NEW j \in DOMAIN q \ {p} PROVE \E i \in DOMAIN new : Src(i) = j
    OBVIOUS
  <2>1. CASE j < p
    <3>1. j \in DOMAIN new /\ Src(j) = j
      BY <1>1, <2>1
    <3> QED
      BY <3>1
  <2>2. CASE ~ (j < p)
    <3>1. j - 1 \in DOMAIN new /\ Src(j - 1) = j
      BY <1>1, <2>2
    <3> QED
      BY <3>1
  <2> QED
    BY <2>1, <2>2
<1> HIDE DEF Src
<1>6. Ordered(new)
  BY <1>2, <1>3, <1>4 DEF Ordered
<1>7. ASSUME NEW k \in Events, Single(q, k) PROVE Single(new, k)
  BY <1>2, <1>3, <1>4, <1>7 DEF Single
<1>8. \A k \in Events : OfKind(new, k) \subseteq OfKind(q, k)
  BY <1>2, <1>4 DEF OfKind
<1>9. ASSUME NEW k \in Events, k # q[p].kind PROVE OfKind(q, k) \subseteq OfKind(new, k)
  <2> SUFFICES ASSUME NEW j \in DOMAIN q, q[j].kind = k PROVE q[j] \in OfKind(new, k)
    BY DEF OfKind
  <2>1. j # p
    BY <1>9
  <2>2. PICK i \in DOMAIN new : Src(i) = j
    BY <1>5, <2>1
  <2> QED
    BY <1>4, <2>2 DEF OfKind
<1>10. ASSUME Single(q, q[p].kind) PROVE OfKind(new, q[p].kind) = {}
  <2> SUFFICES ASSUME NEW i \in DOMAIN new, new[i].kind = q[p].kind PROVE FALSE
    BY DEF OfKind
  <2> QED
    BY <1>2, <1>4, <1>10 DEF Single
<1>11. ASSUME NEW k \in Events, NEW kk \in Events, Before(q, k, kk) PROVE Before(new, k, kk)
  <2> SUFFICES ASSUME NEW i \in DOMAIN new, NEW j \in DOMAIN new, new[i].kind = k, new[j].kind = kk
               PROVE  i < j
    BY DEF Before
  <2>1. Src(i) < Src(j) /\ i # j /\ i \in Int /\ j \in Int /\ Src(i) \in Int /\ Src(j) \in Int
    BY <1>2, <1>4, <1>11 DEF Before
  <2>2. j < i => Src(j) < Src(i)
    BY <1>3
  <2> QED
    BY <2>1, <2>2
<1> QED
  BY <1>6, <1>7, <1>8, <1>9, <1>10, <1>11 DEF Dequeued

-----------------------------------------------------------------------------
(* The simulator's operations on a device.                                 *)

\* Only the queue differs.
OnlyQueue(d, r) ==
  /\ r \in Device
  /\ r.phy = d.phy /\ r.secondTs = d.secondTs /\ r.duty = d.duty
  /\ r.waitingAck = d.waitingAck /\ r.retxLeft = d.retxLeft /\ r.retxPkt = d.retxPkt
  /\ r.fault = d.fault /\ r.onAir = d.onAir /\ r.reports = d.reports

LEMMA QueueReplaced ==
  ASSUME NEW d \in Device, NEW new \in Seq(Event)
  PROVE  OnlyQueue(d, [d EXCEPT !.queue = new]) /\ [d EXCEPT !.queue = new].queue = new
BY DEF OnlyQueue, Device

LEMMA ScheduleDevice ==
  ASSUME NEW d \in Device, Ordered(d.queue), NEW k \in Events, NEW delay \in Nat, NEW arg \in Args
  PROVE  /\ OnlyQueue(d, Schedule(d, k, delay, arg))
         /\ Enqueued(d.queue, Schedule(d, k, delay, arg).queue, NewEvent(k, delay, arg))
<1> DEFINE x == NewEvent(k, delay, arg)
<1>1. PICK new \in Seq(Event) : \E p \in 1 .. (Len(d.queue) + 1) :
        /\ Schedule(d, k, delay, arg) = [d EXCEPT !.queue = new]
        /\ PlacedAt(d.queue, new, p, k, x)
  BY ScheduledAt
<1>2. PICK p \in 1 .. (Len(d.queue) + 1) :
        /\ Schedule(d, k, delay, arg) = [d EXCEPT !.queue = new]
        /\ PlacedAt(d.queue, new, p, k, x)
  BY <1>1
<1>3. x \in Event /\ x.kind = k /\ x.handle
  BY DEF NewEvent, Event
<1>4. d.queue \in Seq(Event)
  BY DEF Device
<1> HIDE DEF x
<1>5. Enqueued(d.queue, new, x)
  BY <1>2, <1>3, <1>4, PlacedIsEnqueued
<1> QED
  BY <1>2, <1>5, QueueReplaced DEF x

LEMMA CancelDevice ==
  ASSUME NEW d \in Device, Ordered(d.queue), NEW k \in Events
  PROVE  LET r == Cancel(d, k) IN
         /\ OnlyQueue(d, r) /\ Ordered(r.queue)
         /\ \A kk, kkk \in Events : Before(d.queue, kk, kkk) => Before(r.queue, kk, kkk)
         /\ Single(d.queue, k) => OfKind(r.queue, k) = {}
         /\ \A kk \in Events :
              /\ Single(d.queue, kk) => Single(r.queue, kk)
              /\ OfKind(r.queue, kk) \subseteq OfKind(d.queue, kk)
              /\ kk # k => OfKind(r.queue, kk) = OfKind(d.queue, kk)
<1> DEFINE q == d.queue
           P(i) == q[i].kind = k /\ q[i].handle
<1>0. q \in Seq(Event)
  BY DEF Device
<1>1. CASE ~ IsPending(d, k)
  <2>1. Cancel(d, k) = d
    BY <1>1 DEF Cancel
  <2>2. ASSUME Single(q, k) PROVE OfKind(q, k) = {}
    BY <1>1, <2>2 DEF IsPending, OfKind, Single
  <2> QED
    BY <2>1, <2>2 DEF OnlyQueue
<1>2. CASE IsPending(d, k)
  <2> DEFINE p == CHOOSE i \in DOMAIN q : P(i)
             new == RemoveAt(q, p)
  <2>1. \E i \in DOMAIN q : P(i)
    BY <1>2 DEF IsPending
  <2>2. p \in DOMAIN q /\ P(p)
    BY <2>1
  <2>3. Cancel(d, k) = [d EXCEPT !.queue = new]
    BY <1>2 DEF Cancel
  <2> HIDE DEF p, q
  <2>4. /\ new \in Seq(Event) /\ DOMAIN new = 1 .. (Len(q) - 1)
        /\ Len(q) \in Nat /\ p \in 1 .. Len(q)
        /\ \A i \in 1 .. (p - 1) : new[i] = q[i]
        /\ \A i \in p .. (Len(q) - 1) : new[i] = q[i + 1]
    BY <1>0, <2>2, RemovedAt
  <2> HIDE DEF new
  <2>5. \A i \in 1 .. (Len(q) - 1) : new[i] = q[IF i < p THEN i ELSE i + 1]
    <3> TAKE i \in 1 .. (Len(q) - 1)
    <3>1. CASE i < p
      <4>1. i \in 1 .. (p - 1)
        BY <2>4, <3>1
      <4> QED
        BY <2>4, <3>1, <4>1
    <3>2. CASE ~ (i < p)
      <4>1. i \in p .. (Len(q) - 1)
        BY <2>4, <3>2
      <4> QED
        BY <2>4, <3>2, <4>1
    <3> QED
      BY <3>1, <3>2
  <2>6. Dequeued(q, new, q[p])
    BY <1>0, <2>2, <2>4, <2>5, TakenOut DEF q
  <2>7. /\ Ordered(new) /\ (Single(q, k) => OfKind(new, k) = {})
        /\ \A kk, kkk \in Events : Before(q, kk, kkk) => Before(new, kk, kkk)
        /\ \A kk \in Events :
             /\ Single(q, kk) => Single(new, kk)
             /\ OfKind(new, kk) \subseteq OfKind(q, kk)
             /\ kk # k => OfKind(new, kk) = OfKind(q, kk)
    BY <2>2, <2>6 DEF Dequeued
  <2>8. Cancel(d, k).queue = new /\ OnlyQueue(d, Cancel(d, k))
    BY <2>3, <2>4, QueueReplaced
  <2> QED
    BY <2>7, <2>8 DEF q
<1> QED
  BY <1>1, <1>2

\* The simulator takes the first event from the queue and runs it.
LEMMA PopDevice ==
  ASSUME NEW d \in Device, Ordered(d.queue), d.queue # <<>>
  PROVE  LET r == [d EXCEPT !.queue = Tail(@)] IN
         /\ OnlyQueue(d, r) /\ Dequeued(d.queue, r.queue, Head(d.queue))
         /\ Head(d.queue) \in Event
         /\ Head(d.queue) \in OfKind(d.queue, Head(d.queue).kind)
         /\ \A k \in Events : \A e \in OfKind(d.queue, k) : Head(d.queue).left <= e.left
<1> DEFINE q == d.queue
<1>1. q \in Seq(Event)
  BY DEF Device
<1>2. /\ Tail(q) \in Seq(Event) /\ Len(q) \in Nat /\ DOMAIN q = 1 .. Len(q) /\ 1 \in DOMAIN q
      /\ Head(q) = q[1] /\ Head(q) \in Event
      /\ DOMAIN Tail(q) = 1 .. (Len(q) - 1)
      /\ \A i \in DOMAIN Tail(q) : Tail(q)[i] = q[i + 1]
  BY <1>1, TailAt
<1>3. \A i \in 1 .. (Len(q) - 1) : Tail(q)[i] = q[IF i < 1 THEN i ELSE i + 1]
  BY <1>2
<1>4. Dequeued(q, Tail(q), Head(q))
  <2> HIDE DEF q
  <2> QED
    BY <1>1, <1>2, <1>3, TakenOut DEF q
<1>5. \A k \in Events : \A e \in OfKind(q, k) : Head(q).left <= e.left
  <2> SUFFICES ASSUME NEW i \in DOMAIN q PROVE Head(q).left <= q[i].left
    BY DEF OfKind
  <2>1. q[1].left \in Nat
    BY <1>2 DEF Event
  <2>2. i = 1 \/ 1 < i
    BY <1>2
  <2> QED
    BY <1>2, <2>1, <2>2 DEF Ordered
<1>6. Head(q) \in OfKind(q, Head(q).kind)
  BY <1>2 DEF OfKind
<1> QED
  BY <1>2, <1>4, <1>5, <1>6, QueueReplaced

\* A tick brings every event nearer; none is overdue, since the first is not.
LEMMA AgedQueue ==
  ASSUME NEW q \in Seq(Event), Ordered(q), q # <<>> => Head(q).left > 0
  PROVE  LET new == [i \in DOMAIN q |-> [q[i] EXCEPT !.left = @ - 1]] IN
         /\ new \in Seq(Event) /\ Ordered(new)
         /\ \A k, kk \in Events : Before(q, k, kk) => Before(new, k, kk)
         /\ \A k \in Events : Single(q, k) => Single(new, k)
         /\ \A k \in Events : OfKind(new, k) = {[e EXCEPT !.left = @ - 1] : e \in OfKind(q, k)}
         /\ \A k \in Events : \A e \in OfKind(q, k) : e \in Event /\ e.left > 0
<1> DEFINE new == [i \in DOMAIN q |-> [q[i] EXCEPT !.left = @ - 1]]
<1>1. Len(q) \in Nat /\ DOMAIN q = 1 .. Len(q) /\ \A i \in DOMAIN q : q[i] \in Event /\ i \in Int
  <2>1. Len(q) \in Nat /\ DOMAIN q = 1 .. Len(q)
    BY LenProperties
  <2> QED
    BY <2>1, ElementOfSeq
<1>2. \A i \in DOMAIN q : q[i].left > 0 /\ q[i].left \in Nat
  <2> SUFFICES ASSUME NEW i \in DOMAIN q PROVE q[i].left > 0 /\ q[i].left \in Nat
    OBVIOUS
  <2>1. q # <<>>
    BY EmptySeq, <1>1
  <2>2. 1 \in DOMAIN q /\ Head(q) = q[1]
    BY <2>1, TailAt
  <2>3. q[1].left \in Nat /\ q[i].left \in Nat
    BY <1>1, <2>2 DEF Event
  <2>4. i = 1 \/ 1 < i
    BY <1>1
  <2> QED
    BY <2>1, <2>2, <2>3, <2>4 DEF Ordered
<1>3. DOMAIN new = DOMAIN q
  OBVIOUS
<1>4. \A i \in DOMAIN q :
        /\ new[i] \in Event /\ new[i] = [q[i] EXCEPT !.left = @ - 1]
        /\ new[i].kind = q[i].kind /\ new[i].handle = q[i].handle /\ new[i].left = q[i].left - 1
  <2>1. \A e \in Event : e.left > 0 =>
          LET f == [e EXCEPT !.left = @ - 1] IN
          f \in Event /\ f.kind = e.kind /\ f.handle = e.handle /\ f.left = e.left - 1
    BY DEF Event
  <2>2. \A i \in DOMAIN q : new[i] = [q[i] EXCEPT !.left = @ - 1]
    OBVIOUS
  <2> HIDE DEF new
  <2> QED
    BY <1>1, <1>2, <2>1, <2>2
<1>5. new \in [1 .. Len(q) -> Event]
  <2>1. new = [i \in 1 .. Len(q) |-> new[i]]
    BY <1>1
  <2> HIDE DEF new
  <2> QED
    BY <1>1, <1>4, <2>1
<1> HIDE DEF new
<1>6. new \in Seq(Event)
  BY <1>1, <1>5, SeqDef
<1>7. Ordered(new)
  BY <1>2, <1>3, <1>4 DEF Ordered
<1>8. \A k \in Events : Single(q, k) => Single(new, k)
  BY <1>3, <1>4 DEF Single
<1>9. \A k \in Events : OfKind(new, k) = {[e EXCEPT !.left = @ - 1] : e \in OfKind(q, k)}
  <2> SUFFICES ASSUME NEW k \in Events, NEW f
               PROVE  f \in OfKind(new, k) <=> \E e \in OfKind(q, k) : f = [e EXCEPT !.left = @ - 1]
    OBVIOUS
  <2>1. ASSUME f \in OfKind(new, k) PROVE \E e \in OfKind(q, k) : f = [e EXCEPT !.left = @ - 1]
    <3>1. PICK i \in DOMAIN q : f = new[i] /\ f.kind = k
      BY <1>3, <2>1 DEF OfKind
    <3>2. q[i] \in OfKind(q, k) /\ f = [q[i] EXCEPT !.left = @ - 1]
      BY <1>4, <3>1 DEF OfKind
    <3> QED
      BY <3>2
  <2>2. ASSUME NEW e \in OfKind(q, k), f = [e EXCEPT !.left = @ - 1] PROVE f \in OfKind(new, k)
    <3>1. PICK i \in DOMAIN q : e = q[i] /\ e.kind = k
      BY DEF OfKind
    <3>2. f = new[i] /\ new[i].kind = k
      BY <1>4, <2>2, <3>1
    <3> QED
      BY <1>3, <3>2 DEF OfKind
  <2> QED
    BY <2>1, <2>2
<1>10. \A k \in Events : \A e \in OfKind(q, k) : e \in Event /\ e.left > 0
  BY <1>1, <1>2 DEF OfKind
<1>11. \A k, kk \in Events : Before(q, k, kk) => Before(new, k, kk)
  BY <1>3, <1>4 DEF Before
<1> QED
  BY <1>6, <1>7, <1>8, <1>9, <1>10, <1>11 DEF new

-----------------------------------------------------------------------------
(* The books: which packet is being sent, how often it was, what has been  *)
(* reported.                                                               *)

\* What the queued DoSend event, if any, will send.
ToSend(q) == {e.arg : e \in OfKind(q, "doSend")}

Reported(d, n) == {i \in DOMAIN d.reports : d.reports[i].pkt = n}

\* Packet n is newer than the one under retransmission, and untouched.
Fresh(d, n) == d.retxPkt.pkt < n /\ d.onAir[n] = 0 /\ Reported(d, n) = {}

Sendable(d, p, s) ==
  /\ p \in Pointers /\ p.pkt \in 1 .. s
  /\ IF p.copy THEN d.waitingAck /\ p = d.retxPkt ELSE Fresh(d, p.pkt)

Frame(d) == d \in Device /\ Ordered(d.queue) /\ Single(d.queue, "doSend")

Procedure(d, s) ==
  IF d.waitingAck THEN d.retxPkt.copy /\ d.retxPkt.pkt \in 1 .. s ELSE d.retxPkt = NoPacket

ReportedAtMostOnce(d) ==
  \A n \in 1 .. NumPackets : Reported(d, n) # {} =>
    d.retxPkt.pkt # n /\ \E i \in DOMAIN d.reports : Reported(d, n) = {i}

FlaggedCopies == CopyFlags = {TRUE}

TrueReports(d) ==
  \A n \in 1 .. NumPackets : \A i \in Reported(d, n) : d.reports[i].txs = d.onAir[n] % 256

Books(d, s) ==
  /\ Frame(d)
  /\ \A p \in ToSend(d.queue) : Sendable(d, p, s)
  /\ \A n \in (s + 1) .. NumPackets : Fresh(d, n)
  /\ Procedure(d, s)
  /\ ReportedAtMostOnce(d)
  /\ FlaggedCopies => TrueReports(d)

\* The attempts counted are those on the air, or one more that is about to be.
Tally(d, more) ==
  d.waitingAck =>
    d.retxPkt.flag /\ (MaxNumbTx - d.retxLeft) % 256 = (d.onAir[d.retxPkt.pkt] + more) % 256

Strong(d, s) == Books(d, s) /\ (FlaggedCopies => Tally(d, 0))
Ledger(d, s) == Books(d, s) /\ (FlaggedCopies /\ d.fault = "none" => Tally(d, 0))

KeepsBooks(d, r) ==
  /\ Frame(r) /\ ToSend(r.queue) \subseteq ToSend(d.queue)
  /\ r.waitingAck = d.waitingAck /\ r.retxLeft = d.retxLeft /\ r.retxPkt = d.retxPkt
  /\ r.onAir = d.onAir /\ r.reports = d.reports
  /\ r.fault = "none" => d.fault = "none"

LEMMA BooksKept ==
  ASSUME NEW d, NEW r, NEW s, KeepsBooks(d, r)
  PROVE  /\ Strong(d, s) => Strong(r, s)
         /\ Ledger(d, s) => Ledger(r, s)
<1>1. \A n : Fresh(d, n) => Fresh(r, n)
  BY DEF KeepsBooks, Fresh, Reported
<1>2. \A p : Sendable(d, p, s) => Sendable(r, p, s)
  BY <1>1 DEF KeepsBooks, Sendable
<1>3. Books(d, s) => Books(r, s)
  BY <1>1, <1>2 DEF Books, KeepsBooks, Procedure, ReportedAtMostOnce, TrueReports, Reported
<1>4. Tally(d, 0) => Tally(r, 0)
  BY DEF KeepsBooks, Tally
<1> QED
  BY <1>3, <1>4 DEF Strong, Ledger, KeepsBooks

LEMMA KeepsTransitive ==
  ASSUME NEW d, NEW e, NEW r, KeepsBooks(d, e), KeepsBooks(e, r)
  PROVE  KeepsBooks(d, r)
BY DEF KeepsBooks

LEMMA ScheduleKeeps ==
  ASSUME NEW d, Frame(d), NEW k \in Events \ {"doSend"}, NEW delay \in Nat, NEW arg \in Args
  PROVE  LET r == Schedule(d, k, delay, arg) IN
         KeepsBooks(d, r) /\ ToSend(r.queue) = ToSend(d.queue)
<1> DEFINE r == Schedule(d, k, delay, arg)
<1>1. OnlyQueue(d, r) /\ Enqueued(d.queue, r.queue, NewEvent(k, delay, arg))
  BY ScheduleDevice DEF Frame
<1>2. "doSend" \in Events \ {NewEvent(k, delay, arg).kind}
  BY DEF Events, NewEvent
<1>3. OfKind(r.queue, "doSend") = OfKind(d.queue, "doSend") /\ Single(r.queue, "doSend") /\ Ordered(r.queue)
  BY <1>1, <1>2 DEF Enqueued, Frame
<1> HIDE DEF r
<1>4. KeepsBooks(d, r) /\ ToSend(r.queue) = ToSend(d.queue)
  BY <1>1, <1>3 DEF KeepsBooks, Frame, ToSend, OnlyQueue
<1> QED
  BY <1>4 DEF r

LEMMA CancelKeeps ==
  ASSUME NEW d, Frame(d), NEW k \in Events
  PROVE  /\ KeepsBooks(d, Cancel(d, k))
         /\ k = "doSend" => ToSend(Cancel(d, k).queue) = {}
<1> DEFINE r == Cancel(d, k)
<1>1. /\ OnlyQueue(d, r) /\ Ordered(r.queue)
      /\ Single(d.queue, k) => OfKind(r.queue, k) = {}
      /\ \A kk \in Events :
           /\ Single(d.queue, kk) => Single(r.queue, kk)
           /\ OfKind(r.queue, kk) \subseteq OfKind(d.queue, kk)
           /\ kk # k => OfKind(r.queue, kk) = OfKind(d.queue, kk)
  BY CancelDevice DEF Frame
<1>2. "doSend" \in Events
  BY DEF Events
<1>3. Single(r.queue, "doSend") /\ OfKind(r.queue, "doSend") \subseteq OfKind(d.queue, "doSend")
  BY <1>1, <1>2 DEF Frame
<1>4. k = "doSend" => OfKind(r.queue, "doSend") = {}
  BY <1>1 DEF Frame
<1> HIDE DEF r
<1>5. KeepsBooks(d, r)
  BY <1>1, <1>3 DEF KeepsBooks, Frame, ToSend, OnlyQueue
<1>6. k = "doSend" => ToSend(r.queue) = {}
  BY <1>4 DEF ToSend
<1> QED
  BY <1>5, <1>6 DEF r

LEMMA PopKeeps ==
  ASSUME NEW d, Frame(d), d.queue # <<>>
  PROVE  LET r == [d EXCEPT !.queue = Tail(@)] IN
         /\ KeepsBooks(d, r)
         /\ Head(d.queue).kind = "doSend" => ToSend(r.queue) = {}
                                             /\ Head(d.queue).arg \in ToSend(d.queue)
<1> DEFINE r == [d EXCEPT !.queue = Tail(@)]
           h == Head(d.queue)
<1>1. OnlyQueue(d, r) /\ Dequeued(d.queue, r.queue, h) /\ h \in OfKind(d.queue, h.kind)
  BY PopDevice DEF Frame
<1>2. "doSend" \in Events
  BY DEF Events
<1> HIDE DEF r, h
<1>3. /\ Ordered(r.queue) /\ Single(r.queue, "doSend")
      /\ OfKind(r.queue, "doSend") \subseteq OfKind(d.queue, "doSend")
      /\ h.kind = "doSend" => OfKind(r.queue, "doSend") = {}
  BY <1>1, <1>2 DEF Frame, Dequeued
<1>4. KeepsBooks(d, r)
  BY <1>1, <1>3 DEF KeepsBooks, Frame, ToSend, OnlyQueue
<1>5. h.kind = "doSend" => ToSend(r.queue) = {} /\ h.arg \in ToSend(d.queue)
  BY <1>1, <1>3 DEF ToSend
<1> QED
  BY <1>4, <1>5 DEF r, h

\* The PHY's changes of state do not touch the books.
LEMMA PhyKeeps ==
  ASSUME NEW d, Frame(d)
  PROVE  /\ KeepsBooks(d, SwitchToStandby(d)) /\ KeepsBooks(d, SwitchToSleep(d))
         /\ \A why \in Faults \ {"none"} : KeepsBooks(d, Abort(d, why))
         /\ \A t \in Int : KeepsBooks(d, [d EXCEPT !.secondTs = t])
         /\ KeepsBooks(d, [d EXCEPT !.phy = "RX"])
<1>1. \A why \in Faults \ {"none"} : KeepsBooks(d, Abort(d, why))
  BY DEF KeepsBooks, Frame, Abort, Device
<1>2. KeepsBooks(d, SwitchToStandby(d))
  BY DEF KeepsBooks, Frame, SwitchToStandby, Device, Radio
<1>3. KeepsBooks(d, [d EXCEPT !.phy = "SLEEP"]) /\ KeepsBooks(d, [d EXCEPT !.phy = "RX"])
  BY DEF KeepsBooks, Frame, Device, Radio
<1>4. \A t \in Int : KeepsBooks(d, [d EXCEPT !.secondTs = t])
  BY DEF KeepsBooks, Frame, Device
<1>5. KeepsBooks(d, Abort(d, "sleepAssert"))
  BY <1>1 DEF Faults
<1> QED
  BY <1>1, <1>2, <1>3, <1>4, <1>5 DEF SwitchToSleep

-----------------------------------------------------------------------------
(* Reports and resets.                                                     *)

LEMMA Constants ==
  /\ NumPackets \in Nat /\ MaxNumbTx \in 1 .. 255 /\ DutyWait \in Nat /\ NumNoise \in Nat
  /\ TxTime \in Nat /\ Delay1 \in Nat /\ Delay2 \in Nat /\ Window \in Nat
  /\ AckTimeouts \subseteq Nat /\ CopyFlags \subseteq BOOLEAN /\ Confirmed \in BOOLEAN
  /\ Durations \subseteq Nat /\ Contents \subseteq AllContents /\ AppFlag \in BOOLEAN
<1>1. MaxNumbTx \in Nat \ {0} /\ MaxNumbTx < 256
  BY EndDeviceAssumption
<1> QED
  BY <1>1, EndDeviceAssumption DEF AllContents

OnlyReport(d, n, x) == \E i \in DOMAIN d.reports : Reported(d, n) = {i} /\ d.reports[i] = x

LEMMA Appended ==
  ASSUME NEW d \in Device, NEW r, NEW x \in Reports, r.reports = Append(d.reports, x)
  PROVE  /\ r.reports \in Seq(Reports)
         /\ \A i \in DOMAIN d.reports : i \in DOMAIN r.reports /\ r.reports[i] = d.reports[i]
         /\ \A n \in 0 .. NumPackets : n # x.pkt => Reported(r, n) = Reported(d, n)
         /\ Reported(d, x.pkt) = {} => OnlyReport(r, x.pkt, x)
<1> DEFINE q == d.reports
<1>1. /\ Append(q, x) \in Seq(Reports) /\ Len(Append(q, x)) = Len(q) + 1 /\ Len(q) \in Nat
      /\ DOMAIN q = 1 .. Len(q) /\ Append(q, x)[Len(q) + 1] = x
      /\ \A i \in 1 .. Len(q) : Append(q, x)[i] = q[i]
  <2>1. q \in Seq(Reports)
    BY DEF Device
  <2> HIDE DEF q
  <2> QED
    BY <2>1, AppendProperties, LenProperties
<1>2. DOMAIN Append(q, x) = 1 .. (Len(q) + 1)
  BY <1>1, LenProperties
<1>3. \A i \in DOMAIN r.reports : i \in DOMAIN q \/ i = Len(q) + 1
  BY <1>1, <1>2
<1>4. /\ \A i \in DOMAIN q : i \in DOMAIN r.reports /\ r.reports[i] = q[i]
      /\ Len(q) + 1 \in DOMAIN r.reports /\ r.reports[Len(q) + 1] = x
  BY <1>1, <1>2
<1>5. \A n \in 0 .. NumPackets : n # x.pkt => Reported(r, n) = Reported(d, n)
  BY <1>3, <1>4 DEF Reported
<1>6. Reported(d, x.pkt) = {} => Reported(r, x.pkt) = {Len(q) + 1}
  BY <1>3, <1>4 DEF Reported
<1> QED
  BY <1>1, <1>4, <1>5, <1>6 DEF OnlyReport

LEMMA ResetDevice ==
  ASSUME NEW e, Frame(e)
  PROVE  LET r == resetRetransmissionParameters(e) IN
         /\ Frame(r) /\ ToSend(r.queue) = {}
         /\ ~ r.waitingAck /\ r.waitingAck \in BOOLEAN /\ r.retxLeft = MaxNumbTx /\ r.retxPkt = NoPacket
         /\ r.onAir = e.onAir /\ r.reports = e.reports /\ r.fault = e.fault
<1> DEFINE f == [e EXCEPT !.waitingAck = FALSE, !.retxLeft = MaxNumbTx, !.retxPkt = NoPacket]
           r == Cancel(f, "doSend")
<1>1. NoPacket \in Pointers /\ "doSend" \in Events /\ MaxNumbTx \in 0 .. 255
  BY Constants DEF NoPacket, Pointers, Events
<1>2. /\ Frame(f) /\ ~ f.waitingAck /\ f.waitingAck \in BOOLEAN /\ f.retxLeft = MaxNumbTx
      /\ f.retxPkt = NoPacket
      /\ f.onAir = e.onAir /\ f.reports = e.reports /\ f.fault = e.fault
  BY <1>1 DEF Frame, Device
<1> HIDE DEF f
<1>3. KeepsBooks(f, r) /\ ToSend(r.queue) = {}
  BY <1>1, <1>2, CancelKeeps
<1>4. OnlyQueue(f, r)
  BY <1>1, <1>2, CancelDevice DEF Frame
<1>5. r = resetRetransmissionParameters(e)
  BY DEF resetRetransmissionParameters, f
<1> HIDE DEF r
<1> QED
  BY <1>2, <1>3, <1>4, <1>5 DEF KeepsBooks, OnlyQueue

LEMMA ReportDevice ==
  ASSUME NEW d, Frame(d), NEW success \in BOOLEAN
  PROVE  LET r == Report(d, success)
             x == [pkt |-> d.retxPkt.pkt, success |-> success, txs |-> (MaxNumbTx - d.retxLeft) % 256]
         IN /\ Frame(r) /\ r.reports = Append(d.reports, x) /\ x \in Reports
            /\ r.onAir = d.onAir /\ r.fault = d.fault /\ r.queue = d.queue
<1> DEFINE x == [pkt |-> d.retxPkt.pkt, success |-> success, txs |-> (MaxNumbTx - d.retxLeft) % 256]
<1>1. x \in Reports
  <2>1. d.retxPkt.pkt \in 0 .. NumPackets
    BY DEF Frame, Device, Pointers
  <2>2. MaxNumbTx - d.retxLeft \in Int
    <3>1. MaxNumbTx \in Int
      BY Constants
    <3>2. d.retxLeft \in 0 .. 255
      BY DEF Frame, Device
    <3> QED
      BY <3>1, <3>2
  <2>3. (MaxNumbTx - d.retxLeft) % 256 \in 0 .. 255
    BY <2>2
  <2> QED
    BY <2>1, <2>3 DEF Reports
<1>2. Append(d.reports, x) \in Seq(Reports)
  BY <1>1, AppendProperties DEF Frame, Device
<1>3. Report(d, success) = [d EXCEPT !.reports = Append(d.reports, x)]
  BY DEF Report
<1> HIDE DEF x
<1>4. Frame([d EXCEPT !.reports = Append(d.reports, x)])
  BY <1>2 DEF Frame, Device
<1>5. /\ [d EXCEPT !.reports = Append(d.reports, x)].reports = Append(d.reports, x)
      /\ [d EXCEPT !.reports = Append(d.reports, x)].onAir = d.onAir
      /\ [d EXCEPT !.reports = Append(d.reports, x)].fault = d.fault
      /\ [d EXCEPT !.reports = Append(d.reports, x)].queue = d.queue
  BY DEF Frame, Device
<1> QED
  BY <1>1, <1>3, <1>4, <1>5 DEF x

\* A procedure ends: with a report, if it was under way or an unconfirmed
\* packet's windows are over, and nothing left to send.
Closed(d, success) == resetRetransmissionParameters(Report(d, success))

Over(d, r, s) ==
  /\ Strong(r, s) /\ ToSend(r.queue) = {} /\ ~ r.waitingAck /\ r.retxPkt = NoPacket
  /\ r.retxLeft = MaxNumbTx /\ r.fault = d.fault
  /\ \A n \in 1 .. NumPackets : Fresh(d, n) => Fresh(r, n)

LEMMA ResetBooks ==
  ASSUME NEW s \in 0 .. NumPackets, NEW d, Strong(d, s), ~ d.waitingAck
  PROVE  Over(d, resetRetransmissionParameters(d), s)
<1> DEFINE r == resetRetransmissionParameters(d)
<1>1. Frame(d) /\ d.retxPkt = NoPacket /\ NoPacket.pkt = 0
  BY DEF Strong, Books, Procedure, NoPacket
<1>2. /\ Frame(r) /\ ToSend(r.queue) = {}
      /\ ~ r.waitingAck /\ r.waitingAck \in BOOLEAN /\ r.retxLeft = MaxNumbTx /\ r.retxPkt = NoPacket
      /\ r.onAir = d.onAir /\ r.reports = d.reports /\ r.fault = d.fault
  BY <1>1, ResetDevice
<1> HIDE DEF r
<1>3. \A n : Fresh(d, n) => Fresh(r, n)
  BY <1>1, <1>2 DEF Fresh, Reported
<1>4. Books(r, s)
  BY <1>1, <1>2, <1>3 DEF Strong, Books, Procedure, ReportedAtMostOnce, TrueReports, Reported
<1>5. Tally(r, 0)
  BY <1>2 DEF Tally
<1> QED
  BY <1>2, <1>3, <1>4, <1>5 DEF Over, Strong, r

LEMMA ClosedBooks ==
  ASSUME NEW s \in 0 .. NumPackets, NEW d, Strong(d, s), NEW success \in BOOLEAN
  PROVE  Over(d, Closed(d, success), s)
<1> DEFINE e == Report(d, success)
           r == Closed(d, success)
           m == d.retxPkt.pkt
           x == [pkt |-> m, success |-> success, txs |-> (MaxNumbTx - d.retxLeft) % 256]
<1>1. Frame(d) /\ d \in Device
  BY DEF Strong, Books, Frame
<1>2. /\ Frame(e) /\ e.reports = Append(d.reports, x) /\ x \in Reports
      /\ e.onAir = d.onAir /\ e.fault = d.fault
  BY <1>1, ReportDevice
<1>3. /\ Frame(r) /\ ToSend(r.queue) = {}
      /\ ~ r.waitingAck /\ r.waitingAck \in BOOLEAN /\ r.retxLeft = MaxNumbTx /\ r.retxPkt = NoPacket
      /\ r.onAir = e.onAir /\ r.reports = e.reports /\ r.fault = e.fault
  BY <1>2, ResetDevice DEF Closed
<1>4. x.pkt = m /\ x.txs = (MaxNumbTx - d.retxLeft) % 256
  OBVIOUS
<1> HIDE DEF e, r, x, m
<1>5. /\ r.reports \in Seq(Reports)
      /\ \A i \in DOMAIN d.reports : i \in DOMAIN r.reports /\ r.reports[i] = d.reports[i]
      /\ \A n \in 0 .. NumPackets : n # m => Reported(r, n) = Reported(d, n)
      /\ Reported(d, m) = {} => OnlyReport(r, m, x)
  <2>1. r.reports = Append(d.reports, x)
    BY <1>2, <1>3
  <2>2. /\ r.reports \in Seq(Reports)
        /\ \A i \in DOMAIN d.reports : i \in DOMAIN r.reports /\ r.reports[i] = d.reports[i]
        /\ \A n \in 0 .. NumPackets : n # x.pkt => Reported(r, n) = Reported(d, n)
        /\ Reported(d, x.pkt) = {} => OnlyReport(r, x.pkt, x)
    <3>1. d \in Device /\ x \in Reports
      BY <1>1, <1>2
    <3> QED
      BY <2>1, <3>1, Appended
  <2> QED
    BY <1>4, <2>2
<1>6. m \in 0 .. s /\ (m # 0 => d.waitingAck) /\ NoPacket.pkt = 0 /\ s <= NumPackets
  BY Constants DEF Strong, Books, Procedure, NoPacket, m
<1>7. \A n \in 1 .. NumPackets : Fresh(d, n) => Fresh(r, n)
  <2> SUFFICES ASSUME NEW n \in 1 .. NumPackets, Fresh(d, n) PROVE Fresh(r, n)
    OBVIOUS
  <2>1. n # m
    BY <1>6 DEF Fresh, m
  <2>2. Reported(r, n) = {}
    BY <1>5, <2>1 DEF Fresh
  <2> QED
    BY <1>2, <1>3, <1>6, <2>2 DEF Fresh
<1>8. m # 0 => Reported(d, m) = {}
  <2>1. m # 0 => m \in 1 .. NumPackets
    BY <1>6, Constants
  <2> QED
    BY <2>1 DEF Strong, Books, ReportedAtMostOnce, m
<1>9. ReportedAtMostOnce(r)
  <2> SUFFICES ASSUME NEW n \in 1 .. NumPackets, Reported(r, n) # {}
               PROVE  r.retxPkt.pkt # n /\ \E i \in DOMAIN r.reports : Reported(r, n) = {i}
    BY DEF ReportedAtMostOnce
  <2>1. r.retxPkt.pkt # n
    BY <1>3, <1>6
  <2>2. CASE n = m
    BY <1>5, <1>8, <2>1, <2>2 DEF OnlyReport
  <2>3. CASE n # m
    <3>1. Reported(r, n) = Reported(d, n)
      BY <1>5, <2>3
    <3>2. PICK i \in DOMAIN d.reports : Reported(d, n) = {i}
      BY <3>1 DEF Strong, Books, ReportedAtMostOnce
    <3> QED
      BY <1>5, <2>1, <3>1, <3>2
  <2> QED
    BY <2>2, <2>3
<1>10. ASSUME FlaggedCopies PROVE TrueReports(r)
  <2> SUFFICES ASSUME NEW n \in 1 .. NumPackets, NEW i \in Reported(r, n)
               PROVE  r.reports[i].txs = r.onAir[n] % 256
    BY DEF TrueReports
  <2>1. CASE n = m
    <3>1. r.reports[i] = x
      BY <1>5, <1>8, <2>1 DEF OnlyReport
    <3>2. Tally(d, 0) /\ d.waitingAck
      BY <1>6, <1>10, <2>1 DEF Strong
    <3>3. d.onAir[m] \in Nat
      BY <1>1, <2>1 DEF Device
    <3> QED
      BY <1>2, <1>3, <1>4, <2>1, <3>1, <3>2, <3>3 DEF Tally, m
  <2>2. CASE n # m
    <3>1. i \in Reported(d, n) /\ r.reports[i] = d.reports[i]
      BY <1>5, <2>2 DEF Reported
    <3> QED
      BY <1>2, <1>3, <1>10, <3>1 DEF Strong, Books, TrueReports
  <2> QED
    BY <2>1, <2>2
<1>11. Books(r, s)
  <2>1. \A n \in (s + 1) .. NumPackets : Fresh(r, n)
    <3> SUFFICES ASSUME NEW n \in (s + 1) .. NumPackets PROVE Fresh(r, n)
      OBVIOUS
    <3>1. n \in 1 .. NumPackets /\ Fresh(d, n)
      BY DEF Strong, Books
    <3> QED
      BY <1>7, <3>1
  <2>2. Procedure(r, s)
    BY <1>3 DEF Procedure
  <2> QED
    BY <1>3, <1>9, <1>10, <2>1, <2>2 DEF Books
<1>12. Tally(r, 0)
  BY <1>3 DEF Tally
<1> QED
  BY <1>2, <1>3, <1>7, <1>11, <1>12 DEF Over, Strong, r

-----------------------------------------------------------------------------
(* Transmissions.                                                          *)

\* What a transmission of packet n may do to the books: at most count it.
Counts(d, r, n, sure) ==
  /\ Frame(r) /\ ToSend(r.queue) = ToSend(d.queue)
  /\ r.waitingAck = d.waitingAck /\ r.retxLeft = d.retxLeft /\ r.retxPkt = d.retxPkt
  /\ r.reports = d.reports
  /\ r.fault = "none" => d.fault = "none"
  /\ \A m \in (1 .. NumPackets) \ {n} : r.onAir[m] = d.onAir[m]
  /\ r.onAir[n] \in {d.onAir[n], d.onAir[n] + 1}
  /\ sure /\ r.fault = "none" => r.onAir[n] = d.onAir[n] + 1

LEMMA SwitchToTxCounts ==
  ASSUME NEW d, Frame(d), NEW p \in Pointers, p.pkt \in 1 .. NumPackets
  PROVE  Counts(d, SwitchToTx(d, p), p.pkt, TRUE)
<1> DEFINE e == [d EXCEPT !.phy = "TX", !.onAir[p.pkt] = @ + 1]
           r == Schedule(e, "standby", TxTime, p)
<1>1. /\ Frame(e) /\ e.queue = d.queue
      /\ e.waitingAck = d.waitingAck /\ e.retxLeft = d.retxLeft /\ e.retxPkt = d.retxPkt
      /\ e.reports = d.reports /\ e.fault = d.fault
      /\ \A m \in (1 .. NumPackets) \ {p.pkt} : e.onAir[m] = d.onAir[m]
      /\ e.onAir[p.pkt] = d.onAir[p.pkt] + 1
  <2> DEFINE a == [d.onAir EXCEPT ![p.pkt] = @ + 1]
  <2>0. d.onAir \in [1 .. NumPackets -> Nat] /\ NumPackets \in Nat
    BY Constants DEF Frame, Device
  <2>1. a \in [1 .. NumPackets -> Nat]
    BY <2>0
  <2>2. /\ \A m \in (1 .. NumPackets) \ {p.pkt} : a[m] = d.onAir[m]
        /\ a[p.pkt] = d.onAir[p.pkt] + 1
    BY <2>0
  <2>3. e = [d EXCEPT !.phy = "TX", !.onAir = a]
    OBVIOUS
  <2> HIDE DEF a, e
  <2>4. /\ e.phy = "TX" /\ e.onAir = a /\ e \in Device /\ e.queue = d.queue
        /\ e.waitingAck = d.waitingAck /\ e.retxLeft = d.retxLeft /\ e.retxPkt = d.retxPkt
        /\ e.reports = d.reports /\ e.fault = d.fault
    BY <2>1, <2>3, ZenonT(60) DEF Frame, Device, Radio
  <2> QED
    BY <2>2, <2>4 DEF Frame
<1> HIDE DEF e
<1>2. "standby" \in Events \ {"doSend"} /\ TxTime \in Nat /\ p \in Args
  BY Constants DEF Events, Args
<1>3. KeepsBooks(e, r) /\ ToSend(r.queue) = ToSend(e.queue)
  BY <1>1, <1>2, ScheduleKeeps
<1>4. SwitchToTx(d, p) = r
  BY DEF SwitchToTx, e
<1> HIDE DEF r
<1> QED
  BY <1>1, <1>3, <1>4 DEF Counts, KeepsBooks

LEMMA CountsAfter ==
  ASSUME NEW d, NEW e, NEW r, NEW n, NEW sure \in BOOLEAN, Counts(d, e, n, sure), KeepsBooks(e, r),
         ToSend(r.queue) = ToSend(e.queue)
  PROVE  Counts(d, r, n, sure)
BY DEF Counts, KeepsBooks

LEMMA NoTransmission ==
  ASSUME NEW d, Frame(d), NEW n \in 1 .. NumPackets
  PROVE  /\ Counts(d, d, n, FALSE)
         /\ \A why \in Faults \ {"none"} : Counts(d, Abort(d, why), n, TRUE)
<1>1. Counts(d, d, n, FALSE)
  BY DEF Counts
<1>2. ASSUME NEW why \in Faults \ {"none"} PROVE Counts(d, Abort(d, why), n, TRUE)
  <2>1. KeepsBooks(d, Abort(d, why))
    BY PhyKeeps
  <2>2. Abort(d, why).fault = why /\ Abort(d, why).queue = d.queue
    BY DEF Abort, Frame, Device
  <2> QED
    BY <2>1, <2>2 DEF Counts, KeepsBooks
<1> QED
  BY <1>1, <1>2

LEMMA SendToPhyCounts ==
  ASSUME NEW d, Frame(d), NEW p \in Pointers, p.pkt \in 1 .. NumPackets
  PROVE  Counts(d, SendToPhy(d, p), p.pkt, p.flag)
<1>0. p.flag \in BOOLEAN /\ {"sleepAssert", "txAssert", "nullChannel", "closeInTx"} \subseteq Faults \ {"none"}
  BY DEF Pointers, Faults
<1>1. CASE d.duty # 0
  <2>1. Counts(d, Abort(d, "nullChannel"), p.pkt, TRUE)
    BY <1>0, NoTransmission
  <2> QED
    BY <1>0, <1>1, <2>1 DEF SendToPhy, Counts
<1>2. CASE d.duty = 0
  <2> DEFINE e == IF p.flag THEN PhySendI(d, p) ELSE PhySend(d, p)
  <2>1. ASSUME p.flag = TRUE PROVE Counts(d, e, p.pkt, p.flag)
    <3>1. PhySendI(d, p) = IF Asserts /\ d.phy = "RX" THEN Abort(d, "txAssert")
                           ELSE Schedule(SwitchToTx(d, p), "txFinished", TxTime, p)
      BY DEF PhySendI
    <3>2. Counts(d, Abort(d, "txAssert"), p.pkt, TRUE)
      BY <1>0, NoTransmission
    <3>3. Counts(d, Schedule(SwitchToTx(d, p), "txFinished", TxTime, p), p.pkt, TRUE)
      <4>1. Counts(d, SwitchToTx(d, p), p.pkt, TRUE)
        BY SwitchToTxCounts
      <4>2. "txFinished" \in Events \ {"doSend"} /\ TxTime \in Nat /\ p \in Args
        BY Constants DEF Events, Args
      <4>3. Frame(SwitchToTx(d, p))
        BY <4>1 DEF Counts
      <4>4. LET r == Schedule(SwitchToTx(d, p), "txFinished", TxTime, p) IN
            KeepsBooks(SwitchToTx(d, p), r) /\ ToSend(r.queue) = ToSend(SwitchToTx(d, p).queue)
        BY <4>2, <4>3, ScheduleKeeps
      <4> QED
        BY <4>1, <4>4, CountsAfter
    <3>4. Counts(d, PhySendI(d, p), p.pkt, TRUE)
      BY <3>1, <3>2, <3>3, Zenon
    <3>5. e = PhySendI(d, p)
      BY <2>1
    <3> HIDE DEF e
    <3> QED
      BY <2>1, <3>4, <3>5, Zenon
  <2>2. ASSUME p.flag = FALSE PROVE Counts(d, e, p.pkt, p.flag)
    <3>1. Counts(d, SwitchToTx(d, p), p.pkt, TRUE) /\ Counts(d, d, p.pkt, FALSE)
      BY SwitchToTxCounts, NoTransmission
    <3>2. Counts(d, SwitchToTx(d, p), p.pkt, FALSE)
      BY <3>1 DEF Counts
    <3>3. e = SwitchToTx(d, p) \/ e = d
      BY <2>2 DEF PhySend
    <3> HIDE DEF e
    <3> QED
      BY <2>2, <3>1, <3>2, <3>3, Zenon
  <2>3. Counts(d, e, p.pkt, p.flag)
    <3>1. p.flag = TRUE \/ p.flag = FALSE
      BY <1>0
    <3> HIDE DEF e
    <3> QED
      BY <2>1, <2>2, <3>1, Zenon
  <2>4. SendToPhy(d, p) = [e EXCEPT !.duty = DutyWait]
    BY <1>2 DEF SendToPhy
  <2> HIDE DEF e
  <2> DEFINE f == [e EXCEPT !.duty = DutyWait]
  <2>5. KeepsBooks(e, f) /\ f.queue = e.queue
    BY <2>3, Constants DEF Counts, KeepsBooks, Frame, Device
  <2> HIDE DEF f
  <2>6. ToSend(f.queue) = ToSend(e.queue)
    BY <2>5
  <2>7. Counts(d, f, p.pkt, p.flag)
    BY <1>0, <2>3, <2>5, <2>6, CountsAfter
  <2> QED
    BY <2>4, <2>7 DEF f
<1> QED
  BY <1>1, <1>2

\* A transmission keeps the books if it is of an unreported packet that the
\* queue does not take for a fresh one, and counted beforehand.
LEMMA SendToPhyBooks ==
  ASSUME NEW s \in 0 .. NumPackets, NEW d, Books(d, s),
         NEW p \in Pointers, p.pkt \in 1 .. s, Reported(d, p.pkt) = {},
         \A q \in ToSend(d.queue) : ~ q.copy => q.pkt # p.pkt,
         d.waitingAck => p = d.retxPkt,
         FlaggedCopies => Tally(d, 1)
  PROVE  Ledger(SendToPhy(d, p), s)
<1> DEFINE r == SendToPhy(d, p)
           n == p.pkt
<1>1. n \in 1 .. NumPackets /\ Frame(d) /\ d \in Device
  BY Constants DEF Books, Frame
<1>2. Counts(d, r, n, p.flag)
  BY <1>1, SendToPhyCounts
<1>3. \A m \in 1 .. NumPackets : Reported(r, m) = Reported(d, m)
  BY <1>2 DEF Counts, Reported
<1> HIDE DEF r, n
<1>4. \A m \in (1 .. NumPackets) \ {n} : Fresh(d, m) => Fresh(r, m)
  BY <1>2, <1>3 DEF Counts, Fresh
<1>5. \A q \in ToSend(r.queue) : Sendable(r, q, s)
  <2> SUFFICES ASSUME NEW q \in ToSend(r.queue) PROVE Sendable(r, q, s)
    OBVIOUS
  <2>1. q \in ToSend(d.queue) /\ Sendable(d, q, s)
    BY <1>2 DEF Counts, Books
  <2>2. ~ q.copy => q.pkt \in (1 .. NumPackets) \ {n} /\ Fresh(d, q.pkt)
    BY <2>1, Constants DEF Sendable, n
  <2> QED
    BY <1>2, <1>4, <2>1, <2>2 DEF Sendable, Counts
<1>6. \A m \in (s + 1) .. NumPackets : Fresh(r, m)
  <2> SUFFICES ASSUME NEW m \in (s + 1) .. NumPackets PROVE Fresh(r, m)
    OBVIOUS
  <2>1. m \in (1 .. NumPackets) \ {n} /\ Fresh(d, m)
    BY <1>1 DEF Books, n
  <2> QED
    BY <1>4, <2>1
<1>7. Procedure(r, s)
  BY <1>2 DEF Counts, Books, Procedure
<1>8. ReportedAtMostOnce(r)
  BY <1>2, <1>3 DEF Counts, Books, ReportedAtMostOnce
<1>9. ASSUME FlaggedCopies PROVE TrueReports(r)
  <2> SUFFICES ASSUME NEW m \in 1 .. NumPackets, NEW i \in Reported(r, m)
               PROVE  r.reports[i].txs = r.onAir[m] % 256
    BY DEF TrueReports
  <2>1. m # n /\ i \in Reported(d, m)
    BY <1>3 DEF n
  <2> QED
    BY <1>2, <1>9, <2>1 DEF Books, TrueReports, Counts
<1>10. ASSUME FlaggedCopies, r.fault = "none" PROVE Tally(r, 0)
  <2> SUFFICES ASSUME r.waitingAck
               PROVE  r.retxPkt.flag /\ (MaxNumbTx - r.retxLeft) % 256 = (r.onAir[r.retxPkt.pkt] + 0) % 256
    BY DEF Tally
  <2>1. d.waitingAck /\ p = d.retxPkt /\ r.retxPkt = p /\ r.retxLeft = d.retxLeft /\ Tally(d, 1)
    BY <1>2, <1>10 DEF Counts
  <2>2. p.flag /\ (MaxNumbTx - d.retxLeft) % 256 = (d.onAir[n] + 1) % 256
    BY <2>1 DEF Tally, n
  <2>3. r.onAir[n] = d.onAir[n] + 1
    BY <1>2, <1>10, <2>2 DEF Counts
  <2>4. d.onAir[n] + 1 \in Nat
    <3>1. d.onAir \in [1 .. NumPackets -> Nat] /\ NumPackets \in Nat
      BY <1>1, Constants DEF Device
    <3> QED
      BY <1>1, <3>1
  <2>5. (r.onAir[n] + 0) % 256 = (d.onAir[n] + 1) % 256
    BY <2>3, <2>4
  <2> QED
    BY <2>1, <2>2, <2>5 DEF n
<1>11. Frame(r)
  BY <1>2 DEF Counts
<1> QED
  BY <1>5, <1>6, <1>7, <1>8, <1>9, <1>10, <1>11 DEF Ledger, Books, r

\* A byte counts down while the attempts count up.
LEMMA ByteTally ==
  ASSUME NEW m \in Int, NEW l \in Int, NEW a \in Int, (m - l) % 256 = a % 256
  PROVE  (l - 1) % 256 \in 0 .. 255 /\ (m - ((l - 1) % 256)) % 256 = (a + 1) % 256
OBVIOUS

LEMMA StrongIsLedger ==
  ASSUME NEW d, NEW s, Strong(d, s)
  PROVE  Ledger(d, s)
BY DEF Strong, Ledger

\* A new packet ends the procedure of the previous one and begins its own.
LEMMA NewPacketBooks ==
  ASSUME NEW s \in 0 .. NumPackets, NEW d, Strong(d, s), NEW p, Sendable(d, p, s), ~ p.copy,
         NEW flag \in CopyFlags
  PROVE  /\ p # d.retxPkt
         /\ Ledger(DoSend(d, p, flag), s)
<1> DEFINE ended == IF d.waitingAck THEN Report(d, FALSE) ELSE d
           e == resetRetransmissionParameters(ended)
           n == p.pkt
           copy == [p EXCEPT !.copy = TRUE, !.flag = flag]
           g == [e EXCEPT !.retxPkt = copy, !.waitingAck = TRUE, !.retxLeft = @ - 1]
<1>1. n \in 1 .. s /\ n \in 1 .. NumPackets /\ p \in Pointers /\ Fresh(d, n)
  BY Constants DEF Sendable
<1>2. p # d.retxPkt
  BY <1>1, Constants DEF Fresh
<1>3. Over(d, e, s)
  <2>1. CASE d.waitingAck
    <3>1. FALSE \in BOOLEAN
      BY Zenon
    <3>2. e = Closed(d, FALSE)
      BY <2>1 DEF Closed
    <3> QED
      BY <3>1, <3>2, ClosedBooks
  <2>2. CASE ~ d.waitingAck
    BY <2>2, ResetBooks
  <2> QED
    BY <2>1, <2>2
<1>4. DoSend(d, p, flag) = IF Confirmed THEN SendToPhy(g, copy) ELSE SendToPhy(e, p)
  BY <1>2 DEF DoSend
<1> HIDE DEF e
<1>5. /\ Strong(e, s) /\ ToSend(e.queue) = {} /\ ~ e.waitingAck /\ e.retxPkt = NoPacket
      /\ e.retxLeft = MaxNumbTx /\ Fresh(e, n)
  BY <1>1, <1>3 DEF Over
<1>6. Books(e, s) /\ Reported(e, n) = {} /\ e.onAir[n] = 0 /\ e \in Device /\ Frame(e)
  BY <1>5 DEF Strong, Fresh, Books, Frame
<1>7. Ledger(SendToPhy(e, p), s)
  <2>1. Tally(e, 1)
    BY <1>5 DEF Tally
  <2> QED
    BY <1>1, <1>5, <1>6, <2>1, SendToPhyBooks
<1>8. Ledger(SendToPhy(g, copy), s)
  <2>1. flag \in BOOLEAN /\ TRUE \in BOOLEAN
    BY Constants, Zenon
  <2>2. copy \in Pointers /\ copy.pkt = n /\ copy.copy /\ copy.copy \in BOOLEAN /\ copy.flag = flag
    BY <1>1, <2>1 DEF Pointers
  <2> HIDE DEF copy, n
  <2>3. e.retxLeft - 1 \in 0 .. 255 /\ MaxNumbTx \in Int
    BY <1>5, Constants
  <2>4. /\ g \in Device /\ g.queue = e.queue /\ g.waitingAck = TRUE /\ g.retxPkt = copy
        /\ g.retxLeft = e.retxLeft - 1 /\ g.onAir = e.onAir /\ g.reports = e.reports
    <3> DEFINE l == e.retxLeft - 1
    <3>1. g = [e EXCEPT !.retxPkt = copy, !.waitingAck = TRUE, !.retxLeft = l]
      OBVIOUS
    <3>2. l \in 0 .. 255
      BY <2>3
    <3>3. e \in Device
      BY <1>6
    <3> HIDE DEF l, g
    <3>4. /\ g \in Device /\ g.queue = e.queue /\ g.waitingAck = TRUE /\ g.retxPkt = copy
          /\ g.retxLeft = l /\ g.onAir = e.onAir /\ g.reports = e.reports
      BY <2>1, <2>2, <3>1, <3>2, <3>3 DEF Device
    <3> QED
      BY <3>4 DEF l
  <2> HIDE DEF g
  <2>5. \A m : Reported(g, m) = Reported(e, m)
    BY <2>4 DEF Reported
  <2>6. Books(g, s)
    <3>1. Frame(g)
      BY <1>6, <2>4 DEF Frame
    <3>2. \A m \in (s + 1) .. NumPackets : Fresh(g, m)
      <4> SUFFICES ASSUME NEW m \in (s + 1) .. NumPackets PROVE Fresh(g, m)
        OBVIOUS
      <4>1. n < m /\ Fresh(e, m)
        BY <1>1, <1>6, Constants DEF Books
      <4> QED
        BY <2>2, <2>4, <2>5, <4>1 DEF Fresh
    <3>3. Procedure(g, s)
      BY <1>1, <2>2, <2>4 DEF Procedure
    <3>4. ReportedAtMostOnce(g)
      BY <1>6, <2>2, <2>4, <2>5 DEF Books, ReportedAtMostOnce
    <3>5. FlaggedCopies => TrueReports(g)
      BY <1>6, <2>4, <2>5 DEF Books, TrueReports
    <3> QED
      BY <1>5, <2>4, <3>1, <3>2, <3>3, <3>4, <3>5 DEF Books
  <2>7. FlaggedCopies => Tally(g, 1)
    <3> SUFFICES ASSUME FlaggedCopies PROVE copy.flag /\ (MaxNumbTx - g.retxLeft) % 256 = (g.onAir[n] + 1) % 256
      BY <2>2, <2>4 DEF Tally
    <3>1. copy.flag
      BY <2>2 DEF FlaggedCopies
    <3>2. MaxNumbTx - g.retxLeft = 1 /\ g.onAir[n] = 0
      BY <1>5, <1>6, <2>3, <2>4
    <3> QED
      BY <3>1, <3>2
  <2>8. Reported(g, copy.pkt) = {} /\ copy.pkt \in 1 .. s /\ ToSend(g.queue) = {}
    BY <1>1, <1>5, <1>6, <2>2, <2>4, <2>5
  <2> QED
    BY <2>2, <2>4, <2>6, <2>7, <2>8, SendToPhyBooks
<1> QED
  BY <1>2, <1>4, <1>7, <1>8

\* Another attempt of the packet under retransmission.
LEMMA RetransmissionBooks ==
  ASSUME NEW s \in 0 .. NumPackets, NEW d, Strong(d, s), d.waitingAck, NEW flag \in CopyFlags
  PROVE  Ledger(DoSend(d, d.retxPkt, flag), s)
<1> DEFINE p == d.retxPkt
           g == [d EXCEPT !.retxLeft = (@ - 1) % 256]
<1>1. /\ d \in Device /\ Frame(d) /\ p \in Pointers /\ p.copy /\ p.pkt \in 1 .. s /\ p.pkt \in 1 .. NumPackets
      /\ d.retxLeft \in Int /\ MaxNumbTx \in Int
  <2>1. d \in Device /\ Frame(d) /\ p.copy /\ p.pkt \in 1 .. s
    BY DEF Strong, Books, Frame, Procedure
  <2>2. p \in Pointers /\ d.retxLeft \in 0 .. 255
    BY <2>1 DEF Device
  <2>3. MaxNumbTx \in Int /\ s \in Int /\ s <= NumPackets /\ NumPackets \in Int
    BY Constants
  <2> HIDE DEF p
  <2>4. p.pkt \in 1 .. NumPackets /\ d.retxLeft \in Int
    BY <2>1, <2>2, <2>3
  <2> QED
    BY <2>1, <2>2, <2>3, <2>4
<1>2. Reported(d, p.pkt) = {}
  BY <1>1 DEF Strong, Books, ReportedAtMostOnce
<1>3. DoSend(d, p, flag) = SendToPhy(g, p)
  BY DEF DoSend
<1>4. (d.retxLeft - 1) % 256 \in 0 .. 255
  BY <1>1
<1>5. /\ g \in Device /\ g.queue = d.queue /\ g.waitingAck = d.waitingAck /\ g.retxPkt = d.retxPkt
      /\ g.retxLeft = (d.retxLeft - 1) % 256 /\ g.onAir = d.onAir /\ g.reports = d.reports
  <2> DEFINE l == (d.retxLeft - 1) % 256
  <2>1. d \in Device /\ l \in 0 .. 255 /\ g = [d EXCEPT !.retxLeft = l]
    BY <1>1, <1>4
  <2> HIDE DEF l, g
  <2>2. /\ g \in Device /\ g.queue = d.queue /\ g.waitingAck = d.waitingAck /\ g.retxPkt = d.retxPkt
        /\ g.retxLeft = l /\ g.onAir = d.onAir /\ g.reports = d.reports
    BY <2>1, ZenonT(60) DEF Device
  <2> QED
    BY <2>2 DEF l
<1> HIDE DEF g
<1>6. \A m : Reported(g, m) = Reported(d, m)
  BY <1>5 DEF Reported
<1>7. \A m : Fresh(d, m) => Fresh(g, m)
  BY <1>5, <1>6 DEF Fresh
<1>8. \A q : Sendable(d, q, s) => Sendable(g, q, s)
  BY <1>5, <1>7 DEF Sendable
<1>9. Books(g, s)
  BY <1>1, <1>5, <1>6, <1>7, <1>8
     DEF Strong, Books, Frame, Procedure, ReportedAtMostOnce, TrueReports
<1>10. FlaggedCopies => Tally(g, 1)
  <2> SUFFICES ASSUME FlaggedCopies
               PROVE  p.flag /\ (MaxNumbTx - g.retxLeft) % 256 = (g.onAir[p.pkt] + 1) % 256
    BY <1>5 DEF Tally
  <2>1. d.onAir[p.pkt] \in Int
    <3>1. d.onAir \in [1 .. NumPackets -> Nat] /\ p.pkt \in 1 .. NumPackets
      BY <1>1 DEF Device
    <3>2. \A f, n : f \in [1 .. NumPackets -> Nat] /\ n \in 1 .. NumPackets => f[n] \in Int
      OBVIOUS
    <3> HIDE DEF p
    <3> QED
      BY <3>1, <3>2
  <2>2. p.flag /\ (MaxNumbTx - d.retxLeft) % 256 = (d.onAir[p.pkt] + 0) % 256
    BY DEF Strong, Tally
  <2>3. (d.onAir[p.pkt] + 0) = d.onAir[p.pkt]
    BY <2>1
  <2>4. (MaxNumbTx - ((d.retxLeft - 1) % 256)) % 256 = (d.onAir[p.pkt] + 1) % 256
    <3> DEFINE l == d.retxLeft
               a == d.onAir[p.pkt]
    <3>1. l \in Int /\ a \in Int /\ MaxNumbTx \in Int /\ (MaxNumbTx - l) % 256 = a % 256
      BY <1>1, <2>1, <2>2, <2>3
    <3> HIDE DEF l, a
    <3>2. (MaxNumbTx - ((l - 1) % 256)) % 256 = (a + 1) % 256
      BY <3>1, ByteTally
    <3> QED
      BY <3>2 DEF l, a
  <2>5. g.retxLeft = (d.retxLeft - 1) % 256 /\ g.onAir = d.onAir /\ p.flag
    BY <1>5, <2>2
  <2>6. (MaxNumbTx - g.retxLeft) % 256 = (g.onAir[p.pkt] + 1) % 256
    BY <2>4, <2>5, ZenonT(40)
  <2> QED
    BY <2>5, <2>6, Zenon
<1>11. \A q \in ToSend(g.queue) : ~ q.copy => q.pkt # p.pkt
  BY <1>1, <1>5, Constants DEF Strong, Books, Sendable, Fresh
<1> HIDE DEF p
<1>12. Ledger(SendToPhy(g, p), s)
  BY <1>1, <1>2, <1>5, <1>6, <1>9, <1>10, <1>11, SendToPhyBooks DEF p
<1> QED
  BY <1>3, <1>12 DEF p

LEMMA DoSendBooks ==
  ASSUME NEW s \in 0 .. NumPackets, NEW d, Strong(d, s), NEW p, Sendable(d, p, s), NEW flag \in CopyFlags
  PROVE  Ledger(DoSend(d, p, flag), s)
<1>1. CASE p.copy
  BY <1>1, RetransmissionBooks DEF Sendable
<1>2. CASE ~ p.copy
  BY <1>2, NewPacketBooks
<1> QED
  BY <1>1, <1>2

LEMMA PostponeBooks ==
  ASSUME NEW s \in 0 .. NumPackets, NEW d, Strong(d, s), NEW p, Sendable(d, p, s), NEW delay \in Nat
  PROVE  Strong(postponeTransmission(d, delay, p), s)
<1> DEFINE e == Cancel(d, "doSend")
           x == NewEvent("doSend", delay, p)
           r == Schedule(e, "doSend", delay, p)
<1>1. "doSend" \in Events /\ Frame(d) /\ p \in Args /\ p \in Pointers
  BY DEF Events, Strong, Books, Sendable, Args
<1>2. KeepsBooks(d, e) /\ ToSend(e.queue) = {}
  BY <1>1, CancelKeeps
<1>3. Strong(e, s) /\ Frame(e)
  BY <1>2, BooksKept DEF KeepsBooks
<1>4. Sendable(e, p, s)
  BY <1>2 DEF KeepsBooks, Sendable, Fresh, Reported
<1> HIDE DEF e
<1>5. OnlyQueue(e, r) /\ Enqueued(e.queue, r.queue, x)
  BY <1>1, <1>3, ScheduleDevice DEF Frame
<1>6. x.kind = "doSend" /\ x.arg = p
  BY DEF NewEvent
<1>7. OfKind(e.queue, "doSend") = {}
  BY <1>2 DEF ToSend
<1> HIDE DEF x, r
<1>8. OfKind(r.queue, "doSend") = {x} /\ Single(r.queue, "doSend") /\ Ordered(r.queue)
  BY <1>5, <1>6, <1>7 DEF Enqueued
<1>9. ToSend(r.queue) = {p} /\ Frame(r)
  BY <1>5, <1>6, <1>8 DEF ToSend, Frame, OnlyQueue
<1>10. \A m : Reported(r, m) = Reported(e, m)
  BY <1>5 DEF OnlyQueue, Reported
<1>11. \A m : Fresh(e, m) => Fresh(r, m)
  BY <1>5, <1>10 DEF OnlyQueue, Fresh
<1>12. Sendable(r, p, s)
  BY <1>4, <1>5, <1>11 DEF Sendable, OnlyQueue
<1>13. Books(r, s)
  BY <1>3, <1>5, <1>9, <1>10, <1>11, <1>12
     DEF Strong, Books, OnlyQueue, Procedure, ReportedAtMostOnce, TrueReports
<1>14. FlaggedCopies => Tally(r, 0)
  BY <1>3, <1>5 DEF Strong, OnlyQueue, Tally
<1>15. r = postponeTransmission(d, delay, p)
  BY DEF postponeTransmission, r, e
<1> QED
  BY <1>13, <1>14, <1>15 DEF Strong

LEMMA DelayIsNat ==
  ASSUME NEW d \in Device, NEW timeout \in AckTimeouts
  PROVE  GetNextTransmissionDelay(d, timeout) \in Nat
<1>1. d.duty \in Nat /\ d.secondTs \in Int /\ timeout \in Nat /\ Window \in Nat
  BY Constants DEF Device
<1> QED
  BY <1>1 DEF GetNextTransmissionDelay

LEMMA SendBooks ==
  ASSUME NEW s \in 0 .. NumPackets, NEW d, Strong(d, s), NEW p, Sendable(d, p, s),
         NEW timeout \in AckTimeouts, NEW flag \in CopyFlags
  PROVE  Ledger(Send(d, p, timeout, flag), s)
<1> DEFINE delay == GetNextTransmissionDelay(d, timeout)
<1>1. delay \in Nat
  BY DelayIsNat DEF Strong, Books, Frame
<1>2. Ledger(d, s) /\ Ledger(DoSend(d, p, flag), s)
  BY StrongIsLedger, DoSendBooks
<1>3. Ledger(postponeTransmission(d, delay, p), s)
  BY <1>1, PostponeBooks, StrongIsLedger
<1>4. Send(d, p, timeout, flag) \in {d, postponeTransmission(d, delay, p), DoSend(d, p, flag)}
  BY DEF Send
<1> HIDE DEF delay
<1> QED
  BY <1>2, <1>3, <1>4

LEMMA RetryBooks ==
  ASSUME NEW s \in 0 .. NumPackets, NEW d, Strong(d, s), d.waitingAck,
         NEW timeout \in AckTimeouts, NEW flag \in CopyFlags
  PROVE  Ledger(Retry(d, timeout, flag), s)
<1>1. Sendable(d, d.retxPkt, s)
  BY DEF Sendable, Strong, Books, Frame, Device, Procedure
<1>2. Ledger(Send(d, d.retxPkt, timeout, flag), s)
  BY <1>1, SendBooks
<1>3. Ledger(Closed(d, FALSE), s)
  <2>1. FALSE \in BOOLEAN
    BY Zenon
  <2> QED
    BY <2>1, ClosedBooks, StrongIsLedger DEF Over
<1> QED
  BY <1>2, <1>3 DEF Retry, Closed

-----------------------------------------------------------------------------
(* Receptions.                                                             *)

LEMMA ParseAckBooks ==
  ASSUME NEW s \in 0 .. NumPackets, NEW d, Strong(d, s)
  PROVE  Strong(ParseAck(d), s)
<1>1. TRUE \in BOOLEAN
  BY Zenon
<1>2. Strong(Closed(d, TRUE), s)
  BY <1>1, ClosedBooks DEF Over
<1> QED
  BY <1>2 DEF ParseAck, Closed

LEMMA AsleepBooks ==
  ASSUME NEW s, NEW d
  PROVE  /\ Ledger(d, s) => Ledger(SwitchToSleep(d), s)
         /\ Strong(d, s) => Strong(SwitchToSleep(d), s)
<1>1. Ledger(d, s) \/ Strong(d, s) => Frame(d)
  BY DEF Ledger, Strong, Books
<1>2. Frame(d) => KeepsBooks(d, SwitchToSleep(d))
  BY PhyKeeps
<1> QED
  BY <1>1, <1>2, BooksKept

LEMMA ReceiveBooks ==
  ASSUME NEW s \in 0 .. NumPackets, NEW d, Strong(d, s), NEW content,
         NEW timeout \in AckTimeouts, NEW flag \in CopyFlags
  PROVE  Ledger(Receive(d, content, timeout, flag), s)
<1> DEFINE forUs == Cancel(d, "openSecond")
           notForUs == IF d.waitingAck /\ ~ IsPending(d, "openSecond")
                         THEN Retry(d, timeout, flag) ELSE d
           heard == IF content = "ack" THEN ParseAck(forUs)
                    ELSE IF content = "data" THEN forUs ELSE notForUs
<1>1. Strong(forUs, s)
  <2>1. "openSecond" \in Events /\ Frame(d)
    BY DEF Events, Strong, Books
  <2> QED
    BY <2>1, CancelKeeps, BooksKept
<1>2. Ledger(notForUs, s)
  BY RetryBooks, StrongIsLedger
<1> HIDE DEF forUs, notForUs
<1>3. Ledger(forUs, s) /\ Ledger(ParseAck(forUs), s)
  BY <1>1, ParseAckBooks, StrongIsLedger
<1>4. Ledger(heard, s)
  BY <1>2, <1>3
<1>5. Receive(d, content, timeout, flag) = SwitchToSleep(heard)
  BY DEF Receive, forUs, notForUs
<1> QED
  BY <1>4, <1>5, AsleepBooks

LEMMA FailedReceptionBooks ==
  ASSUME NEW s \in 0 .. NumPackets, NEW d, Strong(d, s),
         NEW timeout \in AckTimeouts, NEW flag \in CopyFlags
  PROVE  Ledger(FailedReception(d, timeout, flag), s)
<1>1. Strong(SwitchToSleep(d), s)
  BY AsleepBooks
<1>2. SwitchToSleep(d).waitingAck => Ledger(Retry(SwitchToSleep(d), timeout, flag), s)
  BY <1>1, RetryBooks
<1> QED
  BY <1>1, <1>2, StrongIsLedger DEF FailedReception

-----------------------------------------------------------------------------
(* The invariant, and the steps that keep it.                              *)

IInv ==
  /\ Ledger(dev, sent)
  /\ sent \in 0 .. NumPackets
  /\ noise \in 0 .. NumNoise

\* While the simulation runs, nothing is owed.
LEMMA RunningIsStrong ==
  ASSUME IInv, Running
  PROVE  Strong(dev, sent)
BY DEF IInv, Running, Ledger, Strong

LEMMA PoppedBooks ==
  ASSUME IInv, NEW k, Due(k)
  PROVE  /\ Strong(Popped, sent) /\ Frame(Popped)
         /\ \A p : Sendable(dev, p, sent) => Sendable(Popped, p, sent)
         /\ k = "doSend" => Sendable(dev, Arg, sent)
<1>1. Strong(dev, sent) /\ Frame(dev) /\ dev.queue # <<>> /\ Head(dev.queue).kind = k
  BY RunningIsStrong DEF Due, Strong, Books
<1>2. KeepsBooks(dev, Popped)
      /\ (Head(dev.queue).kind = "doSend" => Head(dev.queue).arg \in ToSend(dev.queue))
  BY <1>1, PopKeeps DEF Popped
<1>3. Strong(Popped, sent)
  BY <1>1, <1>2, BooksKept
<1>4. \A p : Sendable(dev, p, sent) => Sendable(Popped, p, sent)
  BY <1>2 DEF KeepsBooks, Sendable, Fresh, Reported
<1> QED
  BY <1>1, <1>2, <1>3, <1>4 DEF Strong, Books, Arg

\* A step of an event that reads only the popped device.
LEMMA QuietBooks ==
  ASSUME NEW s, NEW d, Strong(d, s)
  PROVE  /\ Strong(SwitchToStandby(d), s) /\ Strong(SwitchToSleep(d), s)
         /\ \A why \in Faults \ {"none"} : Strong(Abort(d, why), s)
         /\ \A t \in Int : Strong([d EXCEPT !.secondTs = t], s)
         /\ Strong([d EXCEPT !.phy = "RX"], s)
         /\ \A k \in Events \ {"doSend"}, delay \in Nat, arg \in Args :
              Strong(Schedule(d, k, delay, arg), s)
<1>1. Frame(d)
  BY DEF Strong, Books
<1>2. \A r : KeepsBooks(d, r) => Strong(r, s)
  BY BooksKept
<1>3. /\ KeepsBooks(d, SwitchToStandby(d)) /\ KeepsBooks(d, SwitchToSleep(d))
      /\ \A why \in Faults \ {"none"} : KeepsBooks(d, Abort(d, why))
      /\ \A t \in Int : KeepsBooks(d, [d EXCEPT !.secondTs = t])
      /\ KeepsBooks(d, [d EXCEPT !.phy = "RX"])
  BY <1>1, PhyKeeps
<1>4. \A k \in Events \ {"doSend"}, delay \in Nat, arg \in Args : KeepsBooks(d, Schedule(d, k, delay, arg))
  BY <1>1, ScheduleKeeps
<1> QED
  BY <1>2, <1>3, <1>4

LEMMA NoPacketIsArg == NoPacket \in Args /\ AllContents \subseteq Args
BY Constants DEF NoPacket, Pointers, Args

LEMMA StandbyEventBooks ==
  ASSUME IInv, StandbyEvent
  PROVE  Ledger(dev', sent')
<1>1. Strong(Popped, sent)
  BY PoppedBooks DEF StandbyEvent
<1>2. dev' = SwitchToStandby(Popped) /\ sent' = sent
  BY DEF StandbyEvent, Idle
<1> QED
  BY <1>1, <1>2, QuietBooks, StrongIsLedger

LEMMA TxFinishedBooks ==
  ASSUME IInv, TxFinished
  PROVE  Ledger(dev', sent')
<1> DEFINE rx1 == Schedule(Popped, "openFirst", Delay1, NoPacket)
           rx2 == Schedule(rx1, "openSecond", Delay2, NoPacket)
           rx3 == [rx2 EXCEPT !.secondTs = Delay2]
<1>1. dev' = SwitchToSleep(rx3) /\ sent' = sent
  BY DEF TxFinished, Idle
<1>2. {"openFirst", "openSecond"} \subseteq Events \ {"doSend"} /\ Delay1 \in Nat /\ Delay2 \in Nat
      /\ Delay2 \in Int /\ NoPacket \in Args
  BY Constants, NoPacketIsArg DEF Events
<1>3. Strong(Popped, sent)
  BY PoppedBooks DEF TxFinished
<1>4. Strong(rx1, sent)
  BY <1>2, <1>3, QuietBooks
<1> HIDE DEF rx1
<1>5. Strong(rx2, sent)
  BY <1>2, <1>4, QuietBooks
<1> HIDE DEF rx2
<1>6. Strong(rx3, sent)
  BY <1>2, <1>5, QuietBooks
<1> HIDE DEF rx3
<1>7. Strong(SwitchToSleep(rx3), sent)
  BY <1>6, QuietBooks
<1> QED
  BY <1>1, <1>7, StrongIsLedger

LEMMA FirstWindowBooks ==
  ASSUME IInv, OpenFirstReceiveWindow \/ CloseFirstReceiveWindow
  PROVE  Ledger(dev', sent')
<1>1. CASE OpenFirstReceiveWindow
  <2>1. Strong(SwitchToStandby(Popped), sent)
    BY <1>1, PoppedBooks, QuietBooks DEF OpenFirstReceiveWindow
  <2>2. "closeFirst" \in Events \ {"doSend"} /\ Window \in Nat /\ NoPacket \in Args
    BY Constants, NoPacketIsArg DEF Events
  <2>3. Strong(Schedule(SwitchToStandby(Popped), "closeFirst", Window, NoPacket), sent)
    BY <2>1, <2>2, QuietBooks
  <2> QED
    BY <1>1, <2>3, StrongIsLedger DEF OpenFirstReceiveWindow, Idle
<1>2. CASE CloseFirstReceiveWindow
  <2>1. Strong(Popped, sent)
    BY <1>2, PoppedBooks DEF CloseFirstReceiveWindow
  <2>2. "closeInTx" \in Faults \ {"none"}
    BY DEF Faults
  <2>3. Strong(Abort(Popped, "closeInTx"), sent) /\ Strong(SwitchToSleep(Popped), sent)
    BY <2>1, <2>2, QuietBooks
  <2>4. dev' \in {Abort(Popped, "closeInTx"), SwitchToSleep(Popped), Popped} /\ sent' = sent
    BY <1>2 DEF CloseFirstReceiveWindow, Idle
  <2> QED
    BY <2>1, <2>3, <2>4, StrongIsLedger
<1> QED
  BY <1>1, <1>2

LEMMA OpenSecondBooks ==
  ASSUME IInv, OpenSecondReceiveWindow
  PROVE  Ledger(dev', sent')
<1>1. Strong(Popped, sent)
  BY PoppedBooks DEF OpenSecondReceiveWindow
<1>2. "closeSecond" \in Events \ {"doSend"} /\ Window \in Nat /\ NoPacket \in Args
  BY Constants, NoPacketIsArg DEF Events
<1>3. Strong(SwitchToStandby(Popped), sent)
  BY <1>1, QuietBooks
<1>4. Strong(Schedule(SwitchToStandby(Popped), "closeSecond", Window, NoPacket), sent)
  BY <1>2, <1>3, QuietBooks
<1>5. /\ dev' \in {Popped, Schedule(SwitchToStandby(Popped), "closeSecond", Window, NoPacket)}
      /\ sent' = sent
  BY DEF OpenSecondReceiveWindow, Idle
<1> QED
  BY <1>1, <1>4, <1>5, StrongIsLedger

LEMMA CloseSecondBooks ==
  ASSUME IInv, NEW timeout \in AckTimeouts, NEW flag \in CopyFlags,
         CloseSecondReceiveWindow(timeout, flag)
  PROVE  Ledger(dev', sent')
<1> DEFINE closed == IF dev.phy = "STANDBY" THEN SwitchToSleep(Popped) ELSE Popped
<1>1. Strong(Popped, sent) /\ sent \in 0 .. NumPackets
  BY PoppedBooks DEF CloseSecondReceiveWindow, IInv
<1>2. Strong(closed, sent)
  BY <1>1, QuietBooks
<1>3. /\ dev' = IF dev.phy = "RX" THEN Popped
                ELSE IF dev.waitingAck THEN Retry(closed, timeout, flag)
                ELSE resetRetransmissionParameters(Report(closed, TRUE))
      /\ sent' = sent
  BY DEF CloseSecondReceiveWindow, Idle
<1>4. closed.waitingAck = dev.waitingAck
  <2>1. KeepsBooks(dev, Popped)
    <3>1. Frame(dev) /\ dev.queue # <<>>
      BY RunningIsStrong DEF CloseSecondReceiveWindow, Due, Strong, Books
    <3> QED
      BY <3>1, PopKeeps DEF Popped
  <2>2. KeepsBooks(Popped, SwitchToSleep(Popped))
    BY <1>1, PhyKeeps DEF Strong, Books
  <2> QED
    BY <2>1, <2>2 DEF KeepsBooks
<1> HIDE DEF closed
<1>5. TRUE \in BOOLEAN
  BY Zenon
<1>6. Ledger(Closed(closed, TRUE), sent)
  BY <1>1, <1>2, <1>5, ClosedBooks, StrongIsLedger DEF Over
<1>7. dev.waitingAck => Ledger(Retry(closed, timeout, flag), sent)
  BY <1>1, <1>2, <1>4, RetryBooks
<1> QED
  BY <1>1, <1>3, <1>6, <1>7, StrongIsLedger DEF Closed

LEMMA DoSendEventBooks ==
  ASSUME IInv, NEW flag \in CopyFlags, DoSendEvent(flag)
  PROVE  Ledger(dev', sent')
<1>1. Strong(Popped, sent) /\ Sendable(Popped, Arg, sent) /\ sent \in 0 .. NumPackets
  BY PoppedBooks DEF DoSendEvent, IInv
<1>2. dev' = DoSend(Popped, Arg, flag) /\ sent' = sent
  BY DEF DoSendEvent, Idle
<1> QED
  BY <1>1, <1>2, DoSendBooks

LEMMA EndReceiveBooks ==
  ASSUME IInv, NEW timeout \in AckTimeouts, NEW flag \in CopyFlags,
         \/ \E destroyed \in BOOLEAN : EndReceive(destroyed, timeout, flag)
         \/ EndReceiveI(timeout, flag)
  PROVE  Ledger(dev', sent')
<1> DEFINE standby == SwitchToStandby(Popped)
<1>1. Strong(Popped, sent) /\ sent \in 0 .. NumPackets
  BY PoppedBooks DEF EndReceive, EndReceiveI, IInv
<1>2. Strong(standby, sent)
  BY <1>1, QuietBooks
<1>3. /\ dev' \in {FailedReception(standby, timeout, flag), Receive(standby, Arg, timeout, flag)}
      /\ sent' = sent
  BY DEF EndReceive, EndReceiveI, Idle
<1> HIDE DEF standby
<1> QED
  BY <1>1, <1>2, <1>3, ReceiveBooks, FailedReceptionBooks

\* The application's new packet is sendable.
LEMMA AppSendable ==
  ASSUME IInv, NEW timeout \in AckTimeouts, NEW flag \in CopyFlags, AppSend(timeout, flag)
  PROVE  LET s == sent + 1
             p == AppPacket(s)
         IN /\ s \in 0 .. NumPackets /\ Strong(dev, s) /\ Sendable(dev, p, s)
            /\ ~ p.copy /\ p.flag = AppFlag
            /\ dev' = Send(dev, p, timeout, flag) /\ sent' = s
<1> DEFINE s == sent + 1
           p == AppPacket(s)
<1>1. Strong(dev, sent) /\ sent \in 0 .. NumPackets /\ sent < NumPackets
  BY RunningIsStrong DEF AppSend, IInv
<1>2. /\ dev' = Send(dev, p, timeout, flag) /\ sent' = s
      /\ sent \in Int /\ s \in Int /\ s \in 1 .. NumPackets /\ s \in 0 .. NumPackets
  BY <1>1, Constants DEF AppSend
<1>3. Fresh(dev, s)
  <2>1. s \in (sent + 1) .. NumPackets
    BY <1>2
  <2> QED
    BY <1>1, <2>1 DEF Strong, Books
<1>4. p \in Pointers /\ ~ p.copy /\ p.pkt = s /\ p.flag = AppFlag
  <2>1. FALSE \in BOOLEAN
    BY Zenon
  <2> QED
    BY <1>2, <2>1, Constants DEF AppPacket, Pointers
<1> HIDE DEF p
<1>5. Sendable(dev, p, s)
  BY <1>2, <1>3, <1>4 DEF Sendable
<1>6. Strong(dev, s)
  <2>1. \A q : Sendable(dev, q, sent) => Sendable(dev, q, s)
    BY <1>2 DEF Sendable
  <2>2. \A n \in (s + 1) .. NumPackets : Fresh(dev, n)
    BY <1>1, <1>2 DEF Strong, Books
  <2>3. Procedure(dev, s)
    BY <1>1, <1>2 DEF Strong, Books, Procedure
  <2> QED
    BY <1>1, <2>1, <2>2, <2>3 DEF Strong, Books
<1> HIDE DEF s
<1>7. s \in 0 .. NumPackets /\ Strong(dev, s) /\ Sendable(dev, p, s) /\ ~ p.copy /\ p.flag = AppFlag
      /\ dev' = Send(dev, p, timeout, flag) /\ sent' = s
  BY <1>2, <1>4, <1>5, <1>6
<1> QED
  BY <1>7 DEF s, p

LEMMA AppSendBooks ==
  ASSUME IInv, NEW timeout \in AckTimeouts, NEW flag \in CopyFlags, AppSend(timeout, flag)
  PROVE  Ledger(dev', sent')
<1> DEFINE s == sent + 1
           p == AppPacket(s)
<1>1. /\ s \in 0 .. NumPackets /\ Strong(dev, s) /\ Sendable(dev, p, s)
      /\ dev' = Send(dev, p, timeout, flag) /\ sent' = s
  BY AppSendable
<1> HIDE DEF s, p
<1> QED
  BY <1>1, SendBooks

LEMMA StartReceiveBooks ==
  ASSUME IInv, NEW duration \in Durations,
         \/ \E content \in Contents : StartReceive(content, duration)
         \/ StartReceiveI(duration)
  PROVE  Ledger(dev', sent')
<1> DEFINE locked == [dev EXCEPT !.phy = "RX"]
<1>1. Strong(dev, sent) /\ Strong(locked, sent)
  BY RunningIsStrong, QuietBooks DEF StartReceive, StartReceiveI
<1>2. {"endReceive", "endReceiveI"} \subseteq Events \ {"doSend"} /\ duration \in Nat
      /\ Contents \subseteq Args /\ "other" \in Args
  BY Constants, NoPacketIsArg DEF Events, AllContents
<1>3. CASE StartReceiveI(duration)
  BY <1>1, <1>2, <1>3, QuietBooks, StrongIsLedger DEF StartReceiveI
<1>4. ASSUME NEW content \in Contents, StartReceive(content, duration) PROVE Ledger(dev', sent')
  <2>1. dev' = Schedule(locked, "endReceive", duration, content) /\ sent' = sent
    BY <1>4 DEF StartReceive, Idle
  <2> HIDE DEF locked
  <2>2. Strong(Schedule(locked, "endReceive", duration, content), sent)
    BY <1>1, <1>2, QuietBooks
  <2> QED
    BY <2>1, <2>2, StrongIsLedger
<1> QED
  BY <1>3, <1>4

LEMMA ElapseKeeps ==
  ASSUME Frame(dev), Elapse
  PROVE  KeepsBooks(dev, dev') /\ sent' = sent /\ noise' = noise
<1> DEFINE q == dev.queue
           new == [i \in DOMAIN q |-> [q[i] EXCEPT !.left = @ - 1]]
           duty == IF dev.duty > 0 THEN dev.duty - 1 ELSE 0
           opens == IF dev.secondTs > - Longest(AckTimeouts \cup {Window})
                      THEN dev.secondTs - 1 ELSE dev.secondTs
<1>1. q \in Seq(Event) /\ Ordered(q) /\ (q # <<>> => Head(q).left > 0)
  BY DEF Frame, Device, Elapse
<1>2. /\ new \in Seq(Event) /\ Ordered(new)
      /\ \A k \in Events : Single(q, k) => Single(new, k)
      /\ \A k \in Events : OfKind(new, k) = {[e EXCEPT !.left = @ - 1] : e \in OfKind(q, k)}
      /\ \A k \in Events : \A e \in OfKind(q, k) : e \in Event /\ e.left > 0
  <2> HIDE DEF q
  <2> QED
    BY <1>1, AgedQueue
<1>3. dev' = [dev EXCEPT !.queue = new, !.duty = duty, !.secondTs = opens]
      /\ sent' = sent /\ noise' = noise
  BY DEF Elapse, Idle
<1>4. duty \in Nat /\ opens \in Int
  <2>1. dev.duty \in Nat /\ dev.secondTs \in Int
    BY DEF Frame, Device
  <2>2. duty \in Nat
    BY <2>1
  <2>3. opens = dev.secondTs - 1 \/ opens = dev.secondTs
    OBVIOUS
  <2> QED
    BY <2>1, <2>2, <2>3
<1> HIDE DEF new, duty, opens
<1>5. "doSend" \in Events
  BY DEF Events
<1>6. ToSend(new) = ToSend(q)
  <2>1. OfKind(new, "doSend") = {[e EXCEPT !.left = @ - 1] : e \in OfKind(q, "doSend")}
    BY <1>2, <1>5
  <2>2. \A e \in OfKind(q, "doSend") : [e EXCEPT !.left = @ - 1].arg = e.arg
    BY <1>2, <1>5 DEF Event
  <2> HIDE DEF q
  <2> DEFINE S == OfKind(q, "doSend")
             T == OfKind(new, "doSend")
             aged(e) == [e EXCEPT !.left = @ - 1]
  <2>3. T = {aged(e) : e \in S} /\ \A e \in S : aged(e).arg = e.arg
    BY <2>1, <2>2
  <2> HIDE DEF S, T, aged
  <2>4. {f.arg : f \in T} = {e.arg : e \in S}
    BY <2>3
  <2> QED
    BY <2>4 DEF ToSend, S, T
<1>7. Frame(dev') /\ dev'.queue = new
      /\ dev'.waitingAck = dev.waitingAck /\ dev'.retxLeft = dev.retxLeft /\ dev'.retxPkt = dev.retxPkt
      /\ dev'.onAir = dev.onAir /\ dev'.reports = dev.reports /\ dev'.fault = dev.fault
  <2>1. Single(new, "doSend")
    BY <1>2, <1>5 DEF Frame
  <2> QED
    BY <1>2, <1>3, <1>4, <2>1 DEF Frame, Device
<1> QED
  BY <1>3, <1>6, <1>7 DEF KeepsBooks

LEMMA RunEventBooks ==
  ASSUME IInv, RunEvent
  PROVE  Ledger(dev', sent')
BY StandbyEventBooks, TxFinishedBooks, FirstWindowBooks, OpenSecondBooks, CloseSecondBooks,
   DoSendEventBooks, EndReceiveBooks DEF RunEvent

LEMMA NextBooks ==
  ASSUME IInv, Next
  PROVE  Ledger(dev', sent')
<1>1. CASE RunEvent
  BY <1>1, RunEventBooks
<1>2. CASE \E t \in AckTimeouts, f \in CopyFlags : AppSend(t, f)
  BY <1>2, AppSendBooks
<1>3. CASE (\E c \in Contents, r \in Durations : StartReceive(c, r))
           \/ \E r \in Durations : StartReceiveI(r)
  BY <1>3, StartReceiveBooks
<1>4. CASE Elapse
  <2>1. Frame(dev) /\ Ledger(dev, sent)
    BY DEF IInv, Ledger, Books
  <2> QED
    BY <1>4, <2>1, ElapseKeeps, BooksKept
<1> QED
  BY <1>1, <1>2, <1>3, <1>4 DEF Next

LEMMA NextCounters ==
  ASSUME IInv, Next
  PROVE  sent' \in 0 .. NumPackets /\ noise' \in 0 .. NumNoise
<1>0. sent \in Nat /\ sent <= NumPackets /\ noise \in Nat /\ noise <= NumNoise
      /\ NumPackets \in Nat /\ NumNoise \in Nat
  BY Constants DEF IInv
<1>1. CASE RunEvent \/ Elapse
  <2>1. sent' = sent /\ noise' = noise
    BY <1>1 DEF RunEvent, Elapse, Idle, StandbyEvent, TxFinished, OpenFirstReceiveWindow,
       CloseFirstReceiveWindow, OpenSecondReceiveWindow, CloseSecondReceiveWindow, DoSendEvent,
       EndReceive, EndReceiveI
  <2> QED
    BY <1>0, <2>1
<1>2. CASE \E t \in AckTimeouts, f \in CopyFlags : AppSend(t, f)
  BY <1>0, <1>2 DEF AppSend
<1>3. CASE \E c \in Contents, r \in Durations : StartReceive(c, r)
  BY <1>0, <1>3 DEF StartReceive, Idle
<1>4. CASE \E r \in Durations : StartReceiveI(r)
  BY <1>0, <1>4 DEF StartReceiveI
<1> QED
  BY <1>1, <1>2, <1>3, <1>4 DEF Next

LEMMA InitInv ==
  ASSUME Init
  PROVE  IInv
<1>1. /\ dev.queue = <<>> /\ ~ dev.waitingAck /\ dev.retxPkt = NoPacket /\ dev.retxLeft = MaxNumbTx
      /\ dev.reports = <<>> /\ dev.onAir = [n \in 1 .. NumPackets |-> 0]
      /\ dev.phy = "SLEEP" /\ dev.secondTs = 0 /\ dev.duty = 0 /\ dev.fault = "none"
      /\ dev.waitingAck \in BOOLEAN
  <2>1. FALSE \in BOOLEAN
    BY Zenon
  <2> QED
    BY <2>1 DEF Init
<1>2. Frame(dev)
  <2>1. /\ dev.queue \in Seq(Event) /\ dev.reports \in Seq(Reports)
        /\ dev.onAir \in [1 .. NumPackets -> Nat]
    BY <1>1
  <2>2. /\ dev.phy \in Radio /\ dev.fault \in Faults /\ dev.retxPkt \in Pointers
        /\ dev.retxLeft \in 0 .. 255 /\ dev.secondTs \in Int /\ dev.duty \in Nat
    <3>1. FALSE \in BOOLEAN
      BY Zenon
    <3> QED
      BY <1>1, <3>1, Constants DEF Radio, Faults, Pointers, NoPacket
  <2>3. dev \in Device
    <3>1. dev = [phy |-> dev.phy, queue |-> dev.queue, secondTs |-> dev.secondTs, duty |-> dev.duty,
                 waitingAck |-> dev.waitingAck, retxLeft |-> dev.retxLeft, retxPkt |-> dev.retxPkt,
                 fault |-> dev.fault, onAir |-> dev.onAir, reports |-> dev.reports]
      BY DEF Init
    <3> QED
      BY <1>1, <2>1, <2>2, <3>1 DEF Device
  <2> QED
    BY <1>1, <2>3 DEF Frame, Ordered, Single
<1>3. ToSend(dev.queue) = {} /\ \A n : Reported(dev, n) = {}
  BY <1>1 DEF ToSend, OfKind, Reported
<1>4. \A n \in 1 .. NumPackets : Fresh(dev, n)
  BY <1>1, <1>3 DEF Fresh, NoPacket
<1>5. sent = 0 /\ noise = 0
  BY DEF Init
<1>6. Books(dev, sent)
  BY <1>1, <1>2, <1>3, <1>4, <1>5 DEF Books, Procedure, ReportedAtMostOnce, TrueReports
<1>7. Tally(dev, 0)
  BY <1>1 DEF Tally
<1> QED
  BY <1>5, <1>6, <1>7, Constants DEF IInv, Ledger

LEMMA InvHolds == Spec => []IInv
<1>1. IInv /\ [Next]_vars => IInv'
  <2> SUFFICES ASSUME IInv, [Next]_vars PROVE IInv'
    OBVIOUS
  <2>1. CASE Next
    BY <2>1, NextBooks, NextCounters DEF IInv
  <2>2. CASE UNCHANGED vars
    BY <2>2 DEF vars, IInv
  <2> QED
    BY <2>1, <2>2
<1> QED
  BY <1>1, InitInv, PTL DEF Spec

\* The device and its queue keep their types: bytes stay bytes, no event is
\* overdue, the pointer under retransmission is one the application sent.
THEOREM DeviceTyped == Spec => []TypeOK
<1>1. IInv => TypeOK
  <2> SUFFICES ASSUME IInv PROVE TypeOK
    OBVIOUS
  <2>1. dev \in Device /\ sent \in 0 .. NumPackets /\ noise \in 0 .. NumNoise
    BY DEF IInv, Ledger, Books, Frame
  <2>2. \A i \in DOMAIN dev.queue : dev.queue[i] \in Event
    <3>1. dev.queue \in Seq(Event)
      BY <2>1 DEF Device
    <3> QED
      BY <3>1, LenProperties, ElementOfSeq
  <2>3. \A i \in DOMAIN dev.queue :
          dev.queue[i].kind \in Events /\ dev.queue[i].left \in Nat /\ dev.queue[i].handle \in BOOLEAN
    BY <2>2 DEF Event
  <2> QED
    BY <2>1, <2>3 DEF TypeOK, Device, Radio
<1> QED
  BY <1>1, InvHolds, PTL

\* m_requiredTxCallback fires at most once for a packet, and when it has, the
\* packet is not under retransmission and no DoSend event will send it.
NoSecondReport ==
  \A n \in 1 .. NumPackets :
    /\ Cardinality(ReportsOf(n)) <= 1
    /\ ReportsOf(n) # {} =>
         /\ dev.retxPkt.pkt # n
         /\ \A i \in Queued({"doSend"}) : dev.queue[i].arg.pkt # n

LEMMA NeverTwice ==
  IInv => NoSecondReport
<1> SUFFICES ASSUME IInv, NEW n \in 1 .. NumPackets
             PROVE  /\ Cardinality(ReportsOf(n)) <= 1
                    /\ ReportsOf(n) # {} =>
                         /\ dev.retxPkt.pkt # n
                         /\ \A i \in Queued({"doSend"}) : dev.queue[i].arg.pkt # n
  BY DEF NoSecondReport
<1>1. Books(dev, sent) /\ ReportsOf(n) = Reported(dev, n)
  BY DEF IInv, Ledger, ReportsOf, Reported
<1>2. CASE Reported(dev, n) = {}
  BY <1>1, <1>2, FS_EmptySet
<1>3. CASE Reported(dev, n) # {}
  <2>1. dev.retxPkt.pkt # n /\ \E i \in DOMAIN dev.reports : Reported(dev, n) = {i}
    BY <1>1, <1>3 DEF Books, ReportedAtMostOnce
  <2>2. Cardinality(Reported(dev, n)) = 1
    BY <2>1, FS_Singleton
  <2>3. ASSUME NEW i \in Queued({"doSend"}) PROVE dev.queue[i].arg.pkt # n
    <3>1. dev.queue[i].arg \in ToSend(dev.queue)
      BY DEF Queued, ToSend, OfKind
    <3> QED
      BY <1>1, <1>3, <2>1, <3>1 DEF Books, Sendable, Fresh
  <2> QED
    BY <1>1, <2>1, <2>2, <2>3
<1> QED
  BY <1>2, <1>3

\* Whatever the copies' flags, the delays and what is heard, even when the PHY
\* drops a transmission that the MAC has counted.
THEOREM NeverReportedAgain == Spec => []NoSecondReport
BY InvHolds, NeverTwice, PTL

\* When the copies carry the flag that makes the PHY transmit them in any
\* state, the attempts the MAC counts, in a byte, are those that went on the
\* air.
THEOREM AttemptsAreCounted ==
  ASSUME FlaggedCopies
  PROVE  Spec => []AttemptsCounted
<1>1. IInv => AttemptsCounted
  <2> SUFFICES ASSUME IInv, Running, dev.waitingAck
               PROVE  (MaxNumbTx - dev.retxLeft) % 256 = dev.onAir[dev.retxPkt.pkt] % 256
    BY DEF AttemptsCounted
  <2>1. Books(dev, sent) /\ Tally(dev, 0) /\ dev \in Device
    BY RunningIsStrong DEF Strong, Books, Frame
  <2>2. dev.retxPkt.pkt \in 1 .. sent /\ sent \in 0 .. NumPackets /\ NumPackets \in Nat
    BY <2>1, Constants DEF IInv, Books, Procedure
  <2> DEFINE a == dev.onAir[dev.retxPkt.pkt]
  <2>3. a \in Nat
    <3>1. dev.onAir \in [1 .. NumPackets -> Nat] /\ dev.retxPkt.pkt \in 1 .. NumPackets
      BY <2>1, <2>2 DEF Device
    <3> QED
      BY <3>1
  <2>4. (MaxNumbTx - dev.retxLeft) % 256 = (a + 0) % 256
    BY <2>1 DEF Tally
  <2> HIDE DEF a
  <2>5. a + 0 = a
    BY <2>3
  <2> QED
    BY <2>4, <2>5 DEF a
<1> QED
  BY <1>1, InvHolds, PTL

\* Under the same hypothesis, the trace source fires at most once for a
\* packet, with the number of its transmissions: none is made afterwards.
THEOREM ReportedOnceTruly ==
  ASSUME FlaggedCopies
  PROVE  Spec => []ReportedOnce
<1>1. IInv => ReportedOnce
  <2> SUFFICES ASSUME IInv, NEW n \in 1 .. NumPackets, NEW i \in ReportsOf(n)
               PROVE  dev.reports[i].txs = dev.onAir[n] % 256
    BY NeverTwice DEF ReportedOnce, NoSecondReport
  <2>1. TrueReports(dev) /\ i \in Reported(dev, n)
    BY DEF IInv, Ledger, Books, ReportsOf, Reported
  <2> QED
    BY <2>1 DEF TrueReports
<1> QED
  BY <1>1, InvHolds, PTL
=============================================================================
