------------------------- MODULE NetworkServer_proofs -------------------------
(***************************************************************************)
(* The network server with any number of devices, gateways and uplinks:    *)
(* its types and, as long as frame counters do not wrap and a device's     *)
(* uplinks are farther apart than its opportunities, that every reply      *)
(* answers the latest uplink, once, in its window, through the best        *)
(* gateway that may send.                                                  *)
(***************************************************************************)
EXTENDS NetworkServer, FiniteSetTheorems, SequenceTheorems, WellFoundedInduction, TLAPS

-----------------------------------------------------------------------------
(* Sequences that are appended to, shortened and updated.                  *)

LEMMA AppendAt ==
  ASSUME NEW S, NEW s \in Seq(S), NEW e \in S
  PROVE  /\ Append(s, e) \in Seq(S)
         /\ Len(Append(s, e)) = Len(s) + 1 /\ Len(s) \in Nat
         /\ DOMAIN s = 1 .. Len(s) /\ DOMAIN Append(s, e) = 1 .. (Len(s) + 1)
         /\ Append(s, e)[Len(s) + 1] = e
         /\ \A i \in DOMAIN s : Append(s, e)[i] = s[i]
         /\ Append(s, e) # <<>>
<1>1. /\ Append(s, e) \in Seq(S) /\ Len(Append(s, e)) = Len(s) + 1
      /\ Append(s, e)[Len(s) + 1] = e
      /\ \A i \in 1 .. Len(s) : Append(s, e)[i] = s[i]
  BY AppendProperties
<1>2. Len(s) \in Nat /\ DOMAIN s = 1 .. Len(s)
  BY LenProperties
<1>3. DOMAIN Append(s, e) = 1 .. (Len(s) + 1)
  BY <1>1, LenProperties
<1>4. Append(s, e) # <<>>
  BY <1>1, <1>2, EmptySeq
<1> QED
  BY <1>1, <1>2, <1>3, <1>4

LEMMA TailAt ==
  ASSUME NEW S, NEW s \in Seq(S), s # <<>>
  PROVE  /\ Tail(s) \in Seq(S)
         /\ Len(s) \in Nat \ {0} /\ DOMAIN s = 1 .. Len(s) /\ 1 \in DOMAIN s
         /\ Head(s) = s[1] /\ Head(s) \in S
         /\ Len(Tail(s)) = Len(s) - 1 /\ DOMAIN Tail(s) = 1 .. (Len(s) - 1)
         /\ \A i \in DOMAIN Tail(s) : i + 1 \in DOMAIN s /\ Tail(s)[i] = s[i + 1]
<1>1. /\ Tail(s) \in Seq(S) /\ Head(s) \in S /\ Len(Tail(s)) = Len(s) - 1
      /\ \A i \in 1 .. Len(Tail(s)) : Tail(s)[i] = s[i + 1]
  BY HeadTailProperties
<1>2. Len(s) \in Nat \ {0} /\ DOMAIN s = 1 .. Len(s)
  BY LenProperties, EmptySeq
<1>3. DOMAIN Tail(s) = 1 .. (Len(s) - 1)
  BY <1>1, LenProperties
<1>4. Head(s) = s[1]
  BY <1>2
<1> QED
  BY <1>1, <1>2, <1>3, <1>4

LEMMA FunctionIsSeq ==
  ASSUME NEW S, NEW n \in Nat, NEW f \in [1 .. n -> S]
  PROVE  f \in Seq(S) /\ Len(f) = n
<1>1. f \in Seq(S)
  BY SeqDef
<1>2. Len(f) \in Nat /\ DOMAIN f = 1 .. Len(f)
  BY <1>1, LenProperties
<1> QED
  BY <1>1, <1>2

-----------------------------------------------------------------------------
(* Least and greatest elements, and the best gateway of a finite set.      *)

LEMMA LeastOf ==
  ASSUME NEW T \in SUBSET Nat, T # {}
  PROVE  \E x \in T : \A y \in T : x <= y
<1>1. PICK x \in T : \A y \in T : ~ (<<y, x>> \in OpToRel(<, Nat))
  BY NatLessThanWellFounded, WFMin
<1>2. \A y \in T : ~ (y < x)
  BY <1>1 DEF OpToRel
<1> QED
  BY <1>2

LEMMA GreatestOf ==
  ASSUME NEW n \in Nat, NEW T \in SUBSET (1 .. n), T # {}
  PROVE  \E x \in T : \A y \in T : y <= x
<1> DEFINE U == {n - x : x \in T}
<1>1. U \in SUBSET Nat /\ U # {}
  <2>1. \A x \in T : n - x \in Nat /\ n - x \in U
    OBVIOUS
  <2> QED
    BY <2>1
<1>2. PICK u \in U : \A v \in U : u <= v
  <2> HIDE DEF U
  <2> QED
    BY <1>1, LeastOf
<1>3. PICK x \in T : u = n - x
  OBVIOUS
<1>4. \A y \in T : n - x <= n - y
  BY <1>2, <1>3
<1> QED
  BY <1>4

LEMMA BestOf ==
  ASSUME NEW S, IsFiniteSet(S), S # {}, NEW power, \A g \in S : power[g] \in Nat
  PROVE  \E g \in S : \A h \in S : power[h] <= power[g]
<1> DEFINE Better(g) == {h \in S : power[h] > power[g]}
           Ranks == {Cardinality(Better(g)) : g \in S}
<1>1. \A g \in S : IsFiniteSet(Better(g)) /\ Cardinality(Better(g)) \in Nat
  BY FS_Subset, FS_CardinalityType
<1>2. Ranks \in SUBSET Nat /\ Ranks # {}
  BY <1>1
<1>3. PICK r \in Ranks : \A q \in Ranks : r <= q
  <2> HIDE DEF Ranks
  <2> QED
    BY <1>2, LeastOf
<1>4. PICK g \in S : r = Cardinality(Better(g))
  OBVIOUS
<1>5. ASSUME NEW h \in S, power[h] > power[g] PROVE FALSE
  <2>1. Better(h) \in SUBSET Better(g) /\ h \in Better(g) /\ h \notin Better(h)
    BY <1>5
  <2>2. Cardinality(Better(h)) <= Cardinality(Better(g)) /\ Better(h) # Better(g)
    BY <1>1, <2>1, FS_Subset
  <2>3. Cardinality(Better(h)) # Cardinality(Better(g))
    BY <1>1, <2>1, <2>2, FS_Subset
  <2>4. Cardinality(Better(g)) <= Cardinality(Better(h))
    BY <1>3, <1>4
  <2> HIDE DEF Better
  <2> QED
    BY <1>1, <2>2, <2>3, <2>4
<1> QED
  BY <1>5

-----------------------------------------------------------------------------
(* Types.                                                                  *)

Copy    == [dev : Devices, n : Nat \ {0}, link : BOOLEAN, gw : Gateways, power : Powers]
PowerMap == UNION {[S -> Powers] : S \in (SUBSET Gateways) \ {{}}}
Entry   == [n : Nat \ {0}, link : BOOLEAN, power : PowerMap]
Opp     == [dev : Devices, window : Windows, left : 0 .. 1]
Sent    == [n : Nat, window : Windows, gw : Gateways, ack : BOOLEAN, gwCnt : Nat,
            latest : Nat, age : Nat, heard : Nat]

DeviceTypes ==
  /\ uplinks \in [Devices -> Nat] /\ \A d \in Devices : uplinks[d] <= NumUplinks[d]
  /\ age \in [Devices -> 0 .. MinGap]
  /\ heard \in [Devices -> SUBSET Gateways]

ServerTypes ==
  /\ copies \subseteq Copy
  /\ received \in [Devices -> Seq(Entry)]
  /\ needsReply \in [Devices -> BOOLEAN]
  /\ opps \in Seq(Opp)
  /\ replies \in [Devices -> Seq(Sent)]

GatewayTypes ==
  /\ downlinks \subseteq [dev : Devices, window : Windows, gw : Gateways]
  /\ transmitting \in [Gateways -> BOOLEAN]
  /\ ends \in [Gateways -> SUBSET (0 .. AirTime)]
  /\ wait \in [Gateways -> [Windows -> Nat]]

Items(s)   == {s[i] : i \in DOMAIN s}
Ordered(s) == \A i, j \in DOMAIN s : i < j => s[i].left <= s[j].left
OneEach(s) == \A i, j \in DOMAIN s : s[i].dev = s[j].dev => i = j

\* A device with an opportunity has been heard.
OppsHaveEntry == \A o \in Items(opps) : received[o.dev] # <<>>

\* A copy on its way is of the latest uplink, which was sent in this tick.
CopiesFresh ==
  \A c \in copies : c.n = uplinks[c.dev] /\ age[c.dev] = 0 /\ c.gw \in heard[c.dev]

\* No entry is of an uplink that was not sent.
EntriesSent ==
  \A d \in Devices : \A i \in DOMAIN received[d] : received[d][i].n <= uplinks[d]

TypeInv ==
  /\ DeviceTypes /\ ServerTypes /\ GatewayTypes
  /\ Ordered(opps) /\ OppsHaveEntry /\ CopiesFresh /\ EntriesSent

\* The latest uplink's copies that have not reached the server yet.
Pending(d) == {c.gw : c \in {e \in copies : e.dev = d}}

\* Every uplink that has reached the server is filed, once, in its place.
DeviceFiled(d) ==
  /\ \A i \in DOMAIN received[d] : received[d][i].n = i
  /\ heard[d] = {} <=> uplinks[d] = 0
  /\ Len(received[d]) = IF Pending(d) = heard[d] /\ uplinks[d] > 0
                          THEN uplinks[d] - 1 ELSE uplinks[d]
  /\ Pending(d) # heard[d] => DOMAIN Last(d).power = heard[d] \ Pending(d)

Filed ==
  /\ \A c, e \in copies : c.dev = e.dev /\ c.gw = e.gw => c = e
  /\ \A d \in Devices : DeviceFiled(d)

\* A device has one opportunity at most, and it comes in its window's time
\* after the latest uplink.
OppsTimely ==
  /\ OneEach(opps)
  /\ \A o \in Items(opps) :
       /\ Pending(o.dev) # heard[o.dev]
       /\ age[o.dev] + o.left = IF o.window = FirstTry(o.dev) THEN 1 ELSE 2

\* Devices that await the answer to their latest uplink.
Unanswered(d) ==
  \/ uplinks[d] > 0 /\ Pending(d) = heard[d]
  \/ \E o \in Items(opps) : o.dev = d

RepliesBehind ==
  \A d \in Devices : \A i \in DOMAIN replies[d] :
    replies[d][i].n <= uplinks[d] /\ (Unanswered(d) => replies[d][i].n < uplinks[d])

\* Gateways that heard the same uplink did so with different powers.
DistinctIn(d) ==
  /\ received[d] # <<>> =>
       \A g, h \in DOMAIN Last(d).power : Last(d).power[g] = Last(d).power[h] => g = h
  /\ Pending(d) # heard[d] =>
       \A g \in DOMAIN Last(d).power, c \in copies : c.dev = d => c.power # Last(d).power[g]

PowersDistinct ==
  /\ \A c, e \in copies : c.dev = e.dev /\ c.power = e.power => c.gw = e.gw
  /\ \A d \in Devices : DistinctIn(d)

NoWrap == \A d \in Devices : NumUplinks[d] <= CounterSize
Spaced == MinGap >= 3

-----------------------------------------------------------------------------
(* InsertReceivedPacket and the types.                                     *)

NewEntry(c) == [n |-> c.n, link |-> c.link, power |-> [g \in {c.gw} |-> c.power]]

Heard(power, c) ==
  [g \in DOMAIN power \cup {c.gw} |-> IF g \in DOMAIN power THEN power[g] ELSE c.power]

LEMMA KnownIsEntry ==
  ASSUME ServerTypes, NEW c \in copies
  PROVE  LET same == {i \in DOMAIN received[c.dev] : FCnt(received[c.dev][i].n) = FCnt(c.n)} IN
         IF same = {} THEN Known(c) = 0
         ELSE Known(c) \in same /\ \A j \in same : j <= Known(c)
<1> DEFINE same == {i \in DOMAIN received[c.dev] : FCnt(received[c.dev][i].n) = FCnt(c.n)}
<1>1. c.dev \in Devices
  BY DEF ServerTypes, Copy
<1>2. Len(received[c.dev]) \in Nat /\ DOMAIN received[c.dev] = 1 .. Len(received[c.dev])
  BY <1>1, LenProperties DEF ServerTypes
<1>3. ASSUME same # {} PROVE \E i \in same : \A j \in same : j <= i
  <2>1. same \in SUBSET (1 .. Len(received[c.dev]))
    BY <1>2
  <2> HIDE DEF same
  <2> QED
    BY <1>2, <1>3, <2>1, GreatestOf
<1> QED
  BY <1>3 DEF Known

\* What InsertReceivedPacket does to the list of the copy's device.
LEMMA InsertDoes ==
  ASSUME ServerTypes, NEW c \in copies
  PROVE  LET s == received[c.dev]
             t == InsertReceivedPacket(c)[c.dev]
             i == Known(c)
         IN /\ s \in Seq(Entry) /\ Len(s) \in Nat /\ DOMAIN s = 1 .. Len(s)
            /\ InsertReceivedPacket(c) \in [Devices -> Seq(Entry)]
            /\ \A d \in Devices \ {c.dev} : InsertReceivedPacket(c)[d] = received[d]
            /\ IF i = 0 THEN t = Append(s, NewEntry(c)) /\ NewEntry(c) \in Entry
               ELSE /\ i \in DOMAIN s /\ FCnt(s[i].n) = FCnt(c.n)
                    /\ Len(t) = Len(s) /\ DOMAIN t = DOMAIN s
                    /\ \A j \in DOMAIN s : j # i => t[j] = s[j]
                    /\ t[i] = [s[i] EXCEPT !.power = Heard(s[i].power, c)]
                    /\ t[i].n = s[i].n /\ t[i].link = s[i].link
                    /\ t[i].power = Heard(s[i].power, c)
<1> DEFINE s == received[c.dev]
           t == InsertReceivedPacket(c)[c.dev]
           i == Known(c)
<1>1. c.dev \in Devices /\ c.n \in Nat \ {0} /\ c.link \in BOOLEAN /\ c.gw \in Gateways /\ c.power \in Powers
  BY DEF ServerTypes, Copy
<1>2. s \in Seq(Entry) /\ Len(s) \in Nat /\ DOMAIN s = 1 .. Len(s)
  BY <1>1, LenProperties DEF ServerTypes
<1>3. received \in [Devices -> Seq(Entry)]
  BY DEF ServerTypes
<1>4. CASE i = 0
  <2>1. InsertReceivedPacket(c) = [received EXCEPT ![c.dev] = Append(@, NewEntry(c))]
    BY <1>4 DEF InsertReceivedPacket, NewEntry
  <2>2. [g \in {c.gw} |-> c.power] \in PowerMap
    <3>1. [g \in {c.gw} |-> c.power] \in [{c.gw} -> Powers] /\ {c.gw} \in (SUBSET Gateways) \ {{}}
      BY <1>1
    <3> QED
      BY <3>1 DEF PowerMap
  <2>3. NewEntry(c) \in Entry
    BY <1>1, <2>2 DEF NewEntry, Entry
  <2>4. Append(s, NewEntry(c)) \in Seq(Entry)
    BY <1>2, <2>3, AppendAt
  <2> QED
    BY <1>1, <1>2, <1>3, <1>4, <2>1, <2>3, <2>4
<1>5. CASE i # 0
  <2> DEFINE e == [s[i] EXCEPT !.power = Heard(s[i].power, c)]
             same == {j \in DOMAIN s : FCnt(s[j].n) = FCnt(c.n)}
  <2>1. i \in DOMAIN s /\ FCnt(s[i].n) = FCnt(c.n)
    BY <1>5, KnownIsEntry
  <2>2. s[i] \in Entry
    BY <1>2, <2>1, ElementOfSeq
  <2>3. InsertReceivedPacket(c) = [received EXCEPT ![c.dev] = [s EXCEPT ![i] = e]]
    BY <1>5 DEF InsertReceivedPacket, Heard
  <2>4. Heard(s[i].power, c) \in PowerMap
    <3>1. PICK gws \in (SUBSET Gateways) \ {{}} : s[i].power \in [gws -> Powers]
      BY <2>2 DEF Entry, PowerMap
    <3>2. Heard(s[i].power, c) \in [gws \cup {c.gw} -> Powers]
      BY <1>1, <3>1 DEF Heard
    <3>3. gws \cup {c.gw} \in (SUBSET Gateways) \ {{}}
      BY <1>1
    <3> QED
      BY <3>2, <3>3 DEF PowerMap
  <2>5. e \in Entry /\ e.n = s[i].n /\ e.link = s[i].link /\ e.power = Heard(s[i].power, c)
    BY <2>2, <2>4 DEF Entry
  <2> HIDE DEF e
  <2>6. /\ [s EXCEPT ![i] = e] \in Seq(Entry) /\ Len([s EXCEPT ![i] = e]) = Len(s)
        /\ \A j \in 1 .. Len(s) : [s EXCEPT ![i] = e][j] = IF j = i THEN e ELSE s[j]
    BY <1>2, <2>1, <2>5, ExceptSeq
  <2>7. t = [s EXCEPT ![i] = e] /\ InsertReceivedPacket(c) \in [Devices -> Seq(Entry)]
        /\ \A d \in Devices \ {c.dev} : InsertReceivedPacket(c)[d] = received[d]
    BY <1>1, <1>3, <2>3, <2>6
  <2>8. DOMAIN t = DOMAIN s
    BY <2>7
  <2>9. /\ Len(t) = Len(s) /\ t[i] = e
        /\ \A j \in DOMAIN s : j # i => t[j] = s[j]
    BY <1>2, <2>1, <2>6, <2>7
  <2> QED
    BY <1>2, <1>5, <2>1, <2>5, <2>7, <2>8, <2>9 DEF e
<1> QED
  BY <1>4, <1>5

-----------------------------------------------------------------------------
(* The queue of opportunities.                                             *)

LEMMA OppsPut ==
  ASSUME NEW s \in Seq(Opp), NEW o \in Opp, o.left = 1
  PROVE  /\ Append(s, o) \in Seq(Opp)
         /\ Items(Append(s, o)) = Items(s) \cup {o}
         /\ Ordered(s) => Ordered(Append(s, o))
         /\ OneEach(s) /\ (\A p \in Items(s) : p.dev # o.dev) => OneEach(Append(s, o))
<1> DEFINE t == Append(s, o)
<1>1. /\ t \in Seq(Opp) /\ Len(t) = Len(s) + 1 /\ Len(s) \in Nat
      /\ DOMAIN s = 1 .. Len(s) /\ DOMAIN t = 1 .. (Len(s) + 1)
      /\ t[Len(s) + 1] = o /\ \A i \in DOMAIN s : t[i] = s[i]
  BY AppendAt
<1> HIDE DEF t
<1>2. DOMAIN t = DOMAIN s \cup {Len(s) + 1}
  BY <1>1
<1>3. Items(t) = Items(s) \cup {o}
  BY <1>1, <1>2 DEF Items
<1>4. ASSUME Ordered(s), NEW i \in DOMAIN t, NEW j \in DOMAIN t, i < j
      PROVE  t[i].left <= t[j].left
  <2>1. i \in DOMAIN s /\ s[i] \in Opp
    BY <1>1, <1>4, ElementOfSeq
  <2>2. CASE j \in DOMAIN s
    BY <1>1, <1>4, <2>1, <2>2 DEF Ordered
  <2>3. CASE j = Len(s) + 1
    BY <1>1, <2>1, <2>3 DEF Opp
  <2> QED
    BY <1>2, <2>2, <2>3
<1>5. ASSUME OneEach(s), \A p \in Items(s) : p.dev # o.dev
      PROVE  OneEach(t)
  BY <1>1, <1>2, <1>5 DEF OneEach, Items
<1> QED
  BY <1>1, <1>3, <1>4, <1>5 DEF t, Ordered

LEMMA OppsTake ==
  ASSUME NEW s \in Seq(Opp), s # <<>>
  PROVE  /\ Tail(s) \in Seq(Opp) /\ Head(s) \in Opp
         /\ Items(s) = Items(Tail(s)) \cup {Head(s)}
         /\ Ordered(s) => Ordered(Tail(s)) /\ \A o \in Items(s) : Head(s).left <= o.left
         /\ OneEach(s) => OneEach(Tail(s)) /\ \A p \in Items(Tail(s)) : p.dev # Head(s).dev
<1> DEFINE t == Tail(s)
<1>1. /\ t \in Seq(Opp) /\ Len(s) \in Nat \ {0} /\ DOMAIN s = 1 .. Len(s) /\ 1 \in DOMAIN s
      /\ Head(s) = s[1] /\ Head(s) \in Opp /\ DOMAIN t = 1 .. (Len(s) - 1)
      /\ \A i \in DOMAIN t : i + 1 \in DOMAIN s /\ t[i] = s[i + 1]
  BY TailAt
<1> HIDE DEF t
<1>2. \A i \in DOMAIN s : i = 1 \/ (i - 1 \in DOMAIN t /\ t[i - 1] = s[i] /\ i > 1)
  BY <1>1
<1>3. Items(s) = Items(t) \cup {Head(s)}
  BY <1>1, <1>2 DEF Items
<1>4. ASSUME Ordered(s) PROVE Ordered(t)
  <2> SUFFICES ASSUME NEW i \in DOMAIN t, NEW j \in DOMAIN t, i < j PROVE t[i].left <= t[j].left
    BY DEF Ordered
  <2>1. i + 1 < j + 1
    BY <1>1
  <2> QED
    BY <1>1, <1>4, <2>1 DEF Ordered
<1>5. ASSUME Ordered(s), NEW o \in Items(s) PROVE Head(s).left <= o.left
  <2>1. PICK i \in DOMAIN s : o = s[i]
    BY DEF Items
  <2>2. CASE i = 1
    BY <1>1, <2>1, <2>2 DEF Opp
  <2>3. CASE i > 1
    BY <1>1, <1>5, <2>1, <2>3 DEF Ordered
  <2> QED
    BY <1>2, <2>2, <2>3
<1>6. ASSUME OneEach(s) PROVE OneEach(t) /\ \A p \in Items(t) : p.dev # Head(s).dev
  <2>1. ASSUME NEW i \in DOMAIN t, NEW j \in DOMAIN t, t[i].dev = t[j].dev PROVE i = j
    <3>1. i + 1 = j + 1
      BY <1>1, <1>6, <2>1 DEF OneEach
    <3> QED
      BY <1>1, <3>1
  <2>2. ASSUME NEW i \in DOMAIN t PROVE t[i].dev # Head(s).dev
    <3>1. i + 1 # 1
      BY <1>1
    <3> QED
      BY <1>1, <1>6, <3>1 DEF OneEach
  <2> QED
    BY <2>1, <2>2 DEF OneEach, Items
<1> QED
  BY <1>1, <1>3, <1>4, <1>5, <1>6 DEF t

\* A second on, all opportunities that were queued are due.
LEMMA OppsElapse ==
  ASSUME opps \in Seq(Opp), Ordered(opps), ~Due,
         opps' = [i \in DOMAIN opps |-> [opps[i] EXCEPT !.left = @ - 1]]
  PROVE  /\ opps' \in Seq(Opp)
         /\ Ordered(opps')
         /\ OneEach(opps) => OneEach(opps')
         /\ \A p \in Items(opps') : p.left = 0 /\
              \E o \in Items(opps) : o.left = 1 /\ p.dev = o.dev /\ p.window = o.window
<1>1. DOMAIN opps = 1 .. Len(opps) /\ Len(opps) \in Nat
  BY LenProperties
<1>2. ASSUME NEW i \in DOMAIN opps PROVE opps[i] \in Opp /\ opps[i].left = 1
  <2>1. opps[i] \in Opp
    BY <1>1, ElementOfSeq
  <2>2. opps # <<>> /\ opps[i] \in Items(opps)
    BY <1>1, EmptySeq DEF Items
  <2>3. Head(opps).left <= opps[i].left /\ Head(opps).left # 0 /\ Head(opps) \in Opp
    BY <2>2, OppsTake DEF Due
  <2> QED
    BY <2>1, <2>3 DEF Opp
<1>3. \A i \in DOMAIN opps : /\ opps'[i] \in Opp /\ opps'[i].left = 0
                             /\ opps'[i].dev = opps[i].dev /\ opps'[i].window = opps[i].window
  BY <1>2 DEF Opp
<1>4. DOMAIN opps' = DOMAIN opps
  OBVIOUS
<1>5. opps' \in [1 .. Len(opps) -> Opp]
  <2> DEFINE f == [i \in DOMAIN opps |-> [opps[i] EXCEPT !.left = @ - 1]]
  <2>1. \A i \in DOMAIN opps : f[i] \in Opp
    BY <1>3
  <2>2. opps' = f
    OBVIOUS
  <2> QED
    BY <1>1, <2>1, <2>2
<1>6. opps' \in Seq(Opp)
  BY <1>1, <1>5, FunctionIsSeq
<1>7. Ordered(opps')
  <2> SUFFICES ASSUME NEW i \in DOMAIN opps', NEW j \in DOMAIN opps', i < j
               PROVE  opps'[i].left <= opps'[j].left
    BY DEF Ordered
  <2>1. opps'[i].left = 0 /\ opps'[j].left = 0
    BY <1>3, <1>4
  <2> QED
    BY <2>1
<1>8. OneEach(opps) => OneEach(opps')
  <2> SUFFICES ASSUME OneEach(opps), NEW i \in DOMAIN opps', NEW j \in DOMAIN opps',
                      opps'[i].dev = opps'[j].dev
               PROVE  i = j
    BY DEF OneEach
  <2>1. opps[i].dev = opps[j].dev
    BY <1>3, <1>4
  <2> QED
    BY <1>4, <2>1 DEF OneEach
<1>9. ASSUME NEW p \in Items(opps')
      PROVE  p.left = 0 /\ \E o \in Items(opps) : o.left = 1 /\ p.dev = o.dev /\ p.window = o.window
  <2>1. PICK i \in DOMAIN opps : p = opps'[i]
    BY <1>4 DEF Items
  <2>2. opps[i] \in Items(opps)
    BY DEF Items
  <2> QED
    BY <1>2, <1>3, <2>1, <2>2
<1> QED
  BY <1>6, <1>7, <1>8, <1>9

-----------------------------------------------------------------------------
(* Every step keeps the types.                                             *)

LEMMA InitTypes == Init => TypeInv
<1> USE NetworkServerAssumption
<1> SUFFICES ASSUME Init PROVE TypeInv
  OBVIOUS
<1>1. DeviceTypes
  BY DEF Init, DeviceTypes
<1>2. ServerTypes
  <2>1. <<>> \in Seq(Entry) /\ <<>> \in Seq(Opp) /\ <<>> \in Seq(Sent)
    BY EmptySeq
  <2> QED
    BY <2>1 DEF Init, ServerTypes
<1>3. GatewayTypes
  BY DEF Init, GatewayTypes
<1>4. Ordered(opps) /\ OppsHaveEntry /\ EntriesSent /\ CopiesFresh
  BY DEF Init, Ordered, OppsHaveEntry, Items, EntriesSent, CopiesFresh
<1> QED
  BY <1>1, <1>2, <1>3, <1>4 DEF TypeInv

\* One copy of the new uplink for each gateway that heard it, and none of an
\* earlier one.
UplinkSends(d, gws, link, power) ==
  /\ heard' = [heard EXCEPT ![d] = gws]
  /\ uplinks' = [uplinks EXCEPT ![d] = @ + 1] /\ age' = [age EXCEPT ![d] = 0]
  /\ UNCHANGED <<serverVars, gatewayVars, downlinks>>
  /\ copies \subseteq copies' /\ \A c \in copies : c.dev # d
  /\ \A c \in copies' \ copies : /\ c \in Copy /\ c.dev = d /\ c.n = uplinks[d] + 1
                                 /\ c.link = link /\ c.gw \in gws /\ c.power = power[c.gw]
  /\ \A g \in gws : \E c \in copies' : c.dev = d /\ c.gw = g

LEMMA UplinkDoes ==
  ASSUME TypeInv, NEW d \in Devices, Uplink(d)
  PROVE  /\ uplinks[d] \in Nat /\ uplinks[d] < NumUplinks[d] /\ age[d] >= MinGap
         /\ \E gws \in (SUBSET Gateways) \ {{}}, link \in BOOLEAN :
              \E power \in PowersOf(gws) : UplinkSends(d, gws, link, power)
<1> USE NetworkServerAssumption DEF TypeInv
<1>0. PICK gws \in (SUBSET {g \in Gateways : ends[g] = {}}) \ {{}},
           link \in {b \in BOOLEAN : b => d \in LinkChecks} : \E power \in PowersOf(gws) :
        /\ heard' = [heard EXCEPT ![d] = gws]
        /\ copies' = copies \cup
             {[dev |-> d, n |-> uplinks[d] + 1, link |-> link, gw |-> g,
               power |-> power[g]] : g \in gws}
  BY DEF Uplink
<1>1. PICK power \in PowersOf(gws) :
        /\ heard' = [heard EXCEPT ![d] = gws]
        /\ copies' = copies \cup
             {[dev |-> d, n |-> uplinks[d] + 1, link |-> link, gw |-> g,
               power |-> power[g]] : g \in gws}
  BY <1>0
<1>2. /\ uplinks' = [uplinks EXCEPT ![d] = @ + 1] /\ age' = [age EXCEPT ![d] = 0]
      /\ uplinks[d] < NumUplinks[d] /\ age[d] >= MinGap
      /\ UNCHANGED <<serverVars, gatewayVars, downlinks>>
  BY DEF Uplink
<1>3. uplinks[d] \in Nat /\ uplinks[d] + 1 \in Nat \ {0} /\ age[d] # 0
  BY <1>2 DEF DeviceTypes
<1>4. link \in BOOLEAN
  OBVIOUS
<1>5. \A g \in gws : g \in Gateways /\ power[g] \in Powers
  BY DEF PowersOf
<1>6. \A c \in copies : c.dev # d
  BY <1>3 DEF CopiesFresh
<1>7. ASSUME NEW c \in copies' \ copies
      PROVE  /\ c \in Copy /\ c.dev = d /\ c.n = uplinks[d] + 1
             /\ c.link = link /\ c.gw \in gws /\ c.power = power[c.gw]
  <2>1. PICK g \in gws : c = [dev |-> d, n |-> uplinks[d] + 1, link |-> link, gw |-> g,
                              power |-> power[g]]
    BY <1>1
  <2> QED
    BY <1>3, <1>4, <1>5, <2>1 DEF Copy
<1>8. ASSUME NEW g \in gws PROVE \E c \in copies' : c.dev = d /\ c.gw = g
  <2> DEFINE c == [dev |-> d, n |-> uplinks[d] + 1, link |-> link, gw |-> g, power |-> power[g]]
  <2>1. c \in copies' /\ c.dev = d /\ c.gw = g
    BY <1>1
  <2> QED
    BY <2>1
<1>9. copies \subseteq copies'
  BY <1>1
<1>10. UplinkSends(d, gws, link, power)
  BY <1>1, <1>2, <1>6, <1>7, <1>8, <1>9 DEF UplinkSends
<1> QED
  BY <1>2, <1>3, <1>4, <1>10

LEMMA UplinkTypes ==
  ASSUME TypeInv, NEW d \in Devices, Uplink(d)
  PROVE  TypeInv'
<1> USE NetworkServerAssumption DEF TypeInv
<1>0. PICK gws \in (SUBSET Gateways) \ {{}}, link \in BOOLEAN :
        \E power \in PowersOf(gws) : UplinkSends(d, gws, link, power)
  BY UplinkDoes
<1>1. heard' = [heard EXCEPT ![d] = gws]
  BY <1>0 DEF UplinkSends
<1>2. /\ uplinks' = [uplinks EXCEPT ![d] = @ + 1] /\ age' = [age EXCEPT ![d] = 0]
      /\ uplinks[d] < NumUplinks[d] /\ age[d] >= MinGap
      /\ UNCHANGED <<serverVars, gatewayVars, downlinks>>
  BY <1>0, UplinkDoes DEF UplinkSends
<1>3. uplinks[d] \in Nat /\ age[d] \in Nat /\ MinGap \in Nat \ {0} /\ NumUplinks[d] \in Nat
  BY DEF DeviceTypes
<1>4. DeviceTypes'
  BY <1>1, <1>2, <1>3 DEF DeviceTypes
<1>5. /\ \A c \in copies' \ copies : c \in Copy /\ c.dev = d /\ c.n = uplinks[d] + 1 /\ c.gw \in gws
      /\ \A c \in copies : c.dev # d
  BY <1>0 DEF UplinkSends
<1>6. ServerTypes'
  <2>1. copies' \subseteq Copy
    BY <1>5 DEF ServerTypes
  <2> QED
    BY <1>2, <2>1 DEF ServerTypes, serverVars
<1>7. CopiesFresh'
  <2> SUFFICES ASSUME NEW c \in copies'
               PROVE  c.n = uplinks'[c.dev] /\ age'[c.dev] = 0 /\ c.gw \in heard'[c.dev]
    BY DEF CopiesFresh
  <2>1. CASE c \in copies
    <3>1. c.dev \in Devices /\ c.dev # d
      BY <1>5, <2>1 DEF ServerTypes, Copy
    <3> QED
      BY <1>1, <1>2, <2>1, <3>1 DEF CopiesFresh, DeviceTypes
  <2>2. CASE c \notin copies
    BY <1>1, <1>2, <1>5, <2>2 DEF DeviceTypes
  <2> QED
    BY <2>1, <2>2
<1>8. EntriesSent'
  <2> SUFFICES ASSUME NEW e \in Devices, NEW i \in DOMAIN received[e]
               PROVE  received[e][i].n <= uplinks'[e]
    BY <1>2 DEF EntriesSent, serverVars
  <2>1. received[e][i].n <= uplinks[e] /\ uplinks[e] \in Nat
    BY DEF EntriesSent, DeviceTypes
  <2>2. uplinks'[e] = uplinks[e] \/ uplinks'[e] = uplinks[e] + 1
    BY <1>2 DEF DeviceTypes
  <2>3. received[e][i] \in Entry
    <3>1. received[e] \in Seq(Entry)
      BY DEF ServerTypes
    <3> QED
      BY <3>1, LenProperties, ElementOfSeq
  <2> QED
    BY <2>1, <2>2, <2>3 DEF Entry
<1>9. GatewayTypes' /\ Ordered(opps)' /\ OppsHaveEntry'
  BY <1>2 DEF GatewayTypes, Ordered, OppsHaveEntry, Items, gatewayVars, serverVars
<1> QED
  BY <1>4, <1>6, <1>7, <1>8, <1>9

LEMMA ReceiveTypes ==
  ASSUME TypeInv, NEW c \in copies, Receive(c)
  PROVE  TypeInv'
<1> USE DEF TypeInv
<1>1. /\ copies' = copies \ {c} /\ received' = InsertReceivedPacket(c)
      /\ needsReply' = [needsReply EXCEPT ![c.dev] = @ \/ c.dev \in Confirmed]
      /\ UNCHANGED <<deviceVars, gatewayVars, downlinks, replies>>
      /\ opps' = IF IsNew(c) THEN Append(opps, Opportunity(c.dev, FirstTry(c.dev))) ELSE opps
  BY DEF Receive
<1> DEFINE s == received[c.dev]
           t == received'[c.dev]
           o == Opportunity(c.dev, FirstTry(c.dev))
<1>2. c.dev \in Devices /\ c.n = uplinks[c.dev] /\ c.n \in Nat
  BY DEF ServerTypes, Copy, CopiesFresh
<1>3. /\ s \in Seq(Entry) /\ received' \in [Devices -> Seq(Entry)]
      /\ \A d \in Devices \ {c.dev} : received'[d] = received[d]
      /\ DOMAIN s = 1 .. Len(s) /\ Len(s) \in Nat
  BY <1>1, InsertDoes
<1>4. t # <<>> /\ \A i \in DOMAIN t : t[i].n <= uplinks[c.dev]
  <2>1. CASE Known(c) = 0
    <3>1. t = Append(s, NewEntry(c)) /\ NewEntry(c) \in Entry
      BY <1>1, <2>1, InsertDoes
    <3>2. /\ t # <<>> /\ DOMAIN t = 1 .. (Len(s) + 1)
          /\ t[Len(s) + 1] = NewEntry(c) /\ \A i \in DOMAIN s : t[i] = s[i]
      BY <1>3, <3>1, AppendAt
    <3>3. NewEntry(c).n <= uplinks[c.dev]
      BY <1>2 DEF NewEntry
    <3>4. \A i \in DOMAIN t : i = Len(s) + 1 \/ i \in DOMAIN s
      BY <1>3, <3>2
    <3> HIDE DEF t
    <3> QED
      BY <1>2, <3>2, <3>3, <3>4 DEF EntriesSent
  <2>2. CASE Known(c) # 0
    <3>1. /\ Known(c) \in DOMAIN s /\ Len(t) = Len(s) /\ DOMAIN t = DOMAIN s
          /\ \A j \in DOMAIN s : j # Known(c) => t[j] = s[j]
          /\ t[Known(c)].n = s[Known(c)].n
      BY <1>1, <2>2, InsertDoes
    <3>2. t # <<>>
      BY <1>3, <3>1, EmptySeq
    <3>3. \A i \in DOMAIN t : t[i].n = s[i].n
      BY <3>1
    <3> QED
      BY <1>2, <3>1, <3>2, <3>3 DEF EntriesSent
  <2> QED
    BY <2>1, <2>2
<1>5. EntriesSent'
  BY <1>1, <1>3, <1>4 DEF EntriesSent, deviceVars
<1>6. o \in Opp /\ o.left = 1 /\ o.dev = c.dev
  BY <1>2 DEF Opportunity, Opp, Windows, FirstTry
<1>7. opps' \in Seq(Opp) /\ Ordered(opps') /\ Items(opps') \subseteq Items(opps) \cup {o}
  <2>1. opps \in Seq(Opp)
    BY DEF ServerTypes
  <2> HIDE DEF o
  <2>2. /\ Append(opps, o) \in Seq(Opp) /\ Ordered(Append(opps, o))
        /\ Items(Append(opps, o)) = Items(opps) \cup {o}
    BY <1>6, <2>1, OppsPut
  <2> QED
    BY <1>1, <2>1, <2>2 DEF o
<1>8. OppsHaveEntry'
  <2> SUFFICES ASSUME NEW p \in Items(opps') PROVE received'[p.dev] # <<>>
    BY DEF OppsHaveEntry
  <2>1. CASE p.dev = c.dev
    BY <1>4, <2>1
  <2>2. CASE p.dev # c.dev
    <3>1. p \in Items(opps) /\ p.dev \in Devices
      <4>1. p \in Items(opps)
        BY <1>6, <1>7, <2>2
      <4>2. opps \in Seq(Opp)
        BY DEF ServerTypes
      <4>3. p \in Opp
        BY <4>1, <4>2, LenProperties, ElementOfSeq DEF Items
      <4> QED
        BY <4>1, <4>3 DEF Opp
    <3> QED
      BY <1>3, <2>2, <3>1 DEF OppsHaveEntry
  <2> QED
    BY <2>1, <2>2
<1>9. CopiesFresh' /\ DeviceTypes' /\ GatewayTypes'
  BY <1>1 DEF CopiesFresh, DeviceTypes, GatewayTypes, deviceVars, gatewayVars
<1>10. ServerTypes'
  BY <1>1, <1>2, <1>3, <1>7 DEF ServerTypes
<1> QED
  BY <1>5, <1>7, <1>8, <1>9, <1>10

LEMMA DueFacts ==
  ASSUME TypeInv, Due
  PROVE  /\ opps \in Seq(Opp) /\ opps # <<>>
         /\ Head(opps) \in Opp /\ Dev \in Devices /\ Window \in Windows
         /\ Head(opps) \in Items(opps) /\ Head(opps).left = 0
         /\ Last(Dev) \in Entry
         /\ Len(received[Dev]) \in DOMAIN received[Dev]
<1>1. opps \in Seq(Opp) /\ opps # <<>> /\ Head(opps).left = 0
  BY DEF TypeInv, ServerTypes, Due
<1>2. Head(opps) \in Opp /\ Head(opps) \in Items(opps)
  BY <1>1, OppsTake
<1>3. Dev \in Devices /\ Window \in Windows
  BY <1>2 DEF Opp, Dev, Window
<1>4. received[Dev] \in Seq(Entry) /\ received[Dev] # <<>>
  BY <1>2, <1>3 DEF TypeInv, ServerTypes, OppsHaveEntry, Dev
<1>5. Len(received[Dev]) \in Nat \ {0} /\ DOMAIN received[Dev] = 1 .. Len(received[Dev])
  BY <1>4, EmptySeq, LenProperties
<1>6. Last(Dev) \in Entry
  BY <1>4, <1>5, ElementOfSeq DEF Last
<1> QED
  BY <1>1, <1>2, <1>3, <1>5, <1>6

\* An opportunity is over, or put off to the device's other window.
OppOver    == opps' = Tail(opps)
OppPutOff  == Window = FirstTry(Dev) /\ opps' = Append(Tail(opps), Opportunity(Dev, Retried(Dev)))

LEMMA OppStep ==
  ASSUME TypeInv, Due, OppOver \/ OppPutOff
  PROVE  /\ opps' \in Seq(Opp) /\ Ordered(opps')
         /\ Items(opps') \subseteq
              Items(Tail(opps)) \cup (IF OppPutOff THEN {Opportunity(Dev, Retried(Dev))} ELSE {})
         /\ Items(Tail(opps)) \subseteq Items(opps)
         /\ OneEach(opps) => /\ OneEach(opps')
                             /\ \A o \in Items(Tail(opps)) : o.dev # Dev
         /\ Opportunity(Dev, Retried(Dev)) \in Opp
<1> DEFINE o == Opportunity(Dev, Retried(Dev))
<1>1. o \in Opp /\ o.left = 1 /\ o.dev = Dev
  BY DueFacts DEF Opportunity, Opp, Windows, Retried, FirstTry
<1>2. /\ Tail(opps) \in Seq(Opp) /\ Items(opps) = Items(Tail(opps)) \cup {Head(opps)}
      /\ Ordered(Tail(opps))
      /\ OneEach(opps) => OneEach(Tail(opps)) /\ \A p \in Items(Tail(opps)) : p.dev # Dev
  BY DueFacts, OppsTake DEF TypeInv, Dev
<1> HIDE DEF o
<1>3. CASE OppOver /\ ~OppPutOff
  BY <1>1, <1>2, <1>3 DEF OppOver, o
<1>4. CASE OppPutOff
  <2>1. opps' = Append(Tail(opps), o)
    BY <1>4 DEF OppPutOff, o
  <2>2. /\ opps' \in Seq(Opp) /\ Items(opps') = Items(Tail(opps)) \cup {o}
        /\ Ordered(opps')
        /\ OneEach(opps) => OneEach(opps')
    BY <1>1, <1>2, <2>1, OppsPut
  <2> QED
    BY <1>1, <1>2, <1>4, <2>2 DEF o
<1> QED
  BY <1>3, <1>4

LEMMA OppTypes ==
  ASSUME TypeInv, Due, OppOver \/ OppPutOff,
         UNCHANGED <<deviceVars, gatewayVars, copies, received>>,
         needsReply' \in [Devices -> BOOLEAN], replies' \in [Devices -> Seq(Sent)],
         downlinks' \subseteq [dev : Devices, window : Windows, gw : Gateways]
  PROVE  TypeInv'
<1> USE DEF TypeInv
<1>1. DeviceTypes' /\ GatewayTypes' /\ CopiesFresh' /\ EntriesSent'
  BY DEF DeviceTypes, GatewayTypes, CopiesFresh, EntriesSent, deviceVars, gatewayVars
<1>2. ServerTypes' /\ Ordered(opps)'
  BY OppStep DEF ServerTypes
<1>3. OppsHaveEntry'
  <2> SUFFICES ASSUME NEW p \in Items(opps') PROVE received[p.dev] # <<>>
    BY DEF OppsHaveEntry
  <2>1. CASE p \in Items(opps)
    BY <2>1 DEF OppsHaveEntry
  <2>2. CASE p \notin Items(opps)
    <3>1. p.dev = Dev
      BY <2>2, OppStep DEF Opportunity
    <3> QED
      BY <3>1, DueFacts DEF OppsHaveEntry, Dev
  <2> QED
    BY <2>1, <2>2
<1> QED
  BY <1>1, <1>2, <1>3

\* The gateways to choose among heard the last frame.
LEMMA CandidatesHeard ==
  ASSUME TypeInv, Due, NEW w
  PROVE  /\ DOMAIN Last(Dev).power \in (SUBSET Gateways) \ {{}}
         /\ \A g \in DOMAIN Last(Dev).power : Last(Dev).power[g] \in Nat
         /\ GetBestGatewayForDevice(Dev, w) \subseteq Candidates(Dev, w)
         /\ Candidates(Dev, w) \subseteq Able(Dev, w)
         /\ Able(Dev, w) \subseteq DOMAIN Last(Dev).power
<1> USE NetworkServerAssumption
<1>1. PICK gws \in (SUBSET Gateways) \ {{}} : Last(Dev).power \in [gws -> Powers]
  BY DueFacts DEF Entry, PowerMap
<1> QED
  BY <1>1 DEF GetBestGatewayForDevice, Candidates, Able, GetPowerGatewayMap

\* What Answer sends, and to which list of replies it adds.
LEMMA AnswerDoes ==
  ASSUME TypeInv, Answer
  PROVE  /\ Due /\ OppOver /\ UNCHANGED <<deviceVars, gatewayVars, copies, received>>
         /\ needsReply' = [needsReply EXCEPT ![Dev] = FALSE]
         /\ \E g \in GetBestGatewayForDevice(Dev, Window) :
              /\ g \in Gateways /\ Reply(Dev, Window, g) \in Sent
              /\ replies' = [replies EXCEPT ![Dev] = Append(@, Reply(Dev, Window, g))]
              /\ downlinks' = downlinks \cup {[dev |-> Dev, window |-> Window, gw |-> g]}
<1> USE NetworkServerAssumption
<1>1. PICK g \in GetBestGatewayForDevice(Dev, Window) : SendThroughGateway(Dev, Window, g)
  BY DEF Answer
<1>2. Due /\ opps' = Tail(opps) /\ UNCHANGED <<deviceVars, gatewayVars, copies, received>>
  BY DEF Answer
<1>3. g \in Gateways
  BY <1>2, CandidatesHeard
<1>4. IsFiniteSet(DOMAIN Last(Dev).power) /\ IsFiniteSet(heard[Dev])
  <2>1. heard[Dev] \in SUBSET Gateways
    BY <1>2, DueFacts DEF TypeInv, DeviceTypes
  <2> QED
    BY <1>2, <2>1, CandidatesHeard, FS_Subset
<1>5. Reply(Dev, Window, g) \in Sent
  <2>1. Cardinality(DOMAIN Last(Dev).power) \in Nat /\ Cardinality(heard[Dev]) \in Nat
    BY <1>4, FS_CardinalityType
  <2>2. Last(Dev).n \in Nat /\ Dev \in Devices /\ Window \in Windows
    BY <1>2, DueFacts DEF Entry
  <2>3. needsReply[Dev] \in BOOLEAN /\ uplinks[Dev] \in Nat /\ age[Dev] \in Nat
    BY <2>2 DEF TypeInv, ServerTypes, DeviceTypes
  <2> QED
    BY <1>3, <2>1, <2>2, <2>3 DEF Reply, Sent
<1> QED
  BY <1>1, <1>2, <1>3, <1>5 DEF SendThroughGateway, OppOver

LEMMA AnswerTypes ==
  ASSUME TypeInv, Answer
  PROVE  TypeInv'
<1>1. PICK g \in GetBestGatewayForDevice(Dev, Window) :
        /\ g \in Gateways /\ Reply(Dev, Window, g) \in Sent
        /\ replies' = [replies EXCEPT ![Dev] = Append(@, Reply(Dev, Window, g))]
        /\ downlinks' = downlinks \cup {[dev |-> Dev, window |-> Window, gw |-> g]}
  BY AnswerDoes
<1>2. Due /\ OppOver /\ UNCHANGED <<deviceVars, gatewayVars, copies, received>>
      /\ needsReply' = [needsReply EXCEPT ![Dev] = FALSE]
  BY AnswerDoes
<1>3. Dev \in Devices /\ Window \in Windows
  BY <1>2, DueFacts
<1>4. replies' \in [Devices -> Seq(Sent)]
  <2>1. Append(replies[Dev], Reply(Dev, Window, g)) \in Seq(Sent)
    BY <1>1, <1>3, AppendAt DEF TypeInv, ServerTypes
  <2> QED
    BY <1>1, <2>1 DEF TypeInv, ServerTypes
<1>5. needsReply' \in [Devices -> BOOLEAN]
  BY <1>2 DEF TypeInv, ServerTypes
<1>6. downlinks' \subseteq [dev : Devices, window : Windows, gw : Gateways]
  BY <1>1, <1>3 DEF TypeInv, GatewayTypes
<1> QED
  BY <1>2, <1>4, <1>5, <1>6, OppTypes

LEMMA NoReplyTypes ==
  ASSUME TypeInv, TryOtherWindow \/ GiveUp \/ NoReplyNeeded
  PROVE  /\ TypeInv' /\ Due /\ (OppOver \/ OppPutOff)
         /\ UNCHANGED <<deviceVars, gatewayVars, copies, downlinks, received, replies>>
<1>1. /\ Due /\ (OppOver \/ OppPutOff)
      /\ UNCHANGED <<deviceVars, gatewayVars, copies, downlinks, received, replies>>
  BY DEF TryOtherWindow, GiveUp, NoReplyNeeded, OppOver, OppPutOff
<1>2. /\ needsReply' \in [Devices -> BOOLEAN] /\ replies' \in [Devices -> Seq(Sent)]
      /\ downlinks' \subseteq [dev : Devices, window : Windows, gw : Gateways]
  BY <1>1 DEF TryOtherWindow, GiveUp, NoReplyNeeded, TypeInv, ServerTypes, GatewayTypes
<1> QED
  BY <1>1, <1>2, OppTypes

LEMMA GatewayStepTypes ==
  ASSUME TypeInv, (\E m \in downlinks : GatewaySend(m)) \/ (\E g \in Gateways : TxFinished(g))
  PROVE  /\ TypeInv' /\ UNCHANGED <<deviceVars, serverVars, copies>>
<1> USE NetworkServerAssumption DEF TypeInv
<1>1. UNCHANGED <<deviceVars, serverVars, copies>>
  BY DEF GatewaySend, TxFinished
<1>2. DeviceTypes' /\ ServerTypes' /\ Ordered(opps)' /\ OppsHaveEntry' /\ CopiesFresh' /\ EntriesSent'
  BY <1>1 DEF DeviceTypes, ServerTypes, Ordered, OppsHaveEntry, Items, CopiesFresh, EntriesSent,
              deviceVars, serverVars
<1>3. GatewayTypes'
  <2>1. ASSUME NEW m \in downlinks, GatewaySend(m) PROVE GatewayTypes'
    <3>1. m.gw \in Gateways /\ m.window \in Windows /\ downlinks' \subseteq downlinks
      BY <2>1 DEF GatewayTypes, GatewaySend
    <3>2. DutyWait[m.window] \in Nat /\ AirTime \in 0 .. AirTime
      BY <3>1 DEF Windows
    <3>3. CASE UNCHANGED gatewayVars
      BY <3>1, <3>3 DEF GatewayTypes, gatewayVars
    <3>4. CASE /\ transmitting' = [transmitting EXCEPT ![m.gw] = TRUE]
               /\ ends' = [ends EXCEPT ![m.gw] = @ \cup {AirTime}]
               /\ wait' = [wait EXCEPT ![m.gw][m.window] = DutyWait[m.window]]
      <4>1. wait' \in [Gateways -> [Windows -> Nat]]
        BY <3>1, <3>2, <3>4 DEF GatewayTypes
      <4>2. ends' \in [Gateways -> SUBSET (0 .. AirTime)]
        BY <3>1, <3>2, <3>4 DEF GatewayTypes
      <4> QED
        BY <3>1, <3>4, <4>1, <4>2 DEF GatewayTypes
    <3> QED
      BY <2>1, <3>3, <3>4 DEF GatewaySend
  <2>2. ASSUME NEW g \in Gateways, TxFinished(g) PROVE GatewayTypes'
    BY <2>2 DEF GatewayTypes, TxFinished
  <2> QED
    BY <2>1, <2>2
<1> QED
  BY <1>1, <1>2, <1>3

LEMMA ElapseTypes ==
  ASSUME TypeInv, Elapse
  PROVE  /\ TypeInv' /\ copies = {} /\ copies' = {}
         /\ UNCHANGED <<uplinks, heard, received, needsReply, replies>>
         /\ \A d \in Devices : age'[d] = IF age[d] < MinGap THEN age[d] + 1 ELSE MinGap
         /\ OneEach(opps) => OneEach(opps')
         /\ \A p \in Items(opps') : p.left = 0 /\
              \E o \in Items(opps) : o.left = 1 /\ p.dev = o.dev /\ p.window = o.window
<1> USE NetworkServerAssumption DEF TypeInv
<1>1. /\ copies = {} /\ copies' = {} /\ ~Due /\ (\A g \in Gateways : 0 \notin ends[g])
      /\ age' = [d \in Devices |-> IF age[d] < MinGap THEN age[d] + 1 ELSE MinGap]
      /\ opps' = [i \in DOMAIN opps |-> [opps[i] EXCEPT !.left = @ - 1]]
      /\ ends' = [g \in Gateways |-> {t - 1 : t \in ends[g]}]
      /\ wait' = [g \in Gateways |-> [w \in Windows |->
                    IF wait[g][w] > 0 THEN wait[g][w] - 1 ELSE 0]]
      /\ UNCHANGED <<uplinks, heard, copies, downlinks, received, needsReply, replies, transmitting>>
  BY DEF Elapse
<1>2. /\ opps' \in Seq(Opp) /\ Ordered(opps')
      /\ OneEach(opps) => OneEach(opps')
      /\ \A p \in Items(opps') : p.left = 0 /\
           \E o \in Items(opps) : o.left = 1 /\ p.dev = o.dev /\ p.window = o.window
  <2>1. opps \in Seq(Opp)
    BY DEF ServerTypes
  <2> QED
    BY <1>1, <2>1, OppsElapse
<1>3. DeviceTypes'
  BY <1>1 DEF DeviceTypes
<1>4. GatewayTypes'
  <2>1. ASSUME NEW g \in Gateways PROVE {t - 1 : t \in ends[g]} \in SUBSET (0 .. AirTime)
    <3>1. \A t \in ends[g] : t \in 0 .. AirTime /\ t # 0
      BY <1>1 DEF GatewayTypes
    <3>2. \A t \in ends[g] : t - 1 \in 0 .. AirTime
      BY <3>1
    <3> QED
      BY <3>2
  <2>2. \A g \in Gateways, w \in Windows :
          (IF wait[g][w] > 0 THEN wait[g][w] - 1 ELSE 0) \in Nat
    BY DEF GatewayTypes
  <2> QED
    BY <1>1, <2>1, <2>2 DEF GatewayTypes
<1>5. ServerTypes'
  BY <1>1, <1>2 DEF ServerTypes
<1>6. OppsHaveEntry' /\ CopiesFresh' /\ EntriesSent'
  <2>1. \A p \in Items(opps') : \E o \in Items(opps) : p.dev = o.dev
    BY <1>2
  <2>2. OppsHaveEntry'
    BY <1>1, <2>1 DEF OppsHaveEntry
  <2> QED
    BY <1>1, <2>2 DEF CopiesFresh, EntriesSent
<1> QED
  BY <1>1, <1>2, <1>3, <1>4, <1>5, <1>6

LEMMA StepTypes == TypeInv /\ [Next]_vars => TypeInv'
<1> SUFFICES ASSUME TypeInv, [Next]_vars PROVE TypeInv'
  OBVIOUS
<1>1. CASE UNCHANGED vars
  BY <1>1 DEF TypeInv, DeviceTypes, ServerTypes, GatewayTypes, Ordered, OppsHaveEntry, Items,
              CopiesFresh, EntriesSent, vars
<1> QED
  BY <1>1, UplinkTypes, ReceiveTypes, NoReplyTypes, AnswerTypes, GatewayStepTypes, ElapseTypes
     DEF Next

\* Every variable of the server, its devices and its gateways has its type:
\* no event is late, no gateway's waiting time is negative.
THEOREM ServerTyped == Spec => []TypeOK
<1>1. TypeInv => TypeOK
  <2> SUFFICES ASSUME TypeInv PROVE TypeOK
    OBVIOUS
  <2>1. ASSUME NEW d \in Devices, NEW i \in DOMAIN received[d]
        PROVE  /\ received[d][i].n \in 1 .. uplinks[d] /\ received[d][i].link \in BOOLEAN
               /\ DOMAIN received[d][i].power \in (SUBSET Gateways) \ {{}}
    <3>1. received[d] \in Seq(Entry)
      BY DEF TypeInv, ServerTypes
    <3>2. received[d][i] \in Entry
      BY <3>1, LenProperties, ElementOfSeq
    <3>3. PICK gws \in (SUBSET Gateways) \ {{}} : received[d][i].power \in [gws -> Powers]
      BY <3>2 DEF Entry, PowerMap
    <3>4. received[d][i].n <= uplinks[d] /\ uplinks[d] \in Nat
      BY DEF TypeInv, EntriesSent, DeviceTypes
    <3> QED
      BY <3>2, <3>3, <3>4 DEF Entry
  <2>2. \A d \in Devices : uplinks[d] \in 0 .. NumUplinks[d]
    BY NetworkServerAssumption DEF TypeInv, DeviceTypes
  <2> QED
    BY <2>1, <2>2 DEF TypeInv, DeviceTypes, ServerTypes, GatewayTypes, TypeOK, Copy, Opp
<1> QED
  BY <1>1, InitTypes, StepTypes, PTL DEF Spec

-----------------------------------------------------------------------------
(* As long as the counter does not wrap, every uplink is filed in its      *)
(* place.                                                                  *)

\* Two of the first CounterSize uplinks have different counters.
LEMMA CountersDiffer ==
  ASSUME NEW m \in 1 .. CounterSize, NEW n \in 1 .. CounterSize, FCnt(m) = FCnt(n)
  PROVE  m = n
<1> USE NetworkServerAssumption
<1>1. CounterSize \in Nat \ {0}
  OBVIOUS
<1>2. \A k \in Nat : k < CounterSize => k % CounterSize = k
  BY <1>1
<1>3. CounterSize % CounterSize = 0
  BY <1>1
<1>4. m < CounterSize \/ m = CounterSize
  BY <1>1
<1>5. n < CounterSize \/ n = CounterSize
  BY <1>1
<1> QED
  BY <1>1, <1>2, <1>3, <1>4, <1>5 DEF FCnt

LEMMA FiledFacts ==
  ASSUME TypeInv, Filed, NEW d \in Devices
  PROVE  /\ uplinks[d] \in Nat /\ uplinks[d] <= NumUplinks[d] /\ NumUplinks[d] \in Nat
         /\ received[d] \in Seq(Entry)
         /\ Len(received[d]) \in Nat /\ DOMAIN received[d] = 1 .. Len(received[d])
         /\ Pending(d) \subseteq heard[d]
         /\ Pending(d) # heard[d] =>
              /\ Len(received[d]) = uplinks[d] /\ uplinks[d] > 0 /\ received[d] # <<>>
              /\ Last(d) \in Entry /\ Last(d).n = uplinks[d]
<1> USE NetworkServerAssumption DEF TypeInv
<1>1. uplinks[d] \in Nat /\ uplinks[d] <= NumUplinks[d] /\ NumUplinks[d] \in Nat
  BY DEF DeviceTypes
<1>2. received[d] \in Seq(Entry)
  BY DEF ServerTypes
<1>3. Len(received[d]) \in Nat /\ DOMAIN received[d] = 1 .. Len(received[d])
  BY <1>2, LenProperties
<1>4. Pending(d) \subseteq heard[d]
  BY DEF Pending, CopiesFresh
<1>5. ASSUME Pending(d) # heard[d]
      PROVE  /\ Len(received[d]) = uplinks[d] /\ uplinks[d] > 0 /\ received[d] # <<>>
             /\ Last(d) \in Entry /\ Last(d).n = uplinks[d]
  <2>1. Len(received[d]) = uplinks[d] /\ heard[d] # {}
    BY <1>4, <1>5 DEF Filed, DeviceFiled
  <2>2. uplinks[d] > 0
    BY <1>1, <2>1 DEF Filed, DeviceFiled
  <2>3. received[d] # <<>>
    BY <2>1, <2>2, EmptySeq
  <2>4. Len(received[d]) \in DOMAIN received[d]
    BY <1>1, <1>3, <2>1, <2>2
  <2>5. received[d][Len(received[d])] \in Entry
    BY <1>2, <1>3, <2>4, ElementOfSeq
  <2> QED
    BY <2>1, <2>2, <2>3, <2>4, <2>5 DEF Last, Filed, DeviceFiled
<1> QED
  BY <1>1, <1>2, <1>3, <1>4, <1>5

\* The first copy of an uplink begins an entry, the others join it.
LEMMA ReceiveDoes ==
  ASSUME NoWrap, TypeInv, Filed, NEW c \in copies, Receive(c)
  PROVE  LET d == c.dev IN
         /\ d \in Devices /\ c.gw \in Pending(d) /\ c.n = uplinks[d] /\ uplinks[d] > 0
         /\ Pending(d)' = Pending(d) \ {c.gw}
         /\ \A e \in Devices \ {d} : received'[e] = received[e] /\ Pending(e)' = Pending(e)
         /\ UNCHANGED <<deviceVars, gatewayVars, downlinks, replies>>
         /\ IF Pending(d) = heard[d]
              THEN /\ IsNew(c) /\ opps' = Append(opps, Opportunity(d, FirstTry(d)))
                   /\ received'[d] = Append(received[d], NewEntry(c)) /\ NewEntry(c) \in Entry
              ELSE /\ ~IsNew(c) /\ opps' = opps
                   /\ Len(received'[d]) = Len(received[d])
                   /\ DOMAIN received'[d] = DOMAIN received[d]
                   /\ \A i \in DOMAIN received[d] : received'[d][i].n = received[d][i].n
                   /\ Last(d)'.power = Heard(Last(d).power, c)
<1> USE NetworkServerAssumption
<1> DEFINE d == c.dev
           s == received[d]
<1>1. /\ copies' = copies \ {c} /\ received' = InsertReceivedPacket(c)
      /\ UNCHANGED <<deviceVars, gatewayVars, downlinks, replies>>
      /\ opps' = IF IsNew(c) THEN Append(opps, Opportunity(d, FirstTry(d))) ELSE opps
  BY DEF Receive
<1>2. d \in Devices /\ c.n = uplinks[d] /\ c.n \in Nat \ {0} /\ c \in Copy
  BY DEF TypeInv, ServerTypes, Copy, CopiesFresh
<1>3. c.gw \in Pending(d)
  BY DEF Pending
<1>4. Pending(d)' = Pending(d) \ {c.gw}
  <2>1. \A g : g \in Pending(d)' <=> \E e \in copies : e # c /\ e.dev = d /\ e.gw = g
    BY <1>1 DEF Pending
  <2>2. \A g : g \in Pending(d) <=> \E e \in copies : e.dev = d /\ e.gw = g
    BY DEF Pending
  <2>3. \A e \in copies : e.dev = d /\ e.gw = c.gw => e = c
    BY DEF Filed
  <2> QED
    BY <2>1, <2>2, <2>3
<1>5. ASSUME NEW e \in Devices \ {d}
      PROVE  received'[e] = received[e] /\ Pending(e)' = Pending(e)
  BY <1>1, <1>5, InsertDoes, ZenonT(60) DEF Pending, TypeInv
<1>6. /\ s \in Seq(Entry) /\ Len(s) \in Nat /\ DOMAIN s = 1 .. Len(s)
      /\ uplinks[d] \in Nat \ {0} /\ uplinks[d] <= CounterSize
      /\ \A i \in DOMAIN s : s[i].n = i
  <2>1. NumUplinks[d] \in Nat /\ NumUplinks[d] <= CounterSize /\ CounterSize \in Nat
    BY <1>2 DEF NoWrap
  <2> QED
    BY <1>2, <2>1, FiledFacts DEF Filed, DeviceFiled
<1>7. \A i \in DOMAIN s : FCnt(s[i].n) = FCnt(c.n) => i = uplinks[d]
  <2> SUFFICES ASSUME NEW i \in DOMAIN s, FCnt(s[i].n) = FCnt(c.n) PROVE i = uplinks[d]
    OBVIOUS
  <2>1. s[i].n = i /\ i \in 1 .. CounterSize /\ c.n \in 1 .. CounterSize
    <3>1. Len(s) <= uplinks[d]
      BY <1>2, <1>6, SMTT(30) DEF Filed, DeviceFiled
    <3> QED
      BY <1>2, <1>6, <3>1
  <2> QED
    BY <1>2, <2>1, CountersDiffer
<1>8. CASE Pending(d) = heard[d]
  <2>1. Len(s) = uplinks[d] - 1
    BY <1>2, <1>6, <1>8, SMTT(30) DEF Filed, DeviceFiled
  <2>2. Known(c) = 0
    <3>1. {i \in DOMAIN s : FCnt(s[i].n) = FCnt(c.n)} = {}
      BY <1>6, <1>7, <2>1
    <3> QED
      BY <3>1, KnownIsEntry DEF TypeInv
  <2>3. IsNew(c)
    <3>1. CASE s # <<>>
      <4>1. Len(s) \in DOMAIN s /\ Len(s) # uplinks[d]
        BY <1>6, <2>1, <3>1, EmptySeq, SMTT(30)
      <4> QED
        BY <1>7, <4>1 DEF IsNew, Last
    <3> QED
      BY <3>1 DEF IsNew
  <2>4. received'[d] = Append(s, NewEntry(c)) /\ NewEntry(c) \in Entry
    BY <1>1, <2>2, InsertDoes DEF TypeInv
  <2> QED
    BY <1>1, <1>2, <1>3, <1>4, <1>5, <1>6, <1>8, <2>3, <2>4, SMTT(30)
<1>9. CASE Pending(d) # heard[d]
  <2>1. Len(s) = uplinks[d] /\ s # <<>> /\ Last(d).n = c.n /\ Len(s) \in DOMAIN s
    BY <1>2, <1>6, <1>9, FiledFacts
  <2>2. ~IsNew(c)
    BY <2>1 DEF IsNew
  <2>3. Known(c) = Len(s)
    <3>1. Len(s) \in {i \in DOMAIN s : FCnt(s[i].n) = FCnt(c.n)}
      BY <1>2, <1>6, <2>1
    <3>2. Known(c) \in DOMAIN s /\ FCnt(s[Known(c)].n) = FCnt(c.n)
      BY <3>1, KnownIsEntry DEF TypeInv
    <3> QED
      BY <1>7, <2>1, <3>2
  <2>4. /\ Len(received'[d]) = Len(s) /\ DOMAIN received'[d] = DOMAIN s
        /\ \A j \in DOMAIN s : j # Len(s) => received'[d][j] = s[j]
        /\ received'[d][Len(s)].n = s[Len(s)].n
        /\ received'[d][Len(s)].power = Heard(s[Len(s)].power, c)
    BY <1>1, <1>6, <2>1, <2>3, InsertDoes DEF TypeInv
  <2>5. \A i \in DOMAIN s : received'[d][i].n = s[i].n
    BY <2>4
  <2>6. Last(d)'.power = Heard(Last(d).power, c)
    BY <2>4 DEF Last
  <2> QED
    BY <1>1, <1>2, <1>3, <1>4, <1>5, <1>6, <1>9, <2>2, <2>4, <2>5, <2>6
<1> QED
  BY <1>8, <1>9

LEMMA ReceiveFiled ==
  ASSUME NoWrap, TypeInv, Filed, NEW c \in copies, Receive(c)
  PROVE  Filed'
<1> DEFINE d == c.dev
           s == received[d]
           t == received'[d]
<1>1. /\ d \in Devices /\ c.gw \in Pending(d) /\ c.n = uplinks[d] /\ uplinks[d] > 0
      /\ Pending(d)' = Pending(d) \ {c.gw}
      /\ \A e \in Devices \ {d} : received'[e] = received[e] /\ Pending(e)' = Pending(e)
      /\ UNCHANGED <<uplinks, age, heard>>
  BY ReceiveDoes DEF deviceVars
<1>2. \A a, b \in copies' : a.dev = b.dev /\ a.gw = b.gw => a = b
  BY DEF Filed, Receive
<1>3. /\ Pending(d) \subseteq heard[d] /\ s \in Seq(Entry) /\ uplinks[d] \in Nat
      /\ Len(s) \in Nat /\ DOMAIN s = 1 .. Len(s)
      /\ \A i \in DOMAIN s : s[i].n = i
  BY <1>1, FiledFacts DEF Filed, DeviceFiled
<1>4. Pending(d)' # heard'[d] /\ (heard'[d] = {} <=> uplinks'[d] = 0)
  BY <1>1, <1>3 DEF Filed, DeviceFiled
<1>5. /\ \A i \in DOMAIN t : t[i].n = i
      /\ Len(t) = uplinks[d] /\ DOMAIN t[Len(t)].power = heard[d] \ Pending(d)'
  <2>1. CASE Pending(d) = heard[d]
    <3>1. t = Append(s, NewEntry(c)) /\ NewEntry(c) \in Entry /\ Len(s) = uplinks[d] - 1
      BY <1>1, <2>1, ReceiveDoes DEF Filed, DeviceFiled
    <3>2. /\ Len(t) = Len(s) + 1 /\ DOMAIN t = 1 .. (Len(s) + 1)
          /\ t[Len(s) + 1] = NewEntry(c) /\ \A i \in DOMAIN s : t[i] = s[i]
      BY <1>3, <3>1, AppendAt
    <3> HIDE DEF t
    <3>3. \A i \in DOMAIN t : i \in DOMAIN s \/ i = uplinks[d]
      BY <1>3, <3>1, <3>2
    <3>4. NewEntry(c).n = uplinks[d] /\ DOMAIN NewEntry(c).power = {c.gw}
      BY <1>1 DEF NewEntry
    <3>5. Len(t) = uplinks[d] /\ t[Len(t)] = NewEntry(c)
      BY <1>3, <3>1, <3>2
    <3>6. \A i \in DOMAIN t : t[i].n = i
      BY <1>3, <3>2, <3>3, <3>4, <3>5
    <3>7. heard[d] \ Pending(d)' = {c.gw}
      BY <1>1, <2>1
    <3> QED
      BY <3>4, <3>5, <3>6, <3>7
  <2>2. CASE Pending(d) # heard[d]
    <3>1. /\ Len(t) = Len(s) /\ DOMAIN t = DOMAIN s
          /\ \A i \in DOMAIN s : t[i].n = s[i].n
          /\ t[Len(t)].power = Heard(Last(d).power, c)
      BY <2>2, ReceiveDoes DEF Last
    <3>2. Len(s) = uplinks[d] /\ DOMAIN Last(d).power = heard[d] \ Pending(d)
      BY <1>1, <2>2, FiledFacts DEF Filed, DeviceFiled
    <3>3. DOMAIN Heard(Last(d).power, c) = heard[d] \ (Pending(d) \ {c.gw})
      BY <1>1, <1>3, <3>2 DEF Heard
    <3> QED
      BY <1>1, <1>3, <3>1, <3>2, <3>3
  <2> QED
    BY <2>1, <2>2
<1>6. DeviceFiled(d)'
  BY <1>1, <1>4, <1>5 DEF DeviceFiled, Last
<1>7. ASSUME NEW e \in Devices \ {d} PROVE DeviceFiled(e)'
  <2>1. DeviceFiled(e)
    BY DEF Filed
  <2> QED
    BY <1>1, <2>1 DEF DeviceFiled, Last
<1> QED
  BY <1>2, <1>6, <1>7 DEF Filed

LEMMA UplinkFiled ==
  ASSUME TypeInv, Filed, NEW d \in Devices, Uplink(d)
  PROVE  /\ Filed' /\ Pending(d)' = heard'[d]
         /\ \A e \in Devices \ {d} : Pending(e)' = Pending(e) /\ heard'[e] = heard[e]
<1>1. PICK gws \in (SUBSET Gateways) \ {{}}, link \in BOOLEAN :
        \E power \in PowersOf(gws) : UplinkSends(d, gws, link, power)
  BY UplinkDoes
<1>2. PICK power \in PowersOf(gws) : UplinkSends(d, gws, link, power)
  BY <1>1
<1>3. /\ heard' = [heard EXCEPT ![d] = gws]
      /\ uplinks' = [uplinks EXCEPT ![d] = @ + 1] /\ UNCHANGED received
      /\ copies \subseteq copies' /\ \A c \in copies : c.dev # d
      /\ \A c \in copies' \ copies : /\ c \in Copy /\ c.dev = d /\ c.n = uplinks[d] + 1
                                     /\ c.link = link /\ c.gw \in gws /\ c.power = power[c.gw]
      /\ \A g \in gws : \E c \in copies' : c.dev = d /\ c.gw = g
  BY <1>2 DEF UplinkSends, serverVars
<1>4. uplinks \in [Devices -> Nat] /\ heard \in [Devices -> SUBSET Gateways]
  BY DEF TypeInv, DeviceTypes
<1>5. Pending(d) = {} /\ Pending(d)' = gws /\ heard'[d] = gws /\ gws # {}
      /\ uplinks'[d] = uplinks[d] + 1
  <2>1. \A c \in copies' : c.dev = d => c.gw \in gws
    BY <1>3
  <2> QED
    BY <1>3, <1>4, <2>1 DEF Pending
<1>6. ASSUME NEW e \in Devices \ {d}
      PROVE  Pending(e)' = Pending(e) /\ heard'[e] = heard[e] /\ uplinks'[e] = uplinks[e]
  BY <1>3, <1>4 DEF Pending
<1>7. DeviceFiled(d)'
  <2>1. Len(received[d]) = uplinks[d]
    BY <1>5, FiledFacts DEF Filed, DeviceFiled
  <2> QED
    BY <1>3, <1>4, <1>5, <2>1 DEF DeviceFiled, Filed
<1>8. ASSUME NEW e \in Devices \ {d} PROVE DeviceFiled(e)'
  BY <1>3, <1>6 DEF DeviceFiled, Filed, Last
<1>9. ASSUME NEW c \in copies', NEW e \in copies', c.dev = e.dev, c.gw = e.gw PROVE c = e
  <2>1. CASE c.dev = d
    <3>1. c \in copies' \ copies /\ e \in copies' \ copies
      BY <1>3, <1>9, <2>1
    <3>2. c \in Copy /\ e \in Copy /\ c.n = e.n /\ c.link = e.link /\ c.power = e.power
      BY <1>3, <1>9, <3>1
    <3> QED
      BY <1>9, <3>2 DEF Copy
  <2>2. CASE c.dev # d
    BY <1>3, <1>9, <2>2 DEF Filed
  <2> QED
    BY <2>1, <2>2
<1> QED
  BY <1>5, <1>6, <1>7, <1>8, <1>9 DEF Filed

LEMMA FiledUnchanged ==
  ASSUME Filed, UNCHANGED <<uplinks, heard, received, copies>>
  PROVE  Filed' /\ \A d : Pending(d)' = Pending(d) /\ Last(d)' = Last(d)
  BY DEF Filed, DeviceFiled, Pending, Last

LEMMA InitFiled == Init => Filed
<1> SUFFICES ASSUME Init PROVE Filed
  OBVIOUS
<1>1. ASSUME NEW d \in Devices PROVE DeviceFiled(d)
  <2>1. Pending(d) = {} /\ heard[d] = {} /\ received[d] = <<>> /\ uplinks[d] = 0
    BY DEF Init, Pending
  <2>2. Len(<<>>) = 0 /\ DOMAIN <<>> = {}
    BY EmptySeq
  <2> QED
    BY <2>1, <2>2 DEF DeviceFiled
<1> QED
  BY <1>1 DEF Filed, Init

\* A step that is neither an uplink nor a copy's arrival leaves the lists alone.
LEMMA OtherSteps ==
  ASSUME TypeInv, [Next]_vars,
         ~ \E d \in Devices : Uplink(d), ~ \E c \in copies : Receive(c)
  PROVE  /\ UNCHANGED <<uplinks, heard, received, copies>>
         /\ \/ UNCHANGED <<age, needsReply, opps, replies>>
            \/ /\ Due /\ age' = age
               /\ \/ Answer
                  \/ TryOtherWindow \/ GiveUp \/ NoReplyNeeded
            \/ Elapse
<1>1. CASE UNCHANGED vars
  BY <1>1 DEF vars
<1>2. CASE Answer
  BY <1>2, AnswerDoes DEF deviceVars
<1>3. CASE TryOtherWindow \/ GiveUp \/ NoReplyNeeded
  BY <1>3, NoReplyTypes DEF deviceVars
<1>4. CASE (\E m \in downlinks : GatewaySend(m)) \/ (\E g \in Gateways : TxFinished(g))
  BY <1>4, GatewayStepTypes DEF deviceVars, serverVars
<1>5. CASE Elapse
  BY <1>5, ElapseTypes
<1> QED
  BY <1>1, <1>2, <1>3, <1>4, <1>5 DEF Next

LEMMA StepFiled == NoWrap /\ TypeInv /\ Filed /\ [Next]_vars => Filed'
<1> SUFFICES ASSUME NoWrap, TypeInv, Filed, [Next]_vars PROVE Filed'
  OBVIOUS
<1>1. CASE \E d \in Devices : Uplink(d)
  BY <1>1, UplinkFiled
<1>2. CASE \E c \in copies : Receive(c)
  BY <1>2, ReceiveFiled
<1> QED
  BY <1>1, <1>2, OtherSteps, FiledUnchanged

\* InsertReceivedPacket: the last entry of the list is the device's latest
\* uplink, as soon as one gateway has forwarded it, if counters do not wrap.
THEOREM LastEntryIsLatest ==
  ASSUME NoWrap
  PROVE  Spec => []LastIsLatest
<1>1. TypeInv /\ Filed => LastIsLatest
  <2> SUFFICES ASSUME TypeInv, Filed, NEW d \in Devices, Arrived(d) PROVE Last(d).n = uplinks[d]
    BY DEF LastIsLatest
  <2>1. \A c \in copies : c.dev = d => c.n = uplinks[d]
    BY DEF TypeInv, CopiesFresh
  <2>2. {g \in heard[d] : \E c \in copies : c.dev = d /\ c.n = uplinks[d] /\ c.gw = g} = Pending(d)
    BY <2>1, FiledFacts DEF Pending
  <2> QED
    BY <2>2, FiledFacts DEF Arrived
<1> QED
  BY <1>1, InitTypes, InitFiled, StepTypes, StepFiled, PTL DEF Spec

-----------------------------------------------------------------------------
(* If uplinks are far enough apart, opportunities come in time.            *)

LEMMA OppFacts ==
  ASSUME TypeInv, OppsTimely, NEW o \in Items(opps)
  PROVE  /\ o \in Opp /\ o.dev \in Devices /\ o.left \in 0 .. 1 /\ age[o.dev] \in 0 .. 2
         /\ Pending(o.dev) # heard[o.dev]
         /\ age[o.dev] + o.left = IF o.window = FirstTry(o.dev) THEN 1 ELSE 2
<1>1. o \in Opp
  <2>1. opps \in Seq(Opp)
    BY DEF TypeInv, ServerTypes
  <2> QED
    BY <2>1, LenProperties, ElementOfSeq DEF Items
<1>2. o.dev \in Devices /\ o.left \in 0 .. 1
  BY <1>1 DEF Opp
<1>3. age[o.dev] \in Nat
  BY <1>2 DEF TypeInv, DeviceTypes
<1> QED
  BY <1>1, <1>2, <1>3 DEF OppsTimely

LEMMA UplinkTimely ==
  ASSUME Spaced, TypeInv, Filed, OppsTimely, NEW d \in Devices, Uplink(d)
  PROVE  OppsTimely' /\ \A o \in Items(opps) : o.dev # d
<1>1. /\ age' = [age EXCEPT ![d] = 0] /\ age[d] >= MinGap /\ UNCHANGED opps
      /\ \A e \in Devices \ {d} : Pending(e)' = Pending(e) /\ heard'[e] = heard[e]
  BY UplinkFiled DEF Uplink, serverVars
<1>2. ASSUME NEW o \in Items(opps) PROVE o.dev # d
  BY <1>1, OppFacts, NetworkServerAssumption DEF Spaced
<1>3. ASSUME NEW o \in Items(opps)
      PROVE  o.dev \in Devices \ {d} /\ age'[o.dev] = age[o.dev]
  BY <1>1, <1>2, OppFacts DEF TypeInv, DeviceTypes
<1> QED
  BY <1>1, <1>2, <1>3 DEF OppsTimely, OneEach, Items

LEMMA ReceiveTimely ==
  ASSUME NoWrap, TypeInv, Filed, OppsTimely, NEW c \in copies, Receive(c)
  PROVE  OppsTimely'
<1> DEFINE d == c.dev
           o == Opportunity(d, FirstTry(d))
<1>1. /\ d \in Devices /\ c.gw \in Pending(d) /\ Pending(d)' = Pending(d) \ {c.gw}
      /\ \A e \in Devices \ {d} : Pending(e)' = Pending(e)
      /\ UNCHANGED <<age, heard>>
      /\ IF Pending(d) = heard[d] THEN opps' = Append(opps, o) ELSE opps' = opps
  BY ReceiveDoes DEF deviceVars
<1>2. Pending(d)' # heard'[d]
  BY <1>1, FiledFacts
<1>3. ASSUME NEW p \in Items(opps)
      PROVE  /\ Pending(p.dev)' # heard'[p.dev]
             /\ age'[p.dev] + p.left = IF p.window = FirstTry(p.dev) THEN 1 ELSE 2
  BY <1>1, <1>2, OppFacts
<1>4. CASE opps' = opps
  BY <1>3, <1>4 DEF OppsTimely
<1>5. CASE Pending(d) = heard[d] /\ opps' = Append(opps, o)
  <2>1. o \in Opp /\ o.left = 1 /\ o.dev = d /\ o.window = FirstTry(d)
    BY <1>1 DEF Opportunity, Opp, Windows, FirstTry
  <2>2. \A p \in Items(opps) : p.dev # o.dev
    BY <1>5, <2>1, OppFacts
  <2>3. opps \in Seq(Opp) /\ OneEach(opps)
    BY DEF TypeInv, ServerTypes, OppsTimely
  <2>4. age'[d] + o.left = 1
    BY <1>1, <2>1 DEF TypeInv, CopiesFresh
  <2> HIDE DEF o
  <2>5. OneEach(opps') /\ Items(opps') = Items(opps) \cup {o}
    BY <1>5, <2>1, <2>2, <2>3, OppsPut
  <2> QED
    BY <1>2, <1>3, <2>1, <2>4, <2>5 DEF OppsTimely
<1> QED
  BY <1>1, <1>4, <1>5

LEMMA OppTimely ==
  ASSUME TypeInv, OppsTimely, Due, OppOver \/ OppPutOff, UNCHANGED <<uplinks, age, heard, received, copies>>
  PROVE  OppsTimely'
<1>1. /\ Items(opps') \subseteq
           Items(opps) \cup (IF OppPutOff THEN {Opportunity(Dev, Retried(Dev))} ELSE {})
      /\ OneEach(opps')
  BY OppStep DEF OppsTimely
<1>2. \A e : Pending(e)' = Pending(e)
  BY DEF Pending
<1>3. ASSUME NEW o \in Items(opps')
      PROVE  /\ Pending(o.dev) # heard[o.dev]
             /\ age[o.dev] + o.left = IF o.window = FirstTry(o.dev) THEN 1 ELSE 2
  <2>1. CASE o \in Items(opps)
    BY <2>1 DEF OppsTimely
  <2>2. CASE OppPutOff /\ o = Opportunity(Dev, Retried(Dev))
    <3>1. Head(opps) \in Items(opps) /\ Head(opps).left = 0 /\ Head(opps).window = FirstTry(Dev)
      BY <2>2, DueFacts DEF OppPutOff, Window
    <3>2. age[Dev] \in Nat /\ age[Dev] + 0 = 1 /\ Pending(Dev) # heard[Dev]
      BY <3>1, OppFacts DEF Dev
    <3>3. o.dev = Dev /\ o.left = 1 /\ o.window # FirstTry(Dev)
      BY <2>2 DEF Opportunity, Retried, FirstTry
    <3> QED
      BY <3>2, <3>3
  <2> QED
    BY <1>1, <2>1, <2>2
<1> QED
  BY <1>1, <1>2, <1>3 DEF OppsTimely

LEMMA ElapseTimely ==
  ASSUME Spaced, TypeInv, OppsTimely, Elapse
  PROVE  OppsTimely'
<1>1. OneEach(opps')
  BY ElapseTypes DEF OppsTimely
<1>2. \A e : Pending(e)' = Pending(e) /\ heard' = heard
  BY ElapseTypes DEF Pending
<1>3. ASSUME NEW p \in Items(opps')
      PROVE  /\ Pending(p.dev) # heard[p.dev]
             /\ age'[p.dev] + p.left = IF p.window = FirstTry(p.dev) THEN 1 ELSE 2
  <2>1. PICK o \in Items(opps) : o.left = 1 /\ p.dev = o.dev /\ p.window = o.window
    BY ElapseTypes
  <2>2. p.left = 0
    BY ElapseTypes
  <2>3. age'[p.dev] = age[p.dev] + 1
    BY <2>1, OppFacts, ElapseTypes, NetworkServerAssumption DEF Spaced
  <2> QED
    BY <2>1, <2>2, <2>3, OppFacts
<1> QED
  BY <1>1, <1>2, <1>3 DEF OppsTimely

LEMMA StepTimely ==
  ASSUME NoWrap, Spaced
  PROVE  TypeInv /\ Filed /\ OppsTimely /\ [Next]_vars => OppsTimely'
<1> SUFFICES ASSUME TypeInv, Filed, OppsTimely, [Next]_vars PROVE OppsTimely'
  OBVIOUS
<1>1. CASE \E d \in Devices : Uplink(d)
  BY <1>1, UplinkTimely
<1>2. CASE \E c \in copies : Receive(c)
  BY <1>2, ReceiveTimely
<1>3. CASE Answer
  BY <1>3, AnswerDoes, OppTimely DEF deviceVars
<1>4. CASE TryOtherWindow \/ GiveUp \/ NoReplyNeeded
  BY <1>4, NoReplyTypes, OppTimely DEF deviceVars
<1>5. CASE Elapse
  BY <1>5, ElapseTimely
<1>6. CASE UNCHANGED <<uplinks, heard, received, copies, age, opps>>
  BY <1>6 DEF OppsTimely, Pending
<1> QED
  BY <1>1, <1>2, <1>3, <1>4, <1>5, <1>6, OtherSteps

LEMMA InitTimely == Init => OppsTimely
<1> SUFFICES ASSUME Init PROVE OppsTimely
  OBVIOUS
<1>1. DOMAIN opps = {}
  BY EmptySeq DEF Init
<1> QED
  BY <1>1 DEF OppsTimely, OneEach, Items

-----------------------------------------------------------------------------
(* Replies: one for each uplink at most, in its window.                    *)

\* When an opportunity is due, the latest uplink is the last of the list, and
\* all its copies have arrived.
LEMMA DueTimely ==
  ASSUME TypeInv, Filed, OppsTimely, Due
  PROVE  /\ Dev \in Devices /\ uplinks[Dev] > 0 /\ Last(Dev).n = uplinks[Dev]
         /\ Pending(Dev) = {} /\ heard[Dev] # {} /\ DOMAIN Last(Dev).power = heard[Dev]
         /\ age[Dev] = IF Window = FirstTry(Dev) THEN 1 ELSE 2
         /\ Unanswered(Dev)
<1>1. Head(opps) \in Items(opps) /\ Head(opps).left = 0 /\ Dev \in Devices
  BY DueFacts
<1>2. age[Dev] \in 0 .. 2 /\ Pending(Dev) # heard[Dev]
      /\ age[Dev] + 0 = IF Window = FirstTry(Dev) THEN 1 ELSE 2
  BY <1>1, OppFacts DEF Dev, Window
<1>3. Last(Dev).n = uplinks[Dev] /\ uplinks[Dev] > 0
      /\ DOMAIN Last(Dev).power = heard[Dev] \ Pending(Dev)
  BY <1>1, <1>2, FiledFacts DEF Filed, DeviceFiled
<1>4. Pending(Dev) = {}
  BY <1>2 DEF Pending, TypeInv, CopiesFresh
<1> QED
  BY <1>1, <1>2, <1>3, <1>4 DEF Unanswered, Dev

LEMMA ReplyTypes ==
  ASSUME TypeInv, NEW d \in Devices
  PROVE  /\ replies[d] \in Seq(Sent) /\ Len(replies[d]) \in Nat /\ DOMAIN replies[d] = 1 .. Len(replies[d])
         /\ \A i \in DOMAIN replies[d] : replies[d][i] \in Sent /\ replies[d][i].n \in Nat
<1>1. replies[d] \in Seq(Sent)
  BY DEF TypeInv, ServerTypes
<1>2. Len(replies[d]) \in Nat /\ DOMAIN replies[d] = 1 .. Len(replies[d])
  BY <1>1, LenProperties
<1>3. \A i \in DOMAIN replies[d] : replies[d][i] \in Sent
  BY <1>1, <1>2, ElementOfSeq
<1> QED
  BY <1>1, <1>2, <1>3 DEF Sent

\* Only Answer adds a reply, at the end of the device's list.
LEMMA RepliesGrow ==
  ASSUME TypeInv, [Next]_vars
  PROVE  \/ UNCHANGED replies
         \/ /\ Answer
            /\ \A d \in Devices \ {Dev} : replies'[d] = replies[d]
            /\ \E g \in GetBestGatewayForDevice(Dev, Window) :
                 /\ replies'[Dev] = Append(replies[Dev], Reply(Dev, Window, g))
                 /\ Reply(Dev, Window, g) \in Sent
                 /\ Len(replies'[Dev]) = Len(replies[Dev]) + 1
                 /\ replies'[Dev][Len(replies[Dev]) + 1] = Reply(Dev, Window, g)
                 /\ \A i \in DOMAIN replies'[Dev] :
                      IF i \in DOMAIN replies[Dev] THEN replies'[Dev][i] = replies[Dev][i]
                      ELSE i = Len(replies[Dev]) + 1
<1>1. CASE Answer
  <2>1. PICK g \in GetBestGatewayForDevice(Dev, Window) :
          /\ Reply(Dev, Window, g) \in Sent
          /\ replies' = [replies EXCEPT ![Dev] = Append(@, Reply(Dev, Window, g))]
    BY <1>1, AnswerDoes
  <2>2. Dev \in Devices
    BY <1>1, AnswerDoes, DueFacts
  <2> DEFINE s == replies[Dev]
             r == Reply(Dev, Window, g)
  <2>3. /\ replies'[Dev] = Append(s, r) /\ s \in Seq(Sent)
        /\ \A d \in Devices \ {Dev} : replies'[d] = replies[d]
    BY <2>1, <2>2 DEF TypeInv, ServerTypes
  <2> HIDE DEF r
  <2>4. /\ Len(Append(s, r)) = Len(s) + 1 /\ Len(s) \in Nat
        /\ DOMAIN s = 1 .. Len(s) /\ DOMAIN Append(s, r) = 1 .. (Len(s) + 1)
        /\ Append(s, r)[Len(s) + 1] = r /\ \A i \in DOMAIN s : Append(s, r)[i] = s[i]
    BY <2>1, <2>3, AppendAt DEF r
  <2>5. \A i \in 1 .. (Len(s) + 1) : i \in 1 .. Len(s) \/ i = Len(s) + 1
    BY <2>4
  <2>6. \A i \in DOMAIN replies'[Dev] :
          IF i \in DOMAIN s THEN replies'[Dev][i] = s[i] ELSE i = Len(s) + 1
    BY <2>3, <2>4, <2>5
  <2> QED
    BY <1>1, <2>1, <2>3, <2>4, <2>6 DEF r
<1>2. CASE \E d \in Devices : Uplink(d)
  BY <1>2 DEF Uplink, serverVars
<1>3. CASE \E c \in copies : Receive(c)
  BY <1>3 DEF Receive
<1>4. CASE Elapse
  BY <1>4 DEF Elapse
<1>5. CASE TryOtherWindow \/ GiveUp \/ NoReplyNeeded
  BY <1>5, NoReplyTypes
<1> QED
  BY <1>1, <1>2, <1>3, <1>4, <1>5, OtherSteps

\* No step but an uplink makes a device wait for an answer.
LEMMA StillUnanswered ==
  ASSUME NoWrap, TypeInv, Filed, OppsTimely, [Next]_vars, ~ \E d \in Devices : Uplink(d)
  PROVE  uplinks' = uplinks /\ \A d \in Devices : Unanswered(d)' => Unanswered(d)
<1>1. ASSUME NEW c \in copies, Receive(c)
      PROVE  uplinks' = uplinks /\ \A d \in Devices : Unanswered(d)' => Unanswered(d)
  <2> DEFINE o == Opportunity(c.dev, FirstTry(c.dev))
  <2>1. /\ c.dev \in Devices /\ c.gw \in Pending(c.dev) /\ uplinks[c.dev] > 0
        /\ Pending(c.dev)' = Pending(c.dev) \ {c.gw}
        /\ \A e \in Devices \ {c.dev} : Pending(e)' = Pending(e)
        /\ UNCHANGED <<uplinks, heard>>
        /\ opps' = opps \/ (opps' = Append(opps, o) /\ Pending(c.dev) = heard[c.dev])
    BY <1>1, ReceiveDoes DEF deviceVars
  <2>2. Pending(c.dev) \subseteq heard[c.dev]
    BY <2>1, FiledFacts
  <2>3. o \in Opp /\ o.left = 1 /\ o.dev = c.dev /\ opps \in Seq(Opp)
    BY <2>1 DEF Opportunity, Opp, Windows, FirstTry, TypeInv, ServerTypes
  <2> HIDE DEF o
  <2>4. Items(Append(opps, o)) = Items(opps) \cup {o}
    BY <2>3, OppsPut
  <2>5. ASSUME NEW d \in Devices, \E p \in Items(opps') : p.dev = d PROVE Unanswered(d)
    BY <2>1, <2>3, <2>4, <2>5 DEF Unanswered
  <2> QED
    BY <2>1, <2>2, <2>5 DEF Unanswered
<1>2. CASE Due /\ (OppOver \/ OppPutOff) /\ UNCHANGED <<uplinks, heard, copies>>
  <2>1. \A p \in Items(opps') : p \in Items(opps) \/ p.dev = Dev
    BY <1>2, OppStep DEF Opportunity
  <2>2. Unanswered(Dev)
    BY <1>2, DueTimely
  <2> QED
    BY <1>2, <2>1, <2>2 DEF Unanswered, Pending
<1>3. CASE Elapse
  <2>1. \A p \in Items(opps') : \E o \in Items(opps) : p.dev = o.dev
    BY <1>3, ElapseTypes
  <2> QED
    BY <1>3, <2>1, ElapseTypes DEF Unanswered, Pending
<1>4. CASE UNCHANGED <<uplinks, heard, copies, opps>>
  BY <1>4 DEF Unanswered, Pending
<1>5. CASE Answer
  BY <1>2, <1>5, AnswerDoes DEF deviceVars
<1>6. CASE TryOtherWindow \/ GiveUp \/ NoReplyNeeded
  BY <1>2, <1>6, NoReplyTypes DEF deviceVars
<1> QED
  BY <1>1, <1>3, <1>4, <1>5, <1>6, OtherSteps

\* An answered device has no opportunity left.
LEMMA AnswerAnswers ==
  ASSUME TypeInv, Filed, OppsTimely, Answer
  PROVE  \A d : d = Dev => ~Unanswered(d)'
<1>1. Due /\ OppOver /\ UNCHANGED <<uplinks, heard, copies>>
  BY AnswerDoes DEF deviceVars
<1>2. \A o \in Items(opps') : o.dev # Dev
  BY <1>1, OppStep DEF OppsTimely, OppOver
<1>3. Pending(Dev) = {} /\ heard[Dev] # {}
  BY <1>1, DueTimely
<1> QED
  BY <1>1, <1>2, <1>3 DEF Unanswered, Pending

LEMMA StepBehind ==
  ASSUME NoWrap
  PROVE  TypeInv /\ Filed /\ OppsTimely /\ RepliesBehind /\ [Next]_vars => RepliesBehind'
<1> SUFFICES ASSUME TypeInv, Filed, OppsTimely, RepliesBehind, [Next]_vars PROVE RepliesBehind'
  OBVIOUS
<1>1. CASE \E d \in Devices : Uplink(d)
  <2>1. PICK d \in Devices : Uplink(d)
    BY <1>1
  <2>2. /\ uplinks' = [uplinks EXCEPT ![d] = @ + 1] /\ UNCHANGED <<opps, replies>>
        /\ \A e \in Devices \ {d} : Pending(e)' = Pending(e) /\ heard'[e] = heard[e]
    BY <2>1, UplinkFiled DEF Uplink, serverVars
  <2>3. uplinks \in [Devices -> Nat]
    BY DEF TypeInv, DeviceTypes
  <2>4. ASSUME NEW e \in Devices, NEW i \in DOMAIN replies[e]
        PROVE  replies[e][i].n <= uplinks'[e] /\ (Unanswered(e)' => replies[e][i].n < uplinks'[e])
    <3>1. replies[e][i].n \in Nat /\ replies[e][i].n <= uplinks[e]
      BY ReplyTypes DEF RepliesBehind
    <3>2. CASE e = d
      BY <2>2, <2>3, <3>1, <3>2
    <3>3. CASE e # d
      <4>1. Unanswered(e)' => Unanswered(e)
        BY <2>2, <2>3, <3>3 DEF Unanswered
      <4>2. uplinks'[e] = uplinks[e]
        BY <2>2, <2>3, <3>3
      <4> QED
        BY <4>1, <4>2 DEF RepliesBehind
    <3> QED
      BY <3>2, <3>3
  <2> QED
    BY <2>2, <2>4 DEF RepliesBehind
<1>2. CASE ~ \E d \in Devices : Uplink(d)
  <2>1. uplinks' = uplinks /\ \A d \in Devices : Unanswered(d)' => Unanswered(d)
    BY <1>2, StillUnanswered
  <2>2. CASE UNCHANGED replies
    BY <2>1, <2>2 DEF RepliesBehind
  <2>3. CASE Answer /\ ~UNCHANGED replies
    <3>1. Due
      BY <2>3, AnswerDoes
    <3>2. ~ \A e \in Devices : e # Dev /\ e = Dev
      BY <3>1, DueTimely
    <3>3. ASSUME NEW e \in Devices, NEW i \in DOMAIN replies'[e]
          PROVE  replies'[e][i].n <= uplinks[e] /\ (Unanswered(e)' => replies'[e][i].n < uplinks[e])
      <4>1. CASE e # Dev
        <5>1. replies'[e] = replies[e]
          BY <2>3, <4>1, RepliesGrow
        <5> QED
          BY <2>1, <5>1 DEF RepliesBehind
      <4>2. CASE e = Dev
        <5>1. ~Unanswered(e)'
          BY <2>3, <4>2, AnswerAnswers
        <5>2. PICK g \in GetBestGatewayForDevice(Dev, Window) :
                /\ replies'[Dev][Len(replies[Dev]) + 1] = Reply(Dev, Window, g)
                /\ IF i \in DOMAIN replies[Dev] THEN replies'[Dev][i] = replies[Dev][i]
                   ELSE i = Len(replies[Dev]) + 1
          BY <2>3, <4>2, RepliesGrow
        <5>3. Reply(Dev, Window, g).n = uplinks[Dev] /\ uplinks[Dev] \in Nat
          BY <3>1, DueTimely DEF Reply, TypeInv, DeviceTypes
        <5>4. CASE i \in DOMAIN replies[Dev]
          BY <4>2, <5>1, <5>2, <5>4 DEF RepliesBehind
        <5>5. CASE i \notin DOMAIN replies[Dev]
          BY <4>2, <5>1, <5>2, <5>3, <5>5
        <5> QED
          BY <5>4, <5>5
      <4> QED
        BY <4>1, <4>2
    <3> QED
      BY <2>1, <3>3 DEF RepliesBehind
  <2> QED
    BY <2>2, <2>3, RepliesGrow
<1> QED
  BY <1>1, <1>2

LEMMA InitBehind == Init => RepliesBehind
<1> SUFFICES ASSUME Init PROVE RepliesBehind
  OBVIOUS
<1>1. \A d \in Devices : DOMAIN replies[d] = {}
  BY EmptySeq DEF Init
<1> QED
  BY <1>1 DEF RepliesBehind

\* What holds of every reply, because it holds of the one that Answer adds.
LEMMA StepReplies ==
  ASSUME TypeInv, Filed, OppsTimely, [Next]_vars, NEW d \in Devices, NEW i \in DOMAIN replies'[d]
  PROVE  \/ i \in DOMAIN replies[d] /\ replies'[d][i] = replies[d][i]
         \/ /\ d = Dev /\ i = Len(replies[d]) + 1 /\ Unanswered(d)
            /\ LET r == replies'[d][i] IN
               /\ r.n = uplinks[d] /\ r.latest = uplinks[d]
               /\ r.window = Window /\ r.age = IF Window = FirstTry(d) THEN 1 ELSE 2
               /\ r.gwCnt \in {0, Cardinality(heard[d])} /\ r.heard = Cardinality(heard[d])
               /\ r.gw \in GetBestGatewayForDevice(Dev, Window)
<1>1. CASE UNCHANGED replies \/ d # Dev
  BY <1>1, RepliesGrow
<1>2. CASE ~UNCHANGED replies /\ d = Dev
  <2>1. PICK g \in GetBestGatewayForDevice(Dev, Window) :
          /\ replies'[Dev][Len(replies[Dev]) + 1] = Reply(Dev, Window, g)
          /\ IF i \in DOMAIN replies[Dev] THEN replies'[Dev][i] = replies[Dev][i]
             ELSE i = Len(replies[Dev]) + 1
    BY <1>2, RepliesGrow
  <2>2. Due
    BY <1>2, RepliesGrow, AnswerDoes
  <2>3. Reply(Dev, Window, g).n = uplinks[Dev]
    BY <2>2, DueTimely DEF Reply
  <2>4. Reply(Dev, Window, g).gwCnt \in {0, Cardinality(heard[Dev])}
    BY <2>2, DueTimely DEF Reply
  <2>5. Reply(Dev, Window, g).age = IF Window = FirstTry(Dev) THEN 1 ELSE 2
    BY <2>2, DueTimely DEF Reply
  <2>6. LET r == Reply(Dev, Window, g) IN
          /\ r.latest = uplinks[Dev] /\ r.window = Window
          /\ r.heard = Cardinality(heard[Dev]) /\ r.gw = g
    BY DEF Reply
  <2>7. Unanswered(Dev)
    BY <2>2, DueTimely
  <2> QED
    BY <1>2, <2>1, <2>3, <2>4, <2>5, <2>6, <2>7
<1> QED
  BY <1>1, <1>2

\* The server's invariant, under the two assumptions.
ServerInv == TypeInv /\ Filed /\ OppsTimely /\ RepliesBehind

LEMMA ServerSafe ==
  ASSUME NoWrap, Spaced
  PROVE  (Init => ServerInv) /\ (ServerInv /\ [Next]_vars => ServerInv')
  BY InitTypes, InitFiled, InitTimely, InitBehind, StepTypes, StepFiled, StepTimely, StepBehind
     DEF ServerInv

\* NetworkScheduler: a class A device is answered when the window the reply is
\* for is open, that many seconds after the uplink it answers, if the counter
\* does not wrap and uplinks are farther apart than the second window.
THEOREM RepliesHitTheirWindow ==
  ASSUME NoWrap, Spaced
  PROVE  Spec => []RepliesInWindow
<1>1. Init => RepliesInWindow
  BY EmptySeq DEF Init, RepliesInWindow
<1>2. ServerInv /\ RepliesInWindow /\ [Next]_vars => RepliesInWindow'
  <2> SUFFICES ASSUME ServerInv, RepliesInWindow, [Next]_vars,
                      NEW d \in Devices \ ClassC, NEW i \in DOMAIN replies'[d]
               PROVE  LET r == replies'[d][i] IN r.n = r.latest /\ r.age = r.window
    BY DEF RepliesInWindow
  <2>1. CASE i \in DOMAIN replies[d] /\ replies'[d][i] = replies[d][i]
    BY <2>1 DEF RepliesInWindow
  <2>2. CASE ~(i \in DOMAIN replies[d] /\ replies'[d][i] = replies[d][i])
    <3>1. Due /\ d = Dev
      BY <2>2, StepReplies, RepliesGrow, AnswerDoes DEF ServerInv
    <3>2. Window \in Windows
      BY <3>1, DueFacts DEF ServerInv
    <3> QED
      BY <2>2, <3>2, StepReplies DEF ServerInv, FirstTry, Windows
  <2> QED
    BY <2>1, <2>2
<1> QED
  BY <1>1, <1>2, ServerSafe, PTL DEF Spec

\* No uplink is answered twice, nor after a later one.
THEOREM NoUplinkAnsweredTwice ==
  ASSUME NoWrap, Spaced
  PROVE  Spec => []RepliesAdvance
<1>1. Init => RepliesAdvance
  BY EmptySeq DEF Init, RepliesAdvance
<1>2. ServerInv /\ RepliesAdvance /\ [Next]_vars => RepliesAdvance'
  <2> SUFFICES ASSUME ServerInv, RepliesAdvance, [Next]_vars, NEW d \in Devices,
                      NEW i \in DOMAIN replies'[d], NEW j \in DOMAIN replies'[d], i < j
               PROVE  replies'[d][i].n < replies'[d][j].n
    BY DEF RepliesAdvance
  <2>1. Len(replies[d]) \in Nat /\ DOMAIN replies[d] = 1 .. Len(replies[d])
    BY ReplyTypes DEF ServerInv
  <2>2. i \in DOMAIN replies[d] /\ replies'[d][i] = replies[d][i]
    <3>1. CASE i = Len(replies[d]) + 1
      BY <2>1, <3>1, StepReplies DEF ServerInv
    <3> QED
      BY <3>1, StepReplies DEF ServerInv
  <2>3. CASE j \in DOMAIN replies[d] /\ replies'[d][j] = replies[d][j]
    BY <2>2, <2>3 DEF RepliesAdvance
  <2>4. CASE Unanswered(d) /\ replies'[d][j].n = uplinks[d]
    BY <2>2, <2>4 DEF ServerInv, RepliesBehind
  <2> QED
    BY <2>3, <2>4, StepReplies DEF ServerInv
<1> QED
  BY <1>1, <1>2, ServerSafe, PTL DEF Spec

\* LinkCheckComponent: the answer counts all the gateways that heard the frame.
THEOREM EveryGatewayCounted ==
  ASSUME NoWrap, Spaced
  PROVE  Spec => []AllGatewaysCounted
<1>1. Init => AllGatewaysCounted
  BY EmptySeq DEF Init, AllGatewaysCounted
<1>2. ServerInv /\ AllGatewaysCounted /\ [Next]_vars => AllGatewaysCounted'
  BY StepReplies DEF ServerInv, AllGatewaysCounted
<1> QED
  BY <1>1, <1>2, ServerSafe, PTL DEF Spec

-----------------------------------------------------------------------------
(* Gateways with different powers: the best that may send is chosen.       *)

LEMMA ReceiveDistinct ==
  ASSUME NoWrap, TypeInv, Filed, PowersDistinct, NEW c \in copies, Receive(c)
  PROVE  PowersDistinct'
<1> DEFINE d == c.dev
<1>1. /\ copies' = copies \ {c} /\ d \in Devices /\ c.gw \in Pending(d)
      /\ Pending(d)' = Pending(d) \ {c.gw}
      /\ \A e \in Devices \ {d} : received'[e] = received[e] /\ Pending(e)' = Pending(e)
      /\ heard' = heard
  BY ReceiveDoes DEF Receive, deviceVars
<1>2. \A e \in copies' : e.dev = d => e.power # c.power
  BY <1>1 DEF PowersDistinct, Filed
<1>3. /\ \A g, h \in DOMAIN Last(d)'.power : Last(d)'.power[g] = Last(d)'.power[h] => g = h
      /\ \A g \in DOMAIN Last(d)'.power, e \in copies' : e.dev = d => e.power # Last(d)'.power[g]
  <2>1. CASE Pending(d) = heard[d]
    <3>1. received'[d] = Append(received[d], NewEntry(c)) /\ NewEntry(c) \in Entry
          /\ received[d] \in Seq(Entry)
      BY <1>1, <2>1, ReceiveDoes, FiledFacts
    <3>2. received'[d][Len(received'[d])] = NewEntry(c)
      BY <3>1, AppendAt
    <3>3. Last(d)'.power = [g \in {c.gw} |-> c.power]
      BY <3>2 DEF Last, NewEntry
    <3> QED
      BY <1>2, <3>3
  <2>2. CASE Pending(d) # heard[d]
    <3>1. Last(d)'.power = Heard(Last(d).power, c)
      BY <2>2, ReceiveDoes
    <3>2. c.gw \notin DOMAIN Last(d).power /\ received[d] # <<>>
      BY <1>1, <2>2, FiledFacts DEF Filed, DeviceFiled
    <3> DEFINE power == Last(d).power
    <3>3. /\ \A g, h \in DOMAIN power : power[g] = power[h] => g = h
          /\ \A g \in DOMAIN power, e \in copies : e.dev = d => e.power # power[g]
      BY <1>1, <2>2, <3>2 DEF PowersDistinct, DistinctIn
    <3> HIDE DEF power
    <3>4. /\ DOMAIN Heard(power, c) = DOMAIN power \cup {c.gw}
          /\ \A g \in DOMAIN power : Heard(power, c)[g] = power[g]
          /\ Heard(power, c)[c.gw] = c.power
      BY <3>2 DEF Heard, power
    <3>5. \A g, h \in DOMAIN Heard(power, c) : Heard(power, c)[g] = Heard(power, c)[h] => g = h
      BY <3>3, <3>4
    <3>6. \A g \in DOMAIN Heard(power, c), e \in copies' : e.dev = d => e.power # Heard(power, c)[g]
      BY <1>1, <1>2, <3>3, <3>4
    <3> QED
      BY <3>1, <3>5, <3>6 DEF power
  <2> QED
    BY <2>1, <2>2
<1>4. DistinctIn(d)'
  BY <1>3 DEF DistinctIn
<1>5. ASSUME NEW e \in Devices \ {d} PROVE DistinctIn(e)'
  <2>1. DistinctIn(e)
    BY DEF PowersDistinct
  <2>2. Last(e)' = Last(e) /\ received'[e] = received[e] /\ Pending(e)' = Pending(e)
    BY <1>1 DEF Last
  <2> QED
    BY <1>1, <2>1, <2>2 DEF DistinctIn
<1> QED
  BY <1>1, <1>4, <1>5 DEF PowersDistinct

LEMMA UplinkDistinct ==
  ASSUME ~EqualPowers, TypeInv, Filed, PowersDistinct, NEW d \in Devices, Uplink(d)
  PROVE  PowersDistinct'
<1>1. PICK gws \in (SUBSET Gateways) \ {{}}, link \in BOOLEAN :
        \E power \in PowersOf(gws) : UplinkSends(d, gws, link, power)
  BY UplinkDoes
<1>2. PICK power \in PowersOf(gws) : UplinkSends(d, gws, link, power)
  BY <1>1
<1>3. /\ UNCHANGED received
      /\ copies \subseteq copies' /\ \A c \in copies : c.dev # d
      /\ \A c \in copies' \ copies : c.dev = d /\ c.gw \in gws /\ c.power = power[c.gw]
  BY <1>2 DEF UplinkSends, serverVars
<1>4. \A g, h \in gws : power[g] = power[h] => g = h
  BY DEF PowersOf
<1>5. ASSUME NEW c \in copies', NEW e \in copies', c.dev = e.dev, c.power = e.power
      PROVE  c.gw = e.gw
  <2>1. CASE c.dev = d
    <3>1. c \in copies' \ copies /\ e \in copies' \ copies
      BY <1>3, <1>5, <2>1
    <3>2. c.gw \in gws /\ e.gw \in gws /\ power[c.gw] = power[e.gw]
      BY <1>3, <1>5, <3>1
    <3> QED
      BY <1>4, <3>2
  <2>2. CASE c.dev # d
    <3>1. c \in copies /\ e \in copies
      BY <1>3, <1>5, <2>2
    <3> QED
      BY <1>5, <3>1 DEF PowersDistinct
  <2> QED
    BY <2>1, <2>2
<1>6. ASSUME NEW e \in Devices PROVE DistinctIn(e)'
  <2>1. DistinctIn(e) /\ Last(e)' = Last(e)
    BY <1>3 DEF PowersDistinct, Last
  <2>2. CASE e = d
    BY <1>3, <2>1, <2>2, UplinkFiled DEF DistinctIn
  <2>3. CASE e # d
    <3>1. Pending(e)' = Pending(e) /\ heard'[e] = heard[e]
      BY <2>3, UplinkFiled
    <3>2. \A c \in copies' : c.dev = e => c \in copies
      BY <1>3, <2>3
    <3> QED
      BY <1>3, <2>1, <3>1, <3>2 DEF DistinctIn
  <2> QED
    BY <2>2, <2>3
<1> QED
  BY <1>5, <1>6 DEF PowersDistinct

LEMMA StepDistinct ==
  ASSUME NoWrap, ~EqualPowers
  PROVE  TypeInv /\ Filed /\ PowersDistinct /\ [Next]_vars => PowersDistinct'
<1> SUFFICES ASSUME TypeInv, Filed, PowersDistinct, [Next]_vars PROVE PowersDistinct'
  OBVIOUS
<1>1. CASE \E d \in Devices : Uplink(d)
  BY <1>1, UplinkDistinct
<1>2. CASE \E c \in copies : Receive(c)
  BY <1>2, ReceiveDistinct
<1>3. CASE UNCHANGED <<uplinks, heard, received, copies>>
  BY <1>3, FiledUnchanged DEF PowersDistinct, DistinctIn
<1> QED
  BY <1>1, <1>2, <1>3, OtherSteps

LEMMA InitDistinct == Init => PowersDistinct
  BY DEF Init, PowersDistinct, DistinctIn, Pending

\* Keyed by power, no gateway that heard the device is lost: one that may send
\* and heard it best is chosen if any may.
LEMMA BestOfAble ==
  ASSUME TypeInv, PowersDistinct, Due, NEW w
  PROVE  /\ Candidates(Dev, w) = Able(Dev, w)
         /\ Able(Dev, w) # {} => GetBestGatewayForDevice(Dev, w) # {}
<1>1. Dev \in Devices /\ received[Dev] # <<>>
  BY DueFacts DEF TypeInv, OppsHaveEntry, Dev
<1>2. \A g, h \in DOMAIN Last(Dev).power : Last(Dev).power[g] = Last(Dev).power[h] => g = h
  BY <1>1 DEF PowersDistinct, DistinctIn
<1>3. DOMAIN Last(Dev).power \in SUBSET Nat /\ IsFiniteSet(DOMAIN Last(Dev).power)
      /\ \A g \in DOMAIN Last(Dev).power : Last(Dev).power[g] \in Nat
  BY CandidatesHeard, FS_Subset, NetworkServerAssumption
<1>4. GetPowerGatewayMap(Dev) = DOMAIN Last(Dev).power
  BY <1>2, <1>3 DEF GetPowerGatewayMap
<1>5. Candidates(Dev, w) = Able(Dev, w)
  BY <1>4 DEF Candidates, Able
<1>6. ASSUME Able(Dev, w) # {} PROVE GetBestGatewayForDevice(Dev, w) # {}
  <2>1. IsFiniteSet(Able(Dev, w)) /\ Able(Dev, w) \subseteq DOMAIN Last(Dev).power
    BY <1>3, FS_Subset, CandidatesHeard
  <2>2. PICK g \in Able(Dev, w) : \A h \in Able(Dev, w) : Last(Dev).power[h] <= Last(Dev).power[g]
    BY <1>3, <1>6, <2>1, BestOf
  <2> QED
    BY <1>5, <2>2 DEF GetBestGatewayForDevice
<1> QED
  BY <1>5, <1>6

\* A queue whose first opportunity is due is not that queue with the first
\* opportunity put off.
LEMMA NotPutOff ==
  ASSUME NEW s \in Seq(Opp), s # <<>>, Head(s).left = 0, NEW o \in Opp, o.left = 1
  PROVE  /\ s # Append(Tail(s), o)
         /\ Tail(s) # Append(Tail(s), o)
         /\ \A p \in Opp : Append(s, p) # Append(Tail(s), o)
<1> DEFINE t == Append(Tail(s), o)
<1>1. /\ Tail(s) \in Seq(Opp) /\ Len(s) \in Nat \ {0} /\ DOMAIN s = 1 .. Len(s)
      /\ Head(s) = s[1] /\ Len(Tail(s)) = Len(s) - 1 /\ DOMAIN Tail(s) = 1 .. (Len(s) - 1)
      /\ \A i \in DOMAIN Tail(s) : Tail(s)[i] = s[i + 1]
  BY TailAt
<1>2. /\ Len(t) = Len(s) /\ t[Len(s)] = o
      /\ \A i \in 1 .. (Len(s) - 1) : t[i] = s[i + 1]
  BY <1>1, AppendAt
<1>3. \A p \in Opp : Len(Append(s, p)) = Len(s) + 1
  BY AppendAt
<1> HIDE DEF t
<1>4. ASSUME s = t PROVE FALSE
  <2> DEFINE T == {i \in DOMAIN s : s[i].left = 1}
  <2>1. T \in SUBSET Nat /\ Len(s) \in T
    BY <1>1, <1>2, <1>4
  <2>2. PICK i \in T : \A j \in T : i <= j
    <3> HIDE DEF T
    <3> QED
      BY <2>1, LeastOf
  <2>3. i # 1 /\ i \in 1 .. Len(s)
    BY <1>1
  <2>4. i - 1 \in 1 .. (Len(s) - 1) /\ (i - 1) + 1 = i
    BY <1>1, <2>3
  <2>5. s[i - 1] = s[i]
    BY <1>2, <1>4, <2>4
  <2>6. i - 1 \in T
    BY <1>1, <2>4, <2>5
  <2> QED
    BY <2>2, <2>3, <2>6
<1>5. Tail(s) # t
  BY <1>1, <1>2
<1>6. \A p \in Opp : Append(s, p) # t
  BY <1>1, <1>2, <1>3
<1> QED
  BY <1>4, <1>5, <1>6 DEF t

\* The server's invariant when no two gateways hear an uplink equally well.
PowerInv == TypeInv /\ Filed /\ PowersDistinct

LEMMA PowerSafe ==
  ASSUME NoWrap, ~EqualPowers
  PROVE  (Init => PowerInv) /\ (PowerInv /\ [Next]_vars => PowerInv')
  BY InitTypes, InitFiled, InitDistinct, StepTypes, StepFiled, StepDistinct DEF PowerInv

LEMMA NotPutOffStep ==
  ASSUME PowerInv, Due, Able(Dev, Window) # {}, [Next]_vars
  PROVE  opps' # Append(Tail(opps), Opportunity(Dev, Retried(Dev)))
<1> DEFINE o == Opportunity(Dev, Retried(Dev))
<1>1. /\ opps \in Seq(Opp) /\ opps # <<>> /\ Head(opps).left = 0
      /\ o \in Opp /\ o.left = 1
  BY DueFacts DEF PowerInv, Opportunity, Opp, Windows, Retried, FirstTry
<1>2. GetBestGatewayForDevice(Dev, Window) # {}
  BY BestOfAble DEF PowerInv
<1> HIDE DEF o
<1>3. CASE opps' = opps
  BY <1>1, <1>3, NotPutOff DEF o
<1>4. CASE opps' = Tail(opps)
  BY <1>1, <1>4, NotPutOff DEF o
<1>5. ASSUME NEW c \in copies, Receive(c), opps' # opps
      PROVE  opps' # Append(Tail(opps), o)
  <2> DEFINE p == Opportunity(c.dev, FirstTry(c.dev))
  <2>1. opps' = Append(opps, p) /\ p \in Opp
    BY <1>5 DEF Receive, PowerInv, TypeInv, ServerTypes, Copy, Opportunity, Opp, Windows, FirstTry
  <2> QED
    BY <1>1, <2>1, NotPutOff
<1>6. CASE Answer \/ GiveUp \/ NoReplyNeeded
  BY <1>4, <1>6 DEF Answer, GiveUp, NoReplyNeeded
<1>7. CASE (\E d \in Devices : Uplink(d)) \/ (\E m \in downlinks : GatewaySend(m))
           \/ (\E g \in Gateways : TxFinished(g)) \/ UNCHANGED vars
  BY <1>3, <1>7 DEF Uplink, GatewaySend, TxFinished, vars, serverVars
<1> QED
  BY <1>2, <1>3, <1>5, <1>6, <1>7 DEF Next, TryOtherWindow, Elapse, o

LEMMA NotGivenUpStep ==
  ASSUME PowerInv, Due, Able(Dev, Window) # {}, [Next]_vars, needsReply'[Dev] # needsReply[Dev]
  PROVE  needsReply'[Dev] \/ replies' # replies
<1>1. Dev \in Devices /\ needsReply \in [Devices -> BOOLEAN]
  BY DueFacts DEF PowerInv, TypeInv, ServerTypes
<1>2. GetBestGatewayForDevice(Dev, Window) # {}
  BY BestOfAble DEF PowerInv
<1>3. ASSUME NEW c \in copies, Receive(c) PROVE needsReply'[Dev]
  <2>1. needsReply' = [needsReply EXCEPT ![c.dev] = @ \/ c.dev \in Confirmed]
    BY <1>3 DEF Receive
  <2>2. Dev = c.dev
    BY <1>1, <2>1
  <2> QED
    BY <1>1, <2>1, <2>2
<1>4. CASE Answer
  <2>1. PICK g \in GetBestGatewayForDevice(Dev, Window) :
          /\ Reply(Dev, Window, g) \in Sent
          /\ replies' = [replies EXCEPT ![Dev] = Append(@, Reply(Dev, Window, g))]
    BY <1>4, AnswerDoes DEF PowerInv
  <2>2. replies \in [Devices -> Seq(Sent)] /\ replies[Dev] \in Seq(Sent)
    BY <1>1 DEF PowerInv, TypeInv, ServerTypes
  <2>3. Len(Append(replies[Dev], Reply(Dev, Window, g))) # Len(replies[Dev])
    BY <2>1, <2>2, AppendAt
  <2>4. replies'[Dev] = Append(replies[Dev], Reply(Dev, Window, g))
    BY <1>1, <2>1, <2>2
  <2>5. replies' # replies
    BY <2>3, <2>4
  <2> QED
    BY <2>5
<1>5. CASE UNCHANGED needsReply
  BY <1>5
<1>6. CASE \/ \E d \in Devices : Uplink(d)
           \/ TryOtherWindow \/ NoReplyNeeded \/ (\E m \in downlinks : GatewaySend(m))
           \/ (\E g \in Gateways : TxFinished(g)) \/ UNCHANGED vars
  BY <1>5, <1>6 DEF Uplink, TryOtherWindow, NoReplyNeeded, GatewaySend, TxFinished, vars, serverVars
<1> QED
  BY <1>2, <1>3, <1>4, <1>6 DEF Next, GiveUp, Elapse

\* GetBestGatewayForDevice: a window is passed over, or a reply given up, only
\* if no gateway that heard the frame may send in it, provided no two of them
\* heard it equally well.
THEOREM WindowUsedWhenPossible ==
  ASSUME NoWrap, ~EqualPowers
  PROVE  Spec => UsedWhenPossible
<1> DEFINE A == Due /\ Able(Dev, Window) # {} =>
                  /\ opps' # Append(Tail(opps), Opportunity(Dev, Retried(Dev)))
                  /\ needsReply'[Dev] # needsReply[Dev] => needsReply'[Dev] \/ replies' # replies
<1>1. PowerInv /\ [Next]_vars => A
  BY NotPutOffStep, NotGivenUpStep
<1>2. Spec => [][A]_vars
  <2> HIDE DEF A
  <2> QED
    BY <1>1, PowerSafe, PTL DEF Spec
<1> QED
  BY <1>2 DEF UsedWhenPossible

\* GetBestGatewayForDevice: of the gateways that may send, the one that heard
\* the frame best does, under the same proviso.
THEOREM BestGatewaySends ==
  ASSUME NoWrap, ~EqualPowers
  PROVE  Spec => BestGatewayUsed
<1> DEFINE A == \A d \in Devices : replies'[d] # replies[d] =>
                  LET r == replies'[d][Len(replies'[d])] IN
                    \A g \in Able(d, r.window) : Last(d).power[g] <= Last(d).power[r.gw]
<1>1. PowerInv /\ [Next]_vars => A
  <2> SUFFICES ASSUME PowerInv, [Next]_vars, NEW d \in Devices, replies'[d] # replies[d],
                      NEW h \in Able(d, replies'[d][Len(replies'[d])].window)
               PROVE  Last(d).power[h] <= Last(d).power[replies'[d][Len(replies'[d])].gw]
    OBVIOUS
  <2>1. Answer /\ d = Dev
    BY RepliesGrow DEF PowerInv
  <2>2. PICK g \in GetBestGatewayForDevice(Dev, Window) :
          replies'[Dev][Len(replies'[Dev])] = Reply(Dev, Window, g)
    BY <2>1, RepliesGrow DEF PowerInv
  <2>3. Reply(Dev, Window, g).window = Window /\ Reply(Dev, Window, g).gw = g
    BY DEF Reply
  <2>4. Due
    BY <2>1 DEF Answer
  <2>5. Candidates(Dev, Window) = Able(Dev, Window)
    BY <2>4, BestOfAble DEF PowerInv
  <2> QED
    BY <2>1, <2>2, <2>3, <2>5 DEF GetBestGatewayForDevice
<1>2. Spec => [][A]_vars
  <2> HIDE DEF A
  <2> QED
    BY <1>1, PowerSafe, PTL DEF Spec
<1> QED
  BY <1>2 DEF BestGatewayUsed
=============================================================================
