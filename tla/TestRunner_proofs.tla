--------------------------- MODULE TestRunner_proofs ---------------------------
(***************************************************************************)
(* The test driver with any number of workers and jobs: no job is lost     *)
(* between the queues and the threads, the exit code is honest, and no     *)
(* worker leaves while there is work.                                      *)
(***************************************************************************)
EXTENDS TestRunner, FiniteSetTheorems, SequenceTheorems, TLAPS

-----------------------------------------------------------------------------
(* Queues: what they hold, and that it is in them once.                    *)

Items(s) == {s[i] : i \in DOMAIN s}

Once(s, T) == \A i, k \in DOMAIN s : s[i] = s[k] /\ s[i] \in T => i = k

JobsOf(s) == [i \in DOMAIN s |-> s[i].job]

LEMMA PutItem ==
  ASSUME NEW S, NEW s \in Seq(S), NEW e \in S
  PROVE  /\ Append(s, e) \in Seq(S)
         /\ Items(Append(s, e)) = Items(s) \cup {e}
         /\ \A T : Once(s, T) /\ e \notin Items(s) \cap T => Once(Append(s, e), T)
<1> DEFINE t == Append(s, e)
<1>1. /\ t \in Seq(S) /\ Len(t) = Len(s) + 1 /\ t[Len(s) + 1] = e
      /\ \A i \in 1 .. Len(s) : t[i] = s[i]
  BY AppendProperties
<1>2. DOMAIN s = 1 .. Len(s) /\ DOMAIN t = 1 .. (Len(s) + 1) /\ Len(s) \in Nat
  BY <1>1, LenProperties
<1> HIDE DEF t
<1>3. DOMAIN t = DOMAIN s \cup {Len(s) + 1}
  BY <1>2
<1>4. Items(t) = Items(s) \cup {e}
  BY <1>1, <1>2, <1>3 DEF Items
<1>5. ASSUME NEW T, Once(s, T), e \notin Items(s) \cap T
      PROVE  Once(t, T)
  BY <1>1, <1>2, <1>3, <1>5 DEF Items, Once
<1> QED
  BY <1>1, <1>4, <1>5 DEF t

LEMMA TakeItem ==
  ASSUME NEW S, NEW s \in Seq(S), s # <<>>
  PROVE  /\ Tail(s) \in Seq(S) /\ Head(s) \in S
         /\ Items(s) = Items(Tail(s)) \cup {Head(s)}
         /\ \A T : Once(s, T) => Once(Tail(s), T)
         /\ \A T : Once(s, T) => Head(s) \notin Items(Tail(s)) \cap T
<1> DEFINE t == Tail(s)
<1>1. /\ t \in Seq(S) /\ Head(s) \in S /\ Len(t) = Len(s) - 1
      /\ \A i \in 1 .. Len(t) : t[i] = s[i + 1]
  BY HeadTailProperties
<1>2. /\ DOMAIN s = 1 .. Len(s) /\ DOMAIN t = 1 .. (Len(s) - 1)
      /\ Len(s) \in Nat \ {0} /\ Head(s) = s[1]
  BY <1>1, LenProperties, EmptySeq
<1> HIDE DEF t
<1>3. \A k \in DOMAIN s : k = 1 \/ (k - 1 \in DOMAIN t /\ t[k - 1] = s[k])
  BY <1>1, <1>2
<1>4. \A i \in DOMAIN t : i + 1 \in DOMAIN s /\ t[i] = s[i + 1] /\ i + 1 # 1
  BY <1>1, <1>2
<1>5. Items(s) = Items(t) \cup {Head(s)}
  BY <1>2, <1>3, <1>4 DEF Items
<1>6. ASSUME NEW T, Once(s, T)
      PROVE  Once(t, T) /\ Head(s) \notin Items(t) \cap T
  <2>1. ASSUME NEW i \in DOMAIN t, NEW k \in DOMAIN t, t[i] = t[k], t[i] \in T
        PROVE  i = k
    <3>1. i + 1 = k + 1
      BY <1>4, <1>6, <2>1 DEF Once
    <3> QED
      BY <1>2, <3>1
  <2>2. ASSUME NEW i \in DOMAIN t, t[i] = Head(s) PROVE Head(s) \notin T
    BY <1>2, <1>4, <1>6, <2>2 DEF Once
  <2> QED
    BY <2>1, <2>2 DEF Once, Items
<1> QED
  BY <1>1, <1>5, <1>6 DEF t

Results == [job : Names, code : Codes \cup {NoCode}, isBreak : BOOLEAN]

\* The jobs of a queue of results, as it grows and shrinks.
LEMMA JobsOfQueue ==
  ASSUME NEW s \in Seq(Results)
  PROVE  /\ JobsOf(s) \in Seq(Names)
         /\ \A r \in Results : JobsOf(Append(s, r)) = Append(JobsOf(s), r.job)
         /\ s # <<>> => /\ JobsOf(s) # <<>>
                        /\ JobsOf(Tail(s)) = Tail(JobsOf(s))
                        /\ Head(JobsOf(s)) = Head(s).job
<1>1. DOMAIN s = 1 .. Len(s) /\ Len(s) \in Nat /\ \A i \in 1 .. Len(s) : s[i] \in Results
  BY LenProperties, ElementOfSeq
<1>2. /\ JobsOf(s) \in Seq(Names) /\ Len(JobsOf(s)) = Len(s)
      /\ \A i \in 1 .. Len(s) : JobsOf(s)[i] = s[i].job
  <2>1. JobsOf(s) \in [1 .. Len(s) -> Names]
    BY <1>1 DEF JobsOf, Results
  <2> QED
    BY <1>1, <2>1, IsASeq, LenProperties DEF JobsOf
<1>3. ASSUME NEW r \in Results PROVE JobsOf(Append(s, r)) = Append(JobsOf(s), r.job)
  <2>1. r.job \in Names
    BY DEF Results
  <2>2. /\ Append(s, r) \in Seq(Results) /\ Len(Append(s, r)) = Len(s) + 1
        /\ Append(s, r)[Len(s) + 1] = r /\ \A i \in 1 .. Len(s) : Append(s, r)[i] = s[i]
    BY AppendProperties
  <2>3. DOMAIN Append(s, r) = 1 .. (Len(s) + 1)
    BY <2>2, LenProperties
  <2>4. /\ Append(JobsOf(s), r.job) \in Seq(Names)
        /\ Len(Append(JobsOf(s), r.job)) = Len(s) + 1
        /\ Append(JobsOf(s), r.job)[Len(s) + 1] = r.job
        /\ \A i \in 1 .. Len(s) : Append(JobsOf(s), r.job)[i] = s[i].job
    BY <1>2, <2>1, AppendProperties
  <2>5. /\ JobsOf(Append(s, r)) \in Seq(Names)
        /\ Len(JobsOf(Append(s, r))) = Len(s) + 1
        /\ \A i \in 1 .. Len(s) + 1 : JobsOf(Append(s, r))[i] = Append(s, r)[i].job
    <3>1. \A i \in 1 .. Len(s) + 1 : Append(s, r)[i] \in Results
      BY <2>2, ElementOfSeq
    <3>2. JobsOf(Append(s, r)) \in [1 .. Len(s) + 1 -> Names]
      BY <2>3, <3>1 DEF JobsOf, Results
    <3> QED
      BY <1>1, <2>3, <3>2, IsASeq, LenProperties DEF JobsOf
  <2>6. \A i \in 1 .. Len(s) + 1 : JobsOf(Append(s, r))[i] = Append(JobsOf(s), r.job)[i]
    <3> SUFFICES ASSUME NEW i \in 1 .. Len(s) + 1
                 PROVE  JobsOf(Append(s, r))[i] = Append(JobsOf(s), r.job)[i]
      OBVIOUS
    <3>1. CASE i = Len(s) + 1
      BY <2>2, <2>4, <2>5, <3>1
    <3>2. CASE i \in 1 .. Len(s)
      <4>1. JobsOf(Append(s, r))[i] = Append(s, r)[i].job
        BY <2>5
      <4>2. Append(s, r)[i].job = s[i].job /\ Append(JobsOf(s), r.job)[i] = s[i].job
        BY <2>2, <2>4, <3>2
      <4> QED
        BY <4>1, <4>2
    <3>3. i = Len(s) + 1 \/ i \in 1 .. Len(s)
      BY <1>1
    <3> QED
      BY <3>1, <3>2, <3>3
  <2> QED
    BY <2>4, <2>5, <2>6, SeqEqual
<1>4. ASSUME s # <<>>
      PROVE  /\ JobsOf(s) # <<>> /\ Head(JobsOf(s)) = Head(s).job
             /\ JobsOf(Tail(s)) = Tail(JobsOf(s))
  <2>1. Len(s) \in Nat \ {0} /\ JobsOf(s) # <<>>
    BY <1>1, <1>2, <1>4, EmptySeq
  <2>2. /\ Tail(s) \in Seq(Results) /\ Len(Tail(s)) = Len(s) - 1 /\ Head(s) = s[1]
        /\ \A i \in 1 .. Len(s) - 1 : Tail(s)[i] = s[i + 1]
    BY <1>4, HeadTailProperties
  <2>3. /\ Tail(JobsOf(s)) \in Seq(Names) /\ Len(Tail(JobsOf(s))) = Len(s) - 1
        /\ Head(JobsOf(s)) = JobsOf(s)[1]
        /\ \A i \in 1 .. Len(s) - 1 : Tail(JobsOf(s))[i] = JobsOf(s)[i + 1]
    BY <1>2, <2>1, HeadTailProperties
  <2>4. /\ JobsOf(Tail(s)) \in Seq(Names) /\ Len(JobsOf(Tail(s))) = Len(s) - 1
        /\ \A i \in 1 .. Len(s) - 1 : JobsOf(Tail(s))[i] = Tail(s)[i].job
    <3>1. DOMAIN Tail(s) = 1 .. Len(s) - 1 /\ Len(s) - 1 \in Nat
      BY <2>1, <2>2, LenProperties
    <3>2. \A i \in 1 .. Len(s) - 1 : Tail(s)[i] \in Results
      BY <2>2, ElementOfSeq
    <3>3. JobsOf(Tail(s)) \in [1 .. Len(s) - 1 -> Names]
      BY <3>1, <3>2 DEF JobsOf, Results
    <3> QED
      BY <3>1, <3>3, IsASeq, LenProperties DEF JobsOf
  <2>5. \A i \in 1 .. Len(s) - 1 : JobsOf(Tail(s))[i] = Tail(JobsOf(s))[i]
    BY <1>2, <2>1, <2>2, <2>3, <2>4
  <2>6. Head(JobsOf(s)) = Head(s).job
    BY <1>2, <2>1, <2>2, <2>3
  <2> QED
    BY <2>1, <2>3, <2>4, <2>5, <2>6, SeqEqual
<1> QED
  BY <1>2, <1>3, <1>4

-----------------------------------------------------------------------------
(* Where jobs are.                                                         *)

Held(w)    == worker[w].at \in {"check", "running", "died"}
HeldJobs   == {worker[w].job : w \in {v \in Workers : Held(v)}}
QueuedJobs == Items(input) \cap Names
DoneJobs   == Items(JobsOf(output))
InFlight   == QueuedJobs \cup HeldJobs \cup DoneJobs

WorkerState == [at : {"get", "check", "running", "exited", "died"}, job : Names \cup {Break}]

WorkersTyped ==
  /\ worker \in [Workers -> WorkerState]
  /\ \A w \in Workers : Held(w) => worker[w].job \in Names

MainTyped ==
  /\ pc \in {"dispatch", "collect", "returned", "raised"}
  /\ jobs \in 0 .. Len(Jobs) /\ collected \in Nat
  /\ pc # "dispatch" => jobs = Len(Jobs)

Shape ==
  /\ MainTyped
  /\ input \in Seq(Names \cup {Break}) /\ output \in Seq(Results)
  /\ WorkersTyped

\* Each job in flight is in one place, and those not yet dispatched in none.
HeldOnce ==
  \A v, w \in Workers : Held(v) /\ Held(w) /\ worker[v].job = worker[w].job => v = w

Placed ==
  /\ Once(input, Names) /\ Once(JobsOf(output), Names) /\ HeldOnce
  /\ QueuedJobs \cap HeldJobs = {}
  /\ QueuedJobs \cap DoneJobs = {}
  /\ HeldJobs \cap DoneJobs = {}
  /\ \A i \in DOMAIN Jobs : i > jobs => Jobs[i] \notin InFlight

\* The main thread's count is of the jobs in flight.
Counted == jobs - collected = Cardinality(InFlight)

JobInv == Shape /\ Placed

\* What a step does to the jobs in flight.
FlightStep ==
  \/ UNCHANGED <<jobs, collected>> /\ InFlight' = InFlight
  \/ /\ jobs < Len(Jobs) /\ jobs' = jobs + 1 /\ UNCHANGED collected
     /\ InFlight' = InFlight \cup {Jobs[jobs + 1]} /\ Jobs[jobs + 1] \notin InFlight
  \/ /\ collected' = collected + 1 /\ UNCHANGED jobs
     /\ \E j \in InFlight : InFlight' = InFlight \ {j}

\* A worker that takes a job holds it besides what others hold.
LEMMA GrabJob ==
  ASSUME WorkersTyped, HeldOnce, NEW w \in Workers, NEW j \in Names, j \notin HeldJobs,
         Goto(w, "get", "check", j)
  PROVE  WorkersTyped' /\ HeldOnce' /\ HeldJobs' = HeldJobs \cup {j}
<1>1. \A v \in Workers : worker'[v] = IF v = w THEN [at |-> "check", job |-> j] ELSE worker[v]
  BY DEF Goto, WorkersTyped
<1>2. Held(w)' /\ ~Held(w) /\ \A v \in Workers \ {w} : Held(v)' = Held(v)
  BY <1>1 DEF Held, Goto
<1>3. WorkersTyped'
  BY <1>1, <1>2 DEF WorkersTyped, WorkerState, Goto
<1>4. HeldJobs' = HeldJobs \cup {j}
  BY <1>1, <1>2 DEF HeldJobs
<1>5. HeldOnce'
  BY <1>1, <1>2 DEF HeldOnce, HeldJobs
<1> QED
  BY <1>3, <1>4, <1>5

\* A worker that gives its job back holds none.
LEMMA ReleaseJob ==
  ASSUME WorkersTyped, HeldOnce, NEW w \in Workers, NEW from \in {"check", "running"},
         Goto(w, from, "get", Break)
  PROVE  /\ WorkersTyped' /\ HeldOnce' /\ HeldJobs' = HeldJobs \ {worker[w].job}
         /\ worker[w].job \in HeldJobs \cap Names
<1>1. \A v \in Workers : worker'[v] = IF v = w THEN [at |-> "get", job |-> Break] ELSE worker[v]
  BY DEF Goto, WorkersTyped
<1>2. ~Held(w)' /\ Held(w) /\ \A v \in Workers \ {w} : Held(v)' = Held(v)
  BY <1>1 DEF Held, Goto
<1>3. WorkersTyped'
  BY <1>1, <1>2 DEF WorkersTyped, WorkerState, Goto
<1>4. HeldJobs' = HeldJobs \ {worker[w].job}
  BY <1>1, <1>2 DEF HeldJobs, HeldOnce
<1>5. HeldOnce'
  BY <1>1, <1>2 DEF HeldOnce
<1>6. worker[w].job \in HeldJobs \cap Names
  BY <1>2 DEF HeldJobs, WorkersTyped
<1> QED
  BY <1>3, <1>4, <1>5, <1>6

\* A worker that goes on with its job, or without one, holds what it held.
LEMMA KeepJob ==
  ASSUME WorkersTyped, HeldOnce, NEW w \in Workers, NEW from, NEW to, NEW j,
         Goto(w, from, to, j),
         \/ from = "check" /\ to = "running" /\ j = worker[w].job
         \/ from = "running" /\ to = "died" /\ j = worker[w].job
         \/ from = "get" /\ to = "exited" /\ j = Break
  PROVE  WorkersTyped' /\ HeldOnce' /\ HeldJobs' = HeldJobs
<1>1. \A v \in Workers : worker'[v] = IF v = w THEN [at |-> to, job |-> j] ELSE worker[v]
  BY DEF Goto, WorkersTyped
<1>2. \A v \in Workers : Held(v)' = Held(v) /\ (Held(v) => worker'[v].job = worker[v].job)
  BY <1>1 DEF Held, Goto
<1>3. WorkersTyped'
  BY <1>1, <1>2 DEF WorkersTyped, WorkerState, Goto
<1>4. HeldJobs' = HeldJobs /\ HeldOnce'
  BY <1>2 DEF HeldJobs, HeldOnce
<1> QED
  BY <1>3, <1>4

\* A result put into the output queue.
LEMMA PutResult ==
  ASSUME output \in Seq(Results), Once(JobsOf(output), Names),
         NEW j \in Names, j \notin DoneJobs,
         NEW code \in Codes \cup {NoCode}, NEW isBreak \in BOOLEAN, GiveBack(j, code, isBreak)
  PROVE  /\ output' \in Seq(Results) /\ Once(JobsOf(output'), Names)
         /\ DoneJobs' = DoneJobs \cup {j}
<1> DEFINE r == [job |-> j, code |-> code, isBreak |-> isBreak]
<1>1. r \in Results /\ r.job = j /\ output' = Append(output, r)
  BY DEF Results, GiveBack
<1>2. JobsOf(output) \in Seq(Names) /\ JobsOf(output') = Append(JobsOf(output), j)
  BY <1>1, JobsOfQueue
<1>3. output' \in Seq(Results)
  BY <1>1, PutItem
<1>4. /\ Items(Append(JobsOf(output), j)) = Items(JobsOf(output)) \cup {j}
      /\ Once(Append(JobsOf(output), j), Names)
  BY <1>2, PutItem DEF DoneJobs
<1> QED
  BY <1>2, <1>3, <1>4 DEF DoneJobs

-----------------------------------------------------------------------------
(* One lemma per step of the driver.                                       *)

LEMMA InitJobInv == Init => JobInv /\ InFlight = {}
<1> USE TestRunnerAssumption
<1> SUFFICES ASSUME Init PROVE JobInv /\ InFlight = {}
  OBVIOUS
<1>1. Items(input) = {} /\ Items(JobsOf(output)) = {}
  BY DEF Init, Items, JobsOf
<1>2. \A w \in Workers : ~Held(w)
  BY DEF Init, Held
<1>3. QueuedJobs = {} /\ DoneJobs = {} /\ HeldJobs = {}
  BY <1>1, <1>2 DEF QueuedJobs, DoneJobs, HeldJobs
<1>4. Shape
  <2>1. Len(Jobs) \in Nat
    BY LenProperties
  <2>2. WorkersTyped
    BY <1>2 DEF Init, WorkersTyped, WorkerState
  <2>3. MainTyped
    BY <2>1 DEF Init, MainTyped
  <2> QED
    BY <2>2, <2>3 DEF Init, Shape
<1>5. Once(input, Names) /\ Once(JobsOf(output), Names) /\ HeldOnce
  BY <1>2 DEF Init, Once, JobsOf, HeldOnce
<1> QED
  BY <1>3, <1>4, <1>5 DEF JobInv, Placed, InFlight

\* What a job that moves between places leaves true of the others.
LEMMA StillPlaced ==
  ASSUME JobInv, UNCHANGED jobs, InFlight' \subseteq InFlight, Shape',
         Once(input, Names)', Once(JobsOf(output), Names)', HeldOnce',
         (QueuedJobs \cap HeldJobs = {})', (QueuedJobs \cap DoneJobs = {})',
         (HeldJobs \cap DoneJobs = {})'
  PROVE  JobInv'
  BY DEF JobInv, Placed

LEMMA NothingMoves ==
  ASSUME JobInv, MainTyped', UNCHANGED <<jobs, collected, input, output, worker>>
  PROVE  JobInv' /\ FlightStep
<1>1. /\ QueuedJobs' = QueuedJobs /\ HeldJobs' = HeldJobs /\ DoneJobs' = DoneJobs
      /\ WorkersTyped' /\ HeldOnce'
  BY DEF QueuedJobs, HeldJobs, DoneJobs, Held, JobInv, Shape, WorkersTyped, Placed, HeldOnce
<1>2. InFlight' = InFlight
  BY <1>1 DEF InFlight
<1>3. Shape'
  BY <1>1 DEF JobInv, Shape
<1>4. Once(input, Names)' /\ Once(JobsOf(output), Names)'
  BY DEF JobInv, Placed
<1>5. /\ (QueuedJobs \cap HeldJobs = {})' /\ (QueuedJobs \cap DoneJobs = {})'
      /\ (HeldJobs \cap DoneJobs = {})'
  BY <1>1 DEF JobInv, Placed
<1>6. JobInv'
  BY <1>1, <1>2, <1>3, <1>4, <1>5, StillPlaced
<1> QED
  BY <1>2, <1>6 DEF FlightStep

LEMMA DispatchStep ==
  ASSUME JobInv, Dispatch
  PROVE  JobInv' /\ FlightStep
<1> USE TestRunnerAssumption
<1> DEFINE j == Jobs[jobs + 1]
<1>1. /\ Len(Jobs) \in Nat /\ DOMAIN Jobs = 1 .. Len(Jobs)
      /\ jobs \in Nat /\ jobs < Len(Jobs) /\ jobs + 1 \in DOMAIN Jobs
  BY LenProperties DEF Dispatch, JobInv, Shape, MainTyped
<1>2. j \in Names /\ j \notin InFlight
  BY <1>1 DEF Names, JobInv, Placed
<1>3. /\ input' \in Seq(Names \cup {Break}) /\ Items(input') = Items(input) \cup {j}
      /\ Once(input', Names)
  <2>1. input \in Seq(Names \cup {Break}) /\ Once(input, Names) /\ j \notin Items(input) \cap Names
    BY <1>2 DEF JobInv, Shape, Placed, InFlight, QueuedJobs
  <2>2. input' = Append(input, j) /\ j \in Names \cup {Break}
    BY <1>2 DEF Dispatch
  <2> HIDE DEF j
  <2> QED
    BY <2>1, <2>2, PutItem
<1>4. /\ QueuedJobs' = QueuedJobs \cup {j} /\ HeldJobs' = HeldJobs /\ DoneJobs' = DoneJobs
      /\ WorkersTyped' /\ HeldOnce' /\ Once(JobsOf(output), Names)'
  BY <1>2, <1>3 DEF Dispatch, QueuedJobs, HeldJobs, DoneJobs, Held, JobInv, Shape, WorkersTyped,
                    Placed, HeldOnce
<1>5. InFlight' = InFlight \cup {j}
  BY <1>4 DEF InFlight
<1>6. Shape'
  BY <1>1, <1>3, <1>4 DEF Dispatch, JobInv, Shape, MainTyped
<1>7. \A i \in DOMAIN Jobs : i > jobs' => Jobs[i] \notin InFlight'
  <2>1. jobs' = jobs + 1
    BY DEF Dispatch
  <2>2. \A i \in DOMAIN Jobs : i > jobs + 1 => Jobs[i] \notin InFlight /\ Jobs[i] # j
    BY <1>1 DEF JobInv, Placed
  <2> QED
    BY <1>5, <2>1, <2>2
<1>8. Placed'
  BY <1>2, <1>3, <1>4, <1>7 DEF JobInv, Placed, InFlight
<1>9. FlightStep
  BY <1>1, <1>2, <1>5 DEF FlightStep, Dispatch
<1> QED
  BY <1>6, <1>8, <1>9 DEF JobInv

LEMMA DispatchBreakStep ==
  ASSUME JobInv, DispatchBreak
  PROVE  JobInv' /\ FlightStep
<1> USE TestRunnerAssumption
<1>1. /\ input' \in Seq(Names \cup {Break}) /\ Items(input') = Items(input) \cup {Break}
      /\ Once(input', Names)
  <2>1. input \in Seq(Names \cup {Break}) /\ Once(input, Names) /\ Break \notin Items(input) \cap Names
    BY DEF JobInv, Shape, Placed
  <2>2. input' = Append(input, Break)
    BY DEF DispatchBreak
  <2> QED
    BY <2>1, <2>2, PutItem
<1>2. /\ QueuedJobs' = QueuedJobs /\ HeldJobs' = HeldJobs /\ DoneJobs' = DoneJobs
      /\ WorkersTyped' /\ HeldOnce' /\ Once(JobsOf(output), Names)'
  BY <1>1 DEF DispatchBreak, QueuedJobs, HeldJobs, DoneJobs, Held, JobInv, Shape, WorkersTyped,
              Placed, HeldOnce
<1>3. InFlight' = InFlight /\ UNCHANGED <<jobs, collected>>
  BY <1>2 DEF InFlight, DispatchBreak
<1>4. Shape'
  BY <1>1, <1>2 DEF DispatchBreak, JobInv, Shape, MainTyped
<1>5. /\ (QueuedJobs \cap HeldJobs = {})' /\ (QueuedJobs \cap DoneJobs = {})'
      /\ (HeldJobs \cap DoneJobs = {})'
  BY <1>2 DEF JobInv, Placed
<1>6. JobInv'
  BY <1>1, <1>2, <1>3, <1>4, <1>5, StillPlaced
<1> QED
  BY <1>3, <1>6 DEF FlightStep

LEMMA GetStep ==
  ASSUME JobInv, NEW w \in Workers, Get(w)
  PROVE  JobInv' /\ FlightStep
<1> USE TestRunnerAssumption
<1> DEFINE j == Head(input)
<1>1. /\ input' \in Seq(Names \cup {Break}) /\ j \in Names \cup {Break}
      /\ Items(input) = Items(input') \cup {j}
      /\ Once(input', Names) /\ j \notin Items(input') \cap Names
  <2>1. /\ input \in Seq(Names \cup {Break}) /\ input # <<>> /\ Once(input, Names)
        /\ input' = Tail(input)
    BY DEF Get, JobInv, Shape, Placed
  <2> QED
    BY <2>1, TakeItem
<1>2. DoneJobs' = DoneJobs /\ Once(JobsOf(output), Names)' /\ MainTyped' /\ output' \in Seq(Results)
  BY DEF Get, mainVars, DoneJobs, JobInv, Shape, MainTyped, Placed
<1>3. UNCHANGED <<jobs, collected>>
  BY DEF Get, mainVars
<1>4. WorkersTyped /\ HeldOnce
  BY DEF JobInv, Shape, Placed
<1>5. CASE j = Break
  <2>1. WorkersTyped' /\ HeldOnce' /\ HeldJobs' = HeldJobs
    BY <1>4, <1>5, KeepJob DEF Get
  <2>2. QueuedJobs' = QueuedJobs
    BY <1>1, <1>5 DEF QueuedJobs
  <2>3. InFlight' = InFlight
    BY <1>2, <2>1, <2>2 DEF InFlight
  <2>4. Shape'
    BY <1>1, <1>2, <2>1 DEF Shape
  <2>5. /\ (QueuedJobs \cap HeldJobs = {})' /\ (QueuedJobs \cap DoneJobs = {})'
        /\ (HeldJobs \cap DoneJobs = {})'
    BY <1>2, <2>1, <2>2 DEF JobInv, Placed
  <2>6. JobInv'
    BY <1>1, <1>2, <1>3, <2>1, <2>3, <2>4, <2>5, StillPlaced
  <2> QED
    BY <1>3, <2>3, <2>6 DEF FlightStep
<1>6. CASE j # Break
  <2>1. j \in Names /\ j \in QueuedJobs /\ QueuedJobs' = QueuedJobs \ {j}
    BY <1>1, <1>6 DEF QueuedJobs
  <2>2. j \notin HeldJobs /\ j \notin DoneJobs
    BY <2>1 DEF JobInv, Placed
  <2>3. WorkersTyped' /\ HeldOnce' /\ HeldJobs' = HeldJobs \cup {j}
    <3>1. Goto(w, "get", "check", j)
      BY <1>6 DEF Get
    <3> HIDE DEF j
    <3> QED
      BY <1>4, <2>1, <2>2, <3>1, GrabJob
  <2>4. InFlight' = InFlight
    BY <1>2, <2>1, <2>3 DEF InFlight
  <2>5. Shape'
    BY <1>1, <1>2, <2>3 DEF Shape
  <2>6. /\ (QueuedJobs \cap HeldJobs = {})' /\ (QueuedJobs \cap DoneJobs = {})'
        /\ (HeldJobs \cap DoneJobs = {})'
    BY <1>2, <2>1, <2>2, <2>3 DEF JobInv, Placed
  <2>7. JobInv'
    BY <1>1, <1>2, <1>3, <2>3, <2>4, <2>5, <2>6, StillPlaced
  <2> QED
    BY <1>3, <2>4, <2>7 DEF FlightStep
<1> QED
  BY <1>5, <1>6

\* A worker gives its job back, for whichever reason.
LEMMA ReturnStep ==
  ASSUME JobInv, NEW w \in Workers, NEW from \in {"check", "running"},
         Goto(w, from, "get", Break),
         NEW code \in Codes \cup {NoCode}, NEW isBreak \in BOOLEAN,
         GiveBack(worker[w].job, code, isBreak),
         UNCHANGED <<mainVars, input>>
  PROVE  JobInv' /\ FlightStep
<1> DEFINE j == worker[w].job
<1>1. /\ WorkersTyped' /\ HeldOnce' /\ HeldJobs' = HeldJobs \ {j} /\ j \in HeldJobs \cap Names
  BY ReleaseJob DEF JobInv, Shape, Placed
<1>2. j \notin QueuedJobs /\ j \notin DoneJobs
  BY <1>1 DEF JobInv, Placed
<1>3. /\ output' \in Seq(Results) /\ Once(JobsOf(output'), Names)
      /\ DoneJobs' = DoneJobs \cup {j}
  <2>1. output \in Seq(Results) /\ Once(JobsOf(output), Names) /\ j \in Names
    BY <1>1 DEF JobInv, Shape, Placed
  <2> QED
    BY <1>2, <2>1, PutResult
<1>4. QueuedJobs' = QueuedJobs /\ Once(input, Names)' /\ MainTyped'
      /\ UNCHANGED <<jobs, collected>>
  BY DEF QueuedJobs, mainVars, JobInv, Shape, Placed, MainTyped
<1>5. InFlight' = InFlight
  BY <1>1, <1>3, <1>4 DEF InFlight
<1>6. Shape'
  BY <1>1, <1>3, <1>4 DEF JobInv, Shape
<1>7. /\ (QueuedJobs \cap HeldJobs = {})' /\ (QueuedJobs \cap DoneJobs = {})'
      /\ (HeldJobs \cap DoneJobs = {})'
  BY <1>1, <1>2, <1>3, <1>4 DEF JobInv, Placed
<1>8. JobInv'
  BY <1>1, <1>3, <1>4, <1>5, <1>6, <1>7, StillPlaced
<1> QED
  BY <1>4, <1>5, <1>8 DEF FlightStep

\* A worker starts a job, or dies with it.
LEMMA HoldStep ==
  ASSUME JobInv, NEW w \in Workers,
         \/ Goto(w, "check", "running", worker[w].job)
         \/ Goto(w, "running", "died", worker[w].job),
         UNCHANGED <<mainVars, input, output>>
  PROVE  JobInv' /\ FlightStep
<1>1. WorkersTyped' /\ HeldOnce' /\ HeldJobs' = HeldJobs
  BY KeepJob DEF JobInv, Shape, Placed
<1>2. /\ QueuedJobs' = QueuedJobs /\ DoneJobs' = DoneJobs /\ UNCHANGED <<jobs, collected>>
      /\ Once(input, Names)' /\ Once(JobsOf(output), Names)' /\ Shape'
  BY <1>1 DEF QueuedJobs, DoneJobs, mainVars, JobInv, Shape, Placed, MainTyped
<1>3. InFlight' = InFlight
  BY <1>1, <1>2 DEF InFlight
<1>4. /\ (QueuedJobs \cap HeldJobs = {})' /\ (QueuedJobs \cap DoneJobs = {})'
      /\ (HeldJobs \cap DoneJobs = {})'
  BY <1>1, <1>2 DEF JobInv, Placed
<1>5. JobInv'
  BY <1>1, <1>2, <1>3, <1>4, StillPlaced
<1> QED
  BY <1>2, <1>3, <1>5 DEF FlightStep

LEMMA CollectStep ==
  ASSUME JobInv, Collect
  PROVE  JobInv' /\ FlightStep
<1> DEFINE j == Head(output).job
<1>1. /\ output \in Seq(Results) /\ output # <<>> /\ output' = Tail(output)
      /\ JobsOf(output) \in Seq(Names) /\ JobsOf(output) # <<>>
      /\ JobsOf(output') = Tail(JobsOf(output)) /\ Head(JobsOf(output)) = j
  <2>1. output \in Seq(Results) /\ output # <<>> /\ output' = Tail(output)
    BY DEF Collect, JobInv, Shape
  <2> QED
    BY <2>1, JobsOfQueue
<1>2. Once(JobsOf(output), Names)
  BY DEF JobInv, Placed
<1>3. /\ j \in Names /\ Items(JobsOf(output)) = Items(JobsOf(output')) \cup {j}
      /\ Once(JobsOf(output'), Names) /\ j \notin Items(JobsOf(output')) \cap Names
  <2> DEFINE s == JobsOf(output)
  <2>1. s \in Seq(Names) /\ s # <<>> /\ Once(s, Names)
    BY <1>1, <1>2
  <2> HIDE DEF s
  <2>2. /\ Head(s) \in Names /\ Items(s) = Items(Tail(s)) \cup {Head(s)}
        /\ Once(Tail(s), Names) /\ Head(s) \notin Items(Tail(s)) \cap Names
    BY <2>1, TakeItem
  <2>3. Head(s) = j /\ Tail(s) = JobsOf(output')
    BY <1>1 DEF s
  <2> QED
    BY <2>2, <2>3 DEF s
<1>4. output' \in Seq(Results)
  BY <1>1, TakeItem
<1>5. /\ QueuedJobs' = QueuedJobs /\ HeldJobs' = HeldJobs
      /\ WorkersTyped' /\ HeldOnce' /\ Once(input, Names)'
      /\ collected' = collected + 1 /\ UNCHANGED jobs
  BY DEF Collect, QueuedJobs, HeldJobs, Held, WorkersTyped, HeldOnce, JobInv, Shape, Placed
<1>6. j \in DoneJobs /\ DoneJobs' = DoneJobs \ {j}
  BY <1>3 DEF DoneJobs
<1>7. j \in InFlight /\ InFlight' = InFlight \ {j}
  BY <1>5, <1>6 DEF InFlight, JobInv, Placed
<1>8. Shape'
  BY <1>4, <1>5 DEF Collect, JobInv, Shape, MainTyped
<1>9. /\ (QueuedJobs \cap HeldJobs = {})' /\ (QueuedJobs \cap DoneJobs = {})'
      /\ (HeldJobs \cap DoneJobs = {})'
  BY <1>5, <1>6 DEF JobInv, Placed
<1>10. JobInv'
  BY <1>3, <1>5, <1>7, <1>8, <1>9, StillPlaced
<1> QED
  BY <1>5, <1>7, <1>10 DEF FlightStep

LEMMA NextStep ==
  ASSUME JobInv, [Next]_vars
  PROVE  JobInv' /\ FlightStep
<1>1. ASSUME NEW w \in Workers, Check(w) PROVE JobInv' /\ FlightStep
  <2>1. UNCHANGED <<mainVars, input>>
    BY <1>1 DEF Check
  <2>2. CASE \E isBreak \in BOOLEAN :
               Goto(w, "check", "get", Break) /\ GiveBack(worker[w].job, NoCode, isBreak)
    BY <2>1, <2>2, ReturnStep
  <2>3. CASE Goto(w, "check", "running", worker[w].job) /\ UNCHANGED output
    BY <2>1, <2>3, HoldStep
  <2> QED
    <3>1. \/ Goto(w, "check", "get", Break) /\ GiveBack(worker[w].job, NoCode, TRUE)
          \/ Goto(w, "check", "get", Break) /\ GiveBack(worker[w].job, NoCode, FALSE)
          \/ Goto(w, "check", "running", worker[w].job) /\ UNCHANGED output
      BY <1>1 DEF Check
    <3> QED
      BY <2>2, <2>3, <3>1
<1>2. ASSUME NEW w \in Workers, NEW code \in Codes, Finish(w, code)
      PROVE  JobInv' /\ FlightStep
  BY <1>2, ReturnStep DEF Finish
<1>3. ASSUME NEW w \in Workers, SpawnFails(w) PROVE JobInv' /\ FlightStep
  BY <1>3, HoldStep DEF SpawnFails
<1>4. CASE Sigint \/ JoinAndReport \/ UNCHANGED vars
  <2>1. UNCHANGED <<jobs, collected, input, output, worker>> /\ MainTyped'
    BY <1>4 DEF Sigint, JoinAndReport, vars, mainVars, JobInv, Shape, MainTyped
  <2> QED
    BY <2>1, NothingMoves
<1> QED
  BY <1>1, <1>2, <1>3, <1>4, GetStep, DispatchStep, DispatchBreakStep, CollectStep
     DEF Next, MainStep, WorkerStep

-----------------------------------------------------------------------------
\* The jobs are finitely many, and as many as the list has entries.
LEMMA CountNames == IsFiniteSet(Names) /\ Cardinality(Names) = Len(Jobs)
<1> USE TestRunnerAssumption
<1>1. Len(Jobs) \in Nat /\ DOMAIN Jobs = 1 .. Len(Jobs)
  BY LenProperties
<1>2. Jobs \in Bijection(1 .. Len(Jobs), Names)
  BY <1>1, LenProperties DEF Names, Bijection, Injection, Surjection, IsInjective
<1>3. IsFiniteSet(1 .. Len(Jobs)) /\ Cardinality(1 .. Len(Jobs)) = Len(Jobs)
  BY <1>1, FS_Interval
<1> QED
  BY <1>2, <1>3, FS_Bijection DEF ExistsBijection

LEMMA CountStep ==
  ASSUME JobInv, Counted, [Next]_vars
  PROVE  Counted'
<1> USE TestRunnerAssumption
<1>1. InFlight \subseteq Names
  <2>1. DoneJobs \subseteq Names
    <3>1. JobsOf(output) \in Seq(Names)
      BY JobsOfQueue DEF JobInv, Shape
    <3> QED
      BY <3>1, LenProperties DEF DoneJobs, Items
  <2> QED
    BY <2>1 DEF InFlight, QueuedJobs, HeldJobs, JobInv, Shape, WorkersTyped
<1>2. IsFiniteSet(InFlight) /\ Cardinality(InFlight) \in Nat
  BY <1>1, CountNames, FS_Subset, FS_CardinalityType
<1>3. jobs \in Int /\ collected \in Int
  BY LenProperties DEF JobInv, Shape, MainTyped
<1>4. FlightStep
  BY NextStep
<1>5. CASE UNCHANGED <<jobs, collected>> /\ InFlight' = InFlight
  BY <1>5 DEF Counted
<1>6. CASE /\ jobs < Len(Jobs) /\ jobs' = jobs + 1 /\ UNCHANGED collected
           /\ InFlight' = InFlight \cup {Jobs[jobs + 1]} /\ Jobs[jobs + 1] \notin InFlight
  <2>1. Cardinality(InFlight') = Cardinality(InFlight) + 1
    BY <1>2, <1>6, FS_AddElement
  <2> QED
    BY <1>2, <1>3, <1>6, <2>1 DEF Counted
<1>7. CASE /\ collected' = collected + 1 /\ UNCHANGED jobs
           /\ \E j \in InFlight : InFlight' = InFlight \ {j}
  <2>1. Cardinality(InFlight') = Cardinality(InFlight) - 1
    BY <1>2, <1>7, FS_RemoveElement
  <2> QED
    BY <1>2, <1>3, <1>7, <2>1 DEF Counted
<1> QED
  BY <1>4, <1>5, <1>6, <1>7 DEF FlightStep

LEMMA AtMostOne ==
  ASSUME NEW S, \A x, y \in S : x = y
  PROVE  Cardinality(S) = IF S = {} THEN 0 ELSE 1
<1>1. CASE S = {}
  BY <1>1, FS_EmptySet
<1>2. CASE S # {}
  <2>1. PICK x \in S : S = {x}
    BY <1>2
  <2> QED
    BY <1>2, <2>1, FS_Singleton
<1> QED
  BY <1>1, <1>2

LEMMA JobInvCounts == JobInv /\ Counted => NoJobLost
<1> SUFFICES ASSUME JobInv, Counted PROVE NoJobLost
  OBVIOUS
<1>1. ASSUME NEW j \in Names
      PROVE  /\ (Holders(j) # {}) <=> j \in HeldJobs
             /\ (Queued(j) # {}) <=> j \in QueuedJobs
             /\ (Done(j) # {}) <=> j \in DoneJobs
  BY DEF Holders, Held, HeldJobs, Queued, QueuedJobs, Items, Done, DoneJobs, JobsOf
<1>2. ASSUME NEW j \in Names
      PROVE  Cardinality(Holders(j)) + Cardinality(Queued(j)) + Cardinality(Done(j)) <= 1
  <2>1. \A v, w \in Holders(j) : v = w
    BY DEF Holders, Held, JobInv, Placed, HeldOnce
  <2>2. \A i, k \in Queued(j) : i = k
    BY DEF Queued, JobInv, Placed, Once
  <2>3. \A i, k \in Done(j) : i = k
    BY DEF Done, JobsOf, JobInv, Placed, Once
  <2>4. /\ Cardinality(Holders(j)) = IF j \in HeldJobs THEN 1 ELSE 0
        /\ Cardinality(Queued(j)) = IF j \in QueuedJobs THEN 1 ELSE 0
        /\ Cardinality(Done(j)) = IF j \in DoneJobs THEN 1 ELSE 0
    BY <1>1, <2>1, <2>2, <2>3, AtMostOne
  <2>5. /\ ~(j \in HeldJobs /\ j \in QueuedJobs) /\ ~(j \in HeldJobs /\ j \in DoneJobs)
        /\ ~(j \in QueuedJobs /\ j \in DoneJobs)
    BY DEF JobInv, Placed
  <2> QED
    BY <2>4, <2>5
<1>3. InFlight \subseteq Names
  <2>1. JobsOf(output) \in Seq(Names)
    BY JobsOfQueue DEF JobInv, Shape
  <2>2. DoneJobs \subseteq Names
    BY <2>1, LenProperties DEF DoneJobs, Items
  <2> QED
    BY <2>2 DEF InFlight, QueuedJobs, HeldJobs, JobInv, Shape, WorkersTyped
<1>4. InFlight = {j \in Names : Holders(j) # {} \/ Queued(j) # {} \/ Done(j) # {}}
  BY <1>1, <1>3 DEF InFlight
<1> QED
  BY <1>2, <1>4 DEF Counted, NoJobLost

\* run_tests: no interleaving of threads, no interrupt and no dead worker
\* loses or duplicates a job, and the loop over range(jobs) waits for exactly
\* those that are still in the queues or with a worker.
THEOREM JobsAccountedFor == Spec => []NoJobLost
<1>1. Init => JobInv /\ Counted
  <2> SUFFICES ASSUME Init PROVE JobInv /\ Counted
    OBVIOUS
  <2>1. jobs = 0 /\ collected = 0
    BY DEF Init
  <2> QED
    BY <2>1, InitJobInv, FS_EmptySet DEF Counted
<1>2. JobInv /\ Counted /\ [Next]_vars => JobInv' /\ Counted'
  BY NextStep, CountStep
<1> QED
  BY <1>1, <1>2, JobInvCounts, PTL DEF Spec

-----------------------------------------------------------------------------
\* Once the exit code is known nothing more is printed.
ExitInv == ExitCodeHonest /\ (exitCode # NoCode => pc = "returned")

\* run_tests: the exit code is 0 exactly when every job passed or was
\* skipped, because by then as many jobs have been queued as there are.
THEOREM HonestExit == Spec => []ExitCodeHonest
<1>1. Init => JobInv /\ ExitInv
  BY InitJobInv DEF Init, ExitInv, ExitCodeHonest
<1>2. JobInv /\ [Next]_vars => JobInv'
  BY NextStep
<1>3. JobInv /\ ExitInv /\ [Next]_vars => ExitInv'
  <2> SUFFICES ASSUME JobInv, ExitInv, [Next]_vars PROVE ExitInv'
    OBVIOUS
  <2>1. CASE exitCode' = exitCode /\ exitCode = NoCode
    BY <2>1 DEF ExitInv, ExitCodeHonest
  <2>2. CASE exitCode' = exitCode /\ status' = status /\ pc' = pc
    BY <2>2 DEF ExitInv, ExitCodeHonest
  <2>3. CASE JoinAndReport /\ exitCode' # exitCode
    <3> DEFINE good == {j \in Names : status[j] \in {"PASS", "SKIP"}}
    <3>1. jobs = Len(Jobs) /\ exitCode' = Verdict /\ pc' = "returned" /\ status' = status
      BY <2>3 DEF JoinAndReport, JobInv, Shape, MainTyped, docVars
    <3>2. Verdict = IF Cardinality(good) = jobs THEN 0 ELSE 1
      BY DEF Verdict
    <3>3. Cardinality(good) = jobs <=> good = Names
      BY <3>1, CountNames, FS_Subset
    <3>4. exitCode' = 0 <=> \A j \in Names : status'[j] \in {"PASS", "SKIP"}
      BY <3>1, <3>2, <3>3
    <3> QED
      BY <3>1, <3>4 DEF ExitInv, ExitCodeHonest
  <2>4. CASE pc \in {"dispatch", "collect"} /\ exitCode' = exitCode
    BY <2>1, <2>4 DEF ExitInv
  <2> QED
    BY <2>2, <2>3, <2>4
       DEF Next, MainStep, WorkerStep, Dispatch, DispatchBreak, Collect, JoinAndReport, Get, Check,
           Finish, SpawnFails, Sigint, mainVars, docVars, vars
<1>4. ExitInv => ExitCodeHonest
  BY DEF ExitInv
<1> QED
  BY <1>1, <1>2, <1>3, <1>4, PTL DEF Spec

-----------------------------------------------------------------------------
(* The break jobs are behind all others, one for each worker that stays.   *)

Staying == {w \in Workers : worker[w].at # "exited"}

\* The first m entries of the input queue are jobs, the others break jobs.
BreaksBehind(m) ==
  /\ m \in 0 .. Len(input)
  /\ \A i \in 1 .. Len(input) : input[i] = Break <=> i > m
  /\ Len(input) > m => breaks > 0
  /\ Staying # Workers => breaks > 0 /\ m = 0
  /\ Cardinality(Staying) = Len(input) - m + Cardinality(Workers) - breaks

BreakInv ==
  /\ breaks \in Nat
  /\ breaks > 0 => jobs = Len(Jobs)
  /\ \E m \in Nat : BreaksBehind(m)

\* A step that leaves the queue alone and lets nobody go.
LEMMA NobodyLeaves ==
  ASSUME BreakInv, UNCHANGED <<input, jobs, breaks>>, Staying' = Staying
  PROVE  BreakInv'
  BY DEF BreakInv, BreaksBehind

LEMMA StayingAfter ==
  ASSUME WorkersTyped, NEW w \in Workers, NEW from, NEW to, NEW j, Goto(w, from, to, j),
         from # "exited"
  PROVE  Staying' = IF to = "exited" THEN Staying \ {w} ELSE Staying
<1>1. \A v \in Workers : worker'[v].at = IF v = w THEN to ELSE worker[v].at
  BY DEF Goto, WorkersTyped
<1>2. worker[w].at # "exited"
  BY DEF Goto
<1> QED
  BY <1>1, <1>2 DEF Staying

\* One more entry at the end of the input queue.
LEMMA QueueGrows ==
  ASSUME JobInv, NEW e \in Names \cup {Break}, input' = Append(input, e)
  PROVE  /\ Len(input) \in Nat /\ Len(input') = Len(input) + 1
         /\ input'[Len(input) + 1] = e
         /\ \A i \in 1 .. Len(input) : input'[i] = input[i]
<1>1. input \in Seq(Names \cup {Break})
  BY DEF JobInv, Shape
<1> QED
  BY <1>1, AppendProperties, LenProperties

LEMMA DispatchKeeps ==
  ASSUME JobInv, BreakInv, Dispatch
  PROVE  BreakInv'
<1> USE TestRunnerAssumption
<1> DEFINE e == Jobs[jobs + 1]
<1>1. PICK m \in Nat : BreaksBehind(m)
  BY DEF BreakInv
<1>2. Len(Jobs) \in Nat /\ DOMAIN Jobs = 1 .. Len(Jobs) /\ jobs \in 0 .. Len(Jobs)
  BY LenProperties DEF JobInv, Shape, MainTyped
<1>3. jobs < Len(Jobs) /\ input' = Append(input, e) /\ UNCHANGED <<breaks, worker>>
  BY DEF Dispatch
<1>4. e \in Names /\ e # Break
  <2>1. jobs + 1 \in DOMAIN Jobs
    BY <1>2, <1>3
  <2> QED
    BY <2>1 DEF Names
<1> HIDE DEF e
<1>5. /\ Len(input) \in Nat /\ Len(input') = Len(input) + 1
      /\ input'[Len(input) + 1] = e
      /\ \A i \in 1 .. Len(input) : input'[i] = input[i]
  BY <1>3, <1>4, QueueGrows
<1>6. breaks = 0
  <2>1. breaks \in Nat /\ (breaks > 0 => jobs = Len(Jobs))
    BY DEF BreakInv
  <2>2. \A a, b \in Int : a < b => a # b
    OBVIOUS
  <2>3. jobs < Len(Jobs)
    BY DEF Dispatch
  <2>4. jobs \in Int /\ Len(Jobs) \in Int
    BY <1>2
  <2>5. jobs # Len(Jobs)
    BY <2>2, <2>3, <2>4
  <2> QED
    BY <2>1, <2>5
<1>7. m = Len(input) /\ Staying = Workers /\ Staying' = Staying
  BY <1>1, <1>3, <1>5, <1>6 DEF BreaksBehind, Staying
<1>8. \A i \in 1 .. Len(input) : input[i] # Break
  BY <1>1, <1>5, <1>7 DEF BreaksBehind
<1>9. BreaksBehind(m + 1)'
  <2>1. \A i \in 1 .. Len(input') : input'[i] # Break
    BY <1>4, <1>5, <1>8
  <2>2. Cardinality(Workers) \in Nat
    BY FS_CardinalityType
  <2> QED
    BY <1>3, <1>5, <1>6, <1>7, <2>1, <2>2 DEF BreaksBehind
<1> QED
  BY <1>3, <1>6, <1>9 DEF BreakInv

LEMMA DispatchBreakKeeps ==
  ASSUME JobInv, BreakInv, DispatchBreak
  PROVE  BreakInv'
<1> USE TestRunnerAssumption
<1>1. PICK m \in Nat : BreaksBehind(m)
  BY DEF BreakInv
<1>2. /\ jobs = Len(Jobs) /\ input' = Append(input, Break)
      /\ breaks' = breaks + 1 /\ UNCHANGED <<jobs, worker>>
  BY DEF DispatchBreak
<1>3. /\ Len(input) \in Nat /\ Len(input') = Len(input) + 1
      /\ input'[Len(input) + 1] = Break
      /\ \A i \in 1 .. Len(input) : input'[i] = input[i]
  BY <1>2, QueueGrows
<1>4. breaks \in Nat /\ Cardinality(Workers) \in Nat
  BY FS_CardinalityType DEF BreakInv
<1>5. Staying' = Staying
  BY <1>2 DEF Staying
<1>6. BreaksBehind(m)'
  <2>1. m \in 0 .. Len(input')
    BY <1>1, <1>3 DEF BreaksBehind
  <2>2. ASSUME NEW i \in 1 .. Len(input') PROVE input'[i] = Break <=> i > m
    <3>1. CASE i = Len(input) + 1
      BY <1>1, <1>3, <3>1 DEF BreaksBehind
    <3>2. CASE i # Len(input) + 1
      <4>1. i \in 1 .. Len(input)
        BY <1>3, <3>2
      <4> QED
        BY <1>1, <1>3, <4>1 DEF BreaksBehind
    <3> QED
      BY <3>1, <3>2
  <2>3. breaks' > 0 /\ (Staying' # Workers => m = 0)
    BY <1>1, <1>2, <1>4, <1>5 DEF BreaksBehind
  <2>4. Cardinality(Staying') = Len(input') - m + Cardinality(Workers) - breaks'
    BY <1>1, <1>2, <1>3, <1>4, <1>5 DEF BreaksBehind
  <2> QED
    BY <2>1, <2>2, <2>3, <2>4 DEF BreaksBehind
<1> QED
  BY <1>2, <1>4, <1>6 DEF BreakInv

LEMMA TakeStep ==
  ASSUME JobInv, BreakInv, NEW w \in Workers, Get(w)
  PROVE  BreakInv'
<1> USE TestRunnerAssumption
<1>1. PICK m \in Nat : BreaksBehind(m)
  BY DEF BreakInv
<1>2. input \in Seq(Names \cup {Break}) /\ input # <<>>
  BY DEF Get, JobInv, Shape
<1>3. /\ Len(input) \in Nat \ {0} /\ Head(input) = input[1] /\ input' = Tail(input)
      /\ Len(input') = Len(input) - 1
      /\ \A i \in 1 .. Len(input) - 1 : input'[i] = input[i + 1]
  BY <1>2, HeadTailProperties, EmptySeq DEF Get
<1>4. UNCHANGED <<jobs, breaks>> /\ breaks \in Nat /\ WorkersTyped
  BY DEF Get, mainVars, BreakInv, JobInv, Shape
<1>5. CASE Head(input) = Break
  <2>1. m = 0 /\ breaks > 0
    BY <1>1, <1>3, <1>5 DEF BreaksBehind
  <2>2. Goto(w, "get", "exited", Break)
    BY <1>5 DEF Get
  <2>3. Staying' = Staying \ {w} /\ w \in Staying
    BY <1>4, <2>2, StayingAfter DEF Goto, Staying
  <2>4. Cardinality(Staying') = Cardinality(Staying) - 1 /\ Cardinality(Staying) \in Nat
    <3>1. IsFiniteSet(Staying)
      BY FS_Subset DEF Staying
    <3> QED
      BY <2>3, <3>1, FS_RemoveElement, FS_CardinalityType
  <2>5. Cardinality(Workers) \in Nat
    BY FS_CardinalityType
  <2>6. BreaksBehind(0)'
    BY <1>1, <1>3, <1>4, <2>1, <2>4, <2>5 DEF BreaksBehind
  <2> QED
    BY <1>4, <2>6 DEF BreakInv
<1>6. CASE Head(input) # Break
  <2>1. m - 1 \in Nat /\ Staying = Workers
    BY <1>1, <1>3, <1>6 DEF BreaksBehind
  <2>2. Staying' = Staying
    BY <1>4, <1>6, StayingAfter DEF Get
  <2>3. Cardinality(Workers) \in Nat
    BY FS_CardinalityType
  <2>4. BreaksBehind(m - 1)'
    BY <1>1, <1>3, <1>4, <2>1, <2>2, <2>3 DEF BreaksBehind
  <2> QED
    BY <1>4, <2>1, <2>4 DEF BreakInv
<1> QED
  BY <1>5, <1>6

LEMMA BreakInvStays ==
  ASSUME JobInv, BreakInv
  PROVE  WorkersStayForWork
<1> USE TestRunnerAssumption
<1>1. PICK m \in Nat : BreaksBehind(m)
  BY DEF BreakInv
<1>2. Len(input) \in Nat /\ DOMAIN input = 1 .. Len(input)
  BY LenProperties DEF JobInv, Shape
<1>3. (\E w \in Workers : worker[w].at = "exited") => \A j \in Names : Queued(j) = {}
  <2> SUFFICES ASSUME Staying # Workers, NEW j \in Names PROVE Queued(j) = {}
    BY DEF Staying
  <2>1. \A i \in DOMAIN input : input[i] = Break
    BY <1>1, <1>2 DEF BreaksBehind
  <2> QED
    BY <2>1 DEF Queued
<1>4. Cardinality(Queued(Break)) = Len(input) - m
  <2>1. Queued(Break) = (m + 1) .. Len(input)
    BY <1>1, <1>2 DEF Queued, BreaksBehind
  <2>2. m <= Len(input)
    BY <1>1, <1>2 DEF BreaksBehind
  <2>3. Cardinality((m + 1) .. Len(input))
          = IF m + 1 > Len(input) THEN 0 ELSE Len(input) - (m + 1) + 1
    <3>1. m + 1 \in Int /\ Len(input) \in Int
      BY <1>2
    <3> HIDE DEF Queued
    <3> QED
      BY <3>1, FS_Interval
  <2> QED
    BY <1>2, <2>1, <2>2, <2>3
<1>5. Cardinality(Staying) <= Cardinality(Queued(Break)) + (Cardinality(Workers) - breaks)
  <2>1. Cardinality(Workers) \in Nat /\ breaks \in Nat
    BY FS_CardinalityType DEF BreakInv
  <2> QED
    BY <1>1, <1>2, <1>4, <2>1 DEF BreaksBehind
<1> QED
  BY <1>3, <1>5 DEF WorkersStayForWork, Staying

\* worker_thread.run and run_tests: no worker leaves while jobs are queued, and
\* each that has not left finds a break job, queued or still to be.
THEOREM WorkersStay == Spec => []WorkersStayForWork
<1> USE TestRunnerAssumption
<1>1. Init => JobInv /\ BreakInv
  <2> SUFFICES ASSUME Init PROVE BreakInv
    BY InitJobInv
  <2>1. input = <<>> /\ Len(input) = 0 /\ breaks = 0 /\ Staying = Workers
    BY DEF Init, Staying
  <2>2. Cardinality(Workers) \in Nat
    BY FS_CardinalityType
  <2>3. BreaksBehind(0)
    BY <2>1, <2>2 DEF BreaksBehind
  <2> QED
    BY <2>1, <2>3 DEF BreakInv
<1>2. JobInv /\ [Next]_vars => JobInv'
  BY NextStep
<1>3. JobInv /\ BreakInv /\ [Next]_vars => BreakInv'
  <2> SUFFICES ASSUME JobInv, BreakInv, [Next]_vars PROVE BreakInv'
    OBVIOUS
  <2>1. ASSUME NEW w \in Workers, NEW from \in {"check", "running"},
               NEW to \in {"get", "running", "died"}, NEW j, Goto(w, from, to, j),
               UNCHANGED <<mainVars, input>>
        PROVE  BreakInv'
    <3>1. Staying' = Staying
      BY <2>1, StayingAfter DEF JobInv, Shape
    <3> QED
      BY <2>1, <3>1, NobodyLeaves DEF mainVars
  <2>2. ASSUME NEW w \in Workers, Check(w) \/ (\E code \in Codes : Finish(w, code)) \/ SpawnFails(w)
        PROVE  BreakInv'
    BY <2>1, <2>2 DEF Check, Finish, SpawnFails
  <2>3. CASE Collect \/ JoinAndReport \/ Sigint \/ UNCHANGED vars
    <3>1. UNCHANGED <<input, jobs, breaks>> /\ Staying' = Staying
      BY <2>3 DEF Collect, JoinAndReport, Sigint, vars, mainVars, Staying
    <3> QED
      BY <3>1, NobodyLeaves
  <2> QED
    BY <2>2, <2>3, DispatchKeeps, DispatchBreakKeeps, TakeStep DEF Next, MainStep, WorkerStep
<1> QED
  BY <1>1, <1>2, <1>3, BreakInvStays, PTL DEF Spec

-----------------------------------------------------------------------------
(* Types, and how far the main thread's counters go.                       *)

Verdicts == {NoCode, 0, 1}

\* A break job is queued only while there is a worker left without one, and
\* only the results that were queued are waited for.
CountersBounded ==
  /\ breaks \in 0 .. Cardinality(Workers) /\ collected \in 0 .. jobs
  /\ pc = "dispatch" => breaks < Cardinality(Workers)

DocTyped == exitCode \in Verdicts /\ status \in [Names -> Statuses \cup {"none"}]

RunnerInv == JobInv /\ CountersBounded /\ DocTyped

LEMMA SomeWorker == Cardinality(Workers) \in Nat \ {0}
  BY FS_CardinalityType, FS_EmptySet, TestRunnerAssumption

LEMMA CollectTypes ==
  ASSUME RunnerInv, Collect
  PROVE  CountersBounded' /\ DocTyped'
<1>1. /\ pc = "collect" /\ collected < jobs /\ collected' = collected + 1
      /\ UNCHANGED <<pc, jobs, breaks, exitCode>> /\ jobs \in Nat
  BY LenProperties, TestRunnerAssumption DEF Collect, RunnerInv, JobInv, Shape, MainTyped
<1>2. CountersBounded'
  BY <1>1, SomeWorker DEF RunnerInv, CountersBounded
<1>3. Head(output).job \in Names
  <2>1. output \in Seq(Results) /\ output # <<>>
    BY DEF Collect, RunnerInv, JobInv, Shape
  <2>2. Head(output) \in Results
    BY <2>1, HeadTailProperties
  <2> QED
    BY <2>2 DEF Results
<1>4. Classify(Head(output)) \in Statuses
  BY DEF Classify, Statuses
<1>5. status' = status \/ status' = [status EXCEPT ![Head(output).job] = Classify(Head(output))]
  BY DEF Collect, docVars
<1>6. status' \in [Names -> Statuses \cup {"none"}]
  BY <1>3, <1>4, <1>5 DEF RunnerInv, DocTyped
<1> QED
  BY <1>1, <1>2, <1>6 DEF RunnerInv, DocTyped

LEMMA DispatchTypes ==
  ASSUME RunnerInv, Dispatch \/ DispatchBreak
  PROVE  CountersBounded' /\ DocTyped'
<1>1. breaks \in Nat /\ jobs \in Nat /\ collected \in 0 .. jobs /\ breaks < Cardinality(Workers)
  BY SomeWorker, LenProperties, TestRunnerAssumption
     DEF RunnerInv, JobInv, Shape, MainTyped, CountersBounded, Dispatch, DispatchBreak
<1>2. ASSUME Dispatch PROVE CountersBounded'
  <2>1. UNCHANGED <<breaks, collected>> /\ jobs' = jobs + 1
    BY <1>2 DEF Dispatch
  <2>2. collected' \in 0 .. jobs'
    BY <1>1, <2>1
  <2>3. breaks' \in 0 .. Cardinality(Workers) /\ breaks' < Cardinality(Workers)
    BY <1>1, <2>1, SomeWorker
  <2> QED
    BY <2>2, <2>3 DEF CountersBounded
<1>3. ASSUME DispatchBreak PROVE CountersBounded'
  <2>1. /\ UNCHANGED <<jobs, collected>> /\ breaks' = breaks + 1
        /\ pc' = "dispatch" => breaks + 1 # Cardinality(Workers)
    BY <1>3 DEF DispatchBreak
  <2>2. breaks' \in 0 .. Cardinality(Workers)
    BY <1>1, <2>1, SomeWorker
  <2>3. pc' = "dispatch" => breaks' < Cardinality(Workers)
    BY <1>1, <2>1, SomeWorker
  <2> QED
    BY <1>1, <2>1, <2>2, <2>3 DEF CountersBounded
<1>4. UNCHANGED <<exitCode, status>>
  BY DEF Dispatch, DispatchBreak, docVars
<1> QED
  BY <1>2, <1>3, <1>4 DEF RunnerInv, DocTyped

LEMMA RunnerStep == RunnerInv /\ [Next]_vars => RunnerInv'
<1> SUFFICES ASSUME RunnerInv, [Next]_vars PROVE CountersBounded' /\ DocTyped'
  BY NextStep DEF RunnerInv
<1>1. CASE UNCHANGED <<pc, jobs, breaks, collected, exitCode, status>>
  BY <1>1 DEF RunnerInv, CountersBounded, DocTyped
<1>2. CASE JoinAndReport
  <2>1. UNCHANGED <<jobs, breaks, collected, status>> /\ pc' # "dispatch"
    BY <1>2 DEF JoinAndReport, docVars
  <2>2. exitCode' \in Verdicts
    BY <1>2 DEF JoinAndReport, Verdict, Verdicts, RunnerInv, DocTyped
  <2> QED
    BY <2>1, <2>2 DEF RunnerInv, CountersBounded, DocTyped
<1>3. CASE \/ \E w \in Workers : WorkerStep(w)
           \/ Sigint \/ UNCHANGED vars
  BY <1>1, <1>3 DEF WorkerStep, Get, Check, Finish, SpawnFails, Sigint, mainVars, docVars, vars
<1> QED
  BY <1>2, <1>3, CollectTypes, DispatchTypes DEF Next, MainStep

\* run_tests: no more break jobs are queued than there are workers, no result
\* is waited for that was not queued, and every variable has its type.
THEOREM RunnerTyped == Spec => []TypeOK
<1>1. Init => RunnerInv
  <2> SUFFICES ASSUME Init PROVE CountersBounded /\ DocTyped
    BY InitJobInv DEF RunnerInv
  <2>1. breaks = 0 /\ jobs = 0 /\ collected = 0
    BY DEF Init
  <2>2. CountersBounded
    BY <2>1, SomeWorker DEF CountersBounded
  <2> QED
    BY <2>2 DEF Init, DocTyped, Verdicts
<1>2. RunnerInv => TypeOK
  <2> SUFFICES ASSUME RunnerInv PROVE TypeOK
    OBVIOUS
  <2>1. \A i \in DOMAIN input : input[i] \in Names \cup {Break}
    BY LenProperties, ElementOfSeq DEF RunnerInv, JobInv, Shape
  <2>2. \A i \in DOMAIN output : output[i].job \in Names /\ output[i].code \in Codes \cup {NoCode}
    <3>1. \A i \in DOMAIN output : output[i] \in Results
      BY LenProperties, ElementOfSeq DEF RunnerInv, JobInv, Shape
    <3> QED
      BY <3>1 DEF Results
  <2>3. \A w \in Workers : worker[w].at \in {"get", "check", "running", "exited", "died"}
    BY DEF RunnerInv, JobInv, Shape, WorkersTyped, WorkerState
  <2> QED
    BY <2>1, <2>2, <2>3
       DEF RunnerInv, JobInv, Shape, MainTyped, CountersBounded, DocTyped, Verdicts, TypeOK
<1> QED
  BY <1>1, <1>2, RunnerStep, PTL DEF Spec
=============================================================================
