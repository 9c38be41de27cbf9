------------------------------ MODULE TestRunner ------------------------------
(***************************************************************************)
(* The parallel test driver, test.py: run_tests, its worker threads, the   *)
(* two queues between them and the interrupt hook.  The main thread queues *)
(* every job, then one break job per worker, collects as many jobs as it   *)
(* has queued while it writes the results document, joins the workers,     *)
(* closes and translates the document, and returns the exit code.          *)
(*                                                                         *)
(* A job is known by its name; the command it runs is a process that ends  *)
(* with any return code; a suite that returns 0, 1 or 2 has written its    *)
(* results file.  The queues are unbounded and first in first out.         *)
(***************************************************************************)
EXTENDS Integers, FiniteSets, Sequences

CONSTANTS
  Jobs,          \* the names of the jobs, in the order they are dispatched
  Suites,        \* those that are test suites; the others are examples
  Skipped,       \* those queued with is_skip
  Workers,       \* one worker thread per processor
  Break,         \* the job with is_break that ends a worker
  SpawnMayFail,  \* Popen may raise in a worker (no process can be created)
  Translate      \* --html or --text was given

Names == {Jobs[i] : i \in DOMAIN Jobs}

ASSUME TestRunnerAssumption ==
  /\ Jobs \in Seq(Names)
  /\ \A i, k \in DOMAIN Jobs : Jobs[i] = Jobs[k] => i = k
  /\ Suites \subseteq Names /\ Skipped \subseteq Names
  /\ Break \notin Names
  /\ IsFiniteSet(Workers) /\ Workers # {}
  /\ SpawnMayFail \in BOOLEAN /\ Translate \in BOOLEAN

\* Return codes: 0, 1, 2 and every other one (a signal, a shell's 127, ...).
Codes == {0, 1, 2, 3}
NoCode == -1

VARIABLES
  pc,           \* where the main thread is in run_tests
  jobs,         \* how many jobs it has queued
  breaks,       \* how many break jobs it has queued
  collected,    \* how many jobs it has taken from the output queue
  exitCode,     \* what run_tests has returned
  input,        \* input_queue
  output,       \* output_queue
  worker,       \* per thread, what it does and the job it holds
  threadExit,   \* thread_exit
  status,       \* what the main thread has printed of each job
  wellFormed    \* whether the document's tags match

mainVars == <<pc, jobs, breaks, collected, exitCode>>
docVars  == <<status, wellFormed>>
vars     == <<mainVars, input, output, worker, threadExit, docVars>>

Statuses == {"SKIP", "PASS", "FAIL", "VALGR", "CRASH"}

Init ==
  /\ pc = "dispatch" /\ jobs = 0 /\ breaks = 0 /\ collected = 0
  /\ exitCode = NoCode
  /\ input = <<>> /\ output = <<>>
  /\ worker = [w \in Workers |-> [at |-> "get", job |-> Break]]
  /\ threadExit = FALSE
  /\ status = [j \in Names |-> "none"]
  /\ wellFormed = TRUE

-----------------------------------------------------------------------------
(* The worker threads.                                                     *)

Goto(w, from, to, job) ==
  /\ worker[w].at = from
  /\ worker' = [worker EXCEPT ![w] = [at |-> to, job |-> job]]

\* A job comes back with the code its process returned, or as a break when
\* the worker did no work because of an interrupt.
GiveBack(j, code, isBreak) ==
  output' = Append(output, [job |-> j, code |-> code, isBreak |-> isBreak])

Get(w) ==
  /\ input # <<>>
  /\ input' = Tail(input)
  /\ IF Head(input) = Break THEN Goto(w, "get", "exited", Break)
                            ELSE Goto(w, "get", "check", Head(input))
  /\ UNCHANGED <<mainVars, output, threadExit, docVars>>

\* Fault: an interrupted worker forgets its job.
CheckDropped(w) ==
  LET j == worker[w].job IN
  /\ \/ threadExit /\ Goto(w, "check", "get", Break) /\ UNCHANGED output
     \/ ~threadExit /\ j \in Skipped /\ Goto(w, "check", "get", Break)
          /\ GiveBack(j, NoCode, FALSE)
     \/ ~threadExit /\ j \notin Skipped /\ Goto(w, "check", "running", j)
          /\ UNCHANGED output
  /\ UNCHANGED <<mainVars, input, threadExit, docVars>>

\* thread_exit is read after the job was taken from the queue, before it runs.
Check(w) ==
  LET j == worker[w].job IN
  /\ \/ threadExit /\ Goto(w, "check", "get", Break) /\ GiveBack(j, NoCode, TRUE)
     \/ ~threadExit /\ j \in Skipped /\ Goto(w, "check", "get", Break)
          /\ GiveBack(j, NoCode, FALSE)
     \/ ~threadExit /\ j \notin Skipped /\ Goto(w, "check", "running", j)
          /\ UNCHANGED output
  /\ UNCHANGED <<mainVars, input, threadExit, docVars>>

\* run_job_synchronously: the process ends, whenever it likes.
Finish(w, code) ==
  /\ Goto(w, "running", "get", Break)
  /\ GiveBack(worker[w].job, code, FALSE)
  /\ UNCHANGED <<mainVars, input, threadExit, docVars>>

\* The exception of Popen ends the thread; nothing is put in the queue.
SpawnFails(w) ==
  /\ SpawnMayFail
  /\ Goto(w, "running", "died", worker[w].job)
  /\ UNCHANGED <<mainVars, input, output, threadExit, docVars>>

\* sigint_hook.
Sigint ==
  /\ ~threadExit
  /\ pc \notin {"returned", "raised"}
  /\ threadExit' = TRUE
  /\ UNCHANGED <<mainVars, input, output, worker, docVars>>

-----------------------------------------------------------------------------
(* The main thread.                                                        *)

Dispatch ==
  /\ pc = "dispatch"
  /\ jobs < Len(Jobs)
  /\ input' = Append(input, Jobs[jobs + 1])
  /\ jobs' = jobs + 1
  /\ UNCHANGED <<pc, breaks, collected, exitCode, output, worker, threadExit, docVars>>

\* Faults: one break job too many; the workers are told to stop before the examples are queued.
DispatchBreakOneMore ==
  /\ pc = "dispatch"
  /\ jobs = Len(Jobs)
  /\ input' = Append(input, Break)
  /\ breaks' = breaks + 1
  /\ pc' = IF breaks = Cardinality(Workers) THEN "collect" ELSE pc
  /\ UNCHANGED <<jobs, collected, exitCode, output, worker, threadExit, docVars>>

DispatchBreakEarly ==
  /\ pc = "dispatch"
  /\ jobs >= Cardinality(Suites)
  /\ input' = Append(input, Break)
  /\ breaks' = breaks + 1
  /\ pc' = IF breaks + 1 = Cardinality(Workers) THEN "collect" ELSE pc
  /\ UNCHANGED <<jobs, collected, exitCode, output, worker, threadExit, docVars>>

DispatchBreak ==
  /\ pc = "dispatch"
  /\ jobs = Len(Jobs)
  /\ input' = Append(input, Break)
  /\ breaks' = breaks + 1
  /\ pc' = IF breaks + 1 = Cardinality(Workers) THEN "collect" ELSE pc
  /\ UNCHANGED <<jobs, collected, exitCode, output, worker, threadExit, docVars>>

Classify(result) ==
  IF result.job \in Skipped THEN "SKIP"
  ELSE CASE result.code = 0 -> "PASS"
         [] result.code = 1 -> "FAIL"
         [] result.code = 2 -> "VALGR"
         [] OTHER -> "CRASH"

\* The entry faked for a suite that crashed has a tag that closes nothing.
TagsMatch(j, s) == ~ (j \in Suites /\ s = "CRASH")

\* Fault: the loop waits for a real result per job.
CollectOnlyReal ==
  /\ pc = "collect"
  /\ collected < Len(Jobs) /\ output # <<>>
  /\ LET result == Head(output)
         s == Classify(result)
     IN /\ output' = Tail(output)
        /\ collected' = IF result.isBreak THEN collected ELSE collected + 1
        /\ IF result.isBreak THEN UNCHANGED docVars
           ELSE /\ status' = [status EXCEPT ![result.job] = s]
                /\ wellFormed' = (wellFormed /\ TagsMatch(result.job, s))
  /\ UNCHANGED <<pc, jobs, breaks, exitCode, input, worker, threadExit>>

\* One turn of the loop over range(jobs).
Collect ==
  /\ pc = "collect"
  /\ collected < jobs /\ output # <<>>
  /\ LET result == Head(output)
         s == Classify(result)
     IN /\ output' = Tail(output)
        /\ collected' = collected + 1
        /\ IF result.isBreak THEN UNCHANGED docVars
           ELSE /\ status' = [status EXCEPT ![result.job] = s]
                /\ wellFormed' = (wellFormed /\ TagsMatch(result.job, s))
  /\ UNCHANGED <<pc, jobs, breaks, exitCode, input, worker, threadExit>>

\* Fault: only the reported failures count.
VerdictNoFailure == IF \E j \in Names : status[j] \in {"FAIL", "CRASH", "VALGR"} THEN 1 ELSE 0

\* passed_tests + skipped_tests == total_tests
Verdict ==
  IF Cardinality({j \in Names : status[j] \in {"PASS", "SKIP"}}) = jobs THEN 0 ELSE 1

\* Every thread is joined, the document closed and translated: the parser
\* raises on mismatched tags.
JoinAndReport ==
  /\ pc = "collect"
  /\ collected = jobs
  /\ \A w \in Workers : worker[w].at \in {"exited", "died"}
  /\ IF Translate /\ ~wellFormed
       THEN pc' = "raised" /\ UNCHANGED exitCode
       ELSE pc' = "returned" /\ exitCode' = Verdict
  /\ UNCHANGED <<jobs, breaks, collected, input, output, worker, threadExit, docVars>>

-----------------------------------------------------------------------------
WorkerStep(w) == Get(w) \/ Check(w) \/ (\E code \in Codes : Finish(w, code)) \/ SpawnFails(w)

MainStep ==
  \/ Dispatch
  \/ DispatchBreak
  \/ Collect
  \/ JoinAndReport

Next == MainStep \/ (\E w \in Workers : WorkerStep(w)) \/ Sigint

Spec == Init /\ [][Next]_vars

\* The threads are scheduled, and every process a job starts ends.
FairSpec == Spec /\ WF_vars(MainStep) /\ \A w \in Workers : WF_vars(WorkerStep(w))
-----------------------------------------------------------------------------
(* Properties.                                                             *)

Holders(j) == {w \in Workers : worker[w].at \in {"check", "running", "died"} /\ worker[w].job = j}
Queued(j)  == {i \in DOMAIN input : input[i] = j}
Done(j)    == {i \in DOMAIN output : output[i].job = j}
Over       == pc \in {"returned", "raised"}

TypeOK ==
  /\ pc \in {"dispatch", "collect", "returned", "raised"}
  /\ jobs \in 0 .. Len(Jobs) /\ breaks \in 0 .. Cardinality(Workers)
  /\ collected \in 0 .. jobs /\ exitCode \in {NoCode, 0, 1}
  /\ \A i \in DOMAIN input : input[i] \in Names \cup {Break}
  /\ \A i \in DOMAIN output : output[i].job \in Names /\ output[i].code \in Codes \cup {NoCode}
  /\ \A w \in Workers : worker[w].at \in {"get", "check", "running", "exited", "died"}
  /\ status \in [Names -> Statuses \cup {"none"}]

\* Whatever the order in which threads run and the moment of the interrupt,
\* a queued job is in one place at a time, and what the main thread still
\* waits for is exactly what is in the queues or with a worker: its loop over
\* range(jobs) neither ends early nor waits for more than was queued.
NoJobLost ==
  /\ \A j \in Names : Cardinality(Holders(j)) + Cardinality(Queued(j)) + Cardinality(Done(j)) <= 1
  /\ jobs - collected =
       Cardinality({j \in Names : Holders(j) # {} \/ Queued(j) # {} \/ Done(j) # {}})

\* No worker leaves while there is work in the queue, and there is a break
\* job, queued or still to be, for each that has not left.
WorkersStayForWork ==
  /\ (\E w \in Workers : worker[w].at = "exited") => \A j \in Names : Queued(j) = {}
  /\ Cardinality({w \in Workers : worker[w].at # "exited"})
       <= Cardinality(Queued(Break)) + (Cardinality(Workers) - breaks)

\* The exit code is 0 exactly when every job passed or was skipped: an
\* interrupted run does not look like a success.
ExitCodeHonest ==
  exitCode # NoCode =>
    (exitCode = 0 <=> \A j \in Names : status[j] \in {"PASS", "SKIP"})

\* test.py comes to its end, interrupted or not, unless a thread dies of an
\* exception: the main thread then waits for ever for the job it held.
Terminates == <>(Over \/ \E w \in Workers : worker[w].at = "died")
=============================================================================
