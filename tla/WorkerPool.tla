----------------------------- MODULE WorkerPool -----------------------------
(***************************************************************************)
(* The goroutine pool of internal/workerpool/workerpool.go: workers that   *)
(* take jobs from a bounded channel, Submit, and Stop.  A job may submit   *)
(* another one while it runs, from its worker's goroutine, and Stop may be *)
(* called by several goroutines: the flag `started' it tests is not under  *)
(* a lock, and closing a closed channel panics.                            *)
(*                                                                         *)
(* A nil job, which Submit ignores, changes nothing and is left out.       *)
(***************************************************************************)
EXTENDS Integers, Sequences, FiniteSets

CONSTANTS
  Worker,    \* the workers New starts
  Job,       \* jobs
  Child,     \* Child[j]: the job that j submits when it runs, or None
  Stopper,   \* goroutines that call Stop
  Capacity,  \* the capacity of the jobs channel
  None       \* no job

ASSUME WorkerPoolAssumption ==
  /\ IsFiniteSet(Worker) /\ Worker # {}
  /\ Child \in [Job -> Job \cup {None}]
  /\ None \notin Job
  /\ Capacity \in Nat \ {0}

VARIABLES
  jobs,     \* Pool.jobs, the buffered channel
  quit,     \* Pool.quit is closed
  active,   \* Pool.active
  started,  \* Pool.started
  job,      \* how far each job has come
  worker,   \* where each worker stands
  current,  \* the job each worker runs, or None
  stopper,  \* where each call of Stop stands
  racing,   \* the calls of Stop that have overlapped with another one
  crashed   \* the process has died of a panic

poolVars == <<jobs, quit, active, started>>
stopVars == <<stopper, racing, crashed>>
vars == <<poolVars, job, worker, current, stopVars>>

\* The type invariant.
TypeOK ==
  /\ jobs \in Seq(Job) /\ Len(jobs) <= Capacity
  /\ quit \in BOOLEAN
  /\ active \in 0 .. Cardinality(Worker)
  /\ started \in BOOLEAN
  /\ job \in [Job -> {"new", "sending", "queued", "running", "done", "dropped"}]
  /\ worker \in [Worker -> {"select", "taken", "run", "submit", "ran", "gone"}]
  /\ current \in [Worker -> Job \cup {None}]
  /\ stopper \in [Stopper -> {"idle", "check", "clear", "close", "wait", "returned"}]
  /\ racing \in SUBSET Stopper
  /\ crashed \in BOOLEAN

\* New: the workers are started.
Init ==
  /\ jobs = << >> /\ quit = FALSE /\ active = 0 /\ started = TRUE
  /\ job = [j \in Job |-> "new"]
  /\ worker = [w \in Worker |-> "select"]
  /\ current = [w \in Worker |-> None]
  /\ stopper = [c \in Stopper |-> "idle"]
  /\ racing = {}
  /\ crashed = FALSE

-----------------------------------------------------------------------------
(* Submit                                                                  *)

\* A goroutine of the pool's user submits a job that no other job submits.
SubmitFromOutside(j) ==
  /\ job[j] = "new" /\ \A i \in Job : Child[i] # j
  /\ job' = [job EXCEPT ![j] = "sending"]
  /\ UNCHANGED <<poolVars, worker, current, stopVars>>

Send(j) ==
  /\ job[j] = "sending" /\ Len(jobs) < Capacity
  /\ job' = [job EXCEPT ![j] = "queued"]
  /\ jobs' = Append(jobs, j)
  /\ UNCHANGED <<quit, active, started, worker, current, stopVars>>

\* Mutant: Submit only sends.
GiveUpNever(j) == FALSE /\ UNCHANGED vars

\* The other case of the select: the pool is stopped and the job is dropped.
GiveUp(j) ==
  /\ job[j] = "sending" /\ quit
  /\ job' = [job EXCEPT ![j] = "dropped"]
  /\ UNCHANGED <<poolVars, worker, current, stopVars>>

-----------------------------------------------------------------------------
(* worker                                                                  *)

WorkerGoes(w, from, to) ==
  /\ worker[w] = from
  /\ worker' = [worker EXCEPT ![w] = to]

\* The select takes a job, also when quit is closed as well.
TakeJob(w) ==
  /\ WorkerGoes(w, "select", "taken")
  /\ jobs # << >>
  /\ jobs' = Tail(jobs)
  /\ current' = [current EXCEPT ![w] = Head(jobs)]
  /\ job' = [job EXCEPT ![Head(jobs)] = "running"]
  /\ UNCHANGED <<quit, active, started, stopVars>>

\* Mutant: a worker that finds no job leaves.
QuitWhenIdle(w) ==
  /\ WorkerGoes(w, "select", "gone")
  /\ quit \/ jobs = << >>
  /\ UNCHANGED <<poolVars, job, current, stopVars>>

Quit(w) ==
  /\ WorkerGoes(w, "select", "gone")
  /\ quit
  /\ UNCHANGED <<poolVars, job, current, stopVars>>

CountUp(w) ==
  /\ WorkerGoes(w, "taken", "run")
  /\ active' = active + 1
  /\ UNCHANGED <<jobs, quit, started, job, current, stopVars>>

\* The job runs; it may call Submit, which blocks its worker.
RunJob(w) ==
  LET j == current[w] IN
  /\ \/ /\ WorkerGoes(w, "run", "ran")
        /\ Child[j] = None
        /\ job' = [job EXCEPT ![j] = "done"]
     \/ /\ WorkerGoes(w, "run", "submit")
        /\ Child[j] # None
        /\ job' = [job EXCEPT ![Child[j]] = "sending"]
  /\ UNCHANGED <<poolVars, current, stopVars>>

\* Its call of Submit has returned, and the job ends.
EndJob(w) ==
  LET j == current[w] IN
  /\ WorkerGoes(w, "submit", "ran")
  /\ job[Child[j]] # "sending"
  /\ job' = [job EXCEPT ![j] = "done"]
  /\ UNCHANGED <<poolVars, current, stopVars>>

\* Mutant: a job is counted out twice.
CountDownTwice(w) ==
  /\ WorkerGoes(w, "ran", "select")
  /\ active' = active - 2
  /\ current' = [current EXCEPT ![w] = None]
  /\ UNCHANGED <<jobs, quit, started, job, stopVars>>

CountDown(w) ==
  /\ WorkerGoes(w, "ran", "select")
  /\ active' = active - 1
  /\ current' = [current EXCEPT ![w] = None]
  /\ UNCHANGED <<jobs, quit, started, job, stopVars>>

-----------------------------------------------------------------------------
(* Stop                                                                    *)

StopperGoes(c, from, to) ==
  /\ stopper[c] = from
  /\ stopper' = [stopper EXCEPT ![c] = to]

CallStop(c) ==
  LET others == {o \in Stopper : stopper[o] \notin {"idle", "returned"}} IN
  /\ StopperGoes(c, "idle", "check")
  /\ racing' = IF others = {} THEN racing ELSE racing \cup others \cup {c}
  /\ UNCHANGED <<poolVars, job, worker, current, crashed>>

\* Mutant: Stop closes without a look at `started'.
CheckNothing(c) ==
  /\ StopperGoes(c, "check", "clear")
  /\ UNCHANGED <<poolVars, job, worker, current, racing, crashed>>

CheckStarted(c) ==
  /\ StopperGoes(c, "check", IF started THEN "clear" ELSE "returned")
  /\ UNCHANGED <<poolVars, job, worker, current, racing, crashed>>

ClearStarted(c) ==
  /\ StopperGoes(c, "clear", "close")
  /\ started' = FALSE
  /\ UNCHANGED <<jobs, quit, active, job, worker, current, racing, crashed>>

\* close(p.quit); the second call panics.
CloseQuit(c) ==
  /\ StopperGoes(c, "close", "wait")
  /\ quit' = TRUE
  /\ crashed' = quit
  /\ UNCHANGED <<jobs, active, started, job, worker, current, racing>>

\* Mutant: Stop does not wait for the workers.
WaitForNone(c) ==
  /\ StopperGoes(c, "wait", "returned")
  /\ UNCHANGED <<poolVars, job, worker, current, racing, crashed>>

Waited(c) ==
  /\ StopperGoes(c, "wait", "returned")
  /\ \A w \in Worker : worker[w] = "gone"
  /\ UNCHANGED <<poolVars, job, worker, current, racing, crashed>>

-----------------------------------------------------------------------------

WorkerStep(w) ==
  \/ TakeJob(w)
  \/ Quit(w)
  \/ CountUp(w)
  \/ RunJob(w)
  \/ EndJob(w)
  \/ CountDown(w)

SubmitStep(j) == Send(j) \/ GiveUp(j)

StopStep(c) ==
  \/ CheckStarted(c)
  \/ ClearStarted(c)
  \/ CloseQuit(c)
  \/ Waited(c)

Next ==
  /\ ~crashed
  /\ \/ \E j \in Job : SubmitFromOutside(j) \/ SubmitStep(j)
     \/ \E w \in Worker : WorkerStep(w)
     \/ \E c \in Stopper : CallStop(c) \/ StopStep(c)

\* Goroutines are scheduled and jobs end; nobody has to submit or to stop.
Fairness ==
  /\ \A w \in Worker : WF_vars(~crashed /\ WorkerStep(w))
  /\ \A j \in Job : WF_vars(~crashed /\ SubmitStep(j))
  /\ \A c \in Stopper : WF_vars(~crashed /\ StopStep(c))

Spec == Init /\ [][Next]_vars
FairSpec == Spec /\ Fairness

-----------------------------------------------------------------------------
(* Properties                                                              *)

\* When the call of Stop that closed the pool returns, no job is running and
\* none will ever start: its workers have left.  (A call that overlaps with it
\* may return before.)
QuietAfterStop ==
  (\E c \in Stopper : stopper[c] = "returned") /\ racing = {}
    => /\ \A w \in Worker : worker[w] = "gone"
       /\ \A j \in Job : job[j] # "running"

\* Calls of Stop that do not overlap never close the channel twice: only two
\* goroutines that stop the pool at once can bring the process down.
StopTwiceSafe == crashed => Cardinality(racing) > 1

\* No job in the channel is forgotten: it runs, unless the pool is stopped or
\* jams, with every worker in a job that submits to the full channel.
Jammed == Len(jobs) = Capacity /\ \A w \in Worker : worker[w] = "submit"
QueuedRuns ==
  \A j \in Job : job[j] = "queued" ~> job[j] = "done" \/ quit \/ Jammed

\* Stop returns, also when the pool has jammed, and lets every caller of Submit
\* go: they all see the closed channel.
StopReturns ==
  /\ \A c \in Stopper : stopper[c] = "check" ~> stopper[c] = "returned" \/ crashed
  /\ quit ~> (\A j \in Job : job[j] # "sending") \/ crashed
=============================================================================
