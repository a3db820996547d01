-------------------------- MODULE WorkerPoolProofs --------------------------
(***************************************************************************)
(* Proofs about the worker pool, for any workers, jobs, calls of Stop and  *)
(* capacity of the channel.                                                *)
(***************************************************************************)
EXTENDS WorkerPool, FiniteSetTheorems, TLAPS

\* The workers that are counted as active.
Busy == {w \in Worker : worker[w] \in {"run", "submit", "ran"}}
ActiveExact == active = Cardinality(Busy)

\* A running job has its worker.
RunningHasWorker ==
  \A j \in Job : job[j] = "running" =>
    \E w \in Worker : current[w] = j /\ worker[w] \in {"taken", "run", "submit"}

\* The calls of Stop under way, and those of them that overlap.
InStop == {c \in Stopper : stopper[c] \notin {"idle", "returned"}}
Raced(c) == c \in racing /\ \E d \in racing : d # c

\* What the calls of Stop know of one another.
StopState ==
  /\ IsFiniteSet(InStop) /\ IsFiniteSet(racing)
  /\ \A c, d \in InStop : c # d => c \in racing /\ d \in racing
  /\ \A c \in Stopper :
       /\ stopper[c] = "clear" /\ ~started => Raced(c)
       /\ stopper[c] = "close" /\ quit => Raced(c)
       /\ stopper[c] \in {"close", "wait"} => ~started
  /\ quit => ~started
  /\ ~started => \E d \in Stopper : stopper[d] \in {"close", "wait", "returned"}
  /\ crashed => \E c \in racing : Raced(c)

\* Once a call has returned, and none has overlapped with another, all workers
\* have left.
Left ==
  (\E c \in Stopper : stopper[c] = "returned") /\ racing = {}
    => \A w \in Worker : worker[w] = "gone"

IInv == TypeOK /\ ActiveExact /\ RunningHasWorker /\ StopState /\ Left

-----------------------------------------------------------------------------
(* Counting                                                                *)

LEMMA BusyFinite ==
  /\ IsFiniteSet(Busy) /\ Cardinality(Busy) \in Nat
  /\ Cardinality(Busy) <= Cardinality(Worker) /\ Cardinality(Worker) \in Nat
<1>1. Busy \subseteq Worker
  BY DEF Busy
<1> QED
  BY <1>1, FS_Subset, FS_CardinalityType, WorkerPoolAssumption

LEMMA BusyFiniteNext ==
  /\ IsFiniteSet(Busy') /\ Cardinality(Busy') \in Nat
  /\ Cardinality(Busy') <= Cardinality(Worker) /\ Cardinality(Worker) \in Nat
<1>1. Busy' \subseteq Worker
  BY DEF Busy
<1> QED
  BY <1>1, FS_Subset, FS_CardinalityType, WorkerPoolAssumption

\* Two overlapping calls are more than one.
LEMMA RacedMeansTwo ==
  ASSUME IsFiniteSet(racing), NEW c \in racing, Raced(c)
  PROVE  Cardinality(racing) > 1
<1>1. PICK d \in racing : d # c
  BY DEF Raced
<1>2. {c, d} \subseteq racing
  BY <1>1
<1>3. Cardinality({c, d}) = 2
  <2>1. Cardinality({c}) = 1 /\ IsFiniteSet({c})
    BY FS_Singleton
  <2>2. {c, d} = {c} \cup {d} /\ d \notin {c}
    BY <1>1
  <2> QED
    BY <2>1, <2>2, FS_AddElement
<1>4. Cardinality({c, d}) <= Cardinality(racing)
  BY <1>2, FS_Subset
<1>5. Cardinality(racing) \in Nat
  BY FS_CardinalityType
<1> QED
  BY <1>3, <1>4, <1>5

-----------------------------------------------------------------------------
(* The steps of workers and of Submit                                      *)

\* The jobs in the channel, a job's state and a worker's are of their types
\* after any step of theirs, and the count follows the workers.
LEMMA WorkerTypes ==
  ASSUME IInv, NEW w \in Worker, WorkerStep(w)
  PROVE  TypeOK' /\ ActiveExact'
<1> USE DEF IInv, WorkerGoes
<1>1. ASSUME UNCHANGED <<active, quit, started, stopVars>>, Busy' = Busy,
             jobs' \in Seq(Job), Len(jobs') <= Capacity,
             job' \in [Job -> {"new", "sending", "queued", "running", "done", "dropped"}],
             worker' \in [Worker -> {"select", "taken", "run", "submit", "ran", "gone"}],
             current' \in [Worker -> Job \cup {None}]
      PROVE  TypeOK' /\ ActiveExact'
  BY <1>1 DEF TypeOK, ActiveExact, stopVars
<1>2. CASE TakeJob(w)
  <2>1. /\ jobs # << >> /\ jobs \in Seq(Job) /\ jobs' = Tail(jobs)
        /\ Len(jobs) <= Capacity /\ Capacity \in Nat
    BY <1>2, WorkerPoolAssumption DEF TakeJob, TypeOK
  <2>2. Head(jobs) \in Job /\ Tail(jobs) \in Seq(Job) /\ Len(Tail(jobs)) <= Capacity
    BY <2>1
  <2>3. Busy' = Busy
    BY <1>2 DEF TakeJob, Busy, TypeOK
  <2> QED
    BY <1>1, <1>2, <2>1, <2>2, <2>3 DEF TakeJob, TypeOK
<1>3. CASE Quit(w)
  <2>1. Busy' = Busy
    BY <1>3 DEF Quit, Busy, TypeOK
  <2> QED
    BY <1>1, <1>3, <2>1 DEF Quit, TypeOK, poolVars
<1>4. CASE CountUp(w)
  <2>1. Busy' = Busy \cup {w} /\ w \notin Busy
    BY <1>4 DEF CountUp, Busy, TypeOK
  <2>2. Cardinality(Busy') = Cardinality(Busy) + 1
    BY <2>1, BusyFinite, FS_AddElement
  <2>3. ActiveExact' /\ active' \in 0 .. Cardinality(Worker)
    BY <1>4, <2>2, BusyFinite, BusyFiniteNext DEF CountUp, ActiveExact
  <2> QED
    BY <1>4, <2>3 DEF CountUp, TypeOK, stopVars
<1>5. CASE RunJob(w)
  <2>1. Busy' = Busy
    BY <1>5 DEF RunJob, Busy, TypeOK
  <2> QED
    BY <1>1, <1>5, <2>1 DEF RunJob, TypeOK, poolVars
<1>6. CASE EndJob(w)
  <2>1. Busy' = Busy
    BY <1>6 DEF EndJob, Busy, TypeOK
  <2> QED
    BY <1>1, <1>6, <2>1 DEF EndJob, TypeOK, poolVars
<1>7. CASE CountDown(w)
  <2>1. Busy' = Busy \ {w} /\ w \in Busy
    BY <1>7 DEF CountDown, Busy, TypeOK
  <2>2. Cardinality(Busy') = Cardinality(Busy) - 1
    BY <2>1, BusyFinite, FS_RemoveElement
  <2>3. ActiveExact' /\ active' \in 0 .. Cardinality(Worker)
    BY <1>7, <2>2, BusyFinite, BusyFiniteNext DEF CountDown, ActiveExact
  <2> QED
    BY <1>7, <2>3 DEF CountDown, TypeOK, stopVars
<1> QED
  BY <1>2, <1>3, <1>4, <1>5, <1>6, <1>7 DEF WorkerStep

\* A job starts with its worker and ends before its worker lets go of it.
LEMMA WorkerRuns ==
  ASSUME IInv, NEW w \in Worker, WorkerStep(w)
  PROVE  RunningHasWorker'
<1> USE DEF IInv, TypeOK, WorkerGoes
<1> SUFFICES ASSUME NEW j \in Job, job'[j] = "running"
             PROVE  \E v \in Worker : /\ current'[v] = j
                                      /\ worker'[v] \in {"taken", "run", "submit"}
  BY DEF RunningHasWorker
<1>1. ASSUME job[j] = "running", current' = current,
             \A v \in Worker : worker[v] \in {"taken", "run", "submit"} /\ current[v] = j
                                 => worker'[v] \in {"taken", "run", "submit"}
      PROVE  \E v \in Worker : /\ current'[v] = j
                               /\ worker'[v] \in {"taken", "run", "submit"}
  BY <1>1 DEF RunningHasWorker
<1>2. CASE TakeJob(w)
  <2>1. Head(jobs) \in Job
    BY <1>2 DEF TakeJob
  <2>2. CASE j = Head(jobs)
    BY <1>2, <2>1, <2>2 DEF TakeJob
  <2>3. CASE j # Head(jobs)
    <3>1. job[j] = "running"
      BY <1>2, <2>3 DEF TakeJob
    <3>2. PICK v \in Worker : current[v] = j /\ worker[v] \in {"taken", "run", "submit"}
      BY <3>1 DEF RunningHasWorker
    <3>3. v # w
      BY <1>2, <3>2 DEF TakeJob
    <3> QED
      BY <1>2, <3>2, <3>3 DEF TakeJob
  <2> QED
    BY <2>2, <2>3
<1>3. CASE Quit(w)
  BY <1>1, <1>3 DEF Quit, poolVars
<1>4. CASE CountUp(w)
  BY <1>1, <1>4 DEF CountUp
<1>5. CASE RunJob(w)
  BY <1>1, <1>5 DEF RunJob, poolVars
<1>6. CASE EndJob(w)
  BY <1>1, <1>6 DEF EndJob, poolVars
<1>7. CASE CountDown(w)
  <2>1. PICK v \in Worker : current[v] = j /\ worker[v] \in {"taken", "run", "submit"}
    BY <1>7 DEF CountDown, RunningHasWorker
  <2>2. v # w
    BY <1>7, <2>1 DEF CountDown
  <2> QED
    BY <1>7, <2>1, <2>2 DEF CountDown
<1> QED
  BY <1>2, <1>3, <1>4, <1>5, <1>6, <1>7 DEF WorkerStep

LEMMA WorkerInv ==
  ASSUME IInv, NEW w \in Worker, WorkerStep(w)
  PROVE  IInv'
<1>1. UNCHANGED <<quit, started, stopVars>>
  BY DEF WorkerStep, TakeJob, Quit, CountUp, RunJob, EndJob, CountDown, poolVars
<1>2. StopState'
  BY <1>1 DEF IInv, StopState, InStop, Raced, stopVars
<1>3. worker[w] # "gone" /\ racing' = racing /\ stopper' = stopper
  BY <1>1 DEF WorkerStep, TakeJob, Quit, CountUp, RunJob, EndJob, CountDown,
              WorkerGoes, stopVars
<1>4. Left'
  BY <1>3 DEF IInv, Left
<1> QED
  BY <1>2, <1>4, WorkerTypes, WorkerRuns DEF IInv

\* Submitting changes the channel and the state of a job that is not running.
LEMMA SubmitInv ==
  ASSUME IInv, NEW j \in Job, SubmitFromOutside(j) \/ SubmitStep(j)
  PROVE  IInv'
<1> USE DEF IInv
<1>1. /\ UNCHANGED <<quit, active, started, worker, current, stopVars>>
      /\ \E x \in {"sending", "queued", "dropped"} : job' = [job EXCEPT ![j] = x]
  BY DEF SubmitStep, SubmitFromOutside, Send, GiveUp, poolVars
<1>2. jobs' \in Seq(Job) /\ Len(jobs') <= Capacity
  <2>1. CASE Send(j)
    <3>1. jobs \in Seq(Job) /\ Len(jobs) < Capacity /\ jobs' = Append(jobs, j)
          /\ Capacity \in Nat
      BY <2>1, WorkerPoolAssumption DEF Send, TypeOK
    <3> QED
      BY <3>1
  <2>2. CASE ~Send(j)
    BY <2>2 DEF SubmitStep, SubmitFromOutside, GiveUp, poolVars, TypeOK
  <2> QED
    BY <2>1, <2>2
<1>3. TypeOK'
  BY <1>1, <1>2 DEF TypeOK, stopVars
<1>4. ActiveExact'
  BY <1>1 DEF ActiveExact, Busy
<1>5. RunningHasWorker'
  BY <1>1 DEF RunningHasWorker, TypeOK
<1>6. StopState' /\ Left'
  BY <1>1 DEF StopState, InStop, Raced, Left, stopVars
<1> QED
  BY <1>3, <1>4, <1>5, <1>6

-----------------------------------------------------------------------------
(* The steps of Stop                                                       *)

\* They leave the workers and their jobs alone.
LEMMA StopTypes ==
  ASSUME IInv, NEW c \in Stopper, CallStop(c) \/ StopStep(c)
  PROVE  TypeOK' /\ ActiveExact' /\ RunningHasWorker'
<1>1. UNCHANGED <<jobs, active, job, worker, current>>
  BY DEF CallStop, StopStep, CheckStarted, ClearStarted, CloseQuit, Waited, poolVars
<1>2. quit' \in BOOLEAN /\ started' \in BOOLEAN /\ crashed' \in BOOLEAN
  BY DEF IInv, TypeOK, CallStop, StopStep, CheckStarted, ClearStarted, CloseQuit,
         Waited, poolVars
<1>3. /\ stopper' \in [Stopper -> {"idle", "check", "clear", "close", "wait", "returned"}]
      /\ racing' \in SUBSET Stopper
  BY DEF IInv, TypeOK, CallStop, StopStep, CheckStarted, ClearStarted, CloseQuit,
         Waited, StopperGoes
<1>4. TypeOK'
  BY <1>1, <1>2, <1>3 DEF IInv, TypeOK
<1> QED
  BY <1>1, <1>4 DEF IInv, ActiveExact, Busy, RunningHasWorker

\* A call begins: if others are under way, it and they are racing from now on.
LEMMA CallInv ==
  ASSUME IInv, NEW c \in Stopper, CallStop(c)
  PROVE  StopState' /\ Left'
<1> USE DEF IInv
<1>1. /\ InStop' = InStop \cup {c} /\ c \notin InStop
      /\ racing' = IF InStop = {} THEN racing ELSE racing \cup InStop \cup {c}
      /\ UNCHANGED <<quit, started, crashed, worker>>
  BY DEF CallStop, StopperGoes, InStop, TypeOK, poolVars
<1>2. IsFiniteSet(InStop') /\ IsFiniteSet(racing')
  BY <1>1, FS_AddElement, FS_Union DEF StopState
<1>3. racing \subseteq racing'
  BY <1>1
<1>4. \A a, b \in InStop' : a # b => a \in racing' /\ b \in racing'
  BY <1>1 DEF StopState
<1>5. \A d \in Stopper : stopper'[d] = stopper[d] \/ (d = c /\ stopper'[d] = "check")
  BY DEF CallStop, StopperGoes, TypeOK
<1>6. \A d \in Stopper : Raced(d) => Raced(d)'
  BY <1>3 DEF Raced
<1>7. \A d \in Stopper : stopper'[d] \notin {"idle", "check"} => stopper'[d] = stopper[d]
  BY <1>5
<1>8. \A d \in Stopper : stopper[d] # "idle" => stopper'[d] = stopper[d]
  BY <1>5 DEF CallStop, StopperGoes
<1>9. StopState'
  <2>1. \A d \in Stopper :
          /\ stopper'[d] = "clear" /\ ~started' => Raced(d)'
          /\ stopper'[d] = "close" /\ quit' => Raced(d)'
          /\ stopper'[d] \in {"close", "wait"} => ~started'
    BY <1>1, <1>6, <1>7 DEF StopState
  <2>2. ~started' => \E d \in Stopper : stopper'[d] \in {"close", "wait", "returned"}
    BY <1>1, <1>8 DEF StopState
  <2>3. crashed' => \E d \in racing' : Raced(d)'
    BY <1>1, <1>3, <1>6 DEF StopState, TypeOK
  <2> QED
    BY <1>1, <1>2, <1>4, <2>1, <2>2, <2>3 DEF StopState
<1>10. Left'
  BY <1>1, <1>3, <1>7 DEF Left
<1> QED
  BY <1>9, <1>10

\* A call goes on: two calls that are under way at once have raced, so what one
\* of them does to `started' and to the channel concerns only calls that have.
LEMMA StopInv ==
  ASSUME IInv, NEW c \in Stopper, StopStep(c)
  PROVE  StopState' /\ Left'
<1> USE DEF IInv, TypeOK, StopperGoes
<1>1. /\ racing' = racing /\ worker' = worker /\ InStop' \subseteq InStop
      /\ c \in InStop /\ \A d \in Stopper : d # c => stopper'[d] = stopper[d]
  BY DEF StopStep, CheckStarted, ClearStarted, CloseQuit, Waited, InStop
<1>2. IsFiniteSet(InStop') /\ IsFiniteSet(racing')
  BY <1>1, FS_Subset DEF StopState
<1>3. \A d \in InStop : d # c => Raced(d) /\ Raced(c)
  BY <1>1 DEF StopState, Raced
<1>4. \A d \in Stopper : Raced(d)' <=> Raced(d)
  BY <1>1 DEF Raced
<1>5. \A d \in Stopper : stopper[d] \in {"check", "clear", "close", "wait"} => d \in InStop
  BY DEF InStop
<1>6. CASE CheckStarted(c)
  <2>1. UNCHANGED <<quit, started, crashed>> /\ stopper[c] = "check"
        /\ stopper'[c] = IF started THEN "clear" ELSE "returned"
    BY <1>6 DEF CheckStarted, poolVars
  <2>2. StopState'
    BY <1>1, <1>2, <1>4, <2>1 DEF StopState
  <2>3. Left'
    <3> SUFFICES ASSUME \E d \in Stopper : stopper'[d] = "returned", racing = {}
                 PROVE  \A w \in Worker : worker[w] = "gone"
      BY <1>1 DEF Left
    <3>1. CASE started
      BY <1>1, <2>1, <3>1 DEF Left
    <3>2. CASE ~started
      <4>1. PICK d \in Stopper : stopper[d] \in {"close", "wait", "returned"}
        BY <3>2 DEF StopState
      <4>2. d # c
        BY <2>1, <4>1
      <4>3. stopper[d] = "returned"
        BY <1>3, <1>5, <4>1, <4>2 DEF Raced
      <4> QED
        BY <4>3 DEF Left
    <3> QED
      BY <3>1, <3>2
  <2> QED
    BY <2>2, <2>3
<1>7. CASE ClearStarted(c)
  <2>1. UNCHANGED <<quit, crashed>> /\ ~started'
        /\ stopper[c] = "clear" /\ stopper'[c] = "close"
    BY <1>7 DEF ClearStarted
  <2>2. quit => Raced(c)
    BY <2>1 DEF StopState
  <2>3. \A d \in Stopper : stopper'[d] = "clear" => Raced(d)
    BY <1>1, <1>3, <1>5, <2>1
  <2>4. StopState'
    BY <1>1, <1>2, <1>4, <2>1, <2>2, <2>3 DEF StopState
  <2>5. Left'
    BY <1>1, <2>1 DEF Left
  <2> QED
    BY <2>4, <2>5
<1>8. CASE CloseQuit(c)
  <2>1. started' = started /\ quit' = TRUE /\ crashed' = quit
        /\ stopper[c] = "close" /\ stopper'[c] = "wait"
    BY <1>8 DEF CloseQuit
  <2>2. \A d \in Stopper : stopper'[d] = "close" => Raced(d)
    BY <1>1, <1>3, <1>5, <2>1
  <2>3. quit => Raced(c) /\ c \in racing
    BY <2>1 DEF StopState, Raced
  <2>4. StopState'
    BY <1>1, <1>2, <1>4, <2>1, <2>2, <2>3 DEF StopState
  <2>5. Left'
    BY <1>1, <2>1 DEF Left
  <2> QED
    BY <2>4, <2>5
<1>9. CASE Waited(c)
  <2>1. UNCHANGED <<quit, started, crashed>> /\ stopper[c] = "wait"
        /\ stopper'[c] = "returned" /\ \A w \in Worker : worker[w] = "gone"
    BY <1>9 DEF Waited, poolVars
  <2>2. StopState'
    BY <1>1, <1>2, <1>4, <2>1 DEF StopState
  <2>3. Left'
    BY <1>1, <2>1 DEF Left
  <2> QED
    BY <2>2, <2>3
<1> QED
  BY <1>6, <1>7, <1>8, <1>9 DEF StopStep

-----------------------------------------------------------------------------
(* The theorems                                                            *)

LEMMA InitInv == Init => IInv
<1> SUFFICES ASSUME Init PROVE IInv
  OBVIOUS
<1>1. Busy = {} /\ InStop = {}
  BY DEF Init, Busy, InStop
<1>2. ActiveExact
  BY <1>1, FS_EmptySet DEF Init, ActiveExact
<1>3. TypeOK
  <2>1. active \in 0 .. Cardinality(Worker)
    BY BusyFinite DEF Init
  <2>2. jobs \in Seq(Job) /\ Len(jobs) <= Capacity
    BY WorkerPoolAssumption DEF Init
  <2> QED
    BY <2>1, <2>2 DEF Init, TypeOK
<1>4. StopState
  BY <1>1, FS_EmptySet DEF Init, StopState
<1>5. RunningHasWorker /\ Left
  BY DEF Init, RunningHasWorker, Left
<1> QED
  BY <1>2, <1>3, <1>4, <1>5 DEF IInv

LEMMA StepInv == IInv /\ [Next]_vars => IInv'
<1> SUFFICES ASSUME IInv, [Next]_vars PROVE IInv'
  OBVIOUS
<1>1. CASE UNCHANGED vars
  BY <1>1
  DEF IInv, TypeOK, ActiveExact, Busy, RunningHasWorker, StopState, InStop, Raced,
      Left, vars, poolVars, stopVars
<1>2. CASE Next
  <2>1. ASSUME NEW c \in Stopper, CallStop(c) \/ StopStep(c) PROVE IInv'
    BY <2>1, StopTypes, CallInv, StopInv DEF IInv
  <2> QED
    BY <1>2, <2>1, WorkerInv, SubmitInv DEF Next
<1> QED
  BY <1>1, <1>2

THEOREM Invariance == Spec => []IInv
BY InitInv, StepInv, PTL DEF Spec

\* The type invariant; with it, the counter of active workers is never negative
\* and never above their number (workerpool.go:49-51).
THEOREM TypeCorrect == Spec => []TypeOK
BY Invariance, PTL DEF IInv

\* A call of Stop that has overlapped with no other returns to a pool at rest
\* (workerpool.go:75-81).
THEOREM QuietAfterStopHolds == Spec => []QuietAfterStop
<1>1. IInv => QuietAfterStop
  BY DEF IInv, Left, RunningHasWorker, QuietAfterStop
<1> QED
  BY <1>1, Invariance, PTL

\* Only calls of Stop that overlap can close the channel twice
\* (workerpool.go:76-79).
THEOREM StopTwiceIsSafe == Spec => []StopTwiceSafe
<1>1. IInv => StopTwiceSafe
  BY RacedMeansTwo DEF IInv, StopState, StopTwiceSafe
<1> QED
  BY <1>1, Invariance, PTL
=============================================================================
