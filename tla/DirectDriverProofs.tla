------------------------- MODULE DirectDriverProofs -------------------------
(***************************************************************************)
(* Proofs about DirectDriver for any number of requests and executions.    *)
(* The driver is shown to use the queue of Admission only as the queue     *)
(* allows; what AdmissionProofs proves of the queue then holds of the      *)
(* queue in the driver, and the invariant of the driver rests on it.       *)
(***************************************************************************)
EXTENDS DirectDriver, SequencesExt, FiniteSetTheorems, SequenceTheorems, TLAPS

\* What is proved of the queue.
Admit == INSTANCE AdmissionProofs WITH Waiters <- Requests, Timed <- FALSE

\* No two places of a sequence hold the same.
Distinct(s) == \A a, b \in 1 .. Len(s) : s[a] = s[b] => a = b

\* The types that are not the queue's.
TypeInv ==
  /\ start \in [Requests -> {"Idle", "Gate", "Refused", "Send", "Unpark", "Launched"}]
  /\ owner \in {"Idle", "Sweep", "CloseQueue", "Stop", "Unpark", "Done"}
  /\ gateClosed \in BOOLEAN
  /\ failed \subseteq Requests /\ data \subseteq Requests /\ acked \subseteq Requests
  /\ subscribed \subseteq Requests /\ notifying \subseteq Requests
  /\ inbox \in Seq(Requests \cup {"Stop"})
  /\ stopping \in BOOLEAN
  /\ tasks \subseteq Requests /\ todo \subseteq Requests
  /\ ctl \in {"Drain", "Round", "Task", "Stop", "Parked", "Ended"}
  /\ unparked \in BOOLEAN
  /\ step \in [Requests -> {"Away", "Subscribe", "Check", "Interrupt", "Listener", "Inner",
                            "Release", "Unregister", "Job", "Permit", "Finish"}]
  /\ phase \in [Requests -> {"Admission", "Starting", "Streaming", "Pushing", "Framing",
                             "Closing", "Panicked"}]
  /\ job \in [Requests -> {"None", "Running", "Watched", "Done"}]
  /\ live \subseteq Requests
  /\ release \in {"None", "Running", "Watched", "Done"}

\* The gate lets nobody through once it is closed, and the queue follows it.
GateInv ==
  /\ gateClosed <=> owner \notin {"Idle", "Sweep"}
  /\ gateClosed => \A r \in Requests : start[r] \notin {"Send", "Unpark"}
  /\ owner \in {"Stop", "Unpark", "Done"} => closed

\* The stop task is the last message.
MailInv ==
  /\ Distinct(inbox)
  /\ \A i \in 1 .. Len(inbox) : inbox[i] = "Stop" => i = Len(inbox) /\ owner \in {"Unpark", "Done"}
  /\ stopping => inbox = << >> /\ owner \in {"Unpark", "Done"}
  /\ inbox # << >> /\ ctl # "Drain" /\ ~unparked => owner = "Unpark" \/ \E r \in Requests : start[r] = "Unpark"

\* The control thread polls one task at a time, and the stop task last.
LoopInv ==
  /\ ctl = "Task" <=> \E t \in Requests : step[t] # "Away"
  /\ \A t, u \in Requests : step[t] # "Away" /\ step[u] # "Away" => t = u
  /\ \A t \in Requests : step[t] # "Away" => t \in tasks \ todo
  /\ todo \subseteq tasks
  /\ ctl \notin {"Round", "Task"} => todo = {}
  /\ ctl \in {"Stop", "Ended"} \/ release # "None" => stopping /\ tasks = {}
  /\ ctl = "Parked" /\ stopping /\ tasks = {} => release = "Watched" \/ (release = "Done" /\ unparked)

\* Where request t is between its launch and its acknowledgement.
PlaceInv(t) ==
  /\ acq[t] = "None" <=> start[t] \in {"Idle", "Gate", "Refused"}
  /\ acq[t] = "Register" <=> start[t] = "Send"
  /\ t \in tasks \cup ToSet(inbox) => start[t] \in {"Unpark", "Launched"} /\ t \notin acked
  /\ t \in ToSet(inbox) => t \notin tasks
  /\ phase[t] # "Admission" => start[t] \in {"Unpark", "Launched"} /\ t \notin ToSet(inbox)
  /\ start[t] \in {"Unpark", "Launched"} => t \in tasks \cup ToSet(inbox) \cup acked
  /\ cancelled[t] => start[t] \in {"Unpark", "Launched"}
  /\ t \in acked => start[t] = "Refused" \/ (acq[t] = "Gone" /\ ~permit[t])

\* The task of t still waits in the queue.
InQueue(t) ==
  /\ t \in tasks \cup ToSet(inbox) /\ phase[t] = "Admission"
  /\ step[t] \in {"Away", "Subscribe", "Check", "Interrupt", "Inner", "Listener"}

\* What each step of the task of t holds.
StageInv(t) ==
  /\ step[t] \in {"Subscribe", "Check", "Interrupt", "Inner"} => phase[t] \in Interruptible
  /\ step[t] \in {"Listener", "Release", "Unregister"} => phase[t] = "Admission"
  /\ step[t] = "Job" => phase[t] \in {"Starting", "Pushing", "Closing"}
  /\ step[t] = "Permit" => phase[t] # "Admission"
  /\ InQueue(t) => acq[t] = "Held" /\ outcome[t] # "Consumed"
  /\ acq[t] \in {"None", "Register"} => outcome[t] # "Consumed"
  /\ step[t] = "Release" => acq[t] = "Held"
  /\ step[t] = "Unregister" => acq[t] = "Unregister"
  /\ step[t] = "Finish" => acq[t] = "Gone" /\ ~permit[t]
  /\ t \in tasks /\ phase[t] # "Admission" /\ step[t] # "Finish" => acq[t] = "Gone" /\ permit[t]
  /\ t \in tasks /\ phase[t] = "Panicked" => step[t] \in {"Permit", "Finish"}
  /\ t \in live => /\ phase[t] # "Admission"
                   /\ phase[t] = "Panicked" \/ (t \in tasks /\ step[t] \notin {"Permit", "Finish"})

\* What a poll that returned Pending has left behind.
Asleep(t) ==
  /\ phase[t] \in Interruptible => t \in subscribed /\ (t \in failed => t \in notifying)
  /\ phase[t] = "Admission" => ~awake[t]
  /\ phase[t] = "Streaming" => (t \in data => t \in notifying)
  /\ phase[t] \notin {"Admission", "Streaming"} => job[t] = "Watched"

\* Without its token, a request polled in this round waits with its wakers in
\* place, and one that is being polled has left the first of them.
PolledInv(t) ==
  ~unparked /\ ctl \in {"Round", "Task", "Parked"} /\ t \in tasks \ todo =>
    /\ step[t] = "Away" => Asleep(t)
    /\ step[t] \in {"Check", "Inner"} => t \in subscribed
    /\ step[t] = "Inner" => (t \in failed => t \in notifying)

Inv ==
  /\ TypeInv /\ GateInv /\ MailInv /\ LoopInv
  /\ \A t \in Requests : PlaceInv(t) /\ StageInv(t) /\ PolledInv(t)

-----------------------------------------------------------------------------
(* The driver and the queue.                                               *)

\* The instance of the queue in the driver is the one that is proved about.
LEMMA SameCardinality == \A S : Queue!Cardinality(S) = Admit!Cardinality(S)
BY DEF Queue!Cardinality, Admit!Cardinality, Queue!IsFiniteSet, Admit!IsFiniteSet

LEMMA QueueAssumption == Admit!AdmissionAssumption
BY DirectAssumption DEF Admit!AdmissionAssumption, Admit!IsFiniteSet, IsFiniteSet

LEMMA SameTurns == \A l, a : Queue!Turns(l, a) = Admit!Turns(l, a)
BY SameCardinality DEF Queue!Turns, Admit!Turns

LEMMA SameDispatched == \A a, q, o : Queue!Dispatched(a, q, o) = Admit!Dispatched(a, q, o)
BY SameCardinality, SameTurns DEF Queue!Dispatched, Admit!Dispatched

LEMMA SameSettle == \A s : Queue!Settle(s) <=> Admit!Settle(s)
BY DEF Queue!Settle, Admit!Settle

LEMMA SameRemove == \A w : Queue!Remove(w) <=> Admit!Remove(w)
BY SameDispatched, SameSettle DEF Queue!Remove, Admit!Remove, Queue!NotifyTimer, Admit!NotifyTimer

LEMMA SamePlaced == \A s, w : Queue!Placed(s, w) = Admit!Placed(s, w)
BY SameCardinality DEF Queue!Placed, Admit!Placed, Queue!Refused, Admit!Refused, Queue!Granted, Admit!Granted

\* Every operation of the queue in the driver is one of the queue.
LEMMA SameOperations ==
  /\ \A w \in Requests :
       /\ Queue!Acquire(w) => Admit!Acquire(w)
       /\ Queue!Register(w) => Admit!Register(w)
       /\ Queue!RegisterCancelled(w) => Admit!RegisterCancelled(w)
       /\ Queue!Poll(w) => Admit!Poll(w)
       /\ Queue!DropAcquire(w) => Admit!DropAcquire(w)
       /\ Queue!Unregister(w) => Admit!Unregister(w)
       /\ Queue!DropPermit(w) => Admit!DropPermit(w)
       /\ Queue!Cancel(w) => Admit!Cancel(w)
       /\ Queue!CancelListener(w) => Admit!CancelListener(w)
       /\ Queue!Deadline(w) => Admit!Deadline(w)
       /\ Queue!Wake(w) => Admit!Wake(w)
  /\ Queue!Unpark => Admit!Unpark
  /\ Queue!TimerRun => Admit!TimerRun
  /\ Queue!TimerWake => Admit!TimerWake
  /\ Queue!Close => Admit!Close
<1>1. ASSUME NEW w \in Requests, Queue!Acquire(w) PROVE Admit!Acquire(w)
  <2>1. \E s \in Admit!Dispatched(active, queue, outcome) : Admit!Settle(Admit!Placed(s, w))
    <3>1. PICK s \in Queue!Dispatched(active, queue, outcome) : Queue!Settle(Queue!Placed(s, w))
      BY <1>1 DEF Queue!Acquire
    <3>2. Admit!Settle(Admit!Placed(s, w))
      BY <3>1, SameSettle, SamePlaced
    <3> QED BY <3>1, <3>2, SameDispatched
  <2> QED BY <1>1, <2>1, SameCardinality
          DEF Queue!Acquire, Admit!Acquire, Queue!NotifyTimer, Admit!NotifyTimer, Queue!cancelVars,
              Admit!cancelVars, Queue!timerVars, Admit!timerVars
<1>2. ASSUME NEW w \in Requests, Queue!Register(w) PROVE Admit!Register(w)
  BY <1>2 DEF Queue!Register, Admit!Register, Queue!coreVars, Admit!coreVars, Queue!timerVars, Admit!timerVars
<1>3. ASSUME NEW w \in Requests, Queue!RegisterCancelled(w) PROVE Admit!RegisterCancelled(w)
  BY <1>3, SameRemove DEF Queue!RegisterCancelled, Admit!RegisterCancelled, Queue!cancelVars, Admit!cancelVars,
     Queue!timerVars, Admit!timerVars
<1>4. ASSUME NEW w \in Requests, Queue!Poll(w) PROVE Admit!Poll(w)
  BY <1>4 DEF Queue!Poll, Admit!Poll, Queue!cancelVars, Admit!cancelVars, Queue!timerVars, Admit!timerVars
<1>5. ASSUME NEW w \in Requests, Queue!DropAcquire(w) PROVE Admit!DropAcquire(w)
  BY <1>5, SameRemove DEF Queue!DropAcquire, Admit!DropAcquire, Queue!cancelVars, Admit!cancelVars,
     Queue!timerVars, Admit!timerVars
<1>6. ASSUME NEW w \in Requests, Queue!Unregister(w) PROVE Admit!Unregister(w)
  BY <1>6 DEF Queue!Unregister, Admit!Unregister, Queue!coreVars, Admit!coreVars, Queue!timerVars, Admit!timerVars
<1>7. ASSUME NEW w \in Requests, Queue!DropPermit(w) PROVE Admit!DropPermit(w)
  <2>1. PICK s \in Queue!Dispatched(active - 1, queue, outcome) : Queue!Settle(s)
    BY <1>7 DEF Queue!DropPermit
  <2>2. \E d \in Admit!Dispatched(active - 1, queue, outcome) : Admit!Settle(d)
    BY <2>1, SameDispatched, SameSettle
  <2> QED BY <1>7, <2>2 DEF Queue!DropPermit, Admit!DropPermit, Queue!NotifyTimer, Admit!NotifyTimer,
             Queue!cancelVars, Admit!cancelVars, Queue!timerVars, Admit!timerVars
<1>8. ASSUME NEW w \in Requests, Queue!Cancel(w) PROVE Admit!Cancel(w)
  BY <1>8 DEF Queue!Cancel, Admit!Cancel, Queue!coreVars, Admit!coreVars, Queue!ownerVars, Admit!ownerVars,
     Queue!timerVars, Admit!timerVars
<1>9. ASSUME NEW w \in Requests, Queue!CancelListener(w) PROVE Admit!CancelListener(w)
  BY <1>9, SameRemove DEF Queue!CancelListener, Admit!CancelListener, Queue!ownerVars, Admit!ownerVars,
     Queue!timerVars, Admit!timerVars
<1>10. ASSUME NEW w \in Requests, Queue!Deadline(w) PROVE Admit!Deadline(w)
  BY <1>10 DEF Queue!Deadline, Admit!Deadline
<1>11. ASSUME NEW w \in Requests, Queue!Wake(w) PROVE Admit!Wake(w)
  BY <1>11 DEF Queue!Wake, Admit!Wake, Queue!coreVars, Admit!coreVars, Queue!ownerVars, Admit!ownerVars,
     Queue!cancelVars, Admit!cancelVars, Queue!timerVars, Admit!timerVars
<1>12. Queue!Unpark => Admit!Unpark
  BY DEF Queue!Unpark, Admit!Unpark, Queue!coreVars, Admit!coreVars, Queue!ownerVars, Admit!ownerVars,
     Queue!cancelVars, Admit!cancelVars
<1>13. ASSUME Queue!TimerRun PROVE Admit!TimerRun
  <2>1. PICK s \in Queue!Dispatched(active, queue, outcome) : Queue!Settle(s)
    BY <1>13 DEF Queue!TimerRun
  <2>2. \E d \in Admit!Dispatched(active, queue, outcome) : Admit!Settle(d)
    BY <2>1, SameDispatched, SameSettle
  <2> QED BY <1>13, <2>2 DEF Queue!TimerRun, Admit!TimerRun, Queue!ownerVars, Admit!ownerVars,
             Queue!cancelVars, Admit!cancelVars
<1>14. Queue!TimerWake => Admit!TimerWake
  BY DEF Queue!TimerWake, Admit!TimerWake, Queue!coreVars, Admit!coreVars, Queue!ownerVars, Admit!ownerVars,
     Queue!cancelVars, Admit!cancelVars
<1>15. Queue!Close => Admit!Close
  <2> DEFINE revoked == {w \in grants : outcome[w] = "Granted"}
  <2> SUFFICES ASSUME Queue!Close PROVE Admit!Close
    OBVIOUS
  <2>1. Queue!Settle([ active  |-> active - Queue!Cardinality(revoked),
                       queue   |-> {},
                       grants  |-> {},
                       outcome |-> [w \in Requests |-> IF w \in queue \cup revoked
                                                       THEN "ShuttingDown" ELSE outcome[w]] ])
    BY DEF Queue!Close
  <2>2. Admit!Settle([ active  |-> active - Admit!Cardinality(revoked),
                       queue   |-> {},
                       grants  |-> {},
                       outcome |-> [w \in Requests |-> IF w \in queue \cup revoked
                                                       THEN "ShuttingDown" ELSE outcome[w]] ])
    BY <2>1, SameCardinality, SameSettle
  <2> QED BY <2>2 DEF Queue!Close, Admit!Close, Queue!NotifyTimer, Admit!NotifyTimer, Queue!ownerVars,
             Admit!ownerVars, Queue!cancelVars, Admit!cancelVars, Queue!timerVars, Admit!timerVars
<1> QED BY <1>1, <1>2, <1>3, <1>4, <1>5, <1>6, <1>7, <1>8, <1>9, <1>10, <1>11, <1>12, <1>13, <1>14, <1>15

LEMMA SameStep == [Queue!Next]_(Queue!vars) => [Admit!Next]_(Admit!vars)
<1>1. UNCHANGED Queue!vars => UNCHANGED Admit!vars
  BY DEF Queue!vars, Admit!vars, Queue!coreVars, Admit!coreVars, Queue!ownerVars, Admit!ownerVars,
     Queue!cancelVars, Admit!cancelVars, Queue!timerVars, Admit!timerVars
<1> QED BY <1>1, SameOperations DEF Queue!Next, Admit!Next

\* The driver takes only steps of the queue.
LEMMA QueueStep == [Next]_vars => [Queue!Next]_(Queue!vars)
<1> SUFFICES ASSUME [Next]_vars PROVE [Queue!Next]_(Queue!vars)
  OBVIOUS
<1>1. CASE UNCHANGED queueVars
  BY <1>1 DEF queueVars, Queue!vars, Queue!coreVars, Queue!ownerVars, Queue!cancelVars, Queue!timerVars
<1>2. CASE UNCHANGED vars
  BY <1>1, <1>2 DEF vars
<1>3. ASSUME NEW r \in Requests, Launch PROVE [Queue!Next]_(Queue!vars)
  BY <1>1, <1>3 DEF Launch, LaunchRefused, LaunchAcquire, LaunchSend, LaunchUnpark, Queue!Next
<1>4. CASE Launch \/ Wakeup
  BY <1>1, <1>4 DEF Launch, LaunchRefused, LaunchAcquire, LaunchSend, LaunchUnpark, Wakeup, Notify, Wake, Queue!Next
<1>5. CASE Completion \/ Sweep \/ Shutdown \/ Unparked
  BY <1>1, <1>5 DEF Completion, ReleaseDone, JobDone, WorkerGone, Sweep, Shutdown, CloseGate, CloseQueue, SendStop,
     StopUnpark, Unparked, Queue!Next
<1>6. ASSUME NEW t \in Requests, TaskStep(t) PROVE [Queue!Next]_(Queue!vars)
  BY <1>1, <1>6 DEF TaskStep, Subscribe, Check, Interrupt, Listener, PollAcquire, Release, Unregister, Stream,
     WatchJob, StartError, JobOk, JobError, CloseBackend, Panic, DropPermit, Finish, Queue!Next
<1>7. CASE Control
  BY <1>1, <1>6, <1>7 DEF Control, ReceiveMessage, EndDrain, EndRound, PollStop, PollTask
<1>8. ASSUME NEW r \in Requests, Start(r) \/ Fail(r) \/ Provide(r) PROVE [Queue!Next]_(Queue!vars)
  BY <1>1, <1>8 DEF Start, Fail, Provide
<1> QED BY <1>2, <1>4, <1>5, <1>7, <1>8 DEF Next

\* The driver implements the queue: what it does with active, queue, grants and
\* the permits is what Admission allows, with tasks that poll, cancel and drop
\* as those of direct.rs do.
THEOREM ImplementsQueue == Spec => Queue!Spec
<1>1. Init => Queue!Init
  BY DEF Init
<1> QED BY <1>1, QueueStep, PTL DEF Spec, Queue!Spec

\* What is proved of the queue holds in the driver.
QueueInv == Admit!AdmissionInv /\ Admit!OtherTypes /\ Admit!PromiseInv

LEMMA QueueHolds == Spec => []QueueInv
<1>1. Queue!Init => Admit!Init
  BY DEF Queue!Init, Admit!Init
<1>2. Queue!Spec => Admit!Spec
  BY <1>1, SameStep, PTL DEF Queue!Spec, Admit!Spec
<1>3. Admit!Spec => []Admit!AdmissionInv
  BY QueueAssumption, Admit!AdmissionInvariant
<1>4. Admit!Spec => []Admit!OtherTypes
  BY QueueAssumption, Admit!OtherTypesHold
<1>5. Admit!Spec => []Admit!PromiseInv
  BY QueueAssumption, Admit!PromisesHold
<1> QED BY <1>2, <1>3, <1>4, <1>5, ImplementsQueue, PTL DEF QueueInv


-----------------------------------------------------------------------------
(* What a step of a task touches.                                          *)

Steps == {"Away", "Subscribe", "Check", "Interrupt", "Listener", "Inner",
          "Release", "Unregister", "Job", "Permit", "Finish"}

\* A poll goes from one step of its task to another, or ends.
LEMMA TaskMoves ==
  ASSUME TypeInv, NEW t \in Requests, TaskStep(t)
  PROVE  /\ step[t] # "Away"
         /\ \E s \in Steps : /\ step' = [step EXCEPT ![t] = s]
                             /\ s # "Away" => ctl' = ctl
                             /\ s = "Away" => ctl' = "Round"
         /\ tasks' = tasks \/ (tasks' = tasks \ {t} /\ step'[t] = "Away" /\ ctl' = "Round")
         /\ UNCHANGED << start, owner, gateClosed, closed, inbox, stopping, todo, release >>
<1> USE DEF Goes, Returns, Awaits, Closes, Steps
<1>t. step \in [Requests -> Steps]
  BY DEF TypeInv
<1>1. CASE Subscribe(t) \/ Check(t) \/ Interrupt(t) \/ Listener(t)
  BY <1>1, <1>t DEF Subscribe, Check, Interrupt, Listener, clientVars, queueVars, Queue!Cancel, Queue!CancelListener,
     Queue!coreVars, Interruptible
<1>2. CASE PollAcquire(t) \/ Release(t) \/ Unregister(t) \/ DropPermit(t)
  BY <1>2, <1>t DEF PollAcquire, Release, Unregister, DropPermit, clientVars, Queue!Poll, Queue!DropAcquire,
     Queue!Unregister, Queue!DropPermit, Queue!coreVars, Interruptible
<1>3. CASE Stream(t)
  BY <1>3, <1>t DEF Stream, queueVars, Interruptible
<1>4. CASE WatchJob(t) \/ StartError(t) \/ JobOk(t) \/ JobError(t) \/ CloseBackend(t)
  BY <1>4, <1>t DEF WatchJob, StartError, JobOk, JobError, CloseBackend, AtJob, clientVars, queueVars, Interruptible
<1>5. CASE Panic(t) \/ Finish(t)
  BY <1>5, <1>t DEF Panic, Finish, clientVars, queueVars
<1> QED BY <1>1, <1>2, <1>3, <1>4, <1>5 DEF TaskStep

-----------------------------------------------------------------------------
(* The types.                                                              *)

Phases == {"Admission", "Starting", "Streaming", "Pushing", "Framing", "Closing", "Panicked"}
Jobs   == {"None", "Running", "Watched", "Done"}

TaskTypes ==
  /\ failed \subseteq Requests /\ data \subseteq Requests /\ acked \subseteq Requests
  /\ subscribed \subseteq Requests /\ notifying \subseteq Requests
  /\ phase \in [Requests -> Phases] /\ job \in [Requests -> Jobs]
  /\ live \subseteq Requests /\ unparked \in BOOLEAN

LEMMA TaskStepTypes ==
  ASSUME TypeInv, NEW t \in Requests, TaskStep(t)
  PROVE  TypeInv'
<1> USE DEF Goes, Returns, Awaits, Closes, TaskTypes, Phases, Jobs
<1>t. TaskTypes /\ step \in [Requests -> Steps] /\ ctl \in {"Drain", "Round", "Task", "Stop", "Parked", "Ended"}
  BY DEF TypeInv, Steps
<1>1. CASE Subscribe(t) \/ Check(t) \/ Interrupt(t) \/ Listener(t)
  <2> TaskTypes'
    BY <1>1, <1>t DEF Subscribe, Check, Interrupt, Listener, clientVars, notifyVars
  <2> QED BY TaskMoves, <1>t DEF TypeInv, Steps
<1>2. CASE PollAcquire(t) \/ Release(t) \/ Unregister(t) \/ DropPermit(t)
  <2> TaskTypes'
    BY <1>2, <1>t DEF PollAcquire, Release, Unregister, DropPermit, clientVars, notifyVars
  <2> QED BY TaskMoves, <1>t DEF TypeInv, Steps
<1>3. CASE Stream(t)
  <2> TaskTypes'
    BY <1>3, <1>t DEF Stream
  <2> QED BY TaskMoves, <1>t DEF TypeInv, Steps
<1>4. CASE WatchJob(t) \/ StartError(t) \/ JobOk(t) \/ JobError(t) \/ CloseBackend(t)
  <2> TaskTypes'
    BY <1>4, <1>t DEF WatchJob, StartError, JobOk, JobError, CloseBackend, AtJob, clientVars, notifyVars
  <2> QED BY TaskMoves, <1>t DEF TypeInv, Steps
<1>5. CASE Panic(t) \/ Finish(t)
  <2> TaskTypes'
    BY <1>5, <1>t DEF Panic, Finish, clientVars, notifyVars
  <2> QED BY TaskMoves, <1>t DEF TypeInv, Steps
<1> QED BY <1>1, <1>2, <1>3, <1>4, <1>5 DEF TaskStep

LEMMA TypeStep == TypeInv /\ [Next]_vars => TypeInv'
<1> SUFFICES ASSUME TypeInv, [Next]_vars PROVE TypeInv'
  OBVIOUS
<1> USE DEF TypeInv, clientVars, notifyVars, loopVars, taskVars
<1>1. ASSUME NEW r \in Requests, Start(r) \/ Fail(r) \/ Provide(r) PROVE TypeInv'
  BY <1>1 DEF Start, Fail, Provide, Registered
<1>2. ASSUME NEW r \in Requests, LaunchRefused(r) \/ LaunchAcquire(r) \/ LaunchUnpark(r) PROVE TypeInv'
  <2>1. CASE LaunchRefused(r)
    BY <2>1 DEF LaunchRefused
  <2>2. CASE LaunchAcquire(r)
    BY <2>2 DEF LaunchAcquire
  <2>3. CASE LaunchUnpark(r)
    BY <2>3 DEF LaunchUnpark
  <2> QED BY <1>2, <2>1, <2>2, <2>3
<1>3. ASSUME NEW r \in Requests, LaunchSend(r) PROVE TypeInv'
  BY <1>3 DEF LaunchSend
<1>4. ASSUME NEW r \in Requests, Notify(r) \/ Wake(r) PROVE TypeInv'
  BY <1>4 DEF Notify, Wake
<1>5. CASE ReleaseDone
  BY <1>5 DEF ReleaseDone
<1>6. ASSUME NEW r \in Requests, JobDone(r) \/ WorkerGone(r) PROVE TypeInv'
  <2>1. CASE JobDone(r)
    BY <2>1 DEF JobDone
  <2>2. CASE WorkerGone(r)
    BY <2>2 DEF WorkerGone
  <2> QED BY <1>6, <2>1, <2>2
<1>7. CASE Sweep \/ CloseGate \/ CloseQueue \/ StopUnpark
  BY <1>7 DEF Sweep, CloseGate, CloseQueue, StopUnpark
<1>8. CASE SendStop
  BY <1>8 DEF SendStop
<1>9. CASE ReceiveMessage
  <2>1. inbox # << >> /\ inbox' = Tail(inbox) /\ inbox' \in Seq(Requests \cup {"Stop"})
        /\ Head(inbox) \in Requests \cup {"Stop"}
    BY <1>9 DEF ReceiveMessage
  <2> QED BY <1>9, <2>1 DEF ReceiveMessage
<1>10. CASE EndDrain \/ EndRound \/ PollStop \/ Unparked
  BY <1>10 DEF EndDrain, EndRound, PollStop, Unparked
<1>11. ASSUME NEW t \in Requests, PollTask(t) PROVE TypeInv'
  BY <1>11 DEF PollTask
<1>12. ASSUME NEW t \in Requests, TaskStep(t) PROVE TypeInv'
  BY <1>12, TaskStepTypes
<1>13. CASE UNCHANGED vars
  BY <1>13 DEF vars
<1> QED BY <1>1, <1>2, <1>3, <1>4, <1>5, <1>6, <1>7, <1>8, <1>9, <1>10, <1>11, <1>12, <1>13
        DEF Next, Launch, Wakeup, Completion, Shutdown, Control

-----------------------------------------------------------------------------
(* The messages.                                                           *)

\* A message sent that is not in the channel comes last.
LEMMA MailSent ==
  ASSUME NEW S, NEW s \in Seq(S), NEW x \in S, Distinct(s), x \notin ToSet(s)
  PROVE  Distinct(Append(s, x)) /\ ToSet(Append(s, x)) = ToSet(s) \cup {x}
<1> DEFINE a == Append(s, x)
<1>1. Len(a) = Len(s) + 1 /\ a[Len(s) + 1] = x /\ \A i \in 1 .. Len(s) : a[i] = s[i]
  OBVIOUS
<1>2. ToSet(s) = {s[i] : i \in 1 .. Len(s)} /\ ToSet(a) = {a[i] : i \in 1 .. Len(s) + 1}
  <2>1. DOMAIN s = 1 .. Len(s) /\ DOMAIN a = 1 .. Len(s) + 1
    OBVIOUS
  <2> QED BY <2>1 DEF ToSet
<1>3. \A i \in 1 .. Len(s) : s[i] # x
  BY <1>2
<1> HIDE DEF a
<1>4. Distinct(a)
  BY <1>1, <1>3 DEF Distinct
<1>5. ToSet(a) = ToSet(s) \cup {x}
  <2>1. ToSet(a) \subseteq ToSet(s) \cup {x}
    BY <1>1, <1>2
  <2>2. ToSet(s) \subseteq ToSet(a)
    BY <1>1, <1>2
  <2>3. x \in ToSet(a)
    BY <1>1, <1>2
  <2> QED BY <2>1, <2>2, <2>3
<1> QED BY <1>4, <1>5 DEF a

\* A message received is not in the channel any more.
LEMMA MailReceived ==
  ASSUME NEW S, NEW s \in Seq(S), Distinct(s), s # << >>
  PROVE  /\ Distinct(Tail(s)) /\ ToSet(Tail(s)) = ToSet(s) \ {Head(s)}
         /\ Head(s) \in ToSet(s) /\ Head(s) = s[1]
<1>1. Len(s) > 0 /\ Head(s) = s[1] /\ Len(Tail(s)) = Len(s) - 1
  OBVIOUS
<1>2. \A i \in 1 .. Len(s) - 1 : Tail(s)[i] = s[i + 1]
  OBVIOUS
<1>3. \A i \in 2 .. Len(s) : s[i] # s[1] /\ s[i] = Tail(s)[i - 1]
  BY <1>1, <1>2 DEF Distinct
<1>4. Distinct(Tail(s))
  BY <1>1, <1>2 DEF Distinct
<1>5. ToSet(s) = {s[i] : i \in 1 .. Len(s)} /\ ToSet(Tail(s)) = {Tail(s)[i] : i \in 1 .. Len(s) - 1}
  <2>1. DOMAIN s = 1 .. Len(s)
    OBVIOUS
  <2>2. Tail(s) \in Seq(S)
    BY <1>1
  <2>3. DOMAIN Tail(s) = 1 .. Len(s) - 1
    BY <1>1, <2>2
  <2> QED BY <2>1, <2>3 DEF ToSet
<1>6. ToSet(Tail(s)) \subseteq ToSet(s) \ {Head(s)}
  BY <1>1, <1>2, <1>5 DEF Distinct
<1>7. ToSet(s) \ {Head(s)} \subseteq ToSet(Tail(s))
  <2> SUFFICES ASSUME NEW i \in 1 .. Len(s), s[i] # Head(s) PROVE s[i] \in ToSet(Tail(s))
    BY <1>5
  <2>1. i \in 2 .. Len(s) /\ i - 1 \in 1 .. Len(s) - 1
    BY <1>1
  <2> QED BY <1>3, <1>5, <2>1
<1>8. Head(s) \in ToSet(s)
  BY <1>1, <1>5
<1> QED BY <1>1, <1>4, <1>6, <1>7, <1>8

LEMMA GateStep == TypeInv /\ GateInv /\ [Next]_vars => GateInv'
<1> SUFFICES ASSUME TypeInv, GateInv, [Next]_vars PROVE GateInv'
  OBVIOUS
<1> USE DEF GateInv, TypeInv, clientVars, queueVars, Queue!coreVars
<1>1. ASSUME NEW r \in Requests, Start(r) \/ Fail(r) \/ Provide(r) PROVE GateInv'
  BY <1>1 DEF Start, Fail, Provide
<1>2. ASSUME NEW r \in Requests, LaunchRefused(r) \/ LaunchAcquire(r) \/ LaunchSend(r) \/ LaunchUnpark(r)
      PROVE  GateInv'
  BY <1>2 DEF LaunchRefused, LaunchAcquire, LaunchSend, LaunchUnpark, Queue!Acquire, Queue!Register
<1>3. ASSUME NEW r \in Requests, Notify(r) \/ Wake(r) \/ JobDone(r) \/ WorkerGone(r) PROVE GateInv'
  BY <1>3 DEF Notify, Wake, JobDone, WorkerGone, Queue!Wake
<1>4. CASE ReleaseDone \/ ReceiveMessage \/ EndDrain \/ EndRound \/ PollStop \/ Unparked
  BY <1>4 DEF ReleaseDone, ReceiveMessage, EndDrain, EndRound, PollStop, Unparked
<1>5. CASE Sweep \/ CloseGate \/ CloseQueue \/ SendStop \/ StopUnpark
  BY <1>5 DEF Sweep, CloseGate, CloseQueue, SendStop, StopUnpark, GateHeld, Queue!Close
<1>6. ASSUME NEW t \in Requests, PollTask(t) PROVE GateInv'
  BY <1>6 DEF PollTask
<1>7. ASSUME NEW t \in Requests, TaskStep(t) PROVE GateInv'
  BY <1>7, TaskMoves
<1>8. CASE UNCHANGED vars
  BY <1>8 DEF vars
<1> QED BY <1>1, <1>2, <1>3, <1>4, <1>5, <1>6, <1>7, <1>8
        DEF Next, Launch, Wakeup, Completion, Shutdown, Control

\* A task does not run without its token having been kept or its message read.
LEMMA MailStep ==
  TypeInv /\ GateInv /\ MailInv /\ (\A r \in Requests : PlaceInv(r)) /\ LoopInv /\ [Next]_vars => MailInv'
<1> SUFFICES ASSUME TypeInv, GateInv, MailInv, \A r \in Requests : PlaceInv(r), LoopInv, [Next]_vars PROVE MailInv'
  OBVIOUS
<1> USE DEF TypeInv, clientVars
<1>1. ASSUME NEW r \in Requests, Start(r) \/ Fail(r) \/ Provide(r) PROVE MailInv'
  BY <1>1 DEF Start, Fail, Provide, MailInv, loopVars, GateInv
<1>2. ASSUME NEW r \in Requests, LaunchRefused(r) \/ LaunchAcquire(r) \/ LaunchUnpark(r) PROVE MailInv'
  BY <1>2 DEF LaunchRefused, LaunchAcquire, LaunchUnpark, MailInv, loopVars, GateInv
<1>3. ASSUME NEW r \in Requests, LaunchSend(r) PROVE MailInv'
  <2>1. start[r] = "Send" /\ inbox' = Append(inbox, r) /\ start' = [start EXCEPT ![r] = "Unpark"]
        /\ UNCHANGED << owner, stopping, ctl, unparked >>
    BY <1>3 DEF LaunchSend
  <2>2. owner \in {"Idle", "Sweep"} /\ ~stopping /\ r \notin ToSet(inbox)
    BY <2>1 DEF GateInv, MailInv, PlaceInv
  <2>3. Distinct(inbox')
    BY <2>1, <2>2, MailSent DEF MailInv
  <2>4. \A i \in 1 .. Len(inbox') : inbox'[i] # "Stop"
    BY <2>1, <2>2, DirectAssumption DEF MailInv
  <2> QED BY <2>1, <2>2, <2>3, <2>4 DEF MailInv
<1>4. ASSUME NEW r \in Requests, Notify(r) \/ Wake(r) \/ JobDone(r) \/ WorkerGone(r) PROVE MailInv'
  BY <1>4 DEF Notify, Wake, JobDone, WorkerGone, MailInv, loopVars
<1>5. CASE ReleaseDone \/ EndDrain \/ EndRound \/ PollStop \/ Unparked
  BY <1>5 DEF ReleaseDone, EndDrain, EndRound, PollStop, Unparked, MailInv
<1>6. CASE Sweep \/ CloseGate \/ CloseQueue \/ StopUnpark
  BY <1>6 DEF Sweep, CloseGate, CloseQueue, StopUnpark, MailInv, loopVars
<1>7. CASE SendStop
  <2>1. owner = "Stop" /\ owner' = "Unpark" /\ inbox' = Append(inbox, "Stop") /\ UNCHANGED << stopping, ctl, unparked >>
    BY <1>7 DEF SendStop
  <2>2. ~stopping /\ \A i \in 1 .. Len(inbox) : inbox[i] # "Stop"
    BY <2>1 DEF MailInv
  <2>3. "Stop" \notin ToSet(inbox)
    BY <2>2 DEF ToSet
  <2>4. Distinct(inbox')
    BY <2>1, <2>3, MailSent DEF MailInv
  <2>5. \A i \in 1 .. Len(inbox') : inbox'[i] = "Stop" => i = Len(inbox')
    BY <2>1, <2>2
  <2> QED BY <2>1, <2>2, <2>4, <2>5 DEF MailInv
<1>8. CASE ReceiveMessage
  <2>1. ctl = "Drain" /\ inbox # << >> /\ inbox' = Tail(inbox) /\ UNCHANGED << ctl, unparked, owner, start >>
        /\ (stopping' => stopping \/ Head(inbox) = "Stop")
    BY <1>8 DEF ReceiveMessage
  <2>2. Len(inbox) > 0 /\ Head(inbox) = inbox[1] /\ Len(inbox') = Len(inbox) - 1
        /\ \A i \in 1 .. Len(inbox) - 1 : inbox'[i] = inbox[i + 1]
    BY <2>1
  <2>3. Distinct(inbox')
    BY <2>1, MailReceived DEF MailInv
  <2>4. \A i \in 1 .. Len(inbox') : inbox'[i] = "Stop" => i = Len(inbox') /\ owner \in {"Unpark", "Done"}
    BY <2>2 DEF MailInv
  <2>5. stopping' => inbox' = << >> /\ owner \in {"Unpark", "Done"}
    <3>1. ~stopping
      BY <2>1 DEF MailInv
    <3>2. Head(inbox) = "Stop" => 1 = Len(inbox) /\ owner \in {"Unpark", "Done"}
      BY <2>2 DEF MailInv
    <3> QED BY <2>1, <2>2, <3>1, <3>2
  <2> QED BY <2>1, <2>3, <2>4, <2>5 DEF MailInv
<1>9. ASSUME NEW t \in Requests, PollTask(t) PROVE MailInv'
  BY <1>9 DEF PollTask, MailInv
<1>10. ASSUME NEW t \in Requests, TaskStep(t) PROVE MailInv'
  <2>1. ctl \notin {"Drain"} /\ ctl' \notin {"Drain"}
    BY <1>10, TaskMoves DEF LoopInv
  <2>2. ~unparked' => ~unparked
    BY <1>10 DEF TaskStep, Subscribe, Check, Interrupt, Listener, PollAcquire, Release, Unregister, Stream, WatchJob,
       StartError, JobOk, JobError, CloseBackend, Panic, DropPermit, Finish
  <2> QED BY <1>10, <2>1, <2>2, TaskMoves DEF MailInv
<1>11. CASE UNCHANGED vars
  BY <1>11 DEF vars, MailInv, loopVars
<1> QED BY <1>1, <1>2, <1>3, <1>4, <1>5, <1>6, <1>7, <1>8, <1>9, <1>10, <1>11
        DEF Next, Launch, Wakeup, Completion, Shutdown, Control

\* The tasks are polled one at a time.
LEMMA LoopStep == TypeInv /\ MailInv /\ LoopInv /\ [Next]_vars => LoopInv'
<1> SUFFICES ASSUME TypeInv, MailInv, LoopInv, [Next]_vars PROVE LoopInv'
  OBVIOUS
<1> USE DEF TypeInv, LoopInv
<1>0. ASSUME UNCHANGED << loopVars, step, release >> PROVE LoopInv'
  BY <1>0 DEF loopVars
<1>1. ASSUME NEW r \in Requests, Start(r) \/ Fail(r) \/ Provide(r) PROVE LoopInv'
  BY <1>0, <1>1 DEF Start, Fail, Provide, taskVars
<1>2. ASSUME NEW r \in Requests, LaunchRefused(r) \/ LaunchAcquire(r) \/ LaunchSend(r) \/ LaunchUnpark(r)
      PROVE  LoopInv'
  BY <1>2 DEF LaunchRefused, LaunchAcquire, LaunchSend, LaunchUnpark, loopVars, taskVars
<1>3. ASSUME NEW r \in Requests, Notify(r) \/ Wake(r) \/ JobDone(r) \/ WorkerGone(r) PROVE LoopInv'
  BY <1>3 DEF Notify, Wake, JobDone, WorkerGone, loopVars, taskVars
<1>4. CASE ReleaseDone
  BY <1>4 DEF ReleaseDone
<1>5. CASE Sweep \/ CloseGate \/ CloseQueue \/ SendStop \/ StopUnpark
  BY <1>5 DEF Sweep, CloseGate, CloseQueue, SendStop, StopUnpark, loopVars, taskVars
<1>6. CASE ReceiveMessage
  BY <1>6 DEF ReceiveMessage, taskVars, MailInv
<1>7. CASE EndDrain \/ EndRound \/ Unparked
  BY <1>7 DEF EndDrain, EndRound, Unparked, taskVars
<1>8. CASE PollStop
  BY <1>8 DEF PollStop
<1>9. ASSUME NEW t \in Requests, PollTask(t) PROVE LoopInv'
  BY <1>9 DEF PollTask, Interruptible
<1>10. ASSUME NEW t \in Requests, TaskStep(t) PROVE LoopInv'
  <2>1. step[t] # "Away" /\ ctl = "Task" /\ t \in tasks \ todo /\ release = "None" /\ release' = release
        /\ UNCHANGED << stopping, todo >>
    BY <1>10, TaskMoves
  <2>2. \A u \in Requests : u # t => step[u] = "Away"
    BY <2>1
  <2>3. PICK s \in Steps : step' = [step EXCEPT ![t] = s] /\ (s # "Away" => ctl' = ctl) /\ (s = "Away" => ctl' = "Round")
    BY <1>10, TaskMoves
  <2>4. \A u \in Requests : step'[u] = IF u = t THEN s ELSE "Away"
    BY <2>2, <2>3
  <2>5. (ctl' = "Task" <=> s # "Away") /\ ctl' \in {"Task", "Round"}
    BY <2>1, <2>3
  <2>6. tasks' = tasks \/ (tasks' = tasks \ {t} /\ s = "Away")
    BY <1>10, <2>4, TaskMoves
  <2> QED BY <2>1, <2>4, <2>5, <2>6
<1>11. CASE UNCHANGED vars
  BY <1>11 DEF vars, loopVars, taskVars
<1> QED BY <1>1, <1>2, <1>3, <1>4, <1>5, <1>6, <1>7, <1>8, <1>9, <1>10, <1>11
        DEF Next, Launch, Wakeup, Completion, Shutdown, Control

-----------------------------------------------------------------------------
(* What is shared with the queue.                                          *)

\* The types of the queue that the driver looks at.
LEMMA QueueShape ==
  ASSUME QueueInv
  PROVE  /\ acq \in [Requests -> {"None", "Register", "RunListener", "Held", "Unregister", "Gone"}]
         /\ permit \in [Requests -> BOOLEAN] /\ awake \in [Requests -> BOOLEAN]
         /\ cancelled \in [Requests -> BOOLEAN]
         /\ DOMAIN outcome = Requests
BY DEF QueueInv, Admit!AdmissionInv, Admit!OwnerInv, Admit!QueueInv, Admit!OtherTypes

\* Only its task consumes the outcome of a request.
LEMMA OutcomeKept ==
  ASSUME QueueInv, [Next]_vars, NEW v \in Requests, ~PollAcquire(v), outcome'[v] = "Consumed"
  PROVE  outcome[v] = "Consumed"
<1>q. Admit!AdmissionInv
  BY DEF QueueInv
<1>a. ASSUME Queue!Close \/ \E w \in Requests : Queue!Acquire(w) \/ Queue!DropAcquire(w) \/ Queue!DropPermit(w)
                                                \/ Queue!CancelListener(w)
      PROVE  outcome[v] = "Consumed"
  <2>1. Admit!Close \/ \E w \in Requests : Admit!Acquire(w) \/ Admit!DropAcquire(w) \/ Admit!DropPermit(w)
                                           \/ Admit!CancelListener(w)
    BY <1>a, SameOperations
  <2> QED BY <1>q, <2>1, QueueAssumption, Admit!OnlyPollConsumes
<1>b. ASSUME NEW w \in Requests, w # v, Queue!Poll(w) PROVE outcome[v] = "Consumed"
  <2>1. Admit!Poll(w)
    BY <1>b, SameOperations
  <2> QED BY <1>b, <1>q, <2>1, QueueAssumption, Admit!OnlyPollConsumes
<1>c. ASSUME UNCHANGED outcome PROVE outcome[v] = "Consumed"
  BY <1>c
<1>1. ASSUME NEW r \in Requests, Start(r) \/ Fail(r) \/ Provide(r) PROVE UNCHANGED outcome
  BY <1>1 DEF Start, Fail, Provide, queueVars
<1>2. ASSUME NEW r \in Requests, LaunchRefused(r) \/ LaunchSend(r) \/ LaunchUnpark(r) PROVE UNCHANGED outcome
  BY <1>2 DEF LaunchRefused, LaunchSend, LaunchUnpark, queueVars, Queue!Register, Queue!coreVars
<1>3. ASSUME NEW r \in Requests, LaunchAcquire(r) PROVE Queue!Acquire(r)
  BY <1>3 DEF LaunchAcquire
<1>4. ASSUME NEW r \in Requests, Notify(r) \/ Wake(r) \/ JobDone(r) \/ WorkerGone(r) PROVE UNCHANGED outcome
  BY <1>4 DEF Notify, Wake, JobDone, WorkerGone, queueVars, Queue!Wake, Queue!coreVars
<1>5. CASE ReleaseDone \/ ReceiveMessage \/ EndDrain \/ EndRound \/ PollStop \/ Unparked
  BY <1>5 DEF ReleaseDone, ReceiveMessage, EndDrain, EndRound, PollStop, Unparked, queueVars
<1>6. CASE Sweep \/ CloseGate \/ CloseQueue \/ SendStop \/ StopUnpark
  BY <1>6, <1>a DEF Sweep, CloseGate, CloseQueue, SendStop, StopUnpark, queueVars
<1>7. ASSUME NEW t \in Requests, PollTask(t) PROVE UNCHANGED outcome
  BY <1>7 DEF PollTask, queueVars
<1>8. ASSUME NEW t \in Requests, Subscribe(t) \/ Check(t) \/ Interrupt(t) \/ Unregister(t) PROVE UNCHANGED outcome
  BY <1>8 DEF Subscribe, Check, Interrupt, Unregister, queueVars, Queue!Cancel, Queue!Unregister, Queue!coreVars
<1>9. ASSUME NEW t \in Requests, Listener(t) \/ Release(t) \/ DropPermit(t) PROVE outcome[v] = "Consumed"
  BY <1>9, <1>a DEF Listener, Release, DropPermit
<1>10. ASSUME NEW t \in Requests, PollAcquire(t) PROVE outcome[v] = "Consumed"
  BY <1>10, <1>b DEF PollAcquire
<1>11. ASSUME NEW t \in Requests, Stream(t) \/ WatchJob(t) \/ StartError(t) \/ JobOk(t) \/ JobError(t)
              \/ CloseBackend(t) \/ Panic(t) \/ Finish(t)
       PROVE  UNCHANGED outcome
  BY <1>11 DEF Stream, WatchJob, StartError, JobOk, JobError, CloseBackend, Panic, Finish, queueVars
<1>12. CASE UNCHANGED vars
  BY <1>12 DEF vars, queueVars
<1> QED BY <1>a, <1>c, <1>1, <1>2, <1>3, <1>4, <1>5, <1>6, <1>7, <1>8, <1>9, <1>10, <1>11, <1>12
        DEF Next, Launch, Wakeup, Completion, Shutdown, Control, TaskStep

\* Everything the invariants say of a request but its outcome.
SameFor(v) ==
  /\ acq'[v] = acq[v] /\ (permit'[v] <=> permit[v]) /\ (awake'[v] <=> awake[v]) /\ (cancelled'[v] <=> cancelled[v])
  /\ step'[v] = step[v] /\ phase'[v] = phase[v] /\ job'[v] = job[v]
  /\ v \in live' <=> v \in live
  /\ v \in subscribed' <=> v \in subscribed
  /\ v \in notifying' <=> v \in notifying
  /\ v \in failed' <=> v \in failed
  /\ v \in data' <=> v \in data
  /\ v \in acked' <=> v \in acked
  /\ v \in tasks' <=> v \in tasks
  /\ UNCHANGED << start, inbox, todo >>

\* The poll of a task leaves the other requests alone.
LEMMA OthersKeep ==
  ASSUME TypeInv, QueueInv, NEW t \in Requests, TaskStep(t), NEW v \in Requests, v # t
  PROVE  SameFor(v)
<1> USE DEF SameFor, Goes, Returns, Awaits, Closes, clientVars, notifyVars
<1>q. /\ acq \in [Requests -> {"None", "Register", "RunListener", "Held", "Unregister", "Gone"}]
      /\ permit \in [Requests -> BOOLEAN] /\ awake \in [Requests -> BOOLEAN]
      /\ cancelled \in [Requests -> BOOLEAN]
  BY QueueShape
<1>t. /\ step \in [Requests -> Steps] /\ phase \in [Requests -> Phases] /\ job \in [Requests -> Jobs]
  BY DEF TypeInv, Steps, Phases, Jobs
<1>0. UNCHANGED << start, inbox, todo >>
  BY TaskMoves
<1>1. CASE Subscribe(t) \/ Check(t) \/ Interrupt(t)
  BY <1>1, <1>q, <1>t DEF Subscribe, Check, Interrupt, queueVars, Queue!Cancel, Queue!ownerVars
<1>2. CASE PollAcquire(t) \/ Listener(t)
  BY <1>2, <1>q, <1>t DEF PollAcquire, Listener, Queue!Poll, Queue!CancelListener, Queue!ownerVars, Queue!cancelVars
<1>3. CASE Release(t) \/ DropPermit(t)
  BY <1>3, <1>q, <1>t DEF Release, DropPermit, Queue!DropAcquire, Queue!DropPermit, Queue!cancelVars
<1>4. CASE Unregister(t)
  BY <1>4, <1>q, <1>t DEF Unregister, Queue!Unregister
<1>5. CASE Stream(t)
  BY <1>5, <1>q, <1>t DEF Stream, queueVars
<1>6. CASE WatchJob(t) \/ StartError(t) \/ CloseBackend(t)
  BY <1>6, <1>q, <1>t DEF WatchJob, StartError, CloseBackend, AtJob, queueVars
<1>7. CASE JobOk(t) \/ JobError(t)
  BY <1>7, <1>q, <1>t DEF JobOk, JobError, AtJob, queueVars
<1>8. CASE Panic(t)
  BY <1>8, <1>q, <1>t DEF Panic, queueVars
<1>9. CASE Finish(t)
  BY <1>9, <1>q, <1>t DEF Finish, queueVars
<1> QED BY <1>1, <1>2, <1>3, <1>4, <1>5, <1>6, <1>7, <1>8, <1>9 DEF TaskStep

-----------------------------------------------------------------------------
(* Where a request is, and what its task holds.                            *)

LEMMA PlaceStep ==
  ASSUME TypeInv, QueueInv, MailInv, LoopInv, [Next]_vars,
         \A r \in Requests : PlaceInv(r) /\ StageInv(r), NEW v \in Requests
  PROVE  PlaceInv(v)'
<1>q. /\ acq \in [Requests -> {"None", "Register", "RunListener", "Held", "Unregister", "Gone"}]
      /\ permit \in [Requests -> BOOLEAN] /\ cancelled \in [Requests -> BOOLEAN]
  BY QueueShape
<1>i. inbox \in Seq(Requests \cup {"Stop"}) /\ Distinct(inbox)
  BY DEF TypeInv, MailInv
<1>k. ASSUME UNCHANGED << start, inbox, tasks, acked, phase, acq, permit, cancelled >> PROVE PlaceInv(v)'
  BY <1>k DEF PlaceInv
<1> USE DEF PlaceInv
<1>1. ASSUME NEW r \in Requests, Start(r) \/ Fail(r) \/ Provide(r) PROVE PlaceInv(v)'
  <2>1. UNCHANGED << inbox, tasks, acked, phase, acq, permit, cancelled >>
        /\ (start' = start \/ (start[r] = "Idle" /\ start' = [start EXCEPT ![r] = "Gate"]))
    BY <1>1 DEF Start, Fail, Provide, queueVars, loopVars, taskVars
  <2> QED BY <2>1 DEF TypeInv
<1>2. ASSUME NEW r \in Requests, LaunchRefused(r) PROVE PlaceInv(v)'
  <2>1. UNCHANGED << inbox, tasks, phase, acq, permit, cancelled >> /\ acked' = acked \cup {r}
        /\ start[r] = "Gate" /\ start' = [start EXCEPT ![r] = "Refused"]
    BY <1>2 DEF LaunchRefused, queueVars, loopVars, taskVars
  <2> QED BY <2>1 DEF TypeInv
<1>3. ASSUME NEW r \in Requests, LaunchAcquire(r) PROVE PlaceInv(v)'
  <2>1. UNCHANGED << inbox, tasks, phase, permit, cancelled, acked >> /\ acq' = [acq EXCEPT ![r] = "Register"]
        /\ start[r] = "Gate" /\ start' = [start EXCEPT ![r] = "Send"]
    BY <1>3 DEF LaunchAcquire, Queue!Acquire, Queue!cancelVars, loopVars, taskVars
  <2> QED BY <1>q, <2>1 DEF TypeInv
<1>4. ASSUME NEW r \in Requests, LaunchSend(r) PROVE PlaceInv(v)'
  <2>1. UNCHANGED << tasks, phase, permit, cancelled, acked >> /\ inbox' = Append(inbox, r)
        /\ start[r] = "Send" /\ start' = [start EXCEPT ![r] = "Unpark"]
        /\ (acq' = [acq EXCEPT ![r] = "Held"] \/ (cancelled[r] /\ acq' = [acq EXCEPT ![r] = "RunListener"]))
    BY <1>4 DEF LaunchSend, Queue!Register, taskVars
  <2>2. r \notin ToSet(inbox) /\ r \notin tasks \cup acked /\ phase[r] = "Admission" /\ ~cancelled[r]
    BY <2>1
  <2>3. ToSet(inbox') = ToSet(inbox) \cup {r}
    BY <1>i, <2>1, <2>2, MailSent
  <2> QED BY <1>q, <2>1, <2>2, <2>3 DEF TypeInv
<1>5. ASSUME NEW r \in Requests, LaunchUnpark(r) PROVE PlaceInv(v)'
  <2>1. UNCHANGED << inbox, tasks, phase, acq, permit, cancelled, acked >>
        /\ start[r] = "Unpark" /\ start' = [start EXCEPT ![r] = "Launched"]
    BY <1>5 DEF LaunchUnpark, queueVars, taskVars
  <2> QED BY <2>1 DEF TypeInv
<1>6. ASSUME NEW r \in Requests, Notify(r) \/ Wake(r) \/ JobDone(r) \/ WorkerGone(r) PROVE PlaceInv(v)'
  BY <1>6, <1>k DEF Notify, Wake, JobDone, WorkerGone, queueVars, clientVars, loopVars, taskVars, Queue!Wake,
     Queue!ownerVars, Queue!cancelVars
<1>7. CASE ReleaseDone \/ EndDrain \/ EndRound \/ PollStop \/ Unparked
  BY <1>7, <1>k DEF ReleaseDone, EndDrain, EndRound, PollStop, Unparked, queueVars, clientVars, taskVars
<1>8. CASE Sweep \/ CloseGate \/ CloseQueue \/ StopUnpark
  BY <1>8, <1>k DEF Sweep, CloseGate, CloseQueue, StopUnpark, queueVars, loopVars, taskVars, Queue!Close,
     Queue!ownerVars, Queue!cancelVars
<1>9. CASE SendStop
  <2>1. UNCHANGED << start, tasks, acked, phase, acq, permit, cancelled >> /\ inbox' = Append(inbox, "Stop")
        /\ owner = "Stop"
    BY <1>9 DEF SendStop, queueVars, taskVars
  <2>2. "Stop" \notin ToSet(inbox)
    <3>1. \A i \in 1 .. Len(inbox) : inbox[i] # "Stop"
      BY <2>1 DEF MailInv
    <3> QED BY <1>i, <3>1 DEF ToSet
  <2>3. ToSet(inbox') = ToSet(inbox) \cup {"Stop"}
    BY <1>i, <2>1, <2>2, MailSent
  <2>4. v # "Stop"
    BY DirectAssumption
  <2> QED BY <2>1, <2>3, <2>4
<1>10. CASE ReceiveMessage
  <2>1. UNCHANGED << start, acked, phase, acq, permit, cancelled >> /\ inbox # << >> /\ inbox' = Tail(inbox)
        /\ tasks' = IF Head(inbox) = "Stop" THEN tasks ELSE tasks \cup {Head(inbox)}
    BY <1>10 DEF ReceiveMessage, queueVars, clientVars, taskVars
  <2>2. ToSet(inbox') = ToSet(inbox) \ {Head(inbox)} /\ Head(inbox) \in ToSet(inbox)
    BY <1>i, <2>1, MailReceived
  <2>3. v # "Stop"
    BY DirectAssumption
  <2> QED BY <2>1, <2>2, <2>3
<1>11. ASSUME NEW t \in Requests, PollTask(t) PROVE PlaceInv(v)'
  BY <1>11, <1>k DEF PollTask, queueVars, clientVars
<1>12. ASSUME NEW t \in Requests, TaskStep(t) PROVE PlaceInv(v)'
  <2>1. CASE v # t
    BY <1>12, <2>1, OthersKeep DEF SameFor
  <2>2. CASE v = t
    <3>1. t \in tasks /\ UNCHANGED << start, inbox >>
      BY <1>12, TaskMoves DEF LoopInv
    <3>2. start[t] \in {"Unpark", "Launched"} /\ t \notin acked /\ t \notin ToSet(inbox)
          /\ acq[t] \notin {"None", "Register"}
      BY <3>1
    <3>3. acq'[t] \notin {"None", "Register"}
      BY <1>12, <1>q, <3>2 DEF TaskStep, Subscribe, Check, Interrupt, Listener, PollAcquire, Release, Unregister,
         Stream, WatchJob, StartError, JobOk, JobError, CloseBackend, Panic, DropPermit, Finish, queueVars,
         Queue!Cancel, Queue!CancelListener, Queue!Poll, Queue!DropAcquire, Queue!Unregister, Queue!DropPermit,
         Queue!ownerVars
    <3>4. CASE Finish(t)
      <4>1. acked' = acked \cup {t} /\ tasks' = tasks \ {t} /\ UNCHANGED << acq, permit, cancelled, phase >>
            /\ acq[t] = "Gone" /\ ~permit[t]
        BY <3>4 DEF Finish, queueVars, StageInv
      <4> QED BY <2>2, <3>1, <3>2, <4>1
    <3>5. CASE ~Finish(t)
      <4>1. UNCHANGED << tasks, acked >>
        BY <1>12, <3>5 DEF TaskStep, Subscribe, Check, Interrupt, Listener, PollAcquire, Release, Unregister,
           Stream, WatchJob, StartError, JobOk, JobError, CloseBackend, Panic, DropPermit, clientVars, Goes, Returns,
           Awaits, Closes
      <4> QED BY <2>2, <3>1, <3>2, <3>3, <4>1
    <3> QED BY <3>4, <3>5
  <2> QED BY <2>1, <2>2
<1>13. CASE UNCHANGED vars
  BY <1>13, <1>k DEF vars, queueVars, clientVars, loopVars, taskVars
<1> QED BY <1>1, <1>2, <1>3, <1>4, <1>5, <1>6, <1>7, <1>8, <1>9, <1>10, <1>11, <1>12, <1>13
        DEF Next, Launch, Wakeup, Completion, Shutdown, Control

\* Outside the poll of its Acquire a request keeps its outcome from being consumed.
LEMMA NotPolled ==
  ASSUME TypeInv, QueueInv, [Next]_vars, NEW v \in Requests, step[v] # "Inner" \/ step'[v] = step[v],
         outcome'[v] = "Consumed"
  PROVE  outcome[v] = "Consumed"
<1>1. ~PollAcquire(v)
  BY DEF PollAcquire, Returns, Goes, TypeInv
<1> QED BY <1>1, OutcomeKept

\* StageInv of a request whose task is not polled.
LEMMA StageKept ==
  ASSUME TypeInv, QueueInv, [Next]_vars, NEW v \in Requests, StageInv(v),
         acq'[v] = acq[v], permit'[v] <=> permit[v], step'[v] = step[v], phase'[v] = phase[v],
         v \in tasks' <=> v \in tasks,
         v \in live' => v \in live,
         v \in ToSet(inbox') <=> v \in ToSet(inbox)
  PROVE  StageInv(v)'
BY NotPolled DEF StageInv, InQueue

\* StageInv of the request whose task is polled, but for its outcome.
LEMMA PolledStage ==
  ASSUME TypeInv, QueueInv, LoopInv, [Next]_vars, NEW t \in Requests, PlaceInv(t), StageInv(t), TaskStep(t)
  PROVE  StageInv(t)'
<1>q. /\ acq \in [Requests -> {"None", "Register", "RunListener", "Held", "Unregister", "Gone"}]
      /\ permit \in [Requests -> BOOLEAN] /\ DOMAIN outcome = Requests
      /\ \A r \in Requests : permit[r] => outcome[r] = "Consumed"
  <2>1. \A r \in Requests : permit[r] => outcome[r] = "Consumed"
    BY DEF QueueInv, Admit!AdmissionInv, Admit!QueueInv, Admit!Running, Admit!Having
  <2> QED BY <2>1, QueueShape
<1>t. /\ step \in [Requests -> Steps] /\ phase \in [Requests -> Phases] /\ live \subseteq Requests
  BY DEF TypeInv, Steps, Phases
<1>m. t \in tasks /\ UNCHANGED inbox /\ t \notin ToSet(inbox) /\ t \notin ToSet(inbox')
  BY TaskMoves DEF LoopInv, PlaceInv
<1>c. step[t] # "Inner" \/ step'[t] = step[t] => (outcome'[t] = "Consumed" => outcome[t] = "Consumed")
  BY NotPolled
<1> USE DEF StageInv, InQueue, Goes, Returns, Awaits, Closes, Interruptible, Steps, Phases
<1>1. CASE Subscribe(t) \/ Check(t)
  BY <1>1, <1>q, <1>t, <1>m, <1>c DEF Subscribe, Check, queueVars
<1>2. CASE Interrupt(t)
  BY <1>2, <1>q, <1>t, <1>m, <1>c DEF Interrupt, Queue!Cancel, Queue!ownerVars, Queue!coreVars
<1>3. CASE Listener(t)
  BY <1>3, <1>q, <1>t, <1>m, <1>c DEF Listener, Queue!CancelListener, Queue!ownerVars
<1>4. CASE PollAcquire(t)
  BY <1>4, <1>q, <1>t, <1>m DEF PollAcquire, Queue!Poll
<1>5. CASE Release(t)
  BY <1>5, <1>q, <1>t, <1>m, <1>c DEF Release, Queue!DropAcquire
<1>6. CASE Unregister(t)
  BY <1>6, <1>q, <1>t, <1>m, <1>c DEF Unregister, Queue!Unregister, Queue!coreVars
<1>7. CASE Stream(t)
  BY <1>7, <1>q, <1>t, <1>m, <1>c DEF Stream, queueVars
<1>8. CASE WatchJob(t) \/ StartError(t) \/ CloseBackend(t)
  BY <1>8, <1>q, <1>t, <1>m, <1>c DEF WatchJob, StartError, CloseBackend, AtJob, queueVars
<1>9. CASE JobOk(t) \/ JobError(t)
  BY <1>9, <1>q, <1>t, <1>m, <1>c DEF JobOk, JobError, AtJob, queueVars
<1>10. CASE Panic(t)
  BY <1>10, <1>q, <1>t, <1>m, <1>c DEF Panic, queueVars
<1>11. CASE DropPermit(t)
  BY <1>11, <1>q, <1>t, <1>m, <1>c DEF DropPermit, Queue!DropPermit
<1>12. CASE Finish(t)
  BY <1>12, <1>q, <1>t, <1>m, <1>c DEF Finish, queueVars
<1> QED BY <1>1, <1>2, <1>3, <1>4, <1>5, <1>6, <1>7, <1>8, <1>9, <1>10, <1>11, <1>12 DEF TaskStep

LEMMA StageStep ==
  ASSUME TypeInv, QueueInv, MailInv, LoopInv, [Next]_vars,
         \A r \in Requests : PlaceInv(r) /\ StageInv(r), NEW v \in Requests
  PROVE  StageInv(v)'
<1>q. acq \in [Requests -> {"None", "Register", "RunListener", "Held", "Unregister", "Gone"}]
  BY QueueShape
<1>i. inbox \in Seq(Requests \cup {"Stop"}) /\ Distinct(inbox) /\ v # "Stop"
  BY DirectAssumption DEF TypeInv, MailInv
<1>k. ASSUME UNCHANGED << acq, permit, step, phase, tasks, live, inbox >> PROVE StageInv(v)'
  BY <1>k, StageKept
<1>1. ASSUME NEW r \in Requests, Start(r) \/ Fail(r) \/ Provide(r) \/ LaunchRefused(r) \/ LaunchUnpark(r)
      PROVE  StageInv(v)'
  BY <1>1, <1>k DEF Start, Fail, Provide, LaunchRefused, LaunchUnpark, queueVars, loopVars, taskVars
<1>2. ASSUME NEW r \in Requests, LaunchAcquire(r) PROVE StageInv(v)'
  <2>1. UNCHANGED << permit, step, phase, tasks, live, inbox >> /\ acq' = [acq EXCEPT ![r] = "Register"]
        /\ acq[r] = "None"
    BY <1>2 DEF LaunchAcquire, Queue!Acquire, taskVars, loopVars
  <2>2. CASE v # r
    BY <1>q, <2>1, <2>2, StageKept
  <2>3. CASE v = r
    <3>1. start[r] \in {"Idle", "Gate", "Refused"}
      BY <2>1 DEF PlaceInv
    <3>2. r \notin tasks /\ r \notin ToSet(inbox) /\ step[r] = "Away" /\ phase[r] = "Admission"
      BY <3>1 DEF PlaceInv, LoopInv
    <3>3. outcome'[r] # "Consumed"
      <4>1. outcome[r] # "Consumed"
        BY <2>1 DEF StageInv
      <4> QED BY <2>1, <4>1, NotPolled
    <3> QED BY <1>q, <2>1, <2>3, <3>2, <3>3 DEF StageInv, InQueue
  <2> QED BY <2>2, <2>3
<1>3. ASSUME NEW r \in Requests, LaunchSend(r) PROVE StageInv(v)'
  <2>1. UNCHANGED << permit, step, phase, tasks, live >> /\ inbox' = Append(inbox, r) /\ start[r] = "Send"
        /\ (acq' = [acq EXCEPT ![r] = "Held"] \/ cancelled[r])
        /\ \A u \in Requests : u # r => acq'[u] = acq[u]
    BY <1>3, <1>q DEF LaunchSend, Queue!Register, taskVars
  <2>2. r \notin ToSet(inbox) /\ r \notin tasks /\ phase[r] = "Admission" /\ step[r] = "Away" /\ acq[r] = "Register"
        /\ ~cancelled[r]
    BY <2>1 DEF PlaceInv, LoopInv
  <2>3. ToSet(inbox') = ToSet(inbox) \cup {r}
    BY <1>i, <2>1, <2>2, MailSent
  <2>4. CASE v # r
    BY <2>1, <2>3, <2>4, StageKept
  <2>5. CASE v = r
    <3>1. acq'[r] = "Held"
      BY <1>q, <2>1, <2>2
    <3>2. outcome'[r] # "Consumed"
      <4>1. outcome[r] # "Consumed"
        BY <2>2 DEF StageInv
      <4> QED BY <2>1, <4>1, NotPolled
    <3> QED BY <2>1, <2>2, <2>5, <3>1, <3>2 DEF StageInv, InQueue
  <2> QED BY <2>4, <2>5
<1>4. ASSUME NEW r \in Requests, Notify(r) \/ Wake(r) \/ JobDone(r) PROVE StageInv(v)'
  BY <1>4, <1>k DEF Notify, Wake, JobDone, queueVars, loopVars, taskVars, Queue!Wake, Queue!ownerVars
<1>5. ASSUME NEW r \in Requests, WorkerGone(r) PROVE StageInv(v)'
  <2>1. UNCHANGED << acq, permit, step, phase, tasks, inbox >> /\ live' = live \ {r}
    BY <1>5 DEF WorkerGone, queueVars, loopVars
  <2> QED BY <2>1, StageKept
<1>6. CASE ReleaseDone \/ EndDrain \/ EndRound \/ PollStop \/ Unparked
  BY <1>6, <1>k DEF ReleaseDone, EndDrain, EndRound, PollStop, Unparked, queueVars, taskVars
<1>7. CASE Sweep \/ CloseGate \/ CloseQueue \/ StopUnpark
  BY <1>7, <1>k DEF Sweep, CloseGate, CloseQueue, StopUnpark, queueVars, loopVars, taskVars, Queue!Close,
     Queue!ownerVars
<1>8. CASE SendStop
  <2>1. UNCHANGED << acq, permit, step, phase, tasks, live >> /\ inbox' = Append(inbox, "Stop") /\ owner = "Stop"
    BY <1>8 DEF SendStop, queueVars, taskVars
  <2>2. "Stop" \notin ToSet(inbox)
    <3>1. \A i \in 1 .. Len(inbox) : inbox[i] # "Stop"
      BY <2>1 DEF MailInv
    <3> QED BY <1>i, <3>1 DEF ToSet
  <2>3. ToSet(inbox') = ToSet(inbox) \cup {"Stop"}
    BY <1>i, <2>1, <2>2, MailSent
  <2> QED BY <1>i, <2>1, <2>3, StageKept
<1>9. CASE ReceiveMessage
  <2>1. UNCHANGED << acq, permit, step, phase, live >> /\ inbox # << >> /\ inbox' = Tail(inbox)
        /\ tasks' = IF Head(inbox) = "Stop" THEN tasks ELSE tasks \cup {Head(inbox)}
    BY <1>9 DEF ReceiveMessage, queueVars, taskVars
  <2>2. ToSet(inbox') = ToSet(inbox) \ {Head(inbox)} /\ Head(inbox) \in ToSet(inbox)
    BY <1>i, <2>1, MailReceived
  <2>3. CASE v # Head(inbox)
    BY <2>1, <2>2, <2>3, StageKept
  <2>4. CASE v = Head(inbox)
    <3>1. phase[v] = "Admission" /\ v \in tasks' /\ v \in ToSet(inbox)
      BY <1>i, <2>1, <2>2, <2>4 DEF PlaceInv
    <3>2. outcome'[v] = "Consumed" => outcome[v] = "Consumed"
      BY <2>1, NotPolled
    <3> QED BY <2>1, <2>2, <3>1, <3>2 DEF StageInv, InQueue
  <2> QED BY <2>3, <2>4
<1>10. ASSUME NEW t \in Requests, PollTask(t) PROVE StageInv(v)'
  <2>1. UNCHANGED << acq, permit, phase, live, tasks, inbox >> /\ ctl = "Round" /\ t \in todo
        /\ step' = [step EXCEPT ![t] = IF phase[t] \in Interruptible THEN "Subscribe" ELSE "Job"]
    BY <1>10 DEF PollTask, queueVars
  <2>2. step[t] = "Away" /\ t \in tasks
    BY <2>1 DEF LoopInv
  <2>3. CASE v # t
    BY <2>1, <2>3, StageKept DEF TypeInv
  <2>4. CASE v = t
    <3>1. outcome'[v] = "Consumed" => outcome[v] = "Consumed"
      BY <2>2, <2>4, NotPolled
    <3>2. step'[t] = IF phase[t] \in Interruptible THEN "Subscribe" ELSE "Job"
      BY <2>1 DEF TypeInv
    <3> QED BY <2>1, <2>2, <2>4, <3>1, <3>2 DEF StageInv, InQueue, TypeInv, Interruptible
  <2> QED BY <2>3, <2>4
<1>11. ASSUME NEW t \in Requests, TaskStep(t) PROVE StageInv(v)'
  <2>1. CASE v = t
    BY <1>11, <2>1, PolledStage
  <2>2. CASE v # t
    BY <1>11, <2>2, OthersKeep, StageKept DEF SameFor
  <2> QED BY <2>1, <2>2
<1>12. CASE UNCHANGED vars
  BY <1>12, <1>k DEF vars, queueVars, loopVars, taskVars
<1> QED BY <1>1, <1>2, <1>3, <1>4, <1>5, <1>6, <1>7, <1>8, <1>9, <1>10, <1>11, <1>12
        DEF Next, Launch, Wakeup, Completion, Shutdown, Control

-----------------------------------------------------------------------------
(* What a poll leaves behind.                                              *)

\* The poll of the task itself: it returns with its wakers in place.
LEMMA PolledSleeps ==
  ASSUME TypeInv, QueueInv, LoopInv, NEW t \in Requests, StageInv(t), PolledInv(t), TaskStep(t)
  PROVE  PolledInv(t)'
<1>t. /\ step \in [Requests -> Steps] /\ phase \in [Requests -> Phases] /\ job \in [Requests -> Jobs]
      /\ awake \in [Requests -> BOOLEAN]
      /\ ctl = "Task" /\ t \in tasks \ todo /\ todo' = todo
  BY TaskMoves, QueueShape DEF TypeInv, Steps, Phases, Jobs, LoopInv
<1> USE DEF PolledInv, Asleep, Goes, Returns, Awaits, Closes, Interruptible, Steps, Phases, Jobs
<1>1. CASE Subscribe(t) \/ Check(t)
  BY <1>1, <1>t DEF Subscribe, Check, clientVars, notifyVars
<1>2. CASE Interrupt(t) \/ Listener(t) \/ Release(t) \/ Unregister(t) \/ DropPermit(t)
  BY <1>2, <1>t DEF Interrupt, Listener, Release, Unregister, DropPermit
<1>3. CASE PollAcquire(t)
  BY <1>3, <1>t DEF PollAcquire, Queue!Poll, clientVars, notifyVars
<1>4. CASE Stream(t)
  BY <1>4, <1>t DEF Stream
<1>5. CASE WatchJob(t)
  BY <1>5, <1>t DEF WatchJob, AtJob, StageInv, clientVars, notifyVars
<1>6. CASE StartError(t) \/ JobOk(t) \/ JobError(t) \/ CloseBackend(t) \/ Panic(t)
  BY <1>6, <1>t DEF StartError, JobOk, JobError, CloseBackend, Panic
<1>7. CASE Finish(t)
  BY <1>7, <1>t DEF Finish
<1> QED BY <1>1, <1>2, <1>3, <1>4, <1>5, <1>6, <1>7 DEF TaskStep

LEMMA PollStep ==
  ASSUME TypeInv, QueueInv, LoopInv, [Next]_vars, NEW v \in Requests, StageInv(v), PolledInv(v)
  PROVE  PolledInv(v)'
<1>t. /\ step \in [Requests -> Steps] /\ phase \in [Requests -> Phases] /\ job \in [Requests -> Jobs]
      /\ awake \in [Requests -> BOOLEAN] /\ unparked \in BOOLEAN
  BY QueueShape DEF TypeInv, Steps, Phases, Jobs
<1> USE DEF PolledInv, Asleep
<1>k. ASSUME UNCHANGED << ctl, tasks, todo, step, phase, job, awake, subscribed, notifying, failed, data >>,
             unparked' \/ unparked' = unparked
      PROVE  PolledInv(v)'
  BY <1>k
<1>1. ASSUME NEW r \in Requests, Start(r) \/ LaunchRefused(r) \/ LaunchAcquire(r) \/ LaunchSend(r) \/ LaunchUnpark(r)
      PROVE  PolledInv(v)'
  BY <1>1, <1>k DEF Start, LaunchRefused, LaunchAcquire, LaunchSend, LaunchUnpark, queueVars, notifyVars, loopVars,
     taskVars, Queue!Acquire, Queue!Register
<1>2. ASSUME NEW r \in Requests, Fail(r) \/ Provide(r) PROVE PolledInv(v)'
  BY <1>2 DEF Fail, Provide, queueVars, loopVars, taskVars
<1>3. ASSUME NEW r \in Requests, Notify(r) PROVE PolledInv(v)'
  BY <1>3, <1>t DEF Notify, queueVars, clientVars, taskVars, Interruptible
<1>4. ASSUME NEW r \in Requests, Wake(r) PROVE PolledInv(v)'
  BY <1>4 DEF Wake
<1>5. ASSUME NEW r \in Requests, JobDone(r) PROVE PolledInv(v)'
  BY <1>5, <1>t DEF JobDone, queueVars, clientVars, notifyVars, Jobs
<1>6. ASSUME NEW r \in Requests, WorkerGone(r) PROVE PolledInv(v)'
  BY <1>6, <1>k DEF WorkerGone, queueVars, clientVars, notifyVars, loopVars
<1>7. CASE ReleaseDone
  BY <1>7, <1>t DEF ReleaseDone, queueVars, clientVars, notifyVars
<1>8. CASE Sweep \/ CloseGate \/ CloseQueue \/ SendStop \/ StopUnpark
  BY <1>8, <1>k DEF Sweep, CloseGate, CloseQueue, SendStop, StopUnpark, queueVars, notifyVars, loopVars, taskVars,
     Queue!Close
<1>9. CASE ReceiveMessage \/ EndDrain \/ Unparked
  BY <1>9 DEF ReceiveMessage, EndDrain, Unparked
<1>10. CASE EndRound
  BY <1>10 DEF EndRound, queueVars, clientVars, notifyVars, taskVars
<1>11. CASE PollStop
  BY <1>11 DEF PollStop, LoopInv
<1>12. ASSUME NEW t \in Requests, PollTask(t) PROVE PolledInv(v)'
  <2>1. UNCHANGED << tasks, phase, job, awake, subscribed, notifying, failed, data, unparked >> /\ ctl = "Round"
        /\ todo' = todo \ {t}
        /\ step' = [step EXCEPT ![t] = IF phase[t] \in Interruptible THEN "Subscribe" ELSE "Job"]
    BY <1>12 DEF PollTask, queueVars, clientVars, notifyVars
  <2>2. CASE v = t
    BY <1>t, <2>1, <2>2
  <2>3. CASE v # t
    BY <1>t, <2>1, <2>3
  <2> QED BY <2>2, <2>3
<1>13. ASSUME NEW t \in Requests, TaskStep(t) PROVE PolledInv(v)'
  <2>1. CASE v = t
    BY <1>13, <2>1, PolledSleeps
  <2>2. CASE v # t
    <3>1. SameFor(v) /\ ctl = "Task"
      BY <1>13, <2>2, OthersKeep, TaskMoves DEF LoopInv
    <3>2. ~unparked' => ~unparked
      BY <1>13 DEF TaskStep, Subscribe, Check, Interrupt, Listener, PollAcquire, Release, Unregister, Stream, WatchJob,
         StartError, JobOk, JobError, CloseBackend, Panic, DropPermit, Finish
    <3> QED BY <3>1, <3>2 DEF SameFor
  <2> QED BY <2>1, <2>2
<1>14. CASE UNCHANGED vars
  BY <1>14, <1>k DEF vars, queueVars, clientVars, notifyVars, loopVars, taskVars
<1> QED BY <1>1, <1>2, <1>3, <1>4, <1>5, <1>6, <1>7, <1>8, <1>9, <1>10, <1>11, <1>12, <1>13, <1>14
        DEF Next, Launch, Wakeup, Completion, Shutdown, Control

-----------------------------------------------------------------------------
(* The invariant and what follows from it.                                 *)

LEMMA InvInit == Init => Inv
<1> SUFFICES ASSUME Init PROVE Inv
  OBVIOUS
<1> USE DEF Init, Queue!Init
<1>1. ToSet(inbox) = {} /\ inbox \in Seq(Requests \cup {"Stop"}) /\ Len(inbox) = 0
  BY DEF ToSet
<1>2. TypeInv /\ GateInv
  BY <1>1 DEF TypeInv, GateInv
<1>3. MailInv
  BY <1>1 DEF MailInv, Distinct
<1>4. LoopInv
  BY DEF LoopInv
<1>5. ASSUME NEW t \in Requests PROVE PlaceInv(t) /\ StageInv(t) /\ PolledInv(t)
  BY <1>1 DEF PlaceInv, StageInv, InQueue, PolledInv
<1> QED BY <1>2, <1>3, <1>4, <1>5 DEF Inv

LEMMA InvStep == QueueInv /\ Inv /\ [Next]_vars => Inv'
BY TypeStep, GateStep, MailStep, LoopStep, PlaceStep, StageStep, PollStep DEF Inv

LEMMA InvHolds == Spec => []Inv
BY InvInit, InvStep, QueueHolds, PTL DEF Spec

\* Every variable of the driver and of its queue has its type, for any number of
\* requests and executions (Direct::launch, the tasks, the control thread).
THEOREM TypeCorrect == Spec => []TypeOK
<1>1. Admit!TypeOK <=> Queue!TypeOK
  BY DEF Admit!TypeOK, Queue!TypeOK, Admit!Resolved, Queue!Resolved
<1>2. Queue!Init => Admit!Init
  BY DEF Queue!Init, Admit!Init
<1>3. Queue!Spec => Admit!Spec
  BY <1>2, SameStep, PTL DEF Queue!Spec, Admit!Spec
<1>4. Admit!Spec => []Admit!TypeOK
  BY QueueAssumption, Admit!AdmissionTypes
<1>5. Queue!TypeOK /\ Inv => TypeOK
  BY DEF Inv, TypeInv, TypeOK
<1> QED BY <1>1, <1>3, <1>4, <1>5, ImplementsQueue, InvHolds, PTL

\* A backend runs only under a permit of its own, from its start to the end of its
\* close, so that there are never more than max_executions (run_request, which
\* drops the permit after the backend, and Admission).
THEOREM RunsUnderPermit == Spec => []ExecutionsBounded
<1>1. ASSUME QueueInv, Inv PROVE ExecutionsBounded
  <2>1. \A r \in Managed : r \in Requests /\ permit[r]
    BY <1>1 DEF Inv, StageInv, Managed, TypeInv
  <2>2. Managed \subseteq Admit!Running /\ Admit!Running \subseteq Requests
    BY <2>1 DEF Admit!Running
  <2>3. IsFiniteSet(Admit!Running) /\ Cardinality(Managed) <= Cardinality(Admit!Running)
        /\ Cardinality(Managed) \in Nat
    BY <2>2, DirectAssumption, FS_Subset, FS_CardinalityType
  <2>4. Admit!Cardinality(Admit!Running) = Cardinality(Admit!Running)
    BY DEF Admit!Cardinality, Cardinality, Admit!IsFiniteSet, IsFiniteSet
  <2>5. /\ active <= Limit /\ active \in Nat
        /\ active = Admit!Cardinality(Admit!Having(outcome, "Granted")) + Admit!Cardinality(Admit!Running)
    BY <1>1 DEF QueueInv, Admit!AdmissionInv, Admit!QueueInv
  <2>6. Admit!Cardinality(Admit!Having(outcome, "Granted")) \in Nat /\ Cardinality(Admit!Running) \in Nat
    <3>1. Admit!Having(outcome, "Granted") \subseteq Requests
      BY DEF Admit!Having
    <3>2. Cardinality(Admit!Having(outcome, "Granted")) \in Nat /\ Cardinality(Admit!Running) \in Nat
      BY <3>1, <2>2, DirectAssumption, FS_Subset, FS_CardinalityType
    <3> QED BY <3>2 DEF Admit!Cardinality, Cardinality, Admit!IsFiniteSet, IsFiniteSet
  <2>7. Limit \in Nat
    BY DirectAssumption
  <2>8. Cardinality(Managed) <= Limit
    BY <2>3, <2>4, <2>5, <2>6, <2>7
  <2> QED BY <2>1, <2>8 DEF ExecutionsBounded
<1> QED BY <1>1, QueueHolds, InvHolds, PTL

\* When the guard of a request reports, the request has left the queue, returned
\* its permit and closed its backend, whichever way its task ended (Guard::drop
\* and the order in which run_request drops its parts).
THEOREM ReportsLast == Spec => []AcknowledgedIsClean
<1>1. ASSUME QueueInv, Inv, NEW r \in acked
      PROVE  r \notin queue \cup Managed /\ ~permit[r] /\ outcome[r] # "Granted"
  <2>1. r \in Requests /\ PlaceInv(r) /\ StageInv(r)
    BY <1>1 DEF Inv, TypeInv
  <2>2. r \in queue => outcome[r] = "Waiting"
    BY <1>1 DEF QueueInv, Admit!AdmissionInv, Admit!QueueInv, Admit!Having
  <2>3. r \notin tasks
    BY <2>1 DEF PlaceInv
  <2>4. r \notin Managed
    BY <2>1, <2>3 DEF StageInv, Managed
  <2>5. CASE start[r] = "Refused"
    <3>1. acq[r] = "None"
      BY <2>1, <2>5 DEF PlaceInv
    <3>2. outcome[r] = "None" /\ (permit[r] => outcome[r] = "Consumed")
      BY <1>1, <2>1, <3>1 DEF QueueInv, Admit!AdmissionInv, Admit!QueueInv, Admit!OwnerInv, Admit!Having, Admit!Running
    <3> QED BY <2>2, <2>4, <3>2
  <2>6. CASE start[r] # "Refused"
    <3>1. acq[r] = "Gone" /\ ~permit[r]
      BY <2>1, <2>6 DEF PlaceInv
    <3>2. outcome[r] \notin {"Waiting", "Granted"}
      BY <1>1, <2>1, <3>1 DEF QueueInv, Admit!PromiseInv, Admit!CancelHeard, Admit!Live
    <3> QED BY <2>2, <2>4, <3>1, <3>2
  <2> QED BY <2>5, <2>6
<1>2. QueueInv /\ Inv => AcknowledgedIsClean
  BY <1>1 DEF AcknowledgedIsClean
<1> QED BY <1>2, QueueHolds, InvHolds, PTL

\* Prepared resources are released, and the shutdown completed, when every request
\* ever launched has been cleaned up and none can follow (Direct::shutdown and the
\* stop task of Executor).
THEOREM ReleasesLast == Spec => []ReleasedLast
<1>1. ASSUME Inv, ctl \in {"Stop", "Ended"} \/ release # "None"
      PROVE  Launched \subseteq acked /\ tasks = {} /\ inbox = << >> /\ gateClosed /\ closed
  <2>1. stopping /\ tasks = {}
    BY <1>1 DEF Inv, LoopInv
  <2>2. inbox = << >> /\ owner \in {"Unpark", "Done"}
    BY <1>1, <2>1 DEF Inv, MailInv
  <2>3. gateClosed /\ closed /\ \A r \in Requests : start[r] \notin {"Send", "Unpark"}
    BY <1>1, <2>2 DEF Inv, GateInv
  <2>4. ToSet(inbox) = {}
    BY <2>2 DEF ToSet
  <2>5. ASSUME NEW r \in Launched PROVE r \in acked
    <3>1. r \in Requests /\ start[r] = "Launched"
      BY <1>1, <2>3 DEF Launched, Inv, TypeInv
    <3> QED BY <1>1, <2>1, <2>4, <3>1 DEF Inv, PlaceInv
  <2> QED BY <2>1, <2>2, <2>3, <2>5
<1>2. Inv => ReleasedLast
  BY <1>1 DEF ReleasedLast
<1> QED BY <1>2, InvHolds, PTL

\* The control thread never parks over work: every wait of every task has left a
\* waker where what it waits for will find it, the waker that the queue holds
\* included (Cancelled::poll, Acquire::poll, Completion::poll, Executor).
THEOREM ParksOnlyWithoutWork == Spec => []NothingMissed
<1>1. ASSUME QueueInv, Inv, ctl = "Parked", ~unparked
      PROVE  /\ \A t \in tasks : Ready(t) => t \in (notifying \cap subscribed) \cup wakes
             /\ inbox # << >> => owner = "Unpark" \/ \E r \in Requests : start[r] = "Unpark"
             /\ ~(stopping /\ tasks = {} /\ release \in {"None", "Done"})
  <2>1. ASSUME NEW t \in tasks, Ready(t) PROVE t \in (notifying \cap subscribed) \cup wakes
    <3>1. t \in Requests /\ PolledInv(t) /\ StageInv(t)
      BY <1>1 DEF Inv, TypeInv
    <3>2. step[t] = "Away" /\ todo = {}
      BY <1>1, <3>1 DEF Inv, LoopInv
    <3>3. Asleep(t)
      BY <1>1, <3>1, <3>2 DEF PolledInv
    <3>4. CASE phase[t] \in Interruptible /\ t \in failed
      BY <3>3, <3>4 DEF Asleep
    <3>5. CASE phase[t] = "Admission" /\ outcome[t] # "Waiting"
      <4>1. outcome[t] # "Consumed" /\ ~awake[t]
        BY <3>1, <3>2, <3>3, <3>5 DEF StageInv, InQueue, Asleep
      <4> QED BY <1>1, <3>1, <3>5, <4>1 DEF QueueInv, Admit!PromiseInv, Admit!SleepIsSafe
    <3>6. CASE phase[t] = "Streaming" /\ t \in data
      BY <3>3, <3>6 DEF Asleep, Interruptible
    <3>7. CASE phase[t] \notin {"Admission", "Streaming"} /\ job[t] = "Done"
      BY <3>3, <3>7 DEF Asleep
    <3> QED BY <2>1, <3>4, <3>5, <3>6, <3>7 DEF Ready
  <2>2. inbox # << >> => owner = "Unpark" \/ \E r \in Requests : start[r] = "Unpark"
    BY <1>1 DEF Inv, MailInv
  <2>3. ~(stopping /\ tasks = {} /\ release \in {"None", "Done"})
    BY <1>1 DEF Inv, LoopInv
  <2> QED BY <2>1, <2>2, <2>3
<1>2. QueueInv /\ Inv => NothingMissed
  BY <1>1 DEF NothingMissed
<1> QED BY <1>2, QueueHolds, InvHolds, PTL
=============================================================================
