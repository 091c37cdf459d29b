---------------------------- MODULE DirectDriver ----------------------------
(***************************************************************************)
(* The in-process driver: client/direct.rs (launch, the task of a request, *)
(* shutdown) on the control thread of client/executor.rs, composed with    *)
(* the execution queue of Admission.tla and with the wakeups of            *)
(* client/notify.rs.                                                       *)
(*                                                                         *)
(* The control thread polls its tasks one after the other; the steps of a  *)
(* poll interleave with the threads that launch requests, fail them, make  *)
(* data available, complete jobs on the inference workers, and shut down.  *)
(* Of a request only what the driver sees is kept: that it failed, that    *)
(* there is input to read or room for output, and that its cleanup was     *)
(* acknowledged.  ClientSession.tla has the rest.                          *)
(*                                                                         *)
(* Definitions named Faulty... are plausible mistakes in the code, kept to *)
(* show that the properties notice them; no specification uses them.       *)
(***************************************************************************)
EXTENDS Integers, Sequences, FiniteSets

CONSTANTS
  Requests,   \* the requests the client may start
  Limit,      \* config.max_executions
  Queued,     \* config.max_queued
  Users,      \* bound: the requests whose users send and receive
  Faults      \* bound: the faults that may happen, of "Error", "Panic", "Spurious"

ASSUME DirectAssumption ==
  /\ IsFiniteSet(Requests)
  /\ "Stop" \notin Requests
  /\ Limit \in Nat \ {0}
  /\ Queued \in Nat
  /\ Users \subseteq Requests
  /\ Faults \subseteq {"Error", "Panic", "Spurious"}

VARIABLES
  \* The queue: see Admission.tla.
  active, closed, queue, grants, outcome, waker, arrival, due, acq, permit,
  awake, cancelled, listening, canc, wakes, ping, token, timer, alarm,
  \* The client and its threads.
  start,       \* Client::start: "Idle", then the steps of Direct::launch
  owner,       \* Owner::shutdown: "Idle", then the steps of Direct::shutdown
  gateClosed,  \* Direct.gate
  failed,      \* requests that have failed
  data,        \* requests with input to read or room for output
  acked,       \* requests whose guard has reported
  subscribed,  \* Request.notify holds a waker of the task
  notifying,   \* threads about to call Request.notify.wake()
  \* The control thread and the workers.
  inbox,       \* the channel to it: requests and "Stop"
  stopping,    \* it has received the stop task
  tasks,       \* its tasks
  todo,        \* those still to poll in this round
  ctl,         \* where it is in its loop
  unparked,    \* its park token
  step,        \* where the poll of a task is, "Away" when not polled
  phase,       \* what the task awaits
  job,         \* its job on the inference worker
  live,        \* requests whose backend is started or starting
  release      \* the job of release_prepared

queueVars  == << active, closed, queue, grants, outcome, waker, arrival, due, acq, permit,
                 awake, cancelled, listening, canc, wakes, ping, token, timer, alarm >>
clientVars == << start, owner, gateClosed, failed, data, acked >>
notifyVars == << subscribed, notifying >>
loopVars   == << inbox, stopping, tasks, todo, ctl, unparked >>
taskVars   == << step, phase, job, live, release >>
vars == << queueVars, clientVars, notifyVars, loopVars, taskVars >>

\* The queue has no timeout of its own here.
Queue == INSTANCE Admission WITH Waiters <- Requests, Timed <- FALSE

Init ==
  /\ Queue!Init
  /\ start = [r \in Requests |-> "Idle"] /\ owner = "Idle" /\ gateClosed = FALSE
  /\ failed = {} /\ data = {} /\ acked = {}
  /\ subscribed = {} /\ notifying = {}
  /\ inbox = << >> /\ stopping = FALSE /\ tasks = {} /\ todo = {}
  /\ ctl = "Drain" /\ unparked = FALSE
  /\ step = [r \in Requests |-> "Away"]
  /\ phase = [r \in Requests |-> "Admission"]
  /\ job = [r \in Requests |-> "None"]
  /\ live = {} /\ release = "None"

-----------------------------------------------------------------------------
(* The threads that start requests: Direct::launch holds the gate.         *)

Registered == {r \in Requests : start[r] # "Idle"}
GateHeld   == \E r \in Requests : start[r] \in {"Send", "Unpark"}

\* The client registers r, unless it is shutting down, and calls launch.
Start(r) ==
  /\ start[r] = "Idle" /\ owner = "Idle"
  /\ start' = [start EXCEPT ![r] = "Gate"]
  /\ UNCHANGED << queueVars, owner, gateClosed, failed, data, acked, notifyVars, loopVars, taskVars >>

\* A closed gate refuses; the session that launch drops reports.
LaunchRefused(r) ==
  /\ start[r] = "Gate" /\ gateClosed
  /\ start' = [start EXCEPT ![r] = "Refused"]
  /\ acked' = acked \cup {r}
  /\ UNCHANGED << queueVars, owner, gateClosed, failed, data, notifyVars, loopVars, taskVars >>

LaunchAcquire(r) ==
  /\ start[r] = "Gate" /\ ~gateClosed /\ ~GateHeld
  /\ Queue!Acquire(r)
  /\ start' = [start EXCEPT ![r] = "Send"]
  /\ UNCHANGED << owner, gateClosed, failed, data, acked, notifyVars, loopVars, taskVars >>

\* The end of acquire, on a token that is not shared before Executor::spawn
\* sends the task.
LaunchSend(r) ==
  /\ start[r] = "Send"
  /\ Queue!Register(r)
  /\ inbox' = Append(inbox, r)
  /\ start' = [start EXCEPT ![r] = "Unpark"]
  /\ UNCHANGED << owner, gateClosed, failed, data, acked, notifyVars, stopping, tasks, todo,
                  ctl, unparked, taskVars >>

\* spawn unparks the thread, and launch unlocks the gate.
LaunchUnpark(r) ==
  /\ start[r] = "Unpark"
  /\ unparked' = TRUE
  /\ start' = [start EXCEPT ![r] = "Launched"]
  /\ UNCHANGED << queueVars, owner, gateClosed, failed, data, acked, notifyVars, inbox,
                  stopping, tasks, todo, ctl, taskVars >>

-----------------------------------------------------------------------------
(* What happens to a request, and the wakers it calls.                     *)

\* The user, its deadline or the client's shutdown fails r.
Fail(r) ==
  /\ r \in Registered \ (failed \cup acked)
  /\ failed' = failed \cup {r}
  /\ notifying' = notifying \cup {r}
  /\ UNCHANGED << queueVars, start, owner, gateClosed, data, acked, subscribed, loopVars, taskVars >>

\* The user sends a chunk or receives an event: the task can read or emit.  It
\* looks when it awaits one of them, and what came earlier is as if it came then.
Provide(r) ==
  /\ phase[r] = "Streaming" /\ r \in Users \ (failed \cup data)
  /\ data' = data \cup {r}
  /\ notifying' = notifying \cup {r}
  /\ UNCHANGED << queueVars, start, owner, gateClosed, failed, acked, subscribed, loopVars, taskVars >>

\* Notify::wake takes the wakers and calls them: each unparks the thread.
Notify(r) ==
  /\ r \in notifying
  /\ notifying' = notifying \ {r}
  /\ subscribed' = subscribed \ {r}
  /\ unparked' = (unparked \/ r \in subscribed)
  /\ UNCHANGED << queueVars, clientVars, inbox, stopping, tasks, todo, ctl, taskVars >>

\* A waker that the queue took.
Wake(r) ==
  /\ Queue!Wake(r)
  /\ unparked' = TRUE
  /\ UNCHANGED << clientVars, notifyVars, inbox, stopping, tasks, todo, ctl, taskVars >>

\* The inference worker completes the job of r.
JobDone(r) ==
  /\ job[r] \in {"Running", "Watched"}
  /\ job' = [job EXCEPT ![r] = "Done"]
  /\ unparked' = (unparked \/ job[r] = "Watched")
  /\ UNCHANGED << queueVars, clientVars, notifyVars, inbox, stopping, tasks, todo, ctl,
                  step, phase, live, release >>

ReleaseDone ==
  /\ release \in {"Running", "Watched"}
  /\ release' = "Done"
  /\ unparked' = (unparked \/ release = "Watched")
  /\ UNCHANGED << queueVars, clientVars, notifyVars, inbox, stopping, tasks, todo, ctl,
                  step, phase, job, live >>

\* After a panic the worker of r has lost its owner: it drains and destroys
\* its native state by itself.
WorkerGone(r) ==
  /\ phase[r] = "Panicked" /\ r \in live
  /\ job[r] \in {"None", "Done"}
  /\ live' = live \ {r}
  /\ UNCHANGED << queueVars, clientVars, notifyVars, loopVars, step, phase, job, release >>

-----------------------------------------------------------------------------
(* The owner of the client: its sweep, and Direct::shutdown.               *)

Sweep ==
  /\ owner = "Idle"
  /\ owner' = "Sweep"
  /\ UNCHANGED << queueVars, start, gateClosed, failed, data, acked, notifyVars, loopVars, taskVars >>

CloseGate ==
  /\ owner = "Sweep" /\ Registered \subseteq failed \cup acked
  /\ ~GateHeld
  /\ owner' = "CloseQueue"
  /\ gateClosed' = TRUE
  /\ UNCHANGED << queueVars, start, failed, data, acked, notifyVars, loopVars, taskVars >>

CloseQueue ==
  /\ owner = "CloseQueue"
  /\ Queue!Close
  /\ owner' = "Stop"
  /\ UNCHANGED << start, gateClosed, failed, data, acked, notifyVars, loopVars, taskVars >>

\* Executor::stop.
SendStop ==
  /\ owner = "Stop"
  /\ inbox' = Append(inbox, "Stop")
  /\ owner' = "Unpark"
  /\ UNCHANGED << queueVars, start, gateClosed, failed, data, acked, notifyVars, stopping,
                  tasks, todo, ctl, unparked, taskVars >>

\* Leaves the thread parked.
FaultyStopUnpark ==
  /\ owner = "Unpark"
  /\ owner' = "Done"
  /\ UNCHANGED << queueVars, start, gateClosed, failed, data, acked, notifyVars, loopVars, taskVars >>

StopUnpark ==
  /\ owner = "Unpark"
  /\ unparked' = TRUE
  /\ owner' = "Done"
  /\ UNCHANGED << queueVars, start, gateClosed, failed, data, acked, notifyVars, inbox,
                  stopping, tasks, todo, ctl, taskVars >>

-----------------------------------------------------------------------------
(* The loop of the control thread.                                         *)

\* Runs the stop task with the others.
FaultyReceiveMessage ==
  /\ ctl = "Drain" /\ inbox # << >>
  /\ inbox' = Tail(inbox)
  /\ tasks' = tasks \cup {Head(inbox)}
  /\ UNCHANGED << queueVars, clientVars, notifyVars, stopping, todo, ctl, unparked, taskVars >>

ReceiveMessage ==
  /\ ctl = "Drain" /\ inbox # << >>
  /\ inbox' = Tail(inbox)
  /\ \/ /\ Head(inbox) = "Stop"
        /\ stopping' = TRUE
        /\ UNCHANGED tasks
     \/ /\ Head(inbox) # "Stop"
        /\ tasks' = tasks \cup {Head(inbox)}
        /\ UNCHANGED stopping
  /\ UNCHANGED << queueVars, clientVars, notifyVars, todo, ctl, unparked, taskVars >>

EndDrain ==
  /\ ctl = "Drain" /\ inbox = << >>
  /\ ctl' = "Round" /\ todo' = tasks
  /\ UNCHANGED << queueVars, clientVars, notifyVars, inbox, stopping, tasks, unparked, taskVars >>

\* The awaits of a task that interrupt wraps look at the request first.
Interruptible == {"Admission", "Streaming", "Framing"}

PollTask(t) ==
  /\ ctl = "Round" /\ t \in todo
  /\ ctl' = "Task" /\ todo' = todo \ {t}
  /\ step' = [step EXCEPT ![t] = IF phase[t] \in Interruptible THEN "Subscribe" ELSE "Job"]
  /\ UNCHANGED << queueVars, clientVars, notifyVars, inbox, stopping, tasks, unparked,
                  phase, job, live, release >>

\* Polls the stop task whatever tasks are left.
FaultyEndRound ==
  /\ ctl = "Round" /\ todo = {}
  /\ ctl' = IF stopping THEN "Stop" ELSE "Parked"
  /\ UNCHANGED << queueVars, clientVars, notifyVars, inbox, stopping, tasks, todo, unparked, taskVars >>

\* The stop task is polled only when no task is left.
EndRound ==
  /\ ctl = "Round" /\ todo = {}
  /\ ctl' = IF tasks = {} /\ stopping THEN "Stop" ELSE "Parked"
  /\ UNCHANGED << queueVars, clientVars, notifyVars, inbox, stopping, tasks, todo, unparked, taskVars >>

\* release_prepared, then the completion of the shutdown.
PollStop ==
  /\ ctl = "Stop"
  /\ \/ /\ release = "None"
        /\ release' = "Running"
        /\ UNCHANGED ctl
     \/ /\ release \in {"None", "Done"}
        /\ ctl' = "Ended"
        /\ UNCHANGED release
     \/ /\ release \in {"Running", "Watched"}
        /\ release' = "Watched" /\ ctl' = "Parked"
  /\ UNCHANGED << queueVars, clientVars, notifyVars, inbox, stopping, tasks, todo, unparked,
                  step, phase, job, live >>

\* thread::park takes the token.  It may also return for no reason.
Unparked ==
  /\ ctl = "Parked" /\ (unparked \/ "Spurious" \in Faults)
  /\ ctl' = "Drain" /\ unparked' = FALSE
  /\ UNCHANGED << queueVars, clientVars, notifyVars, inbox, stopping, tasks, todo, taskVars >>

-----------------------------------------------------------------------------
(* The poll of the task of a request.                                      *)

\* The poll goes on at step s.
Goes(t, s) ==
  /\ step' = [step EXCEPT ![t] = s]
  /\ UNCHANGED << inbox, stopping, tasks, todo, ctl >>

\* The poll returns Pending.
Returns(t) ==
  /\ step' = [step EXCEPT ![t] = "Away"]
  /\ ctl' = "Round"
  /\ UNCHANGED << inbox, stopping, tasks, todo >>

\* The task goes on to await phase p, with or without a job on its worker.
\* A worker runs its jobs in order: the last one is all that is kept.
Awaits(t, p, j) ==
  /\ phase' = [phase EXCEPT ![t] = p]
  /\ job' = [job EXCEPT ![t] = j]
  /\ Goes(t, IF p \in Interruptible THEN "Subscribe" ELSE "Job")

Closes(t) == Awaits(t, "Closing", "Running")

\* Looks at the request without leaving a waker.
FaultySubscribe(t) ==
  /\ step[t] = "Subscribe"
  /\ Goes(t, "Check")
  /\ UNCHANGED << queueVars, clientVars, notifyVars, unparked, phase, job, live, release >>

\* Cancelled::poll registers its waker, then looks at the request.
Subscribe(t) ==
  /\ step[t] = "Subscribe"
  /\ subscribed' = subscribed \cup {t}
  /\ Goes(t, "Check")
  /\ UNCHANGED << queueVars, clientVars, notifying, unparked, phase, job, live, release >>

Check(t) ==
  /\ step[t] = "Check"
  /\ Goes(t, IF t \in failed THEN "Interrupt" ELSE "Inner")
  /\ UNCHANGED << queueVars, clientVars, notifyVars, unparked, phase, job, live, release >>

\* interrupt cancels the token.  In the queue that runs a listener; later the
\* backend is closed, after the call that was abandoned.
Interrupt(t) ==
  /\ step[t] = "Interrupt"
  /\ Queue!Cancel(t)
  /\ \/ /\ phase[t] = "Admission"
        /\ Goes(t, "Listener")
        /\ UNCHANGED << phase, job >>
     \/ /\ phase[t] # "Admission"
        /\ Closes(t)
  /\ subscribed' = subscribed \ {t}
  /\ UNCHANGED << clientVars, notifying, unparked, live, release >>

Listener(t) ==
  /\ step[t] = "Listener"
  /\ Queue!CancelListener(t)
  /\ Goes(t, "Release")
  /\ UNCHANGED << clientVars, notifyVars, unparked, phase, job, live, release >>

PollAcquire(t) ==
  /\ step[t] = "Inner" /\ phase[t] = "Admission"
  /\ Queue!Poll(t)
  /\ \/ /\ outcome[t] = "Waiting"
        /\ Returns(t)
     \/ /\ outcome[t] # "Waiting"
        /\ Goes(t, "Release")
  /\ UNCHANGED << clientVars, notifyVars, unparked, phase, job, live, release >>

\* The subscription and the Acquire are dropped.
Release(t) ==
  /\ step[t] = "Release"
  /\ Queue!DropAcquire(t)
  /\ Goes(t, "Unregister")
  /\ subscribed' = subscribed \ {t}
  /\ UNCHANGED << clientVars, notifying, unparked, phase, job, live, release >>

\* With a permit the backend is started, and nothing interrupts that.
Unregister(t) ==
  /\ step[t] = "Unregister"
  /\ Queue!Unregister(t)
  /\ \/ /\ permit[t]
        /\ Awaits(t, "Starting", "Running")
        /\ live' = live \cup {t}
     \/ /\ ~permit[t]
        /\ Goes(t, "Finish")
        /\ UNCHANGED << phase, job, live >>
  /\ UNCHANGED << clientVars, notifyVars, unparked, release >>

\* recv or emit.  A failed request ends the run, as does an error of its own.
\* With a chunk or with room the change is announced, to this task too, and
\* the run awaits push or finish, the next frame, or the next recv or emit;
\* or it has emitted its last event.
Stream(t) ==
  /\ step[t] = "Inner" /\ phase[t] = "Streaming"
  /\ \/ /\ t \notin failed \cup data
        /\ subscribed' = subscribed \cup {t}
        /\ Returns(t)
        /\ UNCHANGED << failed, data, unparked, phase, job >>
     \/ /\ t \in data \ failed
        /\ data' = data \ {t}
        /\ subscribed' = subscribed \ {t}
        /\ unparked' = TRUE
        /\ \/ Awaits(t, "Pushing", "Running")
           \/ Awaits(t, "Framing", "Running")
           \/ Awaits(t, "Streaming", "None")
           \/ Closes(t)
        /\ UNCHANGED failed
     \/ /\ t \in failed \/ "Error" \in Faults
        /\ failed' = failed \cup {t}
        /\ subscribed' = subscribed \ {t}
        /\ Closes(t)
        /\ UNCHANGED << data, unparked >>
  /\ UNCHANGED << queueVars, start, owner, gateClosed, acked, notifying, live, release >>

AtJob(t) == step[t] = "Job" \/ (step[t] = "Inner" /\ phase[t] = "Framing")

\* Leaves the waker of an earlier poll in place, if there is one.
FaultyWatchJob(t) ==
  /\ AtJob(t) /\ job[t] \in {"Running", "Watched"}
  /\ Returns(t)
  /\ UNCHANGED << queueVars, clientVars, notifyVars, unparked, phase, job, live, release >>

\* Completion::poll, of a job that is not done.
WatchJob(t) ==
  /\ AtJob(t) /\ job[t] \in {"Running", "Watched"}
  /\ job' = [job EXCEPT ![t] = "Watched"]
  /\ Returns(t)
  /\ UNCHANGED << queueVars, clientVars, notifyVars, unparked, phase, live, release >>

\* The backend could not be started: the permit is all there is to return.
StartError(t) ==
  /\ "Error" \in Faults
  /\ AtJob(t) /\ job[t] = "Done" /\ phase[t] = "Starting"
  /\ job' = [job EXCEPT ![t] = "None"]
  /\ live' = live \ {t}
  /\ Goes(t, "Permit")
  /\ UNCHANGED << queueVars, clientVars, notifyVars, unparked, phase, release >>

\* The backend started, took the input, or gave a frame or none.
JobOk(t) ==
  /\ AtJob(t) /\ job[t] = "Done"
  /\ \/ phase[t] \in {"Starting", "Framing"} /\ Awaits(t, "Streaming", "None")
     \/ phase[t] = "Pushing" /\ Awaits(t, "Framing", "Running")
  /\ subscribed' = subscribed \ {t}
  /\ UNCHANGED << queueVars, clientVars, notifying, unparked, live, release >>

\* An error of push, finish or next_frame fails the request and closes the
\* backend.
JobError(t) ==
  /\ "Error" \in Faults
  /\ AtJob(t) /\ job[t] = "Done" /\ phase[t] \in {"Pushing", "Framing"}
  /\ Closes(t)
  /\ failed' = failed \cup {t}
  /\ subscribed' = subscribed \ {t}
  /\ UNCHANGED << queueVars, start, owner, gateClosed, data, acked, notifying, unparked, live, release >>

\* Returns the permit while the backend closes.
FaultyCloseBackend(t) ==
  /\ AtJob(t) /\ phase[t] = "Closing"
  /\ Goes(t, "Permit")
  /\ UNCHANGED << queueVars, clientVars, notifyVars, unparked, phase, job, live, release >>

CloseBackend(t) ==
  /\ AtJob(t) /\ job[t] = "Done" /\ phase[t] = "Closing"
  /\ job' = [job EXCEPT ![t] = "None"]
  /\ live' = live \ {t}
  /\ Goes(t, "Permit")
  /\ UNCHANGED << queueVars, clientVars, notifyVars, unparked, phase, release >>

\* Reports before the task has returned its permit.
FaultyPanic(t) ==
  /\ "Panic" \in Faults
  /\ step[t] \in {"Inner", "Job"} /\ phase[t] # "Admission"
  /\ phase' = [phase EXCEPT ![t] = "Panicked"]
  /\ subscribed' = subscribed \ {t}
  /\ acked' = acked \cup {t}
  /\ Goes(t, "Permit")
  /\ UNCHANGED << queueVars, start, owner, gateClosed, failed, data, notifying, unparked, job, live, release >>

\* A poll that panics drops the task: its backend, its permit, its guard.  The
\* backend is not closed: its worker is left to itself.
Panic(t) ==
  /\ "Panic" \in Faults
  /\ step[t] \in {"Inner", "Job"} /\ phase[t] # "Admission"
  /\ phase' = [phase EXCEPT ![t] = "Panicked"]
  /\ subscribed' = subscribed \ {t}
  /\ Goes(t, "Permit")
  /\ UNCHANGED << queueVars, clientVars, notifying, unparked, job, live, release >>

DropPermit(t) ==
  /\ step[t] = "Permit"
  /\ Queue!DropPermit(t)
  /\ Goes(t, "Finish")
  /\ UNCHANGED << clientVars, notifyVars, unparked, phase, job, live, release >>

\* The guard reports, and the task is gone.
Finish(t) ==
  /\ step[t] = "Finish"
  /\ acked' = acked \cup {t}
  /\ data' = data \ {t}
  /\ tasks' = tasks \ {t}
  /\ step' = [step EXCEPT ![t] = "Away"]
  /\ ctl' = "Round"
  /\ UNCHANGED << queueVars, start, owner, gateClosed, failed, notifyVars, inbox, stopping,
                  todo, unparked, phase, job, live, release >>

-----------------------------------------------------------------------------
Launch == \E r \in Requests :
  LaunchRefused(r) \/ LaunchAcquire(r) \/ LaunchSend(r) \/ LaunchUnpark(r)

\* A waker is called; a worker ends a job.
Wakeup     == \E r \in Requests : Notify(r) \/ Wake(r)
Completion == ReleaseDone \/ \E r \in Requests : JobDone(r) \/ WorkerGone(r)

Shutdown == CloseGate \/ CloseQueue \/ SendStop \/ StopUnpark

TaskStep(t) ==
  \/ Subscribe(t) \/ Check(t) \/ Interrupt(t) \/ Listener(t)
  \/ PollAcquire(t) \/ Release(t) \/ Unregister(t)
  \/ Stream(t) \/ WatchJob(t) \/ StartError(t) \/ JobOk(t) \/ JobError(t)
  \/ CloseBackend(t) \/ Panic(t) \/ DropPermit(t) \/ Finish(t)

\* What the control thread does when it is not parked.
Control ==
  \/ ReceiveMessage \/ EndDrain \/ EndRound \/ PollStop
  \/ \E t \in Requests : PollTask(t) \/ TaskStep(t)

Next ==
  \/ \E r \in Requests : Start(r) \/ Fail(r) \/ Provide(r)
  \/ Launch \/ Wakeup \/ Completion \/ Sweep \/ Shutdown \/ Control \/ Unparked

Spec == Init /\ [][Next]_vars

\* Threads run and jobs end: the launching threads, the owner once it sweeps
\* the requests, the control thread, which leaves park when it has its token,
\* the wakers that have been taken, and the workers.  The backends accept
\* max_audio_seconds of audio, so that the input and the output of a request
\* come to an end.  Nothing else is assumed of the users.
Fairness ==
  /\ <>[][\A r \in Requests : ~Provide(r)]_vars
  /\ WF_vars(Launch) /\ WF_vars(Shutdown)
  /\ WF_vars(Control) /\ WF_vars(unparked /\ Unparked)
  /\ WF_vars(Wakeup) /\ WF_vars(Completion)
  /\ WF_vars(owner = "Sweep" /\ \E r \in Requests : Fail(r))

FairSpec == Spec /\ Fairness

-----------------------------------------------------------------------------
(* Properties.                                                             *)

\* Every variable of this module has its type.
TypeOK ==
  /\ Queue!TypeOK
  /\ start \in [Requests -> {"Idle", "Gate", "Refused", "Send", "Unpark", "Launched"}]
  /\ owner \in {"Idle", "Sweep", "CloseQueue", "Stop", "Unpark", "Done"}
  /\ gateClosed \in BOOLEAN
  /\ failed \subseteq Requests /\ data \subseteq Requests /\ acked \subseteq Requests
  /\ subscribed \subseteq Requests /\ notifying \subseteq Requests
  /\ inbox \in Seq(Requests \cup {"Stop"})
  /\ stopping \in BOOLEAN
  /\ tasks \subseteq Requests /\ todo \subseteq Requests
  /\ ctl \in {"Drain", "Round", "Task", "Stop", "Parked", "Ended"}
  /\ unparked \in BOOLEAN
  /\ step \in [Requests -> {"Away", "Subscribe", "Check", "Interrupt", "Listener", "Inner",
                            "Release", "Unregister", "Job", "Permit", "Finish"}]
  /\ phase \in [Requests -> {"Admission", "Starting", "Streaming", "Pushing", "Framing",
                             "Closing", "Panicked"}]
  /\ job \in [Requests -> {"None", "Running", "Watched", "Done"}]
  /\ live \subseteq Requests
  /\ release \in {"None", "Running", "Watched", "Done"}

Managed  == {r \in live : phase[r] # "Panicked"}
Launched == {r \in Requests : start[r] \notin {"Idle", "Gate", "Refused"}}

\* A backend runs, from its start to the end of its close, under a permit of
\* its own: never more than max_executions at once.  (A worker whose task
\* panicked is drained outside its permit.)
ExecutionsBounded ==
  /\ \A r \in Managed : permit[r]
  /\ Cardinality(Managed) <= Limit

\* When the guard of a request reports, the request has left the queue,
\* returned its permit and closed its backend.
AcknowledgedIsClean ==
  \A r \in acked :
    /\ r \notin queue \cup Managed
    /\ ~permit[r] /\ outcome[r] # "Granted"

\* Prepared resources are released, and the shutdown completed, when every
\* request that was ever launched has been cleaned up and none can follow.
ReleasedLast ==
  ctl \in {"Stop", "Ended"} \/ release # "None" =>
    /\ Launched \subseteq acked
    /\ tasks = {} /\ inbox = << >> /\ gateClosed /\ closed

\* The waits of t have something to tell it.
Ready(t) ==
  \/ phase[t] \in Interruptible /\ t \in failed
  \/ phase[t] = "Admission" /\ outcome[t] # "Waiting"
  \/ phase[t] = "Streaming" /\ t \in data
  \/ phase[t] \notin {"Admission", "Streaming"} /\ job[t] = "Done"

\* The control thread never parks over work: while it is parked without its
\* token, whatever a task waits for is still to happen or its waker is still
\* to be called, a message sent is followed by an unpark to come, and the
\* stop task is polled once the last task is gone.
NothingMissed ==
  ctl = "Parked" /\ ~unparked =>
    /\ \A t \in tasks : Ready(t) => t \in (notifying \cap subscribed) \cup wakes
    /\ inbox # << >> => owner = "Unpark" \/ \E r \in Requests : start[r] = "Unpark"
    /\ ~(stopping /\ tasks = {} /\ release \in {"None", "Done"})

\* The acknowledgement that the client waits for: a request that failed is
\* cleaned up, wherever it was, and whatever the other requests do.
FailedIsAcknowledged == \A r \in Requests : r \in failed ~> r \in acked

\* A shutdown that was begun completes.
DriverFinishes == owner = "Sweep" ~> ctl = "Ended"
=============================================================================
