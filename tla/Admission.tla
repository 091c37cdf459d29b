----------------------------- MODULE Admission -----------------------------
(***************************************************************************)
(* The execution queue in front of the inference engines:                  *)
(* inference/admission.rs, with the cancellation token of                  *)
(* inference/cancellation.rs that a waiting request listens to.            *)
(*                                                                         *)
(* A waiter is one call of Admission::acquire.  The threads that touch the *)
(* queue are the acquirer (and, later, the owner of its future and of its  *)
(* permit), whoever cancels its token, the deadline thread, and whoever    *)
(* closes the queue.  One action is one critical section of the queue lock *)
(* or of the lock of a token; the wakers and the unpark that follow the    *)
(* unlock are actions of their own.                                        *)
(*                                                                         *)
(* The queue is a set with the arrival number of each waiter, which is all *)
(* that its order is used for.                                             *)
(*                                                                         *)
(* Definitions named Faulty... are plausible mistakes in the code, kept to *)
(* show that the properties notice them; no specification uses them.       *)
(***************************************************************************)
EXTENDS Integers, FiniteSets

CONSTANTS
  Waiters,   \* identities of the calls of acquire
  Limit,     \* Inner.limit: permits
  Queued,    \* Inner.queued: places in the queue
  Timed      \* Inner.timeout is not zero: waiters have deadlines

ASSUME AdmissionAssumption ==
  /\ IsFiniteSet(Waiters)
  /\ Limit \in Nat \ {0}
  /\ Queued \in Nat
  /\ Timed \in BOOLEAN

VARIABLES
  active,     \* State.active
  closed,     \* State.closed
  queue,      \* State.queue
  grants,     \* State.grants
  outcome,    \* Waiter.state.outcome, "None" before acquire
  waker,      \* Waiter.state.waker is set
  arrival,    \* the order of the calls of acquire
  due,        \* waiters whose deadline has passed
  acq,        \* the owner of the waiter: where it is in acquire and drop
  permit,     \* it holds the permit
  awake,      \* its task has been woken since it last polled Pending
  cancelled,  \* the token's flag
  listening,  \* the token holds the listener of this waiter
  canc,       \* Cancellation::cancel: "Idle", "Listeners", "Done"
  wakes,      \* wakers taken under the lock and not yet called
  ping,       \* a thread is about to unpark the deadline thread
  token,      \* its unpark token
  timer,      \* the deadline thread: "Running", "Parked", "Ended"
  alarm       \* the waiters whose earliest deadline it parked for

coreVars   == << active, closed, queue, grants, outcome, waker >>
ownerVars  == << arrival, acq, permit >>
cancelVars == << cancelled, listening, canc >>
timerVars  == << token, timer, alarm >>
vars == << coreVars, ownerVars, cancelVars, timerVars, due, awake, wakes, ping >>

Resolved == {"Cancelled", "DeadlineExceeded", "QueueFull", "ShuttingDown"}

Init ==
  /\ active = 0 /\ closed = FALSE /\ queue = {} /\ grants = {}
  /\ outcome = [w \in Waiters |-> "None"]
  /\ waker = [w \in Waiters |-> FALSE]
  /\ arrival = [w \in Waiters |-> 0]
  /\ due = {}
  /\ acq = [w \in Waiters |-> "None"]
  /\ permit = [w \in Waiters |-> FALSE]
  /\ awake = [w \in Waiters |-> TRUE]
  /\ cancelled = [w \in Waiters |-> FALSE]
  /\ listening = [w \in Waiters |-> FALSE]
  /\ canc = [w \in Waiters |-> "Idle"]
  /\ wakes = {} /\ ping = FALSE /\ token = FALSE
  /\ timer = IF Timed THEN "Running" ELSE "Ended"
  /\ alarm = {}

-----------------------------------------------------------------------------
(* The queue under its lock.                                               *)

\* Grants in any order.
FaultyTurns(live, a) ==
  { G \in SUBSET live :
      /\ closed \/ a >= Limit => G = {}
      /\ G # {} => a + Cardinality(G) <= Limit
      /\ closed \/ a + Cardinality(G) >= Limit \/ G = live }

\* Those who may be granted, of the live waiters, when a permits are out: the
\* first ones, until the permits or the waiters are used up.
Turns(live, a) ==
  { G \in SUBSET live :
      /\ closed \/ a >= Limit => G = {}
      /\ G # {} => a + Cardinality(G) <= Limit
      /\ closed \/ a + Cardinality(G) >= Limit \/ G = live
      /\ \A g \in G, l \in live \ G : arrival[g] < arrival[l] }

\* Inner::dispatch of a queue q with a permits out: expired waiters leave
\* first, then the next ones are granted.
Dispatched(a, q, o) ==
  { [ active  |-> a + Cardinality(G),
      queue   |-> (q \ due) \ G,
      grants  |-> IF G = {} THEN grants ELSE {w \in grants : o[w] = "Granted"} \cup G,
      outcome |-> [w \in Waiters |->
                     IF w \in q \cap due THEN "DeadlineExceeded"
                     ELSE IF w \in G THEN "Granted"
                     ELSE o[w]] ] : G \in Turns(q \ due, a) }

\* Drops the wakers it took.
FaultySettle(s) ==
  LET changed == {w \in Waiters : s.outcome[w] # outcome[w]}
  IN  /\ active' = s.active /\ queue' = s.queue /\ grants' = s.grants
      /\ outcome' = s.outcome
      /\ waker' = [w \in Waiters |-> waker[w] /\ w \notin changed]
      /\ UNCHANGED wakes

\* The critical section leaves the queue in state s; the wakers it took are
\* called after it.
Settle(s) ==
  LET changed == {w \in Waiters : s.outcome[w] # outcome[w]}
  IN  /\ active' = s.active /\ queue' = s.queue /\ grants' = s.grants
      /\ outcome' = s.outcome
      /\ waker' = [w \in Waiters |-> waker[w] /\ w \notin changed]
      /\ wakes' = wakes \cup {w \in changed : waker[w]}

\* Every operation unparks the deadline thread after unlocking, if there is one.
NotifyTimer == ping' = Timed

\* Takes a granted waiter out and keeps its slot.
FaultyRemove(w) ==
  IF outcome[w] \in {"Waiting", "Granted"}
  THEN /\ \E s \in Dispatched(active, queue \ {w}, [outcome EXCEPT ![w] = "Cancelled"]) : Settle(s)
       /\ NotifyTimer
  ELSE UNCHANGED << active, queue, grants, outcome, waker, wakes, ping >>

\* Inner::remove.
Remove(w) ==
  IF outcome[w] \in {"Waiting", "Granted"}
  THEN /\ \E s \in Dispatched(IF outcome[w] = "Granted" THEN active - 1 ELSE active,
                              queue \ {w}, [outcome EXCEPT ![w] = "Cancelled"]) : Settle(s)
       /\ NotifyTimer
  ELSE UNCHANGED << active, queue, grants, outcome, waker, wakes, ping >>

-----------------------------------------------------------------------------
(* Admission::acquire.                                                     *)

Refused(s, w, error) == [s EXCEPT !.outcome[w] = error]

\* The grant is not recorded for close.
FaultyGranted(s, w) ==
  [s EXCEPT !.active = @ + 1, !.outcome[w] = "Granted"]

Granted(s, w) ==
  [s EXCEPT !.active = @ + 1, !.outcome[w] = "Granted",
            !.grants = {x \in @ : s.outcome[x] = "Granted"} \cup {w}]

Placed(s, w) ==
  IF closed THEN Refused(s, w, "ShuttingDown")
  ELSE IF cancelled[w] THEN Refused(s, w, "Cancelled")
  ELSE IF s.active < Limit THEN Granted(s, w)
  ELSE IF Cardinality(s.queue) >= Queued THEN Refused(s, w, "QueueFull")
  ELSE [s EXCEPT !.queue = @ \cup {w}, !.outcome[w] = "Waiting"]

\* Does not unpark the deadline thread.
FaultyAcquire(w) ==
  /\ acq[w] = "None"
  /\ \E s \in Dispatched(active, queue, outcome) : Settle(Placed(s, w))
  /\ arrival' = [arrival EXCEPT ![w] = Cardinality({v \in Waiters : acq[v] # "None"}) + 1]
  /\ acq' = [acq EXCEPT ![w] = "Register"]
  /\ UNCHANGED << closed, permit, cancelVars, timerVars, due, awake, ping >>

Acquire(w) ==
  /\ acq[w] = "None"
  /\ \E s \in Dispatched(active, queue, outcome) : Settle(Placed(s, w))
  /\ NotifyTimer
  /\ arrival' = [arrival EXCEPT ![w] = Cardinality({v \in Waiters : acq[v] # "None"}) + 1]
  /\ acq' = [acq EXCEPT ![w] = "Register"]
  /\ UNCHANGED << closed, permit, cancelVars, timerVars, due, awake >>

\* Does not look at the flag again.
FaultyRegister(w) ==
  /\ acq[w] = "Register"
  /\ acq' = [acq EXCEPT ![w] = "Held"]
  /\ listening' = [listening EXCEPT ![w] = TRUE]
  /\ UNCHANGED << coreVars, arrival, permit, cancelled, canc, timerVars, due, awake, wakes, ping >>

\* Cancellation::register, after the queue was unlocked: a token cancelled in
\* the meantime makes the acquirer run the listener itself.
Register(w) ==
  /\ acq[w] = "Register"
  /\ \/ /\ cancelled[w]
        /\ acq' = [acq EXCEPT ![w] = "RunListener"]
        /\ UNCHANGED listening
     \/ /\ ~cancelled[w]
        /\ acq' = [acq EXCEPT ![w] = "Held"]
        /\ listening' = [listening EXCEPT ![w] = TRUE]
  /\ UNCHANGED << coreVars, arrival, permit, cancelled, canc, timerVars, due, awake, wakes, ping >>

RegisterCancelled(w) ==
  /\ acq[w] = "RunListener"
  /\ Remove(w)
  /\ acq' = [acq EXCEPT ![w] = "Held"]
  /\ UNCHANGED << closed, arrival, permit, cancelVars, timerVars, due, awake >>

-----------------------------------------------------------------------------
(* The future and the permit.                                              *)

\* Acquire::poll, by a task that may poll at any time.
Poll(w) ==
  /\ acq[w] = "Held" /\ outcome[w] # "Consumed"
  /\ \/ /\ outcome[w] = "Waiting"
        /\ waker' = [waker EXCEPT ![w] = TRUE]
        /\ awake' = [awake EXCEPT ![w] = FALSE]
        /\ UNCHANGED << outcome, permit >>
     \/ /\ outcome[w] # "Waiting"
        /\ permit' = [permit EXCEPT ![w] = outcome[w] = "Granted"]
        /\ outcome' = [outcome EXCEPT ![w] = "Consumed"]
        /\ waker' = [waker EXCEPT ![w] = FALSE]
        /\ UNCHANGED awake
  /\ UNCHANGED << active, closed, queue, grants, arrival, acq, cancelVars,
                  timerVars, due, wakes, ping >>

\* Drop of the Acquire: Inner::remove, then its registration goes.
DropAcquire(w) ==
  /\ acq[w] = "Held"
  /\ Remove(w)
  /\ acq' = [acq EXCEPT ![w] = "Unregister"]
  /\ UNCHANGED << closed, arrival, permit, cancelVars, timerVars, due, awake >>

Unregister(w) ==
  /\ acq[w] = "Unregister"
  /\ acq' = [acq EXCEPT ![w] = "Gone"]
  /\ listening' = [listening EXCEPT ![w] = FALSE]
  /\ UNCHANGED << coreVars, arrival, permit, cancelled, canc, timerVars, due, awake, wakes, ping >>

\* Returns the slot and leaves the queue as it is.
FaultyDropPermit(w) ==
  /\ permit[w]
  /\ active' = active - 1
  /\ NotifyTimer
  /\ permit' = [permit EXCEPT ![w] = FALSE]
  /\ UNCHANGED << closed, queue, grants, outcome, waker, wakes, arrival, acq, cancelVars,
                  timerVars, due, awake >>

DropPermit(w) ==
  /\ permit[w]
  /\ \E s \in Dispatched(active - 1, queue, outcome) : Settle(s)
  /\ NotifyTimer
  /\ permit' = [permit EXCEPT ![w] = FALSE]
  /\ UNCHANGED << closed, arrival, acq, cancelVars, timerVars, due, awake >>

-----------------------------------------------------------------------------
(* Cancellation, the deadline thread, close.                               *)

\* Cancellation::cancel takes the listeners, and runs them unlocked.
Cancel(w) ==
  /\ canc[w] = "Idle"
  /\ cancelled' = [cancelled EXCEPT ![w] = TRUE]
  /\ canc' = [canc EXCEPT ![w] = IF listening[w] THEN "Listeners" ELSE "Done"]
  /\ listening' = [listening EXCEPT ![w] = FALSE]
  /\ UNCHANGED << coreVars, ownerVars, timerVars, due, awake, wakes, ping >>

CancelListener(w) ==
  /\ canc[w] = "Listeners"
  /\ Remove(w)
  /\ canc' = [canc EXCEPT ![w] = "Done"]
  /\ UNCHANGED << closed, ownerVars, cancelled, listening, timerVars, due, awake >>

\* Time passes the deadline of w.
Deadline(w) ==
  /\ Timed /\ acq[w] # "None" /\ w \notin due
  /\ due' = due \cup {w}
  /\ UNCHANGED << coreVars, ownerVars, cancelVars, timerVars, awake, wakes, ping >>

\* A waker runs: the task of w is scheduled.
Wake(w) ==
  /\ w \in wakes
  /\ wakes' = wakes \ {w}
  /\ awake' = [awake EXCEPT ![w] = TRUE]
  /\ UNCHANGED << coreVars, ownerVars, cancelVars, timerVars, due, ping >>

Unpark ==
  /\ ping
  /\ ping' = FALSE
  /\ token' = TRUE
  /\ UNCHANGED << coreVars, ownerVars, cancelVars, timer, alarm, due, awake, wakes >>

\* The deadline thread dispatches and parks until the earliest deadline left.
TimerRun ==
  /\ timer = "Running"
  /\ \E s \in Dispatched(active, queue, outcome) : Settle(s)
  /\ alarm' = queue'
  /\ timer' = IF closed THEN "Ended" ELSE "Parked"
  /\ UNCHANGED << closed, ownerVars, cancelVars, token, due, awake, ping >>

TimerDue == token \/ alarm \cap due # {}

\* park may also return for no reason.
TimerWake ==
  /\ timer = "Parked"
  /\ timer' = "Running"
  /\ token' = FALSE
  /\ UNCHANGED << coreVars, ownerVars, cancelVars, alarm, due, awake, wakes, ping >>

\* Takes every recorded grant for one not yet polled.
FaultyClose ==
  /\ Settle([ active  |-> active - Cardinality(grants),
               queue   |-> {},
               grants  |-> {},
               outcome |-> [w \in Waiters |-> IF w \in queue \cup grants
                                              THEN "ShuttingDown" ELSE outcome[w]] ])
  /\ closed' = TRUE
  /\ NotifyTimer
  /\ UNCHANGED << ownerVars, cancelVars, timerVars, due, awake >>

Close ==
  /\ LET revoked == {w \in grants : outcome[w] = "Granted"}
     IN  Settle([ active  |-> active - Cardinality(revoked),
                  queue   |-> {},
                  grants  |-> {},
                  outcome |-> [w \in Waiters |-> IF w \in queue \cup revoked
                                                 THEN "ShuttingDown" ELSE outcome[w]] ])
  /\ closed' = TRUE
  /\ NotifyTimer
  /\ UNCHANGED << ownerVars, cancelVars, timerVars, due, awake >>

-----------------------------------------------------------------------------
Next ==
  \/ \E w \in Waiters :
       \/ Acquire(w) \/ Register(w) \/ RegisterCancelled(w)
       \/ Poll(w) \/ DropAcquire(w) \/ Unregister(w) \/ DropPermit(w)
       \/ Cancel(w) \/ CancelListener(w) \/ Deadline(w) \/ Wake(w)
  \/ Unpark \/ TimerRun \/ TimerWake \/ Close

Spec == Init /\ [][Next]_vars

\* Time passes, and the queue's own thread and the unpark that each operation
\* ends with are run.  Nothing is assumed of the tasks that wait or run.
Fairness ==
  /\ \A w \in Waiters : WF_vars(Deadline(w))
  /\ WF_vars(Unpark)
  /\ WF_vars(TimerRun)
  /\ WF_vars(TimerDue /\ TimerWake)

FairSpec == Spec /\ Fairness

-----------------------------------------------------------------------------
(* Properties.                                                             *)

\* Every variable has its type.
TypeOK ==
  /\ active \in 0..Limit
  /\ closed \in BOOLEAN
  /\ queue \subseteq Waiters /\ grants \subseteq Waiters
  /\ outcome \in [Waiters -> {"None", "Waiting", "Granted", "Consumed"} \cup Resolved]
  /\ waker \in [Waiters -> BOOLEAN]
  /\ arrival \in [Waiters -> Nat]
  /\ due \subseteq Waiters
  /\ acq \in [Waiters -> {"None", "Register", "RunListener", "Held", "Unregister", "Gone"}]
  /\ permit \in [Waiters -> BOOLEAN]
  /\ awake \in [Waiters -> BOOLEAN]
  /\ cancelled \in [Waiters -> BOOLEAN]
  /\ listening \in [Waiters -> BOOLEAN]
  /\ canc \in [Waiters -> {"Idle", "Listeners", "Done"}]
  /\ wakes \subseteq Waiters
  /\ ping \in BOOLEAN /\ token \in BOOLEAN
  /\ timer \in {"Running", "Parked", "Ended"}
  /\ alarm \subseteq Waiters

Reserved == {w \in Waiters : outcome[w] = "Granted"}
Running  == {w \in Waiters : permit[w]}

\* The count of permits out is the waiters granted and not yet polled plus the
\* permits held, whatever order grant, cancel, drop and close run in: no slot
\* is lost or used twice.
CapacityExact ==
  /\ active = Cardinality(Reserved) + Cardinality(Running)
  /\ active <= Limit

\* No one waits while a slot is free: every operation that frees one hands it on.
WorkConserving == queue # {} => active = Limit

\* Requests run in the order they arrived: no one is granted before a request
\* that came earlier and still waits.
FirstComeFirstServed ==
  \A w \in queue, v \in Reserved \cup Running : arrival[v] < arrival[w]

\* After close nobody waits, nobody is reserved a slot, and no one will be: the
\* permits still out are the ones delivered before.
CloseRevokes == closed => queue = {} /\ Reserved = {}

\* Once cancel has returned and acquire has returned, the waiter neither waits
\* nor holds a reservation: a cancel between acquire's test of the flag and
\* its registration is not lost.
CancelIsNotLost ==
  \A w \in Waiters :
    canc[w] = "Done" /\ acq[w] \notin {"None", "Register", "RunListener"}
      => outcome[w] \notin {"Waiting", "Granted"}

\* A task that polled Pending has its waker stored while it waits, and called
\* when it no longer does.
NoLostWakeup ==
  \A w \in Waiters :
    acq[w] = "Held" /\ ~awake[w] =>
      \/ outcome[w] = "Waiting" /\ waker[w]
      \/ w \in wakes
      \/ outcome[w] = "Consumed"

\* A waiter with a deadline leaves the queue, even if its future is never
\* polled, no permit is returned, and nothing else calls the queue.
NobodyWaitsForEver == \A w \in Waiters : w \in queue ~> w \notin queue
=============================================================================
