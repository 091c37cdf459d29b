--------------------------- MODULE ClientSession ---------------------------
(***************************************************************************)
(* The client core with all its requests: client/core.rs (registry,        *)
(* storage budget, deadlines, shutdown), client/session.rs (the user's     *)
(* endpoints), client/driver.rs (the backend's endpoints) and              *)
(* client/handle.rs (start and shutdown), over the per-request transitions *)
(* of RequestState.tla.                                                    *)
(*                                                                         *)
(* A request is used concurrently by the actors below, each its own thread *)
(* or task.  One action is one critical section of the request lock (or of *)
(* the core lock).  What an actor does after unlocking, in the order the   *)
(* code does it, is its continuation pc[r][a], with the storage leases it  *)
(* then owns in hold[r][a]:                                                *)
(*   Stage     input/writer: reserved a lease, about to stage the item     *)
(*   Apply     drop the leases (Request::apply without retirement)         *)
(*   Remove    drop the leases, then remove the request from the registry  *)
(*   Changed   drop the leases, then Request::changed()                    *)
(*   Reject    writer: drop the leases, then fail the request              *)
(*   Ok, Backend   guard: drop the settings lease, then acknowledge cleanup *)
(*             with that result                                            *)
(***************************************************************************)
EXTENDS RequestState, FiniteSets, FiniteSetsExt

CONSTANTS
  Requests,           \* identities of the requests the client may start
  WithDeadline,       \* those started with RequestOptions.timeout
  MaxRequests,        \* limits.max_requests
  MaxBufferedBytes,   \* limits.max_buffered_bytes
  SettingsBytes,      \* charge of a request's settings
  ItemBytes,          \* the charges of chunks and events that are tried
  MaxChunks,          \* bound: chunks queued by the user, per request
  MaxEvents           \* bound: events staged by the backend, per request

ASSUME CoreAssumption ==
  /\ WithDeadline \subseteq Requests
  /\ MaxRequests \in Nat \ {0}
  /\ MaxBufferedBytes \in Nat \ {0}
  /\ SettingsBytes \in 1..MaxBufferedBytes
  /\ MaxChunks \in Nat /\ MaxEvents \in Nat
  \* Limits::validate: an item fits its empty queue and the empty budget.
  /\ ItemBytes \subseteq 1..MaxBufferedBytes
  /\ \A b \in ItemBytes : b <= InputQueueBytes /\ b <= OutputQueueBytes

\* The identities of requests are 64-bit numbers (Global.next).
ASSUME RequestsAssumption == IsFiniteSet(Requests)

VARIABLES
  closing,        \* Global.closing
  driverClosed,   \* Global.driver_closed: "None", or the first result
  registered,     \* keys of Global.requests
  bytes,          \* Global.bytes
  shutdown,       \* the thread inside Owner::shutdown: "None", "Failing", "Driver", "Done"
  toFail,         \* requests it has still to fail
  st,             \* Request.state
  launch,         \* Client::start: "Idle", "Launching", "Started", "Refused"
  inputEnd,       \* the Input handle: "None", "Open", "Sending", "Gone"
  outputEnd,      \* the Output handle: "None", "Receiving", "Ended", "Gone"
  packet,         \* lease of the InputPacket the backend holds, 0 for none
  writer,         \* the Writer: "Idle", "Emitting", "Gone"
  guard,          \* the WorkerGuard: "None", "Held", "Done"
  pc, hold,       \* continuation and leases of each actor
  accepted, taken \* history: chunks queued by the user, taken by the backend

coreVars    == << closing, driverClosed, registered, bytes, shutdown, toFail >>
endVars     == << launch, inputEnd, outputEnd, packet, writer, guard >>
historyVars == << accepted, taken >>
vars        == << coreVars, st, endVars, pc, hold, historyVars >>

Actor == {"input", "output", "control", "timer", "owner", "reader", "writer", "guard"}

\* What a guard or a driver reports on finishing.
Result == {"Ok", "Backend"}

\* Nothing is left for actor a to do after its last critical section.
Ready(r, a) == pc[r][a] = "Idle"

Init ==
  /\ closing = FALSE
  /\ driverClosed = "None"
  /\ registered = {}
  /\ bytes = 0
  /\ shutdown = "None"
  /\ toFail = {}
  /\ st = [r \in Requests |-> Fresh]
  /\ launch = [r \in Requests |-> "Idle"]
  /\ inputEnd = [r \in Requests |-> "None"]
  /\ outputEnd = [r \in Requests |-> "None"]
  /\ packet = [r \in Requests |-> 0]
  /\ writer = [r \in Requests |-> "Gone"]
  /\ guard = [r \in Requests |-> "None"]
  /\ pc = [r \in Requests |-> [a \in Actor |-> "Idle"]]
  /\ hold = [r \in Requests |-> [a \in Actor |-> 0]]
  /\ accepted = [r \in Requests |-> 0]
  /\ taken = [r \in Requests |-> 0]

\* core.reserve(b) succeeds.
BudgetFor(b) == b <= MaxBufferedBytes - bytes

Continue(r, a, next, b) ==
  /\ pc' = [pc EXCEPT ![r][a] = next]
  /\ hold' = [hold EXCEPT ![r][a] = b]

\* The critical section of a took r to state s and discarded b bytes of leases.
Transition(r, a, s, b) ==
  /\ st' = [st EXCEPT ![r] = s]
  /\ Continue(r, a, IF s.registration # st[r].registration THEN "Remove"
                    ELSE IF b > 0 THEN "Apply" ELSE "Idle", b)

\* Request::fail up to the unlock.
FailRequest(r, a, error) ==
  Transition(r, a, Fail(st[r], error), DiscardedByFail(st[r]))

-----------------------------------------------------------------------------
(* What the actors do between and after their critical sections.           *)

DropLeases(r, a) ==
  /\ pc[r][a] \in {"Apply", "Remove", "Changed", "Reject"} \cup Result
  /\ hold[r][a] > 0
  /\ bytes' = bytes - hold[r][a]
  /\ Continue(r, a, IF pc[r][a] = "Apply" THEN "Idle" ELSE pc[r][a], 0)
  /\ UNCHANGED << closing, driverClosed, registered, shutdown, toFail, st,
                  endVars, historyVars >>

Unregister(r, a) ==
  /\ pc[r][a] = "Remove" /\ hold[r][a] = 0
  /\ registered' = registered \ {r}
  /\ pc' = [pc EXCEPT ![r][a] = "Idle"]
  /\ UNCHANGED << closing, driverClosed, bytes, shutdown, toFail, st, hold,
                  endVars, historyVars >>

Changed(r, a) ==
  /\ pc[r][a] = "Changed" /\ hold[r][a] = 0
  /\ Transition(r, a, Retire(st[r]), 0)
  /\ UNCHANGED << coreVars, endVars, historyVars >>

-----------------------------------------------------------------------------
(* handle.rs: Client::start.  Register is Request::register; LaunchOk and  *)
(* LaunchError are the return of Driver::launch.                           *)

\* Does not look at the closing flag.
FaultyRegisterWhileClosing(r) ==
  /\ launch[r] = "Idle"
  /\ Cardinality(registered) < MaxRequests
  /\ BudgetFor(SettingsBytes)
  /\ bytes' = bytes + SettingsBytes
  /\ registered' = registered \cup {r}
  /\ launch' = [launch EXCEPT ![r] = "Launching"]
  /\ guard' = [guard EXCEPT ![r] = "Held"]
  /\ hold' = [hold EXCEPT ![r]["guard"] = SettingsBytes]
  /\ UNCHANGED << closing, driverClosed, shutdown, toFail, st, inputEnd, outputEnd,
                  packet, writer, pc, historyVars >>

Register(r) ==
  /\ launch[r] = "Idle"
  /\ ~closing
  /\ Cardinality(registered) < MaxRequests
  /\ BudgetFor(SettingsBytes)
  /\ bytes' = bytes + SettingsBytes
  /\ registered' = registered \cup {r}
  /\ launch' = [launch EXCEPT ![r] = "Launching"]
  /\ guard' = [guard EXCEPT ![r] = "Held"]
  /\ hold' = [hold EXCEPT ![r]["guard"] = SettingsBytes]
  /\ UNCHANGED << closing, driverClosed, shutdown, toFail, st, inputEnd, outputEnd,
                  packet, writer, pc, historyVars >>

LaunchOk(r) ==
  /\ launch[r] = "Launching"
  /\ launch' = [launch EXCEPT ![r] = "Started"]
  /\ inputEnd' = [inputEnd EXCEPT ![r] = "Open"]
  /\ outputEnd' = [outputEnd EXCEPT ![r] = "Receiving"]
  /\ writer' = [writer EXCEPT ![r] = "Idle"]
  /\ UNCHANGED << coreVars, st, packet, guard, pc, hold, historyVars >>

\* The driver drops the worker session before it returns (or unwinds), and
\* with it the guard; the failures start() adds afterwards find the request
\* already failed, and the session it drops was never handed out.
LaunchError(r) ==
  /\ launch[r] = "Launching"
  /\ launch' = [launch EXCEPT ![r] = "Refused"]
  /\ guard' = [guard EXCEPT ![r] = "Done"]
  /\ pc' = [pc EXCEPT ![r]["guard"] = "Backend"]
  /\ UNCHANGED << coreVars, st, inputEnd, outputEnd, packet, writer, hold, historyVars >>

-----------------------------------------------------------------------------
(* session.rs: the Input endpoint.                                         *)

\* Input::stage up to the lease; a chunk over budget or too large is refused.
SendReserve(r, b) ==
  /\ inputEnd[r] = "Open" /\ Ready(r, "input")
  /\ accepted[r] < MaxChunks
  /\ BudgetFor(b)
  /\ bytes' = bytes + b
  /\ Continue(r, "input", "Stage", b)
  /\ UNCHANGED << closing, driverClosed, registered, shutdown, toFail, st, endVars, historyVars >>

SendStage(r) ==
  /\ inputEnd[r] = "Open" /\ pc[r]["input"] = "Stage"
  /\ \/ /\ InputOpen(st[r])
        /\ st' = [st EXCEPT ![r] = StageInput(@, hold[r]["input"])]
        /\ inputEnd' = [inputEnd EXCEPT ![r] = "Sending"]
        /\ Continue(r, "input", "Idle", 0)
     \/ /\ ~InputOpen(st[r])
        /\ Continue(r, "input", "Apply", hold[r]["input"])
        /\ UNCHANGED << st, inputEnd >>
  /\ UNCHANGED << coreVars, launch, outputEnd, packet, writer, guard, historyVars >>

\* SendChunk::poll that returns Ready.
PollSend(r) ==
  /\ inputEnd[r] = "Sending" /\ Ready(r, "input")
  /\ \/ /\ Failed(st[r])
        /\ UNCHANGED << st, accepted >>
     \/ /\ ~Failed(st[r])
        /\ InputCapacity(st[r], st[r].pendingInput)
        /\ st' = [st EXCEPT ![r] = AcceptInput(@)]
        /\ accepted' = [accepted EXCEPT ![r] = @ + 1]
  /\ inputEnd' = [inputEnd EXCEPT ![r] = "Open"]
  /\ Continue(r, "input", "Changed", 0)
  /\ UNCHANGED << coreVars, launch, outputEnd, packet, writer, guard, taken >>

\* Takes the staged chunk and leaks its lease.
FaultyDropSend(r) ==
  /\ inputEnd[r] = "Sending" /\ Ready(r, "input")
  /\ st' = [st EXCEPT ![r] = AbandonInput(@)]
  /\ inputEnd' = [inputEnd EXCEPT ![r] = "Open"]
  /\ Continue(r, "input", "Changed", 0)
  /\ UNCHANGED << coreVars, launch, outputEnd, packet, writer, guard, historyVars >>

\* Drop of a SendChunk that has not completed.
DropSend(r) ==
  /\ inputEnd[r] = "Sending" /\ Ready(r, "input")
  /\ st' = [st EXCEPT ![r] = AbandonInput(@)]
  /\ inputEnd' = [inputEnd EXCEPT ![r] = "Open"]
  /\ Continue(r, "input", "Changed", st[r].pendingInput)
  /\ UNCHANGED << coreVars, launch, outputEnd, packet, writer, guard, historyVars >>

\* Input::try_send holds the request lock while it reserves.
TrySend(r, b) ==
  /\ inputEnd[r] = "Open" /\ Ready(r, "input")
  /\ accepted[r] < MaxChunks
  /\ InputOpen(st[r])
  /\ InputCapacity(st[r], b)
  /\ BudgetFor(b)
  /\ bytes' = bytes + b
  /\ st' = [st EXCEPT ![r] = EnqueueInput(@, b)]
  /\ accepted' = [accepted EXCEPT ![r] = @ + 1]
  /\ Continue(r, "input", "Changed", 0)
  /\ UNCHANGED << closing, driverClosed, registered, shutdown, toFail, endVars, taken >>

\* Finish::poll; on an error the Input it drops finds the request failed.
FinishSending(r) ==
  /\ inputEnd[r] = "Open" /\ Ready(r, "input")
  /\ inputEnd' = [inputEnd EXCEPT ![r] = "Gone"]
  /\ \/ /\ Failed(st[r])
        /\ UNCHANGED << st, pc, hold >>
     \/ /\ ~Failed(st[r])
        /\ st' = [st EXCEPT ![r] = FinishInput(@)]
        /\ Continue(r, "input", "Changed", 0)
  /\ UNCHANGED << coreVars, launch, outputEnd, packet, writer, guard, historyVars >>

\* Drop of an Input, or of a Finish never polled.
DropInput(r) ==
  /\ inputEnd[r] = "Open" /\ Ready(r, "input")
  /\ inputEnd' = [inputEnd EXCEPT ![r] = "Gone"]
  /\ FailRequest(r, "input", "Cancelled")
  /\ UNCHANGED << coreVars, launch, outputEnd, packet, writer, guard, historyVars >>

-----------------------------------------------------------------------------
(* session.rs: the Output endpoint and the Control.                        *)

\* Looks at the outcome before the queue.
FaultyReceive(r) ==
  /\ outputEnd[r] = "Receiving" /\ Ready(r, "output")
  /\ \/ /\ st[r].outcome # "Running"
        /\ st' = [st EXCEPT ![r] = ConsumeTerminal(@)]
        /\ outputEnd' = [outputEnd EXCEPT ![r] = "Ended"]
        /\ Continue(r, "output", "Changed", 0)
     \/ /\ st[r].outcome = "Running" /\ st[r].output # << >>
        /\ st' = [st EXCEPT ![r] = PopOutput(@)]
        /\ Continue(r, "output", "Changed", Head(st[r].output).bytes)
        /\ UNCHANGED outputEnd
  /\ UNCHANGED << coreVars, launch, inputEnd, packet, writer, guard, historyVars >>

\* Receive::poll that returns Ready: the error, else an event, else Completed.
Receive(r) ==
  /\ outputEnd[r] = "Receiving" /\ Ready(r, "output")
  /\ \/ /\ Failed(st[r]) \/ (st[r].output = << >> /\ st[r].outcome = "Success")
        /\ st' = [st EXCEPT ![r] = ConsumeTerminal(@)]
        /\ outputEnd' = [outputEnd EXCEPT ![r] = "Ended"]
        /\ Continue(r, "output", "Changed", 0)
     \/ /\ ~Failed(st[r]) /\ st[r].output # << >>
        /\ st' = [st EXCEPT ![r] = PopOutput(@)]
        /\ Continue(r, "output", "Changed", Head(st[r].output).bytes)
        /\ UNCHANGED outputEnd
  /\ UNCHANGED << coreVars, launch, inputEnd, packet, writer, guard, historyVars >>

DropOutput(r) ==
  /\ outputEnd[r] = "Receiving" /\ Ready(r, "output")
  /\ outputEnd' = [outputEnd EXCEPT ![r] = "Gone"]
  /\ FailRequest(r, "output", "Cancelled")
  /\ UNCHANGED << coreVars, launch, inputEnd, packet, writer, guard, historyVars >>

\* Control::cancel, from any clone at any time.
Cancel(r) ==
  /\ launch[r] = "Started" /\ Ready(r, "control")
  /\ FailRequest(r, "control", "Cancelled")
  /\ UNCHANGED << coreVars, endVars, historyVars >>

\* The deadline thread finds an expired request in the registry.
Expire(r) ==
  /\ r \in WithDeadline \cap registered /\ Ready(r, "timer")
  /\ FailRequest(r, "timer", "DeadlineExceeded")
  /\ UNCHANGED << coreVars, endVars, historyVars >>

-----------------------------------------------------------------------------
(* driver.rs: the Reader, the Writer and the WorkerGuard.                  *)

\* Reader::poll_recv that returns Ok; the packet keeps the lease of its chunk.
ReadInput(r) ==
  /\ launch[r] = "Started" /\ Ready(r, "reader") /\ packet[r] = 0
  /\ ~Failed(st[r])
  /\ \/ /\ st[r].input # << >>
        /\ packet' = [packet EXCEPT ![r] = Head(st[r].input)]
        /\ st' = [st EXCEPT ![r] = PopInput(@)]
        /\ taken' = [taken EXCEPT ![r] = @ + 1]
     \/ /\ AtEof(st[r])
        /\ st' = [st EXCEPT ![r] = ObserveEof(@)]
        /\ UNCHANGED << packet, taken >>
  /\ Continue(r, "reader", "Changed", 0)
  /\ UNCHANGED << coreVars, launch, inputEnd, outputEnd, writer, guard, accepted >>

\* Gives the lease back and keeps it.
FaultyReleasePacket(r) ==
  /\ packet[r] > 0
  /\ bytes' = bytes - packet[r]
  /\ UNCHANGED << closing, driverClosed, registered, shutdown, toFail, st, endVars,
                  pc, hold, historyVars >>

ReleasePacket(r) ==
  /\ packet[r] > 0
  /\ bytes' = bytes - packet[r]
  /\ packet' = [packet EXCEPT ![r] = 0]
  /\ UNCHANGED << closing, driverClosed, registered, shutdown, toFail, st, launch,
                  inputEnd, outputEnd, writer, guard, pc, hold, historyVars >>

\* Writer::stage up to the lease.
EmitReserve(r, b) ==
  /\ writer[r] = "Idle" /\ Ready(r, "writer")
  /\ st[r].received < MaxEvents \/ st[r].notice = "NotSeen"
  /\ BudgetFor(b)
  /\ bytes' = bytes + b
  /\ Continue(r, "writer", "Stage", b)
  /\ UNCHANGED << closing, driverClosed, registered, shutdown, toFail, st, endVars, historyVars >>

\* Writer::emit of an event the budget has no room for.
EmitOverBudget(r, b) ==
  /\ writer[r] = "Idle" /\ Ready(r, "writer")
  /\ st[r].received < MaxEvents \/ st[r].notice = "NotSeen"
  /\ ~BudgetFor(b)
  /\ FailRequest(r, "writer", "Backend")
  /\ UNCHANGED << coreVars, endVars, historyVars >>

\* Writer::stage with the lease: `finished` is the ProcessingFinished event.
EmitStage(r, finished) ==
  /\ pc[r]["writer"] = "Stage"
  /\ finished \/ st[r].received < MaxEvents
  /\ \/ /\ OutputStageable(st[r], finished)
        /\ st' = [st EXCEPT ![r] = StageOutput(@, finished, hold[r]["writer"])]
        /\ writer' = [writer EXCEPT ![r] = "Emitting"]
        /\ Continue(r, "writer", "Idle", 0)
     \/ /\ ~OutputStageable(st[r], finished)
        /\ Continue(r, "writer", "Reject", hold[r]["writer"])
        /\ UNCHANGED << st, writer >>
  /\ UNCHANGED << coreVars, launch, inputEnd, outputEnd, packet, guard, historyVars >>

\* Writer::emit fails the request with the error of stage_output.
EmitRejected(r) ==
  /\ pc[r]["writer"] = "Reject" /\ hold[r]["writer"] = 0
  /\ FailRequest(r, "writer", "Backend")
  /\ UNCHANGED << coreVars, endVars, historyVars >>

\* Emit::poll that returns Ready.
PollEmit(r) ==
  /\ writer[r] = "Emitting" /\ Ready(r, "writer")
  /\ \/ Failed(st[r]) /\ UNCHANGED st
     \/ /\ ~Failed(st[r])
        /\ OutputCapacity(st[r], st[r].pendingOutput.bytes)
        /\ st' = [st EXCEPT ![r] = AcceptOutput(@)]
  /\ writer' = [writer EXCEPT ![r] = "Idle"]
  /\ Continue(r, "writer", "Changed", 0)
  /\ UNCHANGED << coreVars, launch, inputEnd, outputEnd, packet, guard, historyVars >>

\* Drop of an Emit that has not completed.
DropEmit(r) ==
  /\ writer[r] = "Emitting" /\ Ready(r, "writer")
  /\ writer' = [writer EXCEPT ![r] = "Idle"]
  /\ FailRequest(r, "writer", "Backend")
  /\ UNCHANGED << coreVars, launch, inputEnd, outputEnd, packet, guard, historyVars >>

\* WorkerGuard::fail, between two emits of the same task.
BackendFail(r) ==
  /\ guard[r] = "Held" /\ writer[r] = "Idle" /\ Ready(r, "writer")
  /\ FailRequest(r, "writer", "Backend")
  /\ UNCHANGED << coreVars, endVars, historyVars >>

\* WorkerGuard::finish, or its drop (result "Backend").
GuardFinish(r, result) ==
  /\ guard[r] = "Held" /\ launch[r] = "Started"
  /\ guard' = [guard EXCEPT ![r] = "Done"]
  /\ pc' = [pc EXCEPT ![r]["guard"] = result]
  /\ UNCHANGED << coreVars, st, launch, inputEnd, outputEnd, packet, writer, hold, historyVars >>

\* Request::closed.
Close(r) ==
  /\ pc[r]["guard"] \in Result /\ hold[r]["guard"] = 0
  /\ Transition(r, "guard", CompleteCleanup(st[r], pc[r]["guard"]),
                DiscardedByCleanup(st[r], pc[r]["guard"]))
  /\ UNCHANGED << coreVars, endVars, historyVars >>

-----------------------------------------------------------------------------
(* Core::begin_shutdown, Owner::shutdown and DriverShutdown.               *)

BeginShutdown ==
  /\ ~closing
  /\ closing' = TRUE
  /\ shutdown' = "Failing"
  /\ toFail' = registered
  /\ UNCHANGED << driverClosed, registered, bytes, st, endVars, pc, hold, historyVars >>

\* One thread fails the requests in turn, applying each failure.
OwnerReady == \A r \in Requests : Ready(r, "owner")

ShutdownFail(r) ==
  /\ shutdown = "Failing" /\ r \in toFail /\ OwnerReady
  /\ toFail' = toFail \ {r}
  /\ FailRequest(r, "owner", "ShuttingDown")
  /\ UNCHANGED << closing, driverClosed, registered, bytes, shutdown, endVars, historyVars >>

\* Tells the driver before the sweep of the requests is over.
FaultyShutdownDriver ==
  /\ shutdown = "Failing" /\ OwnerReady
  /\ shutdown' = "Driver"
  /\ UNCHANGED << closing, driverClosed, registered, bytes, toFail, st, endVars, pc, hold, historyVars >>

ShutdownDriver ==
  /\ shutdown = "Failing" /\ toFail = {} /\ OwnerReady
  /\ shutdown' = "Driver"
  /\ UNCHANGED << closing, driverClosed, registered, bytes, toFail, st, endVars, pc, hold, historyVars >>

\* DriverShutdown::finish, or its drop (result "Backend").
DriverFinish(result) ==
  /\ shutdown = "Driver"
  /\ shutdown' = "Done"
  /\ driverClosed' = IF driverClosed = "None" THEN result ELSE driverClosed
  /\ UNCHANGED << closing, registered, bytes, toFail, st, endVars, pc, hold, historyVars >>

-----------------------------------------------------------------------------
Continuation(r) == \E a \in Actor : DropLeases(r, a) \/ Unregister(r, a) \/ Changed(r, a)

Start(r) == Register(r) \/ LaunchOk(r) \/ LaunchError(r)

User(r) ==
  \/ \E b \in ItemBytes : SendReserve(r, b) \/ TrySend(r, b)
  \/ SendStage(r) \/ PollSend(r) \/ DropSend(r)
  \/ FinishSending(r) \/ DropInput(r)
  \/ Receive(r) \/ DropOutput(r) \/ Cancel(r)

Backend(r) ==
  \/ ReadInput(r) \/ ReleasePacket(r)
  \/ \E b \in ItemBytes : EmitReserve(r, b) \/ EmitOverBudget(r, b)
  \/ \E finished \in BOOLEAN : EmitStage(r, finished)
  \/ EmitRejected(r) \/ PollEmit(r) \/ DropEmit(r) \/ BackendFail(r)
  \/ \E result \in Result : GuardFinish(r, result)
  \/ Close(r)

Shutdown ==
  \/ BeginShutdown
  \/ \E r \in Requests : ShutdownFail(r)
  \/ ShutdownDriver
  \/ \E result \in Result : DriverFinish(result)

Next ==
  \/ \E r \in Requests : Start(r) \/ Continuation(r) \/ User(r) \/ Expire(r) \/ Backend(r)
  \/ Shutdown

Spec == Init /\ [][Next]_vars

(***************************************************************************)
(* Fairness.  A thread that has left a critical section runs its           *)
(* continuation; Client::start and the thread in Owner::shutdown return;   *)
(* the deadline thread is woken by park_timeout; a driver finishes, and    *)
(* acknowledges the requests that failed (WorkerGuard::cancelled tells     *)
(* it), as driver.rs asks of it.  Nothing is assumed of the user, nor of   *)
(* the backend of a request that has not failed.                           *)
(***************************************************************************)
Fairness ==
  /\ \A r \in Requests :
       /\ \A a \in Actor : WF_vars(DropLeases(r, a) \/ Unregister(r, a) \/ Changed(r, a))
       /\ WF_vars(LaunchOk(r) \/ LaunchError(r))
       /\ WF_vars(SendStage(r))
       /\ WF_vars(\E finished \in BOOLEAN : EmitStage(r, finished))
       /\ WF_vars(EmitRejected(r))
       /\ WF_vars(Expire(r))
       /\ WF_vars(Failed(st[r]) /\ \E result \in Result : GuardFinish(r, result))
       /\ WF_vars(Close(r))
       /\ WF_vars(ShutdownFail(r))
  /\ WF_vars(ShutdownDriver)
  /\ WF_vars(\E result \in Result : DriverFinish(result))

FairSpec == Spec /\ Fairness

-----------------------------------------------------------------------------
(* Properties.                                                             *)

Continuations == {"Idle", "Stage", "Apply", "Remove", "Changed", "Reject"} \cup Result

\* Every variable has its type.
TypeOK ==
  /\ closing \in BOOLEAN
  /\ driverClosed \in {"None"} \cup Result
  /\ registered \subseteq Requests
  /\ bytes \in 0..MaxBufferedBytes
  /\ shutdown \in {"None", "Failing", "Driver", "Done"}
  /\ toFail \subseteq Requests
  /\ st \in [Requests -> State]
  /\ launch \in [Requests -> {"Idle", "Launching", "Started", "Refused"}]
  /\ inputEnd \in [Requests -> {"None", "Open", "Sending", "Gone"}]
  /\ outputEnd \in [Requests -> {"None", "Receiving", "Ended", "Gone"}]
  /\ packet \in [Requests -> Nat]
  /\ writer \in [Requests -> {"Idle", "Emitting", "Gone"}]
  /\ guard \in [Requests -> {"None", "Held", "Done"}]
  /\ pc \in [Requests -> [Actor -> Continuations]]
  /\ hold \in [Requests -> [Actor -> Nat]]
  /\ accepted \in [Requests -> Nat]
  /\ taken \in [Requests -> Nat]

\* The storage of one request: what its state buffers, the packet its backend
\* holds, and the leases that actors still own outside the locks.
Charge(r) ==
  BufferedBytes(st[r]) + packet[r] + MapThenSumSet(LAMBDA a : hold[r][a], Actor)

\* The global counter is exactly the storage held somewhere: no path of the
\* endpoints, of a failure or of cleanup loses a lease or returns one twice.
BudgetExact == bytes = MapThenSumSet(Charge, Requests)

\* The byte counters of the two queues match their contents and stay in their
\* limits, across sends, receives, and failures that empty the queues.
QueueAccounting ==
  \A r \in Requests :
    /\ st[r].inputBytes = ChunkBytes(st[r].input)
    /\ st[r].outputBytes = EventBytes(st[r].output)
    /\ st[r].inputBytes <= InputQueueBytes /\ Len(st[r].input) <= InputQueueItems
    /\ st[r].outputBytes <= OutputQueueBytes /\ Len(st[r].output) <= OutputQueueItems

\* Until a failure, the events not yet received are queued in the order the
\* backend staged them, with no gap: none is lost, repeated or overtaken.
OutputInOrder ==
  \A r \in Requests :
    ~Failed(st[r]) =>
      LET queued   == Append(st[r].output, st[r].pendingOutput)
          numbered == {i \in DOMAIN queued : queued[i].n # 0}
      IN  /\ st[r].delivered <= st[r].received
          /\ {queued[i].n : i \in numbered} = st[r].delivered + 1 .. st[r].received
          /\ \A i, j \in numbered : i < j => queued[i].n < queued[j].n

\* A user who receives Completed has received every event the backend staged,
\* the backend has taken every chunk the user queued and seen the end of
\* input, and cleanup was acknowledged without error.
CompletedIsComplete ==
  \A r \in Requests :
    outputEnd[r] = "Ended" /\ ~Failed(st[r]) =>
      /\ st[r].delivered = st[r].received
      /\ st[r].pendingOutput = NoEvent
      /\ taken[r] = accepted[r] /\ inputEnd[r] = "Gone"
      /\ st[r].inputPhase = "EofObserved"
      /\ st[r].cleanup = "Ok"

Removing(r) == {a \in Actor : pc[r][a] = "Remove"}

\* A request is in the registry from its start until one actor, and only one,
\* removes it; by then its backend has returned the guard and the settings,
\* and the user was told how it ended or it has failed.
LeavesAfterCleanup ==
  \A r \in Requests :
    /\ \A a, b \in Removing(r) : a = b
    /\ launch[r] # "Idle" =>
         (r \in registered <=> st[r].registration = "Registered" \/ Removing(r) # {})
    /\ st[r].registration = "Retired" =>
         /\ guard[r] = "Done" /\ pc[r]["guard"] \notin Result
         /\ st[r].cleanup # "Pending"
         /\ Failed(st[r]) \/ outputEnd[r] = "Ended"

\* When the driver is told to shut down, every request still registered has
\* failed or has delivered its terminal: no request slips in between the
\* closing flag and the sweep.
DriverSeesFailedRequests ==
  shutdown \in {"Driver", "Done"} => \A r \in registered : FailIgnored(st[r])

\* What Shutdown::poll waits for.
ShutdownReady == registered = {} /\ driverClosed # "None"

\* A completed shutdown stays completed, with the same result: no request is
\* registered and nothing is acknowledged afterwards.
ShutdownIsFinal ==
  [][ShutdownReady =>
       /\ ShutdownReady' /\ driverClosed' = driverClosed
       /\ \A r \in Requests : st'[r].cleanup = st[r].cleanup]_vars

Contract == INSTANCE RequestContract WITH
  listed    <- registered,
  retired   <- {r \in Requests : launch[r] # "Idle" /\ r \notin registered},
  delivered <- [r \in Requests |-> st[r].delivered],
  failure   <- [r \in Requests |-> IF Failed(st[r]) THEN st[r].outcome ELSE "None"],
  ack       <- [r \in Requests |-> st[r].cleanup],
  terminal  <- [r \in Requests |->
                  IF st[r].delivery = "Receiving" THEN "None"
                  ELSE IF Failed(st[r]) THEN st[r].outcome ELSE "Completed"]

\* The detailed client implements the contract a user relies on.
ImplementsContract == Contract!Spec

\* A client asked to shut down finishes shutting down, whatever its users do
\* with their handles.
ShutdownCompletes == closing ~> ShutdownReady

\* A request with a deadline leaves the registry even if its user never sends,
\* receives, cancels or drops anything: it cannot occupy a slot for ever.
DeadlineFreesRequest == \A r \in WithDeadline : r \in registered ~> r \notin registered
=============================================================================
