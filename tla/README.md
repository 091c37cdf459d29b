# A verification development of audio2face3d-rs

These modules model the parts of audio2face3d-rs whose correctness depends on
the order in which threads, tasks and callbacks run. TLC checks small instances
of them; TLAPS proves the theorems listed below for every value of the
constants. Each definition that models code is mapped to its lines in
`PROJECT.json` (`map`).

Paths below are relative to `src/crates/audio2face3d/src/` unless they name
another crate (`server/` is `src/crates/audio2face3d-server/src/`, `gui/` is
`src/crates/audio2face3d-gui/src/`).

## 1. The system

A *client* turns a stream of audio chunks into a stream of face animation
events. It does so in process (the direct driver) or through a server over gRPC
(the remote driver). A GUI plays the result.

| Component | State it keeps | Operations | Talks to |
|---|---|---|---|
| Request state, `client/state.rs` | input and output queues with byte counters, one staged item each way, input phase, outcome, cleanup, delivery, registration | stage, accept, receive, fail, complete_cleanup, retire | called under the request lock by all that follow |
| Client core, `client/core.rs`, `client/handle.rs` | registry of requests, storage budget, closing flag, result of the driver's shutdown; a deadline thread | register, reserve and return leases, begin_shutdown, driver_closed | requests, driver, the `Shutdown` future |
| Endpoints, `client/session.rs`, `client/driver.rs` | Input, Output, Control for the user; Reader, Writer, WorkerGuard for the driver | send, finish, receive, cancel, drop; read, emit, fail, finish, drop | request state, core |
| Wakeups, `client/notify.rs` | wakers of those who wait on a request | subscribe, register, wake, drop | every future of the endpoints |
| Execution queue, `inference/admission.rs`, `inference/cancellation.rs` | permits out, waiters in order, recorded grants; listeners of a token; a deadline thread | acquire, poll, drop, close, cancel | direct driver, server |
| Direct driver, `client/direct.rs`, `client/executor.rs` | the launch gate, the tasks of one control thread, its channel and park token | launch, poll, shutdown | execution queue, guard of a request, backend |
| Inference worker and backends, `inference/worker.rs`, `backend.rs`, `regression.rs`, `mock.rs` | one thread per native state, its jobs; a pool of one idle model | start, call, close, release_prepared | direct driver, server |
| Remote driver, `client/server.rs` | phase of the response stream | launch, convert, finish | gRPC, guard of a request |
| Server, `server/service.rs`, `session.rs`, `lifecycle.rs`, `cleanup.rs` | request tasks, data and terminal channels, shared permit, stages of shutdown | process a stream, shut down | execution queue, backends |
| Runtime registry, `runtime/registry.rs` | one initialization shared by its callers | acquire, wait | native loader |
| Host jobs, `audio2face/job_runner.rs`, completions of `audio2x.rs`, host executor of `audio2face.rs` | a serial queue per track, counters and wakers of each execution, a solver per track | execute, drain, reset a track, poll, drop | a caller's job runner |
| Interactive blendshapes, `audio2face.rs`, `animation/interactive_blendshape.rs` | a cache of weights by frame, one call in progress | compute, interrupt, invalidate | a caller's job runner |
| Windows and accumulators, `common/` | positions of windows over a sample stream | advance, count, drop | executors |
| GUI, `gui/controller.rs`, `playback.rs`, `audio.rs`, `inference/worker.rs` | player state, device generation, updates published by a job | command, fault, publish, cancel | audio device, client |

The remaining components (numerics, CUDA buffers, TensorRT, loading and engine
building, authentication, log output, command line, rendering) are listed in
`PROJECT.json` with the reason why they are not modelled.

### What is hard here

* **Locks are short and effects follow the unlock.** A transition of a request
  returns its effects (leases to drop, registry entry to remove, wakers to
  call), and they are applied without a lock (`core.rs:240`). Meanwhile any
  other actor can move.
* **Six sources of failure.** User, deadline, shutdown, endpoint drop, backend
  and driver may fail a request at once. The first must stick, and the
  request must leave the registry exactly once, after its cleanup.
* **Success is joint.** A request completes only if the user finished sending,
  the backend saw the end of input, every event was delivered and cleanup
  succeeded.
* **A permit has three owners in its life**: the queue's reservation, the
  future and the task. Grant, cancel, drop, expiry and close all race for it.
* **Wakeups.** Futures register a waker and look at the state; wakers are taken
  under a lock and called after it. The control thread waits for all its tasks
  on one park token.
* **Shutdown is a sequence across threads**: closing flag, sweep, gate, queue,
  stop message, last task, release of the prepared model, completion.

### Properties that make each component correct

* Core and endpoints: storage is accounted for exactly; events arrive in order
  without gaps; success means a complete exchange; a request leaves the registry
  once, after cleanup; shutdown misses no request, completes, and is final.
* Execution queue: the count of permits is exact and within the limit; no slot
  is idle while someone waits; first come, first served; close revokes what is
  not yet delivered; a cancel or a wakeup is never lost; no one with a deadline
  waits for ever.
* Direct driver: a backend runs under its own permit; the guard reports after
  everything was returned; prepared resources are released last; the control
  thread never parks over work; failed requests are cleaned up, and shutdown
  ends.
* Server: models never outnumber execution slots; a success is reported after
  everything that could still fail; shutdown leaves no worker and no model, and
  its report arrives.
* Host jobs: no job is stranded or run twice; a track's solver sees its frames in
  order and no frame from before its reset; whoever waits is woken.
* Audio device: a failure is about the current command; no wakeup is lost; the
  device follows the player.
* Interactive blendshapes: cached weights belong to the current geometry (they
  need not, see section 4).
* Later (section 9): inference worker, registry, remote driver, window arithmetic.

`PROJECT.json` lists the hazards at their lines, each with the properties that
would notice it going wrong.

## 2. The modules

| Module | Models | Role |
|---|---|---|
| `RequestState` | `client/state.rs` | functions from a state record to a state record: what each method does while the lock is held |
| `ClientSession` | `core.rs`, `session.rs`, `driver.rs`, `handle.rs` | the client: all actors of all requests over those functions |
| `RequestContract` | the promise to the user (`docs/request-lifecycle.md`, read off the code) | abstract specification that `ClientSession` implements |
| `Admission` | `inference/admission.rs`, `cancellation.rs` | the execution queue |
| `DirectDriver` | `direct.rs`, `executor.rs`, `notify.rs`, the driver's use of `worker.rs` | the control thread and the shutdown sequence, composed with `Admission` (`Queue == INSTANCE Admission WITH ...`) |
| `ServerRequests` | `server/service.rs`, `session.rs`, `cleanup.rs`, `request.rs`, `server.rs`, `lifecycle.rs`; prepared and idle models of `inference/backend.rs`, `regression.rs` | the server: handlers, worker tasks, response streams, models and the supervised shutdown |
| `HostJobs` | `audio2face/job_runner.rs`, `ExecutionCompletion` of `audio2x.rs`, `HostBlendshapeSolveExecutor` of `audio2face.rs` | jobs of tracks over a runner |
| `InteractiveBlendshape` | `HostBlendshapeSolveInteractiveExecutor` of `audio2face.rs`, `animation/interactive_blendshape.rs` | calls, the jobs they leave behind, the cache |
| `AudioDevice` | `gui/audio.rs`, the states of `gui/playback.rs` | the device worker of the GUI |
| `MC...` | | instances for TLC (symmetry, one restricted next-state relation, values of functions) |
| `ClientSessionProofs`, `ClientContractProofs`, `ClientBudgetProofs`, `AdmissionProofs`, `DirectDriverProofs`, `ServerRequestsProofs`, `HostJobsProofs`, `AudioDeviceProofs` | | theorems (section 6) |

### How state and actions correspond to the code

**Critical sections.** An action is one critical section of one lock.
In `ClientSession` what an actor still has to do after its unlock is the actor's
continuation `pc[r][a]`, and the leases it owns by then are `hold[r][a]`. The
actions `DropLeases`, `Unregister` and `Changed` run continuations in the order
of the code (`Request::apply` drops leases, then removes the request). Actors of
a request are its input, output and control handles, the deadline thread, the
thread in `Owner::shutdown`, and the driver's reader, writer and guard.

**Data.** A chunk is its storage charge. An event is its charge and its number
in the order of emission, 0 for ProcessingFinished. Errors are kept by origin
(user, deadline, shutdown, backend side); messages are left out.

**Enabled or polled.** In `ClientSession` a future whose poll would be pending is
an action that is not enabled. That a pending future is polled again is not
taken for granted: `Admission` models its wakers, and `DirectDriver` those of
the driver's side with the park token of the control thread.

**Admission.** The queue is a set with arrival numbers. `Dispatched(a, q, o)` is
what `Inner::dispatch` makes of a state, `Settle` takes the wakers that the
critical section collected, and `Wake` calls one later. The deadline thread has its
unpark token (`token`), the deadlines it parked for (`alarm`) and may wake up
for no reason.

**Direct driver.** `ReceiveMessage`, `EndDrain`, `PollTask`, `EndRound`, `PollStop` and
`Unparked` are the loop of `executor.rs:37`; the poll of a task is a sequence of
actions guarded by `step[t]`, and `phase[t]` is the await it is suspended in.
Every poll of `interrupt` first registers a waker (`Subscribe`), then looks at
the request (`Check`), then polls the inner future. Jobs of the inference worker
end in `JobDone`, which unparks the thread if their completion was polled.
The actions of the queue are those of `Admission`, with its calls interleaved in the
steps of the poll, the launch and the shutdown.
What the wakers of the queue do is a step of its own (`Wake`), also where the
code calls them on the thread that goes on; this only adds interleavings.

**Server.** A request is one record: its handler, its worker task, the two
channels between the task and the stream, and who shares the permit. The task
is a sequence of stages named after what it does next (`Header`, `Input`,
`Infer`, `Frame`, `Close`, `Event`, `Status`, `Exit`). What `RequestContext::run`
cancels at a deadline is where `GiveUp` is enabled; `Close` is not among it.
A model is where it is: prepared, idle, or owned by a request. The order in
which the queue serves is left to `Admission`: `Admit` only counts permits. A
request that has ended keeps only how it ended (`Remaining`).

**Host jobs.** `Enqueue` ends where the code unlocks the queue, so a drain task
that is not yet handed to the runner is a state (`Handing`). What a runner may do
to a task is chosen by `Faults`. `DropGuard` takes the jobs of a track under the
lock, `Cancel` completes them one by one outside it.

**Audio device.** Everything under the lock of the player is one action;
posting a request and unparking are actions of their own. The worker's loop is
`Top`, `Opening`, `Starting`, `Inspecting`, `Failing`, `Dropping`, `Rechecking`, `Parking`.
Steps of the worker that call the audio library may take its park token.

**Interactive blendshapes.** Weights are the version of the geometry they were
computed from. A job keeps the version its call was given; the future that queued
it may be gone when it runs.

## 3. What the runs check

| Run | Instance | States | Shows |
|---|---|---|---|
| `client_streaming` | one request, two chunks in, two events and the notice out, queues of one chunk and two events, a budget that runs out; failures by user, endpoints and backend at any point | 788 839 | `TypeOK`, `QueueAccounting`, `OutputInOrder`, `CompletedIsComplete` |
| `client_full` | one request with every actor, deadline and shutdown included; one chunk, one event | 1 550 179 | `BudgetExact`; `ImplementsContract`, the refinement of `RequestContract` |
| `client_registry` | two requests that exchange no data, all ways to start, end and be swept | 1 888 633 | `LeavesAfterCleanup`, `DriverSeesFailedRequests`, `ShutdownIsFinal` |
| `client_liveness` | one request with every actor, under fairness | 313 841 | `ShutdownCompletes`, `DeadlineFreesRequest` |
| `admission_queue` | three waiters, one permit, two places | 228 350 | type, order, capacity, work conservation, close, no lost cancel, no lost wakeup |
| `admission_deadlines` | two waiters with deadlines, one permit, one place | 635 200 | `NoLostWakeup`, `NobodyWaitsForEver` |
| `direct_shutdown` | two requests, one permit, one place, with errors, panics and spurious wakeups | 1 302 805 | type, `ExecutionsBounded`, `AcknowledgedIsClean`, `ReleasedLast`, `NothingMissed` |
| `direct_liveness` | the same two requests without faults, one of which streams, under fairness | 393 774 | `FailedIsAcknowledged`, `DriverFinishes` |
| `server_shutdown` | two requests, one with default options and a deadline, one with options of its own; two slots, channels of one message | 407 663 | type, `ModelsBounded`, `SuccessIsFinal`, `CleanAtEnd`, `ShutdownDelivers` |
| `host_jobs` | two tracks, two workers, two calls with three frames, a runner with every fault | 353 339 | type, `NoJobStranded`, `SolvesInOrder`, `ExecutionsComplete` |
| `audio_device` | three commands and the drop; streams that fail at any time | 110 361 | type, `FailureIsCurrent`, `NoWakeupLost`, `DeviceFollows` |
| `interactive_replay` | two frames, two calls, one change, one interrupt | stops at the violation | `ReplayIsCurrent` does not hold, see section 4 |

Every property of every passing run has a mutant: a `Faulty...` definition beside
the one it replaces, with a mistake one could make in that code, under which the
run finds the property violated. No specification uses them.

### Bounds, and why they are enough

* **Requests.** Requests interact through the budget, the registry, the queue,
  and the control thread. Two requests show every interaction of a pair (one starts
  while the other is swept; one returns the permit the other waits for). Order in
  the queue needs a running, a waiting and an overtaking request: three. One
  request already has up to eight actors, and its own races are between them.
* **`MaxChunks`, `MaxEvents`** bound how many items a user queues and a backend
  stages. Two exceed a queue of one chunk; two events and the notice exceed a
  queue of two, so that full queues, staged items and discarding all occur.
* **`MaxBufferedBytes`** of 3 with a settings charge of 1 makes the budget run
  out while items are staged.
* **`ItemBytes`** has one charge. Different charges only change when a queue is
  full by bytes rather than by items; both limits are tested by the guard.
* **`Faults`** (`DirectDriver`) selects which faults may happen: an error of
  a backend or the endpoints, a panic in a poll, a return of park for no reason.
* **`Users`** (`DirectDriver`) are the requests whose users send and receive. In
  `direct_liveness` one of two does: the other one waits for the permit, gets
  it, and waits for input that never comes.
* **Server.** Two slots and two requests: the one that ends first pools its model
  while the other runs, takes the idle model, or has to close it because its
  options differ. A channel of one message is full after one; one frame and no frame
  are the two cases of the loop.
* **Host jobs.** Three frames on two tracks give one track two jobs while the other
  has one; two calls make a completion overlap with the next call and a reset
  fall between them.
* **Audio device.** Three commands let a fault of the first stream meet the
  second, and a command arrive while the third starts; the drop is a fourth.
* `client_streaming` leaves out the deadline and shutdown (they fail a request
  as the user's cancel does, on their own continuation; `client_full` has them),
  so that more data fits in the instance.

## 4. Where the code and its documents differ

`interactive_replay` (a run that expects a violation): a call of `compute_frame`
queues a job and is dropped, or ended by an interrupt, before it has the result.
The job stays in the runner with the geometry it was given. The user changes the
geometry and invalidates the cache; then the job runs and fills the
cache again, and the next call for that frame is answered from it, with weights of
the old geometry. `interactive_blendshape.rs:95` says the invalidation is for
"any geometry-layer change", and `docs/runtime-api.md:85` that "invalidating
geometry automatically invalidates the dependent cache". (That `compute_frame`
replays cached weights while nothing was invalidated is by design, and tested.)

Two more differences were met while modelling and have no run:

* `docs/server.md:166` says "Failed streams do not emit SUCCESS". The status of
  success is a message like others: a deadline that passes after it was given out and
  before the end of the stream makes the stream end with `DEADLINE_EXCEEDED`
  (`session.rs:82`). `SuccessIsFinal` states what does hold: whatever could
  go wrong in the worker has gone right by then.
* `docs/gui.md:194` says "Native errors or reset failures discard the affected
  model even if Stop was also pressed". The `failed` flag is set after the await in
  `regression.rs:574`; when the call is abandoned, by the deadline of a server
  request or by `interrupt` of the direct driver, an error of its job is not seen,
  and the model is reset and pooled.

## 5. Fairness

Safety is checked without fairness. Liveness assumes weak fairness of:

* *Client*: an actor that left a critical section goes on (a thread is not
  stopped between two statements); `Client::start` and `Owner::shutdown` return;
  the deadline thread wakes up (`park_timeout`); a driver acknowledges a request
  that has failed and finishes its own shutdown. Nothing is assumed of the user,
  nor of the backend of a request that has not failed.
* *Admission*: time passes, the deadline thread runs when it has its token or an
  alarm, an unpark that was decided is made. Nothing is assumed of the tasks.
* *DirectDriver*: the launching thread, the thread that shuts down, and
  the control thread run; the latter leaves park **when it has its token**, never
  by the grace of a spurious wakeup; wakers that were taken are called; jobs of
  the inference worker end. The input and output of a request come to an end,
  because the backends accept `max_audio_seconds` of audio
  (`inference/audio.rs:37`, `inference/regression.rs:346`). Without that last
  assumption TLC shows a request whose user always keeps up: its task need
  never return from its poll, and the others are not polled.

* *Server*: the supervisor after a shutdown, the waiting caller, and the worker tasks
  with the spawning step of their handlers run: every wait of a worker has a
  timeout (input, output) or is native work that ends. Nothing is assumed of
  clients, who may neither send nor read. `shutdown /\ Supervisor`: a
  transport is only made to end by a shutdown (its timeout).
* *Host jobs*: worker threads run, the thread in `execute` hands over what it has
  enqueued, jobs of a dropped drain task are cancelled, a drop that has begun goes on.
  A runner does not have to lose or refuse anything.
* *Audio device*: a command that has begun is posted, the worker runs and leaves park
  when it has its token, a fault that is being published is published, and
  starting a device returns (it may block for long, not for ever).

The two assumptions of the client about its driver (a failed request is
acknowledged; the shutdown finishes) are what `direct_liveness` checks of the
direct driver (`FailedIsAcknowledged`, `DriverFinishes`). In the same way the
condition on which `DirectDriver` begins its shutdown, that every registered
request has failed or is done, is `DriverSeesFailedRequests` of the client.

## 6. What is proved

All theorems hold for every value of the constants that the assumptions of the
modules allow.

**`ClientSessionProofs`** (assumptions: `CoreAssumption`, `QueueLimitsAssumption`).
`LifecycleInvariant` is the inductive invariant. `LeavesAfterCleanup` by itself is
not inductive: that one actor removes a request depends on retirement being
decided once, which depends on cleanup being acknowledged once (the guard is
gone by then), on who may consume the terminal, and on which handles
exist in which phase of `Client::start`. `LifecycleInv` is the conjunction of
those parts (`Untouched`, `Unlaunched`, `GuardOnce`, `ConsumedByOutput`,
`RetiredOnce`) for each request with `Sweep` for the shutdown. The queues and the
budget do not occur in it: lemmas state once which fields each operator of
`RequestState` leaves alone (`DataKeepsLife`, `RetireMoves`, `FailMoves`,
`CleanupMoves`), and the actions are then treated by what they do to the
lifecycle. From it:

* `RequestLeavesAfterCleanup`: `LeavesAfterCleanup`
* `DriverShutsDownLast`: `DriverSeesFailedRequests`
* `ShutdownStaysComplete`: the action property `ShutdownIsFinal`

**`ClientContractProofs`** (the same assumptions, on top of `LifecycleInvariant`).
*The refinement.* A method of `State` does one of five things the contract speaks of
(`ContractMove`): none of its business, deliver an event, fail, hand over the terminal,
acknowledge cleanup. `StepMoves` shows that each step of `Next` is one of them for one
request, or a step of its registration; `StateStep` and `ContractStep` map each to an
action of `RequestContract` or to a stutter. This needs `Outcomes` (a success
was acknowledged; a terminal is consumed only if there is one), which `LifecycleInv`
does not say.
*The data.* `OutputInOrder` and `CompletedIsComplete` are about the queues of a request
and are not inductive: an event may only be staged when none is staged, because its
writer is not emitting. `DataInv` is their invariant. Of each record it says that the
ends are empty when nothing is pending, and that the numbered events from the queue's
head to the staged one are exactly those after the last delivered (`RecordData`). Of each
request it says which handle fills which slot (`InputSide`, `OutputSide`), that the
chunks accepted are those taken and queued (`Counts`), and what is reserved (`Reserved`).
Each method of `State` has a lemma on records; `OneRequest` says that a step
of one request leaves the others alone. From it:

* `KeepsContract`: `ImplementsContract`, the refinement
* `EventsInOrder`: `OutputInOrder`
* `CompletedMeansComplete`: `CompletedIsComplete`

**`ClientBudgetProofs`** (also `RequestsAssumption`: the set of requests is finite,
as their identities are 64-bit numbers; on top of the three invariants above).
*Sums.* `BudgetExact` and `QueueAccounting` are about folds, and the induction
theorems of the library take an operator the provers cannot instantiate. But the fold of
a set or a sequence is the solution of a recursion on the subsets of a finite set,
and that this solution exists and is unique follows from a smallest counterexample
(`MinimalSubset`, `SumExists`, `SumUnique`). Then any element can be taken out of a sum
(`TotalRemove`), so that changing one value changes the sum by as much (`TotalUpdate`),
and a queue's charge grows or shrinks by what enters or leaves it
(`ChunkBytesFacts`, `EventBytesFacts`).
*Storage.* A method of `State` keeps the byte counters right and buffers `n` bytes more
(`Stores`) or less (`Frees`); a failure hands back what was buffered (`FailStores`,
`CleanupStores`). A step of an actor moves those bytes from or to its leases,
the packet of the backend or the counter (`StoringStorage`, `FreeingStorage`,
`LeaseStorage`, `EndStorage`). `BudgetExact` is not inductive: an actor that takes a
lease overwrites what `hold` says of it, and a staged chunk could be overwritten by
the next. `StorageInv` adds that an actor with nothing left to do holds no lease
(`Released`); `DataInv` says that slots are empty when they are filled. From it:

* `BudgetIsExact`: `BudgetExact`
* `QueuesAccounted`: `QueueAccounting`
* `ClientTypes`: `TypeOK`, with the bound of the counter

**`AdmissionProofs`** (assumption: `AdmissionAssumption`). The properties of the
queue need each other: a free slot can be handed to a newcomer only because
nobody waits while a slot is free, and close can take reservations back only
because each is recorded in `grants`. `AdmissionInv` is their conjunction with the
outcomes that make up the queue; `DispatchKeeps` is the lemma on `dispatch`
that every operation cites. From it:

* `CapacityNeverExceeded`: `CapacityExact`
* `NoIdleSlot`: `WorkConserving`
* `GrantsInOrder`: `FirstComeFirstServed`
* `CloseRevokesAll`: `CloseRevokes`
* `AdmissionTypes`: `TypeOK`

`PromiseInv` is the second invariant, on top of the first. `CancelHeard` follows the
flag of a token, the listener of a waiter and the resolution it causes through
the stages of `cancel` and of `acquire`, which race: the flag is set before the
listeners are taken, and `acquire` looks at it again after it has registered.
`SleepIsSafe` says that who sleeps is waiting with a waker stored, has its waker on
the way, or has consumed its outcome. What a critical section may do to the
outcome and waker of one waiter is stated once (`Moved`, `SettleMoves`,
`RemoveMoves`, `ServeMoves`). From it:

* `CancelsAreHeard`: `CancelIsNotLost`
* `WakersAreCalled`: `NoLostWakeup`

**`DirectDriverProofs`** (assumption: `DirectAssumption`, which asks that the stop
message is no request; `executor.rs` has two constructors). The driver is first shown
to use the queue only as the queue allows: `ImplementsQueue` is `Spec => Queue!Spec`,
a step of the driver being a step of one waiter or none at all. What
`AdmissionProofs` proves is then cited through the instance `Admit` (`QueueHolds`), so
that the proof of the driver never looks into the queue. The invariant of the driver
has seven parts, each with a lemma for a step:

* `TypeInv`; `GateInv`, which orders the gate, the queue and the shutdown
  (nobody is between the gate and the channel once it is closed);
* `MailInv`: no request is sent twice and the stop task is the last message;
* `LoopInv`: one task is polled at a time, and the release of resources begins when
  no task is left;
* `PlaceInv`: a launched request is in the channel, among the tasks, or
  acknowledged, in exactly one of them;
* `StageInv`: what each suspended poll still owns, a place in the queue up to the
  permit, the permit up to `Finish`, and where its backend may be alive;
* `PolledInv`: while the token of the thread is not set, a task that was polled in
  this round has its waker in each place it waits on.

`ReleasedLast` needs all of the first five: that no launch can follow comes from the
gate, that none is in the channel from the order of the messages, that none
is a task from the loop. `NothingMissed` combines `PolledInv` with `NoLostWakeup` of
the queue. From it:

* `TypeCorrect`: `TypeOK`
* `RunsUnderPermit`: `ExecutionsBounded`, with `CapacityExact` of the queue
* `ReportsLast`: `AcknowledgedIsClean`
* `ReleasesLast`: `ReleasedLast`
* `ParksOnlyWithoutWork`: `NothingMissed`

**`ServerRequestsProofs`** (assumption: `ServerAssumption`). Most of the argument is
about one request at a time: `RequestInv` of its record, which each operation is
shown to keep by a lemma about records (`SendRecord`, `CloseRecord`, ...), and
`StepsAreLocal` then lifts them. Success is final because what was sent, read or
still in the channel (`Log`) follows the script of the response as long as nothing has
failed (`OnScript`), and because the status of success is given to the data channel
before the terminal channel. `ModelsBounded` alone is not inductive. A model is
owned only in some stages (`SlotInv`), in which its request still has its slot, and
taking, pooling and closing a model move it between `Owners` and `Kept`; the count
of both together is what never exceeds the limit (`CountInv`). From it:

* `TypeCorrect`: `TypeOK`
* `ModelsAreBounded`: `ModelsBounded`
* `SuccessIsTheEnd`: `SuccessIsFinal`
* `DoneIsClean`: `CleanAtEnd`

**`HostJobsProofs`** (assumption: `JobsAssumption`). `NoJobStranded` counts drain tasks
and places; the proof says instead where they are. `TaskInv`: a scheduled track
has a drain task in the runner, in a worker or in the hand of the executor, and no
two of them. `JobInv`: an unfinished job is in its track's queue, in a worker or
in a set taken to be cancelled, after the jobs of its track that came before, and
in no two. `OrderInv`: what is still to be solved has a higher number than what the
solver has seen, and than its reset; it needs the order in the queues of `JobInv` and
that one worker drains a track, of `TaskInv`. `PendingInv` ties the counters to
the unfinished jobs, one of which each completion removes. `InvHolds` is the
inductive invariant; from it:

* `TypeCorrect`: `TypeOK`
* `JobsAreKept`: `NoJobStranded` (the counts, from the places: `OneTask`, `OnePlace`)
* `FramesInOrder`: the action property `SolvesInOrder`

**`AudioDeviceProofs`** (assumption: `AudioAssumption`). `TypeOK` says that the
worker keeps a stream only with its epoch and ends without one. It is not
inductive: a new epoch overwrites the state of its generation, which is harmless
only because generations get their epochs in order, so that no callback can be
about to report for the new one. `EpochsInOrder` says so, and `LastGeneration`
that nothing opens a generation after the drop. The two safety properties are
then inductive, each with the types. From it:

* `FailuresAreCurrent`: `FailureIsCurrent`
* `WakeupsKept`: `NoWakeupLost`
* `DeviceTypes`: `TypeOK`

## 7. What is only model-checked

* Liveness (`ShutdownCompletes`, `DeadlineFreesRequest`, `NobodyWaitsForEver`,
  `FailedIsAcknowledged`, `DriverFinishes`, `ShutdownDelivers`,
  `ExecutionsComplete`, `DeviceFollows`): liveness under fairness is out of the
  prover's reach.

## 8. What is not modelled

* The tasks of users: how often they poll, and the wakers of their futures.
* The order of tasks within a round of the control thread: any.
* The charge of an item (`client/memory.rs`) is a number; how it is computed
  from capacities is not modelled. Overflow of the identifiers of requests,
  listeners and wakers (64 bits) is not modelled.
* Poisoned locks. The only panic modelled is one in the poll of a task.
  The worker of a task that panicked is not closed but left to drain by itself, so
  that its native state may outlive the permit; `ExecutionsBounded` is stated
  for the others.
* A backend is its last job. `release_prepared` is one job, although it may close an
  idle and a prepared model one after the other.
* Server: the mock backend (it has no model), the log of a request, authentication
  and health, and a worker task that panics (its terminal sender is dropped and the
  stream ends with an error). Pushing a chunk and reading it are one step.
  `NoneSpawning` assumes that the poll of a handler is not suspended between
  reading the header and spawning (consecutive statements without an await) for
  as long as the transport takes to end: otherwise a worker could be spawned
  after `workers.wait()` has returned.
* Host jobs: errors of a job (only what observers are told differs), a runner's
  own threads other than the pool's, poisoned mutexes.
* Audio device: samples and clocks; in `interactive_blendshape.rs` the solvers
  and their preparation, and the device variant of the executor.
* Components listed as `not_modelled` in `PROJECT.json`.

## 9. Plan

1. *Inference worker*: `Worker::call` after a panic, jobs queued behind it, and the
   destruction of native state before its owner sees the failure.
2. *Registry*: the shared initialization (`runtime/registry.rs`).
3. *Remote driver*: the order of responses (`client/server.rs`).
4. *GUI job and controller*: a cancel that races the start, contiguous updates
   (`gui/inference/worker.rs`, `gui/playback.rs`).
5. *Window arithmetic* against its definition (`common/window_progress.rs`).

Most of the repository's lines are numerics, foreign-function bindings, engine
building and command lines, which have no finite state worth checking; the
modules above cover the parts that run concurrently.
