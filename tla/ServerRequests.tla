--------------------------- MODULE ServerRequests ---------------------------
(***************************************************************************)
(* The server: the handler, the worker task and the response stream of     *)
(* each request (service.rs, session.rs, cleanup.rs, request.rs), the      *)
(* models that its factory keeps warm (inference/backend.rs, the pool of   *)
(* inference/regression.rs), and the supervised shutdown (server.rs,       *)
(* lifecycle.rs).                                                          *)
(*                                                                         *)
(* A worker outlives the handler that spawned it and the stream it feeds:  *)
(* only its own deadline, cancellation or failure ends it, and its cleanup *)
(* is never abandoned.  The permit is shared by the worker and the stream. *)
(*                                                                         *)
(* A model is one native runtime.  Its jobs are single steps; the order in *)
(* which admission serves is in Admission.tla.  A poll of a handler is     *)
(* assumed not to be suspended between reading a header and spawning, in   *)
(* the code consecutive statements, for as long as a timeout of the server.*)
(*                                                                         *)
(* Definitions named Faulty... are plausible mistakes in the code.         *)
(***************************************************************************)
EXTENDS Integers, Sequences, FiniteSets

CONSTANTS
  Requests,   \* the requests clients may make
  Limit,      \* config.max_streams
  Capacity,   \* config.output_queue_capacity
  KeyOf,      \* the model options of each request
  DefaultKey, \* those of the prepared model
  NoKey,      \* none
  Timed,      \* the requests with a grpc-timeout
  FramesOf    \* bound: frames of each request

ASSUME ServerAssumption ==
  /\ IsFiniteSet(Requests)
  /\ Limit \in Nat \ {0} /\ Capacity \in Nat \ {0}
  /\ FramesOf \in [Requests -> Nat]
  /\ \A r \in Requests : KeyOf[r] # NoKey
  /\ DefaultKey # NoKey
  /\ Timed \subseteq Requests

VARIABLES
  stage,    \* run_inner: "Preparing", "Serving", "Workers", "Resources", "Done"
  notice,   \* the overdue notice was sent
  waiter,   \* the caller of supervise
  shutdown, \* the CancellationToken
  prepared, \* Factory.prepared is there
  idle,     \* Factory.reuse: the key of the idle model
  req       \* each request, see Fresh

serverVars == << stage, notice, waiter, shutdown >>
poolVars == << prepared, idle >>
vars == << serverVars, poolVars, req >>

Fresh == [
  handler   |-> "Idle",  \* then "Waiting", "Header", "Accepted", "Opened" or "Refused"
  worker    |-> "None",  \* where the task is
  last      |-> FALSE,   \* it has read EndOfAudio
  result    |-> "Ok",    \* of its streaming, then of all of it
  cleanup   |-> "None",  \* of close
  model     |-> FALSE,   \* it owns a model
  failed    |-> FALSE,   \* RegressionBackend.failed
  frames    |-> 0,       \* frames computed
  data      |-> << >>,   \* the channel of messages
  terminal  |-> "None",  \* the channel of the result
  stream    |-> "None",  \* ResponseStream: "Open", then how it ended
  got       |-> << >>,   \* messages the stream has given out
  cancelled |-> FALSE,   \* its child token
  expired   |-> FALSE,   \* its deadline has passed
  permits   |-> {}]      \* who shares its permit: "Task", "Stream"

Init ==
  /\ stage = "Preparing" /\ notice = "None"
  /\ waiter = "Waiting" /\ shutdown = FALSE
  /\ prepared = FALSE /\ idle = NoKey
  /\ req = [r \in Requests |-> Fresh]

Cancelled(r) == shutdown \/ req[r].cancelled

\* Requests that hold an execution slot.
Admitted == {r \in Requests : req[r].permits # {}}

-----------------------------------------------------------------------------
(* The handler. *)

\* A request is received and authenticated, and waits for a slot.
Arrive(r) ==
  /\ stage = "Serving" /\ ~shutdown
  /\ req[r].handler = "Idle"
  /\ req' = [req EXCEPT ![r].handler = "Waiting"]
  /\ UNCHANGED << serverVars, poolVars >>

\* acquire grants a permit.
Admit(r) ==
  /\ req[r].handler = "Waiting"
  /\ ~shutdown /\ ~req[r].expired
  /\ Cardinality(Admitted) < Limit
  /\ req' = [req EXCEPT ![r].handler = "Header", ![r].permits = {"Task"}]
  /\ UNCHANGED << serverVars, poolVars >>

\* read_input, which looks at the shutdown first, returns a valid header.
ReadHeader(r) ==
  /\ req[r].handler = "Header"
  /\ ~shutdown /\ ~req[r].expired
  /\ req' = [req EXCEPT ![r].handler = "Accepted"]
  /\ UNCHANGED << serverVars, poolVars >>

\* The handler ends without a worker: a full queue, a timeout, a header that is
\* missing or wrong, a client that is gone, the deadline or the shutdown.
Refuse(r) ==
  /\ req[r].handler \in {"Waiting", "Header"}
  /\ req' = [req EXCEPT ![r].handler = "Refused", ![r].permits = {}]
  /\ UNCHANGED << serverVars, poolVars >>

\* The worker is spawned, on the tracker of the server, and the stream returned.
Spawn(r) ==
  /\ req[r].handler = "Accepted"
  /\ req' = [req EXCEPT ![r].handler = "Opened", ![r].worker = "Start",
                        ![r].stream = "Open", ![r].permits = {"Task", "Stream"}]
  /\ UNCHANGED << serverVars, poolVars >>

-----------------------------------------------------------------------------
(* The worker: Factory::start, which nothing interrupts. *)

\* The worker ends with an error before it has a backend.
StartFails(r) == req' = [req EXCEPT ![r].worker = "Exit", ![r].result = "Error", ![r].model = FALSE]

\* start_inner: the prepared model is taken, whoever comes first, and is closed
\* for a request with options of its own.
Start(r) ==
  /\ req[r].worker = "Start"
  /\ prepared' = FALSE
  /\ req' = [req EXCEPT ![r].model = prepared,
                        ![r].worker = IF ~prepared THEN "Pool"
                                      ELSE IF KeyOf[r] = DefaultKey THEN "Header" ELSE "Discard"]
  /\ UNCHANGED << serverVars, idle >>

\* The prepared model has been closed.
Discard(r) ==
  /\ req[r].worker = "Discard"
  /\ \/ req' = [req EXCEPT ![r].worker = "Pool", ![r].model = FALSE]
     \/ StartFails(r)
  /\ UNCHANGED << serverVars, poolVars >>

\* load_cached: the idle model is taken, to use it or to close it.
Pool(r) ==
  /\ req[r].worker = "Pool"
  /\ idle' = NoKey
  /\ req' = [req EXCEPT ![r].model = TRUE,
                        ![r].worker = IF idle = KeyOf[r] THEN "Header"
                                      ELSE IF idle = NoKey THEN "Load" ELSE "Retire"]
  /\ UNCHANGED << serverVars, prepared >>

\* The idle model has been closed.
Retire(r) ==
  /\ req[r].worker = "Retire"
  /\ \/ req' = [req EXCEPT ![r].worker = "Load"]
     \/ StartFails(r)
  /\ UNCHANGED << serverVars, poolVars >>

\* A model has been loaded on a thread of its own, or not.
Load(r) ==
  /\ req[r].worker = "Load"
  /\ \/ req' = [req EXCEPT ![r].worker = "Header"]
     \/ StartFails(r)
  /\ UNCHANGED << serverVars, poolVars >>

-----------------------------------------------------------------------------
(* The worker: run_streaming under the deadline, and finish. *)

\* The stage after a message has been sent.
After(phase) ==
  CASE phase = "Header" -> "Input"
    [] phase = "Frame"  -> "Infer"
    [] phase = "Event"  -> "Status"
    [] phase = "Status" -> "Exit"

FaultyHasRoom(r) == Len(req[r].data) <= Capacity

\* The channel of messages has room.
HasRoom(r) == Len(req[r].data) < Capacity

\* send: nothing is sent past the deadline, a cancellation or the reader.
Send(r) ==
  /\ req[r].worker \in {"Header", "Frame", "Event", "Status"}
  /\ ~req[r].expired /\ ~Cancelled(r) /\ req[r].stream = "Open"
  /\ HasRoom(r)
  /\ req' = [req EXCEPT ![r].data = Append(@, req[r].worker), ![r].worker = After(@)]
  /\ UNCHANGED << serverVars, poolVars >>

\* read_input, and the message is pushed.
Input(r) ==
  /\ req[r].worker = "Input"
  /\ ~req[r].expired /\ ~Cancelled(r) /\ req[r].stream = "Open"
  /\ \E last \in BOOLEAN : req' = [req EXCEPT ![r].worker = "Infer", ![r].last = last]
  /\ UNCHANGED << serverVars, poolVars >>

\* next_frame has a frame, or no more for now.
Infer(r) ==
  /\ req[r].worker = "Infer"
  /\ ~req[r].expired
  /\ \/ /\ req[r].frames < FramesOf[r]
        /\ req' = [req EXCEPT ![r].worker = "Frame", ![r].frames = @ + 1]
     \/ req' = [req EXCEPT ![r].worker = IF req[r].last THEN "Close" ELSE "Input"]
  /\ UNCHANGED << serverVars, poolVars >>

\* A native call fails, and the model is not to be used again.
InferFails(r) ==
  /\ req[r].worker = "Infer"
  /\ req' = [req EXCEPT ![r].worker = "Close", ![r].result = "Error", ![r].failed = TRUE]
  /\ UNCHANGED << serverVars, poolVars >>

\* The deadline abandons the cleanup too.
FaultyReporting == {"Close", "Event", "Status"}

\* Where finish is under the deadline: only in send_success.
Reporting == {"Event", "Status"}

\* Streaming ends with an error: the deadline, a cancellation, which also stops
\* the inference, the reader that is gone, a wrong message, and the timeouts of
\* input and output.
GiveUp(r) ==
  /\ req[r].worker = "Infer" => req[r].expired \/ Cancelled(r)
  /\ \/ /\ req[r].worker \in {"Header", "Input", "Infer", "Frame"}
        /\ req' = [req EXCEPT ![r].worker = "Close", ![r].result = "Error"]
     \/ /\ req[r].worker \in Reporting
        /\ req' = [req EXCEPT ![r].worker = "Exit", ![r].result = "Error"]
  /\ UNCHANGED << serverVars, poolVars >>

\* A failed cleanup does not stop the report of success.
FaultyAfterCleanup(r, cleanup) == IF req[r].result = "Ok" THEN "Event" ELSE "Exit"

\* finish: success is reported only when streaming and cleanup have succeeded.
AfterCleanup(r, cleanup) == IF req[r].result = "Ok" /\ cleanup = "Ok" THEN "Event" ELSE "Exit"

\* Backend::close, outside the deadline: a model that has not failed is reset
\* and becomes the idle one, unless there is one; otherwise it is destroyed.
Close(r) ==
  /\ req[r].worker = "Close"
  /\ \E cleanup \in {"Ok", "Error"} :
       /\ idle' = IF ~req[r].failed /\ cleanup = "Ok" /\ idle = NoKey THEN KeyOf[r] ELSE idle
       /\ req' = [req EXCEPT ![r].model = FALSE, ![r].cleanup = cleanup,
                             ![r].last = FALSE, ![r].failed = FALSE,
                             ![r].worker = AfterCleanup(r, cleanup),
                             ![r].result = IF cleanup = "Ok" THEN @ ELSE "Error"]
  /\ UNCHANGED << serverVars, prepared >>

\* The task sends its result, if there is still a receiver ...
Exit(r) ==
  /\ req[r].worker = "Exit"
  /\ req' = [req EXCEPT ![r].worker = "Sent", ![r].result = "Ok",
                        ![r].terminal = IF req[r].stream = "Open" THEN req[r].result ELSE "None"]
  /\ UNCHANGED << serverVars, poolVars >>

\* What remains of a request: of one whose worker and stream have both ended,
\* only how; what was received is kept for a success.
Remaining(q) ==
  IF q.permits # {} \/ q.stream = "Success" THEN q
  ELSE [Fresh EXCEPT !.handler = "Opened", !.worker = "Done", !.stream = q.stream]

\* ... and drops its share of the permit, its sender and its place in the tracker.
Leave(r) ==
  /\ req[r].worker = "Sent"
  /\ LET left == [req[r] EXCEPT !.worker = "Done", !.permits = @ \ {"Task"}]
     IN req' = [req EXCEPT ![r] = Remaining(left)]
  /\ UNCHANGED << serverVars, poolVars >>

-----------------------------------------------------------------------------
(* The response stream, polled or dropped by the transport. *)

\* The stream ends, gives up its share of the permit, and loses what was not read.
EndStream(r, how) ==
  LET ended == [req[r] EXCEPT !.stream = how, !.permits = @ \ {"Stream"},
                              !.cancelled = @ \/ req[r].expired \/ how = "Dropped"]
      unread == [ended EXCEPT !.data = << >>, !.got = << >>, !.terminal = "None"]
  IN req' = [req EXCEPT ![r] = Remaining(IF how = "Success" THEN ended ELSE unread)]

\* poll_next: the deadline and an error overtake the data; a success does not.
PollStream(r) ==
  /\ req[r].stream = "Open"
  /\ \/ /\ req[r].expired \/ req[r].terminal = "Error"
        /\ EndStream(r, "Error")
     \/ /\ ~req[r].expired /\ req[r].terminal # "Error"
        /\ req[r].data # << >>
        /\ req' = [req EXCEPT ![r].got = Append(@, Head(req[r].data)), ![r].data = Tail(@)]
     \/ /\ ~req[r].expired /\ req[r].terminal = "Ok"
        /\ req[r].data = << >> /\ req[r].worker = "Done"
        /\ EndStream(r, "Success")
  /\ UNCHANGED << serverVars, poolVars >>

\* The client cancels or disconnects.
DropStream(r) ==
  /\ req[r].stream = "Open"
  /\ EndStream(r, "Dropped")
  /\ UNCHANGED << serverVars, poolVars >>

\* The deadline of a request passes.  Once its stream is dropped its token has
\* the same effect on the worker.
Expire(r) ==
  /\ r \in Timed
  /\ ~req[r].expired
  /\ req[r].handler \in {"Waiting", "Header", "Accepted"} \/ req[r].stream = "Open"
  /\ req' = [req EXCEPT ![r].expired = TRUE]
  /\ UNCHANGED << serverVars, poolVars >>

-----------------------------------------------------------------------------
(* The supervisor. *)

\* The stop future of the caller is ready.
Stop ==
  /\ ~shutdown /\ waiter = "Waiting"
  /\ shutdown' = TRUE
  /\ UNCHANGED << stage, notice, waiter, poolVars, req >>

\* The caller drops supervise, whose guard cancels (StopOnDrop).
DropWaiter ==
  /\ waiter = "Waiting"
  /\ waiter' = "Dropped" /\ shutdown' = TRUE /\ notice' = "None"
  /\ UNCHANGED << stage, poolVars, req >>

\* The factory is prepared, or the server fails with its error.
Prepare ==
  /\ stage = "Preparing"
  /\ \/ prepared' = TRUE /\ stage' = (IF shutdown THEN "Workers" ELSE "Serving")
     \/ prepared' = FALSE /\ stage' = "Done"
  /\ UNCHANGED << notice, waiter, shutdown, idle, req >>

\* notify: the notice of the first stage that is overdue, if the caller still waits.
Notify == notice' = IF waiter = "Dropped" THEN notice ELSE "Sent"

\* No handler is inside the poll that spawns.
NoneSpawning == \A r \in Requests : req[r].handler # "Accepted"

\* The transport ends: all its responses have, after a shutdown; it failed; or
\* it is overdue, in which case the caller is notified and it is dropped.
EndTransport ==
  /\ stage = "Serving" /\ NoneSpawning
  /\ \/ /\ shutdown
        /\ \A r \in Requests : /\ req[r].handler \in {"Idle", "Refused", "Opened"}
                               /\ req[r].stream # "Open"
        /\ UNCHANGED notice
     \/ UNCHANGED notice
     \/ shutdown /\ Notify
  /\ stage' = "Workers" /\ shutdown' = TRUE
  /\ UNCHANGED << waiter, poolVars, req >>

\* The workers that could still run are not waited for.
FaultyWorkersEnded == \A r \in Requests : req[r].stream # "Open"

\* TaskTracker::wait.
WorkersEnded == \A r \in Requests : req[r].worker \in {"None", "Done"}

WaitWorkers ==
  /\ stage = "Workers" /\ WorkersEnded
  /\ stage' = "Resources"
  /\ UNCHANGED << notice, waiter, shutdown, poolVars, req >>

\* release_prepared, which may fail, and the report.
Release ==
  /\ stage = "Resources"
  /\ prepared' = FALSE /\ idle' = NoKey
  /\ stage' = "Done"
  /\ UNCHANGED << notice, waiter, shutdown, req >>

\* finish_stage: the timeout of a stage only notifies, once for all stages, and
\* the stage goes on.
Overdue ==
  /\ notice = "None" /\ waiter = "Waiting"
  /\ stage \in {"Workers", "Resources"} \/ (stage = "Preparing" /\ shutdown)
  /\ Notify
  /\ UNCHANGED << stage, waiter, shutdown, poolVars, req >>

\* With the notice the completion is dropped.
FaultyReport ==
  /\ waiter = "Waiting"
  /\ IF stage = "Done" THEN waiter' = "Reported" ELSE notice = "Sent" /\ waiter' = "Overdue"
  /\ UNCHANGED << stage, notice, shutdown, poolVars, req >>

\* The caller has the completion, or else the notice with a handle to it, which
\* it awaits.
Report ==
  /\ \/ waiter \in {"Waiting", "Overdue"} /\ stage = "Done" /\ waiter' = "Reported"
     \/ waiter = "Waiting" /\ stage # "Done" /\ notice = "Sent" /\ waiter' = "Overdue"
  /\ UNCHANGED << stage, notice, shutdown, poolVars, req >>

-----------------------------------------------------------------------------
Handler(r) == Arrive(r) \/ Admit(r) \/ ReadHeader(r) \/ Refuse(r) \/ Spawn(r)

Task(r) ==
  \/ Start(r) \/ Discard(r) \/ Pool(r) \/ Retire(r) \/ Load(r)
  \/ Send(r) \/ Input(r) \/ Infer(r) \/ InferFails(r) \/ GiveUp(r)
  \/ Close(r) \/ Exit(r) \/ Leave(r)

Supervisor == Prepare \/ EndTransport \/ WaitWorkers \/ Release

Next ==
  \/ \E r \in Requests : Handler(r) \/ Task(r) \/ PollStream(r) \/ DropStream(r) \/ Expire(r)
  \/ Supervisor \/ Stop \/ DropWaiter \/ Overdue \/ Report

Spec == Init /\ [][Next]_vars

\* Tasks run and the waits of a worker have timeouts.  Clients may stop sending
\* and reading, and nobody has to stop the server.  The transport is only given
\* up after a shutdown.
FairSpec ==
  /\ Spec
  /\ WF_vars(shutdown /\ Supervisor) /\ WF_vars(Report)
  /\ \A r \in Requests : WF_vars(Spawn(r) \/ Task(r))

-----------------------------------------------------------------------------
TypeOK ==
  /\ stage \in {"Preparing", "Serving", "Workers", "Resources", "Done"}
  /\ shutdown \in BOOLEAN /\ prepared \in BOOLEAN
  /\ notice \in {"None", "Sent"}
  /\ waiter \in {"Waiting", "Overdue", "Reported", "Dropped"}
  /\ idle \in {KeyOf[r] : r \in Requests} \union {DefaultKey, NoKey}
  /\ \A r \in Requests :
       /\ req[r].handler \in {"Idle", "Waiting", "Header", "Accepted", "Opened", "Refused"}
       /\ req[r].worker \in {"None", "Start", "Discard", "Pool", "Retire", "Load", "Header", "Input",
                             "Infer", "Frame", "Close", "Event", "Status", "Exit", "Sent", "Done"}
       /\ req[r].worker = "None" <=> req[r].handler # "Opened"
       /\ req[r].stream \in {"None", "Open", "Success", "Error", "Dropped"}
       /\ req[r].stream = "None" <=> req[r].handler # "Opened"
       /\ Len(req[r].data) <= Capacity
       /\ req[r].frames <= FramesOf[r]

\* The server never has more models than execution slots, although models are
\* kept warm and requests are cancelled at any time: a model is owned by a
\* request that still holds its slot, or it waits for the next (an execution
\* slot is retained until the worker has cleaned up).
ModelsBounded ==
  /\ \A r \in Requests : req[r].model => "Task" \in req[r].permits
  /\ Cardinality({r \in Requests : req[r].model})
       + (IF prepared THEN 1 ELSE 0) + (IF idle # NoKey THEN 1 ELSE 0) <= Limit

\* What has been sent or received on the stream of r.
Sent(r) == req[r].got \o req[r].data

\* Success is only reported once nothing can go wrong any more: its status
\* comes after the header, every frame and the event, and only when the cleanup
\* has succeeded; and a stream that ends without an error has given out all of
\* them, although result and data are two channels (ResponseStream::poll_next).
SuccessIsFinal ==
  \A r \in Requests :
    /\ req[r].stream = "Success" => /\ req[r].data = << >>
                                    /\ "Status" \in {req[r].got[i] : i \in DOMAIN req[r].got}
    /\ \A i \in DOMAIN Sent(r) : Sent(r)[i] = "Status" =>
         /\ req[r].cleanup = "Ok"
         /\ Sent(r) = << "Header" >> \o [k \in 1 .. req[r].frames |-> "Frame"] \o << "Event", "Status" >>

\* Nothing is left when the server says it is done, or while it releases its
\* resources: no worker runs and none can still be spawned, and in the end no
\* model is kept (run_inner).
CleanAtEnd ==
  /\ stage \in {"Resources", "Done"} =>
       \A r \in Requests : /\ req[r].worker \in {"None", "Done"}
                           /\ req[r].handler # "Accepted"
                           /\ ~req[r].model
  /\ stage = "Done" => ~prepared /\ idle = NoKey

\* A shutdown comes to its end, its caller gets the report even if a stage was
\* overdue, and a request whose stream was dropped or whose deadline has passed
\* gives up its worker and its slot, whatever clients do.
ShutdownDelivers ==
  /\ shutdown ~> stage = "Done" /\ waiter \in {"Reported", "Dropped"}
  /\ \A r \in Requests :
       req[r].stream = "Dropped" \/ (req[r].expired /\ req[r].handler = "Opened")
         ~> "Task" \notin req[r].permits
=============================================================================
