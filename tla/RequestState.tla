---------------------------- MODULE RequestState ----------------------------
(***************************************************************************)
(* The transitions of one client request, as functions from a state record *)
(* to a state record: client/state.rs, `State`.  Each operator is what one *)
(* method does while the request lock is held; ClientSession.tla says who  *)
(* calls it and what the caller does after unlocking.                      *)
(*                                                                         *)
(* A buffered chunk is its storage charge (a positive number of bytes).  A *)
(* buffered event is its charge and its number: audio and curve events,    *)
(* the ones `Progress` counts, are numbered from 1 in the order they are   *)
(* staged, ProcessingFinished is number 0.                                 *)
(*                                                                         *)
(* Definitions named Faulty... are plausible mistakes in the code, kept to *)
(* show that the properties notice them; no specification uses them.       *)
(***************************************************************************)
EXTENDS Integers, Sequences, SequencesExt

CONSTANTS
  InputQueueItems,    \* limits.input_queue_items
  InputQueueBytes,    \* limits.input_queue_bytes
  OutputQueueItems,   \* limits.output_queue_items
  OutputQueueBytes    \* limits.output_queue_bytes

ASSUME QueueLimitsAssumption ==
  /\ InputQueueItems \in Nat \ {0}
  /\ InputQueueBytes \in Nat \ {0}
  /\ OutputQueueItems \in Nat \ {0}
  /\ OutputQueueBytes \in Nat \ {0}

\* Error kinds by origin: the user, the deadline, shutdown, and the backend
\* side (Inference, RuntimeUnavailable, IncompleteResponse, Protocol,
\* LimitExceeded).
ErrorKind == {"Cancelled", "DeadlineExceeded", "ShuttingDown", "Backend"}

NoChunk == 0
NoEvent == [n |-> 0, bytes |-> 0]
Event   == [n : Nat, bytes : Nat \ {0}]

Fresh ==
  [ input |-> << >>,  pendingInput |-> NoChunk,  inputBytes |-> 0,
    output |-> << >>, pendingOutput |-> NoEvent, outputBytes |-> 0,
    inputPhase |-> "Open", outcome |-> "Running", cleanup |-> "Pending",
    delivery |-> "Receiving", registration |-> "Registered",
    received |-> 0, delivered |-> 0, notice |-> "NotSeen" ]

State ==
  [ input : Seq(Nat \ {0}), pendingInput : Nat, inputBytes : Nat,
    output : Seq(Event), pendingOutput : Event \cup {NoEvent}, outputBytes : Nat,
    inputPhase : {"Open", "FinishRequested", "EofObserved"},
    outcome : {"Running", "Success"} \cup ErrorKind,
    cleanup : {"Pending", "Ok"} \cup ErrorKind,
    delivery : {"Receiving", "TerminalConsumed"},
    registration : {"Registered", "Retired"},
    received : Nat, delivered : Nat, notice : {"NotSeen", "Seen"} ]

Failed(s) == s.outcome \in ErrorKind

-----------------------------------------------------------------------------
(* Storage charges of what a state holds.                                  *)

ChunkBytes(chunks) == FoldSeq(LAMBDA b, sum : b + sum, 0, chunks)
EventBytes(events) == FoldSeq(LAMBDA e, sum : e.bytes + sum, 0, events)

BufferedBytes(s) ==
  ChunkBytes(s.input) + s.pendingInput + EventBytes(s.output) + s.pendingOutput.bytes

-----------------------------------------------------------------------------
(* Input endpoint and its reader.                                          *)

InputOpen(s) == ~Failed(s) /\ s.inputPhase = "Open"

InputCapacity(s, b) ==
  /\ Len(s.input) < InputQueueItems
  /\ b <= InputQueueBytes - s.inputBytes

StageInput(s, b) == [s EXCEPT !.pendingInput = b]

EnqueueInput(s, b) ==
  [s EXCEPT !.input = Append(@, b), !.inputBytes = @ + b]

\* accept_input on a staged chunk the queue has room for.
AcceptInput(s) ==
  EnqueueInput([s EXCEPT !.pendingInput = NoChunk], s.pendingInput)

AbandonInput(s) == [s EXCEPT !.pendingInput = NoChunk]

FinishInput(s) ==
  [s EXCEPT !.inputPhase = IF @ = "Open" THEN "FinishRequested" ELSE @]

PopInput(s) ==
  [s EXCEPT !.input = Tail(@), !.inputBytes = @ - Head(s.input)]

\* receive_input on an empty queue whose writer has finished.
AtEof(s)      == s.input = << >> /\ s.inputPhase # "Open"
ObserveEof(s) == [s EXCEPT !.inputPhase = "EofObserved"]

-----------------------------------------------------------------------------
(* Output writer and the output endpoint.                                  *)

\* stage_output returns Ok: `finished` says the event is ProcessingFinished.
OutputStageable(s, finished) ==
  /\ s.outcome = "Running"
  /\ finished => s.notice = "NotSeen"

StageOutput(s, finished, b) ==
  IF finished
  THEN [s EXCEPT !.notice = "Seen", !.pendingOutput = [n |-> 0, bytes |-> b]]
  ELSE [s EXCEPT !.received = @ + 1,
                 !.pendingOutput = [n |-> s.received + 1, bytes |-> b]]

OutputCapacity(s, b) ==
  /\ Len(s.output) < OutputQueueItems
  /\ b <= OutputQueueBytes - s.outputBytes

\* Forgets output_bytes.
FaultyAcceptOutputUncharged(s) ==
  [s EXCEPT !.output = Append(@, s.pendingOutput), !.pendingOutput = NoEvent]

\* Queues at the front.
FaultyAcceptOutputFront(s) ==
  [s EXCEPT !.output = << s.pendingOutput >> \o @,
            !.outputBytes = @ + s.pendingOutput.bytes,
            !.pendingOutput = NoEvent]

AcceptOutput(s) ==
  [s EXCEPT !.output = Append(@, s.pendingOutput),
            !.outputBytes = @ + s.pendingOutput.bytes,
            !.pendingOutput = NoEvent]

PopOutput(s) ==
  LET event == Head(s.output)
  IN  [s EXCEPT !.output = Tail(@),
                !.outputBytes = @ - event.bytes,
                !.delivered = IF event.n = 0 THEN @ ELSE @ + 1]

ConsumeTerminal(s) == [s EXCEPT !.delivery = "TerminalConsumed"]

-----------------------------------------------------------------------------
(* Failure, cleanup acknowledgement and retirement.                        *)

\* Does not wait for cleanup.
FaultyRetireReady(s) ==
  /\ s.registration = "Registered"
  /\ Failed(s) \/ s.delivery = "TerminalConsumed"

RetireReady(s) ==
  /\ s.registration = "Registered"
  /\ s.cleanup # "Pending"
  /\ Failed(s) \/ s.delivery = "TerminalConsumed"

Retire(s) ==
  IF RetireReady(s) THEN [s EXCEPT !.registration = "Retired"] ELSE s

\* Lets a later failure replace the first one.
FaultyFailIgnored(s) == s.delivery = "TerminalConsumed"

\* fail() changes nothing once an error is recorded or the terminal consumed.
FailIgnored(s) == Failed(s) \/ s.delivery = "TerminalConsumed"

\* Forgets to retire a request that was already cleaned up.
FaultyFailUnretired(s, error) ==
  IF FailIgnored(s) THEN s
  ELSE [s EXCEPT !.outcome = error,
                 !.input = << >>, !.pendingInput = NoChunk, !.inputBytes = 0,
                 !.output = << >>, !.pendingOutput = NoEvent, !.outputBytes = 0]

Fail(s, error) ==
  IF FailIgnored(s) THEN s
  ELSE Retire([s EXCEPT !.outcome = error,
                        !.input = << >>, !.pendingInput = NoChunk, !.inputBytes = 0,
                        !.output = << >>, !.pendingOutput = NoEvent, !.outputBytes = 0])

\* The leases fail() hands back for release after unlocking.
DiscardedByFail(s) == IF FailIgnored(s) THEN 0 ELSE BufferedBytes(s)

\* The error complete_cleanup() raises for a backend result, "None" if none.
CleanupError(s, result) ==
  IF result # "Ok" THEN result
  ELSE IF s.inputPhase # "EofObserved" \/ s.pendingOutput # NoEvent
       THEN "Backend"
       ELSE "None"

\* Forgets to retire a request that had already failed.
FaultyCompleteCleanupUnretired(s, result) ==
  IF s.cleanup # "Pending" THEN s
  ELSE LET error == CleanupError(s, result)
           f     == IF error = "None" THEN s ELSE Fail(s, error)
       IN  [f EXCEPT !.cleanup = IF Failed(f) THEN f.outcome ELSE "Ok",
                     !.outcome = IF Failed(f) THEN @ ELSE "Success"]

CompleteCleanup(s, result) ==
  IF s.cleanup # "Pending" THEN s
  ELSE LET error == CleanupError(s, result)
           f     == IF error = "None" THEN s ELSE Fail(s, error)
       IN  Retire([f EXCEPT !.cleanup = IF Failed(f) THEN f.outcome ELSE "Ok",
                            !.outcome = IF Failed(f) THEN @ ELSE "Success"])

DiscardedByCleanup(s, result) ==
  IF s.cleanup # "Pending" \/ CleanupError(s, result) = "None"
  THEN 0 ELSE DiscardedByFail(s)
=============================================================================
