----------------------------- MODULE AudioDevice -----------------------------
(***************************************************************************)
(* The audio device of the GUI: AudioOutput and its worker, audio.rs.      *)
(*                                                                         *)
(* A command changes the player and opens a new generation under the lock  *)
(* of the player, then posts the generation to the worker and unparks it.  *)
(* The worker owns the device stream: it drops the stream of an old        *)
(* generation and starts one for the new.  The callbacks of a stream run   *)
(* on threads of the audio system; the first one that fails publishes its  *)
(* fault through an atomic, and the worker then pauses the player and      *)
(* drops the stream, unless a command has opened a new generation.         *)
(*                                                                         *)
(* A step under the lock of the player is one action.  Park tokens are     *)
(* modelled, as library code on the worker may take them.  Of the player   *)
(* only the state is kept; the samples, the clock and the texts of errors  *)
(* are left out.                                                           *)
(***************************************************************************)
EXTENDS Integers

CONSTANT
  MaxCommands \* bound: commands that open a generation, before the drop

ASSUME AudioAssumption == MaxCommands \in Nat

Generations == 1 .. MaxCommands + 1   \* the stop of the drop opens the last

VARIABLES
  player,     \* Player.state
  generation, \* AudioOutput.generation
  failure,    \* the generation of DeviceFailure, or 0
  requests,   \* DeviceRequest: [generation, running, shutdown]
  control,    \* the thread of the AudioOutput: [at, running, dropping]
  token,      \* whether the worker's next park returns at once
  worker,     \* DeviceState::run: [at, seen], the last request acted on
  active,     \* the generation of its stream, or 0
  fault,      \* StreamEpoch.state by generation, "None" before the epoch exists
  unparking   \* the epochs whose first reporter has yet to unpark the worker

vars == << player, generation, failure, requests, control, token, worker, active, fault, unparking >>

Running == {"Playing", "Buffering"}

Init ==
  /\ player = "Paused"
  /\ generation = 0 /\ failure = 0
  /\ requests = [generation |-> 0, running |-> FALSE, shutdown |-> FALSE]
  /\ control = [at |-> "Idle", running |-> FALSE, dropping |-> FALSE]
  /\ token = FALSE
  /\ worker = [at |-> "Top", seen |-> 0]
  /\ active = 0
  /\ fault = [g \in Generations |-> "None"]
  /\ unparking = {}

-----------------------------------------------------------------------------
(* Commands. *)

\* command once the player has accepted it: the player is in state s, and
\* older failures are forgotten.
Open(s, dropping) ==
  /\ player' = s
  /\ generation' = generation + 1
  /\ failure' = 0
  /\ control' = [at |-> "Posting", running |-> s \in Running, dropping |-> dropping]
  /\ UNCHANGED << requests, token, worker, active, fault, unparking >>

\* The states in which Player::command leaves the player.
Accepted(command) ==
  CASE command = "Play" -> Running
    [] command = "Pause" -> {"Paused"}
    [] command = "Seek" -> IF player = "Ended" THEN {"Paused"} ELSE {player}

Command(command) ==
  /\ control.at = "Idle" /\ generation < MaxCommands
  /\ \E s \in Accepted(command) : Open(s, FALSE)

\* Play is refused, after it has paused what was playing: no new generation.
RefusePlay ==
  /\ control.at = "Idle" /\ player \in Running
  /\ player' = "Paused"
  /\ UNCHANGED << generation, failure, requests, control, token, worker, active, fault, unparking >>

\* The request, under a lock of its own, ...
Post ==
  /\ control.at = "Posting"
  /\ requests' = [generation |-> generation, running |-> control.running, shutdown |-> FALSE]
  /\ control' = [control EXCEPT !.at = "Waking"]
  /\ UNCHANGED << player, generation, failure, token, worker, active, fault, unparking >>

\* ... and wake_worker.
Wake ==
  /\ control.at \in {"Waking", "WakingLast"}
  /\ token' = TRUE
  /\ control' = [control EXCEPT !.at = CASE @ = "WakingLast" -> "Joining"
                                         [] control.dropping -> "Stopped"
                                         [] OTHER -> "Idle"]
  /\ UNCHANGED << player, generation, failure, requests, worker, active, fault, unparking >>

\* Drop stops the player as a command does, asks the worker to shut down, ...
Drop == control.at = "Idle" /\ Open("Paused", TRUE)

RequestShutdown ==
  /\ control.at = "Stopped"
  /\ requests' = [requests EXCEPT !.shutdown = TRUE]
  /\ control' = [control EXCEPT !.at = "WakingLast"]
  /\ UNCHANGED << player, generation, failure, token, worker, active, fault, unparking >>

\* ... and joins it.
Join ==
  /\ control.at = "Joining" /\ worker.at = "Exited"
  /\ control' = [control EXCEPT !.at = "Gone"]
  /\ UNCHANGED << player, generation, failure, requests, token, worker, active, fault, unparking >>

\* take_error: the user sees the failure.
TakeError ==
  /\ control.at = "Idle" /\ failure # 0
  /\ failure' = 0
  /\ UNCHANGED << player, generation, requests, control, token, worker, active, fault, unparking >>

\* The player moves by itself: clock_snapshot reaches the end, or the media are
\* replaced or become unavailable.
MovePlayer ==
  /\ \/ player = "Playing" /\ player' = "Ended"
     \/ player # "Paused" /\ player' = "Paused"
  /\ UNCHANGED << generation, failure, requests, control, token, worker, active, fault, unparking >>

-----------------------------------------------------------------------------
(* Callbacks of the audio system. *)

Streams == {active} \union (IF worker.at = "Starting" THEN {worker.seen} ELSE {})

\* render: only the current, healthy epoch plays, and playing may move the player.
Render(g) ==
  /\ g \in Streams /\ g = generation /\ fault[g] = "Healthy"
  /\ player \in Running
  /\ player' \in (Running \union {"Paused"}) \ {player}
  /\ UNCHANGED << generation, failure, requests, control, token, worker, active, fault, unparking >>

\* publish_fault: the first report of an epoch, even one whose stream is gone, ...
ReportFault(g) ==
  /\ fault[g] = "Healthy"
  /\ fault' = [fault EXCEPT ![g] = "Writing"]
  /\ UNCHANGED << player, generation, failure, requests, control, token, worker, active, unparking >>

\* ... is stored, ...
StoreReady(g) ==
  /\ fault[g] = "Writing"
  /\ fault' = [fault EXCEPT ![g] = "Ready"]
  /\ unparking' = unparking \union {g}
  /\ UNCHANGED << player, generation, failure, requests, control, token, worker, active >>

\* ... and the worker unparked.
Unpark(g) ==
  /\ g \in unparking
  /\ unparking' = unparking \ {g}
  /\ token' = TRUE
  /\ UNCHANGED << player, generation, failure, requests, control, worker, active, fault >>

\* A later report only unparks, perhaps before the first one is ready.
RepeatFault(g) ==
  /\ fault[g] \in {"Writing", "Ready", "Handled"}
  /\ token' = TRUE
  /\ UNCHANGED << player, generation, failure, requests, control, worker, active, fault, unparking >>

-----------------------------------------------------------------------------
(* The worker. *)

\* Library code on the worker may consume a park token.
MayTakeToken == token' \in {token, FALSE}

\* The worker leaves with its stream still open.
FaultyShutDown ==
  /\ worker.at = "Top" /\ requests.shutdown
  /\ worker' = [worker EXCEPT !.at = "Exited"]
  /\ UNCHANGED << player, generation, failure, requests, control, token, active, fault, unparking >>

\* The worker is asked to end, and drops its stream.
ShutDown ==
  /\ worker.at = "Top" /\ requests.shutdown
  /\ active' = 0 /\ MayTakeToken
  /\ worker' = [worker EXCEPT !.at = "Exited"]
  /\ UNCHANGED << player, generation, failure, requests, control, fault, unparking >>

\* A new request: the stream of the old one is dropped, and a running one gets
\* its own next.
NewRequest ==
  /\ worker.at = "Top" /\ ~requests.shutdown /\ requests.generation # worker.seen
  /\ active' = 0 /\ MayTakeToken
  /\ worker' = [at |-> IF requests.running THEN "Opening" ELSE "Inspecting",
                seen |-> requests.generation]
  /\ UNCHANGED << player, generation, failure, requests, control, fault, unparking >>

\* The worker was woken for something else.
OldRequest ==
  /\ worker.at = "Top" /\ ~requests.shutdown /\ requests.generation = worker.seen
  /\ worker' = [worker EXCEPT !.at = "Inspecting"]
  /\ UNCHANGED << player, generation, failure, requests, control, token, active, fault, unparking >>

\* Unless it is obsolete by now, the request gets an epoch, and start begins.
BeginStart ==
  /\ worker.at = "Opening"
  /\ IF generation = worker.seen
       THEN /\ fault' = [fault EXCEPT ![worker.seen] = "Healthy"]
            /\ worker' = [worker EXCEPT !.at = "Starting"]
       ELSE /\ worker' = [worker EXCEPT !.at = "Inspecting"]
            /\ UNCHANGED fault
  /\ UNCHANGED << player, generation, failure, requests, control, token, active, unparking >>

\* start has created a stream, kept unless the generation is obsolete.
Started ==
  /\ worker.at = "Starting"
  /\ active' = IF generation = worker.seen THEN worker.seen ELSE 0
  /\ worker' = [worker EXCEPT !.at = "Inspecting"]
  /\ MayTakeToken
  /\ UNCHANGED << player, generation, failure, requests, control, fault, unparking >>

\* take_fault.
Taken(g) == IF fault[g] = "Ready" THEN "Handled" ELSE fault[g]

\* The error of start is swallowed.
FaultyStartFailed ==
  /\ worker.at = "Starting"
  /\ fault' = [fault EXCEPT ![worker.seen] = Taken(worker.seen)]
  /\ worker' = [worker EXCEPT !.at = "Inspecting"]
  /\ MayTakeToken
  /\ UNCHANGED << player, generation, failure, requests, control, active, unparking >>

\* start has failed; a fault reported meanwhile is the better message.
StartFailed ==
  /\ worker.at = "Starting"
  /\ fault' = [fault EXCEPT ![worker.seen] = Taken(worker.seen)]
  /\ worker' = [worker EXCEPT !.at = "Failing"]
  /\ MayTakeToken
  /\ UNCHANGED << player, generation, failure, requests, control, active, unparking >>

ReadyFault == active # 0 /\ fault[active] = "Ready"

\* Is there a fault of the stream?
Inspect ==
  /\ worker.at = "Inspecting"
  /\ worker' = [worker EXCEPT !.at = IF ReadyFault THEN "Failing" ELSE "Rechecking"]
  /\ fault' = [g \in Generations |-> IF g = active THEN Taken(g) ELSE fault[g]]
  /\ UNCHANGED << player, generation, failure, requests, control, token, active, unparking >>

\* The generation is not read again under the lock of the player.
FaultyHandleFailure ==
  /\ worker.at = "Failing"
  /\ player' = "Paused" /\ failure' = worker.seen
  /\ worker' = [worker EXCEPT !.at = "Dropping"]
  /\ UNCHANGED << generation, requests, control, token, active, fault, unparking >>

\* handle_failure for the stream or the start of worker.seen, under the lock of
\* the player.  (An inspection after a failed start finds no stream.)
HandleFailure ==
  /\ worker.at = "Failing"
  /\ IF generation = worker.seen
       THEN /\ player' = "Paused" /\ failure' = generation
            /\ worker' = [worker EXCEPT !.at = "Dropping"]
       ELSE /\ worker' = [worker EXCEPT !.at = "Rechecking"]
            /\ UNCHANGED << player, failure >>
  /\ UNCHANGED << generation, requests, control, token, active, fault, unparking >>

\* The stream is dropped outside the lock.
DropStream ==
  /\ worker.at = "Dropping"
  /\ active' = 0 /\ MayTakeToken
  /\ worker' = [worker EXCEPT !.at = "Rechecking"]
  /\ UNCHANGED << player, generation, failure, requests, control, fault, unparking >>

\* A newer generation is left to its token.
FaultyNothingPending == ~requests.shutdown /\ ~ReadyFault

\* Nothing has come up since the worker looked.
NothingPending == ~requests.shutdown /\ requests.generation = worker.seen /\ ~ReadyFault

\* The last look before the park.
Recheck ==
  /\ worker.at = "Rechecking"
  /\ worker' = [worker EXCEPT !.at = IF NothingPending THEN "Parking" ELSE "Top"]
  /\ UNCHANGED << player, generation, failure, requests, control, token, active, fault, unparking >>

\* park returns with the token ...
Park ==
  /\ worker.at = "Parking" /\ token
  /\ token' = FALSE
  /\ worker' = [worker EXCEPT !.at = "Top"]
  /\ UNCHANGED << player, generation, failure, requests, control, active, fault, unparking >>

\* ... or without a cause.
ParkSpuriously ==
  /\ worker.at = "Parking"
  /\ worker' = [worker EXCEPT !.at = "Top"]
  /\ UNCHANGED << player, generation, failure, requests, control, token, active, fault, unparking >>

-----------------------------------------------------------------------------
Worker ==
  \/ ShutDown \/ NewRequest \/ OldRequest \/ BeginStart \/ Started \/ StartFailed
  \/ Inspect \/ HandleFailure \/ DropStream \/ Recheck \/ Park

Controller == Post \/ Wake \/ RequestShutdown \/ Join

\* Everything has ended: not a deadlock.
Terminated == control.at = "Gone" /\ UNCHANGED vars

Next ==
  \/ \E command \in {"Play", "Pause", "Seek"} : Command(command)
  \/ RefusePlay \/ Drop \/ TakeError \/ MovePlayer \/ Controller
  \/ \E g \in Generations :
       Render(g) \/ ReportFault(g) \/ StoreReady(g) \/ Unpark(g) \/ RepeatFault(g)
  \/ Worker \/ ParkSpuriously
  \/ Terminated

Spec == Init /\ [][Next]_vars

\* Threads run: a command that has begun is posted, the first report of a
\* fault is published, and starting a device ends somehow.  Nobody has to issue
\* a command, and no stream has to fail.
FairSpec ==
  /\ Spec
  /\ WF_vars(Controller) /\ WF_vars(Worker)
  /\ \A g \in Generations : WF_vars(StoreReady(g)) /\ WF_vars(Unpark(g))

-----------------------------------------------------------------------------
TypeOK ==
  /\ player \in Running \union {"Paused", "Ended"}
  /\ generation \in 0 .. MaxCommands + 1
  /\ failure \in 0 .. generation
  /\ requests \in [generation : 0 .. generation, running : BOOLEAN, shutdown : BOOLEAN]
  /\ control \in [at : {"Idle", "Posting", "Waking", "Stopped", "WakingLast", "Joining", "Gone"},
                  running : BOOLEAN, dropping : BOOLEAN]
  /\ token \in BOOLEAN
  /\ worker \in [at : {"Top", "Opening", "Starting", "Inspecting", "Failing", "Dropping",
                       "Rechecking", "Parking", "Exited"},
                 seen : 0 .. requests.generation]
  /\ active \in {0, worker.seen}
  /\ fault \in [Generations -> {"None", "Healthy", "Writing", "Ready", "Handled"}]
  /\ unparking \subseteq {g \in Generations : fault[g] \in {"Ready", "Handled"}}
  /\ active # 0 => fault[active] # "None"
  /\ worker.at = "Exited" => active = 0

\* A failure is about the command the user sees (handle_failure, which re-reads
\* the generation under the lock of the player): it names the current
\* generation, its player is paused, and nothing has resumed the player behind
\* it; a fault that was taken from the stream of the current generation has
\* been or is about to be handled.
FailureIsCurrent ==
  /\ failure # 0 => failure = generation /\ player = "Paused"
  /\ active # 0 /\ active = generation /\ fault[active] = "Handled"
       => worker.at \in {"Failing", "Dropping"}

\* No wakeup is lost (the recheck before park): while the worker is parked for
\* good, and nobody is about to unpark it, it has acted on the last request, and
\* its stream has no fault it has not handled.
NoWakeupLost ==
  worker.at = "Parking" /\ ~token =>
    /\ control.at \notin {"Waking", "WakingLast"} =>
         requests.generation = worker.seen /\ ~requests.shutdown
    /\ ReadyFault => active \in unparking

\* The device follows the player: a generation that plays gets a stream, or the
\* player is stopped; one that does not play loses the old stream; a stream with
\* a fault is dropped; and the drop of the output ends.
DeviceFollows ==
  /\ \A g \in Generations :
       /\ generation = g /\ player \in Running ~> generation # g \/ player \notin Running \/ active = g
       /\ generation = g /\ ~control.running ~> generation # g \/ active = 0
       /\ active = g /\ fault[g] = "Ready" ~> active # g
  /\ control.dropping ~> control.at = "Gone"
=============================================================================
