------------------------- MODULE AudioDeviceProofs -------------------------
(***************************************************************************)
(* Proofs about AudioDevice for any number of commands.                    *)
(*                                                                         *)
(* The type invariant already needs the life of an epoch: the worker makes *)
(* one only for a generation that never had one, so that no callback can   *)
(* be about to report for it, and a stream is kept only with its epoch.    *)
(***************************************************************************)
EXTENDS AudioDevice, TLAPS

\* The drop opens the last generation, and nothing opens one after it.
LastGeneration ==
  /\ control.at = "Idle" => ~control.dropping
  /\ ~control.dropping => generation <= MaxCommands

\* An epoch is made by the worker, in order, while it has no stream.
EpochsInOrder ==
  /\ \A g \in Generations : g > worker.seen => fault[g] = "None"
  /\ worker.at \in {"Opening", "Starting"} => active = 0 /\ worker.seen # 0
  /\ worker.at = "Opening" => fault[worker.seen] = "None"
  /\ worker.at = "Starting" => fault[worker.seen] \in {"Healthy", "Writing", "Ready"}

TypeInv == TypeOK /\ LastGeneration /\ EpochsInOrder

DeviceInv == TypeInv /\ FailureIsCurrent /\ NoWakeupLost

-----------------------------------------------------------------------------
\* Every step keeps the types and the order of the epochs.
LEMMA TypeStep == TypeInv /\ [Next]_vars => TypeInv'
<1> SUFFICES ASSUME TypeInv, [Next]_vars PROVE TypeInv'
  OBVIOUS
<1> USE AudioAssumption DEF TypeInv, TypeOK, LastGeneration, EpochsInOrder, Generations
<1>1. ASSUME NEW command \in {"Play", "Pause", "Seek"}, Command(command) PROVE TypeInv'
  BY <1>1 DEF Command, Open, Accepted, Running
<1>2. CASE RefusePlay
  BY <1>2 DEF RefusePlay, Running
<1>3. CASE Drop
  BY <1>3 DEF Drop, Open, Running
<1>4. CASE TakeError
  BY <1>4 DEF TakeError
<1>5. CASE MovePlayer
  BY <1>5 DEF MovePlayer
<1>6. CASE Post
  BY <1>6 DEF Post
<1>7. CASE Wake
  BY <1>7 DEF Wake
<1>8. CASE RequestShutdown
  BY <1>8 DEF RequestShutdown
<1>9. CASE Join
  BY <1>9 DEF Join
<1>10. ASSUME NEW g \in Generations, Render(g) PROVE TypeInv'
  BY <1>10 DEF Render, Running
<1>11. ASSUME NEW g \in Generations, ReportFault(g) PROVE TypeInv'
  BY <1>11 DEF ReportFault
<1>12. ASSUME NEW g \in Generations, StoreReady(g) PROVE TypeInv'
  BY <1>12 DEF StoreReady
<1>13. ASSUME NEW g \in Generations, Unpark(g) PROVE TypeInv'
  BY <1>13 DEF Unpark
<1>14. ASSUME NEW g \in Generations, RepeatFault(g) PROVE TypeInv'
  BY <1>14 DEF RepeatFault
<1>15. CASE ShutDown
  BY <1>15 DEF ShutDown, MayTakeToken
<1>16. CASE NewRequest
  <2>1. worker' \in [at : {"Opening", "Inspecting"}, seen : {requests.generation}]
    BY <1>16 DEF NewRequest
  <2>2. token' \in BOOLEAN
    BY <1>16 DEF NewRequest, MayTakeToken
  <2>3. worker'.at = "Opening" => worker'.seen # 0 /\ fault[worker'.seen] = "None"
    BY <1>16 DEF NewRequest
  <2> QED
    BY <1>16, <2>1, <2>2, <2>3 DEF NewRequest
<1>17. CASE OldRequest
  BY <1>17 DEF OldRequest
<1>18. CASE BeginStart
  BY <1>18 DEF BeginStart
<1>19. CASE Started
  BY <1>19 DEF Started, MayTakeToken
<1>20. CASE StartFailed
  <2>1. token' \in BOOLEAN
    BY <1>20 DEF StartFailed, MayTakeToken
  <2>2. /\ fault' = [fault EXCEPT ![worker.seen] = Taken(worker.seen)]
        /\ Taken(worker.seen) \in {"Healthy", "Writing", "Handled"}
    BY <1>20 DEF StartFailed, Taken
  <2>3. unparking \subseteq {g \in Generations : fault'[g] \in {"Ready", "Handled"}}
    BY <1>20 DEF StartFailed, Taken
  <2> QED
    BY <1>20, <2>1, <2>2, <2>3 DEF StartFailed
<1>21. CASE Inspect
  BY <1>21 DEF Inspect, Taken, ReadyFault
<1>22. CASE HandleFailure
  BY <1>22 DEF HandleFailure
<1>23. CASE DropStream
  BY <1>23 DEF DropStream, MayTakeToken
<1>24. CASE Recheck
  BY <1>24 DEF Recheck
<1>25. CASE Park
  BY <1>25 DEF Park
<1>26. CASE ParkSpuriously
  BY <1>26 DEF ParkSpuriously
<1>27. CASE UNCHANGED vars
  BY <1>27 DEF vars
<1> QED
  BY <1>1, <1>2, <1>3, <1>4, <1>5, <1>6, <1>7, <1>8, <1>9, <1>10, <1>11, <1>12, <1>13,
     <1>14, <1>15, <1>16, <1>17, <1>18, <1>19, <1>20, <1>21, <1>22, <1>23, <1>24, <1>25,
     <1>26, <1>27 DEF Next, Worker, Controller, Terminated

-----------------------------------------------------------------------------
\* Every step keeps the failure that is shown about the current command: only
\* HandleFailure sets it, and it re-reads the generation.
LEMMA FailureStep == TypeInv /\ FailureIsCurrent /\ [Next]_vars => FailureIsCurrent'
<1> SUFFICES ASSUME TypeInv, FailureIsCurrent, [Next]_vars PROVE FailureIsCurrent'
  OBVIOUS
<1> USE AudioAssumption DEF TypeInv, TypeOK, EpochsInOrder, Generations, FailureIsCurrent
<1>1. ASSUME NEW command \in {"Play", "Pause", "Seek"}, Command(command) PROVE FailureIsCurrent'
  BY <1>1 DEF Command, Open
<1>2. CASE RefusePlay \/ Drop \/ TakeError \/ MovePlayer
  BY <1>2 DEF RefusePlay, Drop, Open, TakeError, MovePlayer
<1>3. CASE Controller
  BY <1>3 DEF Controller, Post, Wake, RequestShutdown, Join
<1>4. ASSUME NEW g \in Generations,
             Render(g) \/ ReportFault(g) \/ StoreReady(g) \/ Unpark(g) \/ RepeatFault(g)
      PROVE  FailureIsCurrent'
  BY <1>4 DEF Render, Running, ReportFault, StoreReady, Unpark, RepeatFault
<1>5. CASE ShutDown \/ NewRequest \/ OldRequest \/ DropStream
  BY <1>5 DEF ShutDown, NewRequest, OldRequest, DropStream
<1>6. CASE BeginStart \/ Started
  BY <1>6 DEF BeginStart, Started
<1>7. CASE StartFailed
  BY <1>7 DEF StartFailed, Taken
<1>8. CASE Inspect
  BY <1>8 DEF Inspect, Taken, ReadyFault
<1>9. CASE HandleFailure
  BY <1>9 DEF HandleFailure
<1>10. CASE Recheck \/ Park \/ ParkSpuriously
  BY <1>10 DEF Recheck, Park, ParkSpuriously
<1>11. CASE UNCHANGED vars
  BY <1>11 DEF vars
<1> QED
  BY <1>1, <1>2, <1>3, <1>4, <1>5, <1>6, <1>7, <1>8, <1>9, <1>10, <1>11
  DEF Next, Worker, Terminated

\* Every step keeps a reason to stay parked: who makes a request or a fault
\* ready is about to unpark the worker, or has done so.
LEMMA WakeupStep == TypeInv /\ NoWakeupLost /\ [Next]_vars => NoWakeupLost'
<1> SUFFICES ASSUME TypeInv, NoWakeupLost, [Next]_vars PROVE NoWakeupLost'
  OBVIOUS
<1> USE DEF TypeInv, TypeOK, NoWakeupLost, ReadyFault
<1>1. ASSUME NEW command \in {"Play", "Pause", "Seek"}, Command(command) PROVE NoWakeupLost'
  BY <1>1 DEF Command, Open
<1>2. CASE RefusePlay \/ Drop \/ TakeError \/ MovePlayer
  BY <1>2 DEF RefusePlay, Drop, Open, TakeError, MovePlayer
<1>3. CASE Controller
  BY <1>3 DEF Controller, Post, Wake, RequestShutdown, Join
<1>4. ASSUME NEW g \in Generations,
             Render(g) \/ ReportFault(g) \/ StoreReady(g) \/ Unpark(g) \/ RepeatFault(g)
      PROVE  NoWakeupLost'
  <2>1. CASE Render(g)
    BY <2>1 DEF Render
  <2>2. CASE ReportFault(g)
    BY <2>2, AudioAssumption DEF ReportFault, Generations
  <2>3. CASE StoreReady(g)
    BY <2>3, AudioAssumption DEF StoreReady, Generations
  <2>4. CASE Unpark(g) \/ RepeatFault(g)
    BY <2>4 DEF Unpark, RepeatFault
  <2> QED
    BY <1>4, <2>1, <2>2, <2>3, <2>4
<1>5. CASE Recheck
  BY <1>5 DEF Recheck, NothingPending
<1>6. CASE Worker /\ ~Recheck
  BY <1>6 DEF Worker, ShutDown, NewRequest, OldRequest, BeginStart, Started, StartFailed, Inspect,
              HandleFailure, DropStream, Park
<1>7. CASE ParkSpuriously \/ UNCHANGED vars
  BY <1>7 DEF ParkSpuriously, vars
<1> QED
  BY <1>1, <1>2, <1>3, <1>4, <1>5, <1>6, <1>7 DEF Next, Terminated

-----------------------------------------------------------------------------
\* The inductive invariant of the device worker: types, the order of the
\* epochs, and the two properties below.
THEOREM DeviceInvariant == Spec => []DeviceInv
<1>1. Init => DeviceInv
  <2> SUFFICES ASSUME Init PROVE DeviceInv
    OBVIOUS
  <2>1. TypeOK
    <3>1. requests \in [generation : 0 .. 0, running : BOOLEAN, shutdown : BOOLEAN]
      BY DEF Init
    <3>2. control \in [at : {"Idle"}, running : BOOLEAN, dropping : BOOLEAN] /\ token \in BOOLEAN
      BY DEF Init
    <3>3. worker = [at |-> "Top", seen |-> 0] /\ active = 0 /\ requests.generation = 0
      BY DEF Init
    <3>4. fault \in [Generations -> {"None"}] /\ unparking = {}
      BY DEF Init
    <3> QED
      BY <3>1, <3>2, <3>3, <3>4, AudioAssumption DEF Init, TypeOK, Running
  <2>2. LastGeneration /\ EpochsInOrder
    BY AudioAssumption DEF Init, LastGeneration, EpochsInOrder, Generations
  <2>3. FailureIsCurrent /\ NoWakeupLost
    BY DEF Init, FailureIsCurrent, NoWakeupLost, ReadyFault
  <2> QED
    BY <2>1, <2>2, <2>3 DEF DeviceInv, TypeInv
<1>2. DeviceInv /\ [Next]_vars => DeviceInv'
  BY TypeStep, FailureStep, WakeupStep DEF DeviceInv
<1> QED BY <1>1, <1>2, PTL DEF Spec

\* For any number of commands, a failure is only ever about the current one,
\* and the player is paused by then (DeviceState::handle_failure).
THEOREM FailuresAreCurrent == Spec => []FailureIsCurrent
BY DeviceInvariant, PTL DEF DeviceInv

\* For any number of commands, the worker never parks over a request, a shutdown
\* or a fault that nobody is about to announce (DeviceState::run).
THEOREM WakeupsKept == Spec => []NoWakeupLost
BY DeviceInvariant, PTL DEF DeviceInv

\* For any number of commands, every variable of the device keeps its type: the
\* stream, if there is one, is of the generation the worker has seen, and has
\* an epoch; a worker that has ended has none.
THEOREM DeviceTypes == Spec => []TypeOK
<1>1. DeviceInv => TypeOK
  BY DEF DeviceInv, TypeInv
<1> QED BY <1>1, DeviceInvariant, PTL
=============================================================================
