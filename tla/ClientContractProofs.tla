------------------------ MODULE ClientContractProofs ------------------------
(***************************************************************************)
(* Proofs about what the user of a request gets from ClientSession, for    *)
(* any set of requests, any limits and any charges: the client implements  *)
(* RequestContract, events arrive in order, and Completed means complete.  *)
(*                                                                         *)
(* The refinement.  A method of State does one of five things as far as    *)
(* the contract is concerned (ContractMove): nothing, deliver an event,    *)
(* fail the request, hand over the terminal, acknowledge cleanup.  Every   *)
(* step of Next is one of these for one request, or a step of its          *)
(* registration; LifecycleInv says which handle and thread may take it.    *)
(*                                                                         *)
(* The data.  DataInv relates the queues of a request (RecordData) to the  *)
(* handles of its endpoints: a slot is filled while its endpoint waits,    *)
(* the chunks queued are those accepted and not taken, and the numbered    *)
(* events queued are the ones after the last delivered.                    *)
(***************************************************************************)
EXTENDS ClientSessionProofs, SequenceTheorems

-----------------------------------------------------------------------------
(* The contract of a request.                                              *)

\* How a request stands: success comes with a cleanup that went well, and the
\* terminal is consumed when there is one.
OutcomeInv(s) ==
  /\ s.outcome \in {"Running", "Success"} \cup ErrorKind
  /\ s.cleanup \in {"Pending", "Ok"} \cup ErrorKind
  /\ s.delivery \in {"Receiving", "TerminalConsumed"}
  /\ s.outcome = "Success" => s.cleanup = "Ok"
  /\ s.delivery = "TerminalConsumed" => s.outcome # "Running"

\* Nothing the contract speaks of.
Same(s, t) ==
  /\ t.outcome = s.outcome /\ t.cleanup = s.cleanup
  /\ t.delivery = s.delivery /\ t.delivered = s.delivered

\* The user receives an event.
Delivers(s, t) ==
  /\ s.delivery = "Receiving" /\ ~Failed(s)
  /\ t.outcome = s.outcome /\ t.cleanup = s.cleanup /\ t.delivery = s.delivery
  /\ t.delivered = s.delivered + 1

\* The first failure.
Fails(s, t) ==
  /\ s.delivery = "Receiving" /\ ~Failed(s)
  /\ t.outcome \in ErrorKind
  /\ t.cleanup = s.cleanup /\ t.delivery = s.delivery /\ t.delivered = s.delivered

\* The user receives the terminal.
Consumes(s, t) ==
  /\ s.delivery = "Receiving" /\ t.delivery = "TerminalConsumed"
  /\ Failed(s) \/ s.outcome = "Success"
  /\ t.outcome = s.outcome /\ t.cleanup = s.cleanup /\ t.delivered = s.delivered

\* The backend acknowledges cleanup, and may fail the request by it.
Acknowledges(s, t) ==
  /\ s.cleanup = "Pending"
  /\ t.delivery = s.delivery /\ t.delivered = s.delivered
  /\ \/ Failed(s) /\ t.outcome = s.outcome /\ t.cleanup = s.outcome
     \/ /\ ~Failed(s) /\ s.delivery = "Receiving"
        /\ \/ t.outcome \in ErrorKind /\ t.cleanup = t.outcome
           \/ t.outcome = "Success" /\ t.cleanup = "Ok"

ContractMove(s, t) ==
  \/ Same(s, t) \/ Delivers(s, t) \/ Fails(s, t) \/ Consumes(s, t) \/ Acknowledges(s, t)

\* The methods of State that move chunks and events are none of the contract's
\* business, except the one that hands an event to the user.
LEMMA DataMoves ==
  ASSUME NEW s, HasFields(s), NEW b, NEW finished
  PROVE  /\ Same(s, StageInput(s, b))
         /\ Same(s, EnqueueInput(s, b))
         /\ Same(s, AcceptInput(s))
         /\ Same(s, AbandonInput(s))
         /\ Same(s, FinishInput(s))
         /\ Same(s, PopInput(s))
         /\ Same(s, ObserveEof(s))
         /\ Same(s, StageOutput(s, finished, b))
         /\ Same(s, AcceptOutput(s))
<1> USE FieldNames DEF HasFields, Same
<1>1. Same(s, StageInput(s, b))
  BY DEF StageInput
<1>2. Same(s, EnqueueInput(s, b))
  BY DEF EnqueueInput
<1>3. Same(s, AcceptInput(s))
  BY DEF AcceptInput, EnqueueInput
<1>4. Same(s, AbandonInput(s))
  BY DEF AbandonInput
<1>5. Same(s, FinishInput(s))
  BY DEF FinishInput
<1>6. Same(s, PopInput(s))
  BY DEF PopInput
<1>7. Same(s, ObserveEof(s))
  BY DEF ObserveEof
<1>8. Same(s, StageOutput(s, finished, b))
  BY DEF StageOutput
<1>9. Same(s, AcceptOutput(s))
  BY DEF AcceptOutput
<1> QED BY <1>1, <1>2, <1>3, <1>4, <1>5, <1>6, <1>7, <1>8, <1>9

\* State::receive: an event for a user whose request has not failed, or its end.
LEMMA ReceiveMoves ==
  ASSUME NEW s, HasFields(s), s.delivery = "Receiving"
  PROVE  /\ ~Failed(s) => ContractMove(s, PopOutput(s))
         /\ Failed(s) \/ s.outcome = "Success" => Consumes(s, ConsumeTerminal(s))
<1>1. ASSUME ~Failed(s) PROVE ContractMove(s, PopOutput(s))
  <2>1. /\ PopOutput(s).outcome = s.outcome /\ PopOutput(s).cleanup = s.cleanup
        /\ PopOutput(s).delivery = s.delivery
        /\ PopOutput(s).delivered = IF Head(s.output).n = 0 THEN s.delivered ELSE s.delivered + 1
    BY FieldNames DEF HasFields, PopOutput
  <2> QED BY <1>1, <2>1 DEF ContractMove, Same, Delivers
<1>2. ASSUME Failed(s) \/ s.outcome = "Success" PROVE Consumes(s, ConsumeTerminal(s))
  <2>1. /\ ConsumeTerminal(s).outcome = s.outcome /\ ConsumeTerminal(s).cleanup = s.cleanup
        /\ ConsumeTerminal(s).delivered = s.delivered
        /\ ConsumeTerminal(s).delivery = "TerminalConsumed"
    BY FieldNames DEF HasFields, ConsumeTerminal
  <2> QED BY <1>2, <2>1 DEF Consumes
<1> QED BY <1>1, <1>2

\* State::retire is not visible to the user.
LEMMA RetireSame ==
  ASSUME NEW s, HasFields(s)
  PROVE  Same(s, Retire(s))
BY FieldNames DEF HasFields, Retire, Same

\* State::fail records the first failure, unless the terminal was consumed.
LEMMA FailFields ==
  ASSUME NEW s, HasFields(s), NEW error, ~FailIgnored(s)
  PROVE  /\ HasFields(Fail(s, error))
         /\ Fail(s, error).outcome = error /\ Fail(s, error).cleanup = s.cleanup
         /\ Fail(s, error).delivery = s.delivery /\ Fail(s, error).delivered = s.delivered
         /\ Fail(s, error).input = << >> /\ Fail(s, error).pendingInput = NoChunk
         /\ Fail(s, error).output = << >> /\ Fail(s, error).pendingOutput = NoEvent
         /\ Fail(s, error).inputBytes = 0 /\ Fail(s, error).outputBytes = 0
         /\ Fail(s, error).inputPhase = s.inputPhase /\ Fail(s, error).received = s.received
         /\ Fail(s, error).notice = s.notice
<1> DEFINE e == [s EXCEPT !.outcome = error,
                        !.input = << >>, !.pendingInput = NoChunk, !.inputBytes = 0,
                        !.output = << >>, !.pendingOutput = NoEvent, !.outputBytes = 0]
<1>1. /\ HasFields(e)
      /\ e.outcome = error /\ e.cleanup = s.cleanup
      /\ e.delivery = s.delivery /\ e.delivered = s.delivered
      /\ e.input = << >> /\ e.pendingInput = NoChunk
      /\ e.output = << >> /\ e.pendingOutput = NoEvent
      /\ e.inputBytes = 0 /\ e.outputBytes = 0
      /\ e.inputPhase = s.inputPhase /\ e.received = s.received /\ e.notice = s.notice
  BY FieldNames DEF HasFields
<1>2. Fail(s, error) = Retire(e)
  BY DEF Fail
<1> HIDE DEF e
<1>3. \A f \in Fields \ {"registration"} : Retire(e)[f] = e[f]
  BY <1>1, FieldNames DEF HasFields, Retire
<1>4. HasFields(Retire(e))
  BY <1>1, RetireFields
<1> QED BY <1>1, <1>2, <1>3, <1>4, FieldNames

\* A failure is the first one, or changes nothing.
LEMMA FailContract ==
  ASSUME NEW s, HasFields(s), OutcomeInv(s), NEW error \in ErrorKind
  PROVE  ContractMove(s, Fail(s, error))
<1>1. CASE FailIgnored(s)
  BY <1>1 DEF Fail, ContractMove, Same
<1>2. CASE ~FailIgnored(s)
  BY <1>2, FailFields DEF ContractMove, Fails, FailIgnored, OutcomeInv
<1> QED BY <1>1, <1>2

\* State::complete_cleanup without the retirement that ends it.
Cleaned(s, result) ==
  LET error == CleanupError(s, result)
      f     == IF error = "None" THEN s ELSE Fail(s, error)
  IN  [f EXCEPT !.cleanup = IF Failed(f) THEN f.outcome ELSE "Ok",
                !.outcome = IF Failed(f) THEN @ ELSE "Success"]

\* It acknowledges, and empties the queues exactly when it fails the request.
LEMMA CleanedFields ==
  ASSUME NEW s, HasFields(s), OutcomeInv(s), s.cleanup = "Pending", NEW result \in Result
  PROVE  /\ CompleteCleanup(s, result) = Retire(Cleaned(s, result))
         /\ HasFields(Cleaned(s, result))
         /\ Acknowledges(s, Cleaned(s, result))
         /\ Cleaned(s, result).delivery = s.delivery /\ Cleaned(s, result).received = s.received
         /\ Cleaned(s, result).inputPhase = s.inputPhase /\ Cleaned(s, result).notice = s.notice
         /\ \/ /\ ~Failed(s) /\ CleanupError(s, result) # "None"
               /\ Cleaned(s, result).outcome \in ErrorKind
               /\ Cleaned(s, result).input = << >> /\ Cleaned(s, result).pendingInput = NoChunk
               /\ Cleaned(s, result).output = << >> /\ Cleaned(s, result).pendingOutput = NoEvent
               /\ Cleaned(s, result).inputBytes = 0 /\ Cleaned(s, result).outputBytes = 0
            \/ /\ Failed(s) \/ CleanupError(s, result) = "None"
               /\ ~Failed(s) => Cleaned(s, result).outcome = "Success"
               /\ Failed(s) => Cleaned(s, result).outcome = s.outcome
               /\ Cleaned(s, result).input = s.input /\ Cleaned(s, result).pendingInput = s.pendingInput
               /\ Cleaned(s, result).output = s.output
               /\ Cleaned(s, result).pendingOutput = s.pendingOutput
               /\ Cleaned(s, result).inputBytes = s.inputBytes
               /\ Cleaned(s, result).outputBytes = s.outputBytes
<1> DEFINE error == CleanupError(s, result)
           f == IF error = "None" THEN s ELSE Fail(s, error)
           c == Cleaned(s, result)
<1>1. CompleteCleanup(s, result) = Retire(c)
  BY DEF CompleteCleanup, Cleaned
<1>2. error \in {"None"} \cup ErrorKind
  BY DEF CleanupError, Result, ErrorKind
<1>3. ~Failed(s) => s.delivery = "Receiving" /\ ~FailIgnored(s)
  BY DEF OutcomeInv, Failed, FailIgnored, ErrorKind
<1>4. HasFields(f) /\ f.delivery = s.delivery /\ f.received = s.received /\ f.delivered = s.delivered
      /\ f.inputPhase = s.inputPhase /\ f.notice = s.notice
  BY <1>2, FailFields DEF Fail
<1>5. CASE Failed(s) \/ error = "None"
  <2>1. f = s
    BY <1>5, <1>3 DEF Fail, FailIgnored
  <2>2. c = [s EXCEPT !.cleanup = IF Failed(s) THEN s.outcome ELSE "Ok",
                      !.outcome = IF Failed(s) THEN @ ELSE "Success"]
    BY <2>1 DEF Cleaned
  <2> HIDE DEF f, c
  <2>3. /\ HasFields(c) /\ c.delivery = s.delivery /\ c.delivered = s.delivered
        /\ c.received = s.received /\ c.inputPhase = s.inputPhase /\ c.notice = s.notice
        /\ c.input = s.input /\ c.pendingInput = s.pendingInput
        /\ c.output = s.output /\ c.pendingOutput = s.pendingOutput
        /\ c.inputBytes = s.inputBytes /\ c.outputBytes = s.outputBytes
        /\ c.outcome = IF Failed(s) THEN s.outcome ELSE "Success"
        /\ c.cleanup = IF Failed(s) THEN s.outcome ELSE "Ok"
    BY <2>2, FieldNames DEF HasFields
  <2>4. Acknowledges(s, c)
    BY <2>3, <1>3 DEF Acknowledges
  <2> QED BY <1>1, <1>5, <2>3, <2>4 DEF c
<1>6. CASE ~Failed(s) /\ error # "None"
  <2>1. f = Fail(s, error) /\ error \in ErrorKind
    BY <1>6, <1>2
  <2>2. /\ f.outcome = error /\ f.cleanup = s.cleanup
        /\ f.input = << >> /\ f.pendingInput = NoChunk
        /\ f.output = << >> /\ f.pendingOutput = NoEvent
        /\ f.inputBytes = 0 /\ f.outputBytes = 0
    BY <1>3, <1>6, <2>1, FailFields
  <2>3. Failed(f)
    BY <2>1, <2>2 DEF Failed
  <2>4. c = [f EXCEPT !.cleanup = error, !.outcome = error]
    <3>1. c = [f EXCEPT !.cleanup = f.outcome, !.outcome = @]
      BY <2>3 DEF Cleaned
    <3> QED BY <3>1, <2>2
  <2> HIDE DEF f, c
  <2>5. /\ HasFields(c) /\ c.delivery = f.delivery /\ c.delivered = f.delivered
        /\ c.received = f.received /\ c.inputPhase = f.inputPhase /\ c.notice = f.notice
        /\ c.input = << >> /\ c.pendingInput = NoChunk
        /\ c.output = << >> /\ c.pendingOutput = NoEvent
        /\ c.inputBytes = 0 /\ c.outputBytes = 0
        /\ c.outcome = error /\ c.cleanup = error
    BY <2>2, <2>4, <1>4, FieldNames DEF HasFields
  <2>6. Acknowledges(s, c)
    BY <2>1, <2>5, <1>4, <1>3, <1>6 DEF Acknowledges
  <2> QED BY <1>1, <1>4, <1>6, <2>1, <2>5, <2>6 DEF c
<1> QED BY <1>5, <1>6

\* State::complete_cleanup acknowledges once.
LEMMA CleanupContract ==
  ASSUME NEW s, HasFields(s), OutcomeInv(s), NEW result \in Result
  PROVE  ContractMove(s, CompleteCleanup(s, result))
<1>1. CASE s.cleanup # "Pending"
  BY <1>1 DEF CompleteCleanup, ContractMove, Same
<1>2. CASE s.cleanup = "Pending"
  <2> DEFINE c == Cleaned(s, result)
  <2>1. CompleteCleanup(s, result) = Retire(c) /\ HasFields(c) /\ Acknowledges(s, c)
    BY <1>2, CleanedFields
  <2> HIDE DEF c
  <2>2. Same(c, Retire(c))
    BY <2>1, RetireSame
  <2>3. Acknowledges(s, Retire(c))
    BY <2>1, <2>2 DEF Same, Acknowledges
  <2> QED BY <2>1, <2>3 DEF ContractMove
<1> QED BY <1>1, <1>2

\* Whatever a method of State does, the request stands well afterwards.
LEMMA MoveKeepsOutcome ==
  ASSUME NEW s, NEW t, OutcomeInv(s), ContractMove(s, t)
  PROVE  OutcomeInv(t)
BY DEF OutcomeInv, ContractMove, Same, Delivers, Fails, Consumes, Acknowledges, Failed, ErrorKind

-----------------------------------------------------------------------------
(* Every step.                                                             *)

\* The state of request r moves as the contract allows.
StateMove(r) ==
  /\ UNCHANGED << registered, launch >>
  /\ \E t : ContractMove(st[r], t) /\ HasFields(t) /\ st' = [st EXCEPT ![r] = t]

\* Request r is registered, its launch ends, it leaves the registry.
Registers(r) ==
  /\ launch[r] = "Idle" /\ r \notin registered
  /\ registered' = registered \cup {r}
  /\ launch' = [launch EXCEPT ![r] = "Launching"] /\ UNCHANGED st

Launches(r) ==
  /\ launch[r] = "Launching" /\ launch' \in {[launch EXCEPT ![r] = l] : l \in {"Started", "Refused"}}
  /\ UNCHANGED << registered, st >>

Unregisters(r) ==
  /\ r \in registered /\ launch[r] # "Idle"
  /\ st[r].cleanup # "Pending"
  /\ Failed(st[r]) \/ st[r].delivery = "TerminalConsumed"
  /\ registered' = registered \ {r} /\ UNCHANGED << launch, st >>

Outcomes == \A r \in Requests : OutcomeInv(st[r])

\* What a step of the client is to the contract.
LEMMA StepMoves ==
  ASSUME LifecycleInv, Outcomes, Next
  PROVE  \/ \E r \in Requests : StateMove(r) \/ Registers(r) \/ Launches(r) \/ Unregisters(r)
         \/ UNCHANGED << registered, launch, st >>
<1> DEFINE Goal == \/ \E r \in Requests : StateMove(r) \/ Registers(r) \/ Launches(r) \/ Unregisters(r)
                   \/ UNCHANGED << registered, launch, st >>
<1>0. /\ st = [q \in Requests |-> st[q]]
      /\ \A q \in Requests : HasFields(st[q]) /\ RequestInv(q) /\ OutcomeInv(st[q])
  BY DEF LifecycleInv, Shape, Outcomes
<1>1. ASSUME NEW r \in Requests, NEW t, ContractMove(st[r], t), HasFields(t),
             st' = [st EXCEPT ![r] = t], UNCHANGED << registered, launch >>
      PROVE  Goal
  BY <1>1 DEF StateMove
<1>2. ASSUME NEW r \in Requests, NEW t, Same(st[r], t), SameLife(st[r], t),
             st' = [st EXCEPT ![r] = t], UNCHANGED << registered, launch >>
      PROVE  Goal
  BY <1>1, <1>2 DEF ContractMove, SameLife
<1>3. ASSUME NEW r \in Requests, NEW a, NEW error \in ErrorKind, FailRequest(r, a, error),
             UNCHANGED << registered, launch >>
      PROVE  Goal
  <2>1. ContractMove(st[r], Fail(st[r], error)) /\ HasFields(Fail(st[r], error))
    BY <1>0, FailContract, FailMoves DEF Moves
  <2> QED BY <1>1, <1>3, <2>1 DEF FailRequest, Transition
<1>4. ASSUME NEW r \in Requests, NEW b, NEW finished
      PROVE  /\ Same(st[r], StageInput(st[r], b)) /\ SameLife(st[r], StageInput(st[r], b))
             /\ Same(st[r], EnqueueInput(st[r], b)) /\ SameLife(st[r], EnqueueInput(st[r], b))
             /\ Same(st[r], AcceptInput(st[r])) /\ SameLife(st[r], AcceptInput(st[r]))
             /\ Same(st[r], AbandonInput(st[r])) /\ SameLife(st[r], AbandonInput(st[r]))
             /\ Same(st[r], FinishInput(st[r])) /\ SameLife(st[r], FinishInput(st[r]))
             /\ Same(st[r], PopInput(st[r])) /\ SameLife(st[r], PopInput(st[r]))
             /\ Same(st[r], ObserveEof(st[r])) /\ SameLife(st[r], ObserveEof(st[r]))
             /\ Same(st[r], StageOutput(st[r], finished, b)) /\ SameLife(st[r], StageOutput(st[r], finished, b))
             /\ Same(st[r], AcceptOutput(st[r])) /\ SameLife(st[r], AcceptOutput(st[r]))
  BY <1>0, DataMoves, DataKeepsLife
<1>5. {"Cancelled", "DeadlineExceeded", "ShuttingDown", "Backend"} \subseteq ErrorKind
  BY DEF ErrorKind
<1> HIDE DEF Goal
<1>6. ASSUME NEW r \in Requests, Start(r) PROVE Goal
  <2>1. ASSUME Register(r) PROVE Registers(r)
    BY <2>1, <1>0 DEF Register, Registers, RequestInv, Untouched
  <2>2. ASSUME LaunchOk(r) \/ LaunchError(r) PROVE Launches(r)
    BY <2>2 DEF LaunchOk, LaunchError, Launches, coreVars
  <2> QED BY <1>6, <2>1, <2>2 DEF Start, Goal
<1>7. ASSUME NEW r \in Requests, NEW a \in Actor, DropLeases(r, a) \/ Unregister(r, a) \/ Changed(r, a)
      PROVE  Goal
  <2>1. CASE DropLeases(r, a)
    BY <2>1 DEF DropLeases, Goal, endVars
  <2>2. CASE Unregister(r, a)
    <3>1. pc[r][a] = "Remove"
      BY <2>2 DEF Unregister
    <3>2. launch[r] # "Idle" /\ st[r].registration = "Retired" /\ r \in registered
      BY <3>1, <1>0 DEF RequestInv, Untouched, RetiredOnce
    <3>3. Unregisters(r)
      BY <2>2, <3>2, <1>0 DEF Unregister, Unregisters, RequestInv, RetiredOnce, endVars
    <3> QED BY <3>3 DEF Goal
  <2>3. CASE Changed(r, a)
    <3>1. Same(st[r], Retire(st[r])) /\ HasFields(Retire(st[r]))
      BY <1>0, RetireSame, RetireFields
    <3> QED BY <2>3, <3>1, <1>1 DEF Changed, Transition, ContractMove, coreVars, endVars
  <2> QED BY <1>7, <2>1, <2>2, <2>3
<1>8. ASSUME NEW r \in Requests, User(r) PROVE Goal
  <2>1. ASSUME NEW b \in ItemBytes, SendReserve(r, b) \/ TrySend(r, b) PROVE Goal
    BY <2>1, <1>2, <1>4 DEF SendReserve, TrySend, endVars, Goal
  <2>2. CASE SendStage(r) \/ PollSend(r)
    BY <2>2, <1>2, <1>4 DEF SendStage, PollSend, coreVars, Goal
  <2>3. CASE DropSend(r) \/ FinishSending(r)
    BY <2>3, <1>2, <1>4 DEF DropSend, FinishSending, coreVars, Goal
  <2>4. CASE DropInput(r) \/ DropOutput(r) \/ Cancel(r)
    BY <2>4, <1>3, <1>5 DEF DropInput, DropOutput, Cancel, coreVars, endVars
  <2>5. CASE Receive(r)
    <3>1. st[r].delivery = "Receiving"
      BY <2>5, <1>0 DEF Receive, RequestInv, ConsumedByOutput, OutcomeInv
    <3>2. HasFields(PopOutput(st[r])) /\ HasFields(ConsumeTerminal(st[r]))
      BY <1>0, FieldNames DEF HasFields, PopOutput, ConsumeTerminal
    <3>3. /\ ~Failed(st[r]) => ContractMove(st[r], PopOutput(st[r]))
          /\ Failed(st[r]) \/ st[r].outcome = "Success" => ContractMove(st[r], ConsumeTerminal(st[r]))
      BY <3>1, <1>0, ReceiveMoves DEF ContractMove
    <3> QED BY <2>5, <3>2, <3>3, <1>1 DEF Receive, coreVars
  <2> QED BY <1>8, <2>1, <2>2, <2>3, <2>4, <2>5 DEF User
<1>9. ASSUME NEW r \in Requests, Expire(r) PROVE Goal
  BY <1>9, <1>3, <1>5 DEF Expire, coreVars, endVars
<1>10. ASSUME NEW r \in Requests, Backend(r) PROVE Goal
  <2>1. CASE ReadInput(r) \/ ReleasePacket(r)
    BY <2>1, <1>2, <1>4 DEF ReadInput, ReleasePacket, coreVars, Goal
  <2>2. ASSUME NEW b \in ItemBytes, EmitReserve(r, b) \/ EmitOverBudget(r, b) PROVE Goal
    BY <2>2, <1>3, <1>5 DEF EmitReserve, EmitOverBudget, coreVars, endVars, Goal
  <2>3. ASSUME NEW finished \in BOOLEAN, EmitStage(r, finished) PROVE Goal
    BY <2>3, <1>2, <1>4 DEF EmitStage, coreVars, Goal
  <2>4. CASE EmitRejected(r) \/ DropEmit(r) \/ BackendFail(r)
    BY <2>4, <1>3, <1>5 DEF EmitRejected, DropEmit, BackendFail, coreVars, endVars
  <2>5. CASE PollEmit(r)
    BY <2>5, <1>2, <1>4 DEF PollEmit, coreVars, Goal
  <2>6. ASSUME NEW result \in Result, GuardFinish(r, result) PROVE Goal
    BY <2>6 DEF GuardFinish, coreVars, Goal
  <2>7. CASE Close(r)
    <3> DEFINE t == CompleteCleanup(st[r], pc[r]["guard"])
    <3>1. ContractMove(st[r], t) /\ HasFields(t)
      BY <2>7, <1>0, CleanupContract, CleanupMoves DEF Close, Moves
    <3> HIDE DEF t
    <3> QED BY <2>7, <3>1, <1>1 DEF Close, Transition, t, coreVars, endVars
  <2> QED BY <1>10, <2>1, <2>2, <2>3, <2>4, <2>5, <2>6, <2>7 DEF Backend
<1>11. CASE Shutdown
  <2>1. ASSUME NEW r \in Requests, ShutdownFail(r) PROVE Goal
    BY <2>1, <1>3, <1>5 DEF ShutdownFail, endVars
  <2> QED BY <1>11, <2>1 DEF Shutdown, BeginShutdown, ShutdownDriver, DriverFinish, Goal, endVars
<1> QED BY <1>6, <1>7, <1>8, <1>9, <1>10, <1>11 DEF Next, Continuation, Goal

\* Every request stands well.
LEMMA OutcomesHold == Spec => []Outcomes
<1>1. Init => Outcomes
  BY DEF Init, Outcomes, OutcomeInv, Fresh, ErrorKind
<1>2. LifecycleInv /\ Outcomes /\ [Next]_vars => Outcomes'
  <2> SUFFICES ASSUME LifecycleInv, Outcomes, [Next]_vars, NEW q \in Requests
               PROVE  OutcomeInv(st'[q])
    BY DEF Outcomes
  <2>1. OutcomeInv(st[q]) /\ st = [x \in Requests |-> st[x]]
    BY DEF Outcomes, LifecycleInv, Shape
  <2>2. CASE UNCHANGED st
    BY <2>1, <2>2
  <2>3. ASSUME NEW r \in Requests, StateMove(r) PROVE OutcomeInv(st'[q])
    <3>1. PICK t : ContractMove(st[r], t) /\ st' = [st EXCEPT ![r] = t]
      BY <2>3 DEF StateMove
    <3>2. OutcomeInv(t)
      BY <3>1, MoveKeepsOutcome DEF Outcomes
    <3>3. st'[q] = IF q = r THEN t ELSE st[q]
      BY <3>1, <2>1
    <3> QED BY <2>1, <3>2, <3>3
  <2> QED BY <2>2, <2>3, StepMoves DEF vars, Registers, Launches, Unregisters
<1> QED BY <1>1, <1>2, LifecycleInvariant, PTL DEF Spec

-----------------------------------------------------------------------------
(* The refinement.                                                         *)

\* The failure and the terminal of a request, as the refinement mapping sees them.
FailureOf(s)  == IF Failed(s) THEN s.outcome ELSE "None"
TerminalOf(s) == IF s.delivery = "Receiving" THEN "None"
                 ELSE IF Failed(s) THEN s.outcome ELSE "Completed"

\* The initial states of the client are those of the contract.
LEMMA ContractInit == Init => Contract!Init
BY DEF Init, Contract!Init, Fresh, Failed, ErrorKind

\* Each move of one request is an action of the contract.
LEMMA StateStep ==
  ASSUME st = [q \in Requests |-> st[q]], Outcomes, NEW r \in Requests, StateMove(r)
  PROVE  Contract!Next \/ UNCHANGED Contract!contractVars
<1>1. PICK t : ContractMove(st[r], t) /\ st' = [st EXCEPT ![r] = t]
  BY DEF StateMove
<1>2. /\ \A q \in Requests : st'[q] = IF q = r THEN t ELSE st[q]
      /\ UNCHANGED << registered, launch >>
  BY <1>1 DEF StateMove
<1>3. OutcomeInv(st[r])
  BY DEF Outcomes
<1> DEFINE delivered == [q \in Requests |-> st[q].delivered]
           failure   == [q \in Requests |-> IF Failed(st[q]) THEN st[q].outcome ELSE "None"]
           ack       == [q \in Requests |-> st[q].cleanup]
           terminal  == [q \in Requests |->
                           IF st[q].delivery = "Receiving" THEN "None"
                           ELSE IF Failed(st[q]) THEN st[q].outcome ELSE "Completed"]
<1>4. /\ delivered' = [delivered EXCEPT ![r] = t.delivered]
      /\ failure' = [failure EXCEPT ![r] = FailureOf(t)]
      /\ ack' = [ack EXCEPT ![r] = t.cleanup]
      /\ terminal' = [terminal EXCEPT ![r] = TerminalOf(t)]
  BY <1>2 DEF FailureOf, TerminalOf, Failed
<1>5. /\ delivered[r] = st[r].delivered /\ failure[r] = FailureOf(st[r])
      /\ ack[r] = st[r].cleanup /\ terminal[r] = TerminalOf(st[r])
  BY DEF FailureOf, TerminalOf
<1>6. ASSUME NEW f, NEW v, f = [q \in Requests |-> f[q]], f[r] = v PROVE [f EXCEPT ![r] = v] = f
  BY <1>6
<1>7. UNCHANGED {q \in Requests : launch[q] # "Idle" /\ q \notin registered}
  BY <1>2
<1>8. /\ delivered = [q \in Requests |-> delivered[q]] /\ failure = [q \in Requests |-> failure[q]]
      /\ ack = [q \in Requests |-> ack[q]] /\ terminal = [q \in Requests |-> terminal[q]]
  OBVIOUS
<1> HIDE DEF delivered, failure, ack, terminal
<1>9. CASE Same(st[r], t)
  <2>1. UNCHANGED << delivered, failure, ack, terminal >>
    BY <1>4, <1>5, <1>6, <1>8, <1>9 DEF Same, FailureOf, TerminalOf, Failed
  <2> QED BY <2>1, <1>2, <1>7 DEF Contract!contractVars, delivered, failure, ack, terminal
<1>10. CASE Delivers(st[r], t)
  <2>1. UNCHANGED << failure, ack, terminal >>
    BY <1>4, <1>5, <1>6, <1>8, <1>10 DEF Delivers, FailureOf, TerminalOf, Failed
  <2>2. terminal[r] = "None" /\ failure[r] = "None"
    BY <1>5, <1>10 DEF Delivers, FailureOf, TerminalOf
  <2>3. delivered' = [delivered EXCEPT ![r] = @ + 1]
    BY <1>4, <1>5, <1>10 DEF Delivers
  <2>4. Contract!Deliver(r)
    BY <2>1, <2>2, <2>3, <1>2, <1>7 DEF Contract!Deliver, delivered, failure, ack, terminal
  <2> QED BY <2>4 DEF Contract!Next
<1>11. CASE Fails(st[r], t)
  <2>1. UNCHANGED << delivered, ack, terminal >>
    BY <1>4, <1>5, <1>6, <1>8, <1>11 DEF Fails, TerminalOf
  <2>2. terminal[r] = "None" /\ failure[r] = "None"
    BY <1>5, <1>11 DEF Fails, FailureOf, TerminalOf
  <2>3. failure' = [failure EXCEPT ![r] = t.outcome] /\ t.outcome \in ErrorKind
    BY <1>4, <1>11 DEF Fails, FailureOf, Failed
  <2>4. Contract!FailWith(r, t.outcome)
    BY <2>1, <2>2, <2>3, <1>2, <1>7 DEF Contract!FailWith, delivered, failure, ack, terminal
  <2> QED BY <2>3, <2>4 DEF Contract!Next
<1>12. CASE Consumes(st[r], t)
  <2>1. UNCHANGED << delivered, failure, ack >>
    BY <1>4, <1>5, <1>6, <1>8, <1>12 DEF Consumes, FailureOf, Failed
  <2>2. terminal[r] = "None"
    BY <1>5, <1>12 DEF Consumes, TerminalOf
  <2>3. terminal' = [terminal EXCEPT ![r] = IF Failed(st[r]) THEN st[r].outcome ELSE "Completed"]
    BY <1>4, <1>12 DEF Consumes, TerminalOf, Failed
  <2>4. \/ failure[r] # "None" /\ failure[r] = st[r].outcome /\ Failed(st[r])
        \/ failure[r] = "None" /\ ack[r] = "Ok" /\ ~Failed(st[r])
    BY <1>3, <1>5, <1>12 DEF Consumes, FailureOf, Failed, ErrorKind, OutcomeInv
  <2>5. Contract!Finish(r)
    BY <2>1, <2>2, <2>3, <2>4, <1>2, <1>7 DEF Contract!Finish, delivered, failure, ack, terminal
  <2> QED BY <2>5 DEF Contract!Next
<1>13. CASE Acknowledges(st[r], t)
  <2>1. UNCHANGED << delivered, terminal >>
    BY <1>4, <1>5, <1>6, <1>8, <1>13 DEF Acknowledges, TerminalOf, Failed
  <2>2. ack[r] = "Pending"
    BY <1>5, <1>13 DEF Acknowledges
  <2> DEFINE e == FailureOf(t)
  <2>3. /\ failure' = [failure EXCEPT ![r] = e]
        /\ e \in IF failure[r] = "None" THEN {"None"} \cup ErrorKind ELSE {failure[r]}
        /\ t.cleanup = IF e = "None" THEN "Ok" ELSE e
    BY <1>4, <1>5, <1>13 DEF Acknowledges, FailureOf, Failed, ErrorKind
  <2> HIDE DEF e
  <2>4. failure'[r] = e
    BY <2>3, <1>8
  <2>5. ack' = [ack EXCEPT ![r] = IF failure'[r] = "None" THEN "Ok" ELSE failure'[r]]
    BY <2>3, <2>4, <1>4
  <2>7. failure' \in {[failure EXCEPT ![r] = x] :
                        x \in IF failure[r] = "None" THEN {"None"} \cup ErrorKind ELSE {failure[r]}}
    BY <2>3
  <2>6. Contract!Acknowledge(r)
    BY <2>1, <2>2, <2>7, <2>5, <1>2, <1>7 DEF Contract!Acknowledge, delivered, failure, ack, terminal
  <2> QED BY <2>6 DEF Contract!Next
<1> QED BY <1>1, <1>9, <1>10, <1>11, <1>12, <1>13 DEF ContractMove

\* Each step of the client is a step of the contract, or is not visible to it.
LEMMA ContractStep ==
  LifecycleInv /\ Outcomes /\ [Next]_vars => [Contract!Next]_(Contract!contractVars)
<1> SUFFICES ASSUME LifecycleInv, Outcomes, [Next]_vars
             PROVE  Contract!Next \/ UNCHANGED Contract!contractVars
  OBVIOUS
<1>0. /\ st = [q \in Requests |-> st[q]] /\ registered \subseteq Requests
      /\ launch \in [Requests -> {"Idle", "Launching", "Started", "Refused"}]
      /\ \A q \in Requests : RequestInv(q)
  BY DEF LifecycleInv, Shape
<1>1. CASE UNCHANGED << registered, launch, st >>
  BY <1>1 DEF Contract!contractVars, Failed
<1>2. ASSUME NEW r \in Requests, StateMove(r) PROVE Contract!Next \/ UNCHANGED Contract!contractVars
  BY <1>0, <1>2, StateStep
<1>3. ASSUME NEW r \in Requests, Registers(r) PROVE Contract!Next
  <2>1. UNCHANGED {q \in Requests : launch[q] # "Idle" /\ q \notin registered}
    BY <1>0, <1>3 DEF Registers
  <2>2. Contract!Admit(r)
    BY <1>3, <2>1 DEF Registers, Contract!Admit, Failed
  <2> QED BY <2>2 DEF Contract!Next
<1>4. ASSUME NEW r \in Requests, Launches(r) PROVE UNCHANGED Contract!contractVars
  <2>1. UNCHANGED {q \in Requests : launch[q] # "Idle" /\ q \notin registered}
    BY <1>0, <1>4 DEF Launches
  <2> QED BY <1>4, <2>1 DEF Launches, Contract!contractVars, Failed
<1>5. ASSUME NEW r \in Requests, Unregisters(r) PROVE Contract!Next
  <2>1. {q \in Requests : launch[q] # "Idle" /\ q \notin registered}'
          = {q \in Requests : launch[q] # "Idle" /\ q \notin registered} \cup {r}
    BY <1>0, <1>5 DEF Unregisters
  <2>2. Contract!Leave(r)
    <3>1. Failed(st[r]) => st[r].outcome # "None"
      BY DEF Failed, ErrorKind
    <3>2. st[r].delivery = "TerminalConsumed" /\ ~Failed(st[r]) => "Completed" # "None"
      OBVIOUS
    <3> QED BY <1>5, <2>1, <3>1 DEF Unregisters, Contract!Leave, Failed
  <2> QED BY <2>2 DEF Contract!Next
<1>6. CASE UNCHANGED vars
  BY <1>6, <1>1 DEF vars, coreVars, endVars
<1>7. CASE Next
  BY <1>1, <1>2, <1>3, <1>4, <1>5, <1>7, StepMoves
<1> QED BY <1>6, <1>7

\* For any number of requests the client keeps what it promises its users:
\* every behaviour is one of the contract of docs/request-lifecycle.md.
THEOREM KeepsContract == Spec => ImplementsContract
<1>1. LifecycleInv /\ Outcomes /\ [Next]_vars => [Contract!Next]_(Contract!contractVars)
  BY ContractStep
<1> QED BY <1>1, ContractInit, LifecycleInvariant, OutcomesHold, PTL
        DEF Spec, ImplementsContract, Contract!Spec

-----------------------------------------------------------------------------
(* Chunks and events.                                                      *)

\* The queues of a request hold chunks and events.
DataTypes(s) ==
  /\ s.input \in Seq(Nat \ {0}) /\ s.pendingInput \in Nat
  /\ s.output \in Seq(Event) /\ s.pendingOutput \in Event \cup {NoEvent}
  /\ s.inputPhase \in {"Open", "FinishRequested", "EofObserved"}
  /\ s.received \in Nat /\ s.delivered \in Nat
  /\ s.notice \in {"NotSeen", "Seen"}

\* What an ending leaves in the queues.
EndsEmpty(s) ==
  /\ Failed(s) => /\ s.input = << >> /\ s.pendingInput = NoChunk
                  /\ s.output = << >> /\ s.pendingOutput = NoEvent
  /\ s.outcome = "Success" => s.inputPhase = "EofObserved" /\ s.pendingOutput = NoEvent
  /\ s.inputPhase = "EofObserved" => s.input = << >>
  /\ s.delivery = "TerminalConsumed" => s.output = << >>

Queued(s) == Append(s.output, s.pendingOutput)

\* The numbered events of a queue are those from d + 1 to r, in order.
Covers(queued, d, r) ==
  /\ d <= r
  /\ \A i \in 1 .. Len(queued) : queued[i].n # 0 => queued[i].n \in d + 1 .. r
  /\ \A k \in d + 1 .. r : \E i \in 1 .. Len(queued) : queued[i].n = k
  /\ \A i, j \in 1 .. Len(queued) :
       i < j /\ queued[i].n # 0 /\ queued[j].n # 0 => queued[i].n < queued[j].n

InOrder(s) == Covers(Queued(s), s.delivered, s.received)

RecordData(s) == DataTypes(s) /\ EndsEmpty(s) /\ (~Failed(s) => InOrder(s))

\* Appending to a sequence, and taking its head.
LEMMA AppendFacts ==
  ASSUME NEW S, NEW q \in Seq(S), NEW e \in S
  PROVE  /\ Append(q, e) \in Seq(S) /\ Len(Append(q, e)) = Len(q) + 1 /\ Len(q) \in Nat
         /\ \A i \in 1 .. Len(q) : Append(q, e)[i] = q[i]
         /\ Append(q, e)[Len(q) + 1] = e
BY AppendProperties, LenProperties

LEMMA TailFacts ==
  ASSUME NEW S, NEW q \in Seq(S), q # << >>
  PROVE  /\ Tail(q) \in Seq(S) /\ Len(q) \in Nat \ {0} /\ Len(Tail(q)) = Len(q) - 1
         /\ \A i \in 1 .. Len(q) - 1 : Tail(q)[i] = q[i + 1]
         /\ Head(q) = q[1] /\ Head(q) \in S
BY HeadTailProperties, LenProperties, EmptySeq

LEMMA SeqSubset ==
  ASSUME NEW S, NEW T, S \subseteq T, NEW q \in Seq(S)
  PROVE  q \in Seq(T)
<1>1. Len(q) \in Nat /\ q \in [1 .. Len(q) -> S]
  BY LenProperties
<1>2. q \in [1 .. Len(q) -> T]
  BY <1>1
<1> QED BY <1>1, <1>2, SeqDef

\* The types of what is queued.
LEMMA QueuedFacts ==
  ASSUME NEW s, DataTypes(s)
  PROVE  /\ Queued(s) \in Seq([n : Nat, bytes : Nat])
         /\ Len(Queued(s)) = Len(s.output) + 1 /\ Len(s.output) \in Nat
         /\ \A i \in 1 .. Len(s.output) : Queued(s)[i] = s.output[i] /\ s.output[i].n \in Nat
         /\ Queued(s)[Len(s.output) + 1] = s.pendingOutput /\ s.pendingOutput.n \in Nat
<1> DEFINE E == [n : Nat, bytes : Nat]
<1>1. Event \subseteq E /\ NoEvent \in E
  BY DEF Event, NoEvent
<1>2. s.output \in Seq(E) /\ s.pendingOutput \in E
  <2>1. s.output \in Seq(Event) /\ s.pendingOutput \in Event \cup {NoEvent}
    BY DEF DataTypes
  <2> HIDE DEF E
  <2> QED BY <1>1, <2>1, SeqSubset
<1>3. \A e \in E : e.n \in Nat
  OBVIOUS
<1>4. \A i \in 1 .. Len(s.output) : s.output[i] \in E
  BY <1>2, ElementOfSeq
<1> HIDE DEF E
<1>5. Queued(s) \in Seq(E)
  BY <1>2, AppendFacts DEF Queued
<1>6. /\ Len(Queued(s)) = Len(s.output) + 1 /\ Len(s.output) \in Nat
      /\ \A i \in 1 .. Len(s.output) : Queued(s)[i] = s.output[i]
      /\ Queued(s)[Len(s.output) + 1] = s.pendingOutput
  BY <1>2, AppendFacts DEF Queued
<1> QED BY <1>2, <1>3, <1>4, <1>5, <1>6 DEF E

\* StageOutput puts an event at the end of what is queued.
LEMMA StagedInOrder ==
  ASSUME NEW s, DataTypes(s), InOrder(s), s.pendingOutput = NoEvent,
         NEW t, DataTypes(t), t.output = s.output, t.delivered = s.delivered,
         \/ t.received = s.received /\ t.pendingOutput.n = 0
         \/ t.received = s.received + 1 /\ t.pendingOutput.n = s.received + 1
  PROVE  InOrder(t)
<1>1. /\ Len(Queued(t)) = Len(Queued(s)) /\ Len(Queued(s)) = Len(s.output) + 1
      /\ Len(s.output) \in Nat
      /\ \A i \in 1 .. Len(s.output) : Queued(t)[i] = Queued(s)[i] /\ Queued(s)[i].n \in Nat
      /\ Queued(s)[Len(s.output) + 1].n = 0
      /\ Queued(t)[Len(s.output) + 1].n = t.pendingOutput.n
  <2>1. /\ Len(Queued(s)) = Len(s.output) + 1 /\ Len(s.output) \in Nat
        /\ \A i \in 1 .. Len(s.output) : Queued(s)[i] = s.output[i] /\ s.output[i].n \in Nat
        /\ Queued(s)[Len(s.output) + 1] = NoEvent
    BY QueuedFacts
  <2>2. /\ Len(Queued(t)) = Len(s.output) + 1
        /\ \A i \in 1 .. Len(s.output) : Queued(t)[i] = s.output[i]
        /\ Queued(t)[Len(s.output) + 1] = t.pendingOutput
    <3>1. /\ Len(Queued(t)) = Len(t.output) + 1
          /\ \A i \in 1 .. Len(t.output) : Queued(t)[i] = t.output[i]
          /\ Queued(t)[Len(t.output) + 1] = t.pendingOutput
      BY QueuedFacts
    <3> QED BY <3>1
  <2> QED BY <2>1, <2>2 DEF NoEvent
<1>2. s.received \in Nat /\ s.delivered \in Nat
  BY DEF DataTypes
<1>3. Covers(Queued(s), s.delivered, s.received)
  BY DEF InOrder
<1>4. \A i \in 1 .. Len(s.output) + 1 : i \in 1 .. Len(s.output) \/ i = Len(s.output) + 1
  BY <1>1
<1> DEFINE n == Len(s.output)
           u == Queued(s)
           v == Queued(t)
<1> HIDE DEF n, u, v
<1>5. /\ Len(v) = n + 1 /\ Len(u) = n + 1 /\ n \in Nat
      /\ \A i \in 1 .. n : v[i] = u[i] /\ u[i].n \in Nat
      /\ u[n + 1].n = 0 /\ v[n + 1].n = t.pendingOutput.n
  BY <1>1 DEF n, u, v
<1>6. Covers(u, s.delivered, s.received)
  BY <1>3 DEF u
<1>7. s.delivered <= t.received
  BY <1>2, <1>6 DEF Covers
<1>8. ASSUME NEW i \in 1 .. Len(v), v[i].n # 0 PROVE v[i].n \in s.delivered + 1 .. t.received
  BY <1>2, <1>5, <1>6, <1>8 DEF Covers
<1>9. ASSUME NEW k \in s.delivered + 1 .. t.received PROVE \E i \in 1 .. Len(v) : v[i].n = k
  <2>1. CASE k \in s.delivered + 1 .. s.received
    <3>1. PICK i \in 1 .. Len(u) : u[i].n = k
      BY <2>1, <1>6 DEF Covers
    <3>2. i \in 1 .. n
      BY <3>1, <2>1, <1>2, <1>5
    <3> QED BY <3>1, <3>2, <1>5
  <2>2. CASE k \notin s.delivered + 1 .. s.received
    <3>1. k = s.received + 1 /\ t.pendingOutput.n = k
      BY <2>2, <1>2
    <3> QED BY <3>1, <1>5
  <2> QED BY <2>1, <2>2
<1>10. ASSUME NEW i \in 1 .. Len(v), NEW j \in 1 .. Len(v), i < j, v[i].n # 0, v[j].n # 0
       PROVE  v[i].n < v[j].n
  <2>1. i \in 1 .. n
    BY <1>5, <1>10
  <2>2. u[i].n \in s.delivered + 1 .. s.received
    BY <2>1, <1>5, <1>6, <1>10 DEF Covers
  <2>3. CASE j \in 1 .. n
    BY <2>1, <2>3, <1>5, <1>6, <1>10 DEF Covers
  <2>4. CASE j = n + 1
    BY <2>1, <2>2, <2>4, <1>2, <1>5, <1>10
  <2> QED BY <2>3, <2>4, <1>5
<1> QED BY <1>7, <1>8, <1>9, <1>10 DEF InOrder, Covers, v

\* AcceptOutput moves an event without changing what is queued.
LEMMA AcceptedInOrder ==
  ASSUME NEW s, DataTypes(s), InOrder(s),
         NEW t, DataTypes(t), t.output = Append(s.output, s.pendingOutput), t.pendingOutput = NoEvent,
         t.delivered = s.delivered, t.received = s.received
  PROVE  InOrder(t)
<1> DEFINE u == Queued(s)
           v == Queued(t)
           n == Len(u)
<1>1. /\ Len(v) = n + 1 /\ n \in Nat
      /\ \A i \in 1 .. n : v[i] = u[i]
      /\ v[n + 1].n = 0
  BY QueuedFacts DEF NoEvent, Queued
<1>2. Covers(u, s.delivered, s.received) /\ s.received \in Nat /\ s.delivered \in Nat
  BY DEF InOrder, DataTypes
<1> HIDE DEF n, u, v
<1>3. Len(u) = n
  BY DEF n
<1>4. Covers(v, s.delivered, s.received)
  BY <1>1, <1>2, <1>3 DEF Covers
<1> QED BY <1>4 DEF InOrder, v

\* PopOutput takes the first event that was not delivered.
LEMMA PoppedInOrder ==
  ASSUME NEW s, DataTypes(s), InOrder(s), s.output # << >>,
         NEW t, DataTypes(t), t.output = Tail(s.output), t.pendingOutput = s.pendingOutput,
         t.delivered = IF Head(s.output).n = 0 THEN s.delivered ELSE s.delivered + 1,
         t.received = s.received
  PROVE  InOrder(t)
<1> DEFINE u == Queued(s)
           v == Queued(t)
           n == Len(v)
<1>1. /\ Len(u) = n + 1 /\ n \in Nat
      /\ \A i \in 1 .. n : v[i] = u[i + 1] /\ u[i + 1].n \in Nat
      /\ Head(s.output) = u[1] /\ u[1].n \in Nat
  <2>1. /\ Len(s.output) \in Nat \ {0} /\ Len(Tail(s.output)) = Len(s.output) - 1
        /\ \A i \in 1 .. Len(s.output) - 1 : Tail(s.output)[i] = s.output[i + 1]
        /\ Head(s.output) = s.output[1]
    BY TailFacts DEF DataTypes
  <2>2. /\ Len(u) = Len(s.output) + 1 /\ \A i \in 1 .. Len(s.output) : u[i] = s.output[i] /\ s.output[i].n \in Nat
        /\ u[Len(s.output) + 1] = s.pendingOutput /\ s.pendingOutput.n \in Nat
    BY QueuedFacts
  <2>3. /\ Len(v) = Len(t.output) + 1 /\ \A i \in 1 .. Len(t.output) : v[i] = t.output[i]
        /\ v[Len(t.output) + 1] = t.pendingOutput
    BY QueuedFacts
  <2>4. Len(t.output) = Len(s.output) - 1 /\ \A i \in 1 .. Len(s.output) - 1 : t.output[i] = s.output[i + 1]
    BY <2>1
  <2> HIDE DEF u, v
  <2>5. n = Len(s.output) /\ Len(u) = n + 1 /\ n \in Nat \ {0}
    BY <2>1, <2>2, <2>3, <2>4
  <2> HIDE DEF n
  <2>6. ASSUME NEW i \in 1 .. n PROVE v[i] = u[i + 1] /\ u[i + 1].n \in Nat
    <3>1. CASE i = n
      <4>1. v[n] = t.pendingOutput
        BY <2>1, <2>3, <2>4, <2>5
      <4> QED BY <3>1, <4>1, <2>2, <2>5
    <3>2. CASE i \in 1 .. n - 1
      <4>1. v[i] = s.output[i + 1]
        BY <3>2, <2>1, <2>3, <2>4, <2>5
      <4>2. i + 1 \in 1 .. Len(s.output)
        BY <3>2, <2>5
      <4> QED BY <4>1, <4>2, <2>2
    <3> QED BY <3>1, <3>2, <2>5
  <2>7. u[1] = s.output[1] /\ u[1].n \in Nat
    <3>1. 1 \in 1 .. Len(s.output)
      BY <2>1
    <3> QED BY <3>1, <2>2
  <2> QED BY <2>1, <2>5, <2>6, <2>7
<1>2. Covers(u, s.delivered, s.received) /\ s.received \in Nat /\ s.delivered \in Nat
  BY DEF InOrder, DataTypes
<1> HIDE DEF u, v
<1>3. Len(v) = n
  OBVIOUS
<1> HIDE DEF n
<1>4. CASE u[1].n = 0
  <2>1. t.delivered = s.delivered
    BY <1>1, <1>4
  <2>2. \A i \in 1 .. n : i + 1 \in 1 .. Len(u)
    BY <1>1
  <2>3. ASSUME NEW k \in s.delivered + 1 .. s.received PROVE \E i \in 1 .. n : v[i].n = k
    <3>1. PICK i \in 1 .. Len(u) : u[i].n = k
      BY <1>2 DEF Covers
    <3>2. i - 1 \in 1 .. n /\ u[(i - 1) + 1].n = k
      BY <3>1, <1>1, <1>2, <1>4
    <3> QED BY <3>2, <1>1
  <2>4. Covers(v, s.delivered, s.received)
    BY <1>1, <1>2, <1>3, <2>2, <2>3 DEF Covers
  <2> QED BY <2>1, <2>4 DEF InOrder, v
<1>5. CASE u[1].n # 0
  <2>1. 1 \in 1 .. Len(u) /\ \A i \in 1 .. n : i + 1 \in 1 .. Len(u) /\ 1 < i + 1
    BY <1>1
  <2>2. u[1].n = s.delivered + 1
    <3>1. u[1].n \in s.delivered + 1 .. s.received
      BY <1>2, <1>5, <2>1 DEF Covers
    <3>2. s.delivered + 1 \in s.delivered + 1 .. s.received
      BY <3>1, <1>2
    <3>3. PICK i \in 1 .. Len(u) : u[i].n = s.delivered + 1
      BY <3>2, <1>2 DEF Covers
    <3>4. i = 1 \/ 1 < i
      BY <1>1
    <3>5. 1 < i => u[1].n < u[i].n
      BY <3>3, <1>2, <1>5, <2>1 DEF Covers
    <3> QED BY <3>1, <3>3, <3>4, <3>5, <1>2
  <2>3. t.delivered = s.delivered + 1 /\ t.delivered <= s.received
    BY <1>1, <1>2, <1>5, <2>1, <2>2 DEF Covers
  <2>4. ASSUME NEW i \in 1 .. n, v[i].n # 0 PROVE v[i].n \in s.delivered + 2 .. s.received
    <3>1. u[i + 1].n \in s.delivered + 1 .. s.received /\ u[1].n < u[i + 1].n
      BY <1>1, <1>2, <1>5, <2>1, <2>4 DEF Covers
    <3> QED BY <3>1, <2>2, <1>1, <1>2
  <2>5. ASSUME NEW k \in s.delivered + 2 .. s.received PROVE \E i \in 1 .. n : v[i].n = k
    <3>1. PICK i \in 1 .. Len(u) : u[i].n = k
      BY <1>2 DEF Covers
    <3>2. i # 1
      BY <3>1, <2>2, <1>2
    <3>3. i - 1 \in 1 .. n /\ u[(i - 1) + 1].n = k
      BY <3>1, <3>2, <1>1
    <3> QED BY <3>3, <1>1
  <2>6. \A i, j \in 1 .. n : i < j /\ v[i].n # 0 /\ v[j].n # 0 => v[i].n < v[j].n
    BY <1>1, <1>2, <2>1 DEF Covers
  <2>7. t.delivered + 1 = s.delivered + 2
    BY <2>3, <1>2
  <2> QED BY <2>3, <2>4, <2>5, <2>6, <2>7, <1>3 DEF InOrder, Covers, v
<1> QED BY <1>4, <1>5

-----------------------------------------------------------------------------
(* What each method of State does to the queues.                           *)

\* What t has in common with s when only the input side was touched.
SameOutput(s, t) ==
  /\ t.output = s.output /\ t.pendingOutput = s.pendingOutput
  /\ t.received = s.received /\ t.delivered = s.delivered /\ t.notice = s.notice
  /\ t.outcome = s.outcome /\ t.delivery = s.delivery

\* What t has in common with s when only the output side was touched.
SameInput(s, t) ==
  /\ t.input = s.input /\ t.pendingInput = s.pendingInput /\ t.inputPhase = s.inputPhase
  /\ t.outcome = s.outcome /\ t.delivery = s.delivery

\* A method of the input side keeps the events in order.
LEMMA InputSideData ==
  ASSUME NEW s, RecordData(s), NEW t, SameOutput(s, t),
         t.input \in Seq(Nat \ {0}), t.pendingInput \in Nat,
         t.inputPhase \in {"Open", "FinishRequested", "EofObserved"}, EndsEmpty(t)
  PROVE  RecordData(t)
<1>1. DataTypes(t)
  BY DEF RecordData, DataTypes, SameOutput
<1>2. ~Failed(t) => InOrder(t)
  BY DEF RecordData, SameOutput, InOrder, Queued, Failed
<1> QED BY <1>1, <1>2 DEF RecordData

\* Input::stage puts a chunk in the slot of the endpoint.
LEMMA StageInputData ==
  ASSUME NEW s, HasFields(s), RecordData(s), InputOpen(s), NEW b \in Nat \ {0}
  PROVE  LET t == StageInput(s, b)
         IN  /\ RecordData(t) /\ SameOutput(s, t)
             /\ t.input = s.input /\ t.pendingInput = b /\ t.inputPhase = s.inputPhase
<1> DEFINE t == StageInput(s, b)
<1>1. /\ SameOutput(s, t)
      /\ t.input = s.input /\ t.pendingInput = b /\ t.inputPhase = s.inputPhase
  BY FieldNames DEF HasFields, StageInput, SameOutput
<1> HIDE DEF t
<1>2. EndsEmpty(t)
  BY <1>1 DEF RecordData, EndsEmpty, SameOutput, InputOpen, Failed
<1>3. RecordData(t)
  BY <1>1, <1>2, InputSideData DEF RecordData, DataTypes
<1> QED BY <1>1, <1>3 DEF t

\* A chunk enters the queue.
LEMMA EnqueueInputData ==
  ASSUME NEW s, HasFields(s), RecordData(s), InputOpen(s), NEW b \in Nat \ {0}
  PROVE  LET t == EnqueueInput(s, b)
         IN  /\ RecordData(t) /\ SameOutput(s, t)
             /\ Len(t.input) = Len(s.input) + 1 /\ Len(s.input) \in Nat
             /\ t.pendingInput = s.pendingInput /\ t.inputPhase = s.inputPhase
<1> DEFINE t == EnqueueInput(s, b)
<1>1. /\ SameOutput(s, t)
      /\ t.input = Append(s.input, b) /\ t.pendingInput = s.pendingInput
      /\ t.inputPhase = s.inputPhase
  BY FieldNames DEF HasFields, EnqueueInput, SameOutput
<1> HIDE DEF t
<1>2. s.input \in Seq(Nat \ {0}) /\ s.pendingInput \in Nat
  BY DEF RecordData, DataTypes
<1>3. t.input \in Seq(Nat \ {0}) /\ Len(t.input) = Len(s.input) + 1 /\ Len(s.input) \in Nat
  BY <1>1, <1>2, AppendFacts
<1>4. EndsEmpty(t)
  BY <1>1 DEF RecordData, EndsEmpty, SameOutput, InputOpen, Failed
<1>5. RecordData(t)
  BY <1>1, <1>2, <1>3, <1>4, InputSideData DEF InputOpen
<1> QED BY <1>1, <1>3, <1>5 DEF t

\* A send leaves the slot empty: its chunk is queued, or given up.
LEMMA UnstageInputData ==
  ASSUME NEW s, HasFields(s), RecordData(s)
  PROVE  LET t == AbandonInput(s)
         IN  /\ HasFields(t) /\ RecordData(t) /\ SameOutput(s, t)
             /\ t.input = s.input /\ t.pendingInput = NoChunk /\ t.inputPhase = s.inputPhase
<1> DEFINE t == AbandonInput(s)
<1>1. /\ HasFields(t) /\ SameOutput(s, t)
      /\ t.input = s.input /\ t.pendingInput = NoChunk /\ t.inputPhase = s.inputPhase
  BY FieldNames DEF HasFields, AbandonInput, SameOutput
<1> HIDE DEF t
<1>2. EndsEmpty(t)
  BY <1>1 DEF RecordData, EndsEmpty, SameOutput, Failed
<1>3. t.pendingInput \in Nat /\ t.input \in Seq(Nat \ {0})
      /\ t.inputPhase \in {"Open", "FinishRequested", "EofObserved"}
  BY <1>1 DEF NoChunk, RecordData, DataTypes
<1>4. RecordData(t)
  BY <1>1, <1>2, <1>3, InputSideData
<1> QED BY <1>1, <1>4 DEF t

\* State::accept_input queues the staged chunk.
LEMMA AcceptInputData ==
  ASSUME NEW s, HasFields(s), RecordData(s), InputOpen(s), s.pendingInput # NoChunk
  PROVE  LET t == AcceptInput(s)
         IN  /\ RecordData(t) /\ SameOutput(s, t)
             /\ Len(t.input) = Len(s.input) + 1 /\ Len(s.input) \in Nat
             /\ t.pendingInput = NoChunk /\ t.inputPhase = s.inputPhase
<1> DEFINE a == AbandonInput(s)
           t == AcceptInput(s)
<1>1. t = EnqueueInput(a, s.pendingInput)
  BY DEF AcceptInput, AbandonInput
<1>2. /\ HasFields(a) /\ RecordData(a) /\ SameOutput(s, a)
      /\ a.input = s.input /\ a.pendingInput = NoChunk /\ a.inputPhase = s.inputPhase
  BY UnstageInputData
<1>3. s.pendingInput \in Nat \ {0}
  BY DEF RecordData, DataTypes, NoChunk
<1> HIDE DEF a, t
<1>4. InputOpen(a)
  BY <1>2 DEF InputOpen, SameOutput, Failed
<1>5. /\ RecordData(EnqueueInput(a, s.pendingInput))
      /\ SameOutput(a, EnqueueInput(a, s.pendingInput))
      /\ Len(EnqueueInput(a, s.pendingInput).input) = Len(a.input) + 1 /\ Len(a.input) \in Nat
      /\ EnqueueInput(a, s.pendingInput).pendingInput = a.pendingInput
      /\ EnqueueInput(a, s.pendingInput).inputPhase = a.inputPhase
  BY <1>2, <1>3, <1>4, EnqueueInputData
<1> QED BY <1>1, <1>2, <1>5 DEF t, SameOutput

\* The input is finished, taken by the backend, and seen to have ended.
LEMMA ReadInputData ==
  ASSUME NEW s, HasFields(s), RecordData(s), ~Failed(s)
  PROVE  /\ LET t == FinishInput(s)
            IN  /\ RecordData(t) /\ SameOutput(s, t)
                /\ t.input = s.input /\ t.pendingInput = s.pendingInput
         /\ s.input # << >> =>
              LET t == PopInput(s)
              IN  /\ RecordData(t) /\ SameOutput(s, t)
                  /\ Len(t.input) = Len(s.input) - 1 /\ Len(s.input) \in Nat \ {0}
                  /\ t.pendingInput = s.pendingInput /\ t.inputPhase = s.inputPhase
         /\ AtEof(s) =>
              LET t == ObserveEof(s)
              IN  /\ RecordData(t) /\ SameOutput(s, t)
                  /\ t.input = s.input /\ t.pendingInput = s.pendingInput
                  /\ t.inputPhase = "EofObserved" /\ s.inputPhase # "Open"
<1>0. /\ s.input \in Seq(Nat \ {0}) /\ s.pendingInput \in Nat
      /\ s.inputPhase \in {"Open", "FinishRequested", "EofObserved"} /\ EndsEmpty(s)
  BY DEF RecordData, DataTypes
<1>1. LET t == FinishInput(s)
      IN  /\ RecordData(t) /\ SameOutput(s, t)
          /\ t.input = s.input /\ t.pendingInput = s.pendingInput
  <2> DEFINE t == FinishInput(s)
  <2>1. /\ SameOutput(s, t)
        /\ t.input = s.input /\ t.pendingInput = s.pendingInput
        /\ t.inputPhase = IF s.inputPhase = "Open" THEN "FinishRequested" ELSE s.inputPhase
    BY FieldNames DEF HasFields, FinishInput, SameOutput
  <2> HIDE DEF t
  <2>2. EndsEmpty(t)
    BY <1>0, <2>1 DEF EndsEmpty, SameOutput, Failed
  <2>3. RecordData(t)
    BY <1>0, <2>1, <2>2, InputSideData
  <2> QED BY <2>1, <2>3 DEF t
<1>2. ASSUME s.input # << >>
      PROVE  LET t == PopInput(s)
             IN  /\ RecordData(t) /\ SameOutput(s, t)
                 /\ Len(t.input) = Len(s.input) - 1 /\ Len(s.input) \in Nat \ {0}
                 /\ t.pendingInput = s.pendingInput /\ t.inputPhase = s.inputPhase
  <2> DEFINE t == PopInput(s)
  <2>1. /\ SameOutput(s, t)
        /\ t.input = Tail(s.input) /\ t.pendingInput = s.pendingInput
        /\ t.inputPhase = s.inputPhase
    BY FieldNames DEF HasFields, PopInput, SameOutput
  <2> HIDE DEF t
  <2>2. t.input \in Seq(Nat \ {0}) /\ Len(t.input) = Len(s.input) - 1 /\ Len(s.input) \in Nat \ {0}
    BY <1>0, <1>2, <2>1, TailFacts
  <2>3. EndsEmpty(t)
    BY <1>0, <1>2, <2>1 DEF EndsEmpty, SameOutput, Failed, ErrorKind
  <2>4. RecordData(t)
    BY <1>0, <2>1, <2>2, <2>3, InputSideData
  <2> QED BY <2>1, <2>2, <2>4 DEF t
<1>3. ASSUME AtEof(s)
      PROVE  LET t == ObserveEof(s)
             IN  /\ RecordData(t) /\ SameOutput(s, t)
                 /\ t.input = s.input /\ t.pendingInput = s.pendingInput
                 /\ t.inputPhase = "EofObserved" /\ s.inputPhase # "Open"
  <2> DEFINE t == ObserveEof(s)
  <2>1. /\ SameOutput(s, t)
        /\ t.input = s.input /\ t.pendingInput = s.pendingInput
        /\ t.inputPhase = "EofObserved"
    BY FieldNames DEF HasFields, ObserveEof, SameOutput
  <2> HIDE DEF t
  <2>2. EndsEmpty(t)
    BY <1>0, <1>3, <2>1 DEF EndsEmpty, SameOutput, Failed, AtEof
  <2>3. RecordData(t)
    BY <1>0, <2>1, <2>2, InputSideData
  <2> QED BY <1>3, <2>1, <2>3 DEF t, AtEof
<1> QED BY <1>1, <1>2, <1>3

\* State::stage_output puts an event in the slot of the writer.
LEMMA StageOutputData ==
  ASSUME NEW s, HasFields(s), OutcomeInv(s), RecordData(s), NEW finished \in BOOLEAN,
         OutputStageable(s, finished), s.pendingOutput = NoEvent, NEW b \in Nat \ {0}
  PROVE  LET t == StageOutput(s, finished, b)
         IN  RecordData(t) /\ SameInput(s, t) /\ t.pendingOutput # NoEvent
<1> DEFINE t == StageOutput(s, finished, b)
<1>0. DataTypes(s) /\ EndsEmpty(s) /\ s.outcome = "Running" /\ ~Failed(s) /\ InOrder(s)
  BY DEF RecordData, OutputStageable, Failed, ErrorKind
<1>1. /\ SameInput(s, t)
      /\ t.output = s.output /\ t.delivered = s.delivered
      /\ t.notice = IF finished THEN "Seen" ELSE s.notice
      /\ t.received = IF finished THEN s.received ELSE s.received + 1
      /\ t.pendingOutput = [n |-> IF finished THEN 0 ELSE s.received + 1, bytes |-> b]
  <2>1. CASE finished
    <3>1. t = [s EXCEPT !.notice = "Seen", !.pendingOutput = [n |-> 0, bytes |-> b]]
      BY <2>1 DEF StageOutput
    <3> HIDE DEF t
    <3> QED BY <2>1, <3>1, FieldNames DEF HasFields, SameInput
  <2>2. CASE ~finished
    <3>1. t = [s EXCEPT !.received = @ + 1, !.pendingOutput = [n |-> s.received + 1, bytes |-> b]]
      BY <2>2 DEF StageOutput
    <3> HIDE DEF t
    <3> QED BY <2>2, <3>1, FieldNames DEF HasFields, SameInput
  <2> QED BY <2>1, <2>2
<1> HIDE DEF t
<1>2. t.pendingOutput \in Event /\ t.pendingOutput # NoEvent
      /\ t.pendingOutput.n = IF finished THEN 0 ELSE s.received + 1
  BY <1>0, <1>1 DEF DataTypes, Event, NoEvent
<1>3. DataTypes(t)
  BY <1>0, <1>1, <1>2 DEF DataTypes, SameInput
<1>4. EndsEmpty(t)
  BY <1>0, <1>1 DEF EndsEmpty, SameInput, Failed, OutcomeInv, ErrorKind
<1>5. InOrder(t)
  BY <1>0, <1>1, <1>2, <1>3, StagedInOrder
<1> QED BY <1>1, <1>2, <1>3, <1>4, <1>5 DEF RecordData, t

\* State::accept_output queues it.
LEMMA AcceptOutputData ==
  ASSUME NEW s, HasFields(s), OutcomeInv(s), RecordData(s), ~Failed(s), s.pendingOutput # NoEvent
  PROVE  LET t == AcceptOutput(s)
         IN  RecordData(t) /\ SameInput(s, t) /\ t.pendingOutput = NoEvent
<1> DEFINE t == AcceptOutput(s)
<1>0. DataTypes(s) /\ EndsEmpty(s) /\ InOrder(s)
  BY DEF RecordData
<1>1. s.outcome = "Running" /\ s.delivery = "Receiving"
  BY <1>0 DEF EndsEmpty, OutcomeInv, Failed
<1>2. /\ SameInput(s, t)
      /\ t.output = Append(s.output, s.pendingOutput) /\ t.pendingOutput = NoEvent
      /\ t.received = s.received /\ t.delivered = s.delivered /\ t.notice = s.notice
  BY FieldNames DEF HasFields, AcceptOutput, SameInput
<1> HIDE DEF t
<1>3. t.output \in Seq(Event)
  <2>1. s.output \in Seq(Event) /\ s.pendingOutput \in Event
    BY <1>0 DEF DataTypes
  <2> QED BY <1>2, <2>1, AppendFacts
<1>4. DataTypes(t)
  BY <1>0, <1>2, <1>3 DEF DataTypes, SameInput
<1>5. EndsEmpty(t)
  BY <1>0, <1>1, <1>2 DEF EndsEmpty, SameInput, Failed, ErrorKind
<1>6. InOrder(t)
  BY <1>0, <1>2, <1>4, AcceptedInOrder
<1> QED BY <1>2, <1>4, <1>5, <1>6 DEF RecordData, t

\* State::receive hands over the first event, or ends the output.
LEMMA ReceiveData ==
  ASSUME NEW s, HasFields(s), OutcomeInv(s), RecordData(s)
  PROVE  /\ ~Failed(s) /\ s.output # << >> =>
              LET t == PopOutput(s)
              IN  RecordData(t) /\ SameInput(s, t) /\ t.pendingOutput = s.pendingOutput
         /\ Failed(s) \/ s.output = << >> =>
              LET t == ConsumeTerminal(s)
              IN  /\ RecordData(t) /\ t.outcome = s.outcome
                  /\ t.input = s.input /\ t.pendingInput = s.pendingInput
                  /\ t.inputPhase = s.inputPhase /\ t.pendingOutput = s.pendingOutput
<1>0. DataTypes(s) /\ EndsEmpty(s) /\ (~Failed(s) => InOrder(s))
  BY DEF RecordData
<1>1. ASSUME ~Failed(s), s.output # << >>
      PROVE  LET t == PopOutput(s)
             IN  RecordData(t) /\ SameInput(s, t) /\ t.pendingOutput = s.pendingOutput
  <2> DEFINE t == PopOutput(s)
  <2>1. /\ SameInput(s, t)
        /\ t.output = Tail(s.output) /\ t.pendingOutput = s.pendingOutput
        /\ t.received = s.received /\ t.notice = s.notice
        /\ t.delivered = IF Head(s.output).n = 0 THEN s.delivered ELSE s.delivered + 1
    BY FieldNames DEF HasFields, PopOutput, SameInput
  <2> HIDE DEF t
  <2>2. t.output \in Seq(Event)
    <3>1. s.output \in Seq(Event)
      BY <1>0 DEF DataTypes
    <3> QED BY <1>1, <2>1, <3>1, TailFacts
  <2>3. t.delivered \in Nat
    BY <1>0, <2>1 DEF DataTypes
  <2>4. DataTypes(t)
    BY <1>0, <2>1, <2>2, <2>3 DEF DataTypes, SameInput
  <2>5. EndsEmpty(t)
    BY <1>0, <1>1, <2>1 DEF EndsEmpty, SameInput, Failed
  <2>6. InOrder(t)
    BY <1>0, <1>1, <2>1, <2>4, PoppedInOrder
  <2> QED BY <2>1, <2>4, <2>5, <2>6 DEF RecordData, t
<1>2. ASSUME Failed(s) \/ s.output = << >>
      PROVE  LET t == ConsumeTerminal(s)
             IN  /\ RecordData(t) /\ t.outcome = s.outcome
                 /\ t.input = s.input /\ t.pendingInput = s.pendingInput
                 /\ t.inputPhase = s.inputPhase /\ t.pendingOutput = s.pendingOutput
  <2> DEFINE t == ConsumeTerminal(s)
  <2>1. /\ t.outcome = s.outcome /\ t.input = s.input /\ t.pendingInput = s.pendingInput
        /\ t.inputPhase = s.inputPhase /\ t.output = s.output
        /\ t.pendingOutput = s.pendingOutput /\ t.received = s.received
        /\ t.delivered = s.delivered /\ t.notice = s.notice
    BY FieldNames DEF HasFields, ConsumeTerminal
  <2> HIDE DEF t
  <2>2. DataTypes(t) /\ (~Failed(t) => InOrder(t))
    BY <1>0, <2>1 DEF DataTypes, InOrder, Queued, Failed
  <2>3. EndsEmpty(t)
    BY <1>0, <1>2, <2>1 DEF EndsEmpty, Failed
  <2> QED BY <2>1, <2>2, <2>3 DEF RecordData, t
<1> QED BY <1>1, <1>2

-----------------------------------------------------------------------------
(* What an ending does to the queues.                                      *)

\* An ending empties the queues or leaves what the endpoints see of them.
Ends(s, t) ==
  /\ RecordData(t) /\ t.inputPhase = s.inputPhase
  /\ \/ Failed(t)
     \/ /\ ~Failed(s)
        /\ t.input = s.input /\ t.pendingInput = s.pendingInput
        /\ t.pendingOutput = s.pendingOutput

\* State::retire does not touch the queues.
LEMMA RetireData ==
  ASSUME NEW s, HasFields(s), RecordData(s)
  PROVE  /\ RecordData(Retire(s)) /\ Ends(s, Retire(s))
         /\ Failed(Retire(s)) <=> Failed(s)
         /\ Retire(s).inputPhase = s.inputPhase /\ Retire(s).input = s.input
         /\ Retire(s).pendingInput = s.pendingInput
         /\ Retire(s).pendingOutput = s.pendingOutput
<1> DEFINE t == Retire(s)
<1>1. /\ t.input = s.input /\ t.pendingInput = s.pendingInput /\ t.output = s.output
      /\ t.pendingOutput = s.pendingOutput /\ t.inputPhase = s.inputPhase
      /\ t.received = s.received /\ t.delivered = s.delivered /\ t.notice = s.notice
      /\ t.outcome = s.outcome /\ t.delivery = s.delivery
  BY FieldNames DEF HasFields, Retire
<1> HIDE DEF t
<1>2. RecordData(t)
  BY <1>1 DEF RecordData, DataTypes, EndsEmpty, InOrder, Queued, Failed
<1> QED BY <1>1, <1>2 DEF t, Ends, Failed

\* A failed request has empty queues.
LEMMA EmptiedData ==
  ASSUME NEW s, DataTypes(s), NEW t, Failed(t),
         t.input = << >>, t.pendingInput = NoChunk, t.output = << >>, t.pendingOutput = NoEvent,
         t.inputPhase = s.inputPhase, t.received = s.received, t.delivered = s.delivered,
         t.notice = s.notice
  PROVE  RecordData(t)
<1>1. << >> \in Seq(Nat \ {0}) /\ << >> \in Seq(Event)
  BY EmptySeq
<1>2. DataTypes(t)
  BY <1>1 DEF DataTypes, NoChunk
<1>3. EndsEmpty(t)
  BY DEF EndsEmpty, Failed, ErrorKind
<1> QED BY <1>2, <1>3 DEF RecordData

\* State::fail empties the queues, or finds the request at its end.
LEMMA FailData ==
  ASSUME NEW s, HasFields(s), OutcomeInv(s), RecordData(s), NEW error \in ErrorKind
  PROVE  Ends(s, Fail(s, error))
<1>1. CASE FailIgnored(s)
  BY <1>1 DEF Fail, Ends
<1>2. CASE ~FailIgnored(s)
  <2> DEFINE t == Fail(s, error)
  <2>1. /\ t.outcome = error /\ t.delivered = s.delivered
        /\ t.input = << >> /\ t.pendingInput = NoChunk
        /\ t.output = << >> /\ t.pendingOutput = NoEvent
        /\ t.inputPhase = s.inputPhase /\ t.received = s.received /\ t.notice = s.notice
    BY <1>2, FailFields
  <2> HIDE DEF t
  <2>2. Failed(t)
    BY <2>1 DEF Failed
  <2>3. RecordData(t)
    BY <2>1, <2>2, EmptiedData DEF RecordData
  <2> QED BY <2>1, <2>2, <2>3 DEF Ends, t
<1> QED BY <1>1, <1>2

\* State::complete_cleanup ends with success only when nothing is left to read.
LEMMA CleanupData ==
  ASSUME NEW s, HasFields(s), OutcomeInv(s), RecordData(s), NEW result \in Result
  PROVE  Ends(s, CompleteCleanup(s, result))
<1>1. CASE s.cleanup # "Pending"
  BY <1>1 DEF CompleteCleanup, Ends
<1>2. CASE s.cleanup = "Pending"
  <2> DEFINE c == Cleaned(s, result)
  <2>1. /\ CompleteCleanup(s, result) = Retire(c) /\ HasFields(c) /\ Acknowledges(s, c)
        /\ c.delivery = s.delivery /\ c.received = s.received /\ c.delivered = s.delivered
        /\ c.inputPhase = s.inputPhase /\ c.notice = s.notice
    BY <1>2, CleanedFields DEF Acknowledges
  <2>2. \/ /\ ~Failed(s) /\ c.outcome \in ErrorKind
           /\ c.input = << >> /\ c.pendingInput = NoChunk
           /\ c.output = << >> /\ c.pendingOutput = NoEvent
        \/ /\ Failed(s) \/ CleanupError(s, result) = "None"
           /\ ~Failed(s) => c.outcome = "Success"
           /\ Failed(s) => c.outcome = s.outcome
           /\ c.input = s.input /\ c.pendingInput = s.pendingInput
           /\ c.output = s.output /\ c.pendingOutput = s.pendingOutput
    BY <1>2, CleanedFields
  <2> HIDE DEF c
  <2>3. RecordData(c) /\ Ends(s, c)
    <3>1. CASE c.outcome \in ErrorKind /\ ~Failed(s)
      <4>1. Failed(c)
        BY <3>1 DEF Failed
      <4>2. /\ c.input = << >> /\ c.pendingInput = NoChunk
            /\ c.output = << >> /\ c.pendingOutput = NoEvent
        BY <2>2, <3>1 DEF ErrorKind
      <4>3. RecordData(c)
        BY <2>1, <4>1, <4>2, EmptiedData DEF RecordData
      <4> QED BY <2>1, <4>1, <4>3 DEF Ends
    <3>2. CASE Failed(s)
      <4>1. /\ c.outcome = s.outcome /\ c.input = s.input /\ c.pendingInput = s.pendingInput
            /\ c.output = s.output /\ c.pendingOutput = s.pendingOutput
        BY <2>2, <3>2
      <4>2. RecordData(c)
        BY <2>1, <4>1 DEF RecordData, DataTypes, EndsEmpty, InOrder, Queued, Failed
      <4> QED BY <2>1, <3>2, <4>1, <4>2 DEF Ends, Failed
    <3>3. CASE ~Failed(s) /\ c.outcome \notin ErrorKind
      <4>1. /\ c.outcome = "Success" /\ CleanupError(s, result) = "None"
            /\ c.input = s.input /\ c.pendingInput = s.pendingInput
            /\ c.output = s.output /\ c.pendingOutput = s.pendingOutput
        BY <2>2, <3>3
      <4>2. s.inputPhase = "EofObserved" /\ s.pendingOutput = NoEvent
        BY <4>1 DEF CleanupError, Result
      <4>3. DataTypes(c) /\ InOrder(c)
        BY <2>1, <3>3, <4>1 DEF RecordData, DataTypes, InOrder, Queued
      <4>4. EndsEmpty(c)
        BY <2>1, <3>3, <4>1, <4>2 DEF RecordData, EndsEmpty, Failed
      <4> QED BY <2>1, <3>3, <4>1, <4>3, <4>4 DEF RecordData, Ends
    <3> QED BY <3>1, <3>2, <3>3
  <2>4. /\ RecordData(Retire(c)) /\ (Failed(Retire(c)) <=> Failed(c))
        /\ Retire(c).inputPhase = c.inputPhase /\ Retire(c).input = c.input
        /\ Retire(c).pendingInput = c.pendingInput
        /\ Retire(c).pendingOutput = c.pendingOutput
    BY <2>1, <2>3, RetireData
  <2>5. Ends(s, Retire(c))
    BY <2>3, <2>4 DEF Ends
  <2> QED BY <2>1, <2>5
<1> QED BY <1>1, <1>2

-----------------------------------------------------------------------------
(* Chunks and events between the endpoints.                                *)

\* The parts of the type invariant that Shape leaves out.
Ledger ==
  /\ packet = [r \in Requests |-> packet[r]]
  /\ hold = [r \in Requests |-> [a \in Actor |-> hold[r][a]]]
  /\ accepted \in [Requests -> Nat] /\ taken \in [Requests -> Nat]

\* No handle is out before the launch went well.
Handles(l, end, w) == l # "Started" => end = "None" /\ w = "Gone"

\* The input slot is filled while a send waits, and only then; the input
\* handle is gone when the input was finished.
InputSide(s, end) ==
  /\ end # "Sending" => s.pendingInput = NoChunk
  /\ end = "Sending" /\ ~Failed(s) => s.pendingInput # NoChunk
  /\ s.inputPhase # "Open" => end = "Gone"

\* The output slot is filled while an emit waits, and only then.
OutputSide(s, w) ==
  /\ w # "Emitting" => s.pendingOutput = NoEvent
  /\ w = "Emitting" /\ ~Failed(s) => s.pendingOutput # NoEvent

\* Until a failure, what the user queued was taken or is in the queue.
Counts(s, a, k) == ~Failed(s) => a = k + Len(s.input)

\* An endpoint that has reserved the storage of an item still has its handle.
Reserved(step, handle, ready, b) == step = "Stage" => handle = ready /\ b \in ItemBytes

RequestData(r) ==
  /\ RecordData(st[r])
  /\ Handles(launch[r], inputEnd[r], writer[r])
  /\ InputSide(st[r], inputEnd[r])
  /\ OutputSide(st[r], writer[r])
  /\ Counts(st[r], accepted[r], taken[r])
  /\ Reserved(pc[r]["input"], inputEnd[r], "Open", hold[r]["input"])
  /\ Reserved(pc[r]["writer"], writer[r], "Idle", hold[r]["writer"])

DataInv == Ledger /\ \A r \in Requests : RequestData(r)

\* The same of the state after a step.
DataAfter(r) ==
  /\ RecordData(st'[r])
  /\ Handles(launch'[r], inputEnd'[r], writer'[r])
  /\ InputSide(st'[r], inputEnd'[r])
  /\ OutputSide(st'[r], writer'[r])
  /\ Counts(st'[r], accepted'[r], taken'[r])
  /\ Reserved(pc'[r]["input"], inputEnd'[r], "Open", hold'[r]["input"])
  /\ Reserved(pc'[r]["writer"], writer'[r], "Idle", hold'[r]["writer"])

-----------------------------------------------------------------------------
(* A step touches one request.                                             *)

\* A step on request r.
RequestStep(r) ==
  Start(r) \/ Continuation(r) \/ User(r) \/ Expire(r) \/ Backend(r) \/ ShutdownFail(r)

\* Nothing that belongs to request q changes.
Unmoved(q) ==
  /\ st'[q] = st[q] /\ launch'[q] = launch[q] /\ inputEnd'[q] = inputEnd[q]
  /\ outputEnd'[q] = outputEnd[q] /\ packet'[q] = packet[q] /\ writer'[q] = writer[q]
  /\ guard'[q] = guard[q] /\ pc'[q] = pc[q] /\ hold'[q] = hold[q]
  /\ accepted'[q] = accepted[q] /\ taken'[q] = taken[q]

\* What an actor is to do next.
LEMMA ContinueFacts ==
  ASSUME Shape, Ledger, NEW r \in Requests, NEW a \in Actor, NEW next, NEW b, Continue(r, a, next, b)
  PROVE  /\ \A q \in Requests \ {r} : pc'[q] = pc[q] /\ hold'[q] = hold[q]
         /\ \A c \in Actor : /\ pc'[r][c] = IF c = a THEN next ELSE pc[r][c]
                             /\ hold'[r][c] = IF c = a THEN b ELSE hold[r][c]
         /\ hold' = [q \in Requests |-> [c \in Actor |-> hold'[q][c]]]
<1>1. /\ pc \in [Requests -> [Actor -> Continuations]]
      /\ hold = [q \in Requests |-> [c \in Actor |-> hold[q][c]]]
  BY DEF Shape, Ledger
<1>2. /\ pc' = [pc EXCEPT ![r][a] = next] /\ hold' = [hold EXCEPT ![r][a] = b]
  BY DEF Continue
<1>3. hold' = [q \in Requests |-> [c \in Actor |-> IF q = r /\ c = a THEN b ELSE hold[q][c]]]
  BY <1>1, <1>2
<1>4. /\ \A q \in Requests \ {r} : pc'[q] = pc[q]
      /\ \A c \in Actor : pc'[r][c] = IF c = a THEN next ELSE pc[r][c]
  BY <1>1, <1>2
<1>5. \A q \in Requests \ {r} : hold'[q] = hold[q]
  <2>1. hold = [q \in Requests |-> hold[q]]
    BY <1>1
  <2> QED BY <1>2, <2>1
<1>6. \A c \in Actor : hold'[r][c] = IF c = a THEN b ELSE hold[r][c]
  BY <1>3
<1>7. hold' = [q \in Requests |-> [c \in Actor |-> hold'[q][c]]]
  BY <1>3
<1> QED BY <1>4, <1>5, <1>6, <1>7

\* A step on request r leaves the others alone.
LEMMA OneRequest ==
  ASSUME Shape, Ledger, NEW r \in Requests, RequestStep(r)
  PROVE  /\ \A q \in Requests \ {r} : Unmoved(q)
         /\ packet' = [q \in Requests |-> packet'[q]]
         /\ hold' = [q \in Requests |-> [a \in Actor |-> hold'[q][a]]]
         /\ accepted' \in [Requests -> Nat] /\ taken' \in [Requests -> Nat]
<1> DEFINE Rest == /\ \A q \in Requests \ {r} : pc'[q] = pc[q] /\ hold'[q] = hold[q]
                   /\ hold' = [q \in Requests |-> [a \in Actor |-> hold'[q][a]]]
           Parts == /\ \A q \in Requests \ {r} :
                         /\ st'[q] = st[q] /\ launch'[q] = launch[q] /\ inputEnd'[q] = inputEnd[q]
                         /\ outputEnd'[q] = outputEnd[q] /\ packet'[q] = packet[q]
                         /\ writer'[q] = writer[q] /\ guard'[q] = guard[q]
                         /\ accepted'[q] = accepted[q] /\ taken'[q] = taken[q]
                    /\ packet' = [q \in Requests |-> packet'[q]]
                    /\ accepted' \in [Requests -> Nat] /\ taken' \in [Requests -> Nat]
<1>0. /\ st = [q \in Requests |-> st[q]] /\ packet = [q \in Requests |-> packet[q]]
      /\ launch \in [Requests -> {"Idle", "Launching", "Started", "Refused"}]
      /\ inputEnd \in [Requests -> {"None", "Open", "Sending", "Gone"}]
      /\ outputEnd \in [Requests -> {"None", "Receiving", "Ended", "Gone"}]
      /\ writer \in [Requests -> {"Idle", "Emitting", "Gone"}]
      /\ guard \in [Requests -> {"None", "Held", "Done"}]
      /\ pc \in [Requests -> [Actor -> Continuations]]
      /\ hold = [q \in Requests |-> [a \in Actor |-> hold[q][a]]]
      /\ accepted \in [Requests -> Nat] /\ taken \in [Requests -> Nat]
  BY DEF Shape, Ledger
<1>1. ASSUME NEW a \in Actor, NEW next, NEW b, Continue(r, a, next, b) PROVE Rest
  <2>1. /\ \A q \in Requests \ {r} : pc'[q] = pc[q] /\ hold'[q] = hold[q]
        /\ hold' = [q \in Requests |-> [c \in Actor |-> hold'[q][c]]]
    BY <1>1, ContinueFacts
  <2> QED BY <2>1
<1>2. /\ UNCHANGED hold => hold' = [q \in Requests |-> [a \in Actor |-> hold'[q][a]]]
      /\ UNCHANGED << pc, hold >> => Rest
  BY <1>0
<1>3. {"input", "output", "control", "timer", "owner", "writer", "reader", "guard"} \subseteq Actor
  BY DEF Actor
<1> HIDE DEF Rest
<1>4. ASSUME NEW a \in Actor, NEW s, NEW b, Transition(r, a, s, b)
      PROVE  Rest /\ st' = [st EXCEPT ![r] = s]
  BY <1>1, <1>4 DEF Transition
<1>5. ASSUME NEW a \in Actor, NEW error, FailRequest(r, a, error)
      PROVE  Rest /\ st' = [st EXCEPT ![r] = Fail(st[r], error)]
  BY <1>4, <1>5 DEF FailRequest
<1>6. ASSUME Start(r) PROVE Rest /\ Parts
  <2>1. CASE Register(r)
    <3>1. Parts
      BY <1>0, <2>1 DEF Register, historyVars
    <3>2. /\ hold' = [q \in Requests |-> [c \in Actor |->
                        IF q = r /\ c = "guard" THEN SettingsBytes ELSE hold[q][c]]]
          /\ pc' = pc
      BY <1>0, <2>1 DEF Register
    <3>3. \A q \in Requests \ {r} : hold'[q] = hold[q]
      <4>1. hold = [q \in Requests |-> hold[q]] /\ hold' = [hold EXCEPT ![r]["guard"] = SettingsBytes]
        BY <1>0, <2>1 DEF Register
      <4> QED BY <4>1
    <3>4. hold' = [q \in Requests |-> [a \in Actor |-> hold'[q][a]]]
      BY <3>2
    <3>5. Rest
      BY <3>2, <3>3, <3>4 DEF Rest
    <3> QED BY <3>1, <3>5
  <2>2. CASE LaunchOk(r)
    BY <1>0, <1>2, <2>2 DEF LaunchOk, historyVars
  <2>3. CASE LaunchError(r)
    <3>1. Parts
      BY <1>0, <2>3 DEF LaunchError, historyVars
    <3>2. Rest
      BY <1>0, <1>2, <2>3 DEF LaunchError, Rest
    <3> QED BY <3>1, <3>2
  <2> QED BY <1>6, <2>1, <2>2, <2>3 DEF Start
<1>7. ASSUME Continuation(r) PROVE Rest /\ Parts
  <2>1. PICK a \in Actor : DropLeases(r, a) \/ Unregister(r, a) \/ Changed(r, a)
    BY <1>7 DEF Continuation
  <2>2. CASE DropLeases(r, a)
    BY <1>0, <1>1, <2>2 DEF DropLeases, endVars, historyVars
  <2>3. CASE Unregister(r, a)
    <3>1. Rest
      BY <1>0, <1>2, <2>3 DEF Unregister, Rest
    <3>2. Parts
      BY <1>0, <2>3 DEF Unregister, endVars, historyVars
    <3> QED BY <3>1, <3>2
  <2>4. CASE Changed(r, a)
    <3>1. Rest /\ st' = [st EXCEPT ![r] = Retire(st[r])]
      BY <1>4, <2>4 DEF Changed
    <3>2. UNCHANGED << endVars, historyVars >>
      BY <2>4 DEF Changed
    <3> QED BY <1>0, <3>1, <3>2 DEF endVars, historyVars
  <2> QED BY <2>1, <2>2, <2>3, <2>4
<1>8. ASSUME User(r) PROVE Rest /\ Parts
  <2>1. ASSUME NEW b \in ItemBytes, SendReserve(r, b) PROVE Rest /\ Parts
    BY <1>0, <1>1, <1>3, <2>1 DEF SendReserve, endVars, historyVars
  <2>2. ASSUME NEW b \in ItemBytes, TrySend(r, b) PROVE Rest /\ Parts
    BY <1>0, <1>1, <1>3, <2>2 DEF TrySend, endVars, historyVars
  <2>3. CASE SendStage(r)
    BY <1>0, <1>1, <1>3, <2>3 DEF SendStage, historyVars
  <2>4. CASE PollSend(r)
    <3>1. /\ Rest /\ UNCHANGED << launch, outputEnd, packet, writer, guard, taken >>
          /\ inputEnd' = [inputEnd EXCEPT ![r] = "Open"]
      BY <1>1, <1>3, <2>4 DEF PollSend
    <3>2. CASE UNCHANGED << st, accepted >>
      BY <1>0, <3>1, <3>2
    <3>3. CASE st' = [st EXCEPT ![r] = AcceptInput(@)] /\ accepted' = [accepted EXCEPT ![r] = @ + 1]
      BY <1>0, <3>1, <3>3
    <3> QED BY <2>4, <3>2, <3>3 DEF PollSend
  <2>5. CASE DropSend(r)
    BY <1>0, <1>1, <1>3, <2>5 DEF DropSend, historyVars
  <2>6. CASE FinishSending(r)
    BY <1>0, <1>1, <1>2, <1>3, <2>6 DEF FinishSending, historyVars
  <2>7. CASE DropInput(r)
    BY <1>0, <1>5, <1>3, <2>7 DEF DropInput, historyVars
  <2>8. CASE Receive(r)
    BY <1>0, <1>1, <1>3, <2>8 DEF Receive, historyVars
  <2>9. CASE DropOutput(r)
    BY <1>0, <1>5, <1>3, <2>9 DEF DropOutput, historyVars
  <2>10. CASE Cancel(r)
    BY <1>0, <1>5, <1>3, <2>10 DEF Cancel, endVars, historyVars
  <2> QED BY <1>8, <2>1, <2>2, <2>3, <2>4, <2>5, <2>6, <2>7, <2>8, <2>9, <2>10 DEF User
<1>9. ASSUME Expire(r) PROVE Rest /\ Parts
  BY <1>0, <1>5, <1>3, <1>9 DEF Expire, endVars, historyVars
<1>10. ASSUME Backend(r) PROVE Rest /\ Parts
  <2>1. CASE ReadInput(r)
    BY <1>0, <1>1, <1>3, <2>1 DEF ReadInput
  <2>2. CASE ReleasePacket(r)
    BY <1>0, <1>2, <2>2 DEF ReleasePacket, historyVars
  <2>3. ASSUME NEW b \in ItemBytes, EmitReserve(r, b) PROVE Rest /\ Parts
    BY <1>0, <1>1, <1>3, <2>3 DEF EmitReserve, endVars, historyVars
  <2>4. ASSUME NEW b \in ItemBytes, EmitOverBudget(r, b) PROVE Rest /\ Parts
    BY <1>0, <1>5, <1>3, <2>4 DEF EmitOverBudget, endVars, historyVars
  <2>5. ASSUME NEW finished \in BOOLEAN, EmitStage(r, finished) PROVE Rest /\ Parts
    BY <1>0, <1>1, <1>3, <2>5 DEF EmitStage, historyVars
  <2>6. CASE EmitRejected(r)
    BY <1>0, <1>5, <1>3, <2>6 DEF EmitRejected, endVars, historyVars
  <2>7. CASE PollEmit(r)
    BY <1>0, <1>1, <1>3, <2>7 DEF PollEmit, historyVars
  <2>8. CASE DropEmit(r)
    BY <1>0, <1>5, <1>3, <2>8 DEF DropEmit, historyVars
  <2>9. CASE BackendFail(r)
    BY <1>0, <1>5, <1>3, <2>9 DEF BackendFail, endVars, historyVars
  <2>10. ASSUME NEW result \in Result, GuardFinish(r, result) PROVE Rest /\ Parts
    <3>1. Rest
      BY <1>0, <1>2, <2>10 DEF GuardFinish, Rest
    <3>2. Parts
      BY <1>0, <2>10 DEF GuardFinish, historyVars
    <3> QED BY <3>1, <3>2
  <2>11. CASE Close(r)
    <3>1. Rest /\ st' = [st EXCEPT ![r] = CompleteCleanup(st[r], pc[r]["guard"])]
      BY <1>3, <1>4, <2>11 DEF Close
    <3> QED BY <1>0, <3>1, <2>11 DEF Close, endVars, historyVars
  <2> QED BY <1>10, <2>1, <2>2, <2>3, <2>4, <2>5, <2>6, <2>7, <2>8, <2>9, <2>10, <2>11 DEF Backend
<1>11. ASSUME ShutdownFail(r) PROVE Rest /\ Parts
  BY <1>0, <1>5, <1>3, <1>11 DEF ShutdownFail, endVars, historyVars
<1>12. Rest /\ Parts
  BY <1>6, <1>7, <1>8, <1>9, <1>10, <1>11 DEF RequestStep
<1> QED BY <1>12 DEF Rest, Unmoved

-----------------------------------------------------------------------------
(* A step keeps the invariant of its request.                              *)

\* What an ending leaves of the relations between a request and its handles.
LEMMA EndsKeepSides ==
  ASSUME NEW s, NEW t, Ends(s, t), NEW end, NEW w, NEW a, NEW k
  PROVE  /\ InputSide(s, end) => InputSide(t, end)
         /\ OutputSide(s, w) => OutputSide(t, w)
         /\ Counts(s, a, k) => Counts(t, a, k)
<1>1. CASE Failed(t)
  <2>1. t.pendingInput = NoChunk /\ t.pendingOutput = NoEvent /\ t.inputPhase = s.inputPhase
    BY <1>1 DEF Ends, RecordData, EndsEmpty
  <2> QED BY <1>1, <2>1 DEF InputSide, OutputSide, Counts
<1>2. CASE ~Failed(t)
  BY <1>2 DEF Ends, InputSide, OutputSide, Counts
<1> QED BY <1>1, <1>2

\* A failed request has nothing staged, and neither has one that succeeded.
LEMMA FailUnstages ==
  ASSUME NEW s, HasFields(s), OutcomeInv(s), RecordData(s), NEW error \in ErrorKind
  PROVE  Fail(s, error).pendingOutput = NoEvent
<1>1. CASE FailIgnored(s)
  <2>1. s.outcome # "Running"
    BY <1>1 DEF FailIgnored, Failed, OutcomeInv, ErrorKind
  <2> QED BY <1>1, <2>1 DEF Fail, OutcomeInv, RecordData, EndsEmpty, Failed
<1>2. CASE ~FailIgnored(s)
  BY <1>2, FailFields
<1> QED BY <1>1, <1>2

\* What is known of request r before a step on it.
LEMMA DataBefore ==
  ASSUME LifecycleInv, Outcomes, DataInv, NEW r \in Requests
  PROVE  /\ Shape /\ Ledger /\ st = [q \in Requests |-> st[q]]
         /\ HasFields(st[r]) /\ OutcomeInv(st[r]) /\ RecordData(st[r])
         /\ RequestInv(r) /\ RequestData(r)
         /\ launch \in [Requests -> {"Idle", "Launching", "Started", "Refused"}]
         /\ inputEnd \in [Requests -> {"None", "Open", "Sending", "Gone"}]
         /\ outputEnd \in [Requests -> {"None", "Receiving", "Ended", "Gone"}]
         /\ writer \in [Requests -> {"Idle", "Emitting", "Gone"}]
         /\ accepted[r] \in Nat /\ taken[r] \in Nat
BY DEF LifecycleInv, Outcomes, DataInv, Shape, Ledger, RequestData

\* A charge is a positive number.
LEMMA ItemsAreBytes == \A b \in ItemBytes : b \in Nat \ {0}
BY CoreAssumption

\* A step that changes no more than how the request ends, and does not let an
\* endpoint reserve storage.
LEMMA EndingAfter ==
  ASSUME LifecycleInv, Outcomes, DataInv, NEW r \in Requests,
         NEW a \in Actor, NEW t, NEW b, Transition(r, a, t, b), Ends(st[r], t),
         UNCHANGED << launch, accepted, taken >>,
         inputEnd'[r] = inputEnd[r] \/ (a = "input" /\ inputEnd'[r] = "Gone" /\ inputEnd[r] = "Open"),
         writer'[r] = writer[r] \/ (a = "writer" /\ writer'[r] = "Idle" /\ writer[r] = "Emitting" /\ t.pendingOutput = NoEvent)
  PROVE  DataAfter(r)
<1>1. /\ Shape /\ Ledger /\ RequestData(r) /\ st = [q \in Requests |-> st[q]]
  BY DataBefore
<1>2. st'[r] = t
  BY <1>1 DEF Transition
<1>3. \A c \in Actor : /\ c = a => pc'[r][c] # "Stage"
                       /\ c # a => pc'[r][c] = pc[r][c] /\ hold'[r][c] = hold[r][c]
  <2>1. PICK next \in {"Remove", "Apply", "Idle"} : Continue(r, a, next, b)
    BY DEF Transition
  <2>2. \A c \in Actor : /\ pc'[r][c] = IF c = a THEN next ELSE pc[r][c]
                         /\ hold'[r][c] = IF c = a THEN b ELSE hold[r][c]
    BY <1>1, <2>1, ContinueFacts
  <2> QED BY <2>2
<1>4. RecordData(t)
  BY DEF Ends
<1>5. Handles(launch'[r], inputEnd'[r], writer'[r])
  BY <1>1 DEF RequestData, Handles
<1>6. InputSide(t, inputEnd'[r])
  BY <1>1, EndsKeepSides DEF RequestData, InputSide
<1>7. OutputSide(t, writer'[r])
  BY <1>1, EndsKeepSides DEF RequestData, OutputSide
<1>8. Counts(t, accepted'[r], taken'[r])
  BY <1>1, EndsKeepSides DEF RequestData
<1>9. /\ Reserved(pc'[r]["input"], inputEnd'[r], "Open", hold'[r]["input"])
      /\ Reserved(pc'[r]["writer"], writer'[r], "Idle", hold'[r]["writer"])
  BY <1>1, <1>3 DEF RequestData, Reserved, Actor
<1> QED BY <1>2, <1>4, <1>5, <1>6, <1>7, <1>8, <1>9 DEF DataAfter

\* A failure keeps the invariant of its request.
LEMMA FailAfter ==
  ASSUME LifecycleInv, Outcomes, DataInv, NEW r \in Requests,
         NEW a \in Actor, NEW error \in ErrorKind, FailRequest(r, a, error),
         UNCHANGED << launch, accepted, taken >>,
         inputEnd'[r] = inputEnd[r] \/ (a = "input" /\ inputEnd'[r] = "Gone" /\ inputEnd[r] = "Open"),
         writer'[r] = writer[r] \/ (a = "writer" /\ writer'[r] = "Idle" /\ writer[r] = "Emitting")
  PROVE  DataAfter(r)
<1> DEFINE t == Fail(st[r], error)
<1>1. HasFields(st[r]) /\ OutcomeInv(st[r]) /\ RecordData(st[r])
  BY DataBefore
<1>2. Ends(st[r], t) /\ t.pendingOutput = NoEvent
  BY <1>1, FailData, FailUnstages
<1>3. Transition(r, a, t, DiscardedByFail(st[r]))
  BY DEF FailRequest
<1> HIDE DEF t
<1> QED BY <1>2, <1>3, EndingAfter

\* The steps of Client::start.
LEMMA StartAfter ==
  ASSUME LifecycleInv, Outcomes, DataInv, NEW r \in Requests, Start(r)
  PROVE  DataAfter(r)
<1>0. /\ Ledger /\ RequestData(r) /\ RequestInv(r)
      /\ launch \in [Requests -> {"Idle", "Launching", "Started", "Refused"}]
      /\ inputEnd \in [Requests -> {"None", "Open", "Sending", "Gone"}]
      /\ writer \in [Requests -> {"Idle", "Emitting", "Gone"}]
      /\ pc \in [Requests -> [Actor -> Continuations]]
  BY DataBefore DEF Shape
<1>1. /\ UNCHANGED << st, accepted, taken >>
      /\ pc'[r]["input"] = pc[r]["input"] /\ pc'[r]["writer"] = pc[r]["writer"]
  BY <1>0 DEF Start, Register, LaunchOk, LaunchError, historyVars, Actor
<1>2. hold'[r]["input"] = hold[r]["input"] /\ hold'[r]["writer"] = hold[r]["writer"]
  <2>1. CASE UNCHANGED hold
    BY <2>1
  <2>2. CASE hold' = [hold EXCEPT ![r]["guard"] = SettingsBytes]
    BY <1>0, <2>2 DEF Ledger, Actor
  <2> QED BY <2>1, <2>2 DEF Start, Register, LaunchOk, LaunchError
<1>3. CASE UNCHANGED << inputEnd, writer >> /\ launch[r] # "Started"
  <2>1. Handles(launch'[r], inputEnd'[r], writer'[r])
    BY <1>0, <1>3 DEF RequestData, Handles
  <2> QED BY <1>0, <1>1, <1>2, <1>3, <2>1 DEF RequestData, DataAfter
<1>4. CASE LaunchOk(r)
  <2>1. inputEnd[r] = "None" /\ writer[r] = "Gone"
    BY <1>0, <1>4 DEF LaunchOk, RequestData, Handles
  <2>2. inputEnd'[r] = "Open" /\ writer'[r] = "Idle" /\ launch'[r] = "Started"
    BY <1>0, <1>4 DEF LaunchOk
  <2>3. InputSide(st[r], "Open") /\ OutputSide(st[r], "Idle")
    BY <1>0, <2>1 DEF RequestData, InputSide, OutputSide
  <2>4. pc[r]["input"] # "Stage" /\ pc[r]["writer"] # "Stage"
    BY <1>0, <2>1 DEF RequestData, Reserved
  <2> QED BY <1>0, <1>1, <2>2, <2>3, <2>4 DEF RequestData, DataAfter, Handles, Reserved
<1> QED BY <1>3, <1>4 DEF Start, Register, LaunchError

\* What an actor does after its critical section.
LEMMA ContinuationAfter ==
  ASSUME LifecycleInv, Outcomes, DataInv, NEW r \in Requests, Continuation(r)
  PROVE  DataAfter(r)
<1>0. /\ Shape /\ Ledger /\ RequestData(r) /\ HasFields(st[r]) /\ RecordData(st[r])
      /\ pc \in [Requests -> [Actor -> Continuations]]
  BY DataBefore DEF Shape
<1>1. PICK a \in Actor : DropLeases(r, a) \/ Unregister(r, a) \/ Changed(r, a)
  BY DEF Continuation
<1>2. ASSUME UNCHANGED << st, endVars, historyVars >>,
             \A c \in {"input", "writer"} :
               pc'[r][c] = "Stage" => pc[r][c] = "Stage" /\ hold'[r][c] = hold[r][c]
      PROVE  DataAfter(r)
  BY <1>0, <1>2 DEF endVars, historyVars, DataAfter, RequestData, Reserved
<1>3. CASE DropLeases(r, a)
  <2>1. \A c \in Actor : /\ c # a => pc'[r][c] = pc[r][c] /\ hold'[r][c] = hold[r][c]
                         /\ c = a => pc'[r][c] # "Stage"
    <3>1. PICK next : Continue(r, a, next, 0) /\ next # "Stage"
      BY <1>3 DEF DropLeases, Result
    <3>2. \A c \in Actor : /\ pc'[r][c] = IF c = a THEN next ELSE pc[r][c]
                           /\ hold'[r][c] = IF c = a THEN 0 ELSE hold[r][c]
      BY <1>0, <3>1, ContinueFacts
    <3> QED BY <3>1, <3>2
  <2> QED BY <1>2, <1>3, <2>1 DEF DropLeases, Actor
<1>4. CASE Unregister(r, a)
  <2>1. \A c \in Actor : /\ c # a => pc'[r][c] = pc[r][c]
                         /\ c = a => pc'[r][c] # "Stage"
    BY <1>0, <1>4 DEF Unregister
  <2> QED BY <1>2, <1>4, <2>1 DEF Unregister, Actor
<1>5. CASE Changed(r, a)
  <2> DEFINE t == Retire(st[r])
  <2>1. Ends(st[r], t)
    BY <1>0, RetireData
  <2>2. Transition(r, a, t, 0) /\ UNCHANGED << endVars, historyVars >>
    BY <1>5 DEF Changed
  <2> HIDE DEF t
  <2> QED BY <2>1, <2>2, EndingAfter DEF endVars, historyVars
<1> QED BY <1>1, <1>3, <1>4, <1>5

\* A step of the input endpoint on state t of the request, for the output side.
LEMMA InputStepAfter ==
  ASSUME LifecycleInv, Outcomes, DataInv, NEW r \in Requests, launch[r] = "Started",
         NEW a \in {"input", "reader"}, NEW next, NEW b, Continue(r, a, next, b),
         NEW t, st' = [st EXCEPT ![r] = t], RecordData(t), SameOutput(st[r], t),
         UNCHANGED << launch, writer >>,
         InputSide(t, inputEnd'[r]), Counts(t, accepted'[r], taken'[r]),
         a = "input" => Reserved(next, inputEnd'[r], "Open", b),
         a # "input" => UNCHANGED inputEnd
  PROVE  DataAfter(r)
<1>1. /\ Shape /\ Ledger /\ RequestData(r) /\ st = [q \in Requests |-> st[q]]
  BY DataBefore
<1>2. st'[r] = t
  BY <1>1
<1>3. \A c \in Actor : /\ pc'[r][c] = IF c = a THEN next ELSE pc[r][c]
                       /\ hold'[r][c] = IF c = a THEN b ELSE hold[r][c]
  BY <1>1, ContinueFacts DEF Actor
<1>4. OutputSide(t, writer'[r])
  BY <1>1 DEF RequestData, OutputSide, SameOutput, Failed
<1>5. /\ Reserved(pc'[r]["input"], inputEnd'[r], "Open", hold'[r]["input"])
      /\ Reserved(pc'[r]["writer"], writer'[r], "Idle", hold'[r]["writer"])
  BY <1>1, <1>3 DEF RequestData, Reserved, Actor
<1> QED BY <1>1, <1>2, <1>4, <1>5 DEF DataAfter, Handles

\* A step on the output side, for the input side.
LEMMA OutputStepAfter ==
  ASSUME LifecycleInv, Outcomes, DataInv, NEW r \in Requests, launch[r] = "Started" \/ UNCHANGED writer,
         NEW a \in {"output", "writer"}, NEW next, NEW b, Continue(r, a, next, b),
         NEW t, st' = [st EXCEPT ![r] = t], RecordData(t), t.outcome = st[r].outcome,
         t.input = st[r].input, t.pendingInput = st[r].pendingInput,
         t.inputPhase = st[r].inputPhase,
         UNCHANGED << launch, inputEnd, accepted, taken >>,
         OutputSide(t, writer'[r]),
         a = "writer" => Reserved(next, writer'[r], "Idle", b),
         a # "writer" => UNCHANGED writer
  PROVE  DataAfter(r)
<1>1. /\ Shape /\ Ledger /\ RequestData(r) /\ st = [q \in Requests |-> st[q]]
  BY DataBefore
<1>2. st'[r] = t
  BY <1>1
<1>3. \A c \in Actor : /\ pc'[r][c] = IF c = a THEN next ELSE pc[r][c]
                       /\ hold'[r][c] = IF c = a THEN b ELSE hold[r][c]
  BY <1>1, ContinueFacts DEF Actor
<1>4. InputSide(t, inputEnd'[r]) /\ Counts(t, accepted'[r], taken'[r])
  BY <1>1 DEF RequestData, InputSide, Counts, Failed
<1>5. /\ Reserved(pc'[r]["input"], inputEnd'[r], "Open", hold'[r]["input"])
      /\ Reserved(pc'[r]["writer"], writer'[r], "Idle", hold'[r]["writer"])
  BY <1>1, <1>3 DEF RequestData, Reserved, Actor
<1>6. Handles(launch'[r], inputEnd'[r], writer'[r])
  BY <1>1 DEF RequestData, Handles
<1> QED BY <1>1, <1>2, <1>4, <1>5, <1>6 DEF DataAfter

\* The steps of the input endpoint.
LEMMA SendAfter ==
  ASSUME LifecycleInv, Outcomes, DataInv, NEW r \in Requests,
         \/ \E b \in ItemBytes : SendReserve(r, b) \/ TrySend(r, b)
         \/ SendStage(r) \/ PollSend(r) \/ DropSend(r) \/ FinishSending(r)
  PROVE  DataAfter(r)
<1> DEFINE s == st[r]
<1>0. /\ Shape /\ Ledger /\ RequestData(r) /\ st = [q \in Requests |-> st[q]]
      /\ HasFields(s) /\ RecordData(s) /\ InputSide(s, inputEnd[r])
      /\ Counts(s, accepted[r], taken[r]) /\ accepted[r] \in Nat /\ taken[r] \in Nat
      /\ Reserved(pc[r]["input"], inputEnd[r], "Open", hold[r]["input"])
      /\ inputEnd \in [Requests -> {"None", "Open", "Sending", "Gone"}]
      /\ accepted \in [Requests -> Nat]
  BY DataBefore DEF RequestData, Ledger
<1>1. inputEnd[r] \in {"Open", "Sending"} /\ launch[r] = "Started"
  BY <1>0 DEF SendReserve, TrySend, SendStage, PollSend, DropSend, FinishSending, RequestData, Handles
<1>2. st = [st EXCEPT ![r] = s] /\ SameOutput(s, s)
  BY <1>0 DEF SameOutput
<1>3. inputEnd[r] = "Open" => s.pendingInput = NoChunk
  BY <1>0 DEF InputSide
<1> HIDE DEF s
<1>4. ASSUME NEW b \in ItemBytes, SendReserve(r, b) PROVE DataAfter(r)
  <2>1. /\ Continue(r, "input", "Stage", b) /\ inputEnd[r] = "Open"
        /\ UNCHANGED << st, launch, writer, inputEnd, accepted, taken >>
    BY <1>4 DEF SendReserve, endVars, historyVars
  <2>2. Reserved("Stage", inputEnd'[r], "Open", b)
    BY <2>1 DEF Reserved
  <2>3. InputSide(s, inputEnd'[r]) /\ Counts(s, accepted'[r], taken'[r])
    BY <2>1, <1>0
  <2> QED BY <1>0, <1>1, <1>2, <2>1, <2>2, <2>3, InputStepAfter DEF s
<1>5. ASSUME NEW b \in ItemBytes, TrySend(r, b) PROVE DataAfter(r)
  <2> DEFINE t == EnqueueInput(s, b)
  <2>1. /\ Continue(r, "input", "Changed", 0) /\ InputOpen(s) /\ inputEnd[r] = "Open"
        /\ UNCHANGED << launch, writer, inputEnd, taken >>
        /\ st' = [st EXCEPT ![r] = t] /\ accepted'[r] = accepted[r] + 1
    BY <1>0, <1>5 DEF TrySend, endVars, s
  <2>2. /\ RecordData(t) /\ SameOutput(s, t)
        /\ Len(t.input) = Len(s.input) + 1 /\ Len(s.input) \in Nat
        /\ t.pendingInput = s.pendingInput /\ t.inputPhase = s.inputPhase
    BY <1>0, <2>1, ItemsAreBytes, EnqueueInputData
  <2> HIDE DEF t
  <2>3. InputSide(t, inputEnd'[r])
    BY <1>0, <2>1, <2>2 DEF InputSide
  <2>4. Counts(t, accepted'[r], taken'[r])
    BY <1>0, <2>1, <2>2 DEF Counts, SameOutput, Failed
  <2>5. Reserved("Changed", inputEnd'[r], "Open", 0)
    BY DEF Reserved
  <2> QED BY <1>1, <2>1, <2>2, <2>3, <2>4, <2>5, InputStepAfter DEF s
<1>6. CASE SendStage(r)
  <2>1. inputEnd[r] = "Open" /\ hold[r]["input"] \in ItemBytes
    BY <1>0, <1>6 DEF SendStage, Reserved
  <2>2. CASE InputOpen(s) /\ st' = [st EXCEPT ![r] = StageInput(@, hold[r]["input"])]
             /\ inputEnd' = [inputEnd EXCEPT ![r] = "Sending"] /\ Continue(r, "input", "Idle", 0)
    <3> DEFINE t == StageInput(s, hold[r]["input"])
    <3>1. st' = [st EXCEPT ![r] = t] /\ inputEnd'[r] = "Sending"
      BY <1>0, <2>2 DEF s
    <3>2. /\ RecordData(t) /\ SameOutput(s, t)
          /\ t.input = s.input /\ t.pendingInput = hold[r]["input"] /\ t.inputPhase = s.inputPhase
      BY <1>0, <2>1, <2>2, ItemsAreBytes, StageInputData
    <3> HIDE DEF t
    <3>3. InputSide(t, inputEnd'[r])
      <4>1. t.inputPhase = "Open"
        BY <2>2, <3>2 DEF InputOpen
      <4>2. t.pendingInput # NoChunk
        BY <2>1, <3>2, ItemsAreBytes DEF NoChunk
      <4> QED BY <3>1, <4>1, <4>2 DEF InputSide
    <3>4. Counts(t, accepted'[r], taken'[r]) /\ UNCHANGED << launch, writer, accepted, taken >>
      BY <1>0, <1>6, <3>2 DEF SendStage, historyVars, Counts, SameOutput, Failed
    <3>5. Reserved("Idle", inputEnd'[r], "Open", 0)
      BY DEF Reserved
    <3> QED BY <1>1, <2>2, <3>1, <3>2, <3>3, <3>4, <3>5, InputStepAfter DEF s
  <2>3. CASE Continue(r, "input", "Apply", hold[r]["input"]) /\ UNCHANGED << st, inputEnd >>
    <3>1. Reserved("Apply", inputEnd'[r], "Open", hold[r]["input"])
      BY DEF Reserved
    <3>2. UNCHANGED << launch, writer, accepted, taken >>
      BY <1>6 DEF SendStage, historyVars
    <3>3. InputSide(s, inputEnd'[r]) /\ Counts(s, accepted'[r], taken'[r])
      BY <1>0, <2>3, <3>2
    <3> QED BY <1>0, <1>1, <1>2, <2>3, <3>1, <3>2, <3>3, InputStepAfter DEF s
  <2> QED BY <1>6, <2>2, <2>3 DEF SendStage, s
<1>7. CASE PollSend(r)
  <2>1. /\ Continue(r, "input", "Changed", 0) /\ inputEnd[r] = "Sending" /\ inputEnd'[r] = "Open"
        /\ UNCHANGED << launch, writer, taken >>
    BY <1>0, <1>7 DEF PollSend
  <2>2. s.inputPhase = "Open"
    BY <1>0, <2>1 DEF InputSide
  <2>3. Reserved("Changed", inputEnd'[r], "Open", 0)
    BY DEF Reserved
  <2>4. CASE Failed(s) /\ UNCHANGED << st, accepted >>
    <3>1. InputSide(s, inputEnd'[r])
      BY <1>0, <2>1, <2>2, <2>4 DEF InputSide, RecordData, EndsEmpty
    <3>2. Counts(s, accepted'[r], taken'[r])
      BY <2>4 DEF Counts
    <3> QED BY <1>0, <1>1, <1>2, <2>1, <2>3, <2>4, <3>1, <3>2, InputStepAfter DEF s
  <2>5. CASE ~Failed(s) /\ st' = [st EXCEPT ![r] = AcceptInput(@)] /\ accepted' = [accepted EXCEPT ![r] = @ + 1]
    <3> DEFINE t == AcceptInput(s)
    <3>1. st' = [st EXCEPT ![r] = t] /\ accepted'[r] = accepted[r] + 1
      BY <1>0, <2>5 DEF s
    <3>2. InputOpen(s) /\ s.pendingInput # NoChunk
      BY <1>0, <2>1, <2>2, <2>5 DEF InputOpen, InputSide
    <3>3. /\ RecordData(t) /\ SameOutput(s, t)
          /\ Len(t.input) = Len(s.input) + 1 /\ Len(s.input) \in Nat
          /\ t.pendingInput = NoChunk /\ t.inputPhase = s.inputPhase
      BY <1>0, <3>2, AcceptInputData
    <3> HIDE DEF t
    <3>4. InputSide(t, inputEnd'[r])
      BY <2>1, <2>2, <3>3 DEF InputSide
    <3>5. Counts(t, accepted'[r], taken'[r])
      BY <1>0, <2>1, <3>1, <3>3 DEF Counts, SameOutput, Failed
    <3> QED BY <1>1, <2>1, <2>3, <3>1, <3>3, <3>4, <3>5, InputStepAfter DEF s
  <2> QED BY <1>7, <2>4, <2>5 DEF PollSend, s
<1>8. CASE DropSend(r)
  <2> DEFINE t == AbandonInput(s)
  <2>1. /\ Continue(r, "input", "Changed", s.pendingInput)
        /\ inputEnd[r] = "Sending" /\ inputEnd'[r] = "Open"
        /\ UNCHANGED << launch, writer, accepted, taken >> /\ st' = [st EXCEPT ![r] = t]
    BY <1>0, <1>8 DEF DropSend, historyVars, s
  <2>2. /\ RecordData(t) /\ SameOutput(s, t)
        /\ t.input = s.input /\ t.pendingInput = NoChunk /\ t.inputPhase = s.inputPhase
    BY <1>0, UnstageInputData
  <2> HIDE DEF t
  <2>3. InputSide(t, inputEnd'[r])
    BY <1>0, <2>1, <2>2 DEF InputSide
  <2>4. Counts(t, accepted'[r], taken'[r])
    BY <1>0, <2>1, <2>2 DEF Counts, SameOutput, Failed
  <2>5. Reserved("Changed", inputEnd'[r], "Open", s.pendingInput)
    BY DEF Reserved
  <2> QED BY <1>1, <2>1, <2>2, <2>3, <2>4, <2>5, InputStepAfter DEF s
<1>9. CASE FinishSending(r)
  <2>1. /\ inputEnd[r] = "Open" /\ pc[r]["input"] = "Idle" /\ inputEnd'[r] = "Gone"
        /\ UNCHANGED << launch, writer, accepted, taken >>
    BY <1>0, <1>9 DEF FinishSending, Ready, historyVars
  <2>2. CASE Failed(s) /\ UNCHANGED << st, pc, hold >>
    <3>1. InputSide(s, inputEnd'[r])
      BY <1>0, <2>1 DEF InputSide
    <3>2. Reserved(pc'[r]["input"], inputEnd'[r], "Open", hold'[r]["input"])
      BY <2>1, <2>2 DEF Reserved
    <3>3. Handles(launch'[r], inputEnd'[r], writer'[r])
      BY <1>1, <2>1 DEF Handles
    <3>4. UNCHANGED << st, pc, hold >>
      BY <2>2
    <3> QED BY <1>0, <2>1, <3>1, <3>2, <3>3, <3>4 DEF DataAfter, RequestData, s
  <2>3. CASE ~Failed(s) /\ st' = [st EXCEPT ![r] = FinishInput(@)] /\ Continue(r, "input", "Changed", 0)
    <3> DEFINE t == FinishInput(s)
    <3>1. st' = [st EXCEPT ![r] = t]
      BY <1>0, <2>3 DEF s
    <3>2. /\ RecordData(t) /\ SameOutput(s, t)
          /\ t.input = s.input /\ t.pendingInput = s.pendingInput
      BY <1>0, <2>3, ReadInputData
    <3> HIDE DEF t
    <3>3. InputSide(t, inputEnd'[r])
      BY <1>3, <2>1, <3>2 DEF InputSide
    <3>4. Counts(t, accepted'[r], taken'[r])
      BY <1>0, <2>1, <3>2 DEF Counts, SameOutput, Failed
    <3>5. Reserved("Changed", inputEnd'[r], "Open", 0)
      BY DEF Reserved
    <3> QED BY <1>1, <2>1, <2>3, <3>1, <3>2, <3>3, <3>4, <3>5, InputStepAfter DEF s
  <2> QED BY <1>9, <2>2, <2>3 DEF FinishSending, s
<1> QED BY <1>4, <1>5, <1>6, <1>7, <1>8, <1>9

\* The steps of the user of a request.
LEMMA UserAfter ==
  ASSUME LifecycleInv, Outcomes, DataInv, NEW r \in Requests, User(r)
  PROVE  DataAfter(r)
<1>0. /\ RequestData(r) /\ HasFields(st[r]) /\ RecordData(st[r]) /\ OutcomeInv(st[r])
      /\ st = [q \in Requests |-> st[q]] /\ RequestInv(r)
      /\ inputEnd \in [Requests -> {"None", "Open", "Sending", "Gone"}]
      /\ outputEnd \in [Requests -> {"None", "Receiving", "Ended", "Gone"}]
      /\ launch \in [Requests -> {"Idle", "Launching", "Started", "Refused"}]
  BY DataBefore
<1>1. {"input", "output", "control"} \subseteq Actor /\ "Cancelled" \in ErrorKind
  BY DEF Actor, ErrorKind
<1>2. CASE DropInput(r)
  <2>1. /\ FailRequest(r, "input", "Cancelled") /\ UNCHANGED << launch, writer, accepted, taken >>
        /\ inputEnd[r] = "Open" /\ inputEnd'[r] = "Gone"
    BY <1>0, <1>2 DEF DropInput, historyVars
  <2> QED BY <1>1, <2>1, FailAfter
<1>3. CASE DropOutput(r)
  <2>1. /\ FailRequest(r, "output", "Cancelled")
        /\ UNCHANGED << launch, inputEnd, writer, accepted, taken >>
    BY <1>3 DEF DropOutput, historyVars
  <2> QED BY <1>1, <2>1, FailAfter
<1>4. CASE Cancel(r)
  <2>1. /\ FailRequest(r, "control", "Cancelled")
        /\ UNCHANGED << launch, inputEnd, writer, accepted, taken >>
    BY <1>4 DEF Cancel, endVars, historyVars
  <2> QED BY <1>1, <2>1, FailAfter
<1>5. CASE Receive(r)
  <2>1. UNCHANGED << launch, inputEnd, writer, accepted, taken >> /\ outputEnd[r] = "Receiving"
    BY <1>5 DEF Receive, historyVars
  <2>2. OutputSide(st[r], writer'[r])
    BY <1>0, <2>1 DEF RequestData
  <2>3. CASE /\ Failed(st[r]) \/ st[r].output = << >>
             /\ st' = [st EXCEPT ![r] = ConsumeTerminal(@)]
             /\ Continue(r, "output", "Changed", 0)
    <3> DEFINE t == ConsumeTerminal(st[r])
    <3>1. st' = [st EXCEPT ![r] = t]
      BY <1>0, <2>3
    <3>2. /\ RecordData(t) /\ t.outcome = st[r].outcome
          /\ t.input = st[r].input /\ t.pendingInput = st[r].pendingInput
          /\ t.inputPhase = st[r].inputPhase /\ t.pendingOutput = st[r].pendingOutput
      BY <1>0, <2>3, ReceiveData
    <3> HIDE DEF t
    <3>3. OutputSide(t, writer'[r])
      BY <2>2, <3>2 DEF OutputSide, Failed
    <3> QED BY <2>1, <2>3, <3>1, <3>2, <3>3, OutputStepAfter
  <2>4. CASE /\ ~Failed(st[r]) /\ st[r].output # << >>
             /\ st' = [st EXCEPT ![r] = PopOutput(@)]
             /\ Continue(r, "output", "Changed", Head(st[r].output).bytes)
    <3> DEFINE t == PopOutput(st[r])
               b == Head(st[r].output).bytes
    <3>1. st' = [st EXCEPT ![r] = t]
      BY <1>0, <2>4
    <3>2. RecordData(t) /\ SameInput(st[r], t) /\ t.pendingOutput = st[r].pendingOutput
      BY <1>0, <2>4, ReceiveData
    <3>3. Continue(r, "output", "Changed", b)
      BY <2>4
    <3> HIDE DEF t, b
    <3>4. OutputSide(t, writer'[r])
      BY <2>2, <3>2 DEF OutputSide, Failed, SameInput
    <3> QED BY <2>1, <3>1, <3>2, <3>3, <3>4, OutputStepAfter DEF SameInput
  <2> QED BY <1>5, <2>3, <2>4 DEF Receive
<1> QED BY <1>2, <1>3, <1>4, <1>5, SendAfter DEF User

\* The steps of the backend of a request.
LEMMA BackendAfter ==
  ASSUME LifecycleInv, Outcomes, DataInv, NEW r \in Requests, Backend(r)
  PROVE  DataAfter(r)
<1> DEFINE s == st[r]
<1>0. /\ Shape /\ Ledger /\ RequestData(r) /\ HasFields(s) /\ RecordData(s) /\ OutcomeInv(s)
      /\ st = [q \in Requests |-> st[q]] /\ st = [st EXCEPT ![r] = s]
      /\ InputSide(s, inputEnd[r]) /\ OutputSide(s, writer[r])
      /\ Counts(s, accepted[r], taken[r]) /\ accepted[r] \in Nat /\ taken[r] \in Nat
      /\ Reserved(pc[r]["writer"], writer[r], "Idle", hold[r]["writer"])
      /\ Handles(launch[r], inputEnd[r], writer[r])
      /\ writer \in [Requests -> {"Idle", "Emitting", "Gone"}]
      /\ taken \in [Requests -> Nat]
      /\ pc \in [Requests -> [Actor -> Continuations]]
  BY DataBefore DEF RequestData, Ledger, Shape
<1>1. {"writer", "reader", "guard"} \subseteq Actor /\ "Backend" \in ErrorKind
  BY DEF Actor, ErrorKind
<1> HIDE DEF s
<1>2. CASE ReadInput(r)
  <2>1. /\ Continue(r, "reader", "Changed", 0) /\ ~Failed(s) /\ launch[r] = "Started"
        /\ UNCHANGED << launch, inputEnd, writer, accepted >>
    BY <1>2 DEF ReadInput, s
  <2>2. CASE s.input # << >> /\ st' = [st EXCEPT ![r] = PopInput(@)] /\ taken' = [taken EXCEPT ![r] = @ + 1]
    <3> DEFINE t == PopInput(s)
    <3>1. st' = [st EXCEPT ![r] = t] /\ taken'[r] = taken[r] + 1
      BY <1>0, <2>2 DEF s
    <3>2. /\ RecordData(t) /\ SameOutput(s, t)
          /\ Len(t.input) = Len(s.input) - 1 /\ Len(s.input) \in Nat \ {0}
          /\ t.pendingInput = s.pendingInput /\ t.inputPhase = s.inputPhase
      BY <1>0, <2>1, <2>2, ReadInputData
    <3> HIDE DEF t
    <3>3. InputSide(t, inputEnd'[r])
      BY <1>0, <2>1, <3>2 DEF InputSide, SameOutput, Failed
    <3>4. Counts(t, accepted'[r], taken'[r])
      BY <1>0, <2>1, <3>1, <3>2 DEF Counts, SameOutput, Failed
    <3> QED BY <2>1, <3>1, <3>2, <3>3, <3>4, InputStepAfter DEF s
  <2>3. CASE AtEof(s) /\ st' = [st EXCEPT ![r] = ObserveEof(@)] /\ UNCHANGED taken
    <3> DEFINE t == ObserveEof(s)
    <3>1. st' = [st EXCEPT ![r] = t]
      BY <1>0, <2>3 DEF s
    <3>2. /\ RecordData(t) /\ SameOutput(s, t)
          /\ t.input = s.input /\ t.pendingInput = s.pendingInput
          /\ t.inputPhase = "EofObserved" /\ s.inputPhase # "Open"
      BY <1>0, <2>1, <2>3, ReadInputData
    <3> HIDE DEF t
    <3>3. InputSide(t, inputEnd'[r])
      BY <1>0, <2>1, <3>2 DEF InputSide, SameOutput, Failed
    <3>4. Counts(t, accepted'[r], taken'[r])
      BY <1>0, <2>1, <2>3, <3>2 DEF Counts, SameOutput, Failed
    <3> QED BY <2>1, <3>1, <3>2, <3>3, <3>4, InputStepAfter DEF s
  <2> QED BY <1>2, <2>2, <2>3 DEF ReadInput, s
<1>3. CASE ReleasePacket(r)
  <2>1. UNCHANGED << st, launch, inputEnd, writer, pc, hold, accepted, taken >>
    BY <1>3 DEF ReleasePacket, historyVars
  <2> QED BY <1>0, <2>1 DEF DataAfter, RequestData
<1>4. ASSUME NEW b \in ItemBytes, EmitReserve(r, b) PROVE DataAfter(r)
  <2>1. /\ Continue(r, "writer", "Stage", b) /\ writer[r] = "Idle"
        /\ UNCHANGED << st, launch, writer, inputEnd, accepted, taken >>
    BY <1>4 DEF EmitReserve, endVars, historyVars
  <2>2. Reserved("Stage", writer'[r], "Idle", b) /\ OutputSide(s, writer'[r]) /\ launch[r] = "Started"
    BY <1>0, <2>1 DEF Reserved, Handles
  <2> QED BY <1>0, <2>1, <2>2, OutputStepAfter DEF s
<1>5. ASSUME NEW b \in ItemBytes, EmitOverBudget(r, b) PROVE DataAfter(r)
  <2>1. /\ FailRequest(r, "writer", "Backend")
        /\ UNCHANGED << launch, inputEnd, writer, accepted, taken >>
    BY <1>5 DEF EmitOverBudget, endVars, historyVars
  <2> QED BY <1>1, <2>1, FailAfter
<1>6. ASSUME NEW finished \in BOOLEAN, EmitStage(r, finished) PROVE DataAfter(r)
  <2>1. /\ writer[r] = "Idle" /\ hold[r]["writer"] \in ItemBytes /\ launch[r] = "Started"
        /\ UNCHANGED << launch, inputEnd, accepted, taken >>
    BY <1>0, <1>6 DEF EmitStage, Reserved, Handles, historyVars
  <2>2. CASE /\ OutputStageable(s, finished)
             /\ st' = [st EXCEPT ![r] = StageOutput(@, finished, hold[r]["writer"])]
             /\ writer' = [writer EXCEPT ![r] = "Emitting"]
             /\ Continue(r, "writer", "Idle", 0)
    <3> DEFINE t == StageOutput(s, finished, hold[r]["writer"])
    <3>1. st' = [st EXCEPT ![r] = t] /\ writer'[r] = "Emitting"
      BY <1>0, <2>2 DEF s
    <3>2. s.pendingOutput = NoEvent
      BY <1>0, <2>1 DEF OutputSide
    <3>3. RecordData(t) /\ SameInput(s, t) /\ t.pendingOutput # NoEvent
      BY <1>0, <2>1, <2>2, <3>2, ItemsAreBytes, StageOutputData
    <3> HIDE DEF t
    <3>4. OutputSide(t, writer'[r]) /\ Reserved("Idle", writer'[r], "Idle", 0)
      BY <3>1, <3>3 DEF OutputSide, Reserved
    <3> QED BY <2>1, <2>2, <3>1, <3>3, <3>4, OutputStepAfter DEF SameInput, s
  <2>3. CASE Continue(r, "writer", "Reject", hold[r]["writer"]) /\ UNCHANGED << st, writer >>
    <3>1. OutputSide(s, writer'[r]) /\ Reserved("Reject", writer'[r], "Idle", hold[r]["writer"])
      BY <1>0, <2>3 DEF Reserved
    <3> QED BY <1>0, <2>1, <2>3, <3>1, OutputStepAfter DEF s
  <2> QED BY <1>6, <2>2, <2>3 DEF EmitStage, s
<1>7. CASE EmitRejected(r)
  <2>1. /\ FailRequest(r, "writer", "Backend")
        /\ UNCHANGED << launch, inputEnd, writer, accepted, taken >>
    BY <1>7 DEF EmitRejected, endVars, historyVars
  <2> QED BY <1>1, <2>1, FailAfter
<1>8. CASE PollEmit(r)
  <2>1. /\ writer[r] = "Emitting" /\ writer'[r] = "Idle" /\ launch[r] = "Started"
        /\ Continue(r, "writer", "Changed", 0)
        /\ UNCHANGED << launch, inputEnd, accepted, taken >>
    BY <1>0, <1>8 DEF PollEmit, historyVars, Handles
  <2>2. Reserved("Changed", writer'[r], "Idle", 0)
    BY DEF Reserved
  <2>3. CASE Failed(s) /\ UNCHANGED st
    <3>1. OutputSide(s, writer'[r])
      BY <1>0, <2>1, <2>3 DEF OutputSide, RecordData, EndsEmpty
    <3> QED BY <1>0, <2>1, <2>2, <2>3, <3>1, OutputStepAfter DEF s
  <2>4. CASE ~Failed(s) /\ st' = [st EXCEPT ![r] = AcceptOutput(@)]
    <3> DEFINE t == AcceptOutput(s)
    <3>1. st' = [st EXCEPT ![r] = t]
      BY <1>0, <2>4 DEF s
    <3>2. s.pendingOutput # NoEvent
      BY <1>0, <2>1, <2>4 DEF OutputSide
    <3>3. RecordData(t) /\ SameInput(s, t) /\ t.pendingOutput = NoEvent
      BY <1>0, <2>4, <3>2, AcceptOutputData
    <3> HIDE DEF t
    <3>4. OutputSide(t, writer'[r])
      BY <2>1, <3>3 DEF OutputSide
    <3> QED BY <2>1, <2>2, <3>1, <3>3, <3>4, OutputStepAfter DEF SameInput, s
  <2> QED BY <1>8, <2>3, <2>4 DEF PollEmit, s
<1>9. CASE DropEmit(r)
  <2>1. /\ FailRequest(r, "writer", "Backend") /\ writer[r] = "Emitting" /\ writer'[r] = "Idle"
        /\ UNCHANGED << launch, inputEnd, accepted, taken >>
    BY <1>0, <1>9 DEF DropEmit, historyVars
  <2> QED BY <1>1, <2>1, FailAfter
<1>10. CASE BackendFail(r)
  <2>1. /\ FailRequest(r, "writer", "Backend")
        /\ UNCHANGED << launch, inputEnd, writer, accepted, taken >>
    BY <1>10 DEF BackendFail, endVars, historyVars
  <2> QED BY <1>1, <2>1, FailAfter
<1>11. ASSUME NEW result \in Result, GuardFinish(r, result) PROVE DataAfter(r)
  <2>1. /\ UNCHANGED << st, launch, inputEnd, writer, hold, accepted, taken >>
        /\ pc'[r]["input"] = pc[r]["input"] /\ pc'[r]["writer"] = pc[r]["writer"]
    BY <1>0, <1>11 DEF GuardFinish, historyVars, Actor
  <2> QED BY <1>0, <2>1 DEF DataAfter, RequestData
<1>12. CASE Close(r)
  <2> DEFINE t == CompleteCleanup(s, pc[r]["guard"])
             b == DiscardedByCleanup(s, pc[r]["guard"])
  <2>1. /\ pc[r]["guard"] \in Result /\ Transition(r, "guard", t, b)
        /\ UNCHANGED << launch, inputEnd, writer, accepted, taken >>
    BY <1>12 DEF Close, endVars, historyVars, s
  <2>2. Ends(s, t)
    BY <1>0, <2>1, CleanupData
  <2> HIDE DEF t, b
  <2> QED BY <1>1, <2>1, <2>2, EndingAfter DEF s
<1> QED BY <1>2, <1>3, <1>4, <1>5, <1>6, <1>7, <1>8, <1>9, <1>10, <1>11, <1>12 DEF Backend

\* With an empty queue only the staged event is left.
LEMMA OneQueued ==
  ASSUME NEW s, DataTypes(s), s.output = << >>
  PROVE  Len(Queued(s)) = 1 /\ Queued(s)[1] = s.pendingOutput
<1>1. Len(s.output) = 0
  BY EmptySeq
<1>2. Len(Queued(s)) = Len(s.output) + 1 /\ Queued(s)[Len(s.output) + 1] = s.pendingOutput
  BY QueuedFacts
<1> QED BY <1>1, <1>2

\* A client without requests has no chunks and no events.
LEMMA InitData == Init => DataInv
<1> SUFFICES ASSUME Init PROVE DataInv
  OBVIOUS
<1>1. Ledger
  BY DEF Init, Ledger
<1>2. ASSUME NEW r \in Requests PROVE RequestData(r)
  <2>1. DataTypes(Fresh)
    <3>1. << >> \in Seq(Nat \ {0}) /\ << >> \in Seq(Event)
      BY EmptySeq
    <3> QED BY <3>1 DEF DataTypes, Fresh, NoChunk
  <2>2. EndsEmpty(Fresh)
    BY DEF EndsEmpty, Fresh, Failed, ErrorKind
  <2>3. InOrder(Fresh)
    <3>1. Fresh.output = << >> /\ Fresh.pendingOutput = NoEvent
      BY DEF Fresh
    <3>2. Len(Queued(Fresh)) = 1 /\ Queued(Fresh)[1] = NoEvent
      BY <2>1, <3>1, OneQueued
    <3>3. Covers(Queued(Fresh), 0, 0)
      BY <3>2 DEF Covers, NoEvent
    <3>4. Fresh.delivered = 0 /\ Fresh.received = 0
      BY DEF Fresh
    <3> QED BY <3>3, <3>4 DEF InOrder
  <2>4. Len(Fresh.input) = 0
    BY DEF Fresh
  <2>5. RecordData(st[r])
    BY <2>1, <2>2, <2>3 DEF Init, RecordData
  <2>6. /\ InputSide(st[r], inputEnd[r]) /\ OutputSide(st[r], writer[r])
        /\ Counts(st[r], accepted[r], taken[r]) /\ Handles(launch[r], inputEnd[r], writer[r])
        /\ Reserved(pc[r]["input"], inputEnd[r], "Open", hold[r]["input"])
        /\ Reserved(pc[r]["writer"], writer[r], "Idle", hold[r]["writer"])
    BY <2>4 DEF Init, Fresh, InputSide, OutputSide, Counts, Handles, Reserved, Actor
  <2> QED BY <2>5, <2>6 DEF RequestData
<1> QED BY <1>1, <1>2 DEF DataInv

\* Every step keeps it.
LEMMA StepData == LifecycleInv /\ Outcomes /\ DataInv /\ [Next]_vars => DataInv'
<1> SUFFICES ASSUME LifecycleInv, Outcomes, DataInv, [Next]_vars PROVE DataInv'
  OBVIOUS
<1>0. Shape /\ Ledger
  BY DEF LifecycleInv, DataInv
<1>1. ASSUME UNCHANGED << st, launch, inputEnd, packet, writer, pc, hold, accepted, taken >> PROVE DataInv'
  <2>1. Ledger'
    BY <1>0, <1>1 DEF Ledger
  <2>2. ASSUME NEW q \in Requests PROVE RequestData(q)'
    BY <1>1 DEF DataInv, RequestData
  <2> QED BY <2>1, <2>2 DEF DataInv
<1>2. ASSUME NEW r \in Requests, RequestStep(r) PROVE DataInv'
  <2>1. /\ \A q \in Requests \ {r} : Unmoved(q)
        /\ packet' = [q \in Requests |-> packet'[q]]
        /\ hold' = [q \in Requests |-> [a \in Actor |-> hold'[q][a]]]
        /\ accepted' \in [Requests -> Nat] /\ taken' \in [Requests -> Nat]
    BY <1>0, <1>2, OneRequest
  <2>2. Ledger'
    BY <2>1 DEF Ledger
  <2>3. DataAfter(r)
    <3>1. ASSUME NEW a \in Actor, NEW error \in ErrorKind, FailRequest(r, a, error),
                 UNCHANGED << launch, inputEnd, writer, accepted, taken >>
          PROVE  DataAfter(r)
      BY <3>1, FailAfter
    <3>2. CASE Expire(r)
      BY <3>1, <3>2 DEF Expire, endVars, historyVars, Actor, ErrorKind
    <3>3. CASE ShutdownFail(r)
      BY <3>1, <3>3 DEF ShutdownFail, endVars, historyVars, Actor, ErrorKind
    <3> QED BY <1>2, <3>2, <3>3, StartAfter, ContinuationAfter, UserAfter, BackendAfter DEF RequestStep
  <2>4. ASSUME NEW q \in Requests PROVE RequestData(q)'
    <3>1. CASE q = r
      BY <2>3, <3>1 DEF DataAfter, RequestData
    <3>2. CASE q # r
      BY <2>1, <3>2 DEF Unmoved, DataInv, RequestData
    <3> QED BY <3>1, <3>2
  <2> QED BY <2>2, <2>4 DEF DataInv
<1>3. CASE BeginShutdown \/ ShutdownDriver \/ \E result \in Result : DriverFinish(result)
  BY <1>1, <1>3 DEF BeginShutdown, ShutdownDriver, DriverFinish, endVars, historyVars
<1>4. CASE UNCHANGED vars
  BY <1>1, <1>4 DEF vars, endVars, historyVars
<1> QED BY <1>2, <1>3, <1>4 DEF Next, Shutdown, RequestStep

\* Chunks and events are accounted for.
LEMMA DataHolds == Spec => []DataInv
<1> QED BY InitData, StepData, LifecycleInvariant, OutcomesHold, PTL DEF Spec

-----------------------------------------------------------------------------
(* The two properties.                                                     *)

\* For any number of requests: until a failure, the events a user has not yet
\* received are queued in the order the backend staged them, with no gap.
THEOREM EventsInOrder == Spec => []OutputInOrder
<1>1. DataInv => OutputInOrder
  <2> SUFFICES ASSUME DataInv, NEW r \in Requests, ~Failed(st[r])
               PROVE  LET queued   == Append(st[r].output, st[r].pendingOutput)
                          numbered == {i \in DOMAIN queued : queued[i].n # 0}
                      IN  /\ st[r].delivered <= st[r].received
                          /\ {queued[i].n : i \in numbered} = st[r].delivered + 1 .. st[r].received
                          /\ \A i, j \in numbered : i < j => queued[i].n < queued[j].n
    BY DEF OutputInOrder
  <2> DEFINE queued   == Append(st[r].output, st[r].pendingOutput)
             numbered == {i \in DOMAIN queued : queued[i].n # 0}
             d == st[r].delivered
             e == st[r].received
  <2>1. /\ Covers(queued, d, e) /\ d \in Nat /\ e \in Nat
        /\ queued \in Seq([n : Nat, bytes : Nat])
    BY QueuedFacts DEF DataInv, RequestData, RecordData, DataTypes, InOrder, Queued
  <2> HIDE DEF queued, d, e
  <2>2. DOMAIN queued = 1 .. Len(queued)
    BY <2>1, LenProperties
  <2>3. \A i : i \in numbered <=> i \in 1 .. Len(queued) /\ queued[i].n # 0
    BY <2>2
  <2> HIDE DEF numbered
  <2>4. \A i \in numbered : queued[i].n \in d + 1 .. e
    BY <2>1, <2>3 DEF Covers
  <2>5. \A k \in d + 1 .. e : \E i \in numbered : queued[i].n = k
    <3> SUFFICES ASSUME NEW k \in d + 1 .. e PROVE \E i \in numbered : queued[i].n = k
      OBVIOUS
    <3>1. PICK i \in 1 .. Len(queued) : queued[i].n = k
      BY <2>1 DEF Covers
    <3>2. k # 0
      BY <2>1
    <3> QED BY <3>1, <3>2, <2>3
  <2>6. {queued[i].n : i \in numbered} = d + 1 .. e
    BY <2>4, <2>5
  <2>7. \A i, j \in numbered : i < j => queued[i].n < queued[j].n
    BY <2>1, <2>3 DEF Covers
  <2> QED BY <2>1, <2>6, <2>7 DEF Covers, queued, numbered, d, e
<1> QED BY <1>1, DataHolds, PTL

\* For any number of requests: a user who receives Completed has received every
\* event, and the backend has taken every chunk and seen the end of input.
THEOREM CompletedMeansComplete == Spec => []CompletedIsComplete
<1>1. LifecycleInv /\ Outcomes /\ DataInv => CompletedIsComplete
  <2> SUFFICES ASSUME LifecycleInv, Outcomes, DataInv, NEW r \in Requests,
                      outputEnd[r] = "Ended", ~Failed(st[r])
               PROVE  /\ st[r].delivered = st[r].received
                      /\ st[r].pendingOutput = NoEvent
                      /\ taken[r] = accepted[r] /\ inputEnd[r] = "Gone"
                      /\ st[r].inputPhase = "EofObserved"
                      /\ st[r].cleanup = "Ok"
    BY DEF CompletedIsComplete
  <2> DEFINE s == st[r]
  <2>0. /\ RequestInv(r) /\ OutcomeInv(s) /\ RecordData(s) /\ RequestData(r)
        /\ accepted[r] \in Nat /\ taken[r] \in Nat
    BY DataBefore
  <2>1. s.delivery = "TerminalConsumed"
    BY <2>0 DEF RequestInv, ConsumedByOutput
  <2>2. s.outcome = "Success" /\ s.cleanup = "Ok"
    BY <2>0, <2>1 DEF OutcomeInv, Failed
  <2>3. /\ s.inputPhase = "EofObserved" /\ s.pendingOutput = NoEvent
        /\ s.input = << >> /\ s.output = << >>
    BY <2>0, <2>1, <2>2 DEF RecordData, EndsEmpty
  <2>4. taken[r] = accepted[r] /\ inputEnd[r] = "Gone"
    BY <2>0, <2>3 DEF RequestData, InputSide, Counts
  <2>5. s.delivered = s.received
    <3>1. DataTypes(s) /\ Covers(Queued(s), s.delivered, s.received)
      BY <2>0 DEF RecordData, InOrder
    <3>2. s.delivered \in Nat /\ s.received \in Nat
      BY <3>1 DEF DataTypes
    <3>3. Len(Queued(s)) = 1 /\ Queued(s)[1] = NoEvent
      BY <2>3, <3>1, OneQueued
    <3>4. ASSUME s.delivered < s.received PROVE FALSE
      <4>1. s.delivered + 1 \in s.delivered + 1 .. s.received
        BY <3>2, <3>4
      <4>2. PICK i \in 1 .. Len(Queued(s)) : Queued(s)[i].n = s.delivered + 1
        BY <3>1, <4>1 DEF Covers
      <4>3. i = 1
        BY <3>3
      <4> QED BY <3>2, <3>3, <4>2, <4>3 DEF NoEvent
    <3> QED BY <3>1, <3>2, <3>4 DEF Covers
  <2> QED BY <2>2, <2>3, <2>4, <2>5
<1> QED BY <1>1, DataHolds, LifecycleInvariant, OutcomesHold, PTL
=============================================================================
