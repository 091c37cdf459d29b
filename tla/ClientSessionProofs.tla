------------------------ MODULE ClientSessionProofs ------------------------
(***************************************************************************)
(* Proofs about ClientSession for any set of requests, any limits and any  *)
(* charges: when a request leaves the registry, what the driver finds when *)
(* it is told to shut down, and that a completed shutdown is final.        *)
(*                                                                         *)
(* All three rest on one inductive invariant, LifecycleInv, about the      *)
(* fields of a request that record how it ends.  The queues and the        *)
(* storage budget do not occur in it.                                      *)
(***************************************************************************)
EXTENDS ClientSession, TLAPS

Fields == DOMAIN Fresh

\* A state is a record with the fields of State.
HasFields(s) == s = [f \in Fields |-> s[f]]

\* The part of the type invariant the proofs need.
Shape ==
  /\ registered \subseteq Requests
  /\ toFail \subseteq Requests
  /\ shutdown \in {"None", "Failing", "Driver", "Done"}
  /\ st = [r \in Requests |-> st[r]]
  /\ \A r \in Requests : HasFields(st[r])
  /\ launch \in [Requests -> {"Idle", "Launching", "Started", "Refused"}]
  /\ inputEnd \in [Requests -> {"None", "Open", "Sending", "Gone"}]
  /\ outputEnd \in [Requests -> {"None", "Receiving", "Ended", "Gone"}]
  /\ writer \in [Requests -> {"Idle", "Emitting", "Gone"}]
  /\ guard \in [Requests -> {"None", "Held", "Done"}]
  /\ pc \in [Requests -> [Actor -> Continuations]]

\* A request that was never started: no handle of it exists.
Untouched(r) ==
  launch[r] = "Idle" =>
    /\ r \notin registered /\ r \notin toFail
    /\ inputEnd[r] = "None" /\ outputEnd[r] = "None"
    /\ writer[r] = "Gone" /\ guard[r] = "None"
    /\ \A a \in Actor : pc[r][a] = "Idle"
    /\ st[r].registration = "Registered" /\ st[r].cleanup = "Pending"

\* Handles are given out by a successful launch only.
Unlaunched(r) ==
  launch[r] = "Launching" => guard[r] = "Held" /\ outputEnd[r] = "None"

\* The guard acknowledges cleanup once, after it is gone.
GuardOnce(r) ==
  /\ guard[r] # "Done" => pc[r]["guard"] = "Idle"
  /\ st[r].cleanup # "Pending" => guard[r] = "Done" /\ pc[r]["guard"] \notin Result
  /\ \A a \in Actor \ {"guard"} : pc[r][a] \notin Result

\* The terminal is consumed by the receive that ends the output handle.
ConsumedByOutput(r) ==
  st[r].delivery = "TerminalConsumed" <=> outputEnd[r] = "Ended"

\* Retirement: decided once, after cleanup, and carried out by one actor.
RetiredOnce(r) ==
  /\ \A a, b \in Actor : pc[r][a] = "Remove" /\ pc[r][b] = "Remove" => a = b
  /\ \A a \in Actor : pc[r][a] = "Remove" => st[r].registration = "Retired" /\ r \in registered
  /\ launch[r] # "Idle" /\ st[r].registration # "Retired" => r \in registered
  /\ st[r].registration = "Retired" /\ r \in registered =>
       \E a \in Actor : pc[r][a] = "Remove"
  /\ st[r].registration \in {"Registered", "Retired"}
  /\ st[r].registration = "Retired" =>
       /\ st[r].cleanup # "Pending"
       /\ Failed(st[r]) \/ st[r].delivery = "TerminalConsumed"

\* The sweep of Core::begin_shutdown.
Sweep ==
  /\ shutdown = "None" <=> ~closing
  /\ driverClosed # "None" => closing
  /\ shutdown = "Failing" => \A r \in registered \ toFail : FailIgnored(st[r])
  /\ shutdown \in {"Driver", "Done"} => \A r \in registered : FailIgnored(st[r])

RequestInv(r) ==
  /\ Untouched(r) /\ Unlaunched(r) /\ GuardOnce(r)
  /\ ConsumedByOutput(r) /\ RetiredOnce(r)

LifecycleInv == Shape /\ Sweep /\ \A r \in Requests : RequestInv(r)

-----------------------------------------------------------------------------
(* What the methods of State do to the fields that record how a request    *)
(* ends.                                                                   *)

\* The fields of client/state.rs: State.
LEMMA FieldNames ==
  Fields = { "input", "pendingInput", "inputBytes", "output", "pendingOutput",
             "outputBytes", "inputPhase", "outcome", "cleanup", "delivery",
             "registration", "received", "delivered", "notice" }
BY DEF Fields, Fresh

\* t records the same outcome, cleanup, consumption and registration as s.
SameLife(s, t) ==
  /\ HasFields(t)
  /\ t.outcome = s.outcome /\ t.cleanup = s.cleanup
  /\ t.delivery = s.delivery /\ t.registration = s.registration

\* The methods of State that move chunks and events between the queues leave
\* the outcome, cleanup, delivery and registration alone.
LEMMA DataKeepsLife ==
  ASSUME NEW s, HasFields(s), NEW b, NEW finished
  PROVE  /\ SameLife(s, StageInput(s, b))
         /\ SameLife(s, EnqueueInput(s, b))
         /\ SameLife(s, AcceptInput(s))
         /\ SameLife(s, AbandonInput(s))
         /\ SameLife(s, FinishInput(s))
         /\ SameLife(s, PopInput(s))
         /\ SameLife(s, ObserveEof(s))
         /\ SameLife(s, StageOutput(s, finished, b))
         /\ SameLife(s, AcceptOutput(s))
         /\ SameLife(s, PopOutput(s))
<1> USE FieldNames DEF HasFields, SameLife
<1>1. SameLife(s, StageInput(s, b))
  BY DEF StageInput
<1>2. SameLife(s, EnqueueInput(s, b))
  BY DEF EnqueueInput
<1>3. SameLife(s, AcceptInput(s))
  BY DEF AcceptInput, EnqueueInput
<1>4. SameLife(s, AbandonInput(s))
  BY DEF AbandonInput
<1>5. SameLife(s, FinishInput(s))
  BY DEF FinishInput
<1>6. SameLife(s, PopInput(s))
  BY DEF PopInput
<1>7. SameLife(s, ObserveEof(s))
  BY DEF ObserveEof
<1>8. SameLife(s, StageOutput(s, finished, b))
  BY DEF StageOutput
<1>9. SameLife(s, AcceptOutput(s))
  BY DEF AcceptOutput
<1>10. SameLife(s, PopOutput(s))
  BY DEF PopOutput
<1> QED BY <1>1, <1>2, <1>3, <1>4, <1>5, <1>6, <1>7, <1>8, <1>9, <1>10

\* t is s after a failure, a cleanup acknowledgement or a retirement.
Moves(s, t) ==
  /\ HasFields(t)
  /\ t.delivery = s.delivery
  /\ Failed(s) => Failed(t)
  /\ s.cleanup # "Pending" => t.cleanup # "Pending"
  /\ t.registration # s.registration =>
       /\ s.registration = "Registered" /\ t.registration = "Retired"
       /\ t.cleanup # "Pending"
       /\ Failed(t) \/ t.delivery = "TerminalConsumed"

\* State::retire changes the registration only, and only when the request is
\* ready to leave.
LEMMA RetireFields ==
  ASSUME NEW s, HasFields(s)
  PROVE  /\ HasFields(Retire(s))
         /\ Retire(s).outcome = s.outcome /\ Retire(s).cleanup = s.cleanup
         /\ Retire(s).delivery = s.delivery
         /\ Retire(s).registration = IF RetireReady(s) THEN "Retired" ELSE s.registration
BY FieldNames DEF HasFields, Retire

\* State::retire never undoes a failure, a cleanup or a retirement.
LEMMA RetireMoves ==
  ASSUME NEW s, HasFields(s)
  PROVE  Moves(s, Retire(s)) /\ Retire(s).cleanup = s.cleanup
BY RetireFields DEF Moves, RetireReady, Failed

\* State::fail leaves a request that will ignore every later failure, and does
\* not acknowledge cleanup.
LEMMA FailMoves ==
  ASSUME NEW s, HasFields(s), NEW error \in ErrorKind
  PROVE  Moves(s, Fail(s, error)) /\ FailIgnored(Fail(s, error)) /\ Fail(s, error).cleanup = s.cleanup
<1>1. CASE FailIgnored(s)
  BY <1>1 DEF Fail, Moves
<1>2. CASE ~FailIgnored(s)
  <2> DEFINE e == [s EXCEPT !.outcome = error,
                        !.input = << >>, !.pendingInput = NoChunk, !.inputBytes = 0,
                        !.output = << >>, !.pendingOutput = NoEvent, !.outputBytes = 0]
  <2>1. /\ HasFields(e) /\ e.outcome = error
        /\ e.cleanup = s.cleanup /\ e.delivery = s.delivery
        /\ e.registration = s.registration
    BY FieldNames DEF HasFields
  <2>2. Fail(s, error) = Retire(e)
    BY <1>2 DEF Fail
  <2> HIDE DEF e
  <2>3. Moves(e, Retire(e)) /\ Retire(e).outcome = error /\ Retire(e).cleanup = s.cleanup
    BY <2>1, RetireMoves, RetireFields
  <2> QED BY <1>2, <2>1, <2>2, <2>3 DEF Moves, FailIgnored, Failed
<1> QED BY <1>1, <1>2

\* State::complete_cleanup always leaves cleanup acknowledged, and never undoes
\* a failure or a retirement.
LEMMA CleanupMoves ==
  ASSUME NEW s, HasFields(s), NEW result \in Result
  PROVE  /\ Moves(s, CompleteCleanup(s, result))
         /\ CompleteCleanup(s, result).cleanup # "Pending"
<1>1. CASE s.cleanup # "Pending"
  BY <1>1 DEF CompleteCleanup, Moves
<1>2. CASE s.cleanup = "Pending"
  <2> DEFINE error == CleanupError(s, result)
             f == IF error = "None" THEN s ELSE Fail(s, error)
             c == [f EXCEPT !.cleanup = IF Failed(f) THEN f.outcome ELSE "Ok",
                            !.outcome = IF Failed(f) THEN @ ELSE "Success"]
  <2>1. CompleteCleanup(s, result) = Retire(c)
    BY <1>2 DEF CompleteCleanup
  <2>2. error \in {"None"} \cup ErrorKind
    BY DEF CleanupError, Result, ErrorKind
  <2>3. Moves(s, f) /\ f.cleanup = "Pending"
    BY <1>2, <2>2, FailMoves DEF Moves
  <2>4. f.registration = s.registration
    BY <1>2, <2>3 DEF Moves
  <2> HIDE DEF f
  <2>5. /\ HasFields(c) /\ c.delivery = s.delivery /\ c.registration = s.registration
        /\ c.cleanup # "Pending"
        /\ Failed(f) => Failed(c)
    <3>1. HasFields(f)
      BY <2>3 DEF Moves
    <3> QED BY <2>3, <2>4, <3>1, FieldNames DEF HasFields, Moves, Failed, ErrorKind
  <2> HIDE DEF c
  <2>6. Moves(c, Retire(c)) /\ Retire(c).cleanup # "Pending"
    BY <2>5, RetireMoves
  <2> QED BY <2>1, <2>3, <2>4, <2>5, <2>6 DEF Moves
<1> QED BY <1>1, <1>2

-----------------------------------------------------------------------------
(* The invariant holds initially, and steps that do not end a request keep  *)
(* it.                                                                     *)

\* The variables that occur in LifecycleInv.
lifeVars == << closing, driverClosed, registered, shutdown, toFail, st, launch,
               inputEnd, outputEnd, writer, guard, pc >>

\* A client without requests satisfies the invariant.
LEMMA InitLife == Init => LifecycleInv
<1> SUFFICES ASSUME Init PROVE LifecycleInv
  OBVIOUS
<1>1. Shape
  BY FieldNames DEF Init, Shape, HasFields, Fresh, Actor, Continuations, Result
<1>2. Sweep
  BY DEF Init, Sweep
<1>3. ASSUME NEW r \in Requests PROVE RequestInv(r)
  BY DEF Init, RequestInv, Untouched, Unlaunched, GuardOnce, ConsumedByOutput, RetiredOnce,
         Fresh, Actor, Result
<1> QED BY <1>1, <1>2, <1>3 DEF LifecycleInv

\* A step that only moves storage leases keeps the invariant.
LEMMA StutterLife == LifecycleInv /\ UNCHANGED lifeVars => LifecycleInv'
<1> SUFFICES ASSUME LifecycleInv, UNCHANGED lifeVars PROVE LifecycleInv'
  OBVIOUS
<1>1. Shape'
  BY DEF LifecycleInv, lifeVars, Shape, HasFields
<1>2. Sweep'
  BY DEF LifecycleInv, lifeVars, Sweep, Failed, FailIgnored
<1>3. ASSUME NEW r \in Requests PROVE RequestInv(r)'
  BY DEF LifecycleInv, lifeVars, RequestInv, Untouched, Unlaunched, GuardOnce,
         ConsumedByOutput, RetiredOnce, Failed
<1> QED BY <1>1, <1>2, <1>3 DEF LifecycleInv

\* Nothing about request q changes.
Untaken(q) ==
  /\ st'[q] = st[q] /\ launch'[q] = launch[q] /\ inputEnd'[q] = inputEnd[q]
  /\ outputEnd'[q] = outputEnd[q] /\ writer'[q] = writer[q] /\ guard'[q] = guard[q]
  /\ pc'[q] = pc[q]
  /\ q \in registered' <=> q \in registered
  /\ q \in toFail' => q \in toFail

\* A critical section of one request lock keeps the invariant of the others.
LEMMA OtherRequest ==
  ASSUME NEW q \in Requests, RequestInv(q), Untaken(q)
  PROVE  RequestInv(q)'
BY DEF Untaken, RequestInv, Untouched, Unlaunched, GuardOnce, ConsumedByOutput, RetiredOnce,
       Failed

\* A step of actor a on request r that leaves the fields of SameLife alone.
Quiet(r, a) ==
  /\ launch[r] # "Idle"
  /\ UNCHANGED << closing, driverClosed, registered, shutdown, toFail, launch, outputEnd, guard >>
  /\ inputEnd' \in [Requests -> {"None", "Open", "Sending", "Gone"}]
  /\ writer' \in [Requests -> {"Idle", "Emitting", "Gone"}]
  /\ \A q \in Requests \ {r} : inputEnd'[q] = inputEnd[q] /\ writer'[q] = writer[q]
  /\ pc[r][a] \notin {"Remove"} \cup Result
  /\ \E next \in Continuations \ ({"Remove"} \cup Result) : pc' = [pc EXCEPT ![r][a] = next]
  /\ \E t : SameLife(st[r], t) /\ st' = [st EXCEPT ![r] = t]

\* Moving chunks and events, with the lock or after it, keeps the invariant.
LEMMA QuietLife ==
  ASSUME LifecycleInv, NEW r \in Requests, NEW a \in Actor, Quiet(r, a),
         a # "guard" \/ guard[r] = "Done"
  PROVE  LifecycleInv'
<1>1. PICK t : SameLife(st[r], t) /\ st' = [st EXCEPT ![r] = t]
  BY DEF Quiet
<1>2. PICK next \in Continuations \ ({"Remove"} \cup Result) : pc' = [pc EXCEPT ![r][a] = next]
  BY DEF Quiet
<1>3. /\ st'[r] = t
      /\ \A q \in Requests \ {r} : st'[q] = st[q] /\ pc'[q] = pc[q]
      /\ pc'[r][a] = next
      /\ \A b \in Actor \ {a} : pc'[r][b] = pc[r][b]
  BY <1>1, <1>2 DEF LifecycleInv, Shape
<1>4. Shape'
  <2>1. st' = [q \in Requests |-> st'[q]]
    <3>1. st = [q \in Requests |-> st[q]]
      BY DEF LifecycleInv, Shape
    <3> QED BY <3>1, <1>1
  <2>3. \A q \in Requests : HasFields(st'[q])
    BY <1>1, <1>3 DEF LifecycleInv, Shape, SameLife
  <2>2. pc' \in [Requests -> [Actor -> Continuations]]
    BY <1>2 DEF LifecycleInv, Shape
  <2> QED BY <2>1, <2>2, <2>3 DEF Quiet, LifecycleInv, Shape, HasFields
<1>5. Sweep'
  <2>1. \A q \in Requests : FailIgnored(st[q]) => FailIgnored(st'[q])
    BY <1>1, <1>3 DEF SameLife, FailIgnored, Failed
  <2>2. registered \subseteq Requests
    BY DEF LifecycleInv, Shape
  <2>3. Sweep
    BY DEF LifecycleInv
  <2>4. UNCHANGED << closing, driverClosed, registered, shutdown, toFail >>
    BY DEF Quiet
  <2> QED BY <2>1, <2>2, <2>3, <2>4 DEF Sweep, FailIgnored, Failed
<1>6. ASSUME NEW q \in Requests PROVE RequestInv(q)'
  <2>1. CASE q # r
    BY <2>1, <1>3, OtherRequest DEF Untaken, Quiet, LifecycleInv
  <2>2. CASE q = r
    <3>1. RequestInv(r)
      BY DEF LifecycleInv
    <3>2. Untouched(r)' /\ Unlaunched(r)'
      BY <3>1, <1>3 DEF Quiet, RequestInv, Untouched, Unlaunched
    <3>3. GuardOnce(r)'
      BY <3>1, <1>1, <1>3 DEF Quiet, RequestInv, GuardOnce, SameLife, Actor
    <3>4. ConsumedByOutput(r)'
      BY <3>1, <1>1, <1>3 DEF Quiet, RequestInv, ConsumedByOutput, SameLife
    <3>5. RetiredOnce(r)'
      BY <3>1, <1>1, <1>3 DEF Quiet, RequestInv, RetiredOnce, SameLife, Failed
    <3> QED BY <2>2, <3>2, <3>3, <3>4, <3>5 DEF RequestInv
  <2> QED BY <2>1, <2>2
<1> QED BY <1>4, <1>5, <1>6 DEF LifecycleInv

-----------------------------------------------------------------------------
(* Steps that end a request.                                               *)

\* A step of actor a on request r through a failure, cleanup or retirement.
Moving(r, a) ==
  /\ launch[r] # "Idle"
  /\ UNCHANGED << closing, driverClosed, registered, shutdown, launch, guard >>
  /\ inputEnd' \in [Requests -> {"None", "Open", "Sending", "Gone"}]
  /\ outputEnd' \in [Requests -> {"None", "Receiving", "Ended", "Gone"}]
  /\ writer' \in [Requests -> {"Idle", "Emitting", "Gone"}]
  /\ \A q \in Requests \ {r} :
       /\ inputEnd'[q] = inputEnd[q] /\ outputEnd'[q] = outputEnd[q]
       /\ writer'[q] = writer[q]
  /\ outputEnd'[r] = outputEnd[r] \/ (outputEnd[r] = "Receiving" /\ outputEnd'[r] = "Gone")
  /\ toFail' \subseteq toFail
  /\ \A q \in toFail \ toFail' : FailIgnored(st'[q])
  /\ pc[r][a] # "Remove"
  /\ a = "guard" => pc[r][a] # "Idle"
  /\ \E t :
       /\ Moves(st[r], t) /\ st' = [st EXCEPT ![r] = t]
       /\ t.cleanup # st[r].cleanup => a = "guard" /\ pc[r][a] \in Result
       /\ pc[r][a] \in Result => t.cleanup # "Pending"
       /\ \E next \in {"Apply", "Idle"} :
            pc' = [pc EXCEPT ![r][a] = IF t.registration # st[r].registration
                                       THEN "Remove" ELSE next]

\* A critical section that may fail, clean up or retire one request keeps the
\* invariant: at most one actor decides the retirement.
LEMMA MovingLife ==
  ASSUME LifecycleInv, NEW r \in Requests, NEW a \in Actor, Moving(r, a)
  PROVE  LifecycleInv'
<1>0. PICK t :
        /\ Moves(st[r], t) /\ st' = [st EXCEPT ![r] = t]
        /\ t.cleanup # st[r].cleanup => a = "guard" /\ pc[r][a] \in Result
        /\ pc[r][a] \in Result => t.cleanup # "Pending"
        /\ \E next \in {"Apply", "Idle"} :
            pc' = [pc EXCEPT ![r][a] = IF t.registration # st[r].registration
                                       THEN "Remove" ELSE next]
  BY DEF Moving
<1>1. PICK next \in {"Apply", "Idle"} :
        /\ Moves(st[r], t) /\ st' = [st EXCEPT ![r] = t]
        /\ t.cleanup # st[r].cleanup => a = "guard" /\ pc[r][a] \in Result
        /\ pc[r][a] \in Result => t.cleanup # "Pending"
        /\ pc' = [pc EXCEPT ![r][a] = IF t.registration # st[r].registration
                                      THEN "Remove" ELSE next]
  BY <1>0
<1>2. /\ st'[r] = t
      /\ \A q \in Requests \ {r} : st'[q] = st[q] /\ pc'[q] = pc[q]
      /\ pc'[r][a] = IF t.registration # st[r].registration THEN "Remove" ELSE next
      /\ \A b \in Actor \ {a} : pc'[r][b] = pc[r][b]
  BY <1>1 DEF LifecycleInv, Shape
<1>3. RequestInv(r)
  BY DEF LifecycleInv
<1>4. pc'[r][a] \notin Result
  BY <1>2 DEF Result
<1>5. Shape'
  <2>1. st' = [q \in Requests |-> st'[q]]
    <3>1. st = [q \in Requests |-> st[q]]
      BY DEF LifecycleInv, Shape
    <3> QED BY <3>1, <1>1
  <2>2. \A q \in Requests : HasFields(st'[q])
    BY <1>1, <1>2 DEF LifecycleInv, Shape, Moves
  <2>3. pc' \in [Requests -> [Actor -> Continuations]]
    BY <1>1 DEF LifecycleInv, Shape, Continuations
  <2> QED BY <2>1, <2>2, <2>3 DEF Moving, LifecycleInv, Shape, HasFields
<1>6. Sweep'
  <2>1. \A q \in Requests : FailIgnored(st[q]) => FailIgnored(st'[q])
    BY <1>1, <1>2 DEF Moves, FailIgnored
  <2>2. registered \subseteq Requests
    BY DEF LifecycleInv, Shape
  <2>3. Sweep
    BY DEF LifecycleInv
  <2> QED BY <2>1, <2>2, <2>3 DEF Moving, Sweep, FailIgnored, Failed
<1>7. ASSUME NEW q \in Requests PROVE RequestInv(q)'
  <2>1. CASE q # r
    BY <2>1, <1>2, OtherRequest DEF Untaken, Moving, LifecycleInv
  <2>2. CASE q = r
    <3>1. Untouched(r)' /\ Unlaunched(r)'
      BY <1>3, <1>2 DEF Moving, RequestInv, Untouched, Unlaunched
    <3>2. GuardOnce(r)'
      <4>1. a = "guard" => guard[r] = "Done"
        BY <1>3 DEF Moving, RequestInv, GuardOnce
      <4>2. guard'[r] = guard[r]
        BY DEF Moving
      <4>3. st'[r].cleanup # "Pending" => guard[r] = "Done" /\ pc'[r]["guard"] \notin Result
        BY <4>1, <1>3, <1>1, <1>2, <1>4 DEF RequestInv, GuardOnce, Actor
      <4> QED BY <4>1, <4>2, <4>3, <1>3, <1>2, <1>4 DEF RequestInv, GuardOnce, Actor
    <3>3. ConsumedByOutput(r)'
      BY <1>3, <1>1, <1>2 DEF Moving, RequestInv, ConsumedByOutput, Moves
    <3>4. RetiredOnce(r)'
      BY <1>3, <1>1, <1>2 DEF Moving, RequestInv, RetiredOnce, Moves, Failed
    <3> QED BY <2>2, <3>1, <3>2, <3>3, <3>4 DEF RequestInv
  <2> QED BY <2>1, <2>2
<1> QED BY <1>5, <1>6, <1>7 DEF LifecycleInv

\* The part of Moving that a critical section of the request lock provides.
LEMMA TransitionMoves ==
  ASSUME NEW r, NEW a, NEW t, NEW b, Transition(r, a, t, b), Moves(st[r], t),
         t.cleanup # st[r].cleanup => a = "guard" /\ pc[r][a] \in Result,
         pc[r][a] \in Result => t.cleanup # "Pending"
  PROVE  \E u :
           /\ Moves(st[r], u) /\ st' = [st EXCEPT ![r] = u]
           /\ u.cleanup # st[r].cleanup => a = "guard" /\ pc[r][a] \in Result
           /\ pc[r][a] \in Result => u.cleanup # "Pending"
           /\ \E next \in {"Apply", "Idle"} :
                pc' = [pc EXCEPT ![r][a] = IF u.registration # st[r].registration
                                           THEN "Remove" ELSE next]
<1> DEFINE next == IF b > 0 THEN "Apply" ELSE "Idle"
<1>1. next \in {"Apply", "Idle"}
  OBVIOUS
<1>2. pc' = [pc EXCEPT ![r][a] = IF t.registration # st[r].registration
                                 THEN "Remove" ELSE next]
  BY DEF Transition, Continue
<1>3. st' = [st EXCEPT ![r] = t]
  BY DEF Transition
<1> HIDE DEF next
<1> QED BY <1>1, <1>2, <1>3

\* Request::fail on r, called by an actor that may also drop its own handle.
LEMMA PlainFail ==
  ASSUME LifecycleInv, NEW r \in Requests, NEW a \in Actor \ {"guard"}, NEW error \in ErrorKind,
         FailRequest(r, a, error), launch[r] # "Idle", pc[r][a] \notin {"Remove"} \cup Result,
         UNCHANGED << closing, driverClosed, registered, shutdown, launch, guard >>,
         inputEnd' \in [Requests -> {"None", "Open", "Sending", "Gone"}],
         outputEnd' \in [Requests -> {"None", "Receiving", "Ended", "Gone"}],
         writer' \in [Requests -> {"Idle", "Emitting", "Gone"}],
         \A q \in Requests \ {r} :
           /\ inputEnd'[q] = inputEnd[q] /\ outputEnd'[q] = outputEnd[q]
           /\ writer'[q] = writer[q],
         outputEnd'[r] = outputEnd[r] \/ (outputEnd[r] = "Receiving" /\ outputEnd'[r] = "Gone"),
         toFail' \in {toFail, toFail \ {r}}
  PROVE  LifecycleInv'
<1>1. HasFields(st[r])
  BY DEF LifecycleInv, Shape
<1>2. /\ Moves(st[r], Fail(st[r], error)) /\ FailIgnored(Fail(st[r], error))
      /\ Fail(st[r], error).cleanup = st[r].cleanup
  BY <1>1, FailMoves
<1>3. Transition(r, a, Fail(st[r], error), DiscardedByFail(st[r]))
  BY DEF FailRequest
<1>4. st'[r] = Fail(st[r], error)
  BY <1>3 DEF Transition, LifecycleInv, Shape
<1>5. \A q \in toFail \ toFail' : FailIgnored(st'[q])
  BY <1>2, <1>4
<1>6. Moving(r, a)
  BY <1>2, <1>3, <1>5, TransitionMoves DEF Moving
<1> QED BY <1>6, MovingLife

-----------------------------------------------------------------------------
(* Every action.                                                           *)

\* Every step of the client keeps the invariant.
LEMMA StepLife == LifecycleInv /\ [Next]_vars => LifecycleInv'
<1> SUFFICES ASSUME LifecycleInv, [Next]_vars PROVE LifecycleInv'
  OBVIOUS
<1>0. /\ Shape /\ Sweep /\ \A r \in Requests : RequestInv(r)
      /\ st = [q \in Requests |-> st[q]] /\ \A q \in Requests : HasFields(st[q])
  BY DEF LifecycleInv, Shape
<1>a. ASSUME NEW r \in Requests PROVE st = [st EXCEPT ![r] = st[r]] /\ SameLife(st[r], st[r])
  BY <1>0 DEF SameLife
<1>b. ASSUME NEW r \in Requests, NEW a \in Actor, pc[r][a] # "Idle" PROVE launch[r] # "Idle"
  BY <1>0, <1>b DEF RequestInv, Untouched
<1>1. ASSUME NEW r \in Requests, NEW a \in Actor, DropLeases(r, a) PROVE LifecycleInv'
  <2>1. CASE pc[r][a] = "Apply"
    <3>1. launch[r] # "Idle" /\ (a # "guard" \/ guard[r] = "Done")
      BY <2>1, <1>0 DEF RequestInv, Untouched, GuardOnce
    <3>2. Quiet(r, a)
      BY <1>1, <2>1, <3>1, <1>a, <1>0 DEF Quiet, DropLeases, Continue, Shape, endVars, Continuations, Result
    <3> QED BY <3>1, <3>2, QuietLife
  <2>2. CASE pc[r][a] # "Apply"
    <3>1. pc' = pc
      BY <1>1, <2>2, <1>0 DEF DropLeases, Continue, Shape
    <3> QED BY <1>1, <3>1, StutterLife DEF DropLeases, lifeVars, endVars
  <2> QED BY <2>1, <2>2
<1>2. ASSUME NEW r \in Requests, NEW a \in Actor, Unregister(r, a) PROVE LifecycleInv'
  <2>1. /\ pc[r][a] = "Remove" /\ launch[r] # "Idle" /\ st[r].registration = "Retired"
        /\ st[r].cleanup # "Pending"
    BY <1>2, <1>0 DEF Unregister, RequestInv, Untouched, RetiredOnce
  <2>2. /\ registered' = registered \ {r} /\ pc' = [pc EXCEPT ![r][a] = "Idle"]
        /\ UNCHANGED << closing, driverClosed, shutdown, toFail, st, launch, inputEnd,
                        outputEnd, writer, guard >>
    BY <1>2 DEF Unregister, endVars
  <2>3. /\ \A q \in Requests \ {r} : pc'[q] = pc[q]
        /\ pc'[r][a] = "Idle" /\ \A b \in Actor \ {a} : pc'[r][b] = pc[r][b]
    BY <2>2, <1>0 DEF Shape
  <2>4. Shape'
    BY <2>2, <1>0 DEF Shape, HasFields, Continuations
  <2>5. Sweep'
    BY <2>2, <1>0 DEF Sweep, FailIgnored, Failed
  <2>6. ASSUME NEW q \in Requests PROVE RequestInv(q)'
    <3>1. CASE q # r
      BY <3>1, <2>2, <2>3, <1>0, OtherRequest DEF Untaken
    <3>2. CASE q = r
      <4>1. Untouched(r)' /\ Unlaunched(r)'
        BY <2>1, <2>2, <1>0 DEF RequestInv, Untouched, Unlaunched
      <4>2. GuardOnce(r)'
        BY <2>1, <2>2, <2>3, <1>0 DEF RequestInv, GuardOnce, Actor, Result
      <4>3. ConsumedByOutput(r)'
        BY <2>2, <1>0 DEF RequestInv, ConsumedByOutput
      <4>4. RetiredOnce(r)'
        BY <2>1, <2>2, <2>3, <1>0 DEF RequestInv, RetiredOnce, Failed
      <4> QED BY <3>2, <4>1, <4>2, <4>3, <4>4 DEF RequestInv
    <3> QED BY <3>1, <3>2
  <2> QED BY <2>4, <2>5, <2>6 DEF LifecycleInv
<1>3. ASSUME NEW r \in Requests, NEW a \in Actor, Changed(r, a) PROVE LifecycleInv'
  <2>1. Moves(st[r], Retire(st[r])) /\ Retire(st[r]).cleanup = st[r].cleanup
    BY <1>0, RetireMoves
  <2>2. pc[r][a] = "Changed" /\ launch[r] # "Idle" /\ Transition(r, a, Retire(st[r]), 0)
    BY <1>3, <1>b DEF Changed
  <2>3. pc[r][a] \notin {"Idle", "Remove"} \cup Result
    BY <2>2 DEF Result
  <2>4. \E u :
           /\ Moves(st[r], u) /\ st' = [st EXCEPT ![r] = u]
           /\ u.cleanup # st[r].cleanup => a = "guard" /\ pc[r][a] \in Result
           /\ pc[r][a] \in Result => u.cleanup # "Pending"
           /\ \E next \in {"Apply", "Idle"} :
                pc' = [pc EXCEPT ![r][a] = IF u.registration # st[r].registration
                                           THEN "Remove" ELSE next]
    BY <2>1, <2>2, <2>3, TransitionMoves
  <2>5. Moving(r, a)
    BY <1>3, <2>2, <2>3, <2>4, <1>0 DEF Moving, Changed, coreVars, endVars, Shape
  <2> QED BY <2>5, MovingLife
<1>4. ASSUME NEW r \in Requests, Register(r) PROVE LifecycleInv'
  <2>1. /\ launch[r] = "Idle" /\ ~closing
        /\ registered' = registered \cup {r}
        /\ launch' = [launch EXCEPT ![r] = "Launching"]
        /\ guard' = [guard EXCEPT ![r] = "Held"]
        /\ UNCHANGED << closing, driverClosed, shutdown, toFail, st, inputEnd, outputEnd, writer, pc >>
    BY <1>4 DEF Register
  <2>2. Shape'
    BY <2>1, <1>0 DEF Shape, HasFields
  <2>3. Sweep'
    BY <2>1, <1>0 DEF Sweep, FailIgnored, Failed
  <2>4. ASSUME NEW q \in Requests PROVE RequestInv(q)'
    <3>1. CASE q # r
      BY <3>1, <2>1, <1>0, OtherRequest DEF Untaken, Shape
    <3>2. CASE q = r
      BY <3>2, <2>1, <1>0 DEF Shape, RequestInv, Untouched, Unlaunched, GuardOnce,
                              ConsumedByOutput, RetiredOnce, Actor, Result
    <3> QED BY <3>1, <3>2
  <2> QED BY <2>2, <2>3, <2>4 DEF LifecycleInv
<1>5. ASSUME NEW r \in Requests, LaunchOk(r) PROVE LifecycleInv'
  <2>1. /\ launch[r] = "Launching"
        /\ launch' = [launch EXCEPT ![r] = "Started"]
        /\ inputEnd' = [inputEnd EXCEPT ![r] = "Open"]
        /\ outputEnd' = [outputEnd EXCEPT ![r] = "Receiving"]
        /\ writer' = [writer EXCEPT ![r] = "Idle"]
        /\ UNCHANGED << closing, driverClosed, registered, shutdown, toFail, st, guard, pc >>
    BY <1>5 DEF LaunchOk, coreVars
  <2>2. Shape'
    BY <2>1, <1>0 DEF Shape, HasFields
  <2>3. Sweep'
    BY <2>1, <1>0 DEF Sweep, FailIgnored, Failed
  <2>4. ASSUME NEW q \in Requests PROVE RequestInv(q)'
    <3>1. CASE q # r
      BY <3>1, <2>1, <1>0, OtherRequest DEF Untaken, Shape
    <3>2. CASE q = r
      BY <3>2, <2>1, <1>0 DEF Shape, RequestInv, Untouched, Unlaunched, GuardOnce,
                              ConsumedByOutput, RetiredOnce, Actor, Result, Failed
    <3> QED BY <3>1, <3>2
  <2> QED BY <2>2, <2>3, <2>4 DEF LifecycleInv
<1>6. ASSUME NEW r \in Requests, LaunchError(r) PROVE LifecycleInv'
  <2>1. /\ launch[r] = "Launching"
        /\ launch' = [launch EXCEPT ![r] = "Refused"]
        /\ guard' = [guard EXCEPT ![r] = "Done"]
        /\ pc' = [pc EXCEPT ![r]["guard"] = "Backend"]
        /\ UNCHANGED << closing, driverClosed, registered, shutdown, toFail, st, inputEnd,
                        outputEnd, writer >>
    BY <1>6 DEF LaunchError, coreVars
  <2>2. Shape'
    BY <2>1, <1>0 DEF Shape, HasFields, Continuations, Result, Actor
  <2>3. Sweep'
    BY <2>1, <1>0 DEF Sweep, FailIgnored, Failed
  <2>4. ASSUME NEW q \in Requests PROVE RequestInv(q)'
    <3>1. CASE q # r
      BY <3>1, <2>1, <1>0, OtherRequest DEF Untaken, Shape
    <3>2. CASE q = r
      <4>1. guard[r] = "Held" /\ pc[r]["guard"] = "Idle" /\ st[r].cleanup = "Pending"
        BY <2>1, <1>0 DEF RequestInv, Unlaunched, GuardOnce
      <4>2. /\ pc'[r]["guard"] = "Backend" /\ launch'[r] = "Refused" /\ guard'[r] = "Done"
            /\ \A b \in Actor \ {"guard"} : pc'[r][b] = pc[r][b]
        BY <2>1, <1>0 DEF Shape, Actor
      <4>3. Untouched(r)' /\ Unlaunched(r)' /\ ConsumedByOutput(r)'
        BY <4>2, <2>1, <1>0 DEF RequestInv, Untouched, Unlaunched, ConsumedByOutput
      <4>4. GuardOnce(r)'
        BY <4>1, <4>2, <2>1, <1>0 DEF RequestInv, GuardOnce
      <4>5. RetiredOnce(r)'
        BY <4>1, <4>2, <2>1, <1>0 DEF RequestInv, RetiredOnce, Failed
      <4> QED BY <3>2, <4>3, <4>4, <4>5 DEF RequestInv
    <3> QED BY <3>1, <3>2
  <2> QED BY <2>2, <2>3, <2>4 DEF LifecycleInv
<1>c. ASSUME NEW r \in Requests PROVE
        /\ inputEnd[r] # "None" => launch[r] # "Idle"
        /\ outputEnd[r] # "None" => launch[r] # "Idle"
        /\ writer[r] # "Gone" => launch[r] # "Idle"
  BY <1>0 DEF RequestInv, Untouched
<1>d. ASSUME NEW r \in Requests, NEW a \in Actor \ {"guard"},
             launch[r] # "Idle",
             UNCHANGED << closing, driverClosed, registered, shutdown, toFail, launch, outputEnd, guard >>,
             inputEnd' = inputEnd \/ \E v \in {"Open", "Sending", "Gone"} : inputEnd' = [inputEnd EXCEPT ![r] = v],
             writer' = writer \/ \E v \in {"Idle", "Emitting"} : writer' = [writer EXCEPT ![r] = v],
             pc[r][a] \notin {"Remove"} \cup Result,
             \/ pc' = pc
             \/ \E next \in {"Idle", "Stage", "Apply", "Changed", "Reject"} : pc' = [pc EXCEPT ![r][a] = next],
             st' = st \/ \E t : SameLife(st[r], t) /\ st' = [st EXCEPT ![r] = t]
      PROVE LifecycleInv'
  <2>1. /\ inputEnd' \in [Requests -> {"None", "Open", "Sending", "Gone"}]
        /\ \A q \in Requests \ {r} : inputEnd'[q] = inputEnd[q]
    <3>1. inputEnd \in [Requests -> {"None", "Open", "Sending", "Gone"}]
      BY <1>0 DEF Shape
    <3>2. CASE inputEnd' = inputEnd
      BY <3>1, <3>2
    <3>3. ASSUME NEW v \in {"Open", "Sending", "Gone"}, inputEnd' = [inputEnd EXCEPT ![r] = v]
          PROVE  <2>1!1 /\ <2>1!2
      BY <3>1, <3>3
    <3> QED BY <1>d, <3>2, <3>3
  <2>5. /\ writer' \in [Requests -> {"Idle", "Emitting", "Gone"}]
        /\ \A q \in Requests \ {r} : writer'[q] = writer[q]
    <3>1. writer \in [Requests -> {"Idle", "Emitting", "Gone"}]
      BY <1>0 DEF Shape
    <3>2. CASE writer' = writer
      BY <3>1, <3>2
    <3>3. ASSUME NEW v \in {"Idle", "Emitting"}, writer' = [writer EXCEPT ![r] = v]
          PROVE  <2>5!1 /\ <2>5!2
      BY <3>1, <3>3
    <3> QED BY <1>d, <3>2, <3>3
  <2>2. \E next \in Continuations \ ({"Remove"} \cup Result) : pc' = [pc EXCEPT ![r][a] = next]
    <3>1. CASE pc' = pc
      <4>1. pc = [pc EXCEPT ![r][a] = pc[r][a]] /\ pc[r][a] \in Continuations
        BY <1>0 DEF Shape
      <4> QED BY <1>d, <3>1, <4>1
    <3>2. {"Idle", "Stage", "Apply", "Changed", "Reject"} \subseteq Continuations \ ({"Remove"} \cup Result)
      BY DEF Continuations, Result
    <3> QED BY <1>d, <3>1, <3>2
  <2>3. \E t : SameLife(st[r], t) /\ st' = [st EXCEPT ![r] = t]
    BY <1>d, <1>a
  <2>4. Quiet(r, a)
    BY <1>d, <2>1, <2>2, <2>3, <2>5 DEF Quiet
  <2> QED BY <2>4, QuietLife
<1>e. "Idle" \notin {"Remove"} \cup Result /\ "Stage" \notin {"Remove"} \cup Result
  BY DEF Result
<1>f. {"input", "output", "reader", "writer", "control", "timer", "owner"} \subseteq Actor \ {"guard"}
  BY DEF Actor
<1>7. ASSUME NEW r \in Requests, NEW b \in ItemBytes, SendReserve(r, b) PROVE LifecycleInv'
  BY <1>7, <1>c, <1>d, <1>e, <1>f DEF SendReserve, Ready, Continue, endVars
<1>8. ASSUME NEW r \in Requests, NEW b \in ItemBytes, TrySend(r, b) PROVE LifecycleInv'
  <2>1. SameLife(st[r], EnqueueInput(st[r], b))
    BY <1>0, DataKeepsLife
  <2> QED BY <1>8, <2>1, <1>c, <1>d, <1>e, <1>f DEF TrySend, Ready, Continue, endVars
<1>9. ASSUME NEW r \in Requests, SendStage(r) PROVE LifecycleInv'
  <2>1. SameLife(st[r], StageInput(st[r], hold[r]["input"]))
    BY <1>0, DataKeepsLife
  <2> QED BY <1>9, <2>1, <1>c, <1>d, <1>e, <1>f DEF SendStage, Continue, coreVars
<1>10. ASSUME NEW r \in Requests, PollSend(r) PROVE LifecycleInv'
  <2>1. SameLife(st[r], AcceptInput(st[r]))
    BY <1>0, DataKeepsLife
  <2> QED BY <1>10, <2>1, <1>c, <1>d, <1>e, <1>f DEF PollSend, Ready, Continue, coreVars
<1>11. ASSUME NEW r \in Requests, DropSend(r) PROVE LifecycleInv'
  <2>1. SameLife(st[r], AbandonInput(st[r]))
    BY <1>0, DataKeepsLife
  <2> QED BY <1>11, <2>1, <1>c, <1>d, <1>e, <1>f DEF DropSend, Ready, Continue, coreVars
<1>12. ASSUME NEW r \in Requests, FinishSending(r) PROVE LifecycleInv'
  <2>1. SameLife(st[r], FinishInput(st[r]))
    BY <1>0, DataKeepsLife
  <2> QED BY <1>12, <2>1, <1>c, <1>d, <1>e, <1>f DEF FinishSending, Ready, Continue, coreVars
<1>13. ASSUME NEW r \in Requests, ReadInput(r) PROVE LifecycleInv'
  <2>1. SameLife(st[r], PopInput(st[r])) /\ SameLife(st[r], ObserveEof(st[r]))
    BY <1>0, DataKeepsLife
  <2> QED BY <1>13, <2>1, <1>d, <1>e, <1>f DEF ReadInput, Ready, Continue, coreVars
<1>14. ASSUME NEW r \in Requests, NEW b \in ItemBytes, EmitReserve(r, b) PROVE LifecycleInv'
  BY <1>14, <1>c, <1>d, <1>e, <1>f DEF EmitReserve, Ready, Continue, endVars
<1>15. ASSUME NEW r \in Requests, NEW finished \in BOOLEAN, EmitStage(r, finished) PROVE LifecycleInv'
  <2>1. SameLife(st[r], StageOutput(st[r], finished, hold[r]["writer"]))
    BY <1>0, DataKeepsLife
  <2>2. launch[r] # "Idle"
    BY <1>15, <1>b DEF EmitStage, Actor
  <2> QED BY <1>15, <2>1, <2>2, <1>d, <1>e, <1>f DEF EmitStage, Continue, coreVars
<1>16. ASSUME NEW r \in Requests, PollEmit(r) PROVE LifecycleInv'
  <2>1. SameLife(st[r], AcceptOutput(st[r]))
    BY <1>0, DataKeepsLife
  <2> QED BY <1>16, <2>1, <1>c, <1>d, <1>e, <1>f DEF PollEmit, Ready, Continue, coreVars
<1>17. ASSUME NEW r \in Requests, ReleasePacket(r) PROVE LifecycleInv'
  BY <1>17, StutterLife DEF ReleasePacket, lifeVars
<1>18. ASSUME NEW r \in Requests, NEW a \in Actor \ {"guard"}, NEW error \in ErrorKind,
             FailRequest(r, a, error), launch[r] # "Idle", pc[r][a] \notin {"Remove"} \cup Result,
             UNCHANGED << closing, driverClosed, registered, shutdown, toFail, launch, guard >>,
             inputEnd' = inputEnd \/ inputEnd' = [inputEnd EXCEPT ![r] = "Gone"],
             outputEnd' = outputEnd \/ (outputEnd[r] = "Receiving" /\ outputEnd' = [outputEnd EXCEPT ![r] = "Gone"]),
             writer' = writer \/ writer' = [writer EXCEPT ![r] = "Idle"]
       PROVE LifecycleInv'
  <2>1. /\ inputEnd \in [Requests -> {"None", "Open", "Sending", "Gone"}]
        /\ outputEnd \in [Requests -> {"None", "Receiving", "Ended", "Gone"}]
        /\ writer \in [Requests -> {"Idle", "Emitting", "Gone"}]
    BY <1>0 DEF Shape
  <2>2. /\ inputEnd' \in [Requests -> {"None", "Open", "Sending", "Gone"}]
        /\ \A q \in Requests \ {r} : inputEnd'[q] = inputEnd[q]
    BY <1>18, <2>1
  <2>3. /\ outputEnd' \in [Requests -> {"None", "Receiving", "Ended", "Gone"}]
        /\ \A q \in Requests \ {r} : outputEnd'[q] = outputEnd[q]
        /\ outputEnd'[r] = outputEnd[r] \/ (outputEnd[r] = "Receiving" /\ outputEnd'[r] = "Gone")
    BY <1>18, <2>1
  <2>4. /\ writer' \in [Requests -> {"Idle", "Emitting", "Gone"}]
        /\ \A q \in Requests \ {r} : writer'[q] = writer[q]
    BY <1>18, <2>1
  <2> QED BY <1>18, <2>2, <2>3, <2>4, PlainFail
<1>g. {"Cancelled", "DeadlineExceeded", "ShuttingDown", "Backend"} \subseteq ErrorKind
  BY DEF ErrorKind
<1>19. ASSUME NEW r \in Requests, DropInput(r) PROVE LifecycleInv'
  BY <1>19, <1>18, <1>c, <1>e, <1>f, <1>g DEF DropInput, Ready, coreVars
<1>20. ASSUME NEW r \in Requests, DropOutput(r) PROVE LifecycleInv'
  BY <1>20, <1>18, <1>c, <1>e, <1>f, <1>g DEF DropOutput, Ready, coreVars
<1>21. ASSUME NEW r \in Requests, Cancel(r) PROVE LifecycleInv'
  BY <1>21, <1>18, <1>e, <1>f, <1>g DEF Cancel, Ready, coreVars, endVars
<1>22. ASSUME NEW r \in Requests, Expire(r) PROVE LifecycleInv'
  <2>1. launch[r] # "Idle"
    BY <1>22, <1>0 DEF Expire, RequestInv, Untouched
  <2> QED BY <1>22, <2>1, <1>18, <1>e, <1>f, <1>g DEF Expire, Ready, coreVars, endVars
<1>23. ASSUME NEW r \in Requests, NEW b \in ItemBytes, EmitOverBudget(r, b) PROVE LifecycleInv'
  BY <1>23, <1>18, <1>c, <1>e, <1>f, <1>g DEF EmitOverBudget, Ready, coreVars, endVars
<1>24. ASSUME NEW r \in Requests, EmitRejected(r) PROVE LifecycleInv'
  <2>1. pc[r]["writer"] = "Reject" /\ launch[r] # "Idle" /\ "Reject" \notin {"Remove"} \cup Result
    BY <1>24, <1>b DEF EmitRejected, Actor, Result
  <2> QED BY <1>24, <2>1, <1>18, <1>f, <1>g DEF EmitRejected, coreVars, endVars
<1>25. ASSUME NEW r \in Requests, DropEmit(r) PROVE LifecycleInv'
  BY <1>25, <1>18, <1>c, <1>e, <1>f, <1>g DEF DropEmit, Ready, coreVars
<1>26. ASSUME NEW r \in Requests, BackendFail(r) PROVE LifecycleInv'
  BY <1>26, <1>18, <1>c, <1>e, <1>f, <1>g DEF BackendFail, Ready, coreVars, endVars
<1>27. ASSUME NEW r \in Requests, Receive(r) PROVE LifecycleInv'
  <2>1. CASE outputEnd' = outputEnd
    <3>1. SameLife(st[r], PopOutput(st[r]))
      BY <1>0, DataKeepsLife
    <3>2. outputEnd[r] = "Receiving" /\ outputEnd \in [Requests -> {"None", "Receiving", "Ended", "Gone"}]
      BY <1>27, <1>0 DEF Receive, Shape
    <3>3. outputEnd' # [outputEnd EXCEPT ![r] = "Ended"]
      BY <2>1, <3>2
    <3> QED BY <1>27, <2>1, <3>1, <3>3, <1>c, <1>d, <1>e, <1>f DEF Receive, Ready, Continue, coreVars
  <2>2. CASE outputEnd' # outputEnd
    <3>1. /\ outputEnd[r] = "Receiving" /\ pc[r]["output"] = "Idle"
          /\ Failed(st[r]) \/ st[r].outcome = "Success"
          /\ st' = [st EXCEPT ![r] = ConsumeTerminal(st[r])]
          /\ outputEnd' = [outputEnd EXCEPT ![r] = "Ended"]
          /\ pc' = [pc EXCEPT ![r]["output"] = "Changed"]
          /\ UNCHANGED << closing, driverClosed, registered, shutdown, toFail, launch,
                          inputEnd, writer, guard >>
      BY <1>27, <2>2, <1>0 DEF Receive, Ready, Continue, coreVars
    <3>2. /\ HasFields(ConsumeTerminal(st[r]))
          /\ ConsumeTerminal(st[r]).delivery = "TerminalConsumed"
          /\ ConsumeTerminal(st[r]).outcome = st[r].outcome
          /\ ConsumeTerminal(st[r]).cleanup = st[r].cleanup
          /\ ConsumeTerminal(st[r]).registration = st[r].registration
      BY <1>0, FieldNames DEF HasFields, ConsumeTerminal
    <3>3. /\ st'[r] = ConsumeTerminal(st[r]) /\ outputEnd'[r] = "Ended"
          /\ pc'[r]["output"] = "Changed"
          /\ \A b \in Actor \ {"output"} : pc'[r][b] = pc[r][b]
          /\ \A q \in Requests \ {r} :
               st'[q] = st[q] /\ outputEnd'[q] = outputEnd[q] /\ pc'[q] = pc[q]
      BY <3>1, <1>0 DEF Shape, Actor
    <3>4. Shape'
      <4>1. st' = [q \in Requests |-> st'[q]]
        BY <3>1, <1>0
      <4>2. \A q \in Requests : HasFields(st'[q])
        BY <3>2, <3>3, <1>0
      <4>3. outputEnd' \in [Requests -> {"None", "Receiving", "Ended", "Gone"}]
        BY <3>1, <1>0 DEF Shape
      <4>4. pc' \in [Requests -> [Actor -> Continuations]]
        BY <3>1, <1>0 DEF Shape, Continuations, Actor
      <4> QED BY <3>1, <4>1, <4>2, <4>3, <4>4, <1>0 DEF Shape, HasFields
    <3>5. Sweep'
      <4>1. \A q \in Requests : FailIgnored(st[q]) => FailIgnored(st'[q])
        BY <3>2, <3>3 DEF FailIgnored, Failed
      <4> QED BY <4>1, <3>1, <1>0 DEF Sweep, Shape
    <3>6. ASSUME NEW q \in Requests PROVE RequestInv(q)'
      <4>1. CASE q # r
        BY <4>1, <3>1, <3>3, <1>0, OtherRequest DEF Untaken
      <4>2. CASE q = r
        <5>1. launch[r] # "Idle" /\ "Changed" \notin {"Remove"} \cup Result
          BY <3>1, <1>c DEF Result
        <5>2. Untouched(r)' /\ Unlaunched(r)' /\ ConsumedByOutput(r)'
          BY <5>1, <3>1, <3>2, <3>3, <1>0 DEF RequestInv, Untouched, Unlaunched, ConsumedByOutput
        <5>3. GuardOnce(r)'
          BY <5>1, <3>1, <3>2, <3>3, <1>0 DEF RequestInv, GuardOnce, Actor
        <5>4. RetiredOnce(r)'
          BY <5>1, <3>1, <3>2, <3>3, <1>0 DEF RequestInv, RetiredOnce, Failed
        <5> QED BY <4>2, <5>2, <5>3, <5>4 DEF RequestInv
      <4> QED BY <4>1, <4>2
    <3> QED BY <3>4, <3>5, <3>6 DEF LifecycleInv
  <2> QED BY <2>1, <2>2
<1>28. ASSUME NEW r \in Requests, NEW result \in Result, GuardFinish(r, result) PROVE LifecycleInv'
  <2>1. /\ guard[r] = "Held" /\ launch[r] = "Started"
        /\ guard' = [guard EXCEPT ![r] = "Done"]
        /\ pc' = [pc EXCEPT ![r]["guard"] = result]
        /\ UNCHANGED << closing, driverClosed, registered, shutdown, toFail, st, launch,
                        inputEnd, outputEnd, writer >>
    BY <1>28 DEF GuardFinish, coreVars
  <2>2. Shape'
    <3>1. pc' \in [Requests -> [Actor -> Continuations]]
      BY <2>1, <1>0 DEF Shape, Continuations, Actor
    <3> QED BY <2>1, <3>1, <1>0 DEF Shape, HasFields
  <2>3. Sweep'
    BY <2>1, <1>0 DEF Sweep, FailIgnored, Failed
  <2>4. ASSUME NEW q \in Requests PROVE RequestInv(q)'
    <3>1. CASE q # r
      BY <3>1, <2>1, <1>0, OtherRequest DEF Untaken, Shape
    <3>2. CASE q = r
      <4>1. pc[r]["guard"] = "Idle" /\ st[r].cleanup = "Pending"
        BY <2>1, <1>0 DEF RequestInv, GuardOnce
      <4>2. /\ pc'[r]["guard"] = result /\ guard'[r] = "Done" /\ result # "Remove"
            /\ \A b \in Actor \ {"guard"} : pc'[r][b] = pc[r][b]
        BY <2>1, <1>0 DEF Shape, Actor, Result
      <4>3. Untouched(r)' /\ Unlaunched(r)' /\ ConsumedByOutput(r)'
        BY <4>2, <2>1, <1>0 DEF RequestInv, Untouched, Unlaunched, ConsumedByOutput
      <4>4. GuardOnce(r)'
        BY <4>1, <4>2, <2>1, <1>0 DEF RequestInv, GuardOnce
      <4>5. RetiredOnce(r)'
        BY <4>1, <4>2, <2>1, <1>0 DEF RequestInv, RetiredOnce, Failed
      <4> QED BY <3>2, <4>3, <4>4, <4>5 DEF RequestInv
    <3> QED BY <3>1, <3>2
  <2> QED BY <2>2, <2>3, <2>4 DEF LifecycleInv
<1>29. ASSUME NEW r \in Requests, Close(r) PROVE LifecycleInv'
  <2> DEFINE c == CompleteCleanup(st[r], pc[r]["guard"])
  <2>1. pc[r]["guard"] \in Result /\ "guard" \in Actor /\ launch[r] # "Idle"
    <3>1. pc[r]["guard"] \in Result
      BY <1>29 DEF Close
    <3>2. "guard" \in Actor /\ pc[r]["guard"] # "Idle"
      BY <3>1 DEF Actor, Result
    <3> QED BY <3>1, <3>2, <1>b
  <2>2. Moves(st[r], c) /\ c.cleanup # "Pending"
    BY <2>1, <1>0, CleanupMoves
  <2>3. Transition(r, "guard", c, DiscardedByCleanup(st[r], pc[r]["guard"]))
    BY <1>29 DEF Close
  <2> HIDE DEF c
  <2>4. \E u :
           /\ Moves(st[r], u) /\ st' = [st EXCEPT ![r] = u]
           /\ u.cleanup # st[r].cleanup => "guard" = "guard" /\ pc[r]["guard"] \in Result
           /\ pc[r]["guard"] \in Result => u.cleanup # "Pending"
           /\ \E next \in {"Apply", "Idle"} :
                pc' = [pc EXCEPT ![r]["guard"] = IF u.registration # st[r].registration
                                                 THEN "Remove" ELSE next]
    BY <2>1, <2>2, <2>3, TransitionMoves
  <2>5. pc[r]["guard"] # "Remove" /\ pc[r]["guard"] # "Idle"
    BY <2>1 DEF Result
  <2>6. Moving(r, "guard")
    BY <1>29, <2>1, <2>4, <2>5, <1>0 DEF Moving, Close, coreVars, endVars, Shape
  <2> QED BY <2>1, <2>6, MovingLife
<1>30. ASSUME BeginShutdown PROVE LifecycleInv'
  <2>1. /\ ~closing /\ closing' = TRUE /\ shutdown' = "Failing" /\ toFail' = registered
        /\ UNCHANGED << driverClosed, registered, st, launch, inputEnd, outputEnd, writer, guard, pc >>
    BY <1>30 DEF BeginShutdown, endVars
  <2>2. Shape'
    BY <2>1, <1>0 DEF Shape, HasFields
  <2>3. Sweep'
    BY <2>1, <1>0 DEF Sweep
  <2>4. ASSUME NEW q \in Requests PROVE RequestInv(q)'
    <3>1. RequestInv(q)
      BY <1>0
    <3>2. Untouched(q)'
      BY <3>1, <2>1 DEF RequestInv, Untouched
    <3>3. Unlaunched(q)' /\ GuardOnce(q)' /\ ConsumedByOutput(q)' /\ RetiredOnce(q)'
      BY <3>1, <2>1 DEF RequestInv, Unlaunched, GuardOnce, ConsumedByOutput, RetiredOnce, Failed
    <3> QED BY <3>2, <3>3 DEF RequestInv
  <2> QED BY <2>2, <2>3, <2>4 DEF LifecycleInv
<1>31. ASSUME NEW r \in Requests, ShutdownFail(r) PROVE LifecycleInv'
  <2>1. launch[r] # "Idle"
    BY <1>31, <1>0 DEF ShutdownFail, RequestInv, Untouched
  <2>2. /\ pc[r]["owner"] = "Idle" /\ toFail' = toFail \ {r}
        /\ FailRequest(r, "owner", "ShuttingDown")
        /\ UNCHANGED << closing, driverClosed, registered, shutdown, launch, inputEnd,
                        outputEnd, writer, guard >>
    BY <1>31 DEF ShutdownFail, OwnerReady, Ready, endVars
  <2>3. /\ inputEnd \in [Requests -> {"None", "Open", "Sending", "Gone"}]
        /\ outputEnd \in [Requests -> {"None", "Receiving", "Ended", "Gone"}]
        /\ writer \in [Requests -> {"Idle", "Emitting", "Gone"}]
    BY <1>0 DEF Shape
  <2> QED BY <2>1, <2>2, <2>3, <1>e, <1>f, <1>g, PlainFail
<1>32. ASSUME ShutdownDriver PROVE LifecycleInv'
  <2>1. /\ shutdown = "Failing" /\ toFail = {} /\ shutdown' = "Driver"
        /\ UNCHANGED << closing, driverClosed, registered, toFail, st, launch, inputEnd,
                        outputEnd, writer, guard, pc >>
    BY <1>32 DEF ShutdownDriver, endVars
  <2>2. Shape'
    BY <2>1, <1>0 DEF Shape, HasFields
  <2>3. Sweep'
    BY <2>1, <1>0 DEF Sweep, FailIgnored, Failed
  <2>4. ASSUME NEW q \in Requests PROVE RequestInv(q)'
    BY <2>1, <1>0, OtherRequest DEF Untaken
  <2> QED BY <2>2, <2>3, <2>4 DEF LifecycleInv
<1>33. ASSUME NEW result \in Result, DriverFinish(result) PROVE LifecycleInv'
  <2>1. /\ shutdown = "Driver" /\ shutdown' = "Done"
        /\ UNCHANGED << closing, registered, toFail, st, launch, inputEnd,
                        outputEnd, writer, guard, pc >>
    BY <1>33 DEF DriverFinish, endVars
  <2>2. Shape'
    BY <2>1, <1>0 DEF Shape, HasFields
  <2>3. Sweep'
    BY <2>1, <1>0 DEF Sweep, FailIgnored, Failed
  <2>4. ASSUME NEW q \in Requests PROVE RequestInv(q)'
    BY <2>1, <1>0, OtherRequest DEF Untaken
  <2> QED BY <2>2, <2>3, <2>4 DEF LifecycleInv
<1>34. CASE UNCHANGED vars
  BY <1>34, StutterLife DEF vars, coreVars, endVars, lifeVars
<1>35. ASSUME NEW r \in Requests, Start(r) PROVE LifecycleInv'
  BY <1>35, <1>4, <1>5, <1>6 DEF Start
<1>36. ASSUME NEW r \in Requests, Continuation(r) PROVE LifecycleInv'
  BY <1>36, <1>1, <1>2, <1>3 DEF Continuation
<1>37. ASSUME NEW r \in Requests, User(r) PROVE LifecycleInv'
  BY <1>37, <1>7, <1>8, <1>9, <1>10, <1>11, <1>12, <1>19, <1>20, <1>21, <1>27 DEF User
<1>38. ASSUME NEW r \in Requests, Backend(r) PROVE LifecycleInv'
  BY <1>38, <1>13, <1>14, <1>15, <1>16, <1>17, <1>23, <1>24, <1>25, <1>26, <1>28, <1>29 DEF Backend
<1>39. CASE Shutdown
  BY <1>39, <1>30, <1>31, <1>32, <1>33 DEF Shutdown
<1> QED BY <1>34, <1>35, <1>36, <1>37, <1>38, <1>39, <1>22 DEF Next

-----------------------------------------------------------------------------
(* Theorems of the specification.                                          *)

\* The life of a request is always in order: handles are given out by a
\* successful start, cleanup is acknowledged once, the terminal is consumed by
\* one receive, and retirement is decided once.
THEOREM LifecycleInvariant == Spec => []LifecycleInv
BY InitLife, StepLife, PTL DEF Spec

\* For any number of requests and any limits, a request is in the registry until
\* exactly one actor removes it, after its backend acknowledged cleanup and its
\* user was told how it ended or it failed (client/state.rs: retire, core.rs:
\* Request::apply).
THEOREM RequestLeavesAfterCleanup == Spec => []LeavesAfterCleanup
<1>1. LifecycleInv => LeavesAfterCleanup
  <2> SUFFICES ASSUME LifecycleInv, NEW r \in Requests
               PROVE  /\ \A a, b \in Removing(r) : a = b
                      /\ launch[r] # "Idle" =>
                           (r \in registered <=> st[r].registration = "Registered" \/ Removing(r) # {})
                      /\ st[r].registration = "Retired" =>
                           /\ guard[r] = "Done" /\ pc[r]["guard"] \notin Result
                           /\ st[r].cleanup # "Pending"
                           /\ Failed(st[r]) \/ outputEnd[r] = "Ended"
    BY DEF LeavesAfterCleanup
  <2>1. RequestInv(r)
    BY DEF LifecycleInv
  <2>2. \A a, b \in Removing(r) : a = b
    BY <2>1 DEF Removing, RequestInv, RetiredOnce
  <2>3. launch[r] # "Idle" =>
          (r \in registered <=> st[r].registration = "Registered" \/ Removing(r) # {})
    BY <2>1 DEF Removing, RequestInv, RetiredOnce
  <2>4. st[r].registration = "Retired" =>
          /\ guard[r] = "Done" /\ pc[r]["guard"] \notin Result
          /\ st[r].cleanup # "Pending"
          /\ Failed(st[r]) \/ outputEnd[r] = "Ended"
    BY <2>1 DEF RequestInv, RetiredOnce, GuardOnce, ConsumedByOutput
  <2> QED BY <2>2, <2>3, <2>4
<1> QED BY <1>1, LifecycleInvariant, PTL

\* For any number of requests, when Owner::shutdown tells the driver to shut
\* down every request still registered has failed or delivered its terminal
\* (client/core.rs: begin_shutdown).
THEOREM DriverShutsDownLast == Spec => []DriverSeesFailedRequests
<1>1. LifecycleInv => DriverSeesFailedRequests
  BY DEF LifecycleInv, Sweep, DriverSeesFailedRequests
<1> QED BY <1>1, LifecycleInvariant, PTL

\* The acknowledgement of no request changes.
SameAcks == \A r \in Requests : st'[r].cleanup = st[r].cleanup

\* Once a closing client has no request left, nothing is acknowledged any more.
LEMMA StepKeepsAcks ==
  ASSUME LifecycleInv, Next, registered = {}, closing
  PROVE  SameAcks
<1>0. /\ st = [q \in Requests |-> st[q]]
      /\ \A q \in Requests : HasFields(st[q]) /\ RequestInv(q)
  BY DEF LifecycleInv, Shape
<1>1. ASSUME st' = st PROVE SameAcks
  BY <1>1 DEF SameAcks
<1>2. ASSUME NEW r \in Requests, NEW t, t.cleanup = st[r].cleanup, st' = [st EXCEPT ![r] = t]
      PROVE  SameAcks
  BY <1>0, <1>2 DEF SameAcks
<1>3. ASSUME NEW r \in Requests, NEW a, NEW error \in ErrorKind, FailRequest(r, a, error)
      PROVE  SameAcks
  <2>1. Fail(st[r], error).cleanup = st[r].cleanup
    BY <1>0, FailMoves
  <2> QED BY <1>2, <1>3, <2>1 DEF FailRequest, Transition
<1>4. ASSUME NEW r \in Requests, NEW b, NEW finished
      PROVE  /\ StageInput(st[r], b).cleanup = st[r].cleanup
             /\ EnqueueInput(st[r], b).cleanup = st[r].cleanup
             /\ AcceptInput(st[r]).cleanup = st[r].cleanup
             /\ AbandonInput(st[r]).cleanup = st[r].cleanup
             /\ FinishInput(st[r]).cleanup = st[r].cleanup
             /\ PopInput(st[r]).cleanup = st[r].cleanup
             /\ ObserveEof(st[r]).cleanup = st[r].cleanup
             /\ StageOutput(st[r], finished, b).cleanup = st[r].cleanup
             /\ AcceptOutput(st[r]).cleanup = st[r].cleanup
             /\ PopOutput(st[r]).cleanup = st[r].cleanup
  BY <1>0, DataKeepsLife DEF SameLife
<1>5. ASSUME NEW r \in Requests PROVE ConsumeTerminal(st[r]).cleanup = st[r].cleanup
  BY <1>0, FieldNames DEF HasFields, ConsumeTerminal
<1>6. {"Cancelled", "DeadlineExceeded", "ShuttingDown", "Backend"} \subseteq ErrorKind
  BY DEF ErrorKind
<1>7. ASSUME NEW r \in Requests, Start(r) PROVE SameAcks
  BY <1>7, <1>1 DEF Start, Register, LaunchOk, LaunchError
<1>8. ASSUME NEW r \in Requests, Continuation(r) PROVE SameAcks
  <2>1. Retire(st[r]).cleanup = st[r].cleanup
    BY <1>0, RetireFields
  <2> QED BY <1>8, <1>1, <1>2, <2>1 DEF Continuation, DropLeases, Unregister, Changed, Transition
<1>9. ASSUME NEW r \in Requests, User(r) PROVE SameAcks
  <2>1. ASSUME NEW b \in ItemBytes, SendReserve(r, b) \/ TrySend(r, b) PROVE SameAcks
    BY <2>1, <1>1, <1>2, <1>4 DEF SendReserve, TrySend
  <2>2. CASE SendStage(r) \/ PollSend(r)
    BY <2>2, <1>1, <1>2, <1>4 DEF SendStage, PollSend
  <2>3. CASE DropSend(r) \/ FinishSending(r)
    BY <2>3, <1>1, <1>2, <1>4 DEF DropSend, FinishSending
  <2>4. CASE DropInput(r) \/ DropOutput(r) \/ Cancel(r)
    BY <2>4, <1>3, <1>6 DEF DropInput, DropOutput, Cancel
  <2>5. CASE Receive(r)
    BY <2>5, <1>2, <1>4, <1>5 DEF Receive
  <2> QED BY <1>9, <2>1, <2>2, <2>3, <2>4, <2>5 DEF User
<1>10. ASSUME NEW r \in Requests, Expire(r) PROVE SameAcks
  BY <1>10, <1>3, <1>6 DEF Expire
<1>11. ASSUME NEW r \in Requests, Backend(r) PROVE SameAcks
  <2>1. CASE ReadInput(r) \/ ReleasePacket(r)
    BY <2>1, <1>1, <1>2, <1>4 DEF ReadInput, ReleasePacket
  <2>2. ASSUME NEW b \in ItemBytes, EmitReserve(r, b) \/ EmitOverBudget(r, b) PROVE SameAcks
    BY <2>2, <1>1, <1>3, <1>6 DEF EmitReserve, EmitOverBudget
  <2>3. ASSUME NEW finished \in BOOLEAN, EmitStage(r, finished) PROVE SameAcks
    BY <2>3, <1>1, <1>2, <1>4 DEF EmitStage
  <2>4. CASE EmitRejected(r) \/ DropEmit(r) \/ BackendFail(r)
    BY <2>4, <1>3, <1>6 DEF EmitRejected, DropEmit, BackendFail
  <2>5. CASE PollEmit(r)
    BY <2>5, <1>1, <1>2, <1>4 DEF PollEmit
  <2>6. ASSUME NEW result \in Result, GuardFinish(r, result) PROVE SameAcks
    BY <2>6, <1>1 DEF GuardFinish
  <2>7. CASE Close(r)
    <3>1. pc[r]["guard"] \in Result /\ launch[r] # "Idle"
      BY <2>7, <1>0 DEF Close, RequestInv, Untouched, Actor, Result
    <3>2. st[r].cleanup # "Pending"
      BY <3>1, <1>0 DEF RequestInv, RetiredOnce
    <3>3. CompleteCleanup(st[r], pc[r]["guard"]) = st[r]
      BY <3>2 DEF CompleteCleanup
    <3> QED BY <2>7, <3>3, <1>2 DEF Close, Transition
  <2> QED BY <1>11, <2>1, <2>2, <2>3, <2>4, <2>5, <2>6, <2>7 DEF Backend
<1>12. CASE Shutdown
  <2>1. ASSUME NEW r \in Requests, ShutdownFail(r) PROVE SameAcks
    BY <2>1, <1>3, <1>6 DEF ShutdownFail
  <2> QED BY <1>12, <1>1, <2>1 DEF Shutdown, BeginShutdown, ShutdownDriver, DriverFinish
<1> QED BY <1>7, <1>8, <1>9, <1>10, <1>11, <1>12 DEF Next

\* Once a closing client has no request left and its driver has closed, neither
\* changes.
LEMMA StepKeepsCore ==
  ASSUME Next, registered = {}, closing, driverClosed # "None"
  PROVE  registered' = {} /\ driverClosed' = driverClosed
<1>1. ASSUME NEW r \in Requests, Start(r) PROVE registered' = {} /\ driverClosed' = driverClosed
  BY <1>1 DEF Start, Register, LaunchOk, LaunchError, coreVars
<1>2. ASSUME NEW r \in Requests, Continuation(r) PROVE registered' = {} /\ driverClosed' = driverClosed
  BY <1>2 DEF Continuation, DropLeases, Unregister, Changed, coreVars
<1>3. ASSUME NEW r \in Requests, User(r) PROVE UNCHANGED << registered, driverClosed >>
  BY <1>3 DEF User, SendReserve, TrySend, SendStage, PollSend, DropSend, FinishSending,
              DropInput, Receive, DropOutput, Cancel, coreVars
<1>4. ASSUME NEW r \in Requests, Expire(r) PROVE UNCHANGED << registered, driverClosed >>
  BY <1>4 DEF Expire, coreVars
<1>5. ASSUME NEW r \in Requests, Backend(r) PROVE UNCHANGED << registered, driverClosed >>
  BY <1>5 DEF Backend, ReadInput, ReleasePacket, EmitReserve, EmitOverBudget, EmitStage,
              EmitRejected, PollEmit, DropEmit, BackendFail, GuardFinish, Close, coreVars
<1>6. CASE Shutdown
  BY <1>6 DEF Shutdown, BeginShutdown, ShutdownFail, ShutdownDriver, DriverFinish
<1> QED BY <1>1, <1>2, <1>3, <1>4, <1>5, <1>6 DEF Next

\* For any number of requests, what Shutdown::poll waits for stays true, and its
\* result stays the same (client/core.rs: register, driver_closed).
THEOREM ShutdownStaysComplete == Spec => ShutdownIsFinal
<1>1. LifecycleInv /\ [Next]_vars =>
        [ShutdownReady =>
           /\ ShutdownReady' /\ driverClosed' = driverClosed
           /\ \A r \in Requests : st'[r].cleanup = st[r].cleanup]_vars
  <2> SUFFICES ASSUME LifecycleInv, Next, ShutdownReady
               PROVE  /\ ShutdownReady' /\ driverClosed' = driverClosed
                      /\ \A r \in Requests : st'[r].cleanup = st[r].cleanup
    OBVIOUS
  <2>1. registered = {} /\ driverClosed # "None" /\ closing
    BY DEF ShutdownReady, LifecycleInv, Sweep
  <2>2. SameAcks
    BY <2>1, StepKeepsAcks
  <2>3. registered' = {} /\ driverClosed' = driverClosed
    BY <2>1, StepKeepsCore
  <2> QED BY <2>1, <2>2, <2>3 DEF SameAcks, ShutdownReady
<1> QED BY <1>1, LifecycleInvariant, PTL DEF Spec, ShutdownIsFinal
=============================================================================
