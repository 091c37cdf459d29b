------------------------ MODULE ServerRequestsProofs ------------------------
(***************************************************************************)
(* Proofs about ServerRequests for any set of requests, any limits and any *)
(* number of frames: how many models there are, what a successful stream   *)
(* has given out, and what is left when the server is done.                *)
(*                                                                         *)
(* A request is looked at by itself where that suffices (RequestInv of its *)
(* record); the models and slots are counted over all of them (CountInv).  *)
(***************************************************************************)
EXTENDS ServerRequests, FiniteSetTheorems, SequenceTheorems, TLAPS

Messages == {"Header", "Frame", "Event", "Status"}

\* The stages at which a worker owns a model, and those before its first message.
Owning == {"Discard", "Retire", "Load", "Header", "Input", "Infer", "Frame", "Close"}
Unsent == {"Start", "Discard", "Pool", "Retire", "Load", "Header"}

Record == [
  handler   : {"Idle", "Waiting", "Header", "Accepted", "Opened", "Refused"},
  worker    : {"None", "Start", "Discard", "Pool", "Retire", "Load", "Header", "Input",
               "Infer", "Frame", "Close", "Event", "Status", "Exit", "Sent", "Done"},
  last      : BOOLEAN,
  result    : {"Ok", "Error"},
  cleanup   : {"None", "Ok", "Error"},
  model     : BOOLEAN,
  failed    : BOOLEAN,
  frames    : Nat,
  data      : Seq(Messages),
  terminal  : {"None", "Ok", "Error"},
  stream    : {"None", "Open", "Success", "Error", "Dropped"},
  got       : Seq(Messages),
  cancelled : BOOLEAN,
  expired   : BOOLEAN,
  permits   : SUBSET {"Task", "Stream"}]

\* Who shares the permit of a request, and who owns a model.
SlotInv(q) ==
  /\ q.worker = "None" <=> q.handler # "Opened"
  /\ q.stream = "None" <=> q.handler # "Opened"
  /\ q.model <=> q.worker \in Owning
  /\ "Task" \in q.permits <=> \/ q.handler \in {"Header", "Accepted"}
                              \/ q.handler = "Opened" /\ q.worker # "Done"
  /\ "Stream" \in q.permits <=> q.stream = "Open"

\* What was sent to the stream of a request.
Log(q) == q.got \o q.data

\* The message a request with n frames sends as its i-th.
Script(n, i) ==
  IF i = 1 THEN "Header" ELSE IF i <= n + 1 THEN "Frame" ELSE IF i = n + 2 THEN "Event" ELSE "Status"

\* The first m messages have been sent, and no other.
OnScript(q, m) == Len(Log(q)) = m /\ \A i \in 1 .. m : Log(q)[i] = Script(q.frames, i)

\* Everything has been sent, after a successful cleanup.
Complete(q) == OnScript(q, q.frames + 3) /\ q.cleanup = "Ok"

\* How many messages have been sent when nothing has failed.
Written(q) ==
  IF q.worker \in Unsent THEN 0
  ELSE IF q.worker = "Frame" THEN q.frames
  ELSE IF q.worker \in {"Input", "Infer", "Close", "Event"} THEN q.frames + 1
  ELSE IF q.worker = "Status" THEN q.frames + 2
  ELSE q.frames + 3

\* Nothing has failed; the result is kept in the channel once the task has sent it.
Succeeding(q) == (q.result = "Ok" /\ q.worker \notin {"Sent", "Done"}) \/ q.terminal = "Ok"

\* The result and the frames at the stages of the worker.
ResultInv(q) ==
  /\ q.worker \in {"None", "Input", "Infer", "Frame", "Event", "Status"} \union Unsent => q.result = "Ok"
  /\ q.worker \in {"Event", "Status"} => q.cleanup = "Ok"
  /\ q.worker \in {"Exit"} /\ q.result = "Ok" => q.cleanup = "Ok"
  /\ q.terminal = "Ok" => q.cleanup = "Ok"
  /\ q.terminal = "None" \/ q.worker \in {"Sent", "Done"}
  /\ q.worker \in Unsent \union {"None"} => q.frames = 0
  /\ q.worker = "Frame" => q.frames # 0

\* What has been sent, while the stream is there and when it has ended.
LogInv(q) ==
  /\ q.stream \notin {"Open", "Success"} => q.data = << >> /\ q.got = << >>
  /\ q.stream = "Success" => q.data = << >> /\ q.worker = "Done" /\ Complete(q)
  /\ \A i \in 1 .. Len(Log(q)) : Log(q)[i] = "Status" =>
       Complete(q) /\ q.worker \in {"Exit", "Sent", "Done"}
  /\ q.stream = "Open" /\ Succeeding(q) => OnScript(q, Written(q))

RequestInv(q, r) ==
  /\ q \in Record /\ SlotInv(q) /\ ResultInv(q) /\ LogInv(q)
  /\ Len(q.data) <= Capacity /\ q.frames <= FramesOf[r]

Owners == {r \in Requests : req[r].model}
Kept == (IF prepared THEN 1 ELSE 0) + (IF idle # NoKey THEN 1 ELSE 0)

\* The stages of the server, and how many models and slots there are.
ServerInv ==
  /\ stage \in {"Preparing", "Serving", "Workers", "Resources", "Done"}
  /\ shutdown \in BOOLEAN /\ prepared \in BOOLEAN
  /\ notice \in {"None", "Sent"}
  /\ waiter \in {"Waiting", "Overdue", "Reported", "Dropped"}
  /\ idle \in {KeyOf[r] : r \in Requests} \union {DefaultKey, NoKey}
  /\ stage = "Preparing" => ~prepared /\ idle = NoKey /\ \A r \in Requests : req[r].handler = "Idle"
  /\ prepared => idle = NoKey /\ \A r \in Requests : req[r].worker \in {"None", "Start"}
  /\ stage \in {"Workers", "Resources", "Done"} =>
       /\ NoneSpawning
       /\ shutdown \/ \A r \in Requests : req[r].handler = "Idle"
  /\ stage \in {"Resources", "Done"} => WorkersEnded
  /\ stage = "Done" => ~prepared /\ idle = NoKey

CountInv ==
  /\ Cardinality(Admitted) <= Limit
  /\ Cardinality(Owners) + Kept <= Limit

Inv ==
  /\ req = [r \in Requests |-> req[r]]
  /\ \A r \in Requests : RequestInv(req[r], r)
  /\ ServerInv
  /\ CountInv

-----------------------------------------------------------------------------
(* The log of a stream.                                                    *)

\* The log is a sequence of messages.
LEMMA LogIsSeq ==
  ASSUME NEW q \in Record
  PROVE  /\ Log(q) \in Seq(Messages) /\ Len(Log(q)) \in Nat
         /\ Len(Log(q)) = Len(q.got) + Len(q.data)
<1>1. q.got \in Seq(Messages) /\ q.data \in Seq(Messages)
  BY DEF Record
<1> QED BY <1>1, ConcatProperties, LenProperties DEF Log

\* What is said of a log depends on the messages, the frames and the cleanup.
LEMMA SameLog ==
  ASSUME NEW q, NEW p, p.got = q.got, p.data = q.data, p.frames = q.frames
  PROVE  /\ Log(p) = Log(q)
         /\ \A m : OnScript(p, m) <=> OnScript(q, m)
         /\ p.cleanup = q.cleanup => (Complete(p) <=> Complete(q))
BY DEF Log, OnScript, Complete

\* Concatenation of sequences of messages is associative.
LEMMA Associative ==
  \A s, t, u \in Seq(Messages) : (s \o t) \o u = s \o (t \o u)
BY ConcatAssociative

\* A message that is sent comes last.
LEMMA SendLog ==
  ASSUME NEW q \in Record, NEW p \in Record, NEW x \in Messages,
         p.got = q.got, p.data = Append(q.data, x)
  PROVE  /\ Len(Log(p)) = Len(Log(q)) + 1 /\ Log(p)[Len(Log(q)) + 1] = x
         /\ \A i \in 1 .. Len(Log(q)) : Log(p)[i] = Log(q)[i]
<1>1. q.got \in Seq(Messages) /\ q.data \in Seq(Messages)
  BY DEF Record
<1>2. Log(p) = Append(Log(q), x)
  <2>1. Append(q.data, x) = q.data \o << x >>
    BY <1>1, AppendIsConcat
  <2>2. << x >> \in Seq(Messages)
    OBVIOUS
  <2>3. q.got \o (q.data \o << x >>) = (q.got \o q.data) \o << x >>
    BY <1>1, <2>2, Associative
  <2>4. Append(Log(q), x) = Log(q) \o << x >>
    BY LogIsSeq, AppendIsConcat
  <2> QED BY <2>1, <2>3, <2>4 DEF Log
<1> QED BY <1>2, LogIsSeq, AppendProperties

\* Reading moves a message from the channel to what was given out.
LEMMA ReadLog ==
  ASSUME NEW q \in Record, q.data # << >>
  PROVE  Append(q.got, Head(q.data)) \o Tail(q.data) = Log(q)
<1>1. q.got \in Seq(Messages) /\ q.data \in Seq(Messages)
  BY DEF Record
<1>2. /\ Head(q.data) \in Messages /\ Tail(q.data) \in Seq(Messages)
      /\ Len(Tail(q.data)) = Len(q.data) - 1 /\ Len(q.data) \in Nat
      /\ \A i \in 1 .. Len(Tail(q.data)) : Tail(q.data)[i] = q.data[i + 1]
      /\ Head(q.data) = q.data[1]
  BY <1>1, HeadTailProperties, LenProperties
<1>3. << Head(q.data) >> \in Seq(Messages)
  BY <1>2
<1>4. q.data = << Head(q.data) >> \o Tail(q.data)
  <2>1. << Head(q.data) >> \o Tail(q.data) \in Seq(Messages)
    BY <1>2, <1>3, ConcatProperties
  <2>2. /\ Len(<< Head(q.data) >> \o Tail(q.data)) = 1 + Len(Tail(q.data))
        /\ \A i \in 1 .. 1 + Len(Tail(q.data)) : (<< Head(q.data) >> \o Tail(q.data))[i] =
             IF i <= 1 THEN << Head(q.data) >>[i] ELSE Tail(q.data)[i - 1]
    <3>1. Len(<< Head(q.data) >>) = 1
      OBVIOUS
    <3> QED BY <1>2, <1>3, <3>1, ConcatProperties
  <2>3. \A i \in 1 .. Len(q.data) : (<< Head(q.data) >> \o Tail(q.data))[i] = q.data[i]
    <3> SUFFICES ASSUME NEW i \in 1 .. Len(q.data)
                 PROVE  (<< Head(q.data) >> \o Tail(q.data))[i] = q.data[i]
      OBVIOUS
    <3>1. CASE i = 1
      BY <1>2, <2>2, <3>1
    <3>2. CASE i # 1
      <4>1. i - 1 \in 1 .. Len(Tail(q.data)) /\ (i - 1) + 1 = i
        BY <1>2, <3>2
      <4>2. (<< Head(q.data) >> \o Tail(q.data))[i] = Tail(q.data)[i - 1]
        BY <1>2, <2>2, <3>2
      <4>3. Tail(q.data)[i - 1] = q.data[(i - 1) + 1]
        BY <1>2, <4>1
      <4> QED BY <4>1, <4>2, <4>3
    <3> QED BY <3>1, <3>2
  <2> QED BY <1>1, <1>2, <2>1, <2>2, <2>3, SeqEqual
<1>5. Append(q.got, Head(q.data)) = q.got \o << Head(q.data) >>
  BY <1>1, <1>2, AppendIsConcat
<1>6. (q.got \o << Head(q.data) >>) \o Tail(q.data) = q.got \o (<< Head(q.data) >> \o Tail(q.data))
  BY <1>1, <1>2, <1>3, Associative
<1> QED BY <1>4, <1>5, <1>6 DEF Log

-----------------------------------------------------------------------------
(* One request.                                                            *)

\* A step of request r keeps what is said of it.
Local(r) == req' = [req EXCEPT ![r] = req'[r]] /\ RequestInv(req'[r], r)

\* Nothing has been sent to a stream that is not there.
LEMMA NoLog ==
  ASSUME NEW q \in Record, q.stream \notin {"Open", "Success"}, q.data = << >>, q.got = << >>
  PROVE  LogInv(q)
<1>1. Len(Log(q)) = 0
  <2>1. Len(q.got) = 0 /\ Len(q.data) = 0
    OBVIOUS
  <2>2. Len(Log(q)) = Len(q.got) + Len(q.data)
    BY LogIsSeq
  <2> QED BY <2>1, <2>2
<1> QED BY <1>1 DEF LogInv

\* The handler has no stream yet.
LEMMA HandlerLocal ==
  ASSUME Inv, NEW r \in Requests, Arrive(r) \/ Admit(r) \/ ReadHeader(r) \/ Refuse(r)
  PROVE  Local(r)
<1> SUFFICES ASSUME NEW q, q = req[r], NEW p, p = req'[r] PROVE Local(r)
  OBVIOUS
<1>1. req = [v \in Requests |-> req[v]] /\ RequestInv(q, r)
  BY DEF Inv
<1>2. q \in Record /\ SlotInv(q) /\ ResultInv(q) /\ LogInv(q)
  BY <1>1 DEF RequestInv
<1>3. req' = [req EXCEPT ![r] = p]
  BY <1>1 DEF Arrive, Admit, ReadHeader, Refuse
<1>4. /\ p \in Record
      /\ p.worker = q.worker /\ p.stream = q.stream /\ p.result = q.result /\ p.terminal = q.terminal
      /\ p.data = q.data /\ p.got = q.got /\ p.frames = q.frames /\ p.model = q.model
  BY <1>1, <1>2 DEF Arrive, Admit, ReadHeader, Refuse, Record
<1>5. q.handler # "Opened" /\ p.handler # "Opened" /\ q.stream = "None"
      /\ ("Task" \in p.permits <=> p.handler \in {"Header", "Accepted"}) /\ "Stream" \notin p.permits
  <2>1. q.handler # "Opened" /\ q.stream = "None" /\ "Stream" \notin q.permits
    BY <1>2 DEF Arrive, Admit, ReadHeader, Refuse, SlotInv
  <2>2. CASE Arrive(r)
    BY <1>1, <1>2, <2>1, <2>2 DEF Arrive, Record, SlotInv
  <2>3. CASE Admit(r)
    BY <1>1, <1>2, <2>1, <2>3 DEF Admit, Record, SlotInv
  <2>4. CASE ReadHeader(r)
    BY <1>1, <1>2, <2>1, <2>4 DEF ReadHeader, Record, SlotInv
  <2>5. CASE Refuse(r)
    BY <1>1, <1>2, <2>1, <2>5 DEF Refuse, Record, SlotInv
  <2> QED BY <2>1, <2>2, <2>3, <2>4, <2>5
<1>6. SlotInv(p) /\ ResultInv(p) 
  BY <1>2, <1>4, <1>5 DEF SlotInv, ResultInv, Unsent
<1>7. LogInv(p)
  BY <1>2, <1>4, <1>5, NoLog DEF LogInv
<1> QED BY <1>1, <1>3, <1>4, <1>6, <1>7 DEF Local, RequestInv

\* A stream is opened with nothing sent.
LEMMA SpawnLocal ==
  ASSUME Inv, NEW r \in Requests, Spawn(r)
  PROVE  Local(r)
<1> SUFFICES ASSUME NEW q, q = req[r], NEW p, p = req'[r] PROVE Local(r)
  OBVIOUS
<1>1. req = [v \in Requests |-> req[v]] /\ RequestInv(q, r)
  BY DEF Inv
<1>2. q \in Record /\ SlotInv(q) /\ ResultInv(q) /\ LogInv(q)
  BY <1>1 DEF RequestInv
<1>3. req' = [req EXCEPT ![r] = p] /\ q.handler = "Accepted" /\ q.stream = "None" /\ q.worker = "None"
  BY <1>1, <1>2 DEF Spawn, SlotInv
<1>4. /\ p \in Record
      /\ p.handler = "Opened" /\ p.worker = "Start" /\ p.stream = "Open" /\ p.permits = {"Task", "Stream"}
      /\ p.result = q.result /\ p.terminal = q.terminal /\ p.cleanup = q.cleanup
      /\ p.data = q.data /\ p.got = q.got /\ p.frames = q.frames /\ p.model = q.model
  BY <1>1, <1>2 DEF Spawn, Record
<1>5. SlotInv(p) /\ ResultInv(p)
  BY <1>2, <1>3, <1>4 DEF SlotInv, ResultInv, Unsent, Owning
<1>6. LogInv(p)
  <2>1. q.data = << >> /\ q.got = << >>
    BY <1>2, <1>3 DEF LogInv
  <2>2. Len(Log(p)) = 0
    <3>1. Len(p.got) = 0 /\ Len(p.data) = 0
      BY <2>1, <1>4
    <3>2. Len(Log(p)) = Len(p.got) + Len(p.data)
      BY <1>4, LogIsSeq
    <3> QED BY <3>1, <3>2
  <2> QED BY <1>4, <2>2 DEF LogInv, OnScript, Written, Unsent
<1> QED BY <1>1, <1>3, <1>4, <1>5, <1>6 DEF Local, RequestInv

\* The worker goes on, and nothing is sent.
LEMMA QuietLog ==
  ASSUME NEW q \in Record, NEW p \in Record, LogInv(q), q.worker \notin {"Exit", "Sent", "Done"},
         p.got = q.got, p.data = q.data, p.frames = q.frames, p.stream = q.stream,
         Succeeding(p) => Succeeding(q) /\ Written(p) = Written(q)
  PROVE  LogInv(p)
<1>1. q.stream # "Success"
  BY DEF LogInv
<1>2. \A i \in 1 .. Len(Log(q)) : Log(q)[i] # "Status"
  BY DEF LogInv
<1>3. Log(p) = Log(q) /\ \A m : OnScript(p, m) <=> OnScript(q, m)
  BY SameLog
<1> QED BY <1>1, <1>2, <1>3 DEF LogInv

\* A step of the worker that keeps its handler, its stream and its permit.
LEMMA WorkerSlot ==
  ASSUME NEW q, NEW p, SlotInv(q), q.worker \notin {"None", "Done"}, p.worker \notin {"None", "Done"},
         p.handler = q.handler, p.stream = q.stream, p.permits = q.permits,
         p.model <=> p.worker \in Owning
  PROVE  SlotInv(p)
BY DEF SlotInv

\* Until the header nothing is sent.
LEMMA StartRecord ==
  ASSUME NEW r, NEW q, RequestInv(q, r), NEW w \in Unsent, NEW m \in BOOLEAN, NEW p,
         q.worker \in Unsent, m <=> w \in Owning,
         p = [q EXCEPT !.model = m, !.worker = w]
  PROVE  RequestInv(p, r)
<1>1. q \in Record /\ SlotInv(q) /\ ResultInv(q) /\ LogInv(q)
  BY DEF RequestInv
<1>2. p \in Record
  BY <1>1 DEF Record, Unsent
<1>3. /\ p.handler = q.handler /\ p.stream = q.stream /\ p.permits = q.permits
      /\ p.terminal = q.terminal /\ p.cleanup = q.cleanup /\ p.result = q.result
      /\ p.data = q.data /\ p.got = q.got /\ p.frames = q.frames
      /\ p.worker = w /\ p.model = m
  BY <1>1 DEF Record
<1>4. SlotInv(p)
  <2>1. p.model <=> p.worker \in Owning
    BY <1>3
  <2>2. q.worker \notin {"None", "Done"} /\ p.worker \notin {"None", "Done"}
    BY <1>3 DEF Unsent
  <2> QED BY <1>1, <1>3, <2>1, <2>2, WorkerSlot
<1>5. ResultInv(p)
  BY <1>1, <1>3 DEF ResultInv, Unsent
<1>6. LogInv(p)
  <2>1. Succeeding(p) => Succeeding(q) /\ Written(p) = Written(q)
    BY <1>1, <1>3 DEF Succeeding, Written, Unsent, ResultInv
  <2>2. q.worker \notin {"Exit", "Sent", "Done"}
    BY DEF Unsent
  <2> QED BY <1>1, <1>2, <1>3, <2>1, <2>2, QuietLog
<1> QED BY <1>2, <1>3, <1>4, <1>5, <1>6 DEF RequestInv

\* The worker fails before it has a backend.
LEMMA FailRecord ==
  ASSUME NEW r, NEW q, RequestInv(q, r), NEW p, q.worker \in Unsent,
         p = [q EXCEPT !.worker = "Exit", !.result = "Error", !.model = FALSE]
  PROVE  RequestInv(p, r)
<1>1. q \in Record /\ SlotInv(q) /\ ResultInv(q) /\ LogInv(q)
  BY DEF RequestInv
<1>2. p \in Record
  BY <1>1 DEF Record
<1>3. /\ p.handler = q.handler /\ p.stream = q.stream /\ p.permits = q.permits
      /\ p.terminal = q.terminal /\ p.cleanup = q.cleanup
      /\ p.data = q.data /\ p.got = q.got /\ p.frames = q.frames
      /\ p.worker = "Exit" /\ p.model = FALSE /\ p.result = "Error"
  BY <1>1 DEF Record
<1>4. SlotInv(p)
  BY <1>1, <1>3, WorkerSlot DEF Unsent, Owning
<1>5. ResultInv(p)
  BY <1>1, <1>3 DEF ResultInv, Unsent
<1>6. LogInv(p)
  <2>1. ~Succeeding(p)
    BY <1>1, <1>3 DEF Succeeding, Unsent, ResultInv
  <2> QED BY <1>1, <1>2, <1>3, <2>1, QuietLog DEF Unsent
<1> QED BY <1>2, <1>3, <1>4, <1>5, <1>6 DEF RequestInv

\* The record of a request after a step.
LEMMA SetRequest ==
  ASSUME Inv, NEW r \in Requests, NEW p, req' = [req EXCEPT ![r] = p], RequestInv(p, r)
  PROVE  Local(r)
BY DEF Inv, Local

\* Factory::start.
LEMMA StartLocal ==
  ASSUME Inv, NEW r \in Requests, Start(r) \/ Discard(r) \/ Pool(r) \/ Retire(r) \/ Load(r)
  PROVE  Local(r)
<1> SUFFICES ASSUME NEW q, q = req[r] PROVE Local(r)
  OBVIOUS
<1>1. RequestInv(q, r) /\ q \in Record
  BY DEF Inv, RequestInv
<1>2. CASE Start(r)
  <2> DEFINE w == IF ~prepared THEN "Pool" ELSE IF KeyOf[r] = DefaultKey THEN "Header" ELSE "Discard"
             p == [q EXCEPT !.model = prepared, !.worker = w]
  <2>1. q.worker = "Start" /\ req' = [req EXCEPT ![r] = p] /\ prepared \in BOOLEAN
    BY <1>2 DEF Start, Inv, ServerInv
  <2>2. w \in Unsent /\ (prepared <=> w \in Owning) /\ q.worker \in Unsent
    BY <2>1 DEF Unsent, Owning
  <2>3. RequestInv(p, r)
    BY <1>1, <2>1, <2>2, StartRecord
  <2> QED BY <2>1, <2>3, SetRequest
<1>3. CASE Discard(r)
  <2> DEFINE p == [q EXCEPT !.model = FALSE, !.worker = "Pool"]
             e == [q EXCEPT !.worker = "Exit", !.result = "Error", !.model = FALSE]
  <2>1. q.worker = "Discard" /\ (req' = [req EXCEPT ![r] = p] \/ req' = [req EXCEPT ![r] = e])
    BY <1>3 DEF Discard, StartFails
  <2>2. q.worker \in Unsent /\ "Pool" \in Unsent /\ "Pool" \notin Owning
    BY <2>1 DEF Unsent, Owning
  <2>3. RequestInv(p, r) /\ RequestInv(e, r)
    BY <1>1, <2>1, <2>2, StartRecord, FailRecord
  <2> QED BY <2>1, <2>3, SetRequest
<1>4. CASE Pool(r)
  <2> DEFINE w == IF idle = KeyOf[r] THEN "Header" ELSE IF idle = NoKey THEN "Load" ELSE "Retire"
             p == [q EXCEPT !.model = TRUE, !.worker = w]
  <2>1. q.worker = "Pool" /\ req' = [req EXCEPT ![r] = p]
    BY <1>4 DEF Pool
  <2>2. w \in Unsent /\ w \in Owning /\ q.worker \in Unsent
    BY <2>1 DEF Unsent, Owning
  <2>3. RequestInv(p, r)
    BY <1>1, <2>1, <2>2, StartRecord
  <2> QED BY <2>1, <2>3, SetRequest
<1>5. CASE Retire(r) \/ Load(r)
  <2> DEFINE w == IF q.worker = "Retire" THEN "Load" ELSE "Header"
             p == [q EXCEPT !.worker = w]
             e == [q EXCEPT !.worker = "Exit", !.result = "Error", !.model = FALSE]
  <2>1. q.worker \in {"Retire", "Load"} /\ (req' = [req EXCEPT ![r] = p] \/ req' = [req EXCEPT ![r] = e])
    BY <1>5 DEF Retire, Load, StartFails
  <2>2. q.worker \in Unsent /\ w \in Unsent /\ w \in Owning /\ q.worker \in Owning
    BY <2>1 DEF Unsent, Owning
  <2>3. p = [q EXCEPT !.model = TRUE, !.worker = w]
    <3>1. q.model = TRUE
      BY <1>1, <2>2 DEF RequestInv, SlotInv, Record
    <3> HIDE DEF w
    <3> QED BY <1>1, <3>1 DEF Record
  <2>4. RequestInv(p, r) /\ RequestInv(e, r)
    BY <1>1, <2>2, <2>3, StartRecord, FailRecord
  <2> QED BY <2>1, <2>4, SetRequest
<1> QED BY <1>2, <1>3, <1>4, <1>5
-----------------------------------------------------------------------------
(* The worker, from its first message to its end.                          *)

\* While nothing has failed the log is what the stage of the worker says.
LEMMA ScriptedLog ==
  ASSUME NEW q \in Record, q.stream = "Open", OnScript(q, Written(q)),
         q.worker \notin {"None", "Sent", "Done"}, q.worker = "Exit" => q.cleanup = "Ok",
         q.worker \in Unsent => q.frames = 0
  PROVE  LogInv(q)
<1>1. q.frames \in Nat /\ Log(q) \in Seq(Messages) /\ Len(Log(q)) = Written(q)
  BY LogIsSeq DEF Record, OnScript
<1>2. \A i \in 1 .. Len(Log(q)) : Log(q)[i] = "Status" => Written(q) = q.frames + 3 /\ q.worker = "Exit"
  <2> SUFFICES ASSUME NEW i \in 1 .. Len(Log(q)), Log(q)[i] = "Status"
               PROVE  Written(q) = q.frames + 3 /\ q.worker = "Exit"
    OBVIOUS
  <2>1. Script(q.frames, i) = "Status" /\ i <= Written(q)
    BY <1>1 DEF OnScript
  <2>2. i >= q.frames + 3
    BY <1>1, <2>1 DEF Script
  <2>3. q.worker \in {"Start", "Discard", "Pool", "Retire", "Load", "Header", "Input", "Infer",
                      "Frame", "Close", "Event", "Status", "Exit"}
    BY DEF Record
  <2> QED BY <1>1, <2>1, <2>2, <2>3 DEF Written, Unsent
<1> QED BY <1>1, <1>2 DEF LogInv, Complete

\* send.
LEMMA SendRecord ==
  ASSUME NEW r, NEW q, RequestInv(q, r),
         q.worker \in {"Header", "Frame", "Event", "Status"}, q.stream = "Open",
         Len(q.data) < Capacity
  PROVE  RequestInv([q EXCEPT !.data = Append(@, q.worker), !.worker = After(q.worker)], r)
<1> SUFFICES ASSUME NEW p, p = [q EXCEPT !.data = Append(@, q.worker), !.worker = After(q.worker)]
             PROVE  RequestInv(p, r)
  OBVIOUS
<1> DEFINE x == q.worker
<1>1. q \in Record /\ SlotInv(q) /\ ResultInv(q) /\ LogInv(q)
  BY DEF RequestInv
<1>2. After(x) \in {"Input", "Infer", "Status", "Exit"} /\ x \in Messages
  BY DEF After, Messages
<1>3. Append(q.data, x) \in Seq(Messages) /\ Len(Append(q.data, x)) = Len(q.data) + 1 /\ Len(q.data) \in Nat
  <2>1. q.data \in Seq(Messages)
    BY <1>1 DEF Record
  <2> QED BY <1>2, <2>1, AppendProperties, LenProperties
<1>4. p \in Record
  <2> DEFINE d == Append(q.data, x)
             w == After(x)
  <2>1. p = [q EXCEPT !.data = d, !.worker = w]
    OBVIOUS
  <2>2. d \in Seq(Messages) /\ w \in {"Input", "Infer", "Status", "Exit"}
    BY <1>2, <1>3
  <2> HIDE DEF d, w
  <2> QED BY <1>1, <2>1, <2>2 DEF Record
<1>5. /\ p.handler = q.handler /\ p.stream = q.stream /\ p.permits = q.permits
      /\ p.terminal = q.terminal /\ p.cleanup = q.cleanup /\ p.result = q.result
      /\ p.data = Append(q.data, x) /\ p.got = q.got /\ p.frames = q.frames
      /\ p.worker = After(x) /\ p.model = q.model
  BY <1>1 DEF Record
<1>6. SlotInv(p)
  <2>1. p.model <=> p.worker \in Owning
    BY <1>1, <1>5 DEF SlotInv, Owning, After
  <2>2. p.worker \notin {"None", "Done"}
    BY <1>2, <1>5
  <2> QED BY <1>1, <1>5, <2>1, <2>2, WorkerSlot
<1>7. q.result = "Ok" /\ (x \in {"Event", "Status"} => q.cleanup = "Ok") /\ q.terminal = "None"
  BY <1>1 DEF ResultInv, Unsent
<1>8. ResultInv(p)
  BY <1>2, <1>5, <1>7 DEF ResultInv, Unsent, After
<1>9. OnScript(p, Written(p))
  <2>1. q.frames \in Nat /\ (x = "Header" => q.frames = 0) /\ (x = "Frame" => q.frames # 0)
    BY <1>1 DEF Record, ResultInv, Unsent
  <2>2. OnScript(q, Written(q))
    BY <1>1, <1>7 DEF LogInv, Succeeding
  <2>3. Written(q) \in Nat /\ Written(p) = Written(q) + 1
    BY <1>5, <2>1 DEF Written, Unsent, After
  <2>4. Script(q.frames, Written(q) + 1) = x
    BY <2>1 DEF Script, Written, Unsent
  <2>5. /\ Len(Log(p)) = Len(Log(q)) + 1 /\ Log(p)[Len(Log(q)) + 1] = x
        /\ \A i \in 1 .. Len(Log(q)) : Log(p)[i] = Log(q)[i]
    BY <1>1, <1>2, <1>4, <1>5, SendLog
  <2>6. Len(Log(q)) = Written(q) /\ \A i \in 1 .. Written(q) : Log(q)[i] = Script(q.frames, i)
    BY <2>2 DEF OnScript
  <2>7. \A i \in 1 .. Written(p) : Log(p)[i] = Script(p.frames, i)
    <3> SUFFICES ASSUME NEW i \in 1 .. Written(p) PROVE Log(p)[i] = Script(q.frames, i)
      BY <1>5
    <3>1. i \in 1 .. Written(q) \/ i = Written(q) + 1
      BY <2>3
    <3> HIDE DEF x
    <3> QED BY <2>4, <2>5, <2>6, <3>1
  <2> QED BY <2>3, <2>5, <2>6, <2>7 DEF OnScript
<1>10. LogInv(p)
  <2>1. p.worker = "Exit" => p.cleanup = "Ok"
    BY <1>5, <1>7 DEF After
  <2>2. p.worker \notin {"None", "Sent", "Done"} /\ p.worker \notin Unsent
    BY <1>2, <1>5 DEF Unsent
  <2> QED BY <1>4, <1>5, <1>9, <2>1, <2>2, ScriptedLog
<1>11. Len(p.data) <= Capacity /\ p.frames <= FramesOf[r]
  BY <1>3, <1>5, ServerAssumption DEF RequestInv
<1> QED BY <1>4, <1>6, <1>8, <1>10, <1>11 DEF RequestInv

\* read_input, and next_frame when it has no frame.
LEMMA InputRecord ==
  ASSUME NEW r, NEW q, RequestInv(q, r), NEW p, NEW w, NEW last \in BOOLEAN,
         \/ q.worker = "Input" /\ w = "Infer"
         \/ q.worker = "Infer" /\ w \in {"Input", "Close"},
         p = [q EXCEPT !.worker = w, !.last = last]
  PROVE  RequestInv(p, r)
<1>1. q \in Record /\ SlotInv(q) /\ ResultInv(q) /\ LogInv(q)
  BY DEF RequestInv
<1>2. w \in {"Infer", "Input", "Close"} /\ q.worker \in {"Input", "Infer"}
  OBVIOUS
<1>3. p \in Record
  BY <1>1, <1>2 DEF Record
<1>4. /\ p.handler = q.handler /\ p.stream = q.stream /\ p.permits = q.permits
      /\ p.terminal = q.terminal /\ p.cleanup = q.cleanup /\ p.result = q.result
      /\ p.data = q.data /\ p.got = q.got /\ p.frames = q.frames
      /\ p.worker = w /\ p.model = q.model
  BY <1>1 DEF Record
<1>5. SlotInv(p)
  <2>1. p.model <=> p.worker \in Owning
    BY <1>1, <1>2, <1>4 DEF SlotInv, Owning
  <2> QED BY <1>1, <1>2, <1>4, <2>1, WorkerSlot
<1>6. ResultInv(p)
  BY <1>1, <1>2, <1>4 DEF ResultInv, Unsent
<1>7. LogInv(p)
  <2>1. Succeeding(p) => Succeeding(q)
    BY <1>1, <1>2, <1>4 DEF Succeeding, ResultInv
  <2>2. Written(p) = Written(q)
    BY <1>2, <1>4 DEF Written, Unsent
  <2>3. q.worker \notin {"Exit", "Sent", "Done"}
    BY <1>2
  <2> QED BY <1>1, <1>3, <1>4, <2>1, <2>2, <2>3, QuietLog
<1> QED BY <1>3, <1>4, <1>5, <1>6, <1>7 DEF RequestInv

\* next_frame has a frame, which is not yet sent.
LEMMA FrameRecord ==
  ASSUME NEW r, NEW q, RequestInv(q, r), NEW p, q.worker = "Infer",
         q.frames < FramesOf[r], FramesOf[r] \in Nat,
         p = [q EXCEPT !.worker = "Frame", !.frames = @ + 1]
  PROVE  RequestInv(p, r)
<1>1. q \in Record /\ SlotInv(q) /\ ResultInv(q) /\ LogInv(q) /\ q.frames \in Nat
  BY DEF RequestInv, Record
<1>2. p \in Record
  <2> DEFINE n == q.frames + 1
  <2>1. n \in Nat /\ p = [q EXCEPT !.worker = "Frame", !.frames = n]
    BY <1>1
  <2> HIDE DEF n
  <2> QED BY <1>1, <2>1 DEF Record
<1>3. /\ p.handler = q.handler /\ p.stream = q.stream /\ p.permits = q.permits
      /\ p.terminal = q.terminal /\ p.cleanup = q.cleanup /\ p.result = q.result
      /\ p.data = q.data /\ p.got = q.got /\ p.frames = q.frames + 1
      /\ p.worker = "Frame" /\ p.model = q.model
  BY <1>1 DEF Record
<1>4. SlotInv(p)
  <2>1. p.model <=> p.worker \in Owning
    BY <1>1, <1>3 DEF SlotInv, Owning
  <2> QED BY <1>1, <1>3, <2>1, WorkerSlot
<1>5. ResultInv(p)
  BY <1>1, <1>3 DEF ResultInv, Unsent
<1>6. LogInv(p)
  <2>1. q.stream # "Success" /\ Log(p) = Log(q) /\ \A i \in 1 .. Len(Log(q)) : Log(q)[i] # "Status"
    BY <1>1, <1>3 DEF LogInv, Log
  <2>2. p.stream = "Open" => OnScript(p, Written(p))
    <3> SUFFICES ASSUME p.stream = "Open" PROVE OnScript(p, Written(p))
      OBVIOUS
    <3>1. q.result = "Ok"
      BY <1>1 DEF ResultInv
    <3>2. OnScript(q, Written(q))
      BY <1>1, <1>3, <3>1 DEF LogInv, Succeeding
    <3>3. Written(q) = q.frames + 1 /\ Written(p) = q.frames + 1
      BY <1>3 DEF Written, Unsent
    <3>4. \A i \in 1 .. q.frames + 1 : Script(q.frames, i) = Script(p.frames, i)
      BY <1>1, <1>3 DEF Script
    <3> QED BY <2>1, <3>2, <3>3, <3>4 DEF OnScript
  <2> QED BY <1>1, <1>3, <2>1, <2>2 DEF LogInv
<1>7. p.frames <= FramesOf[r] /\ Len(p.data) <= Capacity
  BY <1>1, <1>3 DEF RequestInv
<1> QED BY <1>2, <1>4, <1>5, <1>6, <1>7 DEF RequestInv

\* The worker fails while it streams or reports.
LEMMA ErrorRecord ==
  ASSUME NEW r, NEW q, RequestInv(q, r), NEW p, NEW w, NEW f \in BOOLEAN,
         \/ q.worker \in {"Header", "Input", "Infer", "Frame"} /\ w = "Close"
         \/ q.worker \in {"Event", "Status"} /\ w = "Exit",
         p = [q EXCEPT !.worker = w, !.result = "Error", !.failed = f]
  PROVE  RequestInv(p, r)
<1>1. q \in Record /\ SlotInv(q) /\ ResultInv(q) /\ LogInv(q)
  BY DEF RequestInv
<1>2. /\ w \in {"Close", "Exit"}
      /\ q.worker \in {"Header", "Input", "Infer", "Frame", "Event", "Status"}
  OBVIOUS
<1>3. p \in Record
  BY <1>1, <1>2 DEF Record
<1>4. /\ p.handler = q.handler /\ p.stream = q.stream /\ p.permits = q.permits
      /\ p.terminal = q.terminal /\ p.cleanup = q.cleanup /\ p.result = "Error"
      /\ p.data = q.data /\ p.got = q.got /\ p.frames = q.frames
      /\ p.worker = w /\ p.model = q.model
  BY <1>1 DEF Record
<1>5. SlotInv(p)
  <2>1. p.model <=> p.worker \in Owning
    BY <1>1, <1>4 DEF SlotInv, Owning
  <2>2. q.worker \notin {"None", "Done"} /\ p.worker \notin {"None", "Done"}
    BY <1>2, <1>4
  <2> QED BY <1>1, <1>4, <2>1, <2>2, WorkerSlot
<1>6. ResultInv(p)
  BY <1>1, <1>2, <1>4 DEF ResultInv, Unsent
<1>7. LogInv(p)
  <2>1. ~Succeeding(p)
    BY <1>1, <1>2, <1>4 DEF Succeeding, ResultInv
  <2>2. q.worker \notin {"Exit", "Sent", "Done"}
    BY <1>2
  <2> QED BY <1>1, <1>3, <1>4, <2>1, <2>2, QuietLog
<1> QED BY <1>3, <1>4, <1>5, <1>6, <1>7 DEF RequestInv

\* What the cleanup leaves is a record.
LEMMA CloseIsRecord ==
  ASSUME NEW q \in Record, NEW c \in {"Ok", "Error"}, NEW w \in {"Event", "Exit"}, NEW s \in {"Ok", "Error"}
  PROVE  [q EXCEPT !.model = FALSE, !.cleanup = c, !.last = FALSE, !.failed = FALSE,
                   !.worker = w, !.result = s] \in Record
BY DEF Record

\* finish.
LEMMA CloseRecord ==
  ASSUME NEW r, NEW q, RequestInv(q, r), NEW p, NEW c \in {"Ok", "Error"}, NEW w, NEW s,
         q.worker = "Close",
         w = IF q.result = "Ok" /\ c = "Ok" THEN "Event" ELSE "Exit",
         s = IF c = "Ok" THEN q.result ELSE "Error",
         p = [q EXCEPT !.model = FALSE, !.cleanup = c, !.last = FALSE, !.failed = FALSE,
                       !.worker = w, !.result = s]
  PROVE  RequestInv(p, r)
<1>1. q \in Record /\ SlotInv(q) /\ ResultInv(q) /\ LogInv(q) /\ q.result \in {"Ok", "Error"}
  BY DEF RequestInv, Record
<1>2. w \in {"Event", "Exit"} /\ s \in {"Ok", "Error"} /\ (w = "Event" <=> s = "Ok")
      /\ (s = "Ok" => q.result = "Ok" /\ c = "Ok")
  BY <1>1
<1>3. p \in Record
  BY <1>1, <1>2, CloseIsRecord
<1>4. /\ p.handler = q.handler /\ p.stream = q.stream /\ p.permits = q.permits
      /\ p.terminal = q.terminal /\ p.cleanup = c /\ p.result = s
      /\ p.data = q.data /\ p.got = q.got /\ p.frames = q.frames
      /\ p.worker = w /\ p.model = FALSE
  BY <1>1 DEF Record
<1>5. SlotInv(p)
  <2>1. p.model <=> p.worker \in Owning
    BY <1>2, <1>4 DEF Owning
  <2>2. q.worker \notin {"None", "Done"} /\ p.worker \notin {"None", "Done"}
    BY <1>2, <1>4
  <2> QED BY <1>1, <1>4, <2>1, <2>2, WorkerSlot
<1>6. q.terminal = "None"
  BY <1>1 DEF ResultInv
<1>7. ResultInv(p)
  BY <1>2, <1>4, <1>6 DEF ResultInv, Unsent
<1>8. LogInv(p)
  <2>1. Succeeding(p) => w = "Event" /\ q.result = "Ok"
    BY <1>2, <1>4, <1>6 DEF Succeeding
  <2>2. Succeeding(p) => Succeeding(q) /\ Written(p) = Written(q)
    BY <1>4, <2>1 DEF Succeeding, Written, Unsent
  <2>3. q.worker \notin {"Exit", "Sent", "Done"}
    OBVIOUS
  <2>4. q \in Record /\ LogInv(q)
    BY <1>1
  <2>5. p.got = q.got /\ p.data = q.data /\ p.frames = q.frames /\ p.stream = q.stream
    BY <1>4
  <2> QED BY <1>3, <2>2, <2>3, <2>4, <2>5, QuietLog, Zenon
<1> QED BY <1>3, <1>4, <1>5, <1>7, <1>8 DEF RequestInv

\* The result is sent.
LEMMA ExitRecord ==
  ASSUME NEW r, NEW q, RequestInv(q, r), NEW p, NEW t, q.worker = "Exit",
         t = IF q.stream = "Open" THEN q.result ELSE "None",
         p = [q EXCEPT !.worker = "Sent", !.result = "Ok", !.terminal = t]
  PROVE  RequestInv(p, r)
<1>1. q \in Record /\ SlotInv(q) /\ ResultInv(q) /\ LogInv(q) /\ q.result \in {"Ok", "Error"}
  BY DEF RequestInv, Record
<1>2. t \in {"None", "Ok", "Error"} /\ (t = "Ok" => q.result = "Ok" /\ q.stream = "Open")
  BY <1>1
<1>3. p \in Record
  BY <1>1, <1>2 DEF Record
<1>4. /\ p.handler = q.handler /\ p.stream = q.stream /\ p.permits = q.permits
      /\ p.terminal = t /\ p.cleanup = q.cleanup /\ p.result = "Ok"
      /\ p.data = q.data /\ p.got = q.got /\ p.frames = q.frames
      /\ p.worker = "Sent" /\ p.model = q.model
  BY <1>1 DEF Record
<1>5. SlotInv(p)
  <2>1. p.model <=> p.worker \in Owning
    BY <1>1, <1>4 DEF SlotInv, Owning
  <2> QED BY <1>1, <1>4, <2>1, WorkerSlot
<1>6. ResultInv(p)
  BY <1>1, <1>2, <1>4 DEF ResultInv, Unsent
<1>7. LogInv(p)
  <2>1. Log(p) = Log(q) /\ (\A m : OnScript(p, m) <=> OnScript(q, m)) /\ (Complete(p) <=> Complete(q))
    BY <1>4, SameLog
  <2>2. Succeeding(p) => Succeeding(q)
    BY <1>2, <1>4 DEF Succeeding
  <2>3. Written(p) = Written(q)
    BY <1>4 DEF Written, Unsent
  <2> QED BY <1>1, <1>4, <2>1, <2>2, <2>3 DEF LogInv
<1> QED BY <1>3, <1>4, <1>5, <1>6, <1>7 DEF RequestInv
-----------------------------------------------------------------------------
(* The end of a worker and of a stream.                                    *)

\* What is kept of a request that is over.
LEMMA RemainingRecord ==
  ASSUME NEW r \in Requests, NEW q, RequestInv(q, r), q.handler = "Opened"
  PROVE  RequestInv(Remaining(q), r)
<1> SUFFICES ASSUME q.permits = {}, q.stream # "Success" PROVE RequestInv(Remaining(q), r)
  BY DEF Remaining
<1> DEFINE s == q.stream
           p == [Fresh EXCEPT !.handler = "Opened", !.worker = "Done", !.stream = s]
<1>1. q \in Record /\ SlotInv(q) /\ LogInv(q)
  BY DEF RequestInv
<1>2. s \in {"Error", "Dropped"}
  BY <1>1 DEF Record, SlotInv
<1>3. Remaining(q) = p
  BY DEF Remaining
<1> HIDE DEF s
<1>4. /\ p.handler = "Opened" /\ p.worker = "Done" /\ p.stream = s /\ p.permits = {}
      /\ p.terminal = "None" /\ p.cleanup = "None" /\ p.result = "Ok" /\ p.model = FALSE
      /\ p.data = << >> /\ p.got = << >> /\ p.frames = 0
  BY DEF Fresh
<1>5. p \in Record
  <2>1. << >> \in Seq(Messages)
    OBVIOUS
  <2> QED BY <1>2, <2>1 DEF Record, Fresh
<1>6. SlotInv(p)
  BY <1>2, <1>4 DEF SlotInv, Owning
<1>7. ResultInv(p)
  BY <1>4 DEF ResultInv, Unsent
<1>8. LogInv(p)
  <2>1. p.stream \notin {"Open", "Success"}
    BY <1>2, <1>4
  <2> HIDE DEF p
  <2> QED BY <1>4, <1>5, <2>1, NoLog
<1>9. Len(p.data) <= Capacity /\ p.frames <= FramesOf[r]
  <2>1. Len(<< >>) = 0
    OBVIOUS
  <2> QED BY <1>4, <2>1, ServerAssumption
<1> HIDE DEF p
<1> QED BY <1>3, <1>5, <1>6, <1>7, <1>8, <1>9 DEF RequestInv

\* The task is over.
LEMMA LeaveRecord ==
  ASSUME NEW r, NEW q, RequestInv(q, r), NEW p, NEW a, q.worker = "Sent",
         a = q.permits \ {"Task"},
         p = [q EXCEPT !.worker = "Done", !.permits = a]
  PROVE  RequestInv(p, r) /\ p.handler = "Opened"
<1>1. q \in Record /\ SlotInv(q) /\ ResultInv(q) /\ LogInv(q)
  BY DEF RequestInv
<1>2. a \in SUBSET {"Task", "Stream"} /\ "Task" \notin a /\ ("Stream" \in a <=> "Stream" \in q.permits)
  BY <1>1 DEF Record
<1>3. p \in Record
  BY <1>1, <1>2 DEF Record
<1>4. /\ p.handler = q.handler /\ p.stream = q.stream /\ p.permits = a
      /\ p.terminal = q.terminal /\ p.cleanup = q.cleanup /\ p.result = q.result
      /\ p.data = q.data /\ p.got = q.got /\ p.frames = q.frames
      /\ p.worker = "Done" /\ p.model = q.model
  BY <1>1 DEF Record
<1>5. q.handler = "Opened"
  BY <1>1 DEF SlotInv
<1>6. SlotInv(p)
  <2>1. p.model <=> p.worker \in Owning
    BY <1>1, <1>4 DEF SlotInv, Owning
  <2>2. ("Stream" \in q.permits <=> q.stream = "Open") /\ q.stream # "None"
    BY <1>1, <1>5 DEF SlotInv
  <2> QED BY <1>2, <1>4, <1>5, <2>1, <2>2 DEF SlotInv
<1>7. ResultInv(p)
  BY <1>1, <1>4 DEF ResultInv, Unsent
<1>8. LogInv(p)
  <2>1. Log(p) = Log(q) /\ (\A m : OnScript(p, m) <=> OnScript(q, m)) /\ (Complete(p) <=> Complete(q))
    BY <1>4, SameLog
  <2>2. Succeeding(p) => Succeeding(q)
    BY <1>4 DEF Succeeding
  <2>3. Written(p) = Written(q)
    BY <1>4 DEF Written, Unsent
  <2> QED BY <1>1, <1>4, <2>1, <2>2, <2>3 DEF LogInv
<1>9. Len(p.data) <= Capacity /\ p.frames <= FramesOf[r]
  BY <1>4 DEF RequestInv
<1> QED BY <1>3, <1>4, <1>5, <1>6, <1>7, <1>8, <1>9 DEF RequestInv

\* The slots when a stream has ended.
LEMMA EndSlot ==
  ASSUME NEW q, NEW p, SlotInv(q), q.stream = "Open", p.stream \notin {"None", "Open"},
         p.handler = q.handler, p.worker = q.worker, p.model = q.model,
         "Task" \in p.permits <=> "Task" \in q.permits, "Stream" \notin p.permits
  PROVE  SlotInv(p)
BY DEF SlotInv

\* The stream ends without a success, and loses what was not read.
LEMMA AbortRecord ==
  ASSUME NEW r \in Requests, NEW q, RequestInv(q, r), NEW p, NEW a, NEW how \in {"Error", "Dropped"},
         NEW c \in BOOLEAN, q.stream = "Open", a = q.permits \ {"Stream"},
         p = [q EXCEPT !.stream = how, !.permits = a, !.cancelled = c,
                       !.data = << >>, !.got = << >>, !.terminal = "None"]
  PROVE  RequestInv(p, r) /\ p.handler = "Opened"
<1>1. q \in Record /\ SlotInv(q) /\ ResultInv(q) /\ LogInv(q)
  BY DEF RequestInv
<1>2. a \in SUBSET {"Task", "Stream"} /\ "Stream" \notin a /\ ("Task" \in a <=> "Task" \in q.permits)
  BY <1>1 DEF Record
<1>3. p \in Record
  <2>1. << >> \in Seq(Messages)
    OBVIOUS
  <2> QED BY <1>1, <1>2, <2>1 DEF Record
<1>4. /\ p.handler = q.handler /\ p.stream = how /\ p.permits = a
      /\ p.terminal = "None" /\ p.cleanup = q.cleanup /\ p.result = q.result
      /\ p.data = << >> /\ p.got = << >> /\ p.frames = q.frames
      /\ p.worker = q.worker /\ p.model = q.model
  BY <1>1 DEF Record
<1>5. q.handler = "Opened"
  BY <1>1 DEF SlotInv
<1>6. SlotInv(p)
  <2>1. p.stream \notin {"None", "Open"}
    BY <1>4
  <2>2. ("Task" \in p.permits <=> "Task" \in q.permits) /\ "Stream" \notin p.permits
    BY <1>2, <1>4
  <2>3. p.handler = q.handler /\ p.worker = q.worker /\ p.model = q.model /\ SlotInv(q)
    BY <1>1, <1>4
  <2>4. q.stream = "Open" /\ (q.handler = "Opened" /\ q.worker # "None")
    BY <1>1, <1>5 DEF SlotInv
  <2> QED BY <2>1, <2>2, <2>3, <2>4 DEF SlotInv
<1>7. ResultInv(p)
  BY <1>1, <1>4 DEF ResultInv, Unsent
<1>8. LogInv(p)
  <2>1. p.stream \notin {"Open", "Success"}
    BY <1>4
  <2> QED BY <1>3, <1>4, <2>1, NoLog
<1>9. Len(p.data) <= Capacity /\ p.frames <= FramesOf[r]
  <2>1. Len(<< >>) = 0
    OBVIOUS
  <2> QED BY <1>4, <2>1, ServerAssumption DEF RequestInv
<1> QED BY <1>3, <1>4, <1>5, <1>6, <1>7, <1>8, <1>9 DEF RequestInv

\* The stream ends with a success, when everything has been read.
LEMMA SuccessRecord ==
  ASSUME NEW r \in Requests, NEW q, RequestInv(q, r), NEW p, NEW a, NEW c \in BOOLEAN,
         q.stream = "Open", q.terminal = "Ok", q.data = << >>, q.worker = "Done",
         a = q.permits \ {"Stream"},
         p = [q EXCEPT !.stream = "Success", !.permits = a, !.cancelled = c]
  PROVE  RequestInv(p, r) /\ p.handler = "Opened"
<1>1. q \in Record /\ SlotInv(q) /\ ResultInv(q) /\ LogInv(q)
  BY DEF RequestInv
<1>2. a \in SUBSET {"Task", "Stream"} /\ "Stream" \notin a /\ ("Task" \in a <=> "Task" \in q.permits)
  BY <1>1 DEF Record
<1>3. p \in Record
  BY <1>1, <1>2 DEF Record
<1>4. /\ p.handler = q.handler /\ p.stream = "Success" /\ p.permits = a
      /\ p.terminal = q.terminal /\ p.cleanup = q.cleanup /\ p.result = q.result
      /\ p.data = q.data /\ p.got = q.got /\ p.frames = q.frames
      /\ p.worker = q.worker /\ p.model = q.model
  BY <1>1 DEF Record
<1>5. q.handler = "Opened"
  BY <1>1 DEF SlotInv
<1>6. SlotInv(p)
  <2>1. p.stream \notin {"None", "Open"}
    BY <1>4
  <2>2. ("Task" \in p.permits <=> "Task" \in q.permits) /\ "Stream" \notin p.permits
    BY <1>2, <1>4
  <2>3. p.handler = q.handler /\ p.worker = q.worker /\ p.model = q.model /\ SlotInv(q)
    BY <1>1, <1>4
  <2> QED BY <2>1, <2>2, <2>3, EndSlot
<1>7. ResultInv(p)
  BY <1>1, <1>4 DEF ResultInv, Unsent
<1>8. LogInv(p)
  <2>1. Log(p) = Log(q) /\ (Complete(p) <=> Complete(q))
    BY <1>4, SameLog
  <2>2. Complete(q)
    <3>1. OnScript(q, Written(q)) /\ Written(q) = q.frames + 3
      BY <1>1 DEF LogInv, Succeeding, Written, Unsent
    <3>2. q.cleanup = "Ok"
      BY <1>1 DEF ResultInv
    <3> QED BY <3>1, <3>2 DEF Complete
  <2> QED BY <1>4, <2>1, <2>2 DEF LogInv
<1>9. Len(p.data) <= Capacity /\ p.frames <= FramesOf[r]
  BY <1>4 DEF RequestInv
<1> QED BY <1>3, <1>4, <1>5, <1>6, <1>7, <1>8, <1>9 DEF RequestInv

\* A message is read.
LEMMA ReadRecord ==
  ASSUME NEW r \in Requests, NEW q, RequestInv(q, r), NEW p, NEW g, NEW d,
         q.stream = "Open", q.data # << >>,
         g = Append(q.got, Head(q.data)), d = Tail(q.data),
         p = [q EXCEPT !.got = g, !.data = d]
  PROVE  RequestInv(p, r)
<1>1. q \in Record /\ SlotInv(q) /\ ResultInv(q) /\ LogInv(q)
  BY DEF RequestInv
<1>2. g \in Seq(Messages) /\ d \in Seq(Messages) /\ Len(d) <= Len(q.data)
  <2>1. q.got \in Seq(Messages) /\ q.data \in Seq(Messages)
    BY <1>1 DEF Record
  <2>2. Head(q.data) \in Messages /\ d \in Seq(Messages) /\ Len(d) = Len(q.data) - 1 /\ Len(q.data) \in Nat
    BY <2>1, HeadTailProperties, LenProperties
  <2> QED BY <2>1, <2>2, AppendProperties
<1>3. p \in Record
  BY <1>1, <1>2 DEF Record
<1>4. /\ p.handler = q.handler /\ p.stream = q.stream /\ p.permits = q.permits
      /\ p.terminal = q.terminal /\ p.cleanup = q.cleanup /\ p.result = q.result
      /\ p.data = d /\ p.got = g /\ p.frames = q.frames
      /\ p.worker = q.worker /\ p.model = q.model
  BY <1>1 DEF Record
<1>5. SlotInv(p)
  BY <1>1, <1>4 DEF SlotInv
<1>6. ResultInv(p)
  BY <1>1, <1>4 DEF ResultInv
<1>7. LogInv(p)
  <2>1. Log(p) = Log(q)
    BY <1>1, <1>4, ReadLog DEF Log
  <2>2. (\A m : OnScript(p, m) <=> OnScript(q, m)) /\ (Complete(p) <=> Complete(q))
    BY <1>4, <2>1 DEF OnScript, Complete
  <2>3. (Succeeding(p) <=> Succeeding(q)) /\ Written(p) = Written(q)
    BY <1>4 DEF Succeeding, Written
  <2> QED BY <1>1, <1>4, <2>1, <2>2, <2>3 DEF LogInv
<1>8. Len(p.data) <= Capacity /\ p.frames <= FramesOf[r]
  <2>1. q.data \in Seq(Messages) /\ Len(q.data) \in Nat /\ Len(d) \in Nat
    BY <1>1, <1>2, LenProperties DEF Record
  <2> QED BY <1>2, <1>4, <2>1, ServerAssumption DEF RequestInv
<1> QED BY <1>3, <1>5, <1>6, <1>7, <1>8 DEF RequestInv

\* The deadline passes.
LEMMA ExpireRecord ==
  ASSUME NEW r, NEW q, RequestInv(q, r), NEW p, p = [q EXCEPT !.expired = TRUE]
  PROVE  RequestInv(p, r)
<1>1. q \in Record /\ SlotInv(q) /\ ResultInv(q) /\ LogInv(q)
  BY DEF RequestInv
<1>2. p \in Record
  BY <1>1 DEF Record
<1>3. /\ p.handler = q.handler /\ p.stream = q.stream /\ p.permits = q.permits
      /\ p.terminal = q.terminal /\ p.cleanup = q.cleanup /\ p.result = q.result
      /\ p.data = q.data /\ p.got = q.got /\ p.frames = q.frames
      /\ p.worker = q.worker /\ p.model = q.model
  BY <1>1 DEF Record
<1>4. SlotInv(p) /\ ResultInv(p)
  BY <1>1, <1>3 DEF SlotInv, ResultInv
<1>5. LogInv(p)
  <2>1. Log(p) = Log(q) /\ (\A m : OnScript(p, m) <=> OnScript(q, m)) /\ (Complete(p) <=> Complete(q))
    BY <1>3, SameLog
  <2>2. (Succeeding(p) <=> Succeeding(q)) /\ Written(p) = Written(q)
    BY <1>3 DEF Succeeding, Written
  <2> QED BY <1>1, <1>3, <2>1, <2>2 DEF LogInv
<1> QED BY <1>2, <1>3, <1>4, <1>5 DEF RequestInv
-----------------------------------------------------------------------------
(* The steps of one request.                                               *)

\* The worker, from its first message to its end.
LEMMA WorkLocal ==
  ASSUME Inv, NEW r \in Requests,
         \/ Send(r) \/ Input(r) \/ Infer(r) \/ InferFails(r) \/ GiveUp(r)
         \/ Close(r) \/ Exit(r) \/ Leave(r)
  PROVE  Local(r)
<1> SUFFICES ASSUME NEW q, q = req[r] PROVE Local(r)
  OBVIOUS
<1>1. RequestInv(q, r) /\ q \in Record /\ q.last \in BOOLEAN /\ q.failed \in BOOLEAN
  BY DEF Inv, RequestInv, Record
<1>2. CASE Send(r)
  <2> DEFINE p == [q EXCEPT !.data = Append(@, q.worker), !.worker = After(q.worker)]
  <2>1. req' = [req EXCEPT ![r] = p]
    BY <1>2 DEF Send
  <2>2. q.worker \in {"Header", "Frame", "Event", "Status"} /\ q.stream = "Open"
    BY <1>2 DEF Send
  <2>3. Len(q.data) < Capacity
    BY <1>2 DEF Send, HasRoom
  <2>4. RequestInv(p, r)
    BY <1>1, <2>2, <2>3, SendRecord
  <2> QED BY <2>1, <2>4, SetRequest
<1>3. CASE Input(r)
  <2>1. PICK last \in BOOLEAN : req' = [req EXCEPT ![r].worker = "Infer", ![r].last = last]
    BY <1>3 DEF Input
  <2> DEFINE p == [q EXCEPT !.worker = "Infer", !.last = last]
  <2>2. q.worker = "Input" /\ req' = [req EXCEPT ![r] = p]
    BY <1>3, <2>1 DEF Input
  <2>3. RequestInv(p, r)
    BY <1>1, <2>2, InputRecord
  <2> QED BY <2>2, <2>3, SetRequest
<1>4. CASE Infer(r)
  <2> DEFINE w == IF q.last THEN "Close" ELSE "Input"
             p == [q EXCEPT !.worker = w]
             f == [q EXCEPT !.worker = "Frame", !.frames = @ + 1]
  <2>1. q.worker = "Infer"
    BY <1>4 DEF Infer
  <2>2. CASE q.frames < FramesOf[r] /\ req' = [req EXCEPT ![r] = f]
    <3>1. FramesOf[r] \in Nat
      BY ServerAssumption
    <3>2. RequestInv(f, r)
      BY <1>1, <2>1, <2>2, <3>1, FrameRecord
    <3> QED BY <2>2, <3>2, SetRequest
  <2>3. CASE req' = [req EXCEPT ![r] = p]
    <3>1. p = [q EXCEPT !.worker = w, !.last = q.last]
      <4> HIDE DEF w
      <4> QED BY <1>1 DEF Record
    <3>2. w \in {"Input", "Close"}
      OBVIOUS
    <3>3. RequestInv(p, r)
      <4> HIDE DEF w
      <4> QED BY <1>1, <2>1, <3>1, <3>2, InputRecord
    <3> QED BY <2>3, <3>3, SetRequest
  <2> QED BY <1>4, <2>2, <2>3 DEF Infer
<1>5. CASE InferFails(r)
  <2> DEFINE p == [q EXCEPT !.worker = "Close", !.result = "Error", !.failed = TRUE]
  <2>1. q.worker = "Infer" /\ req' = [req EXCEPT ![r] = p]
    BY <1>5 DEF InferFails
  <2>2. RequestInv(p, r)
    BY <1>1, <2>1, ErrorRecord
  <2> QED BY <2>1, <2>2, SetRequest
<1>6. CASE GiveUp(r)
  <2> DEFINE w == IF q.worker \in Reporting THEN "Exit" ELSE "Close"
             p == [q EXCEPT !.worker = w, !.result = "Error"]
  <2>1. /\ req' = [req EXCEPT ![r] = p]
        /\ \/ q.worker \in {"Header", "Input", "Infer", "Frame"} /\ w = "Close"
           \/ q.worker \in {"Event", "Status"} /\ w = "Exit"
    BY <1>6 DEF GiveUp, Reporting
  <2> HIDE DEF w
  <2>2. p = [q EXCEPT !.worker = w, !.result = "Error", !.failed = q.failed]
    BY <1>1 DEF Record
  <2>3. RequestInv(p, r)
    BY <1>1, <2>1, <2>2, ErrorRecord
  <2> QED BY <2>1, <2>3, SetRequest
<1>7. CASE Close(r)
  <2>1. PICK c \in {"Ok", "Error"} :
          req' = [req EXCEPT ![r].model = FALSE, ![r].cleanup = c,
                             ![r].last = FALSE, ![r].failed = FALSE,
                             ![r].worker = AfterCleanup(r, c),
                             ![r].result = IF c = "Ok" THEN @ ELSE "Error"]
    BY <1>7 DEF Close
  <2> DEFINE w == IF q.result = "Ok" /\ c = "Ok" THEN "Event" ELSE "Exit"
             s == IF c = "Ok" THEN q.result ELSE "Error"
             p == [q EXCEPT !.model = FALSE, !.cleanup = c, !.last = FALSE, !.failed = FALSE,
                            !.worker = w, !.result = s]
  <2>2. q.worker = "Close"
    BY <1>7 DEF Close
  <2>3. req' = [req EXCEPT ![r] = p]
    <3>1. AfterCleanup(r, c) = w
      BY DEF AfterCleanup
    <3> HIDE DEF w
    <3> QED BY <2>1, <3>1
  <2>4. RequestInv(p, r)
    <3> HIDE DEF p
    <3>1. p = [q EXCEPT !.model = FALSE, !.cleanup = c, !.last = FALSE, !.failed = FALSE,
                        !.worker = w, !.result = s]
      BY DEF p
    <3> QED BY <1>1, <2>2, <3>1, CloseRecord
  <2> QED BY <2>3, <2>4, SetRequest
<1>8. CASE Exit(r)
  <2> DEFINE t == IF q.stream = "Open" THEN q.result ELSE "None"
             p == [q EXCEPT !.worker = "Sent", !.result = "Ok", !.terminal = t]
  <2>1. q.worker = "Exit" /\ req' = [req EXCEPT ![r] = p]
    BY <1>8 DEF Exit
  <2>2. RequestInv(p, r)
    BY <1>1, <2>1, ExitRecord
  <2> QED BY <2>1, <2>2, SetRequest
<1>9. CASE Leave(r)
  <2> DEFINE a == q.permits \ {"Task"}
             d == [q EXCEPT !.worker = "Done", !.permits = a]
             p == Remaining(d)
  <2>1. q.worker = "Sent" /\ req' = [req EXCEPT ![r] = p]
    BY <1>9 DEF Leave
  <2>2. RequestInv(d, r) /\ d.handler = "Opened"
    BY <1>1, <2>1, LeaveRecord
  <2>3. RequestInv(p, r)
    BY <2>2, RemainingRecord
  <2> QED BY <2>1, <2>3, SetRequest
<1> QED BY <1>2, <1>3, <1>4, <1>5, <1>6, <1>7, <1>8, <1>9

\* The stream and the deadline.
LEMMA StreamLocal ==
  ASSUME Inv, NEW r \in Requests, PollStream(r) \/ DropStream(r) \/ Expire(r)
  PROVE  Local(r)
<1> SUFFICES ASSUME NEW q, q = req[r] PROVE Local(r)
  OBVIOUS
<1>1. RequestInv(q, r) /\ q \in Record /\ q.expired \in BOOLEAN /\ q.cancelled \in BOOLEAN
  BY DEF Inv, RequestInv, Record
<1> DEFINE a == q.permits \ {"Stream"}
<1>2. ASSUME NEW how \in {"Error", "Dropped"}, q.stream = "Open", EndStream(r, how) PROVE Local(r)
  <2> DEFINE c == q.cancelled \/ q.expired \/ how = "Dropped"
             u == [q EXCEPT !.stream = how, !.permits = a, !.cancelled = c,
                            !.data = << >>, !.got = << >>, !.terminal = "None"]
             p == Remaining(u)
  <2>1. req' = [req EXCEPT ![r] = p]
    BY <1>2 DEF EndStream
  <2>2. c \in BOOLEAN
    BY <1>1
  <2>3. RequestInv(u, r) /\ u.handler = "Opened"
    <3> HIDE DEF c
    <3> QED BY <1>1, <1>2, <2>2, AbortRecord
  <2>4. RequestInv(p, r)
    <3> HIDE DEF u
    <3> QED BY <2>3, RemainingRecord
  <2> QED BY <2>1, <2>4, SetRequest
<1>3. CASE DropStream(r)
  BY <1>2, <1>3 DEF DropStream
<1>4. CASE PollStream(r)
  <2>1. q.stream = "Open"
    BY <1>4 DEF PollStream
  <2>2. CASE EndStream(r, "Error")
    BY <1>2, <2>1, <2>2
  <2>3. CASE q.data # << >> /\ req' = [req EXCEPT ![r].got = Append(@, Head(req[r].data)), ![r].data = Tail(@)]
    <3> DEFINE p == [q EXCEPT !.got = Append(q.got, Head(q.data)), !.data = Tail(q.data)]
    <3>1. req' = [req EXCEPT ![r] = p]
      BY <2>3
    <3>2. RequestInv(p, r)
      BY <1>1, <2>1, <2>3, ReadRecord
    <3> QED BY <3>1, <3>2, SetRequest
  <2>4. CASE q.terminal = "Ok" /\ q.data = << >> /\ q.worker = "Done" /\ EndStream(r, "Success")
    <3> DEFINE c == q.cancelled \/ q.expired \/ "Success" = "Dropped"
               u == [q EXCEPT !.stream = "Success", !.permits = a, !.cancelled = c]
               p == Remaining(u)
    <3>1. req' = [req EXCEPT ![r] = p]
      BY <2>4 DEF EndStream
    <3>2. c \in BOOLEAN
      BY <1>1
    <3>3. RequestInv(u, r) /\ u.handler = "Opened"
      <4> HIDE DEF c
      <4> QED BY <1>1, <2>1, <2>4, <3>2, SuccessRecord
    <3>4. RequestInv(p, r)
      <4> HIDE DEF u
      <4> QED BY <3>3, RemainingRecord
    <3> QED BY <3>1, <3>4, SetRequest
  <2> QED BY <1>4, <2>2, <2>3, <2>4 DEF PollStream
<1>5. CASE Expire(r)
  <2> DEFINE p == [q EXCEPT !.expired = TRUE]
  <2>1. req' = [req EXCEPT ![r] = p]
    BY <1>5 DEF Expire
  <2>2. RequestInv(p, r)
    BY <1>1, ExpireRecord
  <2> QED BY <2>1, <2>2, SetRequest
<1> QED BY <1>3, <1>4, <1>5

\* Every step of a request keeps what is said of it.
LEMMA StepsAreLocal ==
  ASSUME Inv, NEW r \in Requests, Handler(r) \/ Task(r) \/ PollStream(r) \/ DropStream(r) \/ Expire(r)
  PROVE  Local(r)
BY HandlerLocal, SpawnLocal, StartLocal, WorkLocal, StreamLocal DEF Handler, Task
-----------------------------------------------------------------------------
(* What a step of a request does to the server.                            *)

\* The models change hands, one is taken by the only owner, or one is returned.
ModelMoves(r) ==
  \/ Kept' = 0
  \/ Kept' = Kept /\ (req'[r].model => req[r].model)
  \/ Kept' <= Kept + 1 /\ req[r].model /\ ~req'[r].model

\* What a step of request r may change, as far as other requests can see.
Moves(r) ==
  /\ UNCHANGED serverVars
  /\ req[r].handler = "Idle" => stage = "Serving" /\ ~shutdown
  /\ req'[r].handler = "Accepted" => req[r].handler = "Accepted" \/ ~shutdown
  /\ \/ req'[r].worker = req[r].worker
     \/ req[r].handler = "Accepted" /\ req'[r].worker = "Start"
     \/ req[r].worker \notin {"None", "Done"}
  /\ req[r].worker \in {"None", "Done"} => UNCHANGED poolVars
  /\ prepared' => prepared /\ (req[r].worker \in {"None", "Start"} => UNCHANGED idle)
  /\ prepared' /\ req[r].worker \in {"None", "Start"} => req'[r].worker \in {"None", "Start"}
  /\ idle' \in {idle, NoKey, KeyOf[r]} /\ prepared' \in BOOLEAN
  /\ req'[r].permits # {} => req[r].permits # {} \/ Cardinality(Admitted) < Limit
  /\ ModelMoves(r)

\* Facts about a request before its step.
LEMMA BeforeStep ==
  ASSUME Inv, NEW r \in Requests
  PROVE  /\ req = [v \in Requests |-> req[v]]
         /\ req[r] \in Record /\ SlotInv(req[r])
         /\ prepared \in BOOLEAN /\ KeyOf[r] # NoKey
         /\ prepared => idle = NoKey /\ req[r].worker \in {"None", "Start"}
         /\ req[r].handler \in {"Idle", "Waiting", "Header", "Accepted", "Refused"} =>
              req[r].worker = "None" /\ req[r].stream = "None" /\ ~req[r].model
         /\ req[r].worker # "None" => req[r].handler = "Opened"
         /\ req[r].handler = "Accepted" => req[r].permits # {}
<1>1. /\ req = [v \in Requests |-> req[v]] /\ RequestInv(req[r], r)
      /\ prepared \in BOOLEAN
      /\ prepared => idle = NoKey /\ req[r].worker \in {"None", "Start"}
  BY DEF Inv, ServerInv
<1>2. req[r] \in Record /\ SlotInv(req[r])
  BY <1>1 DEF RequestInv
<1>3. /\ req[r].handler \in {"Idle", "Waiting", "Header", "Accepted", "Refused"} =>
           req[r].worker = "None" /\ req[r].stream = "None" /\ ~req[r].model
      /\ req[r].worker # "None" => req[r].handler = "Opened"
      /\ req[r].handler = "Accepted" => req[r].permits # {}
  BY <1>2 DEF SlotInv, Owning
<1> QED BY <1>1, <1>2, <1>3, ServerAssumption

\* The handler.
LEMMA HandlerMoves ==
  ASSUME Inv, NEW r \in Requests, Handler(r)
  PROVE  Moves(r)
<1>1. /\ req = [v \in Requests |-> req[v]] /\ req[r] \in Record
      /\ req[r].handler # "Opened" => req[r].worker = "None" /\ ~req[r].model
      /\ req[r].handler = "Accepted" => req[r].permits # {}
      /\ prepared \in BOOLEAN
  BY BeforeStep DEF Record
<1>2. UNCHANGED << serverVars, poolVars >>
  BY DEF Handler, Arrive, Admit, ReadHeader, Refuse, Spawn
<1>3. Kept' = Kept
  BY <1>2 DEF Kept, poolVars
<1>4. /\ req[r].handler = "Idle" => stage = "Serving" /\ ~shutdown
      /\ req[r].handler # "Opened" /\ req'[r].model = req[r].model
      /\ req'[r].handler = "Accepted" => ~shutdown
      /\ req'[r].worker = "None" \/ (req[r].handler = "Accepted" /\ req'[r].worker = "Start")
      /\ req'[r].permits # {} => req[r].permits # {} \/ Cardinality(Admitted) < Limit
  <2>1. CASE Arrive(r)
    <3>1. req'[r] = [req[r] EXCEPT !.handler = "Waiting"]
      BY <1>1, <2>1 DEF Arrive
    <3>2. req[r].worker = "None"
      BY <1>1, <2>1 DEF Arrive
    <3>3. /\ req'[r].handler = "Waiting" /\ req'[r].permits = req[r].permits
          /\ req'[r].worker = req[r].worker /\ req'[r].model = req[r].model
      BY <1>1, <3>1 DEF Record
    <3> QED BY <1>1, <2>1, <3>2, <3>3 DEF Arrive
  <2>2. CASE Admit(r)
    <3>1. req'[r] = [req[r] EXCEPT !.handler = "Header", !.permits = {"Task"}]
      BY <1>1, <2>2 DEF Admit
    <3>2. req[r].worker = "None"
      BY <1>1, <2>2 DEF Admit
    <3>3. /\ req'[r].handler = "Header" /\ req'[r].permits = {"Task"}
          /\ req'[r].worker = req[r].worker /\ req'[r].model = req[r].model
      BY <1>1, <3>1 DEF Record
    <3> QED BY <1>1, <2>2, <3>2, <3>3 DEF Admit
  <2>3. CASE ReadHeader(r)
    <3>1. req'[r] = [req[r] EXCEPT !.handler = "Accepted"]
      BY <1>1, <2>3 DEF ReadHeader
    <3>2. req[r].worker = "None"
      BY <1>1, <2>3 DEF ReadHeader
    <3>3. /\ req'[r].handler = "Accepted" /\ req'[r].permits = req[r].permits
          /\ req'[r].worker = req[r].worker /\ req'[r].model = req[r].model
      BY <1>1, <3>1 DEF Record
    <3> QED BY <1>1, <2>3, <3>2, <3>3 DEF ReadHeader
  <2>4. CASE Refuse(r)
    <3>1. req'[r] = [req[r] EXCEPT !.handler = "Refused", !.permits = {}]
      BY <1>1, <2>4 DEF Refuse
    <3>2. req[r].worker = "None"
      BY <1>1, <2>4 DEF Refuse
    <3>3. /\ req'[r].handler = "Refused" /\ req'[r].permits = {}
          /\ req'[r].worker = req[r].worker /\ req'[r].model = req[r].model
      BY <1>1, <3>1 DEF Record
    <3> QED BY <1>1, <2>4, <3>2, <3>3 DEF Refuse
  <2>5. CASE Spawn(r)
    BY <1>1, <2>5 DEF Spawn, Record
  <2> QED BY <2>1, <2>2, <2>3, <2>4, <2>5 DEF Handler
<1> QED BY <1>1, <1>2, <1>3, <1>4 DEF Moves, ModelMoves, poolVars

\* The worker.
LEMMA TaskMoves ==
  ASSUME Inv, NEW r \in Requests, Task(r)
  PROVE  Moves(r)
<1>1. /\ req = [v \in Requests |-> req[v]] /\ req[r] \in Record
      /\ prepared \in BOOLEAN /\ KeyOf[r] # NoKey
      /\ prepared => idle = NoKey /\ req[r].worker \in {"None", "Start"}
      /\ req[r].worker # "None" => req[r].handler = "Opened"
      /\ req[r].model <=> req[r].worker \in Owning
      /\ req[r].worker \notin {"None", "Done"} => "Task" \in req[r].permits
  BY BeforeStep DEF SlotInv
<1>2. UNCHANGED serverVars /\ req[r].worker \notin {"None", "Done"}
  BY DEF Task, Start, Discard, Pool, Retire, Load, Send, Input, Infer, InferFails, GiveUp, Close,
         Exit, Leave, Reporting
<1>3. /\ prepared' \in BOOLEAN /\ idle' \in {idle, NoKey, KeyOf[r]}
      /\ prepared' => prepared /\ UNCHANGED idle /\ req[r].worker # "Start"
  <2>1. CASE Start(r)
    BY <1>1, <2>1 DEF Start
  <2>2. CASE Pool(r)
    BY <1>1, <2>2 DEF Pool
  <2>3. CASE Close(r)
    BY <1>1, <2>3 DEF Close
  <2>4. CASE req[r].worker # "Start" /\ UNCHANGED poolVars
    BY <1>1, <1>2, <2>4 DEF poolVars
  <2> QED BY <2>1, <2>2, <2>3, <2>4 DEF Task, Discard, Retire, Load, Send, Input, Infer, InferFails,
             GiveUp, Exit, Leave, Reporting
<1>4. req'[r].handler = "Opened" /\ ModelMoves(r)
  <2>1. CASE Start(r)
    <3> DEFINE w == IF ~prepared THEN "Pool" ELSE IF KeyOf[r] = DefaultKey THEN "Header" ELSE "Discard"
    <3>1. req'[r] = [req[r] EXCEPT !.model = prepared, !.worker = w]
      BY <1>1, <2>1 DEF Start
    <3> HIDE DEF w
    <3>2. req'[r].handler = req[r].handler /\ (req'[r].model <=> prepared)
      BY <1>1, <3>1 DEF Record
    <3>3. prepared => Kept' = 0
      BY <1>1, <2>1 DEF Start, Kept
    <3>4. ~prepared => Kept' = Kept
      BY <1>1, <2>1 DEF Start, Kept
    <3> QED BY <1>1, <1>2, <3>2, <3>3, <3>4 DEF ModelMoves
  <2>2. CASE Pool(r)
    <3> DEFINE w == IF idle = KeyOf[r] THEN "Header" ELSE IF idle = NoKey THEN "Load" ELSE "Retire"
    <3>1. req'[r] = [req[r] EXCEPT !.model = TRUE, !.worker = w]
      BY <1>1, <2>2 DEF Pool
    <3> HIDE DEF w
    <3>2. req'[r].handler = req[r].handler
      BY <1>1, <3>1 DEF Record
    <3>3. Kept' = 0
      BY <1>1, <2>2 DEF Pool, Kept
    <3> QED BY <1>1, <1>2, <3>2, <3>3 DEF ModelMoves
  <2>3. CASE Close(r)
    <3>1. PICK c \in {"Ok", "Error"} :
            req' = [req EXCEPT ![r].model = FALSE, ![r].cleanup = c,
                               ![r].last = FALSE, ![r].failed = FALSE,
                               ![r].worker = AfterCleanup(r, c),
                               ![r].result = IF c = "Ok" THEN @ ELSE "Error"]
      BY <2>3 DEF Close
    <3> DEFINE w == AfterCleanup(r, c)
               s == IF c = "Ok" THEN req[r].result ELSE "Error"
    <3>2. req'[r] = [req[r] EXCEPT !.model = FALSE, !.cleanup = c, !.last = FALSE, !.failed = FALSE,
                                   !.worker = w, !.result = s]
      BY <1>1, <3>1
    <3> HIDE DEF w, s
    <3>3. req'[r].handler = req[r].handler /\ ~req'[r].model
      BY <1>1, <3>2 DEF Record
    <3>4. Kept' <= Kept + 1 /\ req[r].worker = "Close"
      BY <1>1, <2>3 DEF Close, Kept
    <3> QED BY <1>1, <1>2, <3>3, <3>4 DEF ModelMoves, Owning
  <2>4. CASE Leave(r)
    <3> DEFINE a == req[r].permits \ {"Task"}
               d == [req[r] EXCEPT !.worker = "Done", !.permits = a]
    <3>1. req'[r] = Remaining(d) /\ req[r].worker = "Sent"
      BY <1>1, <2>4 DEF Leave
    <3>2. d.handler = req[r].handler /\ d.model = req[r].model
      BY <1>1 DEF Record
    <3> HIDE DEF d
    <3>3. req'[r].handler = "Opened" /\ (req'[r].model = d.model \/ req'[r].model = FALSE)
      BY <1>1, <1>2, <3>1, <3>2 DEF Remaining, Fresh
    <3>4. UNCHANGED poolVars
      BY <2>4 DEF Leave
    <3> QED BY <3>2, <3>3, <3>4 DEF ModelMoves, Kept, poolVars
  <2>5. CASE Discard(r) \/ Retire(r) \/ Load(r)
    <3>1. \/ req'[r] = [req[r] EXCEPT !.worker = "Pool", !.model = FALSE]
          \/ req'[r] = [req[r] EXCEPT !.worker = "Load"]
          \/ req'[r] = [req[r] EXCEPT !.worker = "Header"]
          \/ req'[r] = [req[r] EXCEPT !.worker = "Exit", !.result = "Error", !.model = FALSE]
      BY <1>1, <2>5 DEF Discard, Retire, Load, StartFails
    <3>2. req'[r].handler = req[r].handler /\ (req'[r].model => req[r].model)
      BY <1>1, <3>1 DEF Record
    <3>3. UNCHANGED poolVars
      BY <2>5 DEF Discard, Retire, Load
    <3> QED BY <1>1, <1>2, <3>2, <3>3 DEF ModelMoves, Kept, poolVars
  <2>6. CASE Send(r) \/ Input(r) \/ Infer(r) \/ InferFails(r) \/ GiveUp(r) \/ Exit(r)
    <3>1. req'[r].handler = req[r].handler /\ req'[r].model = req[r].model
      <4>1. CASE Send(r)
        BY <1>1, <4>1 DEF Send, Record
      <4>2. CASE Input(r)
        BY <1>1, <4>2 DEF Input, Record
      <4>3. CASE Infer(r)
        BY <1>1, <4>3 DEF Infer, Record
      <4>4. CASE InferFails(r)
        BY <1>1, <4>4 DEF InferFails, Record
      <4>5. CASE GiveUp(r)
        BY <1>1, <4>5 DEF GiveUp, Record
      <4>6. CASE Exit(r)
        BY <1>1, <4>6 DEF Exit, Record
      <4> QED BY <2>6, <4>1, <4>2, <4>3, <4>4, <4>5, <4>6
    <3>2. UNCHANGED poolVars
      BY <2>6 DEF Send, Input, Infer, InferFails, GiveUp, Exit
    <3> QED BY <1>1, <1>2, <3>1, <3>2 DEF ModelMoves, Kept, poolVars
  <2> QED BY <2>1, <2>2, <2>3, <2>4, <2>5, <2>6 DEF Task
<1>5. "Task" \in req[r].permits
  BY <1>1, <1>2
<1> QED BY <1>1, <1>2, <1>3, <1>4, <1>5 DEF Moves

\* The stream and the deadline.
LEMMA StreamMoves ==
  ASSUME Inv, NEW r \in Requests, PollStream(r) \/ DropStream(r) \/ Expire(r)
  PROVE  Moves(r)
<1>1. /\ req = [v \in Requests |-> req[v]] /\ req[r] \in Record
      /\ prepared \in BOOLEAN
      /\ "Task" \in req[r].permits <=> \/ req[r].handler \in {"Header", "Accepted"}
                                       \/ req[r].handler = "Opened" /\ req[r].worker # "Done"
      /\ req[r].stream = "Open" => req[r].handler = "Opened" /\ "Stream" \in req[r].permits
                                   /\ req[r].worker # "None"
  BY BeforeStep DEF SlotInv
<1>2. UNCHANGED << serverVars, poolVars >>
  BY DEF PollStream, DropStream, Expire
<1>3. Kept' = Kept
  BY <1>2 DEF Kept, poolVars
<1>4. /\ req[r].handler # "Idle"
      /\ req'[r].handler = req[r].handler /\ (req'[r].model => req[r].model)
      /\ req'[r].worker = req[r].worker
      /\ req'[r].permits # {} => req[r].permits # {}
  <2>1. ASSUME NEW how, EndStream(r, how), req[r].stream = "Open"
        PROVE  /\ req'[r].handler = "Opened" /\ (req'[r].model => req[r].model)
               /\ req'[r].worker = req[r].worker
    <3> DEFINE a == req[r].permits \ {"Stream"}
               c == req[r].cancelled \/ req[r].expired \/ how = "Dropped"
               e == [req[r] EXCEPT !.stream = how, !.permits = a, !.cancelled = c]
               u == [e EXCEPT !.data = << >>, !.got = << >>, !.terminal = "None"]
               p == IF how = "Success" THEN e ELSE u
    <3>1. req'[r] = Remaining(p)
      BY <1>1, <2>1 DEF EndStream
    <3>2. p.handler = req[r].handler /\ p.worker = req[r].worker /\ p.model = req[r].model /\ p.permits = a
      <4> HIDE DEF a, c
      <4>1. e.handler = req[r].handler /\ e.worker = req[r].worker /\ e.model = req[r].model /\ e.permits = a
        BY <1>1 DEF Record
      <4>2. u.handler = req[r].handler /\ u.worker = req[r].worker /\ u.model = req[r].model /\ u.permits = a
        BY <1>1 DEF Record
      <4> HIDE DEF e, u
      <4> QED BY <4>1, <4>2
    <3>3. a = {} => req[r].worker = "Done"
      BY <1>1, <2>1
    <3> HIDE DEF p, a
    <3>4. CASE p.permits # {} \/ p.stream = "Success"
      BY <1>1, <2>1, <3>1, <3>2, <3>4 DEF Remaining
    <3>5. CASE ~(p.permits # {} \/ p.stream = "Success")
      <4>1. req'[r] = [Fresh EXCEPT !.handler = "Opened", !.worker = "Done", !.stream = p.stream]
        BY <3>1, <3>5 DEF Remaining
      <4>2. req'[r].handler = "Opened" /\ req'[r].worker = "Done" /\ ~req'[r].model
        BY <4>1 DEF Fresh
      <4> QED BY <3>2, <3>3, <3>5, <4>2
    <3> QED BY <3>4, <3>5
  <2>2. CASE DropStream(r)
    BY <1>1, <2>1, <2>2 DEF DropStream
  <2>3. CASE PollStream(r)
    <3>1. req[r].stream = "Open"
      BY <2>3 DEF PollStream
    <3>2. CASE EndStream(r, "Error") \/ EndStream(r, "Success")
      BY <1>1, <2>1, <3>1, <3>2
    <3>3. CASE req' = [req EXCEPT ![r].got = Append(@, Head(req[r].data)), ![r].data = Tail(@)]
      <4>1. req'[r] = [req[r] EXCEPT !.got = Append(@, Head(req[r].data)), !.data = Tail(@)]
        BY <1>1, <3>3
      <4>2. /\ req'[r].handler = req[r].handler /\ req'[r].worker = req[r].worker
            /\ req'[r].model = req[r].model
        BY <1>1, <4>1 DEF Record
      <4> QED BY <1>1, <3>1, <4>2
    <3> QED BY <2>3, <3>2, <3>3 DEF PollStream
  <2>4. CASE Expire(r)
    <3>1. req'[r] = [req[r] EXCEPT !.expired = TRUE]
      BY <1>1, <2>4 DEF Expire
    <3>2. /\ req'[r].handler = req[r].handler /\ req'[r].worker = req[r].worker
          /\ req'[r].model = req[r].model /\ req'[r].permits = req[r].permits
      BY <1>1, <3>1 DEF Record
    <3> QED BY <1>1, <2>4, <3>2 DEF Expire
  <2> QED BY <1>1, <2>2, <2>3, <2>4 DEF PollStream, DropStream
<1> QED BY <1>1, <1>2, <1>3, <1>4 DEF Moves, ModelMoves, poolVars
-----------------------------------------------------------------------------
(* The inductive invariant.                                                *)

\* The counts are numbers.
LEMMA Counts ==
  ASSUME NEW S \in SUBSET Requests
  PROVE  IsFiniteSet(S) /\ Cardinality(S) \in Nat /\ \A T \in SUBSET S : Cardinality(T) <= Cardinality(S)
<1>1. IsFiniteSet(S)
  BY ServerAssumption, FS_Subset
<1> QED BY <1>1, FS_Subset, FS_CardinalityType

LEMMA InitInv == Init => Inv
<1> SUFFICES ASSUME Init PROVE Inv
  OBVIOUS
<1>1. req = [r \in Requests |-> req[r]] /\ \A r \in Requests : req[r] = Fresh
  BY DEF Init
<1>2. ASSUME NEW r \in Requests PROVE RequestInv(Fresh, r)
  <2>1. /\ Fresh.handler = "Idle" /\ Fresh.worker = "None" /\ Fresh.stream = "None" /\ Fresh.permits = {}
        /\ Fresh.terminal = "None" /\ Fresh.cleanup = "None" /\ Fresh.result = "Ok" /\ Fresh.model = FALSE
        /\ Fresh.data = << >> /\ Fresh.got = << >> /\ Fresh.frames = 0
    BY DEF Fresh
  <2>2. Fresh \in Record
    <3>1. << >> \in Seq(Messages)
      OBVIOUS
    <3> QED BY <3>1 DEF Fresh, Record
  <2>3. SlotInv(Fresh) /\ ResultInv(Fresh)
    BY <2>1 DEF SlotInv, ResultInv, Owning, Unsent
  <2>4. LogInv(Fresh)
    BY <2>1, <2>2, NoLog
  <2>5. Len(Fresh.data) <= Capacity /\ Fresh.frames <= FramesOf[r]
    <3>1. Len(<< >>) = 0
      OBVIOUS
    <3> QED BY <2>1, <3>1, ServerAssumption
  <2> QED BY <2>2, <2>3, <2>4, <2>5 DEF RequestInv
<1>3. ServerInv
  BY <1>1 DEF Init, ServerInv, Fresh
<1>4. CountInv
  <2>1. Admitted = {} /\ Owners = {}
    BY <1>1 DEF Admitted, Owners, Fresh
  <2>2. Kept = 0
    BY DEF Init, Kept
  <2> QED BY <2>1, <2>2, FS_EmptySet, ServerAssumption DEF CountInv
<1> QED BY <1>1, <1>2, <1>3, <1>4 DEF Inv

\* A step of a request.
LEMMA RequestStep ==
  ASSUME Inv, NEW r \in Requests, Handler(r) \/ Task(r) \/ PollStream(r) \/ DropStream(r) \/ Expire(r)
  PROVE  Inv'
<1>1. Local(r) /\ Moves(r)
  BY StepsAreLocal, HandlerMoves, TaskMoves, StreamMoves
<1>2. /\ req' = [v \in Requests |-> req'[v]]
      /\ \A v \in Requests : RequestInv(req'[v], v)
      /\ \A v \in Requests : v # r => req'[v] = req[v]
  BY <1>1 DEF Inv, Local
<1>3. /\ \A v \in Requests : RequestInv(req[v], v) /\ SlotInv(req[v])
      /\ \A v \in Requests : SlotInv(req'[v])
  BY <1>2 DEF Inv, RequestInv
<1>4. ServerInv'
  <2>1. /\ stage' = stage /\ shutdown' = shutdown /\ notice' = notice /\ waiter' = waiter
        /\ prepared' \in BOOLEAN /\ idle' \in {idle, NoKey, KeyOf[r]}
    BY <1>1 DEF Moves, serverVars
  <2>2. stage # "Preparing"
    BY <1>1 DEF Moves, Inv, ServerInv
  <2>3. prepared' => idle' = NoKey /\ \A v \in Requests : req'[v].worker \in {"None", "Start"}
    <3> SUFFICES ASSUME prepared'
                 PROVE  idle' = NoKey /\ \A v \in Requests : req'[v].worker \in {"None", "Start"}
      OBVIOUS
    <3>1. prepared
      BY <1>1 DEF Moves
    <3>2. idle = NoKey /\ \A v \in Requests : req[v].worker \in {"None", "Start"}
      BY <3>1 DEF Inv, ServerInv
    <3>3. idle' = idle /\ req'[r].worker \in {"None", "Start"}
      BY <1>1, <3>2 DEF Moves
    <3> QED BY <1>2, <3>2, <3>3
  <2>4. stage \in {"Workers", "Resources", "Done"} =>
          /\ NoneSpawning'
          /\ shutdown \/ \A v \in Requests : req'[v].handler = "Idle"
    <3> SUFFICES ASSUME stage \in {"Workers", "Resources", "Done"}
                 PROVE  NoneSpawning' /\ shutdown
      OBVIOUS
    <3>1. NoneSpawning /\ (shutdown \/ req[r].handler = "Idle")
      BY DEF Inv, ServerInv
    <3>2. shutdown
      BY <1>1, <3>1 DEF Moves
    <3>3. req'[r].handler # "Accepted"
      BY <1>1, <3>1, <3>2 DEF Moves, NoneSpawning
    <3> QED BY <1>2, <3>1, <3>2, <3>3 DEF NoneSpawning
  <2>5. stage \in {"Resources", "Done"} => WorkersEnded' /\ UNCHANGED poolVars
    <3> SUFFICES ASSUME stage \in {"Resources", "Done"} PROVE WorkersEnded' /\ UNCHANGED poolVars
      OBVIOUS
    <3>1. WorkersEnded /\ NoneSpawning
      BY DEF Inv, ServerInv
    <3>2. req'[r].worker \in {"None", "Done"} /\ UNCHANGED poolVars
      BY <1>1, <3>1 DEF Moves, WorkersEnded, NoneSpawning
    <3> QED BY <1>2, <3>1, <3>2 DEF WorkersEnded
  <2>6. stage = "Done" => ~prepared' /\ idle' = NoKey
    BY <2>5 DEF poolVars, Inv, ServerInv
  <2>7. idle' \in {KeyOf[v] : v \in Requests} \union {DefaultKey, NoKey}
    BY <2>1 DEF Inv, ServerInv
  <2> QED BY <2>1, <2>2, <2>3, <2>4, <2>5, <2>6, <2>7 DEF Inv, ServerInv
<1>5. Cardinality(Admitted') <= Limit
  <2>1. Admitted \in SUBSET Requests /\ Admitted' \in SUBSET Requests
    BY DEF Admitted
  <2>2. Cardinality(Admitted) <= Limit
    BY DEF Inv, CountInv
  <2>3. CASE Admitted' \subseteq Admitted
    BY <2>1, <2>2, <2>3, Counts, ServerAssumption
  <2>4. CASE ~(Admitted' \subseteq Admitted)
    <3>1. Admitted' \subseteq Admitted \union {r}
      BY <1>2 DEF Admitted
    <3>2. req'[r].permits # {} /\ req[r].permits = {}
      BY <1>2, <2>4 DEF Admitted
    <3>3. Cardinality(Admitted) < Limit
      BY <1>1, <3>2 DEF Moves
    <3>4. Cardinality(Admitted \union {r}) <= Cardinality(Admitted) + 1
      BY <2>1, Counts, FS_AddElement
    <3>5. Admitted \union {r} \in SUBSET Requests
      BY <2>1
    <3> QED BY <2>1, <3>1, <3>3, <3>4, <3>5, Counts, ServerAssumption
  <2> QED BY <2>3, <2>4
<1>6. Cardinality(Owners') + Kept' <= Limit
  <2>1. Owners \in SUBSET Requests /\ Owners' \in SUBSET Requests /\ Admitted' \in SUBSET Requests
    BY DEF Owners, Admitted
  <2>2. Cardinality(Owners) + Kept <= Limit /\ Kept \in Nat /\ Kept' \in Nat
    BY DEF Inv, CountInv, Kept
  <2>3. Owners' \subseteq Admitted'
    BY <1>3 DEF Owners, Admitted, SlotInv, Owning
  <2>4. CASE Kept' = 0
    BY <1>5, <2>1, <2>3, <2>4, Counts, ServerAssumption
  <2>5. CASE Kept' = Kept /\ (req'[r].model => req[r].model)
    <3>1. Owners' \subseteq Owners
      BY <1>2, <2>5 DEF Owners
    <3> QED BY <2>1, <2>2, <2>5, <3>1, Counts, ServerAssumption
  <2>6. CASE Kept' <= Kept + 1 /\ req[r].model /\ ~req'[r].model
    <3>1. Owners' \subseteq Owners \ {r} /\ r \in Owners
      BY <1>2, <2>6 DEF Owners
    <3>2. Cardinality(Owners \ {r}) = Cardinality(Owners) - 1
      BY <2>1, <3>1, Counts, FS_RemoveElement
    <3>3. Owners \ {r} \in SUBSET Requests
      BY <2>1
    <3> QED BY <2>1, <2>2, <2>6, <3>1, <3>2, <3>3, Counts, ServerAssumption
  <2> QED BY <1>1, <2>4, <2>5, <2>6 DEF Moves, ModelMoves
<1> QED BY <1>2, <1>4, <1>5, <1>6 DEF Inv, CountInv

\* A step of the supervisor or of its caller.
LEMMA ServerStep ==
  ASSUME Inv, Supervisor \/ Stop \/ DropWaiter \/ Overdue \/ Report
  PROVE  Inv'
<1>1. req' = req
  BY DEF Supervisor, Prepare, EndTransport, WaitWorkers, Release, Stop, DropWaiter, Overdue, Report
<1>2. req' = [v \in Requests |-> req'[v]] /\ \A v \in Requests : RequestInv(req'[v], v)
  BY <1>1 DEF Inv
<1>3. /\ Admitted' = Admitted /\ Owners' = Owners
      /\ NoneSpawning' = NoneSpawning /\ WorkersEnded' = WorkersEnded
  BY <1>1 DEF Admitted, Owners, NoneSpawning, WorkersEnded
<1>4. \A v \in Requests : req[v].handler = "Idle" => req[v].worker = "None" /\ ~req[v].model
  BY DEF Inv, RequestInv, SlotInv, Owning
<1>5. CASE Prepare
  <2>1. ~prepared /\ idle = NoKey /\ \A v \in Requests : req[v].handler = "Idle"
    BY <1>5 DEF Prepare, Inv, ServerInv
  <2>2. NoneSpawning /\ WorkersEnded /\ Owners = {}
    BY <1>4, <2>1 DEF NoneSpawning, WorkersEnded, Owners
  <2>3. ServerInv'
    BY <1>1, <1>3, <1>4, <1>5, <2>1, <2>2 DEF Prepare, Inv, ServerInv
  <2>4. Kept' <= 1 /\ Kept' \in Nat
    BY <1>5, <2>1 DEF Prepare, Kept
  <2>5. CountInv'
    BY <1>3, <2>2, <2>4, FS_EmptySet, ServerAssumption DEF Inv, CountInv
  <2> QED BY <1>2, <2>3, <2>5 DEF Inv
<1>6. CASE Release
  <2>1. Kept' = 0
    BY <1>6 DEF Release, Kept
  <2>2. ServerInv'
    BY <1>1, <1>3, <1>6 DEF Release, Inv, ServerInv
  <2>3. Owners \in SUBSET Requests /\ Kept \in Nat
    BY DEF Owners, Kept
  <2>4. CountInv'
    BY <1>3, <2>1, <2>3, Counts, ServerAssumption DEF Inv, CountInv
  <2> QED BY <1>2, <2>2, <2>4 DEF Inv
<1>7. CASE EndTransport \/ WaitWorkers \/ Stop \/ DropWaiter \/ Overdue \/ Report
  <2>1. UNCHANGED poolVars
    BY <1>7 DEF EndTransport, WaitWorkers, Stop, DropWaiter, Overdue, Report
  <2>2. CountInv'
    BY <1>3, <2>1 DEF Inv, CountInv, Kept, poolVars
  <2>3. ServerInv'
    <3>1. CASE EndTransport
      BY <1>1, <1>3, <3>1 DEF EndTransport, Notify, Inv, ServerInv, poolVars
    <3>2. CASE WaitWorkers
      BY <1>1, <1>3, <3>2 DEF WaitWorkers, Inv, ServerInv, poolVars
    <3>3. CASE Stop
      BY <1>1, <1>3, <3>3 DEF Stop, Inv, ServerInv, poolVars
    <3>5. CASE DropWaiter
      BY <1>1, <1>3, <3>5 DEF DropWaiter, Inv, ServerInv, poolVars
    <3>4. CASE Overdue \/ Report
      BY <1>1, <1>3, <3>4 DEF Overdue, Report, Notify, Inv, ServerInv, poolVars
    <3> QED BY <1>7, <3>1, <3>2, <3>3, <3>4, <3>5
  <2> QED BY <1>2, <2>2, <2>3 DEF Inv
<1> QED BY <1>5, <1>6, <1>7 DEF Supervisor

LEMMA StepInv == Inv /\ [Next]_vars => Inv'
<1> SUFFICES ASSUME Inv, [Next]_vars PROVE Inv'
  OBVIOUS
<1>1. CASE Next
  BY <1>1, RequestStep, ServerStep DEF Next
<1>2. CASE UNCHANGED vars
  BY <1>2 DEF vars, serverVars, poolVars, Inv, ServerInv, CountInv, Admitted, Owners, Kept,
              NoneSpawning, WorkersEnded
<1> QED BY <1>1, <1>2

LEMMA InvHolds == Spec => []Inv
BY InitInv, StepInv, PTL DEF Spec
-----------------------------------------------------------------------------
(* The theorems.                                                           *)

\* Every request, worker and stream is at one of its stages, with a worker and
\* a stream from the moment its handler has opened them, and never more in the
\* channel than it holds (output_queue_capacity).
THEOREM TypeCorrect == Spec => []TypeOK
<1>1. Inv => TypeOK
  <2> SUFFICES ASSUME Inv PROVE TypeOK
    OBVIOUS
  <2>1. ASSUME NEW r \in Requests
        PROVE  /\ req[r].handler \in {"Idle", "Waiting", "Header", "Accepted", "Opened", "Refused"}
               /\ req[r].worker \in {"None", "Start", "Discard", "Pool", "Retire", "Load", "Header", "Input",
                                     "Infer", "Frame", "Close", "Event", "Status", "Exit", "Sent", "Done"}
               /\ req[r].worker = "None" <=> req[r].handler # "Opened"
               /\ req[r].stream \in {"None", "Open", "Success", "Error", "Dropped"}
               /\ req[r].stream = "None" <=> req[r].handler # "Opened"
               /\ Len(req[r].data) <= Capacity
               /\ req[r].frames <= FramesOf[r]
    BY DEF Inv, RequestInv, Record, SlotInv
  <2> QED BY <2>1 DEF TypeOK, Inv, ServerInv
<1> QED BY <1>1, InvHolds, PTL

\* However many requests are started, cancelled and dropped, there are never
\* more models than execution slots, and one that is in use belongs to a request
\* that holds a slot (Factory, the pool of regression.rs).
THEOREM ModelsAreBounded == Spec => []ModelsBounded
<1>1. Inv => ModelsBounded
  <2> SUFFICES ASSUME Inv PROVE ModelsBounded
    OBVIOUS
  <2>1. \A r \in Requests : req[r].model => "Task" \in req[r].permits
    BY DEF Inv, RequestInv, SlotInv, Owning
  <2>2. Cardinality(Owners) + Kept <= Limit /\ Cardinality(Owners) \in Nat
    <3>1. Owners \in SUBSET Requests
      BY DEF Owners
    <3> QED BY <3>1, Counts DEF Inv, CountInv
  <2> DEFINE n == Cardinality({r \in Requests : req[r].model})
             a == IF prepared THEN 1 ELSE 0
             b == IF idle # NoKey THEN 1 ELSE 0
  <2>3. n + (a + b) <= Limit /\ n \in Nat /\ a \in Nat /\ b \in Nat
    BY <2>2 DEF Owners, Kept
  <2>4. n + a + b <= Limit
    <3> HIDE DEF n, a, b
    <3> QED BY <2>3, ServerAssumption
  <2> QED BY <2>1, <2>4 DEF ModelsBounded
<1> QED BY <1>1, InvHolds, PTL

\* All of the script.
LEMMA WholeScript ==
  ASSUME NEW q \in Record, OnScript(q, q.frames + 3)
  PROVE  Log(q) = << "Header" >> \o [k \in 1 .. q.frames |-> "Frame"] \o << "Event", "Status" >>
<1> DEFINE n == q.frames
           f == [k \in 1 .. n |-> "Frame"]
           h == << "Header" >> \o f
           e == << "Event", "Status" >>
<1>1. n \in Nat /\ Log(q) \in Seq(Messages)
  BY LogIsSeq DEF Record
<1>2. << "Header" >> \in Seq(Messages) /\ Len(<< "Header" >>) = 1 /\ << "Header" >>[1] = "Header"
  BY DEF Messages
<1>3. f \in Seq(Messages) /\ Len(f) = n /\ \A i \in 1 .. n : f[i] = "Frame"
  BY <1>1 DEF Messages
<1>4. e \in Seq(Messages) /\ Len(e) = 2 /\ e[1] = "Event" /\ e[2] = "Status"
  BY DEF Messages
<1> HIDE DEF n, f, e
<1>5. /\ h \in Seq(Messages) /\ Len(h) = n + 1
      /\ \A i \in 1 .. n + 1 : h[i] = IF i = 1 THEN "Header" ELSE "Frame"
  <2>1. /\ h \in Seq(Messages) /\ Len(h) = 1 + n
        /\ \A i \in 1 .. 1 + n : h[i] = IF i <= 1 THEN << "Header" >>[i] ELSE f[i - 1]
    BY <1>1, <1>2, <1>3, ConcatProperties
  <2>2. \A i \in 1 .. n + 1 : h[i] = IF i = 1 THEN "Header" ELSE "Frame"
    <3> SUFFICES ASSUME NEW i \in 1 .. n + 1 PROVE h[i] = IF i = 1 THEN "Header" ELSE "Frame"
      OBVIOUS
    <3>1. CASE i = 1
      BY <1>1, <1>2, <2>1, <3>1
    <3>2. CASE i # 1
      <4>1. i - 1 \in 1 .. n /\ ~(i <= 1)
        BY <1>1, <3>2
      <4> QED BY <1>1, <1>3, <2>1, <3>2, <4>1
    <3> QED BY <3>1, <3>2
  <2> QED BY <1>1, <2>1, <2>2
<1> HIDE DEF h
<1>6. /\ h \o e \in Seq(Messages) /\ Len(h \o e) = n + 3
      /\ \A i \in 1 .. n + 3 : (h \o e)[i] = Script(n, i)
  <2>1. /\ h \o e \in Seq(Messages) /\ Len(h \o e) = (n + 1) + 2
        /\ \A i \in 1 .. (n + 1) + 2 : (h \o e)[i] = IF i <= n + 1 THEN h[i] ELSE e[i - (n + 1)]
    <3>1. /\ h \o e \in Seq(Messages) /\ Len(h \o e) = Len(h) + Len(e)
          /\ \A i \in 1 .. Len(h) + Len(e) : (h \o e)[i] = IF i <= Len(h) THEN h[i] ELSE e[i - Len(h)]
      BY <1>4, <1>5, ConcatProperties
    <3>2. Len(h) = n + 1 /\ Len(e) = 2
      BY <1>4, <1>5
    <3> QED BY <3>1, <3>2
  <2>2. ASSUME NEW i \in 1 .. n + 3 PROVE (h \o e)[i] = Script(n, i)
    <3>1. CASE i <= n + 1
      BY <1>1, <1>5, <2>1, <3>1 DEF Script
    <3>2. CASE i = n + 2
      <4>1. i - (n + 1) = 1 /\ ~(i <= n + 1) /\ i # 1
        BY <1>1, <3>2
      <4> QED BY <1>1, <1>4, <2>1, <3>2, <4>1 DEF Script
    <3>3. CASE i = n + 3
      <4>1. i - (n + 1) = 2 /\ ~(i <= n + 1) /\ i # 1 /\ i # n + 2
        BY <1>1, <3>3
      <4> QED BY <1>1, <1>4, <2>1, <3>3, <4>1 DEF Script
    <3>4. i <= n + 1 \/ i = n + 2 \/ i = n + 3
      BY <1>1
    <3> QED BY <3>1, <3>2, <3>3, <3>4
  <2> QED BY <1>1, <2>1, <2>2
<1>7. Len(Log(q)) = n + 3 /\ \A i \in 1 .. n + 3 : Log(q)[i] = Script(n, i)
  BY DEF OnScript, n
<1>8. Log(q) = h \o e
  BY <1>1, <1>6, <1>7, SeqEqual
<1> QED BY <1>8 DEF h, f, e, n

\* For any number of frames, requests and slots: the status is sent after
\* everything else and a successful cleanup, and a stream that ends well has
\* given out all of it (send_success, poll_next).
THEOREM SuccessIsTheEnd == Spec => []SuccessIsFinal
<1>1. Inv => SuccessIsFinal
  <2> SUFFICES ASSUME Inv, NEW r \in Requests, NEW q, q = req[r]
               PROVE  /\ q.stream = "Success" => /\ q.data = << >>
                                                 /\ "Status" \in {q.got[i] : i \in DOMAIN q.got}
                      /\ \A i \in DOMAIN Log(q) : Log(q)[i] = "Status" =>
                           /\ q.cleanup = "Ok"
                           /\ Log(q) = << "Header" >> \o [k \in 1 .. q.frames |-> "Frame"]
                                         \o << "Event", "Status" >>
    BY DEF SuccessIsFinal, Sent, Log
  <2>1. q \in Record /\ LogInv(q) /\ q.frames \in Nat
    BY DEF Inv, RequestInv, Record
  <2>2. Log(q) \in Seq(Messages) /\ DOMAIN Log(q) = 1 .. Len(Log(q))
    BY <2>1, LogIsSeq, LenProperties
  <2>3. ASSUME NEW i \in DOMAIN Log(q), Log(q)[i] = "Status"
        PROVE  /\ q.cleanup = "Ok"
               /\ Log(q) = << "Header" >> \o [k \in 1 .. q.frames |-> "Frame"] \o << "Event", "Status" >>
    BY <2>1, <2>2, <2>3, WholeScript DEF LogInv, Complete
  <2>4. ASSUME q.stream = "Success"
        PROVE  q.data = << >> /\ "Status" \in {q.got[i] : i \in DOMAIN q.got}
    <3>1. q.data = << >> /\ OnScript(q, q.frames + 3)
      BY <2>1, <2>4 DEF LogInv, Complete
    <3>2. Log(q)[q.frames + 3] = "Status" /\ Len(Log(q)) = q.frames + 3
      BY <2>1, <3>1 DEF OnScript, Script
    <3>3. q.got \in Seq(Messages)
      BY <2>1 DEF Record
    <3>4. Log(q) = q.got
      <4>1. q.got \o << >> = q.got
        BY <3>3, ConcatEmptySeq
      <4> QED BY <3>1, <4>1 DEF Log
    <3> QED BY <2>1, <2>2, <3>1, <3>2, <3>4
  <2> QED BY <2>3, <2>4
<1> QED BY <1>1, InvHolds, PTL

\* When the server releases its resources no worker runs and none can still be
\* spawned, and when it is done no model is left (run_inner).
THEOREM DoneIsClean == Spec => []CleanAtEnd
<1>1. Inv => CleanAtEnd
  BY DEF Inv, RequestInv, SlotInv, Owning, ServerInv, WorkersEnded, NoneSpawning, CleanAtEnd
<1> QED BY <1>1, InvHolds, PTL
=============================================================================
