-------------------------- MODULE AdmissionProofs --------------------------
(***************************************************************************)
(* Proofs about Admission for any number of requests, permits and places   *)
(* in the queue.  The four safety properties of the queue rest on each     *)
(* other and are proved by one inductive invariant: a free slot is handed  *)
(* on at once only because no waiter is ever passed over, and close can    *)
(* take reservations back only because all of them are recorded.           *)
(***************************************************************************)
EXTENDS Admission, FiniteSetTheorems, TLAPS

Having(o, v) == {w \in Waiters : o[w] = v}

\* The queue with a permits out, q waiting, g recorded as granted, outcomes o,
\* and the permits of run held.
QueueInv(a, q, g, o, run) ==
  /\ a \in Nat /\ a <= Limit
  /\ o \in [Waiters -> {"None", "Waiting", "Granted", "Consumed"} \cup Resolved]
  /\ q = Having(o, "Waiting")
  /\ Having(o, "Granted") \subseteq g /\ g \subseteq Waiters
  /\ run \subseteq Having(o, "Consumed")
  /\ a = Cardinality(Having(o, "Granted")) + Cardinality(run)
  /\ closed => q = {} /\ Having(o, "Granted") = {}
  /\ \A w \in q, v \in Having(o, "Granted") \cup run : arrival[v] < arrival[w]

Called == {w \in Waiters : acq[w] # "None"}

\* The calls of acquire are numbered in their order.
OwnerInv ==
  /\ acq \in [Waiters -> {"None", "Register", "RunListener", "Held", "Unregister", "Gone"}]
  /\ permit \in [Waiters -> BOOLEAN]
  /\ arrival \in [Waiters -> Nat]
  /\ \A w \in Waiters : acq[w] = "None" => outcome[w] = "None"
  /\ \A w \in Waiters : arrival[w] <= Cardinality(Called)

AdmissionInv ==
  /\ QueueInv(active, queue, grants, outcome, Running)
  /\ OwnerInv
  /\ WorkConserving

-----------------------------------------------------------------------------
\* Every set of waiters is finite, and can be counted.
LEMMA WaitersFinite ==
  ASSUME NEW S \in SUBSET Waiters
  PROVE  IsFiniteSet(S) /\ Cardinality(S) \in Nat
BY AdmissionAssumption, FS_Subset, FS_CardinalityType

\* Inner::dispatch keeps the queue in order and leaves no slot free that someone
\* waits for; it touches the outcome of no one outside the queue.
LEMMA DispatchKeeps ==
  ASSUME NEW a, NEW q, NEW o, NEW run, QueueInv(a, q, grants, o, run),
         NEW s \in Dispatched(a, q, o)
  PROVE  /\ QueueInv(s.active, s.queue, s.grants, s.outcome, run)
         /\ s.queue # {} => s.active = Limit
         /\ \A w \in Waiters : o[w] # "Waiting" => s.outcome[w] = o[w]
<1> DEFINE live == q \ due
<1>1. PICK G \in Turns(live, a) :
        s = [ active  |-> a + Cardinality(G),
              queue   |-> live \ G,
              grants  |-> IF G = {} THEN grants ELSE {w \in grants : o[w] = "Granted"} \cup G,
              outcome |-> [w \in Waiters |->
                             IF w \in q \cap due THEN "DeadlineExceeded"
                             ELSE IF w \in G THEN "Granted"
                             ELSE o[w]] ]
  BY DEF Dispatched
<1>2. /\ s.active = a + Cardinality(G)
      /\ s.queue = live \ G
      /\ s.grants = IF G = {} THEN grants ELSE {w \in grants : o[w] = "Granted"} \cup G
      /\ s.outcome = [w \in Waiters |->
                             IF w \in q \cap due THEN "DeadlineExceeded"
                             ELSE IF w \in G THEN "Granted"
                             ELSE o[w]]
  BY <1>1
<1>3. /\ G \subseteq live /\ live \subseteq q /\ q \subseteq Waiters
      /\ closed => G = {}
      /\ a >= Limit => G = {}
      /\ G # {} => a + Cardinality(G) <= Limit
      /\ closed \/ a + Cardinality(G) >= Limit \/ G = live
      /\ \A g \in G, l \in live \ G : arrival[g] < arrival[l]
  BY <1>1 DEF Turns, QueueInv, Having
<1>4. /\ IsFiniteSet(G) /\ Cardinality(G) \in Nat
      /\ IsFiniteSet(Having(o, "Granted")) /\ Cardinality(Having(o, "Granted")) \in Nat
      /\ IsFiniteSet(run) /\ Cardinality(run) \in Nat
  BY <1>3, WaitersFinite DEF Having, QueueInv
<1>5. /\ a \in Nat /\ a <= Limit /\ Limit \in Nat /\ Cardinality({}) = 0
  BY AdmissionAssumption, FS_EmptySet DEF QueueInv
<1>6. s.active \in Nat /\ s.active <= Limit
  <2>1. s.active = a + Cardinality(G)
    BY <1>2
  <2>2. a + Cardinality(G) <= Limit
    BY <1>3, <1>5
  <2> QED BY <2>1, <2>2, <1>4, <1>5
<1>7. s.queue # {} => s.active = Limit
  <2>1. CASE closed
    BY <2>1, <1>2, <1>3 DEF QueueInv
  <2>2. CASE ~closed
    BY <2>2, <1>2, <1>3, <1>4, <1>5, <1>6
  <2> QED BY <2>1, <2>2
<1>8. s.outcome \in [Waiters -> {"None", "Waiting", "Granted", "Consumed"} \cup Resolved]
  BY <1>2 DEF QueueInv, Resolved
<1>9. \A w \in Waiters : s.outcome[w] = IF w \in q \cap due THEN "DeadlineExceeded"
                                        ELSE IF w \in G THEN "Granted" ELSE o[w]
  BY <1>2
<1>10. Having(s.outcome, "Granted") = Having(o, "Granted") \cup G
  BY <1>3, <1>9 DEF Having, QueueInv
<1>11. s.queue = Having(s.outcome, "Waiting")
  BY <1>2, <1>3, <1>9 DEF Having, QueueInv
<1>12. Having(s.outcome, "Consumed") = Having(o, "Consumed")
  BY <1>3, <1>9 DEF Having, QueueInv, Resolved
<1>13. Having(s.outcome, "Granted") \subseteq s.grants /\ s.grants \subseteq Waiters
  BY <1>2, <1>3, <1>10 DEF QueueInv, Having
<1>14. s.active = Cardinality(Having(s.outcome, "Granted")) + Cardinality(run)
  <2>1. Having(o, "Granted") \cap G = {}
    BY <1>3 DEF Having, QueueInv
  <2>2. Cardinality(Having(o, "Granted") \cup G)
          = Cardinality(Having(o, "Granted")) + Cardinality(G) - Cardinality(Having(o, "Granted") \cap G)
    BY <1>4, FS_Union
  <2>3. a = Cardinality(Having(o, "Granted")) + Cardinality(run)
    BY DEF QueueInv
  <2>4. Cardinality(Having(s.outcome, "Granted")) = Cardinality(Having(o, "Granted")) + Cardinality(G)
    <3>1. Cardinality(Having(o, "Granted") \cap G) = 0
      BY <2>1, <1>5
    <3>2. Cardinality(Having(s.outcome, "Granted")) = Cardinality(Having(o, "Granted") \cup G)
      BY <1>10
    <3> QED BY <2>2, <3>1, <3>2, <1>4
  <2>5. s.active = a + Cardinality(G)
    BY <1>2
  <2> QED BY <2>3, <2>4, <2>5, <1>4
<1>15. closed => s.queue = {} /\ Having(s.outcome, "Granted") = {}
  BY <1>2, <1>3, <1>10 DEF QueueInv
<1>16. \A w \in s.queue, v \in Having(s.outcome, "Granted") \cup run : arrival[v] < arrival[w]
  BY <1>2, <1>3, <1>10 DEF QueueInv
<1>17. \A w \in Waiters : o[w] # "Waiting" => s.outcome[w] = o[w]
  BY <1>3, <1>9 DEF QueueInv, Having
<1> QED BY <1>6, <1>7, <1>8, <1>11, <1>12, <1>13, <1>14, <1>15, <1>16, <1>17 DEF QueueInv

-----------------------------------------------------------------------------
(* The actions.                                                            *)

\* An empty queue is in order.
LEMMA InitQueue == Init => AdmissionInv
<1> SUFFICES ASSUME Init PROVE AdmissionInv
  OBVIOUS
<1>1. Having(outcome, "Granted") = {} /\ Having(outcome, "Waiting") = {} /\ Running = {} /\ Called = {}
  BY DEF Init, Having, Running, Called
<1>2. Cardinality({}) = 0 /\ 0 <= Limit
  BY AdmissionAssumption, FS_EmptySet
<1>3. QueueInv(active, queue, grants, outcome, Running)
  BY <1>1, <1>2 DEF Init, QueueInv
<1>4. OwnerInv
  BY <1>1, <1>2 DEF Init, OwnerInv
<1> QED BY <1>3, <1>4 DEF AdmissionInv, WorkConserving, Init

\* The critical section of an operation that gives nobody a permit and starts no
\* call ends with a dispatch of the queue.
LEMMA ServeKeeps ==
  ASSUME AdmissionInv, NEW a, NEW q, NEW o, QueueInv(a, q, grants, o, Running'),
         NEW s \in Dispatched(a, q, o), Settle(s),
         \A w \in Waiters : outcome[w] = "None" => o[w] = "None",
         Running' \subseteq Running, UNCHANGED << closed, arrival >>,
         permit' \in [Waiters -> BOOLEAN],
         acq' \in [Waiters -> {"None", "Register", "RunListener", "Held", "Unregister", "Gone"}],
         \A w \in Waiters : acq'[w] = "None" <=> acq[w] = "None"
  PROVE  AdmissionInv'
<1>1. /\ QueueInv(s.active, s.queue, s.grants, s.outcome, Running')
      /\ s.queue # {} => s.active = Limit
      /\ \A w \in Waiters : o[w] # "Waiting" => s.outcome[w] = o[w]
  BY DispatchKeeps
<1>2. active' = s.active /\ queue' = s.queue /\ grants' = s.grants /\ outcome' = s.outcome
  BY DEF Settle
<1>3. QueueInv(active, queue, grants, outcome, Running)'
  BY <1>1, <1>2 DEF QueueInv
<1>4. OwnerInv'
  <2>1. Called' = Called
    BY DEF Called
  <2>2. \A w \in Waiters : acq'[w] = "None" => outcome'[w] = "None"
    BY <1>1, <1>2 DEF AdmissionInv, OwnerInv
  <2> QED BY <2>1, <2>2 DEF AdmissionInv, OwnerInv
<1>5. WorkConserving'
  BY <1>1, <1>2 DEF WorkConserving
<1> QED BY <1>3, <1>4, <1>5 DEF AdmissionInv

\* Inner::remove takes a waiter or a reservation out and hands its slot on.
LEMMA RemoveKeeps ==
  ASSUME AdmissionInv, NEW w \in Waiters, Remove(w), UNCHANGED << closed, arrival, permit >>,
         acq' \in [Waiters -> {"None", "Register", "RunListener", "Held", "Unregister", "Gone"}],
         \A v \in Waiters : acq'[v] = "None" <=> acq[v] = "None"
  PROVE  AdmissionInv'
<1>1. CASE outcome[w] \in {"Waiting", "Granted"}
  <2> DEFINE a == IF outcome[w] = "Granted" THEN active - 1 ELSE active
             q == queue \ {w}
             o == [outcome EXCEPT ![w] = "Cancelled"]
  <2>1. PICK s \in Dispatched(a, q, o) : Settle(s)
    BY <1>1 DEF Remove
  <2>2. /\ QueueInv(active, queue, grants, outcome, Running)
        /\ outcome \in [Waiters -> {"None", "Waiting", "Granted", "Consumed"} \cup Resolved]
    BY DEF AdmissionInv, QueueInv
  <2>3. /\ o \in [Waiters -> {"None", "Waiting", "Granted", "Consumed"} \cup Resolved]
        /\ \A v \in Waiters : o[v] = IF v = w THEN "Cancelled" ELSE outcome[v]
    BY <2>2 DEF Resolved
  <2> HIDE DEF o
  <2>4. /\ Having(o, "Waiting") = Having(outcome, "Waiting") \ {w}
        /\ Having(o, "Granted") = Having(outcome, "Granted") \ {w}
        /\ Having(o, "Consumed") = Having(outcome, "Consumed")
        /\ w \in Having(outcome, "Granted") <=> outcome[w] = "Granted"
    BY <1>1, <2>3 DEF Having
  <2>5. /\ IsFiniteSet(Having(outcome, "Granted")) /\ Cardinality(Having(outcome, "Granted")) \in Nat
        /\ Cardinality(Running) \in Nat /\ Cardinality(Having(o, "Granted")) \in Nat
    BY WaitersFinite DEF Having, Running
  <2>6. Cardinality(Having(o, "Granted")) = IF outcome[w] = "Granted"
                                            THEN Cardinality(Having(outcome, "Granted")) - 1
                                            ELSE Cardinality(Having(outcome, "Granted"))
    <3>1. Cardinality(Having(outcome, "Granted") \ {w})
            = IF w \in Having(outcome, "Granted")
              THEN Cardinality(Having(outcome, "Granted")) - 1
              ELSE Cardinality(Having(outcome, "Granted"))
      BY <2>5, FS_RemoveElement
    <3> QED BY <3>1, <2>4
  <2>7. a \in Nat /\ a <= Limit /\ a = Cardinality(Having(o, "Granted")) + Cardinality(Running)
    <3>1. /\ active = Cardinality(Having(outcome, "Granted")) + Cardinality(Running)
          /\ active \in Nat /\ active <= Limit
      BY <2>2 DEF QueueInv
    <3> QED BY <3>1, <2>5, <2>6, AdmissionAssumption
  <2> HIDE DEF a
  <2>8. Running' = Running
    BY DEF Running
  <2>9. QueueInv(a, q, grants, o, Running')
    BY <2>2, <2>3, <2>4, <2>7, <2>8 DEF QueueInv
  <2>10. \A v \in Waiters : outcome[v] = "None" => o[v] = "None"
    BY <1>1, <2>3
  <2>11. permit' \in [Waiters -> BOOLEAN]
    BY DEF AdmissionInv, OwnerInv
  <2> HIDE DEF q
  <2> QED BY <2>1, <2>8, <2>9, <2>10, <2>11, ServeKeeps
<1>2. CASE outcome[w] \notin {"Waiting", "Granted"}
  <2>1. UNCHANGED << active, queue, grants, outcome, closed, arrival, permit >>
    BY <1>2 DEF Remove
  <2>2. Called' = Called /\ Running' = Running
    BY DEF Called, Running
  <2> QED BY <2>1, <2>2 DEF AdmissionInv, QueueInv, OwnerInv, WorkConserving, Having
<1> QED BY <1>1, <1>2

\* Admission::acquire places the new waiter behind everyone who still waits.
LEMMA AcquireKeeps ==
  ASSUME AdmissionInv, NEW w \in Waiters, Acquire(w)
  PROVE  AdmissionInv'
<1>1. PICK s \in Dispatched(active, queue, outcome) : Settle(Placed(s, w))
  BY DEF Acquire
<1>2. /\ QueueInv(s.active, s.queue, s.grants, s.outcome, Running)
      /\ s.queue # {} => s.active = Limit
      /\ \A v \in Waiters : outcome[v] # "Waiting" => s.outcome[v] = outcome[v]
  BY DispatchKeeps DEF AdmissionInv
<1>3. /\ acq[w] = "None" /\ outcome[w] = "None" /\ s.outcome[w] = "None"
      /\ w \notin s.queue /\ w \notin Having(s.outcome, "Granted") /\ w \notin Running
      /\ s.outcome \in [Waiters -> {"None", "Waiting", "Granted", "Consumed"} \cup Resolved]
      /\ s = [active |-> s.active, queue |-> s.queue, grants |-> s.grants, outcome |-> s.outcome]
  <2>1. acq[w] = "None" /\ outcome[w] = "None" /\ s.outcome[w] = "None"
    BY <1>2 DEF Acquire, AdmissionInv, OwnerInv
  <2>2. s = [active |-> s.active, queue |-> s.queue, grants |-> s.grants, outcome |-> s.outcome]
    BY DEF Dispatched
  <2> QED BY <1>2, <2>1, <2>2 DEF QueueInv, Having, Running
<1>4. /\ closed' = closed /\ permit' = permit /\ Running' = Running
      /\ arrival' = [arrival EXCEPT ![w] = Cardinality(Called) + 1]
      /\ acq' = [acq EXCEPT ![w] = "Register"]
  BY DEF Acquire, Running, Called
<1>5. /\ Called' = Called \cup {w} /\ w \notin Called
      /\ Cardinality(Called) \in Nat /\ Cardinality(Called') = Cardinality(Called) + 1
  <2>1. Called' = Called \cup {w} /\ w \notin Called
    BY <1>3, <1>4 DEF Called, AdmissionInv, OwnerInv
  <2>2. IsFiniteSet(Called) /\ Cardinality(Called) \in Nat
    BY WaitersFinite DEF Called
  <2> QED BY <2>1, <2>2, FS_AddElement
<1>6. /\ \A v \in Waiters \ {w} : arrival'[v] = arrival[v]
      /\ \A v \in Waiters \ {w} : arrival[v] < arrival'[w]
      /\ arrival' \in [Waiters -> Nat]
      /\ \A v \in Waiters : arrival'[v] <= Cardinality(Called')
  BY <1>4, <1>5 DEF AdmissionInv, OwnerInv
<1>7. /\ acq' \in [Waiters -> {"None", "Register", "RunListener", "Held", "Unregister", "Gone"}]
      /\ \A v \in Waiters : acq'[v] = "None" => v # w /\ acq[v] = "None"
  BY <1>4 DEF AdmissionInv, OwnerInv
<1>8. SUFFICES /\ QueueInv(active, queue, grants, outcome, Running)'
               /\ \A v \in Waiters \ {w} : outcome[v] = "None" => outcome'[v] = "None"
               /\ WorkConserving'
  BY <1>4, <1>6, <1>7 DEF AdmissionInv, OwnerInv
<1>9. /\ active' = Placed(s, w).active /\ queue' = Placed(s, w).queue
      /\ grants' = Placed(s, w).grants /\ outcome' = Placed(s, w).outcome
  BY <1>1 DEF Settle
<1>10. ASSUME NEW error \in Resolved, Placed(s, w) = Refused(s, w, error)
       PROVE  <1>8!1
  <2>1. /\ active' = s.active /\ queue' = s.queue /\ grants' = s.grants
        /\ outcome' = [s.outcome EXCEPT ![w] = error]
    BY <1>3, <1>9, <1>10 DEF Refused
  <2>2. /\ \A v \in Waiters : outcome'[v] = IF v = w THEN error ELSE s.outcome[v]
        /\ outcome' \in [Waiters -> {"None", "Waiting", "Granted", "Consumed"} \cup Resolved]
    BY <1>3, <2>1
  <2>3. /\ Having(outcome, "Waiting")' = Having(s.outcome, "Waiting")
        /\ Having(outcome, "Granted")' = Having(s.outcome, "Granted")
        /\ Having(outcome, "Consumed")' = Having(s.outcome, "Consumed")
    BY <1>3, <2>2 DEF Having, Resolved
  <2>4. QueueInv(active, queue, grants, outcome, Running)'
    BY <1>2, <1>3, <1>4, <1>6, <2>1, <2>2, <2>3 DEF QueueInv, Having
  <2> QED BY <1>2, <2>1, <2>2, <2>4 DEF WorkConserving
<1>11. CASE ~closed /\ s.active < Limit /\ Placed(s, w) = Granted(s, w)
  <2>1. /\ active' = s.active + 1 /\ queue' = s.queue
        /\ grants' = {x \in s.grants : s.outcome[x] = "Granted"} \cup {w}
        /\ outcome' = [s.outcome EXCEPT ![w] = "Granted"]
    BY <1>3, <1>9, <1>11 DEF Granted
  <2>2. /\ \A v \in Waiters : outcome'[v] = IF v = w THEN "Granted" ELSE s.outcome[v]
        /\ outcome' \in [Waiters -> {"None", "Waiting", "Granted", "Consumed"} \cup Resolved]
    BY <1>3, <2>1
  <2>3. /\ Having(outcome, "Waiting")' = Having(s.outcome, "Waiting")
        /\ Having(outcome, "Granted")' = Having(s.outcome, "Granted") \cup {w}
        /\ Having(outcome, "Consumed")' = Having(s.outcome, "Consumed")
    BY <1>3, <2>2 DEF Having
  <2>4. s.queue = {}
    BY <1>2, <1>11, AdmissionAssumption DEF QueueInv
  <2>5. /\ IsFiniteSet(Having(s.outcome, "Granted")) /\ Cardinality(Having(s.outcome, "Granted")) \in Nat
        /\ Cardinality(Running) \in Nat
    BY WaitersFinite DEF Having, Running
  <2>6. Cardinality(Having(outcome, "Granted")') = Cardinality(Having(s.outcome, "Granted")) + 1
    BY <1>3, <2>3, <2>5, FS_AddElement
  <2>7. active' \in Nat /\ active' <= Limit
        /\ active' = Cardinality(Having(outcome, "Granted")') + Cardinality(Running')
    <3>1. s.active \in Nat /\ s.active = Cardinality(Having(s.outcome, "Granted")) + Cardinality(Running)
      BY <1>2 DEF QueueInv
    <3> QED BY <3>1, <1>4, <1>11, <2>1, <2>5, <2>6, AdmissionAssumption
  <2>8. Having(outcome, "Granted")' \subseteq grants' /\ grants' \subseteq Waiters
    BY <1>2, <2>1, <2>3 DEF QueueInv, Having
  <2>9. QueueInv(active, queue, grants, outcome, Running)'
    BY <1>2, <1>4, <1>11, <2>1, <2>2, <2>3, <2>4, <2>7, <2>8 DEF QueueInv
  <2> QED BY <2>1, <2>2, <2>4, <2>9, <1>2 DEF WorkConserving
<1>12. CASE ~closed /\ ~(s.active < Limit)
            /\ Placed(s, w) = [s EXCEPT !.queue = @ \cup {w}, !.outcome[w] = "Waiting"]
  <2>1. /\ active' = s.active /\ queue' = s.queue \cup {w} /\ grants' = s.grants
        /\ outcome' = [s.outcome EXCEPT ![w] = "Waiting"]
    BY <1>3, <1>9, <1>12
  <2>2. /\ \A v \in Waiters : outcome'[v] = IF v = w THEN "Waiting" ELSE s.outcome[v]
        /\ outcome' \in [Waiters -> {"None", "Waiting", "Granted", "Consumed"} \cup Resolved]
    BY <1>3, <2>1
  <2>3. /\ Having(outcome, "Waiting")' = Having(s.outcome, "Waiting") \cup {w}
        /\ Having(outcome, "Granted")' = Having(s.outcome, "Granted")
        /\ Having(outcome, "Consumed")' = Having(s.outcome, "Consumed")
    BY <1>3, <2>2 DEF Having
  <2>4. \A x \in queue', v \in Having(outcome, "Granted")' \cup Running' : arrival'[v] < arrival'[x]
    <3>1. \A v \in Having(outcome, "Granted")' \cup Running' : v \in Waiters \ {w}
      BY <1>3, <1>4, <2>3 DEF Having, Running
    <3>2. s.queue \subseteq Waiters \ {w}
      BY <1>2, <1>3 DEF QueueInv, Having
    <3>3. \A x \in s.queue, v \in Having(s.outcome, "Granted") \cup Running : arrival[v] < arrival[x]
      BY <1>2 DEF QueueInv
    <3> QED BY <1>4, <1>6, <2>1, <2>3, <3>1, <3>2, <3>3
  <2>5. QueueInv(active, queue, grants, outcome, Running)'
    BY <1>2, <1>4, <1>12, <2>1, <2>2, <2>3, <2>4 DEF QueueInv
  <2>6. active' = Limit
    BY <1>2, <1>12, <2>1, AdmissionAssumption DEF QueueInv
  <2> QED BY <2>2, <2>5, <2>6, <1>2 DEF WorkConserving
<1> QED BY <1>10, <1>11, <1>12 DEF Placed, Resolved

\* Acquire::poll turns a reservation into a permit, and consumes an error.
LEMMA PollKeeps ==
  ASSUME AdmissionInv, NEW w \in Waiters, Poll(w)
  PROVE  AdmissionInv'
<1>1. /\ QueueInv(active, queue, grants, outcome, Running)
      /\ outcome \in [Waiters -> {"None", "Waiting", "Granted", "Consumed"} \cup Resolved]
      /\ permit \in [Waiters -> BOOLEAN]
      /\ acq[w] = "Held" /\ outcome[w] # "Consumed"
      /\ UNCHANGED << active, closed, queue, grants, arrival, acq >>
  BY DEF AdmissionInv, QueueInv, OwnerInv, Poll
<1>2. Called' = Called
  BY <1>1 DEF Called
<1>3. CASE UNCHANGED << outcome, permit >>
  <2>1. Running' = Running
    BY <1>3 DEF Running
  <2> QED BY <1>1, <1>2, <1>3, <2>1 DEF AdmissionInv, QueueInv, OwnerInv, WorkConserving, Having
<1>4. CASE /\ outcome[w] # "Waiting"
           /\ permit' = [permit EXCEPT ![w] = outcome[w] = "Granted"]
           /\ outcome' = [outcome EXCEPT ![w] = "Consumed"]
  <2>1. ~permit[w]
    BY <1>1 DEF QueueInv, Having, Running
  <2>2. /\ outcome' \in [Waiters -> {"None", "Waiting", "Granted", "Consumed"} \cup Resolved]
        /\ \A v \in Waiters : outcome'[v] = IF v = w THEN "Consumed" ELSE outcome[v]
    BY <1>1, <1>4
  <2>3. /\ Having(outcome, "Waiting")' = Having(outcome, "Waiting")
        /\ Having(outcome, "Granted")' = Having(outcome, "Granted") \ {w}
        /\ Having(outcome, "Consumed")' = Having(outcome, "Consumed") \cup {w}
    BY <1>4, <2>2 DEF Having
  <2>4. permit' \in [Waiters -> BOOLEAN]
    BY <1>1, <1>4
  <2>5. Running' = IF outcome[w] = "Granted" THEN Running \cup {w} ELSE Running
    <3>1. CASE outcome[w] = "Granted"
      BY <1>1, <1>4, <3>1 DEF Running
    <3>2. CASE outcome[w] # "Granted"
      BY <1>1, <1>4, <2>1, <3>2 DEF Running
    <3> QED BY <3>1, <3>2
  <2>6. /\ IsFiniteSet(Having(outcome, "Granted")) /\ Cardinality(Having(outcome, "Granted")) \in Nat
        /\ IsFiniteSet(Running) /\ Cardinality(Running) \in Nat
        /\ w \notin Running
        /\ w \in Having(outcome, "Granted") <=> outcome[w] = "Granted"
    BY <2>1, WaitersFinite DEF Having, Running
  <2>7. active = Cardinality(Having(outcome, "Granted")') + Cardinality(Running')
    <3>1. active = Cardinality(Having(outcome, "Granted")) + Cardinality(Running)
      BY <1>1 DEF QueueInv
    <3>2. CASE outcome[w] = "Granted"
      <4>1. Cardinality(Having(outcome, "Granted")') = Cardinality(Having(outcome, "Granted")) - 1
        BY <2>3, <2>6, <3>2, FS_RemoveElement
      <4>2. Cardinality(Running') = Cardinality(Running) + 1
        BY <2>5, <2>6, <3>2, FS_AddElement
      <4> QED BY <2>6, <3>1, <4>1, <4>2
    <3>3. CASE outcome[w] # "Granted"
      <4>1. Having(outcome, "Granted")' = Having(outcome, "Granted")
        BY <2>3, <2>6, <3>3
      <4> QED BY <2>5, <3>1, <3>3, <4>1
    <3> QED BY <3>2, <3>3
  <2>8. QueueInv(active, queue, grants, outcome, Running)'
    <3>1. Running' \subseteq Having(outcome, "Consumed")'
      BY <1>1, <2>3, <2>5 DEF QueueInv
    <3>2. Having(outcome, "Granted")' \cup Running' \subseteq Having(outcome, "Granted") \cup Running
      BY <2>3, <2>5, <2>6
    <3> QED BY <1>1, <2>2, <2>3, <2>7, <3>1, <3>2 DEF QueueInv
  <2> QED BY <1>1, <1>2, <2>2, <2>4, <2>8 DEF AdmissionInv, OwnerInv, WorkConserving
<1> QED BY <1>3, <1>4 DEF Poll

\* Dropping a permit hands its slot on.
LEMMA DropPermitKeeps ==
  ASSUME AdmissionInv, NEW w \in Waiters, DropPermit(w)
  PROVE  AdmissionInv'
<1>1. /\ permit[w] /\ permit' = [permit EXCEPT ![w] = FALSE]
      /\ UNCHANGED << closed, arrival, acq >>
  BY DEF DropPermit
<1>2. PICK s \in Dispatched(active - 1, queue, outcome) : Settle(s)
  BY DEF DropPermit
<1>3. /\ Running' = Running \ {w} /\ w \in Running
      /\ permit' \in [Waiters -> BOOLEAN]
  BY <1>1 DEF Running, AdmissionInv, OwnerInv
<1>4. Cardinality(Running') = Cardinality(Running) - 1 /\ Cardinality(Running) \in Nat
      /\ Cardinality(Running') \in Nat
  <2>1. IsFiniteSet(Running) /\ Cardinality(Running) \in Nat /\ Cardinality(Running') \in Nat
    BY <1>3, WaitersFinite DEF Running
  <2> QED BY <1>3, <2>1, FS_RemoveElement
<1>5. QueueInv(active - 1, queue, grants, outcome, Running')
  <2>1. QueueInv(active, queue, grants, outcome, Running)
    BY DEF AdmissionInv
  <2>2. Cardinality(Having(outcome, "Granted")) \in Nat
    BY WaitersFinite DEF Having
  <2>3. /\ active - 1 \in Nat /\ active - 1 <= Limit
        /\ active - 1 = Cardinality(Having(outcome, "Granted")) + Cardinality(Running')
    <3>1. /\ active \in Nat /\ active <= Limit
          /\ active = Cardinality(Having(outcome, "Granted")) + Cardinality(Running)
      BY <2>1 DEF QueueInv
    <3> QED BY <1>4, <2>2, <3>1, AdmissionAssumption
  <2> QED BY <1>3, <2>1, <2>3 DEF QueueInv
<1>6. acq' \in [Waiters -> {"None", "Register", "RunListener", "Held", "Unregister", "Gone"}]
  BY <1>1 DEF AdmissionInv, OwnerInv
<1> QED BY <1>1, <1>2, <1>3, <1>5, <1>6, ServeKeeps

\* Admission::close takes back every reservation, and only those.
LEMMA CloseKeeps ==
  ASSUME AdmissionInv, Close
  PROVE  AdmissionInv'
<1> DEFINE revoked == {w \in grants : outcome[w] = "Granted"}
<1>1. /\ active' = active - Cardinality(revoked) /\ queue' = {} /\ grants' = {}
      /\ outcome' = [w \in Waiters |-> IF w \in queue \cup revoked
                                        THEN "ShuttingDown" ELSE outcome[w]]
      /\ UNCHANGED << arrival, acq, permit >>
  BY DEF Close, Settle, ownerVars
<1>2. QueueInv(active, queue, grants, outcome, Running)
  BY DEF AdmissionInv
<1>3. revoked = Having(outcome, "Granted") /\ queue = Having(outcome, "Waiting")
  BY <1>2 DEF QueueInv, Having
<1> HIDE DEF revoked
<1>4. /\ outcome' \in [Waiters -> {"None", "Waiting", "Granted", "Consumed"} \cup Resolved]
      /\ Having(outcome, "Waiting")' = {} /\ Having(outcome, "Granted")' = {}
      /\ Having(outcome, "Consumed")' = Having(outcome, "Consumed")
  BY <1>1, <1>2, <1>3 DEF QueueInv, Having, Resolved
<1>5. Running' = Running /\ Called' = Called
  BY <1>1 DEF Running, Called
<1>6. /\ Cardinality(Having(outcome, "Granted")) \in Nat /\ Cardinality(Running) \in Nat
      /\ Cardinality({}) = 0
  BY WaitersFinite, FS_EmptySet DEF Having, Running
<1>7. /\ active' \in Nat /\ active' <= Limit /\ active' = Cardinality(Running)
  <2>1. /\ active = Cardinality(Having(outcome, "Granted")) + Cardinality(Running)
        /\ active \in Nat /\ active <= Limit
    BY <1>2 DEF QueueInv
  <2> QED BY <1>1, <1>3, <1>6, <2>1, AdmissionAssumption
<1>8. active' = Cardinality(Having(outcome, "Granted")') + Cardinality(Running')
  BY <1>4, <1>5, <1>6, <1>7
<1>9. QueueInv(active, queue, grants, outcome, Running)'
  BY <1>1, <1>2, <1>4, <1>5, <1>7, <1>8 DEF QueueInv
<1>10. \A w \in Waiters : outcome[w] = "None" => outcome'[w] = "None"
  BY <1>1, <1>3 DEF Having
<1> QED BY <1>1, <1>5, <1>9, <1>10 DEF AdmissionInv, OwnerInv, WorkConserving

\* A step that leaves the queue and its owners alone.
LEMMA QuietKeeps ==
  ASSUME AdmissionInv, UNCHANGED << coreVars, arrival, permit >>,
         acq' \in [Waiters -> {"None", "Register", "RunListener", "Held", "Unregister", "Gone"}],
         \A v \in Waiters : acq'[v] = "None" <=> acq[v] = "None"
  PROVE  AdmissionInv'
<1>1. Running' = Running /\ Called' = Called
  BY DEF Running, Called
<1> QED BY <1>1 DEF AdmissionInv, QueueInv, OwnerInv, WorkConserving, Having, coreVars

\* Every step of the queue keeps the invariant.
LEMMA StepKeeps == AdmissionInv /\ [Next]_vars => AdmissionInv'
<1> SUFFICES ASSUME AdmissionInv, [Next]_vars PROVE AdmissionInv'
  OBVIOUS
<1> DEFINE AcqStates == {"None", "Register", "RunListener", "Held", "Unregister", "Gone"}
<1>a. acq \in [Waiters -> AcqStates]
  BY DEF AdmissionInv, OwnerInv
<1>1. ASSUME NEW w \in Waiters, Acquire(w) PROVE AdmissionInv'
  BY <1>1, AcquireKeeps
<1>2. ASSUME NEW w \in Waiters, Register(w) PROVE AdmissionInv'
  <2>1. acq[w] = "Register" /\ \E v \in {"RunListener", "Held"} : acq' = [acq EXCEPT ![w] = v]
    BY <1>2 DEF Register
  <2>2. acq' \in [Waiters -> AcqStates] /\ \A v \in Waiters : acq'[v] = "None" <=> acq[v] = "None"
    BY <1>a, <2>1
  <2> QED BY <1>2, <2>2, QuietKeeps DEF Register
<1>3. ASSUME NEW w \in Waiters, RegisterCancelled(w) PROVE AdmissionInv'
  <2>1. acq' \in [Waiters -> AcqStates] /\ \A v \in Waiters : acq'[v] = "None" <=> acq[v] = "None"
    BY <1>3, <1>a DEF RegisterCancelled
  <2> QED BY <1>3, <2>1, RemoveKeeps DEF RegisterCancelled
<1>4. ASSUME NEW w \in Waiters, Poll(w) PROVE AdmissionInv'
  BY <1>4, PollKeeps
<1>5. ASSUME NEW w \in Waiters, DropAcquire(w) PROVE AdmissionInv'
  <2>1. acq' \in [Waiters -> AcqStates] /\ \A v \in Waiters : acq'[v] = "None" <=> acq[v] = "None"
    BY <1>5, <1>a DEF DropAcquire
  <2> QED BY <1>5, <2>1, RemoveKeeps DEF DropAcquire
<1>6. ASSUME NEW w \in Waiters, Unregister(w) PROVE AdmissionInv'
  <2>1. acq' \in [Waiters -> AcqStates] /\ \A v \in Waiters : acq'[v] = "None" <=> acq[v] = "None"
    BY <1>6, <1>a DEF Unregister
  <2> QED BY <1>6, <2>1, QuietKeeps DEF Unregister
<1>7. ASSUME NEW w \in Waiters, DropPermit(w) PROVE AdmissionInv'
  BY <1>7, DropPermitKeeps
<1>8. ASSUME NEW w \in Waiters, Cancel(w) PROVE AdmissionInv'
  BY <1>8, <1>a, QuietKeeps DEF Cancel, ownerVars
<1>9. ASSUME NEW w \in Waiters, CancelListener(w) PROVE AdmissionInv'
  BY <1>9, <1>a, RemoveKeeps DEF CancelListener, ownerVars
<1>10. ASSUME NEW w \in Waiters, Deadline(w) PROVE AdmissionInv'
  BY <1>10, <1>a, QuietKeeps DEF Deadline, ownerVars
<1>11. ASSUME NEW w \in Waiters, Wake(w) PROVE AdmissionInv'
  BY <1>11, <1>a, QuietKeeps DEF Wake, ownerVars
<1>12. CASE Unpark
  BY <1>12, <1>a, QuietKeeps DEF Unpark, ownerVars
<1>13. CASE TimerRun
  <2>1. PICK s \in Dispatched(active, queue, outcome) : Settle(s)
    BY <1>13 DEF TimerRun
  <2>2. Running' = Running /\ UNCHANGED << closed, arrival, acq, permit >>
    BY <1>13 DEF TimerRun, Running, ownerVars
  <2>3. QueueInv(active, queue, grants, outcome, Running') /\ permit' \in [Waiters -> BOOLEAN]
    BY <2>2 DEF AdmissionInv, OwnerInv
  <2> QED BY <1>a, <2>1, <2>2, <2>3, ServeKeeps
<1>14. CASE TimerWake
  BY <1>14, <1>a, QuietKeeps DEF TimerWake, ownerVars
<1>15. CASE Close
  BY <1>15, CloseKeeps
<1>16. CASE UNCHANGED vars
  BY <1>16, <1>a, QuietKeeps DEF vars, ownerVars
<1> QED BY <1>1, <1>2, <1>3, <1>4, <1>5, <1>6, <1>7, <1>8, <1>9, <1>10, <1>11, <1>12,
           <1>13, <1>14, <1>15, <1>16 DEF Next

-----------------------------------------------------------------------------
(* Theorems of the specification.                                          *)

\* The queue is always in order (Admission, all of its operations).
THEOREM AdmissionInvariant == Spec => []AdmissionInv
BY InitQueue, StepKeeps, PTL DEF Spec

\* For any number of permits and requests, the permits counted by State.active
\* are exactly those reserved or held, and never more than the limit.
THEOREM CapacityNeverExceeded == Spec => []CapacityExact
<1>1. AdmissionInv => CapacityExact
  BY DEF AdmissionInv, QueueInv, CapacityExact, Reserved, Having
<1> QED BY <1>1, AdmissionInvariant, PTL

\* For any number of permits and requests, nobody waits while a slot is free
\* (Inner::dispatch at the end of every operation).
THEOREM NoIdleSlot == Spec => []WorkConserving
<1>1. AdmissionInv => WorkConserving
  BY DEF AdmissionInv
<1> QED BY <1>1, AdmissionInvariant, PTL

\* For any number of permits and requests, nobody is granted before a request
\* that arrived earlier and still waits (State.queue is first in, first out).
THEOREM GrantsInOrder == Spec => []FirstComeFirstServed
<1>1. AdmissionInv => FirstComeFirstServed
  BY DEF AdmissionInv, QueueInv, FirstComeFirstServed, Reserved, Having
<1> QED BY <1>1, AdmissionInvariant, PTL

\* For any number of permits and requests, a closed queue has no waiter and no
\* reservation (Admission::close through State.grants).
THEOREM CloseRevokesAll == Spec => []CloseRevokes
<1>1. AdmissionInv => CloseRevokes
  BY DEF AdmissionInv, QueueInv, CloseRevokes, Reserved, Having
<1> QED BY <1>1, AdmissionInvariant, PTL

-----------------------------------------------------------------------------
(* The type invariant: AdmissionInv has the types of the queue and of the   *)
(* owners, the other variables follow.                                      *)

OtherTypes ==
  /\ closed \in BOOLEAN /\ ping \in BOOLEAN /\ token \in BOOLEAN
  /\ waker \in [Waiters -> BOOLEAN] /\ awake \in [Waiters -> BOOLEAN]
  /\ cancelled \in [Waiters -> BOOLEAN] /\ listening \in [Waiters -> BOOLEAN]
  /\ canc \in [Waiters -> {"Idle", "Listeners", "Done"}]
  /\ due \subseteq Waiters /\ wakes \subseteq Waiters /\ alarm \subseteq Waiters
  /\ timer \in {"Running", "Parked", "Ended"}

\* The wakers an operation takes are those of waiters.
LEMMA SettleTypes ==
  ASSUME waker \in [Waiters -> BOOLEAN], wakes \subseteq Waiters, NEW s, Settle(s)
  PROVE  waker' \in [Waiters -> BOOLEAN] /\ wakes' \subseteq Waiters
<1>1. wakes' = wakes \cup {w \in {v \in Waiters : s.outcome[v] # outcome[v]} : waker[w]}
  BY DEF Settle
<1>2. waker' = [w \in Waiters |-> waker[w] /\ w \notin {v \in Waiters : s.outcome[v] # outcome[v]}]
  BY DEF Settle
<1> QED BY <1>1, <1>2

LEMMA RemoveTypes ==
  ASSUME OtherTypes, NEW w \in Waiters, Remove(w)
  PROVE  waker' \in [Waiters -> BOOLEAN] /\ wakes' \subseteq Waiters /\ ping' \in BOOLEAN
<1>1. (\E s : Settle(s) /\ NotifyTimer) \/ UNCHANGED << waker, wakes, ping >>
  BY DEF Remove
<1>2. ASSUME NEW s, Settle(s), NotifyTimer
      PROVE  waker' \in [Waiters -> BOOLEAN] /\ wakes' \subseteq Waiters /\ ping' \in BOOLEAN
  <2>1. waker \in [Waiters -> BOOLEAN] /\ wakes \subseteq Waiters
    BY DEF OtherTypes
  <2>2. waker' \in [Waiters -> BOOLEAN] /\ wakes' \subseteq Waiters
    BY <1>2, <2>1, SettleTypes
  <2> QED BY <1>2, <2>2, AdmissionAssumption DEF NotifyTimer
<1> QED BY <1>1, <1>2 DEF OtherTypes

LEMMA StepTypes == AdmissionInv' /\ OtherTypes /\ [Next]_vars => OtherTypes'
<1> SUFFICES ASSUME AdmissionInv', OtherTypes, [Next]_vars PROVE OtherTypes'
  OBVIOUS
<1> USE DEF OtherTypes
<1>s. ASSUME NEW s, Settle(s) PROVE waker' \in [Waiters -> BOOLEAN] /\ wakes' \subseteq Waiters
  BY <1>s, SettleTypes
<1>n. NotifyTimer => ping' \in BOOLEAN
  BY AdmissionAssumption DEF NotifyTimer
<1>1. ASSUME NEW w \in Waiters, Acquire(w) PROVE OtherTypes'
  <2>1. PICK s \in Dispatched(active, queue, outcome) : Settle(Placed(s, w))
    BY <1>1 DEF Acquire
  <2>2. waker' \in [Waiters -> BOOLEAN] /\ wakes' \subseteq Waiters
    BY <2>1, <1>s
  <2> QED BY <1>1, <2>2, <1>n DEF Acquire, cancelVars, timerVars
<1>2. ASSUME NEW w \in Waiters, Register(w) PROVE OtherTypes'
  BY <1>2 DEF Register, coreVars, timerVars
<1>3. ASSUME NEW w \in Waiters, RegisterCancelled(w) PROVE OtherTypes'
  BY <1>3, RemoveTypes DEF RegisterCancelled, cancelVars, timerVars
<1>4. ASSUME NEW w \in Waiters, Poll(w) PROVE OtherTypes'
  BY <1>4 DEF Poll, cancelVars, timerVars
<1>5. ASSUME NEW w \in Waiters, DropAcquire(w) PROVE OtherTypes'
  BY <1>5, RemoveTypes DEF DropAcquire, cancelVars, timerVars
<1>6. ASSUME NEW w \in Waiters, Unregister(w) PROVE OtherTypes'
  BY <1>6 DEF Unregister, coreVars, timerVars
<1>7. ASSUME NEW w \in Waiters, DropPermit(w) PROVE OtherTypes'
  <2>1. PICK s \in Dispatched(active - 1, queue, outcome) : Settle(s)
    BY <1>7 DEF DropPermit
  <2>2. waker' \in [Waiters -> BOOLEAN] /\ wakes' \subseteq Waiters
    BY <2>1, <1>s
  <2> QED BY <1>7, <2>2, <1>n DEF DropPermit, cancelVars, timerVars
<1>8. ASSUME NEW w \in Waiters, Cancel(w) PROVE OtherTypes'
  BY <1>8 DEF Cancel, coreVars, timerVars
<1>9. ASSUME NEW w \in Waiters, CancelListener(w) PROVE OtherTypes'
  BY <1>9, RemoveTypes DEF CancelListener, timerVars
<1>10. ASSUME NEW w \in Waiters, Deadline(w) PROVE OtherTypes'
  BY <1>10 DEF Deadline, coreVars, cancelVars, timerVars
<1>11. ASSUME NEW w \in Waiters, Wake(w) PROVE OtherTypes'
  BY <1>11 DEF Wake, coreVars, cancelVars, timerVars
<1>12. CASE Unpark
  BY <1>12 DEF Unpark, coreVars, cancelVars
<1>13. CASE TimerRun
  <2>1. PICK s \in Dispatched(active, queue, outcome) : Settle(s)
    BY <1>13 DEF TimerRun
  <2>2. waker' \in [Waiters -> BOOLEAN] /\ wakes' \subseteq Waiters
    BY <2>1, <1>s
  <2>3. alarm' \subseteq Waiters
    BY <1>13 DEF TimerRun, AdmissionInv, QueueInv, Having
  <2> QED BY <1>13, <2>2, <2>3 DEF TimerRun, cancelVars
<1>14. CASE TimerWake
  BY <1>14 DEF TimerWake, coreVars, cancelVars
<1>15. CASE Close
  <2>1. waker' \in [Waiters -> BOOLEAN] /\ wakes' \subseteq Waiters
    BY <1>15, <1>s DEF Close
  <2> QED BY <1>15, <2>1, <1>n DEF Close, cancelVars, timerVars
<1>16. CASE UNCHANGED vars
  BY <1>16 DEF vars, coreVars, cancelVars, timerVars
<1> QED BY <1>1, <1>2, <1>3, <1>4, <1>5, <1>6, <1>7, <1>8, <1>9, <1>10, <1>11, <1>12,
           <1>13, <1>14, <1>15, <1>16 DEF Next

LEMMA OtherTypesHold == Spec => []OtherTypes
<1>1. Init => OtherTypes
  BY DEF Init, OtherTypes
<1> QED BY <1>1, StepTypes, AdmissionInvariant, PTL DEF Spec

\* For any number of permits and requests, every variable of the queue has its
\* type; in particular State.active neither underflows nor exceeds the limit
\* (Admission, all of its operations).
THEOREM AdmissionTypes == Spec => []TypeOK
<1>1. AdmissionInv /\ OtherTypes => TypeOK
  BY AdmissionAssumption DEF AdmissionInv, QueueInv, OwnerInv, OtherTypes, TypeOK, Having
<1> QED BY <1>1, OtherTypesHold, AdmissionInvariant, PTL

-----------------------------------------------------------------------------
(* Cancellation and wakers.                                                 *)

Live == {"Waiting", "Granted"}

\* A token whose cancel has not begun will run the listener of a waiter whose
\* acquire has returned; one whose cancel is over has run it, or the acquirer has.
CancelHeard(w) ==
  /\ cancelled[w] <=> canc[w] # "Idle"
  /\ acq[w] = "RunListener" => cancelled[w]
  /\ acq[w] = "Held" /\ canc[w] = "Idle" => listening[w]
  /\ acq[w] = "Held" /\ canc[w] = "Done" => outcome[w] \notin Live
  /\ acq[w] \in {"Unregister", "Gone"} => outcome[w] \notin Live

\* Only a task that has polled Pending sleeps, and it will be woken.
SleepIsSafe(w) ==
  ~awake[w] => /\ acq[w] \in {"Held", "Unregister", "Gone"}
               /\ \/ outcome[w] = "Waiting" /\ waker[w]
                  \/ w \in wakes
                  \/ outcome[w] = "Consumed"

PromiseInv == \A w \in Waiters : CancelHeard(w) /\ SleepIsSafe(w)

\* Inner::dispatch leaves the outcome of everyone outside the queue alone.
LEMMA DispatchTouches ==
  ASSUME NEW a, NEW q, NEW o, NEW s \in Dispatched(a, q, o)
  PROVE  \A w \in Waiters : w \notin q => s.outcome[w] = o[w]
<1>1. PICK G \in Turns(q \ due, a) :
        s = [ active  |-> a + Cardinality(G),
              queue   |-> (q \ due) \ G,
              grants  |-> IF G = {} THEN grants ELSE {v \in grants : o[v] = "Granted"} \cup G,
              outcome |-> [v \in Waiters |->
                             IF v \in q \cap due THEN "DeadlineExceeded"
                             ELSE IF v \in G THEN "Granted"
                             ELSE o[v]] ]
  BY DEF Dispatched
<1>2. G \subseteq q
  BY DEF Turns
<1> QED BY <1>1, <1>2

\* Only a poll consumes an outcome.
LEMMA DispatchConsumes ==
  ASSUME NEW a, NEW q, NEW o, NEW s \in Dispatched(a, q, o), NEW v \in Waiters, s.outcome[v] = "Consumed"
  PROVE  o[v] = "Consumed"
BY DEF Dispatched

LEMMA RemoveConsumes ==
  ASSUME AdmissionInv, NEW w \in Waiters, Remove(w), NEW v \in Waiters, outcome'[v] = "Consumed"
  PROVE  outcome[v] = "Consumed"
<1>1. CASE outcome[w] \in {"Waiting", "Granted"}
  <2> DEFINE a == IF outcome[w] = "Granted" THEN active - 1 ELSE active
             o == [outcome EXCEPT ![w] = "Cancelled"]
  <2>1. PICK s \in Dispatched(a, queue \ {w}, o) : Settle(s)
    BY <1>1 DEF Remove
  <2>2. o[v] = "Consumed" => outcome[v] = "Consumed"
    BY DEF AdmissionInv, QueueInv
  <2> HIDE DEF a, o
  <2>3. s.outcome[v] = "Consumed"
    BY <2>1 DEF Settle
  <2> QED BY <2>1, <2>2, <2>3, DispatchConsumes
<1>2. CASE outcome[w] \notin {"Waiting", "Granted"}
  BY <1>2 DEF Remove
<1> QED BY <1>1, <1>2

LEMMA OnlyPollConsumes ==
  ASSUME AdmissionInv, NEW v \in Waiters, outcome'[v] = "Consumed",
         \/ Close
         \/ \E w \in Waiters : Acquire(w) \/ DropAcquire(w) \/ DropPermit(w) \/ CancelListener(w)
         \/ \E w \in Waiters : w # v /\ Poll(w)
  PROVE  outcome[v] = "Consumed"
<1>t. outcome \in [Waiters -> {"None", "Waiting", "Granted", "Consumed"} \cup Resolved]
  BY DEF AdmissionInv, QueueInv
<1>1. ASSUME NEW w \in Waiters, Acquire(w) PROVE outcome[v] = "Consumed"
  <2>1. PICK s \in Dispatched(active, queue, outcome) : Settle(Placed(s, w))
    BY <1>1 DEF Acquire
  <2>2. Placed(s, w).outcome[v] = "Consumed"
    BY <2>1 DEF Settle
  <2>3. s.outcome \in [Waiters -> {s.outcome[x] : x \in Waiters}]
    BY DEF Dispatched
  <2>4. s.outcome[v] = "Consumed"
    BY <2>2, <2>3 DEF Placed, Refused, Granted, Dispatched
  <2> QED BY <2>4, DispatchConsumes
<1>2. ASSUME NEW w \in Waiters, DropAcquire(w) \/ CancelListener(w) PROVE outcome[v] = "Consumed"
  BY <1>2, RemoveConsumes DEF DropAcquire, CancelListener
<1>3. ASSUME NEW w \in Waiters, DropPermit(w) PROVE outcome[v] = "Consumed"
  <2>1. PICK s \in Dispatched(active - 1, queue, outcome) : Settle(s)
    BY <1>3 DEF DropPermit
  <2>2. s.outcome[v] = "Consumed"
    BY <2>1 DEF Settle
  <2> QED BY <2>2, DispatchConsumes
<1>4. ASSUME NEW w \in Waiters, w # v, Poll(w) PROVE outcome[v] = "Consumed"
  BY <1>4, <1>t DEF Poll
<1>5. CASE Close
  BY <1>5 DEF Close, Settle
<1> QED BY <1>1, <1>2, <1>3, <1>4, <1>5

\* What a step does to the outcome and the waker of one waiter: the critical
\* section that resolves it takes its waker.
Moved(w) ==
  /\ wakes \subseteq wakes'
  /\ outcome'[w] = outcome[w] => (waker'[w] <=> waker[w])
  /\ outcome'[w] # outcome[w] =>
       /\ waker[w] => w \in wakes'
       /\ outcome[w] \in Live

LEMMA SettleMoves ==
  ASSUME NEW s, Settle(s), NEW w \in Waiters, s.outcome[w] = outcome[w] \/ outcome[w] \in Live
  PROVE  Moved(w)
BY DEF Settle, Moved

\* Inner::remove resolves its waiter, and moves the others as a dispatch does.
LEMMA RemoveMoves ==
  ASSUME AdmissionInv, NEW w \in Waiters, Remove(w)
  PROVE  /\ \A v \in Waiters : Moved(v)
         /\ outcome'[w] \notin Live
<1>q. queue = Having(outcome, "Waiting") /\ queue \subseteq Waiters
      /\ outcome \in [Waiters -> {"None", "Waiting", "Granted", "Consumed"} \cup Resolved]
  BY DEF AdmissionInv, QueueInv, Having
<1>1. CASE outcome[w] \in {"Waiting", "Granted"}
  <2> DEFINE a == IF outcome[w] = "Granted" THEN active - 1 ELSE active
             o == [outcome EXCEPT ![w] = "Cancelled"]
  <2>1. PICK s \in Dispatched(a, queue \ {w}, o) : Settle(s)
    BY <1>1 DEF Remove
  <2>2. \A v \in Waiters : o[v] = IF v = w THEN "Cancelled" ELSE outcome[v]
    BY <1>q
  <2> HIDE DEF a, o
  <2>3. \A v \in Waiters : v \notin queue \ {w} => s.outcome[v] = o[v]
    BY <2>1, DispatchTouches
  <2>4. \A v \in Waiters : s.outcome[v] = outcome[v] \/ outcome[v] \in Live
    BY <1>1, <1>q, <2>2, <2>3 DEF Having, Live
  <2>5. s.outcome[w] = "Cancelled" /\ outcome' = s.outcome
    BY <2>1, <2>2, <2>3 DEF Settle
  <2> QED BY <2>1, <2>4, <2>5, SettleMoves DEF Live
<1>2. CASE outcome[w] \notin {"Waiting", "Granted"}
  BY <1>2 DEF Remove, Moved, Live
<1> QED BY <1>1, <1>2

\* A dispatch at the end of an operation that resolves nobody itself.
LEMMA ServeMoves ==
  ASSUME AdmissionInv, NEW a, NEW s \in Dispatched(a, queue, outcome), Settle(s)
  PROVE  \A v \in Waiters : Moved(v)
<1>1. queue \subseteq Waiters /\ \A v \in queue : outcome[v] \in Live
  BY DEF AdmissionInv, QueueInv, Having, Live
<1>2. \A v \in Waiters : v \notin queue => s.outcome[v] = outcome[v]
  BY DispatchTouches
<1> QED BY <1>1, <1>2, SettleMoves

\* A waiter that is resolved by others, if at all, keeps what it was promised.
LEMMA MovedKeeps ==
  ASSUME NEW w \in Waiters, CancelHeard(w), SleepIsSafe(w), Moved(w), acq'[w] = acq[w], awake'[w] = awake[w],
         cancelled'[w] = cancelled[w], canc'[w] = canc[w], listening'[w] = listening[w],
         outcome[w] \notin Live => outcome'[w] = outcome[w]
  PROVE  CancelHeard(w)' /\ SleepIsSafe(w)'
BY DEF CancelHeard, SleepIsSafe, Moved, Live

\* The two promises are kept by every step.
LEMMA PromiseStep == AdmissionInv /\ OtherTypes /\ PromiseInv /\ [Next]_vars => PromiseInv'
<1> SUFFICES ASSUME AdmissionInv, OtherTypes, PromiseInv, [Next]_vars, NEW v \in Waiters
             PROVE  (CancelHeard(v) /\ SleepIsSafe(v))'
  BY DEF PromiseInv
<1>p. CancelHeard(v) /\ SleepIsSafe(v)
  BY DEF PromiseInv
<1>t. /\ acq \in [Waiters -> {"None", "Register", "RunListener", "Held", "Unregister", "Gone"}]
      /\ acq[v] = "None" => outcome[v] = "None"
      /\ queue = Having(outcome, "Waiting")
      /\ outcome \in [Waiters -> {"None", "Waiting", "Granted", "Consumed"} \cup Resolved]
  BY DEF AdmissionInv, OwnerInv, QueueInv
<1>m. Moved(v) => (outcome[v] \notin Live => outcome'[v] = outcome[v])
  BY DEF Moved
<1>1. ASSUME NEW w \in Waiters, Acquire(w) PROVE (CancelHeard(v) /\ SleepIsSafe(v))'
  <2>1. PICK s \in Dispatched(active, queue, outcome) : Settle(Placed(s, w))
    BY <1>1 DEF Acquire
  <2>2. acq[w] = "None" /\ acq' = [acq EXCEPT ![w] = "Register"] /\ UNCHANGED << cancelVars, awake >>
    BY <1>1 DEF Acquire
  <2>3. CASE v = w
    BY <1>p, <1>t, <2>2, <2>3 DEF CancelHeard, SleepIsSafe, cancelVars
  <2>4. CASE v # w
    <3>1. Placed(s, w).outcome[v] = s.outcome[v]
      BY <2>4 DEF Placed, Refused, Granted, Dispatched
    <3>2. Placed(s, w).outcome[v] = outcome[v] \/ outcome[v] \in Live
      <4>1. v \notin queue => s.outcome[v] = outcome[v]
        BY DispatchTouches
      <4> QED BY <1>t, <3>1, <4>1 DEF Having, Live
    <3>3. Moved(v)
      BY <2>1, <3>2, SettleMoves
    <3>4. acq'[v] = acq[v]
      BY <2>2, <2>4, <1>t
    <3> QED BY <1>p, <1>m, <2>2, <3>3, <3>4, MovedKeeps DEF cancelVars
  <2> QED BY <2>3, <2>4
<1>2. ASSUME NEW w \in Waiters, Register(w) PROVE (CancelHeard(v) /\ SleepIsSafe(v))'
  BY <1>2, <1>p, <1>t DEF Register, CancelHeard, SleepIsSafe, coreVars, OtherTypes
<1>3. ASSUME NEW w \in Waiters, RegisterCancelled(w) PROVE (CancelHeard(v) /\ SleepIsSafe(v))'
  <2>1. Remove(w) /\ acq[w] = "RunListener" /\ acq' = [acq EXCEPT ![w] = "Held"] /\ UNCHANGED << cancelVars, awake >>
    BY <1>3 DEF RegisterCancelled
  <2>2. Moved(v) /\ (v = w => outcome'[v] \notin Live)
    BY <2>1, RemoveMoves
  <2>3. CASE v # w
    <3>1. acq'[v] = acq[v]
      BY <1>t, <2>1, <2>3
    <3> QED BY <1>p, <1>m, <2>1, <2>2, <3>1, MovedKeeps DEF cancelVars
  <2>4. CASE v = w
    BY <1>p, <1>t, <2>1, <2>2, <2>4 DEF Moved, CancelHeard, SleepIsSafe, cancelVars, Live
  <2> QED BY <2>3, <2>4
<1>4. ASSUME NEW w \in Waiters, Poll(w) PROVE (CancelHeard(v) /\ SleepIsSafe(v))'
  <2>1. /\ acq[w] = "Held" /\ UNCHANGED << acq, cancelVars, wakes >>
        /\ outcome[w] # "Waiting" => outcome' = [outcome EXCEPT ![w] = "Consumed"] /\ awake' = awake
        /\ outcome[w] = "Waiting" => /\ outcome' = outcome /\ awake' = [awake EXCEPT ![w] = FALSE]
                                     /\ waker' = [waker EXCEPT ![w] = TRUE]
        /\ v # w => awake'[v] = awake[v] /\ waker'[v] = waker[v] /\ outcome'[v] = outcome[v]
    BY <1>4, <1>t DEF Poll, OtherTypes
  <2>2. CASE v # w
    BY <1>p, <2>1, <2>2 DEF CancelHeard, SleepIsSafe, cancelVars
  <2>3. CASE v = w /\ outcome[w] = "Waiting"
    BY <1>p, <2>1, <2>3 DEF CancelHeard, SleepIsSafe, cancelVars, OtherTypes
  <2>4. CASE v = w /\ outcome[w] # "Waiting"
    BY <1>p, <1>t, <2>1, <2>4 DEF CancelHeard, SleepIsSafe, cancelVars, Live
  <2> QED BY <2>2, <2>3, <2>4
<1>5. ASSUME NEW w \in Waiters, DropAcquire(w) PROVE (CancelHeard(v) /\ SleepIsSafe(v))'
  <2>1. Remove(w) /\ acq[w] = "Held" /\ acq' = [acq EXCEPT ![w] = "Unregister"] /\ UNCHANGED << cancelVars, awake >>
    BY <1>5 DEF DropAcquire
  <2>2. Moved(v) /\ (v = w => outcome'[v] \notin Live)
    BY <2>1, RemoveMoves
  <2> QED BY <1>p, <1>t, <2>1, <2>2 DEF Moved, CancelHeard, SleepIsSafe, cancelVars, OtherTypes, Live
<1>6. ASSUME NEW w \in Waiters, Unregister(w) PROVE (CancelHeard(v) /\ SleepIsSafe(v))'
  BY <1>6, <1>p, <1>t DEF Unregister, CancelHeard, SleepIsSafe, coreVars, OtherTypes
<1>7. ASSUME NEW w \in Waiters, DropPermit(w) PROVE (CancelHeard(v) /\ SleepIsSafe(v))'
  <2>1. Moved(v)
    BY <1>7, ServeMoves DEF DropPermit
  <2> QED BY <1>7, <1>p, <1>m, <2>1, MovedKeeps DEF DropPermit, cancelVars
<1>8. ASSUME NEW w \in Waiters, Cancel(w) PROVE (CancelHeard(v) /\ SleepIsSafe(v))'
  BY <1>8, <1>p, <1>t DEF Cancel, CancelHeard, SleepIsSafe, coreVars, ownerVars, OtherTypes
<1>9. ASSUME NEW w \in Waiters, CancelListener(w) PROVE (CancelHeard(v) /\ SleepIsSafe(v))'
  <2>1. /\ Remove(w) /\ canc[w] = "Listeners" /\ canc' = [canc EXCEPT ![w] = "Done"]
        /\ UNCHANGED << acq, cancelled, listening, awake >>
    BY <1>9 DEF CancelListener, ownerVars
  <2>2. Moved(v) /\ (v = w => outcome'[v] \notin Live)
    BY <2>1, RemoveMoves
  <2> QED BY <1>p, <1>t, <2>1, <2>2 DEF Moved, CancelHeard, SleepIsSafe, OtherTypes, Live
<1>10. ASSUME NEW w \in Waiters, Deadline(w) PROVE (CancelHeard(v) /\ SleepIsSafe(v))'
  BY <1>10, <1>p DEF Deadline, CancelHeard, SleepIsSafe, coreVars, ownerVars, cancelVars
<1>11. ASSUME NEW w \in Waiters, Wake(w) PROVE (CancelHeard(v) /\ SleepIsSafe(v))'
  BY <1>11, <1>p DEF Wake, CancelHeard, SleepIsSafe, coreVars, ownerVars, cancelVars, OtherTypes
<1>12. CASE Unpark
  BY <1>12, <1>p DEF Unpark, CancelHeard, SleepIsSafe, coreVars, ownerVars, cancelVars
<1>13. CASE TimerRun
  <2>1. Moved(v)
    BY <1>13, ServeMoves DEF TimerRun
  <2> QED BY <1>13, <1>p, <1>m, <2>1, MovedKeeps DEF TimerRun, ownerVars, cancelVars
<1>14. CASE TimerWake
  BY <1>14, <1>p DEF TimerWake, CancelHeard, SleepIsSafe, coreVars, ownerVars, cancelVars
<1>15. CASE Close
  <2>1. Moved(v)
    BY <1>15, <1>t, SettleMoves DEF Close, Having, Live
  <2> QED BY <1>15, <1>p, <1>m, <2>1, MovedKeeps DEF Close, ownerVars, cancelVars
<1>16. CASE UNCHANGED vars
  BY <1>16, <1>p DEF vars, CancelHeard, SleepIsSafe, coreVars, ownerVars, cancelVars
<1> QED BY <1>1, <1>2, <1>3, <1>4, <1>5, <1>6, <1>7, <1>8, <1>9, <1>10, <1>11, <1>12,
           <1>13, <1>14, <1>15, <1>16 DEF Next

LEMMA PromisesHold == Spec => []PromiseInv
<1>1. Init => PromiseInv
  BY DEF Init, PromiseInv, CancelHeard, SleepIsSafe
<1> QED BY <1>1, PromiseStep, OtherTypesHold, AdmissionInvariant, PTL DEF Spec

\* For any number of requests and permits, a cancel that has returned has
\* resolved its waiter once acquire has returned too, whatever order the test of
\* the flag, the listener's registration and cancel ran in (Admission::acquire,
\* Cancellation::register).
THEOREM CancelsAreHeard == Spec => []CancelIsNotLost
<1>1. AdmissionInv /\ PromiseInv => CancelIsNotLost
  BY DEF AdmissionInv, OwnerInv, PromiseInv, CancelHeard, CancelIsNotLost, Live
<1> QED BY <1>1, AdmissionInvariant, PromisesHold, PTL

\* For any number of requests and permits, a task that polled Pending has its
\* waker stored while it waits, and called when it no longer does (Acquire::poll
\* and the wakers collected by every operation).
THEOREM WakersAreCalled == Spec => []NoLostWakeup
<1>1. PromiseInv => NoLostWakeup
  BY DEF PromiseInv, SleepIsSafe, NoLostWakeup
<1> QED BY <1>1, PromisesHold, PTL
=============================================================================
