--------------------------- MODULE HostJobsProofs ---------------------------
(***************************************************************************)
(* Proofs about HostJobs for any number of tracks, workers, calls and      *)
(* jobs, over any runner: no job is lost or run twice, and the solver of a *)
(* track sees its frames in order.                                         *)
(*                                                                         *)
(* The counts of NoJobStranded follow from where each drain task and each  *)
(* job may be, which is what is inductive.                                 *)
(***************************************************************************)
EXTENDS HostJobs, FiniteSetTheorems, SequenceTheorems, TLAPS

\* No two places of a sequence hold the same, and its numbers go up.
Distinct(s) == \A a, b \in 1 .. Len(s) : s[a] = s[b] => a = b
Rising(s) == \A a, b \in 1 .. Len(s) : a < b => s[a] < s[b]

\* The worker is running a job.
Busy(w) == thread[w].at \in {"Solving", "Solved"}

JobRecord == [call : Calls, track : Tracks, result : {"None", "Ran", "Cancelled"}]

\* The thread of the executor, and the calls that have their report.
CallerInv ==
  /\ caller \in [at : {"Idle", "Emitting", "Handing", "Refused", "Dropping", "Joining", "Gone"},
                 track : Tracks \union {NoTrack}]
  /\ caller.track # NoTrack <=> caller.at = "Handing"
  /\ calls \in 0 .. MaxCalls
  /\ caller.at \in {"Emitting", "Handing", "Refused"} => calls # 0
  /\ report = 1 .. (IF caller.at \in {"Emitting", "Handing", "Refused"} THEN calls - 1 ELSE calls)

\* The jobs so far.
JobTypes ==
  /\ jobs \in Seq(JobRecord) /\ Len(jobs) <= MaxJobs
  /\ \A j \in 1 .. Len(jobs) : jobs[j].call <= calls
  /\ pending \in [Calls -> [Tracks -> Nat]]
  /\ waiting \subseteq [call : Calls, for : Watched]
  /\ solver \in [Tracks -> Nat] /\ resetAt \in [Tracks -> Nat]
  /\ \A t \in Tracks : solver[t] <= Len(jobs) /\ resetAt[t] <= Len(jobs)

\* The queues, the runner and what was taken from a queue to be cancelled.
QueueTypes ==
  /\ queue \in [Tracks -> Seq(Nat)]
  /\ scheduled \in [Tracks -> BOOLEAN]
  /\ runner \in Seq(Tracks)
  /\ doomed \in [{"Caller", "Runner"} -> SUBSET Nat]

\* What the stage of a worker implies.
ThreadInv ==
  /\ thread \in [Threads -> [at : {"Idle", "Draining", "Solving", "Solved", "Exited"},
                             track : Tracks \union {NoTrack}, job : Nat]]
  /\ \A w \in Threads : /\ thread[w].track # NoTrack <=> thread[w].at \in {"Draining", "Solving", "Solved"}
                        /\ thread[w].job # 0 <=> Busy(w)

TypeInv == CallerInv /\ JobTypes /\ QueueTypes /\ ThreadInv

\* A scheduled track has a drain task, and it has no other.
TaskInv ==
  /\ Distinct(runner)
  /\ \A t \in Tracks : scheduled[t] <=> \/ t \in ToSet(runner)
                                        \/ \E w \in Threads : thread[w].track = t
                                        \/ caller.track = t
  /\ \A v, w \in Threads : thread[v].track = thread[w].track /\ thread[v].track # NoTrack => v = w
  /\ \A w \in Threads : thread[w].track \notin ToSet(runner)
  /\ caller.track \notin ToSet(runner)
  /\ \A w \in Threads : thread[w].track = caller.track => caller.track = NoTrack
  /\ \A t \in Tracks : queue[t] # << >> => scheduled[t]

\* Of the jobs js, one of track t that is not over.
Open(js, j, t) == j \in 1 .. Len(js) /\ js[j].track = t /\ js[j].result = "None"

\* A job that is not over is in one place, after those of its track before it.
JobInv ==
  /\ \A t \in Tracks : Rising(queue[t]) /\ \A j \in ToSet(queue[t]) : Open(jobs, j, t)
  /\ \A w \in Threads : Busy(w) => /\ Open(jobs, thread[w].job, thread[w].track)
                                   /\ \A j \in ToSet(queue[thread[w].track]) : thread[w].job < j
  /\ \A o \in {"Caller", "Runner"} : \A j \in doomed[o] :
       /\ Open(jobs, j, jobs[j].track) /\ j \notin ToSet(queue[jobs[j].track])
       /\ \A w \in Threads : thread[w].job # j
  /\ doomed["Caller"] \intersect doomed["Runner"] = {}
  /\ \A j \in 1 .. Len(jobs) : jobs[j].result = "None" =>
       \/ j \in ToSet(queue[jobs[j].track])
       \/ \E w \in Threads : thread[w].job = j
       \/ j \in doomed["Caller"] \union doomed["Runner"]

\* What the solver of a track has not seen comes after what it has seen.
OrderInv ==
  /\ \A t \in Tracks : \A j \in ToSet(queue[t]) : j > solver[t] /\ j > resetAt[t]
  /\ \A w \in Threads : thread[w].at = "Solving" =>
       thread[w].job > solver[thread[w].track] /\ thread[w].job > resetAt[thread[w].track]

\* Of the jobs js, those of call c on track t that are not over.
Unfinished(js, c, t) == {j \in DOMAIN js : js[j].call = c /\ js[j].track = t /\ js[j].result = "None"}

\* The counters of the completions.
PendingInv == \A c \in Calls, t \in Tracks : pending[c][t] = Cardinality(Unfinished(jobs, c, t))

Inv == TypeInv /\ TaskInv /\ JobInv /\ OrderInv /\ PendingInv
-----------------------------------------------------------------------------
(* Sequences.                                                              *)

\* The numbers of a sequence.
LEMMA InSet ==
  ASSUME NEW S, NEW s \in Seq(S)
  PROVE  /\ Len(s) \in Nat /\ DOMAIN s = 1 .. Len(s) /\ ToSet(s) \subseteq S
         /\ \A x : x \in ToSet(s) <=> \E i \in 1 .. Len(s) : s[i] = x
         /\ s = << >> <=> ToSet(s) = {}
<1>1. Len(s) \in Nat /\ DOMAIN s = 1 .. Len(s) /\ \A i \in 1 .. Len(s) : s[i] \in S
  BY LenProperties, ElementOfSeq
<1>2. \A x : x \in ToSet(s) <=> \E i \in 1 .. Len(s) : s[i] = x
  BY <1>1 DEF ToSet
<1>3. s # << >> => 1 \in 1 .. Len(s)
  BY <1>1, EmptySeq
<1>4. s = << >> => Len(s) = 0
  BY EmptySeq
<1>5. s = << >> <=> ToSet(s) = {}
  <2>1. s # << >> => s[1] \in ToSet(s)
    BY <1>2, <1>3
  <2>2. s = << >> => \A x : x \notin ToSet(s)
    <3> SUFFICES ASSUME s = << >>, NEW i \in 1 .. Len(s) PROVE FALSE
      BY <1>2
    <3> QED BY <1>4
  <2> QED BY <2>1, <2>2
<1> QED BY <1>1, <1>2, <1>5

\* Appending.
LEMMA AppendSet ==
  ASSUME NEW S, NEW s \in Seq(S), NEW x \in S
  PROVE  /\ Append(s, x) \in Seq(S) /\ ToSet(Append(s, x)) = ToSet(s) \union {x}
         /\ Distinct(s) /\ x \notin ToSet(s) => Distinct(Append(s, x))
         /\ S \subseteq Int /\ Rising(s) /\ (\A y \in ToSet(s) : y < x) => Rising(Append(s, x))
<1> DEFINE a == Append(s, x)
<1>1. /\ a \in Seq(S) /\ Len(a) = Len(s) + 1 /\ a[Len(s) + 1] = x
      /\ \A i \in 1 .. Len(s) : a[i] = s[i]
  BY AppendProperties
<1>2. Len(s) \in Nat /\ \A y : y \in ToSet(s) <=> \E i \in 1 .. Len(s) : s[i] = y
  BY InSet
<1>3. \A y : y \in ToSet(a) <=> \E i \in 1 .. Len(a) : a[i] = y
  BY <1>1, InSet
<1> HIDE DEF a
<1>4. \A i \in 1 .. Len(a) : i \in 1 .. Len(s) \/ i = Len(s) + 1
  BY <1>1, <1>2
<1>5. ToSet(a) = ToSet(s) \union {x}
  <2>1. ToSet(a) \subseteq ToSet(s) \union {x}
    BY <1>1, <1>2, <1>3, <1>4
  <2>2. \A i \in 1 .. Len(s) : i \in 1 .. Len(a)
    BY <1>1, <1>2
  <2>3. Len(s) + 1 \in 1 .. Len(a)
    BY <1>1, <1>2
  <2> QED BY <1>1, <1>2, <1>3, <2>1, <2>2, <2>3
<1>6. ASSUME Distinct(s), x \notin ToSet(s) PROVE Distinct(a)
  BY <1>1, <1>2, <1>4, <1>6 DEF Distinct
<1>7. ASSUME S \subseteq Int, Rising(s), \A y \in ToSet(s) : y < x PROVE Rising(a)
  BY <1>1, <1>2, <1>4, <1>7 DEF Rising
<1> QED BY <1>1, <1>5, <1>6, <1>7 DEF a

\* Taking the head of a rising sequence.
LEMMA TailSet ==
  ASSUME NEW s \in Seq(Nat), s # << >>, Rising(s)
  PROVE  /\ Head(s) \in ToSet(s) /\ Head(s) \in Nat /\ Tail(s) \in Seq(Nat) /\ Rising(Tail(s))
         /\ ToSet(Tail(s)) = ToSet(s) \ {Head(s)}
         /\ \A y \in ToSet(Tail(s)) : Head(s) < y
<1> DEFINE u == Tail(s)
<1>1. /\ Head(s) \in Nat /\ u \in Seq(Nat) /\ Len(u) = Len(s) - 1
      /\ \A i \in 1 .. Len(u) : u[i] = s[i + 1]
  BY HeadTailProperties
<1>2. Head(s) = s[1]
  OBVIOUS
<1>3. Len(s) \in Nat /\ Len(u) \in Nat /\ 1 \in 1 .. Len(s)
  BY <1>1, EmptySeq, LenProperties
<1>4. /\ \A y : y \in ToSet(s) <=> \E i \in 1 .. Len(s) : s[i] = y
      /\ \A y : y \in ToSet(u) <=> \E i \in 1 .. Len(u) : u[i] = y
      /\ \A i \in 1 .. Len(s) : s[i] \in Nat
  BY <1>1, InSet, ElementOfSeq
<1> HIDE DEF u
<1>5. \A i \in 1 .. Len(u) : i + 1 \in 1 .. Len(s) /\ 1 < i + 1
  BY <1>1, <1>3
<1>6. \A i \in 1 .. Len(s) : i = 1 \/ (i - 1 \in 1 .. Len(u) /\ (i - 1) + 1 = i)
  BY <1>1, <1>3
<1>7. \A y \in ToSet(u) : y \in ToSet(s) /\ Head(s) < y
  <2> SUFFICES ASSUME NEW i \in 1 .. Len(u) PROVE u[i] \in ToSet(s) /\ Head(s) < u[i]
    BY <1>4
  <2>1. u[i] = s[i + 1] /\ i + 1 \in 1 .. Len(s) /\ 1 < i + 1
    BY <1>1, <1>5
  <2>2. s[1] < s[i + 1]
    BY <1>3, <2>1 DEF Rising
  <2> QED BY <1>2, <1>4, <2>1, <2>2
<1>8. \A y \in ToSet(s) : y = Head(s) \/ y \in ToSet(u)
  <2> SUFFICES ASSUME NEW i \in 1 .. Len(s), s[i] # s[1] PROVE s[i] \in ToSet(u)
    BY <1>2, <1>4
  <2>1. i - 1 \in 1 .. Len(u) /\ (i - 1) + 1 = i
    BY <1>6
  <2>2. u[i - 1] = s[(i - 1) + 1]
    BY <1>1, <2>1
  <2> QED BY <1>4, <2>1, <2>2
<1>9. Head(s) \in ToSet(s)
  BY <1>2, <1>3, <1>4
<1>10. \A y \in ToSet(u) : y # Head(s)
  BY <1>1, <1>4, <1>7
<1>11. Rising(u)
  <2> SUFFICES ASSUME NEW a \in 1 .. Len(u), NEW b \in 1 .. Len(u), a < b PROVE u[a] < u[b]
    BY DEF Rising
  <2>1. u[a] = s[a + 1] /\ u[b] = s[b + 1] /\ a + 1 < b + 1
    BY <1>1, <1>3
  <2> QED BY <1>5, <2>1 DEF Rising
<1> QED BY <1>1, <1>7, <1>8, <1>9, <1>10, <1>11 DEF u

\* Removing a place.
LEMMA RemoveAtSet ==
  ASSUME NEW S, NEW s \in Seq(S), NEW i \in 1 .. Len(s), Distinct(s)
  PROVE  /\ RemoveAt(s, i) \in Seq(S) /\ Distinct(RemoveAt(s, i))
         /\ ToSet(RemoveAt(s, i)) = ToSet(s) \ {s[i]}
<1> DEFINE f == SubSeq(s, 1, i - 1)
           g == SubSeq(s, i + 1, Len(s))
           u == f \o g
<1>1. Len(s) \in Nat /\ i \in Nat /\ 1 <= i /\ i <= Len(s)
  BY LenProperties
<1>2. /\ f \in Seq(S) /\ Len(f) = i - 1 /\ \A k \in 1 .. i - 1 : f[k] = s[k]
  <2>1. 1 \in 1 .. Len(s) + 1 /\ i - 1 \in 1 - 1 .. Len(s)
    BY <1>1
  <2>2. /\ f \in Seq(S) /\ Len(f) = IF 1 <= i - 1 THEN (i - 1) - 1 + 1 ELSE 0
        /\ \A k \in 1 .. (i - 1) - 1 + 1 : f[k] = s[1 + k - 1]
    BY <2>1, SubSeqProperties
  <2> QED BY <1>1, <2>2
<1>3. /\ g \in Seq(S) /\ Len(g) = Len(s) - i /\ \A k \in 1 .. Len(s) - i : g[k] = s[i + k]
  <2>1. i + 1 \in 1 .. Len(s) + 1 /\ Len(s) \in (i + 1) - 1 .. Len(s)
    BY <1>1
  <2>2. /\ g \in Seq(S) /\ Len(g) = IF i + 1 <= Len(s) THEN Len(s) - (i + 1) + 1 ELSE 0
        /\ \A k \in 1 .. Len(s) - (i + 1) + 1 : g[k] = s[(i + 1) + k - 1]
    BY <2>1, SubSeqProperties
  <2> QED BY <1>1, <2>2
<1> HIDE DEF f, g
<1>4. /\ u \in Seq(S) /\ Len(u) = Len(s) - 1
      /\ \A k \in 1 .. Len(s) - 1 : u[k] = IF k < i THEN s[k] ELSE s[k + 1]
  <2>1. /\ u \in Seq(S) /\ Len(u) = Len(f) + Len(g)
        /\ \A k \in 1 .. Len(f) + Len(g) : u[k] = IF k <= Len(f) THEN f[k] ELSE g[k - Len(f)]
    BY <1>2, <1>3, ConcatProperties
  <2>2. Len(f) + Len(g) = Len(s) - 1
    BY <1>1, <1>2, <1>3
  <2>3. ASSUME NEW k \in 1 .. Len(s) - 1 PROVE u[k] = IF k < i THEN s[k] ELSE s[k + 1]
    <3>1. CASE k < i
      BY <1>1, <1>2, <2>1, <2>2, <3>1
    <3>2. CASE ~(k < i)
      <4>1. k - (i - 1) \in 1 .. Len(s) - i /\ i + (k - (i - 1)) = k + 1
        BY <1>1, <3>2
      <4>2. u[k] = g[k - (i - 1)]
        BY <1>1, <1>2, <2>1, <2>2, <3>2
      <4>3. g[k - (i - 1)] = s[i + (k - (i - 1))]
        BY <1>3, <4>1
      <4> QED BY <3>2, <4>1, <4>2, <4>3
    <3> QED BY <3>1, <3>2
  <2> QED BY <2>1, <2>2, <2>3
<1>5. RemoveAt(s, i) = u
  BY DEF RemoveAt, f, g
<1> HIDE DEF u
<1>6. /\ \A y : y \in ToSet(s) <=> \E k \in 1 .. Len(s) : s[k] = y
      /\ \A y : y \in ToSet(u) <=> \E k \in 1 .. Len(u) : u[k] = y
  BY <1>4, InSet
<1>7. Distinct(u)
  BY <1>1, <1>4 DEF Distinct
<1>8. \A y \in ToSet(u) : y \in ToSet(s) /\ y # s[i]
  <2> SUFFICES ASSUME NEW k \in 1 .. Len(s) - 1 PROVE u[k] \in ToSet(s) /\ u[k] # s[i]
    BY <1>4, <1>6
  <2> QED BY <1>1, <1>4, <1>6 DEF Distinct
<1>9. \A y \in ToSet(s) : y = s[i] \/ y \in ToSet(u)
  <2> SUFFICES ASSUME NEW k \in 1 .. Len(s), k # i PROVE s[k] \in ToSet(u)
    BY <1>6
  <2>1. CASE k < i
    BY <1>1, <1>4, <1>6, <2>1
  <2>2. CASE k > i
    <3>1. k - 1 \in 1 .. Len(s) - 1 /\ ~(k - 1 < i) /\ (k - 1) + 1 = k
      BY <1>1, <2>2
    <3>2. u[k - 1] = s[(k - 1) + 1]
      BY <1>4, <3>1
    <3> QED BY <1>4, <1>6, <3>1, <3>2
  <2> QED BY <1>1, <2>1, <2>2
<1> QED BY <1>4, <1>5, <1>7, <1>8, <1>9
-----------------------------------------------------------------------------
(* Jobs that begin and end.                                                *)

\* Facts about the jobs so far.
LEMMA JobFacts ==
  ASSUME TypeInv
  PROVE  /\ Len(jobs) \in Nat /\ DOMAIN jobs = 1 .. Len(jobs) /\ jobs \in Seq(JobRecord)
         /\ \A j \in 1 .. Len(jobs) : /\ jobs[j] \in JobRecord /\ jobs[j].call \in Calls
                                      /\ jobs[j].track \in Tracks
<1>1. jobs \in Seq(JobRecord)
  BY DEF TypeInv, JobTypes
<1>2. Len(jobs) \in Nat /\ DOMAIN jobs = 1 .. Len(jobs) /\ \A j \in 1 .. Len(jobs) : jobs[j] \in JobRecord
  BY <1>1, LenProperties, ElementOfSeq
<1> QED BY <1>1, <1>2 DEF JobRecord

\* A frame is emitted.
LEMMA Added ==
  ASSUME TypeInv, NEW t \in Tracks, ScheduleJob(t)
  PROVE  /\ jobs' \in Seq(JobRecord) /\ Len(jobs') = Len(jobs) + 1 /\ DOMAIN jobs' = 1 .. Len(jobs) + 1
         /\ \A j \in 1 .. Len(jobs) : jobs'[j] = jobs[j]
         /\ jobs'[Len(jobs) + 1].call = calls /\ jobs'[Len(jobs) + 1].track = t
         /\ jobs'[Len(jobs) + 1].result = "None" /\ calls \in Calls
         /\ \A j, u : Open(jobs', j, u) <=> Open(jobs, j, u) \/ (j = Len(jobs) + 1 /\ u = t)
<1> DEFINE e == [call |-> calls, track |-> t, result |-> "None"]
<1>1. calls \in Calls /\ jobs' = Append(jobs, e)
  BY DEF ScheduleJob, TypeInv, CallerInv, Calls
<1>2. e \in JobRecord
  BY <1>1 DEF JobRecord
<1>3. e.call = calls /\ e.track = t /\ e.result = "None"
  OBVIOUS
<1> HIDE DEF e
<1>4. /\ jobs' \in Seq(JobRecord) /\ Len(jobs') = Len(jobs) + 1 /\ jobs'[Len(jobs) + 1] = e
      /\ \A j \in 1 .. Len(jobs) : jobs'[j] = jobs[j]
  BY <1>1, <1>2, JobFacts, AppendProperties
<1>5. DOMAIN jobs' = 1 .. Len(jobs) + 1 /\ Len(jobs) \in Nat
  BY <1>4, LenProperties, JobFacts
<1>6. \A j, u : Open(jobs', j, u) <=> Open(jobs, j, u) \/ (j = Len(jobs) + 1 /\ u = t)
  <2> SUFFICES ASSUME NEW j, NEW u PROVE Open(jobs', j, u) <=> Open(jobs, j, u) \/ (j = Len(jobs) + 1 /\ u = t)
    OBVIOUS
  <2>1. CASE j \in 1 .. Len(jobs)
    <3>1. j \in 1 .. Len(jobs) + 1 /\ j # Len(jobs) + 1
      BY <1>5, <2>1
    <3> QED BY <1>4, <2>1, <3>1 DEF Open
  <2>2. CASE j = Len(jobs) + 1
    <3>1. j \in 1 .. Len(jobs) + 1 /\ j \notin 1 .. Len(jobs)
      BY <1>5, <2>2
    <3> QED BY <1>3, <1>4, <2>2, <3>1 DEF Open
  <2>3. CASE j \notin 1 .. Len(jobs) /\ j # Len(jobs) + 1
    <3>1. j \notin 1 .. Len(jobs) + 1
      BY <1>5, <2>3
    <3> QED BY <1>4, <2>3, <3>1 DEF Open
  <2> QED BY <2>1, <2>2, <2>3
<1> QED BY <1>1, <1>3, <1>4, <1>5, <1>6

\* A job is over.
LEMMA Completed ==
  ASSUME TypeInv, NEW j \in 1 .. Len(jobs), NEW result \in {"Ran", "Cancelled"}, CompleteTask(j, result)
  PROVE  /\ jobs' \in Seq(JobRecord) /\ Len(jobs') = Len(jobs) /\ DOMAIN jobs' = 1 .. Len(jobs)
         /\ \A i \in 1 .. Len(jobs) : /\ jobs'[i].call = jobs[i].call /\ jobs'[i].track = jobs[i].track
                                      /\ jobs'[i].result = IF i = j THEN result ELSE jobs[i].result
         /\ \A i, u : Open(jobs', i, u) <=> Open(jobs, i, u) /\ i # j
         /\ waiting' \subseteq waiting
<1> DEFINE e == [jobs[j] EXCEPT !.result = result]
<1>1. jobs[j] \in JobRecord /\ jobs \in Seq(JobRecord) /\ Len(jobs) \in Nat
  BY JobFacts
<1>2. e \in JobRecord /\ e.call = jobs[j].call /\ e.track = jobs[j].track /\ e.result = result
  BY <1>1 DEF JobRecord
<1>3. jobs' = [jobs EXCEPT ![j] = e]
  BY DEF CompleteTask
<1> HIDE DEF e
<1>4. /\ jobs' \in Seq(JobRecord) /\ Len(jobs') = Len(jobs)
      /\ \A i \in 1 .. Len(jobs) : jobs'[i] = IF i = j THEN e ELSE jobs[i]
  BY <1>1, <1>2, <1>3, ExceptSeq
<1>5. DOMAIN jobs' = 1 .. Len(jobs)
  BY <1>4, LenProperties
<1>6. \A i \in 1 .. Len(jobs) : /\ jobs'[i].call = jobs[i].call /\ jobs'[i].track = jobs[i].track
                                /\ jobs'[i].result = IF i = j THEN result ELSE jobs[i].result
  BY <1>2, <1>4
<1>7. \A i, u : Open(jobs', i, u) <=> Open(jobs, i, u) /\ i # j
  BY <1>4, <1>6 DEF Open
<1>8. waiting' \subseteq waiting
  BY DEF CompleteTask, Unwoken
<1> QED BY <1>4, <1>5, <1>6, <1>7, <1>8

\* The counters when a job is over.
LEMMA CompletedPending ==
  ASSUME TypeInv, NEW j \in 1 .. Len(jobs), NEW result \in {"Ran", "Cancelled"}, CompleteTask(j, result)
  PROVE  /\ pending' \in [Calls -> [Tracks -> Nat]]
         /\ \A c \in Calls, t \in Tracks : pending'[c][t] =
              IF c = jobs[j].call /\ t = jobs[j].track /\ pending[c][t] # 0 THEN pending[c][t] - 1
              ELSE pending[c][t]
<1> DEFINE d == jobs[j].call
           u == jobs[j].track
           n == IF pending[d][u] = 0 THEN 0 ELSE pending[d][u] - 1
<1>1. d \in Calls /\ u \in Tracks /\ pending \in [Calls -> [Tracks -> Nat]]
  BY JobFacts DEF TypeInv, JobTypes
<1>2. pending' = [pending EXCEPT ![d][u] = n]
  BY DEF CompleteTask
<1>3. n \in Nat
  <2>1. pending[d][u] \in Nat
    BY <1>1
  <2> HIDE DEF d, u
  <2> QED BY <2>1
<1> HIDE DEF d, u
<1>4. \A c \in Calls, t \in Tracks : pending'[c][t] = IF c = d /\ t = u THEN n ELSE pending[c][t]
  BY <1>1, <1>2
<1>5. pending' \in [Calls -> [Tracks -> Nat]]
  <2> HIDE DEF n
  <2> QED BY <1>1, <1>2, <1>3
<1>6. \A c \in Calls, t \in Tracks : pending'[c][t] =
        IF c = d /\ t = u /\ pending[c][t] # 0 THEN pending[c][t] - 1 ELSE pending[c][t]
  BY <1>1, <1>4
<1> QED BY <1>5, <1>6 DEF d, u
-----------------------------------------------------------------------------
(* The types of each step.                                                 *)

\* Nothing but the caller, and what polls wait for.
CallerOnly == Execute \/ FinishSchedule \/ Drop \/ HandOver \/ Refuse \/ ReportRefusal \/ DropPool \/ Join

\* Facts about a worker and about its record.
LEMMA ThreadFacts ==
  ASSUME TypeInv, NEW w \in Threads
  PROVE  /\ thread[w].at \in {"Idle", "Draining", "Solving", "Solved", "Exited"}
         /\ thread[w].track \in Tracks \union {NoTrack} /\ thread[w].job \in Nat
         /\ thread[w].track # NoTrack <=> thread[w].at \in {"Draining", "Solving", "Solved"}
         /\ thread[w].job # 0 <=> Busy(w)
BY DEF TypeInv, ThreadInv

LEMMA CallerStep ==
  ASSUME TypeInv, [Next]_vars
  PROVE  CallerInv'
<1>1. /\ caller.at \in {"Idle", "Emitting", "Handing", "Refused", "Dropping", "Joining", "Gone"}
      /\ caller.track \in Tracks \union {NoTrack} /\ calls \in Int /\ MaxCalls \in Nat
  BY JobsAssumption DEF TypeInv, CallerInv
<1>2. ASSUME caller' = caller, calls' = calls, report' = report PROVE CallerInv'
  BY <1>2 DEF TypeInv, CallerInv
<1>3. CASE Execute
  BY <1>1, <1>3 DEF Execute, TypeInv, CallerInv
<1>4. CASE FinishSchedule
  BY <1>1, <1>4 DEF FinishSchedule, TypeInv, CallerInv
<1>5. CASE Drop
  BY <1>1, <1>5 DEF Drop, TypeInv, CallerInv
<1>6. CASE HandOver
  BY <1>1, <1>6 DEF HandOver, TypeInv, CallerInv
<1>7. CASE Refuse
  BY <1>1, <1>7 DEF Refuse, TypeInv, CallerInv
<1>8. CASE ReportRefusal
  BY <1>1, <1>8 DEF ReportRefusal, TypeInv, CallerInv
<1>9. CASE DropPool
  BY <1>1, <1>9 DEF DropPool, TypeInv, CallerInv
<1>10. CASE Join
  BY <1>1, <1>10 DEF Join, TypeInv, CallerInv
<1>11. ASSUME NEW t \in Tracks, ScheduleJob(t) PROVE CallerInv'
  BY <1>1, <1>11, JobsAssumption DEF ScheduleJob, Enqueue, TypeInv, CallerInv
<1>12. ASSUME NEW w \in Threads, Worker(w) PROVE CallerInv'
  BY <1>2, <1>12 DEF Worker, Take, NextJob, DrainEnds, Solve, Complete, Exit
<1>13. ASSUME NEW t \in Tracks, ResetTrack(t) PROVE CallerInv'
  BY <1>2, <1>13 DEF ResetTrack
<1>14. ASSUME NEW c, NEW for, Poll(c, for) PROVE CallerInv'
  BY <1>2, <1>14 DEF Poll
<1>15. ASSUME NEW i, Lose(i) PROVE CallerInv'
  BY <1>2, <1>15 DEF Lose
<1>16. ASSUME NEW o, Cancel(o) PROVE CallerInv'
  BY <1>2, <1>16 DEF Cancel
<1>17. CASE UNCHANGED vars
  BY <1>2, <1>17 DEF vars
<1> QED BY <1>3, <1>4, <1>5, <1>6, <1>7, <1>8, <1>9, <1>10, <1>11, <1>12, <1>13, <1>14, <1>15, <1>16, <1>17
        DEF Next, CallerRuns, Terminated

LEMMA ThreadStep ==
  ASSUME TypeInv, JobInv, [Next]_vars
  PROVE  ThreadInv'
<1>1. CASE thread' = thread
  BY <1>1 DEF TypeInv, ThreadInv, Busy
<1>2. ASSUME NEW w \in Threads, NEW at, NEW track, NEW job,
             thread' = [thread EXCEPT ![w] = [at |-> at, track |-> track, job |-> job]],
             at \in {"Idle", "Draining", "Solving", "Solved", "Exited"},
             track \in Tracks \union {NoTrack}, job \in Nat,
             track # NoTrack <=> at \in {"Draining", "Solving", "Solved"},
             job # 0 <=> at \in {"Solving", "Solved"}
      PROVE  ThreadInv'
  <2> DEFINE e == [at |-> at, track |-> track, job |-> job]
  <2>1. /\ e \in [at : {"Idle", "Draining", "Solving", "Solved", "Exited"},
                  track : Tracks \union {NoTrack}, job : Nat]
        /\ e.at = at /\ e.track = track /\ e.job = job /\ thread' = [thread EXCEPT ![w] = e]
    BY <1>2
  <2> HIDE DEF e
  <2> QED BY <1>2, <2>1 DEF TypeInv, ThreadInv, Busy
<1>3. ASSUME NEW w \in Threads, Worker(w) PROVE ThreadInv'
  <2> DEFINE q == thread[w]
  <2>1. /\ q.at \in {"Idle", "Draining", "Solving", "Solved", "Exited"}
        /\ q.track \in Tracks \union {NoTrack} /\ q.job \in Nat
        /\ q.track # NoTrack <=> q.at \in {"Draining", "Solving", "Solved"}
        /\ q.job # 0 <=> q.at \in {"Solving", "Solved"}
    BY ThreadFacts DEF Busy
  <2>2. ASSUME NEW a, NEW j PROVE [q EXCEPT !.at = a, !.job = j] = [at |-> a, track |-> q.track, job |-> j]
    <3>1. [q EXCEPT !.at = a] = [at |-> a, track |-> q.track, job |-> q.job]
      BY DEF TypeInv, ThreadInv
    <3>2. [[at |-> a, track |-> q.track, job |-> q.job] EXCEPT !.job = j] = [at |-> a, track |-> q.track, job |-> j]
      OBVIOUS
    <3> QED BY <3>1, <3>2
  <2>3. \A at : [q EXCEPT !.at = at] = [at |-> at, track |-> q.track, job |-> q.job]
    BY DEF TypeInv, ThreadInv
  <2>4. CASE Take(w)
    <3>1. PICK i \in DOMAIN runner :
            thread' = [thread EXCEPT ![w] = [at |-> "Draining", track |-> runner[i], job |-> 0]]
      BY <2>4 DEF Take
    <3>2. runner[i] \in Tracks /\ NoTrack \notin Tracks
      BY JobsAssumption, ElementOfSeq DEF TypeInv, QueueTypes
    <3> QED BY <1>2, <3>1, <3>2
  <2>5. CASE NextJob(w)
    <3>1. q.at = "Draining" /\ queue[q.track] # << >>
      BY <2>5 DEF NextJob
    <3>2. queue[q.track] \in Seq(Nat) /\ Rising(queue[q.track]) /\ q.track # NoTrack
          /\ \A j \in ToSet(queue[q.track]) : Open(jobs, j, q.track)
      BY <2>1, <3>1 DEF TypeInv, QueueTypes, JobInv
    <3>3. Head(queue[q.track]) \in Nat /\ Head(queue[q.track]) # 0
      <4>1. Head(queue[q.track]) \in 1 .. Len(jobs)
        BY <3>1, <3>2, TailSet DEF Open
      <4> QED BY <4>1, JobFacts
    <3>4. thread' = [thread EXCEPT ![w] = [at |-> "Solving", track |-> q.track, job |-> Head(queue[q.track])]]
      <4> DEFINE h == Head(queue[q.track])
      <4>1. thread' = [thread EXCEPT ![w] = [q EXCEPT !.at = "Solving", !.job = h]]
        BY <2>5 DEF NextJob
      <4> HIDE DEF h
      <4> QED BY <2>2, <4>1 DEF h
    <3> HIDE DEF q
    <3> QED BY <1>2, <2>1, <3>2, <3>3, <3>4
  <2>6. CASE DrainEnds(w)
    <3>1. thread' = [thread EXCEPT ![w] = [at |-> "Idle", track |-> NoTrack, job |-> 0]]
      BY <2>6 DEF DrainEnds
    <3> QED BY <1>2, <3>1
  <2>7. CASE Solve(w)
    <3>1. q.at = "Solving" /\ thread' = [thread EXCEPT ![w] = [at |-> "Solved", track |-> q.track, job |-> q.job]]
      BY <2>3, <2>7 DEF Solve
    <3> HIDE DEF q
    <3> QED BY <1>2, <2>1, <3>1
  <2>8. CASE Complete(w)
    <3>1. q.at = "Solved" /\ thread' = [thread EXCEPT ![w] = [at |-> "Draining", track |-> q.track, job |-> 0]]
      <4>1. thread' = [thread EXCEPT ![w] = [q EXCEPT !.at = "Draining", !.job = 0]]
        BY <2>8 DEF Complete
      <4>2. q.at = "Solved"
        BY <2>8 DEF Complete
      <4> QED BY <2>2, <4>1, <4>2
    <3> HIDE DEF q
    <3> QED BY <1>2, <2>1, <3>1
  <2>9. CASE Exit(w)
    <3>1. q.at = "Idle" /\ thread' = [thread EXCEPT ![w] = [at |-> "Exited", track |-> q.track, job |-> q.job]]
      BY <2>3, <2>9 DEF Exit
    <3> HIDE DEF q
    <3> QED BY <1>2, <2>1, <3>1
  <2> QED BY <1>3, <2>4, <2>5, <2>6, <2>7, <2>8, <2>9 DEF Worker
<1> QED BY <1>1, <1>3 DEF Next, vars, Execute, FinishSchedule, Drop, CallerRuns, HandOver, Refuse,
        ReportRefusal, DropPool, Join, ScheduleJob, ResetTrack, Poll, Lose, Cancel, Terminated
\* Facts about the queues.
LEMMA QueueFacts ==
  ASSUME TypeInv, NEW t \in Tracks
  PROVE  /\ queue[t] \in Seq(Nat) /\ ToSet(queue[t]) \subseteq Nat
         /\ scheduled[t] \in BOOLEAN
         /\ queue[t] = << >> <=> ToSet(queue[t]) = {}
<1>1. queue[t] \in Seq(Nat) /\ scheduled[t] \in BOOLEAN
  BY DEF TypeInv, QueueTypes
<1> QED BY <1>1, InSet

\* The queue of a track is taken, to cancel its jobs.
LEMMA Taken ==
  ASSUME TypeInv, NEW t \in Tracks, NEW o \in {"Caller", "Runner"}, DropGuard(t, o)
  PROVE  /\ queue' \in [Tracks -> Seq(Nat)] /\ scheduled' \in [Tracks -> BOOLEAN]
         /\ doomed' \in [{"Caller", "Runner"} -> SUBSET Nat]
         /\ queue'[t] = << >> /\ ToSet(queue'[t]) = {} /\ scheduled'[t] = FALSE
         /\ \A u \in Tracks : u # t => queue'[u] = queue[u] /\ scheduled'[u] = scheduled[u]
         /\ doomed'[o] = doomed[o] \union ToSet(queue[t])
         /\ \A p \in {"Caller", "Runner"} : p # o => doomed'[p] = doomed[p]
<1> DEFINE s == ToSet(queue[t])
<1>1. /\ queue \in [Tracks -> Seq(Nat)] /\ scheduled \in [Tracks -> BOOLEAN]
      /\ doomed \in [{"Caller", "Runner"} -> SUBSET Nat] /\ s \subseteq Nat
  BY QueueFacts DEF TypeInv, QueueTypes
<1>2. /\ queue' = [queue EXCEPT ![t] = << >>] /\ scheduled' = [scheduled EXCEPT ![t] = FALSE]
      /\ doomed' = [doomed EXCEPT ![o] = doomed[o] \union s]
  BY DEF DropGuard
<1>3. << >> \in Seq(Nat) /\ ToSet(<< >>) = {}
  BY EmptySeq, InSet
<1> HIDE DEF s
<1>4. doomed[o] \union s \in SUBSET Nat
  BY <1>1
<1>5. doomed' \in [{"Caller", "Runner"} -> SUBSET Nat] /\ doomed'[o] = doomed[o] \union s
      /\ \A p \in {"Caller", "Runner"} : p # o => doomed'[p] = doomed[p]
  BY <1>1, <1>2, <1>4
<1>6. /\ queue' \in [Tracks -> Seq(Nat)] /\ queue'[t] = << >>
      /\ \A u \in Tracks : u # t => queue'[u] = queue[u]
  BY <1>1, <1>2, <1>3
<1>7. /\ scheduled' \in [Tracks -> BOOLEAN] /\ scheduled'[t] = FALSE
      /\ \A u \in Tracks : u # t => scheduled'[u] = scheduled[u]
  BY <1>1, <1>2
<1> QED BY <1>3, <1>5, <1>6, <1>7 DEF s

\* A job joins the queue of its track.
LEMMA Enqueued ==
  ASSUME TypeInv, NEW t \in Tracks, NEW j \in Nat, Enqueue(t, j)
  PROVE  /\ queue' \in [Tracks -> Seq(Nat)] /\ scheduled' \in [Tracks -> BOOLEAN]
         /\ ToSet(queue'[t]) = ToSet(queue[t]) \union {j} /\ scheduled'[t] = TRUE
         /\ (\A i \in ToSet(queue[t]) : i < j) /\ Rising(queue[t]) => Rising(queue'[t])
         /\ \A u \in Tracks : u # t => queue'[u] = queue[u] /\ scheduled'[u] = scheduled[u]
<1>1. queue \in [Tracks -> Seq(Nat)] /\ scheduled \in [Tracks -> BOOLEAN] /\ queue[t] \in Seq(Nat)
  BY DEF TypeInv, QueueTypes
<1> DEFINE s == Append(queue[t], j)
<1>2. queue' = [queue EXCEPT ![t] = s] /\ scheduled' = [scheduled EXCEPT ![t] = TRUE]
  BY DEF Enqueue
<1>3. /\ s \in Seq(Nat) /\ ToSet(s) = ToSet(queue[t]) \union {j}
      /\ (\A i \in ToSet(queue[t]) : i < j) /\ Rising(queue[t]) => Rising(s)
  BY <1>1, AppendSet
<1> HIDE DEF s
<1>4. /\ queue' \in [Tracks -> Seq(Nat)] /\ queue'[t] = s
      /\ \A u \in Tracks : u # t => queue'[u] = queue[u]
  BY <1>1, <1>2, <1>3
<1>5. /\ scheduled' \in [Tracks -> BOOLEAN] /\ scheduled'[t] = TRUE
      /\ \A u \in Tracks : u # t => scheduled'[u] = scheduled[u]
  BY <1>1, <1>2
<1> QED BY <1>3, <1>4, <1>5

\* A worker takes the next job.
LEMMA Popped ==
  ASSUME TypeInv, JobInv, NEW w \in Threads, NextJob(w), NEW t, t = thread[w].track
  PROVE  /\ t \in Tracks /\ thread[w].at = "Draining"
         /\ queue' \in [Tracks -> Seq(Nat)]
         /\ Head(queue[t]) \in ToSet(queue[t]) /\ Head(queue[t]) \in Nat
         /\ ToSet(queue'[t]) = ToSet(queue[t]) \ {Head(queue[t])} /\ Rising(queue'[t])
         /\ \A j \in ToSet(queue'[t]) : Head(queue[t]) < j
         /\ queue'[t] # << >> => queue[t] # << >>
         /\ \A u \in Tracks : u # t => queue'[u] = queue[u]
<1>1. thread[w].at = "Draining" /\ queue[t] # << >> /\ queue' = [queue EXCEPT ![t] = Tail(@)]
  BY DEF NextJob
<1>2. t \in Tracks
  BY <1>1, ThreadFacts
<1>3. queue \in [Tracks -> Seq(Nat)] /\ queue[t] \in Seq(Nat) /\ Rising(queue[t])
  BY <1>2 DEF TypeInv, QueueTypes, JobInv
<1> DEFINE s == Tail(queue[t])
           h == Head(queue[t])
<1>4. /\ h \in ToSet(queue[t]) /\ h \in Nat /\ s \in Seq(Nat) /\ Rising(s)
      /\ ToSet(s) = ToSet(queue[t]) \ {h}
      /\ \A y \in ToSet(s) : h < y
  BY <1>1, <1>3, TailSet
<1>5. queue' = [queue EXCEPT ![t] = s]
  BY <1>1
<1> HIDE DEF s, h
<1>6. /\ queue' \in [Tracks -> Seq(Nat)] /\ queue'[t] = s
      /\ \A u \in Tracks : u # t => queue'[u] = queue[u]
  BY <1>2, <1>3, <1>4, <1>5
<1> QED BY <1>1, <1>2, <1>4, <1>6 DEF h

\* The runner gives up its drain task i.
LEMMA Removed ==
  ASSUME TypeInv, TaskInv, NEW i \in DOMAIN runner, runner' = RemoveAt(runner, i)
  PROVE  /\ runner[i] \in Tracks /\ runner[i] \in ToSet(runner) /\ runner' \in Seq(Tracks)
         /\ Distinct(runner') /\ ToSet(runner') = ToSet(runner) \ {runner[i]}
<1>1. runner \in Seq(Tracks) /\ Distinct(runner)
  BY DEF TypeInv, QueueTypes, TaskInv
<1>2. i \in 1 .. Len(runner) /\ runner[i] \in ToSet(runner) /\ runner[i] \in Tracks
  BY <1>1, InSet, ElementOfSeq DEF ToSet
<1> QED BY <1>1, <1>2, RemoveAtSet

LEMMA QueueStep ==
  ASSUME TypeInv, TaskInv, JobInv, [Next]_vars
  PROVE  QueueTypes'
<1>0. /\ queue \in [Tracks -> Seq(Nat)] /\ scheduled \in [Tracks -> BOOLEAN]
      /\ runner \in Seq(Tracks) /\ doomed \in [{"Caller", "Runner"} -> SUBSET Nat]
  BY DEF TypeInv, QueueTypes
<1>1. CASE UNCHANGED << queue, scheduled, runner, doomed >>
  BY <1>0, <1>1 DEF QueueTypes
<1>2. ASSUME NEW t \in Tracks, ScheduleJob(t) PROVE QueueTypes'
  <2>1. Len(jobs) + 1 \in Nat
    BY JobFacts
  <2>2. queue' \in [Tracks -> Seq(Nat)] /\ scheduled' \in [Tracks -> BOOLEAN]
    BY <1>2, <2>1, Enqueued DEF ScheduleJob
  <2> QED BY <1>0, <1>2, <2>2 DEF ScheduleJob, QueueTypes
<1>3. CASE HandOver
  <2>1. caller.track \in Tracks
    BY <1>3 DEF HandOver, TypeInv, CallerInv
  <2>2. runner' \in Seq(Tracks)
    BY <1>0, <1>3, <2>1, AppendProperties DEF HandOver
  <2> QED BY <1>0, <1>3, <2>2 DEF HandOver, QueueTypes
<1>4. CASE Refuse
  <2>1. caller.track \in Tracks
    BY <1>4 DEF Refuse, TypeInv, CallerInv
  <2>2. /\ queue' \in [Tracks -> Seq(Nat)] /\ scheduled' \in [Tracks -> BOOLEAN]
        /\ doomed' \in [{"Caller", "Runner"} -> SUBSET Nat]
    BY <1>4, <2>1, Taken DEF Refuse
  <2> QED BY <1>0, <1>4, <2>2 DEF Refuse, QueueTypes
<1>5. ASSUME NEW i \in DOMAIN runner, Lose(i) PROVE QueueTypes'
  <2>1. runner[i] \in Tracks /\ runner' \in Seq(Tracks)
    BY <1>5, Removed DEF Lose
  <2>2. /\ queue' \in [Tracks -> Seq(Nat)] /\ scheduled' \in [Tracks -> BOOLEAN]
        /\ doomed' \in [{"Caller", "Runner"} -> SUBSET Nat]
    BY <1>5, <2>1, Taken DEF Lose
  <2> QED BY <2>1, <2>2 DEF QueueTypes
<1>6. ASSUME NEW o \in DOMAIN doomed, Cancel(o) PROVE QueueTypes'
  <2>1. PICK j \in doomed[o] : doomed' = [doomed EXCEPT ![o] = @ \ {j}]
    BY <1>6 DEF Cancel
  <2>2. doomed' \in [{"Caller", "Runner"} -> SUBSET Nat]
    BY <1>0, <2>1
  <2> QED BY <1>0, <1>6, <2>2 DEF Cancel, QueueTypes
<1>7. ASSUME NEW w \in Threads, Worker(w) PROVE QueueTypes'
  <2>1. CASE Take(w)
    <3>1. runner' \in Seq(Tracks)
      BY <2>1, Removed DEF Take
    <3> QED BY <1>0, <2>1, <3>1 DEF Take, QueueTypes
  <2>2. CASE NextJob(w)
    <3>1. queue' \in [Tracks -> Seq(Nat)]
      BY <2>2, Popped
    <3> QED BY <1>0, <2>2, <3>1 DEF NextJob, QueueTypes
  <2>3. CASE DrainEnds(w)
    <3>1. scheduled' \in [Tracks -> BOOLEAN]
      BY <1>0, <2>3 DEF DrainEnds
    <3> QED BY <1>0, <2>3, <3>1 DEF DrainEnds, QueueTypes
  <2> QED BY <1>1, <1>7, <2>1, <2>2, <2>3 DEF Worker, Solve, Complete, Exit
<1> QED BY <1>1, <1>2, <1>3, <1>4, <1>5, <1>6, <1>7 DEF Next, vars, Execute, FinishSchedule, Drop, CallerRuns,
        ReportRefusal, DropPool, Join, ResetTrack, Poll, Terminated

\* A job that ends was open.
LEMMA WasOpen ==
  ASSUME TypeInv, JobInv
  PROVE  /\ \A w \in Threads : Busy(w) => thread[w].job \in 1 .. Len(jobs) /\ thread[w].track \in Tracks
         /\ \A o \in DOMAIN doomed : o \in {"Caller", "Runner"}
         /\ \A o \in {"Caller", "Runner"} : \A j \in doomed[o] : j \in 1 .. Len(jobs)
<1>1. \A w \in Threads : Busy(w) => Open(jobs, thread[w].job, thread[w].track) /\ thread[w].track \in Tracks
  BY ThreadFacts DEF JobInv, Busy
<1>2. \A o \in {"Caller", "Runner"} : \A j \in doomed[o] : Open(jobs, j, jobs[j].track)
  BY DEF JobInv
<1> QED BY <1>1, <1>2 DEF Open, TypeInv, QueueTypes

LEMMA JobStep ==
  ASSUME TypeInv, JobInv, CallerInv', [Next]_vars
  PROVE  JobTypes'
<1>0. /\ jobs \in Seq(JobRecord) /\ Len(jobs) <= MaxJobs /\ Len(jobs) \in Nat
      /\ \A j \in 1 .. Len(jobs) : jobs[j].call <= calls /\ jobs[j].call \in Int
      /\ pending \in [Calls -> [Tracks -> Nat]]
      /\ waiting \subseteq [call : Calls, for : Watched]
      /\ solver \in [Tracks -> Nat] /\ resetAt \in [Tracks -> Nat]
      /\ \A t \in Tracks : solver[t] <= Len(jobs) /\ resetAt[t] <= Len(jobs)
      /\ calls \in Int /\ calls' \in Int
  BY JobFacts DEF TypeInv, JobTypes, CallerInv, Calls
<1>1. CASE UNCHANGED << jobs, pending, solver, resetAt >> /\ waiting' \subseteq waiting /\ calls' >= calls
  BY <1>0, <1>1 DEF JobTypes
<1>2. ASSUME NEW t \in Tracks, ScheduleJob(t) PROVE JobTypes'
  <2>1. /\ jobs' \in Seq(JobRecord) /\ Len(jobs') = Len(jobs) + 1
        /\ \A j \in 1 .. Len(jobs) : jobs'[j] = jobs[j]
        /\ jobs'[Len(jobs) + 1].call = calls /\ calls \in Calls
    BY <1>2, Added
  <2>2. pending' \in [Calls -> [Tracks -> Nat]]
    BY <1>0, <1>2, <2>1 DEF ScheduleJob
  <2>3. /\ Len(jobs) < MaxJobs /\ calls' = calls
        /\ UNCHANGED << waiting, solver, resetAt >>
    BY <1>2 DEF ScheduleJob
  <2>4. \A j \in 1 .. Len(jobs) + 1 : jobs'[j].call <= calls
    <3> SUFFICES ASSUME NEW j \in 1 .. Len(jobs) + 1 PROVE jobs'[j].call <= calls
      OBVIOUS
    <3>1. j \in 1 .. Len(jobs) \/ j = Len(jobs) + 1
      BY <1>0
    <3>2. CASE j \in 1 .. Len(jobs)
      BY <1>0, <2>1, <3>2
    <3>3. CASE j = Len(jobs) + 1
      BY <1>0, <2>1, <3>3
    <3> QED BY <3>1, <3>2, <3>3
  <2>5. \A u \in Tracks : solver'[u] <= Len(jobs') /\ resetAt'[u] <= Len(jobs')
    BY <1>0, <2>1, <2>3
  <2>6. Len(jobs') <= MaxJobs
    BY <1>0, <2>1, <2>3, JobsAssumption
  <2> QED BY <1>0, <2>1, <2>2, <2>3, <2>4, <2>5, <2>6 DEF JobTypes
<1>3. ASSUME NEW j \in 1 .. Len(jobs), NEW result \in {"Ran", "Cancelled"}, CompleteTask(j, result),
             UNCHANGED << calls, solver, resetAt >>
      PROVE  JobTypes'
  <2>1. /\ jobs' \in Seq(JobRecord) /\ Len(jobs') = Len(jobs) /\ waiting' \subseteq waiting
        /\ \A i \in 1 .. Len(jobs) : jobs'[i].call = jobs[i].call
    BY <1>3, Completed
  <2>2. pending' \in [Calls -> [Tracks -> Nat]]
    BY <1>3, CompletedPending
  <2> QED BY <1>0, <1>3, <2>1, <2>2 DEF JobTypes
<1>4. ASSUME NEW o \in DOMAIN doomed, Cancel(o) PROVE JobTypes'
  <2>1. PICK j \in doomed[o] : CompleteTask(j, "Cancelled")
    BY <1>4 DEF Cancel
  <2>2. j \in 1 .. Len(jobs)
    BY <1>4, <2>1, WasOpen
  <2> QED BY <1>3, <1>4, <2>1, <2>2 DEF Cancel
<1>5. ASSUME NEW w \in Threads, Complete(w) PROVE JobTypes'
  <2>1. thread[w].job \in 1 .. Len(jobs)
    BY <1>5, WasOpen DEF Complete, Busy
  <2> QED BY <1>3, <1>5, <2>1 DEF Complete
<1>6. ASSUME NEW w \in Threads, Solve(w) PROVE JobTypes'
  <2>1. thread[w].job \in 1 .. Len(jobs) /\ thread[w].track \in Tracks
    BY <1>6, WasOpen DEF Solve, Busy
  <2>2. solver' = [solver EXCEPT ![thread[w].track] = thread[w].job]
    BY <1>6 DEF Solve
  <2>3. UNCHANGED << jobs, pending, resetAt, waiting, calls >>
    BY <1>6 DEF Solve
  <2>4. solver' \in [Tracks -> Nat] /\ \A t \in Tracks : solver'[t] <= Len(jobs)
    BY <1>0, <2>1, <2>2
  <2> QED BY <1>0, <2>3, <2>4 DEF JobTypes
<1>7. ASSUME NEW t \in Tracks, ResetTrack(t) PROVE JobTypes'
  <2>1. UNCHANGED << jobs, pending, waiting, calls >>
    BY <1>7 DEF ResetTrack
  <2>2. /\ solver' \in [Tracks -> Nat] /\ resetAt' \in [Tracks -> Nat]
        /\ \A u \in Tracks : solver'[u] <= Len(jobs) /\ resetAt'[u] <= Len(jobs)
    BY <1>0, <1>7 DEF ResetTrack
  <2> QED BY <1>0, <2>1, <2>2 DEF JobTypes
<1>8. ASSUME NEW c \in Calls, NEW for \in Watched, Poll(c, for) PROVE JobTypes'
  <2>1. UNCHANGED << jobs, pending, solver, resetAt, calls >>
    BY <1>8 DEF Poll
  <2>2. waiting' \subseteq [call : Calls, for : Watched]
    BY <1>0, <1>8 DEF Poll
  <2> QED BY <1>0, <2>1, <2>2 DEF JobTypes
<1>9. CASE Execute \/ FinishSchedule
  BY <1>0, <1>1, <1>9 DEF Execute, FinishSchedule, Unwoken
<1>10. ASSUME NEW w \in Threads, Worker(w) PROVE JobTypes'
  BY <1>0, <1>1, <1>5, <1>6, <1>10 DEF Worker, Take, NextJob, DrainEnds, Exit
<1>11. CASE Drop \/ CallerRuns \/ Terminated
  BY <1>0, <1>1, <1>11 DEF Drop, CallerRuns, HandOver, Refuse, ReportRefusal, DropPool, Join, Terminated, vars
<1>12. ASSUME NEW i, Lose(i) PROVE JobTypes'
  BY <1>0, <1>1, <1>12 DEF Lose
<1>13. CASE UNCHANGED vars
  BY <1>0, <1>1, <1>13 DEF vars
<1> QED BY <1>2, <1>4, <1>7, <1>8, <1>9, <1>10, <1>11, <1>12, <1>13 DEF Next
-----------------------------------------------------------------------------
(* Drain tasks.                                                            *)

\* Where a drain task of track t is.
HasTask(t) == t \in ToSet(runner) \/ (\E w \in Threads : thread[w].track = t) \/ caller.track = t

\* Who gives up a drain task unschedules its track.
LEMMA GivenUp ==
  ASSUME NEW t \in Tracks, \A u \in Tracks : scheduled[u] <=> HasTask(u),
         scheduled'[t] = FALSE, \A u \in Tracks : u # t => scheduled'[u] = scheduled[u],
         ~HasTask(t)', \A u \in Tracks : u # t => (HasTask(u)' <=> HasTask(u))
  PROVE  \A u \in Tracks : scheduled'[u] <=> HasTask(u)'
<1> SUFFICES ASSUME NEW u \in Tracks PROVE scheduled'[u] <=> HasTask(u)'
  OBVIOUS
<1>1. CASE u = t
  BY <1>1
<1>2. CASE u # t
  BY <1>2
<1> QED BY <1>1, <1>2

\* Only who schedules a track creates its drain task, and only who drops or ends
\* it unschedules the track.
LEMMA TaskStep ==
  ASSUME TypeInv, TaskInv, JobInv, [Next]_vars
  PROVE  TaskInv'
<1>0. /\ Distinct(runner)
      /\ \A t \in Tracks : scheduled[t] <=> HasTask(t)
      /\ \A v, w \in Threads : thread[v].track = thread[w].track /\ thread[v].track # NoTrack => v = w
      /\ \A w \in Threads : thread[w].track \notin ToSet(runner)
      /\ caller.track \notin ToSet(runner)
      /\ \A w \in Threads : thread[w].track = caller.track => caller.track = NoTrack
      /\ \A t \in Tracks : queue[t] # << >> => scheduled[t]
      /\ NoTrack \notin Tracks /\ ToSet(runner) \subseteq Tracks
      /\ caller.track \in Tracks \union {NoTrack}
      /\ \A w \in Threads : thread[w].track \in Tracks \union {NoTrack}
  <2>1. NoTrack \notin Tracks
    BY JobsAssumption
  <2>2. runner \in Seq(Tracks) /\ caller.track \in Tracks \union {NoTrack}
    BY DEF TypeInv, QueueTypes, CallerInv
  <2>3. ToSet(runner) \subseteq Tracks
    BY <2>2, InSet
  <2> QED BY <2>1, <2>2, <2>3, ThreadFacts DEF TaskInv, HasTask
<1>1. ASSUME runner' = runner, scheduled' = scheduled, caller'.track = caller.track,
             \A w \in Threads : thread'[w].track = thread[w].track,
             \A t \in Tracks : queue'[t] # << >> => queue[t] # << >>
      PROVE  TaskInv'
  BY <1>0, <1>1 DEF TaskInv, HasTask
<1>2. ASSUME NEW t \in Tracks, ScheduleJob(t) PROVE TaskInv'
  <2>1. Len(jobs) + 1 \in Nat
    BY JobFacts
  <2>2. /\ scheduled'[t] = TRUE
        /\ \A u \in Tracks : u # t => queue'[u] = queue[u] /\ scheduled'[u] = scheduled[u]
        /\ UNCHANGED << runner, thread >>
        /\ caller' = IF scheduled[t] THEN caller ELSE [at |-> "Handing", track |-> t]
        /\ caller.at = "Emitting"
    BY <1>2, <2>1, Enqueued DEF ScheduleJob, Enqueue
  <2>3. caller.track = NoTrack
    BY <2>2 DEF TypeInv, CallerInv
  <2>4. CASE scheduled[t]
    BY <1>0, <2>2, <2>4 DEF TaskInv, HasTask
  <2>5. CASE ~scheduled[t]
    <3>1. caller'.track = t /\ ~HasTask(t)
      BY <1>0, <2>2, <2>5
    <3>2. \A u \in Tracks : scheduled'[u] <=> HasTask(u)'
      BY <1>0, <2>2, <2>3, <3>1 DEF HasTask
    <3> QED BY <1>0, <2>2, <3>1, <3>2 DEF TaskInv, HasTask
  <2> QED BY <2>4, <2>5
<1>3. CASE HandOver
  <2> SUFFICES ASSUME NEW t, t = caller.track PROVE TaskInv'
    OBVIOUS
  <2>1. /\ t \in Tracks /\ caller'.track = NoTrack /\ runner' = Append(runner, t)
        /\ UNCHANGED << queue, scheduled, thread >>
    BY <1>3 DEF HandOver, TypeInv, CallerInv
  <2>2. runner \in Seq(Tracks)
    BY DEF TypeInv, QueueTypes
  <2>3. ToSet(runner') = ToSet(runner) \union {t} /\ Distinct(runner')
    BY <1>0, <2>1, <2>2, AppendSet
  <2>4. \A u \in Tracks : HasTask(u)' <=> HasTask(u)
    BY <1>0, <2>1, <2>3 DEF HasTask
  <2> QED BY <1>0, <2>1, <2>3, <2>4 DEF TaskInv, HasTask
<1>4. CASE Refuse
  <2> SUFFICES ASSUME NEW t, t = caller.track PROVE TaskInv'
    OBVIOUS
  <2>1. /\ t \in Tracks /\ caller'.track = NoTrack /\ UNCHANGED << runner, thread >>
        /\ DropGuard(t, "Caller")
    BY <1>4 DEF Refuse, TypeInv, CallerInv
  <2>2. /\ queue'[t] = << >> /\ scheduled'[t] = FALSE
        /\ \A u \in Tracks : u # t => queue'[u] = queue[u] /\ scheduled'[u] = scheduled[u]
    BY <2>1, Taken
  <2>3. ~HasTask(t)'
    BY <1>0, <2>1 DEF HasTask
  <2>4. \A u \in Tracks : u # t => (HasTask(u)' <=> HasTask(u))
    <3> SUFFICES ASSUME NEW u \in Tracks, u # t PROVE HasTask(u)' <=> HasTask(u)
      OBVIOUS
    <3>1. u # caller.track /\ u # caller'.track /\ runner' = runner /\ thread' = thread
      BY <1>0, <2>1
    <3> QED BY <3>1 DEF HasTask
  <2>5. \A u \in Tracks : scheduled'[u] <=> HasTask(u)'
    BY <1>0, <2>1, <2>2, <2>3, <2>4, GivenUp
  <2>6. \A u \in Tracks : queue'[u] # << >> => scheduled'[u]
    BY <1>0, <2>2
  <2> QED BY <1>0, <2>1, <2>5, <2>6 DEF TaskInv, HasTask
<1>5. ASSUME NEW i \in DOMAIN runner, Lose(i) PROVE TaskInv'
  <2> SUFFICES ASSUME NEW t, t = runner[i] PROVE TaskInv'
    OBVIOUS
  <2>1. /\ runner' = RemoveAt(runner, i) /\ UNCHANGED << caller, thread >> /\ DropGuard(t, "Runner")
    BY <1>5 DEF Lose
  <2>2. t \in Tracks /\ t \in ToSet(runner) /\ Distinct(runner') /\ ToSet(runner') = ToSet(runner) \ {t}
    BY <2>1, Removed
  <2>3. /\ queue'[t] = << >> /\ scheduled'[t] = FALSE
        /\ \A u \in Tracks : u # t => queue'[u] = queue[u] /\ scheduled'[u] = scheduled[u]
    BY <2>1, <2>2, Taken
  <2>7. ~HasTask(t)'
    BY <1>0, <2>1, <2>2 DEF HasTask
  <2>4. \A u \in Tracks : u # t => (HasTask(u)' <=> HasTask(u))
    <3> SUFFICES ASSUME NEW u \in Tracks, u # t PROVE HasTask(u)' <=> HasTask(u)
      OBVIOUS
    <3>1. (u \in ToSet(runner') <=> u \in ToSet(runner)) /\ caller' = caller /\ thread' = thread
      BY <2>1, <2>2
    <3> QED BY <3>1 DEF HasTask
  <2>5. \A u \in Tracks : scheduled'[u] <=> HasTask(u)'
    BY <1>0, <2>2, <2>3, <2>4, <2>7, GivenUp
  <2>6. \A u \in Tracks : queue'[u] # << >> => scheduled'[u]
    BY <1>0, <2>3
  <2> QED BY <1>0, <2>1, <2>2, <2>5, <2>6 DEF TaskInv, HasTask
<1>6. ASSUME NEW w \in Threads, Take(w) PROVE TaskInv'
  <2>1. PICK i \in DOMAIN runner :
          /\ thread' = [thread EXCEPT ![w] = [at |-> "Draining", track |-> runner[i], job |-> 0]]
          /\ runner' = RemoveAt(runner, i)
    BY <1>6 DEF Take
  <2> SUFFICES ASSUME NEW t, t = runner[i] PROVE TaskInv'
    OBVIOUS
  <2>2. t \in Tracks /\ t \in ToSet(runner) /\ Distinct(runner') /\ ToSet(runner') = ToSet(runner) \ {t}
    BY <2>1, Removed
  <2>3. thread[w].track = NoTrack /\ UNCHANGED << caller, queue, scheduled >>
    BY <1>6, ThreadFacts DEF Take
  <2>4. thread'[w].track = t /\ \A v \in Threads : v # w => thread'[v].track = thread[v].track
    BY <2>1 DEF TypeInv, ThreadInv
  <2>5. \A u \in Tracks : HasTask(u)' <=> HasTask(u)
    BY <1>0, <2>2, <2>3, <2>4 DEF HasTask
  <2> QED BY <1>0, <2>2, <2>3, <2>4, <2>5 DEF TaskInv, HasTask
<1>7. ASSUME NEW w \in Threads, DrainEnds(w) PROVE TaskInv'
  <2> SUFFICES ASSUME NEW t, t = thread[w].track PROVE TaskInv'
    OBVIOUS
  <2>1. /\ thread[w].at = "Draining" /\ queue[t] = << >> /\ scheduled' = [scheduled EXCEPT ![t] = FALSE]
        /\ thread' = [thread EXCEPT ![w] = [at |-> "Idle", track |-> NoTrack, job |-> 0]]
        /\ UNCHANGED << caller, queue, runner >>
    BY <1>7 DEF DrainEnds
  <2>2. t \in Tracks /\ scheduled \in [Tracks -> BOOLEAN]
    BY <2>1, ThreadFacts DEF TypeInv, QueueTypes
  <2>3. thread'[w].track = NoTrack /\ \A v \in Threads : v # w => thread'[v].track = thread[v].track
    BY <2>1 DEF TypeInv, ThreadInv
  <2>4. scheduled'[t] = FALSE /\ \A u \in Tracks : u # t => scheduled'[u] = scheduled[u]
    BY <2>1, <2>2
  <2>5. \A u \in Tracks : u # t => (HasTask(u)' <=> HasTask(u))
    <3> SUFFICES ASSUME NEW u \in Tracks, u # t PROVE HasTask(u)' <=> HasTask(u)
      OBVIOUS
    <3>1. \A v \in Threads : thread'[v].track = u <=> thread[v].track = u
      BY <1>0, <2>3
    <3>2. runner' = runner /\ caller' = caller
      BY <2>1
    <3> QED BY <3>1, <3>2 DEF HasTask
  <2>8. ~HasTask(t)'
    <3>1. \A v \in Threads : thread'[v].track # t
      BY <1>0, <2>2, <2>3
    <3>2. t \notin ToSet(runner) /\ caller.track # t /\ runner' = runner /\ caller' = caller
      BY <1>0, <2>1, <2>2
    <3> QED BY <3>1, <3>2 DEF HasTask
  <2>6. \A u \in Tracks : scheduled'[u] <=> HasTask(u)'
    <3> QED BY <1>0, <2>2, <2>4, <2>5, <2>8, GivenUp
  <2>7. \A u \in Tracks : queue'[u] # << >> => scheduled'[u]
    BY <1>0, <2>1, <2>4
  <2> QED BY <1>0, <2>1, <2>3, <2>6, <2>7 DEF TaskInv, HasTask
<1>8. ASSUME NEW w \in Threads, NextJob(w) PROVE TaskInv'
  <2>1. \A v \in Threads : thread'[v].track = thread[v].track
    BY <1>8 DEF NextJob, TypeInv, ThreadInv
  <2>2. \A t \in Tracks : queue'[t] # << >> => queue[t] # << >>
    <3> DEFINE u == thread[w].track
    <3>1. (queue'[u] # << >> => queue[u] # << >>) /\ \A t \in Tracks : t # u => queue'[t] = queue[t]
      BY <1>8, Popped
    <3> QED BY <3>1
  <2> QED BY <1>1, <1>8, <2>1, <2>2 DEF NextJob
<1>9. ASSUME NEW w \in Threads, Solve(w) \/ Complete(w) \/ Exit(w) PROVE TaskInv'
  <2>1. \A v \in Threads : thread'[v].track = thread[v].track
    BY <1>9 DEF Solve, Complete, Exit, TypeInv, ThreadInv
  <2> QED BY <1>1, <1>9, <2>1 DEF Solve, Complete, Exit
<1>10. CASE Execute \/ FinishSchedule \/ Drop \/ ReportRefusal \/ DropPool \/ Join
  <2>1. caller'.track = caller.track
    BY <1>10 DEF Execute, FinishSchedule, Drop, ReportRefusal, DropPool, Join, TypeInv, CallerInv
  <2> QED BY <1>1, <1>10, <2>1 DEF Execute, FinishSchedule, Drop, ReportRefusal, DropPool, Join
<1>11. ASSUME NEW t \in Tracks, ResetTrack(t) PROVE TaskInv'
  BY <1>1, <1>11 DEF ResetTrack
<1>12. ASSUME NEW c, NEW for, Poll(c, for) PROVE TaskInv'
  BY <1>1, <1>12 DEF Poll
<1>13. ASSUME NEW o, Cancel(o) PROVE TaskInv'
  BY <1>1, <1>13 DEF Cancel
<1>14. CASE UNCHANGED vars
  BY <1>1, <1>14 DEF vars
<1> QED BY <1>2, <1>3, <1>4, <1>5, <1>6, <1>7, <1>8, <1>9, <1>10, <1>11, <1>12, <1>13, <1>14
        DEF Next, CallerRuns, Worker, Terminated
-----------------------------------------------------------------------------
(* Jobs.                                                                   *)

\* What is said of the jobs, with what is known of where they are.
LEMMA Places ==
  ASSUME TypeInv, TaskInv, JobInv
  PROVE  /\ \A j, t : Open(jobs, j, t) => /\ j \in Nat /\ j # 0 /\ j <= Len(jobs)
                                    /\ jobs[j].track = t
         /\ \A t \in Tracks : Rising(queue[t]) /\ \A j \in ToSet(queue[t]) : Open(jobs, j, t)
         /\ \A w \in Threads : Busy(w) => /\ Open(jobs, thread[w].job, thread[w].track)
                                          /\ thread[w].track \in Tracks
                                          /\ \A j \in ToSet(queue[thread[w].track]) : thread[w].job < j
                                          /\ thread[w].job \notin ToSet(queue[thread[w].track])
         /\ \A v, w \in Threads : Busy(v) /\ Busy(w) /\ thread[v].track = thread[w].track => v = w
         /\ \A v, w \in Threads : Busy(v) /\ thread[v].job = thread[w].job => v = w
         /\ \A w \in Threads : thread[w].job # 0 <=> Busy(w)
<1>1. \A j, t : Open(jobs, j, t) => j \in Nat /\ j # 0 /\ j <= Len(jobs) /\ jobs[j].track = t
  BY JobFacts DEF Open
<1>2. \A t \in Tracks : Rising(queue[t]) /\ \A j \in ToSet(queue[t]) : Open(jobs, j, t)
  BY DEF JobInv
<1>3. \A w \in Threads : thread[w].job # 0 <=> Busy(w)
  BY ThreadFacts
<1>4. \A w \in Threads : Busy(w) => thread[w].track \in Tracks /\ thread[w].track # NoTrack
  BY ThreadFacts DEF Busy
<1>5. \A v, w \in Threads : Busy(v) /\ Busy(w) /\ thread[v].track = thread[w].track => v = w
  BY <1>4 DEF TaskInv
<1>6. \A w \in Threads : Busy(w) => /\ Open(jobs, thread[w].job, thread[w].track)
                                    /\ \A j \in ToSet(queue[thread[w].track]) : thread[w].job < j
  BY DEF JobInv
<1>7. \A v, w \in Threads : Busy(v) /\ thread[v].job = thread[w].job => v = w
  BY <1>1, <1>3, <1>5, <1>6
<1>8. \A w \in Threads : Busy(w) => thread[w].job \notin ToSet(queue[thread[w].track])
  <2> SUFFICES ASSUME NEW w \in Threads, Busy(w), thread[w].job \in ToSet(queue[thread[w].track]) PROVE FALSE
    OBVIOUS
  <2>1. thread[w].job \in Nat /\ thread[w].job < thread[w].job
    BY <1>1, <1>6
  <2> QED BY <2>1
<1> QED BY <1>1, <1>2, <1>3, <1>4, <1>5, <1>6, <1>7, <1>8

\* No step of the workers or of the runner touches a job.
LEMMA JobFrame ==
  ASSUME JobInv, UNCHANGED << jobs, queue, doomed >>,
         \A w \in Threads : /\ thread'[w].job = thread[w].job /\ (Busy(w)' <=> Busy(w))
                            /\ Busy(w) => thread'[w].track = thread[w].track
  PROVE  JobInv'
BY DEF JobInv, Open

\* A frame joins the queue of its track.
LEMMA JobAdded ==
  ASSUME TypeInv, TaskInv, JobInv, NEW t \in Tracks, ScheduleJob(t)
  PROVE  JobInv'
<1> SUFFICES ASSUME NEW n, n = Len(jobs) + 1 PROVE JobInv'
  OBVIOUS
<1>1. /\ Len(jobs') = n /\ jobs'[n].track = t /\ n \in Nat /\ Len(jobs) \in Nat
      /\ \A j \in 1 .. Len(jobs) : jobs'[j] = jobs[j]
      /\ \A j, u : Open(jobs', j, u) <=> Open(jobs, j, u) \/ (j = n /\ u = t)
  BY Added, JobFacts
<1>2. UNCHANGED << thread, doomed >> /\ Enqueue(t, n)
  BY DEF ScheduleJob
<1>3. \A j, u : Open(jobs, j, u) => j \in Nat /\ j < n /\ j \in 1 .. Len(jobs)
  BY <1>1 DEF Open
<1>4. \A j \in ToSet(queue[t]) : j < n
  BY <1>3 DEF JobInv
<1>5. /\ ToSet(queue'[t]) = ToSet(queue[t]) \union {n} /\ Rising(queue'[t])
      /\ \A u \in Tracks : u # t => queue'[u] = queue[u]
  <2>1. Rising(queue[t])
    BY DEF JobInv
  <2> QED BY <1>1, <1>2, <1>4, <2>1, Enqueued
<1>6. \A u \in Tracks : Rising(queue'[u]) /\ \A j \in ToSet(queue'[u]) : Open(jobs', j, u)
  <2> SUFFICES ASSUME NEW u \in Tracks PROVE Rising(queue'[u]) /\ \A j \in ToSet(queue'[u]) : Open(jobs', j, u)
    OBVIOUS
  <2>1. CASE u = t
    BY <1>1, <1>5, <2>1 DEF JobInv
  <2>2. CASE u # t
    BY <1>1, <1>5, <2>2 DEF JobInv
  <2> QED BY <2>1, <2>2
<1>7. ASSUME NEW w \in Threads, Busy(w)'
      PROVE  /\ Open(jobs', thread'[w].job, thread'[w].track)
             /\ \A j \in ToSet(queue'[thread'[w].track]) : thread'[w].job < j
  <2>1. /\ Open(jobs, thread[w].job, thread[w].track) /\ thread[w].track \in Tracks
        /\ \A j \in ToSet(queue[thread[w].track]) : thread[w].job < j
    BY <1>2, <1>7, Places DEF Busy
  <2>2. thread[w].job < n
    BY <1>3, <2>1
  <2>3. \A j \in ToSet(queue'[thread[w].track]) : thread[w].job < j
    BY <1>5, <2>1, <2>2
  <2>4. Open(jobs', thread[w].job, thread[w].track)
    <3> SUFFICES ASSUME NEW x, x = thread[w].job, NEW u, u = thread[w].track PROVE Open(jobs', x, u)
      BY <1>2
    <3> QED BY <1>1, <2>1
  <2> QED BY <1>2, <2>3, <2>4
<1>8. ASSUME NEW o \in {"Caller", "Runner"}, NEW j \in doomed'[o]
      PROVE  /\ Open(jobs', j, jobs'[j].track) /\ j \notin ToSet(queue'[jobs'[j].track])
             /\ \A w \in Threads : thread'[w].job # j
  <2>1. /\ Open(jobs, j, jobs[j].track) /\ j \notin ToSet(queue[jobs[j].track])
        /\ \A w \in Threads : thread[w].job # j
    BY <1>2, <1>8 DEF JobInv
  <2>2. j \in Nat /\ j < n /\ jobs'[j] = jobs[j]
    BY <1>1, <1>3, <2>1
  <2>3. Open(jobs', j, jobs[j].track)
    <3> SUFFICES ASSUME NEW u, u = jobs[j].track PROVE Open(jobs', j, u)
      BY <2>2
    <3> QED BY <1>1, <2>1
  <2>4. jobs[j].track \in Tracks
    BY <2>1, JobFacts DEF Open
  <2>5. j \notin ToSet(queue'[jobs[j].track])
    BY <1>1, <1>5, <2>1, <2>2, <2>4
  <2> QED BY <1>2, <2>1, <2>2, <2>3, <2>5
<1>9. ASSUME NEW j \in 1 .. n, jobs'[j].result = "None"
      PROVE  \/ j \in ToSet(queue'[jobs'[j].track])
             \/ \E w \in Threads : thread'[w].job = j
             \/ j \in doomed'["Caller"] \union doomed'["Runner"]
  <2>1. CASE j = n
    BY <1>1, <1>5, <2>1
  <2>2. CASE j # n
    <3>1. j \in 1 .. Len(jobs) /\ jobs'[j] = jobs[j]
      BY <1>1, <2>2
    <3>2. jobs[j].track \in Tracks
      BY <3>1, JobFacts
    <3>3. ToSet(queue[jobs[j].track]) \subseteq ToSet(queue'[jobs[j].track])
      BY <1>5, <3>2
    <3> QED BY <1>2, <1>9, <3>1, <3>3 DEF JobInv
  <2> QED BY <2>1, <2>2
<1>10. doomed'["Caller"] \intersect doomed'["Runner"] = {}
  BY <1>2 DEF JobInv
<1> QED BY <1>1, <1>6, <1>7, <1>8, <1>9, <1>10 DEF JobInv

\* The jobs of a track are taken to be cancelled.
LEMMA JobsTaken ==
  ASSUME TypeInv, TaskInv, JobInv, NEW t \in Tracks, NEW o \in {"Caller", "Runner"},
         DropGuard(t, o), UNCHANGED << jobs, thread >>
  PROVE  JobInv'
<1>1. /\ ToSet(queue'[t]) = {} /\ queue'[t] = << >>
      /\ \A u \in Tracks : u # t => queue'[u] = queue[u]
      /\ doomed'[o] = doomed[o] \union ToSet(queue[t])
      /\ \A p \in {"Caller", "Runner"} : p # o => doomed'[p] = doomed[p]
  BY Taken
<1>2. \A j, u : Open(jobs', j, u) <=> Open(jobs, j, u)
  BY DEF Open
<1>3. \A w \in Threads : Busy(w)' <=> Busy(w)
  BY DEF Busy
<1>4. \A u \in Tracks : ToSet(queue'[u]) \subseteq ToSet(queue[u]) /\ Rising(queue'[u])
  <2> SUFFICES ASSUME NEW u \in Tracks PROVE ToSet(queue'[u]) \subseteq ToSet(queue[u]) /\ Rising(queue'[u])
    OBVIOUS
  <2>1. CASE u = t
    <3>1. Rising(<< >>)
      BY EmptySeq DEF Rising
    <3> QED BY <1>1, <2>1, <3>1
  <2>2. CASE u # t
    BY <1>1, <2>2, Places
  <2> QED BY <2>1, <2>2
<1>5. ASSUME NEW j \in ToSet(queue[t])
      PROVE  /\ Open(jobs, j, t) /\ jobs[j].track = t /\ \A w \in Threads : thread[w].job # j
             /\ \A p \in {"Caller", "Runner"} : j \notin doomed[p]
  <2>1. Open(jobs, j, t) /\ jobs[j].track = t /\ j # 0
    BY Places
  <2>2. ASSUME NEW w \in Threads, thread[w].job = j PROVE FALSE
    BY <2>1, <2>2, Places
  <2>3. \A p \in {"Caller", "Runner"} : j \notin doomed[p]
    BY <2>1 DEF JobInv
  <2> QED BY <2>1, <2>2, <2>3
<1>6. \A u \in Tracks : \A j \in ToSet(queue'[u]) : Open(jobs, j, u)
  BY <1>4, Places
<1>7. \A w \in Threads : Busy(w) => /\ Open(jobs, thread[w].job, thread[w].track)
                                    /\ \A j \in ToSet(queue'[thread[w].track]) : thread[w].job < j
  BY <1>4, Places
<1>8. ASSUME NEW p \in {"Caller", "Runner"}, NEW j \in doomed'[p]
      PROVE  /\ Open(jobs, j, jobs[j].track) /\ j \notin ToSet(queue'[jobs[j].track])
             /\ \A w \in Threads : thread[w].job # j
  <2>1. CASE j \in ToSet(queue[t])
    BY <1>1, <1>5, <2>1
  <2>2. CASE j \notin ToSet(queue[t])
    <3>1. j \in doomed[p]
      BY <1>1, <1>8, <2>2
    <3>2. /\ Open(jobs, j, jobs[j].track) /\ j \notin ToSet(queue[jobs[j].track])
          /\ \A w \in Threads : thread[w].job # j
      BY <3>1 DEF JobInv
    <3>3. jobs[j].track \in Tracks
      BY <3>2, JobFacts DEF Open
    <3> QED BY <1>4, <3>2, <3>3
  <2> QED BY <2>1, <2>2
<1>9. doomed'["Caller"] \intersect doomed'["Runner"] = {}
  <2>1. doomed["Caller"] \intersect doomed["Runner"] = {}
    BY DEF JobInv
  <2>2. CASE o = "Caller"
    BY <1>1, <1>5, <2>1, <2>2
  <2>3. CASE o = "Runner"
    BY <1>1, <1>5, <2>1, <2>3
  <2> QED BY <2>2, <2>3
<1>10. ASSUME NEW j \in 1 .. Len(jobs), jobs[j].result = "None"
       PROVE  \/ j \in ToSet(queue'[jobs[j].track])
              \/ \E w \in Threads : thread[w].job = j
              \/ j \in doomed'["Caller"] \union doomed'["Runner"]
  <2>1. \/ j \in ToSet(queue[jobs[j].track])
        \/ \E w \in Threads : thread[w].job = j
        \/ j \in doomed["Caller"] \union doomed["Runner"]
    BY <1>10 DEF JobInv
  <2>2. jobs[j].track \in Tracks
    BY JobFacts
  <2>3. doomed["Caller"] \subseteq doomed'["Caller"] /\ doomed["Runner"] \subseteq doomed'["Runner"]
    BY <1>1
  <2>4. CASE j \in ToSet(queue[t])
    BY <1>1, <2>4
  <2>5. CASE jobs[j].track # t
    BY <1>1, <2>1, <2>2, <2>3, <2>5
  <2>6. CASE jobs[j].track = t /\ j \notin ToSet(queue[t])
    BY <2>1, <2>3, <2>6
  <2> QED BY <2>4, <2>5, <2>6
<1>11. /\ \A u \in Tracks : Rising(queue'[u]) /\ \A j \in ToSet(queue'[u]) : Open(jobs', j, u)
       /\ \A w \in Threads : Busy(w)' => /\ Open(jobs', thread'[w].job, thread'[w].track)
                                         /\ \A j \in ToSet(queue'[thread'[w].track]) : thread'[w].job < j
       /\ \A p \in {"Caller", "Runner"} : \A j \in doomed'[p] :
            /\ Open(jobs', j, jobs'[j].track) /\ j \notin ToSet(queue'[jobs'[j].track])
            /\ \A w \in Threads : thread'[w].job # j
  BY <1>3, <1>4, <1>6, <1>7, <1>8 DEF Open
<1> QED BY <1>9, <1>10, <1>11 DEF JobInv
-----------------------------------------------------------------------------

\* A job that is over is nowhere.
LEMMA JobOver ==
  ASSUME TypeInv, TaskInv, JobInv, NEW j \in 1 .. Len(jobs), NEW result \in {"Ran", "Cancelled"},
         CompleteTask(j, result), queue' = queue, \A t \in Tracks : j \notin ToSet(queue[t]),
         \A w \in Threads : /\ Busy(w)' => Busy(w) /\ thread'[w] = thread[w] /\ thread[w].job # j
                            /\ thread'[w].job \in {thread[w].job, 0}
                            /\ thread[w].job = thread'[w].job \/ thread[w].job = j,
         \A o \in {"Caller", "Runner"} : doomed'[o] = doomed[o] \ {j}
  PROVE  JobInv'
<1>1. /\ Len(jobs') = Len(jobs)
      /\ \A i \in 1 .. Len(jobs) : /\ jobs'[i].track = jobs[i].track
                                   /\ jobs'[i].result = "None" <=> jobs[i].result = "None" /\ i # j
      /\ \A i, t : Open(jobs', i, t) <=> Open(jobs, i, t) /\ i # j
  BY Completed
<1>2. \A t \in Tracks : Rising(queue'[t]) /\ \A i \in ToSet(queue'[t]) : Open(jobs', i, t)
  BY <1>1, Places
<1>3. ASSUME NEW w \in Threads, Busy(w)'
      PROVE  /\ Open(jobs', thread'[w].job, thread'[w].track)
             /\ \A i \in ToSet(queue'[thread'[w].track]) : thread'[w].job < i
  BY <1>1, <1>3, Places
<1>4. ASSUME NEW o \in {"Caller", "Runner"}, NEW i \in doomed'[o]
      PROVE  /\ Open(jobs', i, jobs'[i].track) /\ i \notin ToSet(queue'[jobs'[i].track])
             /\ \A w \in Threads : thread'[w].job # i
  <2>1. i \in doomed[o] /\ i # j
    BY <1>4
  <2>2. /\ Open(jobs, i, jobs[i].track) /\ i \notin ToSet(queue[jobs[i].track])
        /\ \A w \in Threads : thread[w].job # i
    BY <2>1 DEF JobInv
  <2>3. i \in 1 .. Len(jobs) /\ i # 0
    BY <2>2, Places DEF Open
  <2>4. \A w \in Threads : thread'[w].job # i
    BY <2>2, <2>3
  <2> QED BY <1>1, <2>1, <2>2, <2>3, <2>4
<1>5. doomed'["Caller"] \intersect doomed'["Runner"] = {}
  BY DEF JobInv
<1>6. ASSUME NEW i \in 1 .. Len(jobs), jobs'[i].result = "None"
      PROVE  \/ i \in ToSet(queue'[jobs'[i].track])
             \/ \E w \in Threads : thread'[w].job = i
             \/ i \in doomed'["Caller"] \union doomed'["Runner"]
  <2>1. jobs[i].result = "None" /\ i # j /\ jobs'[i].track = jobs[i].track
    BY <1>1, <1>6
  <2>2. \/ i \in ToSet(queue[jobs[i].track])
        \/ \E w \in Threads : thread[w].job = i
        \/ i \in doomed["Caller"] \union doomed["Runner"]
    BY <2>1 DEF JobInv
  <2> QED BY <2>1, <2>2
<1> QED BY <1>1, <1>2, <1>3, <1>4, <1>5, <1>6 DEF JobInv

\* A worker takes a job, or is through with one.
LEMMA JobPopped ==
  ASSUME TypeInv, TaskInv, JobInv, NEW w \in Threads, NextJob(w)
  PROVE  JobInv'
<1> SUFFICES ASSUME NEW t, t = thread[w].track PROVE JobInv'
  OBVIOUS
<1>0. /\ t \in Tracks /\ Head(queue[t]) \in ToSet(queue[t])
      /\ ToSet(queue'[t]) = ToSet(queue[t]) \ {Head(queue[t])}
      /\ Rising(queue'[t]) /\ \A j \in ToSet(queue'[t]) : Head(queue[t]) < j
      /\ \A u \in Tracks : u # t => queue'[u] = queue[u]
  <2>1. t \in Tracks
    BY Popped
  <2>2. Head(queue[t]) \in ToSet(queue[t])
    BY Popped
  <2>3. ToSet(queue'[t]) = ToSet(queue[t]) \ {Head(queue[t])}
    BY Popped
  <2>4. Rising(queue'[t])
    BY Popped
  <2>5. \A j \in ToSet(queue'[t]) : Head(queue[t]) < j
    BY Popped
  <2>6. \A u \in Tracks : u # t => queue'[u] = queue[u]
    BY Popped
  <2> QED BY <2>1, <2>2, <2>3, <2>4, <2>5, <2>6
<1> SUFFICES ASSUME NEW h, h = Head(queue[t]) PROVE JobInv'
  OBVIOUS
<1>1. /\ t \in Tracks /\ h \in ToSet(queue[t]) /\ ToSet(queue'[t]) = ToSet(queue[t]) \ {h}
      /\ Rising(queue'[t]) /\ \A j \in ToSet(queue'[t]) : h < j
      /\ \A u \in Tracks : u # t => queue'[u] = queue[u]
  BY <1>0
<1>2. /\ UNCHANGED << jobs, doomed >> /\ thread[w].at = "Draining"
      /\ thread'[w].at = "Solving" /\ thread'[w].track = t /\ thread'[w].job = h
      /\ \A v \in Threads : v # w => thread'[v] = thread[v]
  BY DEF NextJob, TypeInv, ThreadInv
<1>3. Open(jobs, h, t) /\ h \in Nat /\ h # 0 /\ jobs[h].track = t /\ ~Busy(w) /\ thread[w].job = 0
  BY <1>1, <1>2, Places DEF Busy
<1>4. \A u \in Tracks : ToSet(queue'[u]) \subseteq ToSet(queue[u]) /\ Rising(queue'[u])
  <2> SUFFICES ASSUME NEW u \in Tracks PROVE ToSet(queue'[u]) \subseteq ToSet(queue[u]) /\ Rising(queue'[u])
    OBVIOUS
  <2>1. CASE u = t
    BY <1>1, <2>1
  <2>2. CASE u # t
    BY <1>1, <2>2, Places
  <2> QED BY <2>1, <2>2
<1>5. \A u \in Tracks : \A j \in ToSet(queue'[u]) : Open(jobs, j, u)
  BY <1>4, Places
<1>6. ASSUME NEW v \in Threads, Busy(v)'
      PROVE  /\ Open(jobs, thread'[v].job, thread'[v].track)
             /\ \A j \in ToSet(queue'[thread'[v].track]) : thread'[v].job < j
  <2>1. CASE v = w
    BY <1>1, <1>2, <1>3, <2>1
  <2>2. CASE v # w
    <3>1. Busy(v) /\ thread'[v] = thread[v]
      BY <1>2, <1>6, <2>2 DEF Busy
    <3> QED BY <1>4, <3>1, Places
  <2> QED BY <2>1, <2>2
<1>7. ASSUME NEW o \in {"Caller", "Runner"}, NEW j \in doomed[o]
      PROVE  /\ Open(jobs, j, jobs[j].track) /\ j \notin ToSet(queue'[jobs[j].track])
             /\ \A v \in Threads : thread'[v].job # j
  <2>1. /\ Open(jobs, j, jobs[j].track) /\ j \notin ToSet(queue[jobs[j].track])
        /\ \A v \in Threads : thread[v].job # j
    BY DEF JobInv
  <2>2. jobs[j].track \in Tracks
    BY <2>1, JobFacts DEF Open
  <2>3. j # h
    BY <1>1, <1>3, <2>1
  <2> QED BY <1>2, <1>4, <2>1, <2>2, <2>3
<1>8. ASSUME NEW j \in 1 .. Len(jobs), jobs[j].result = "None"
      PROVE  \/ j \in ToSet(queue'[jobs[j].track])
             \/ \E v \in Threads : thread'[v].job = j
             \/ j \in doomed["Caller"] \union doomed["Runner"]
  <2>1. \/ j \in ToSet(queue[jobs[j].track])
        \/ \E v \in Threads : thread[v].job = j
        \/ j \in doomed["Caller"] \union doomed["Runner"]
    BY <1>8 DEF JobInv
  <2>2. jobs[j].track \in Tracks /\ j # 0
    BY JobFacts
  <2>3. CASE j = h
    BY <1>2, <2>3
  <2>4. CASE j \in ToSet(queue[jobs[j].track]) /\ j # h
    BY <1>1, <2>2, <2>4
  <2>5. ASSUME NEW v \in Threads, thread[v].job = j PROVE thread'[v].job = j
    BY <1>2, <1>3, <2>2, <2>5
  <2> QED BY <2>1, <2>3, <2>4, <2>5
<1>9. doomed["Caller"] \intersect doomed["Runner"] = {}
  BY DEF JobInv
<1> QED BY <1>2, <1>4, <1>5, <1>6, <1>7, <1>8, <1>9 DEF JobInv

LEMMA JobDone ==
  ASSUME TypeInv, TaskInv, JobInv, NEW w \in Threads, Complete(w)
  PROVE  JobInv'
<1> SUFFICES ASSUME NEW j, j = thread[w].job PROVE JobInv'
  OBVIOUS
<1>1. /\ thread[w].at = "Solved" /\ Busy(w) /\ UNCHANGED << queue, doomed >> /\ CompleteTask(j, "Ran")
      /\ thread'[w].at = "Draining" /\ thread'[w].job = 0
      /\ \A v \in Threads : v # w => thread'[v] = thread[v]
  BY DEF Complete, Busy, TypeInv, ThreadInv
<1>2. j \in 1 .. Len(jobs) /\ Open(jobs, j, thread[w].track) /\ j \notin ToSet(queue[thread[w].track])
  BY <1>1, Places DEF Open
<1>3. \A t \in Tracks : j \notin ToSet(queue[t])
  <2> SUFFICES ASSUME NEW t \in Tracks, j \in ToSet(queue[t]) PROVE FALSE
    OBVIOUS
  <2>1. Open(jobs, j, t)
    BY Places
  <2>2. jobs[j].track = t /\ jobs[j].track = thread[w].track
    BY <1>2, <2>1, Places
  <2> QED BY <1>2, <2>2
<1>4. \A v \in Threads : /\ Busy(v)' => Busy(v) /\ thread'[v] = thread[v] /\ thread[v].job # j
                         /\ thread'[v].job \in {thread[v].job, 0}
                         /\ thread[v].job = thread'[v].job \/ thread[v].job = j
  <2> SUFFICES ASSUME NEW v \in Threads
               PROVE  /\ Busy(v)' => Busy(v) /\ thread'[v] = thread[v] /\ thread[v].job # j
                      /\ thread'[v].job \in {thread[v].job, 0}
                      /\ thread[v].job = thread'[v].job \/ thread[v].job = j
    OBVIOUS
  <2>1. CASE v = w
    BY <1>1, <2>1 DEF Busy
  <2>2. CASE v # w
    <3>1. Busy(w) /\ thread[w].job = thread[v].job => v = w
      BY Places
    <3> QED BY <1>1, <2>2, <3>1 DEF Busy
  <2> QED BY <2>1, <2>2
<1>5. \A o \in {"Caller", "Runner"} : doomed'[o] = doomed[o] \ {j}
  <2>1. \A o \in {"Caller", "Runner"} : j \notin doomed[o]
    BY DEF JobInv
  <2> QED BY <1>1, <2>1
<1> QED BY <1>1, <1>2, <1>3, <1>4, <1>5, JobOver

\* A job that was taken is cancelled.
LEMMA JobCancelled ==
  ASSUME TypeInv, TaskInv, JobInv, NEW o \in DOMAIN doomed, Cancel(o)
  PROVE  JobInv'
<1>1. PICK j \in doomed[o] : doomed' = [doomed EXCEPT ![o] = @ \ {j}] /\ CompleteTask(j, "Cancelled")
  BY DEF Cancel
<1>2. UNCHANGED << queue, thread >>
  BY DEF Cancel
<1>3. /\ o \in {"Caller", "Runner"} /\ doomed \in [{"Caller", "Runner"} -> SUBSET Nat]
      /\ doomed["Caller"] \intersect doomed["Runner"] = {}
  BY DEF TypeInv, QueueTypes, JobInv
<1>4. /\ Open(jobs, j, jobs[j].track) /\ j \notin ToSet(queue[jobs[j].track])
      /\ \A w \in Threads : thread[w].job # j
  BY <1>1, <1>3 DEF JobInv
<1>5. j \in 1 .. Len(jobs)
  BY <1>4 DEF Open
<1>6. \A t \in Tracks : j \notin ToSet(queue[t])
  BY <1>4, Places
<1>7. \A p \in {"Caller", "Runner"} : doomed'[p] = doomed[p] \ {j}
  BY <1>1, <1>3
<1>8. \A w \in Threads : /\ Busy(w)' => Busy(w) /\ thread'[w] = thread[w] /\ thread[w].job # j
                         /\ thread'[w].job \in {thread[w].job, 0}
                         /\ thread[w].job = thread'[w].job \/ thread[w].job = j
  BY <1>2, <1>4 DEF Busy
<1> QED BY <1>1, <1>2, <1>5, <1>6, <1>7, <1>8, JobOver

\* A job that is not over stays in one place.
LEMMA PlaceStep ==
  ASSUME TypeInv, TaskInv, JobInv, [Next]_vars
  PROVE  JobInv'
<1>1. CASE UNCHANGED << jobs, queue, doomed, thread >>
  BY <1>1, JobFrame DEF Busy
<1>2. CASE Refuse
  <2>1. caller.track \in Tracks
    BY <1>2 DEF Refuse, TypeInv, CallerInv
  <2> QED BY <1>2, <2>1, JobsTaken DEF Refuse
<1>3. ASSUME NEW i \in DOMAIN runner, Lose(i) PROVE JobInv'
  <2>1. runner[i] \in Tracks
    BY <1>3, Removed DEF Lose
  <2> QED BY <1>3, <2>1, JobsTaken DEF Lose
<1>4. ASSUME NEW w \in Threads, Take(w) \/ DrainEnds(w) \/ Solve(w) \/ Exit(w) PROVE JobInv'
  <2>1. UNCHANGED << jobs, queue, doomed >> /\ thread[w].at \in {"Idle", "Draining", "Solving", "Solved", "Exited"}
    BY <1>4, ThreadFacts DEF Take, DrainEnds, Solve, Exit
  <2>2. \A v \in Threads : v # w => thread'[v] = thread[v]
    BY <1>4 DEF Take, DrainEnds, Solve, Exit, TypeInv, ThreadInv
  <2>3. /\ thread'[w].job = thread[w].job
        /\ thread'[w].at \in {"Solving", "Solved"} <=> thread[w].at \in {"Solving", "Solved"}
        /\ thread[w].at \in {"Solving", "Solved"} => thread'[w].track = thread[w].track
    <3>1. CASE Take(w) \/ DrainEnds(w)
      <4>1. thread[w].at \in {"Idle", "Draining"} /\ thread'[w].at \in {"Idle", "Draining"} /\ thread'[w].job = 0
        BY <3>1 DEF Take, DrainEnds, TypeInv, ThreadInv
      <4> QED BY <4>1, ThreadFacts DEF Busy
    <3>2. CASE Solve(w) \/ Exit(w)
      BY <3>2 DEF Solve, Exit, TypeInv, ThreadInv
    <3> QED BY <1>4, <3>1, <3>2
  <2>4. \A v \in Threads : /\ thread'[v].job = thread[v].job /\ (Busy(v)' <=> Busy(v))
                           /\ Busy(v) => thread'[v].track = thread[v].track
    BY <2>2, <2>3 DEF Busy
  <2> QED BY <2>1, <2>4, JobFrame
<1>5. ASSUME NEW w \in Threads, Worker(w) PROVE JobInv'
  BY <1>4, <1>5, JobPopped, JobDone DEF Worker
<1> QED BY <1>1, <1>2, <1>3, <1>5, JobAdded, JobCancelled
        DEF Next, vars, Execute, FinishSchedule, Drop, CallerRuns, HandOver, ReportRefusal, DropPool, Join,
            ResetTrack, Poll, Terminated
-----------------------------------------------------------------------------
(* The counters, and the order of the frames.                              *)

\* The jobs of a call on a track are finitely many.
LEMMA UnfinishedFacts ==
  ASSUME TypeInv, PendingInv, NEW c \in Calls, NEW t \in Tracks
  PROVE  /\ IsFiniteSet(Unfinished(jobs, c, t))
         /\ pending[c][t] = Cardinality(Unfinished(jobs, c, t))
         /\ pending[c][t] = 0 <=> Unfinished(jobs, c, t) = {}
<1>1. Unfinished(jobs, c, t) \subseteq 1 .. Len(jobs) /\ Len(jobs) \in Int
  BY JobFacts DEF Unfinished
<1>2. IsFiniteSet(1 .. Len(jobs))
  BY <1>1, FS_Interval
<1>3. IsFiniteSet(Unfinished(jobs, c, t))
  BY <1>1, <1>2, FS_Subset
<1>4. pending[c][t] = Cardinality(Unfinished(jobs, c, t))
  BY DEF PendingInv
<1> QED BY <1>3, <1>4, FS_EmptySet

LEMMA PendingAdded ==
  ASSUME TypeInv, PendingInv, NEW t \in Tracks, ScheduleJob(t)
  PROVE  PendingInv'
<1> SUFFICES ASSUME NEW c \in Calls, NEW u \in Tracks
             PROVE  pending'[c][u] = Cardinality(Unfinished(jobs', c, u))
  BY DEF PendingInv
<1> SUFFICES ASSUME NEW n, n = Len(jobs) + 1 PROVE pending'[c][u] = Cardinality(Unfinished(jobs', c, u))
  OBVIOUS
<1>1. /\ DOMAIN jobs' = 1 .. n /\ DOMAIN jobs = 1 .. Len(jobs) /\ Len(jobs) \in Nat
      /\ \A j \in 1 .. Len(jobs) : jobs'[j] = jobs[j]
      /\ jobs'[n].call = calls /\ jobs'[n].track = t /\ jobs'[n].result = "None" /\ calls \in Calls
  BY Added, JobFacts
<1>2. pending' = [pending EXCEPT ![calls][t] = @ + 1] /\ pending \in [Calls -> [Tracks -> Nat]]
  BY DEF ScheduleJob, TypeInv, JobTypes
<1>3. pending'[c][u] = IF c = calls /\ u = t THEN pending[c][u] + 1 ELSE pending[c][u]
  BY <1>1, <1>2
<1>4. /\ IsFiniteSet(Unfinished(jobs, c, u)) /\ pending[c][u] = Cardinality(Unfinished(jobs, c, u))
      /\ n \notin Unfinished(jobs, c, u)
  BY <1>1, UnfinishedFacts DEF Unfinished
<1>5. Unfinished(jobs', c, u) = IF c = calls /\ u = t THEN Unfinished(jobs, c, u) \union {n}
                                ELSE Unfinished(jobs, c, u)
  <2>1. \A j : j \in 1 .. n <=> j \in 1 .. Len(jobs) \/ j = n
    BY <1>1
  <2> QED BY <1>1, <2>1 DEF Unfinished
<1> QED BY <1>3, <1>4, <1>5, FS_AddElement

LEMMA PendingOver ==
  ASSUME TypeInv, PendingInv, NEW j, NEW t, Open(jobs, j, t), NEW result \in {"Ran", "Cancelled"},
         CompleteTask(j, result)
  PROVE  PendingInv'
<1> SUFFICES ASSUME NEW c \in Calls, NEW u \in Tracks
             PROVE  pending'[c][u] = Cardinality(Unfinished(jobs', c, u))
  BY DEF PendingInv
<1>1. j \in 1 .. Len(jobs) /\ jobs[j].result = "None"
  BY DEF Open
<1>2. pending'[c][u] = IF c = jobs[j].call /\ u = jobs[j].track /\ pending[c][u] # 0
                       THEN pending[c][u] - 1 ELSE pending[c][u]
  BY <1>1, CompletedPending
<1>3. /\ DOMAIN jobs' = 1 .. Len(jobs) /\ DOMAIN jobs = 1 .. Len(jobs)
      /\ \A i \in 1 .. Len(jobs) : /\ jobs'[i].call = jobs[i].call /\ jobs'[i].track = jobs[i].track
                                   /\ jobs'[i].result = "None" <=> jobs[i].result = "None" /\ i # j
  BY <1>1, Completed, JobFacts
<1>4. /\ IsFiniteSet(Unfinished(jobs, c, u)) /\ pending[c][u] = Cardinality(Unfinished(jobs, c, u))
      /\ pending[c][u] = 0 <=> Unfinished(jobs, c, u) = {}
  BY UnfinishedFacts
<1>5. Unfinished(jobs', c, u) = Unfinished(jobs, c, u) \ {j}
  BY <1>3 DEF Unfinished
<1>6. j \in Unfinished(jobs, c, u) <=> c = jobs[j].call /\ u = jobs[j].track
  BY <1>1, <1>3 DEF Unfinished
<1>7. CASE j \in Unfinished(jobs, c, u)
  <2>1. Cardinality(Unfinished(jobs', c, u)) = pending[c][u] - 1
    BY <1>4, <1>5, <1>7, FS_RemoveElement
  <2> QED BY <1>2, <1>4, <1>6, <1>7, <2>1
<1>8. CASE j \notin Unfinished(jobs, c, u)
  <2>1. Unfinished(jobs', c, u) = Unfinished(jobs, c, u)
    BY <1>5, <1>8
  <2> QED BY <1>2, <1>4, <1>6, <1>8, <2>1
<1> QED BY <1>7, <1>8

LEMMA PendingStep ==
  ASSUME TypeInv, TaskInv, JobInv, PendingInv, [Next]_vars
  PROVE  PendingInv'
<1>1. CASE UNCHANGED << jobs, pending >>
  BY <1>1 DEF PendingInv
<1>2. ASSUME NEW o \in DOMAIN doomed, Cancel(o) PROVE PendingInv'
  <2>1. PICK j \in doomed[o] : CompleteTask(j, "Cancelled")
    BY <1>2 DEF Cancel
  <2>2. Open(jobs, j, jobs[j].track)
    BY <2>1, <1>2 DEF JobInv, TypeInv, QueueTypes
  <2> QED BY <2>1, <2>2, PendingOver
<1>3. ASSUME NEW w \in Threads, Complete(w) PROVE PendingInv'
  <2>1. CompleteTask(thread[w].job, "Ran") /\ Open(jobs, thread[w].job, thread[w].track)
    BY <1>3, Places DEF Complete, Busy
  <2> QED BY <2>1, PendingOver
<1> QED BY <1>1, <1>2, <1>3, PendingAdded
        DEF Next, vars, Execute, FinishSchedule, Drop, CallerRuns, HandOver, Refuse, ReportRefusal, DropPool, Join,
            ResetTrack, Poll, Worker, Take, NextJob, DrainEnds, Solve, Exit, Lose, Terminated

\* A track that reset_track finds free has no job that is not over.
LEMMA FreeTrack ==
  ASSUME TypeInv, PendingInv, NEW t \in Tracks, caller.at = "Idle", TrackFree(t)
  PROVE  \A j : ~Open(jobs, j, t)
<1> SUFFICES ASSUME NEW j, Open(jobs, j, t) PROVE FALSE
  OBVIOUS
<1>1. j \in 1 .. Len(jobs) /\ jobs[j].track = t /\ jobs[j].result = "None"
  BY DEF Open
<1>2. jobs[j].call \in Calls /\ jobs[j].call <= calls /\ DOMAIN jobs = 1 .. Len(jobs)
  BY <1>1, JobFacts DEF TypeInv, JobTypes
<1>3. report = 1 .. calls
  BY DEF TypeInv, CallerInv
<1>4. jobs[j].call \in report
  BY <1>2, <1>3 DEF Calls
<1>5. pending[jobs[j].call][t] = 0
  BY <1>4 DEF TrackFree
<1>6. j \in Unfinished(jobs, jobs[j].call, t)
  BY <1>1, <1>2 DEF Unfinished
<1> QED BY <1>2, <1>5, <1>6, UnfinishedFacts

\* What is queued or about to be solved stays what it was, or goes.
LEMMA OrderFrame ==
  ASSUME OrderInv, UNCHANGED << solver, resetAt >>,
         \A t \in Tracks : ToSet(queue'[t]) \subseteq ToSet(queue[t]),
         \A w \in Threads : thread'[w].at = "Solving" => thread'[w] = thread[w]
  PROVE  OrderInv'
BY DEF OrderInv

\* The frames that the solver of a track has not seen come after those it has.
LEMMA OrderStep ==
  ASSUME TypeInv, TaskInv, JobInv, OrderInv, PendingInv, [Next]_vars
  PROVE  OrderInv'
<1>0. /\ solver \in [Tracks -> Nat] /\ resetAt \in [Tracks -> Nat]
      /\ \A t \in Tracks : solver[t] <= Len(jobs) /\ resetAt[t] <= Len(jobs)
      /\ Len(jobs) \in Nat
  BY JobFacts DEF TypeInv, JobTypes
<1>1. CASE UNCHANGED << queue, thread, solver, resetAt >>
  BY <1>1, OrderFrame
<1>2. ASSUME NEW t \in Tracks, ScheduleJob(t) PROVE OrderInv'
  <2>1. Len(jobs) + 1 \in Nat /\ Enqueue(t, Len(jobs) + 1) /\ UNCHANGED << thread, solver, resetAt >>
    BY <1>0, <1>2 DEF ScheduleJob
  <2>2. /\ ToSet(queue'[t]) = ToSet(queue[t]) \union {Len(jobs) + 1}
        /\ \A u \in Tracks : u # t => queue'[u] = queue[u]
    BY <2>1, Enqueued
  <2>3. \A u \in Tracks : \A j \in ToSet(queue'[u]) : j > solver[u] /\ j > resetAt[u]
    <3> SUFFICES ASSUME NEW u \in Tracks, NEW j \in ToSet(queue'[u]) PROVE j > solver[u] /\ j > resetAt[u]
      OBVIOUS
    <3>1. CASE j = Len(jobs) + 1
      BY <1>0, <3>1
    <3>2. CASE j # Len(jobs) + 1
      BY <2>2, <3>2 DEF OrderInv
    <3> QED BY <3>1, <3>2
  <2> QED BY <2>1, <2>3 DEF OrderInv
<1>3. ASSUME NEW t \in Tracks, NEW o \in {"Caller", "Runner"}, DropGuard(t, o),
             UNCHANGED << thread, solver, resetAt >>
      PROVE  OrderInv'
  <2>1. ToSet(queue'[t]) = {} /\ \A u \in Tracks : u # t => queue'[u] = queue[u]
    BY <1>3, Taken
  <2> QED BY <1>3, <2>1, OrderFrame
<1>4. CASE Refuse
  <2>1. caller.track \in Tracks
    BY <1>4 DEF Refuse, TypeInv, CallerInv
  <2> QED BY <1>3, <1>4, <2>1 DEF Refuse
<1>5. ASSUME NEW i \in DOMAIN runner, Lose(i) PROVE OrderInv'
  <2>1. runner[i] \in Tracks
    BY <1>5, Removed DEF Lose
  <2> QED BY <1>3, <1>5, <2>1 DEF Lose
<1>6. ASSUME NEW w \in Threads, Take(w) \/ DrainEnds(w) \/ Complete(w) \/ Exit(w) PROVE OrderInv'
  <2>1. UNCHANGED << queue, solver, resetAt >>
    BY <1>6 DEF Take, DrainEnds, Complete, Exit
  <2>2. \A v \in Threads : thread'[v].at = "Solving" => thread'[v] = thread[v]
    BY <1>6 DEF Take, DrainEnds, Complete, Exit, TypeInv, ThreadInv
  <2> QED BY <2>1, <2>2, OrderFrame
<1>7. ASSUME NEW w \in Threads, NextJob(w) PROVE OrderInv'
  <2> SUFFICES ASSUME NEW t, t = thread[w].track PROVE OrderInv'
    OBVIOUS
  <2>1. t \in Tracks
    BY <1>7, Popped
  <2>2. Head(queue[t]) \in ToSet(queue[t])
    BY <1>7, Popped
  <2>3. ToSet(queue'[t]) = ToSet(queue[t]) \ {Head(queue[t])}
    BY <1>7, Popped
  <2>4. \A u \in Tracks : u # t => queue'[u] = queue[u]
    BY <1>7, Popped
  <2>5. /\ thread'[w].at = "Solving" /\ thread'[w].track = t /\ thread'[w].job = Head(queue[t])
        /\ \A v \in Threads : v # w => thread'[v] = thread[v]
        /\ UNCHANGED << solver, resetAt >>
    BY <1>7 DEF NextJob, TypeInv, ThreadInv
  <2>6. \A u \in Tracks : ToSet(queue'[u]) \subseteq ToSet(queue[u])
    BY <2>3, <2>4
  <2>7. Head(queue[t]) > solver[t] /\ Head(queue[t]) > resetAt[t]
    BY <2>1, <2>2 DEF OrderInv
  <2> QED BY <2>5, <2>6, <2>7 DEF OrderInv
<1>8. ASSUME NEW w \in Threads, Solve(w) PROVE OrderInv'
  <2> SUFFICES ASSUME NEW t, t = thread[w].track, NEW j, j = thread[w].job PROVE OrderInv'
    OBVIOUS
  <2>1. /\ thread[w].at = "Solving" /\ Busy(w) /\ solver' = [solver EXCEPT ![t] = j] /\ UNCHANGED << queue, resetAt >>
        /\ thread' = [thread EXCEPT ![w].at = "Solved"]
    BY <1>8 DEF Solve, Busy
  <2>2. /\ t \in Tracks /\ \A i \in ToSet(queue[t]) : j < i
        /\ \A v \in Threads : Busy(v) /\ thread[v].track = t => v = w
    BY <2>1, Places
  <2>3. thread'[w].at # "Solving" /\ \A v \in Threads : v # w => thread'[v] = thread[v]
    BY <2>1 DEF TypeInv, ThreadInv
  <2>4. solver'[t] = j /\ \A u \in Tracks : u # t => solver'[u] = solver[u]
    BY <1>0, <2>1, <2>2
  <2>5. \A u \in Tracks : \A i \in ToSet(queue[u]) : i > solver'[u] /\ i > resetAt[u]
    <3> SUFFICES ASSUME NEW u \in Tracks, NEW i \in ToSet(queue[u]) PROVE i > solver'[u] /\ i > resetAt[u]
      OBVIOUS
    <3>1. i > solver[u] /\ i > resetAt[u]
      BY DEF OrderInv
    <3>2. CASE u = t
      BY <2>2, <2>4, <3>1, <3>2
    <3>3. CASE u # t
      BY <2>4, <3>1, <3>3
    <3> QED BY <3>2, <3>3
  <2>6. ASSUME NEW v \in Threads, thread'[v].at = "Solving"
        PROVE  thread'[v].job > solver'[thread'[v].track] /\ thread'[v].job > resetAt[thread'[v].track]
    <3>1. v # w /\ thread'[v] = thread[v] /\ thread[v].at = "Solving" /\ Busy(v)
      BY <2>3, <2>6 DEF Busy
    <3>2. thread[v].track \in Tracks /\ thread[v].track # t
      BY <2>2, <3>1, Places
    <3> QED BY <2>4, <3>1, <3>2 DEF OrderInv
  <2> QED BY <2>1, <2>5, <2>6 DEF OrderInv
<1>9. ASSUME NEW t \in Tracks, ResetTrack(t) PROVE OrderInv'
  <2>1. /\ caller.at = "Idle" /\ TrackFree(t) /\ solver' = [solver EXCEPT ![t] = 0]
        /\ resetAt' = [resetAt EXCEPT ![t] = Len(jobs)] /\ UNCHANGED << queue, thread >>
    BY <1>9 DEF ResetTrack
  <2>2. \A j : ~Open(jobs, j, t)
    BY <2>1, FreeTrack
  <2>3. \A u \in Tracks : u # t => solver'[u] = solver[u] /\ resetAt'[u] = resetAt[u]
    BY <1>0, <2>1
  <2>4. ASSUME NEW u \in Tracks, NEW j \in ToSet(queue[u]) PROVE j > solver'[u] /\ j > resetAt'[u]
    <3>1. u # t
      BY <2>2, Places
    <3> QED BY <2>3, <3>1 DEF OrderInv
  <2>5. ASSUME NEW w \in Threads, thread[w].at = "Solving"
        PROVE  thread[w].job > solver'[thread[w].track] /\ thread[w].job > resetAt'[thread[w].track]
    <3>1. thread[w].track \in Tracks /\ thread[w].track # t
      BY <2>2, <2>5, Places DEF Busy
    <3> QED BY <2>3, <2>5, <3>1 DEF OrderInv
  <2> QED BY <2>1, <2>4, <2>5 DEF OrderInv
<1>10. ASSUME NEW w \in Threads, Worker(w) PROVE OrderInv'
  BY <1>6, <1>7, <1>8, <1>10 DEF Worker
<1> QED BY <1>1, <1>2, <1>4, <1>5, <1>9, <1>10
        DEF Next, vars, Execute, FinishSchedule, Drop, CallerRuns, HandOver, ReportRefusal, DropPool, Join,
            Poll, Cancel, Terminated
-----------------------------------------------------------------------------
(* The invariant.                                                          *)

LEMMA InitInv == Init => Inv
<1> SUFFICES ASSUME Init PROVE Inv
  OBVIOUS
<1>0. /\ Len(jobs) = 0 /\ jobs = << >> /\ DOMAIN jobs = {} /\ runner = << >>
      /\ \A S : << >> \in Seq(S)
      /\ ToSet(<< >>) = {} /\ 1 .. Len(jobs) = {}
  <2>1. \A S : << >> \in Seq(S)
    BY EmptySeq
  <2>2. ToSet(<< >>) = {} /\ Len(<< >>) = 0
    BY <2>1, EmptySeq, InSet
  <2>3. jobs = << >> /\ runner = << >>
    BY DEF Init
  <2>4. DOMAIN << >> = {}
    OBVIOUS
  <2> QED BY <2>1, <2>2, <2>3, <2>4
<1>1. /\ caller = [at |-> "Idle", track |-> NoTrack] /\ calls = 0 /\ report = {} /\ waiting = {}
      /\ queue = [t \in Tracks |-> << >>] /\ scheduled = [t \in Tracks |-> FALSE]
      /\ thread = [w \in Threads |-> [at |-> "Idle", track |-> NoTrack, job |-> 0]]
      /\ doomed = [o \in {"Caller", "Runner"} |-> {}]
      /\ pending = [c \in Calls |-> [t \in Tracks |-> 0]]
      /\ solver = [t \in Tracks |-> 0] /\ resetAt = [t \in Tracks |-> 0]
      /\ NoTrack \notin Tracks /\ MaxCalls \in Nat /\ MaxJobs \in Nat
  BY JobsAssumption DEF Init
<1>2. CallerInv
  BY <1>1 DEF CallerInv
<1>3. JobTypes
  BY <1>0, <1>1 DEF JobTypes
<1>4. QueueTypes
  BY <1>0, <1>1 DEF QueueTypes
<1>5. ThreadInv
  BY <1>1 DEF ThreadInv, Busy
<1>6. Distinct(<< >>) /\ Rising(<< >>)
  BY <1>0 DEF Distinct, Rising
<1>7. TaskInv
  BY <1>0, <1>1, <1>6 DEF TaskInv
<1>8. JobInv
  BY <1>0, <1>1, <1>6 DEF JobInv, Busy
<1>9. OrderInv
  BY <1>0, <1>1 DEF OrderInv
<1>10. PendingInv
  BY <1>0, <1>1, FS_EmptySet DEF PendingInv, Unfinished
<1> QED BY <1>2, <1>3, <1>4, <1>5, <1>7, <1>8, <1>9, <1>10 DEF Inv, TypeInv

LEMMA StepInv == Inv /\ [Next]_vars => Inv'
<1> SUFFICES ASSUME Inv, [Next]_vars PROVE Inv'
  OBVIOUS
<1>1. TypeInv /\ TaskInv /\ JobInv /\ OrderInv /\ PendingInv
  BY DEF Inv
<1>2. CallerInv'
  BY <1>1, CallerStep
<1>3. JobTypes' /\ QueueTypes' /\ ThreadInv'
  BY <1>1, <1>2, JobStep, QueueStep, ThreadStep
<1>4. TaskInv' /\ JobInv' /\ OrderInv' /\ PendingInv'
  BY <1>1, TaskStep, PlaceStep, OrderStep, PendingStep
<1> QED BY <1>2, <1>3, <1>4 DEF Inv, TypeInv

\* Every drain task and every job that is not over is in one place, the frames
\* of a track are queued in order, and the counters count them.
THEOREM InvHolds == Spec => []Inv
BY InitInv, StepInv, PTL DEF Spec

-----------------------------------------------------------------------------
(* What it implies.                                                        *)

\* A sequence of numbers that are in S.
LEMMA SeqWithin ==
  ASSUME NEW S, NEW s \in Seq(Nat), ToSet(s) \subseteq S
  PROVE  s \in Seq(S)
<1>1. Len(s) \in Nat /\ s \in [1 .. Len(s) -> Nat] /\ \A i \in 1 .. Len(s) : s[i] \in S
  BY LenProperties, InSet
<1>2. s \in [1 .. Len(s) -> S]
  BY <1>1
<1> QED BY <1>1, <1>2, SeqDef

\* For any number of tracks, workers, calls and jobs, the counters and the
\* queues hold what the code's types and its bounds allow.
THEOREM TypeCorrect == Spec => []TypeOK
<1>1. Inv => TypeOK
  <2> SUFFICES ASSUME Inv PROVE TypeOK
    OBVIOUS
  <2>1. TypeInv /\ TaskInv /\ JobInv /\ PendingInv
    BY DEF Inv
  <2>2. Len(jobs) \in Nat /\ Len(jobs) <= MaxJobs /\ MaxJobs \in Nat
    BY <2>1, JobFacts, JobsAssumption DEF TypeInv, JobTypes
  <2>3. \A j, t : Open(jobs, j, t) => j \in JobIds
    BY <2>1, <2>2, Places DEF JobIds
  <2>4. queue \in [Tracks -> Seq(JobIds)]
    <3>1. \A t \in Tracks : queue[t] \in Seq(JobIds)
      <4> SUFFICES ASSUME NEW t \in Tracks PROVE queue[t] \in Seq(JobIds)
        OBVIOUS
      <4>1. queue[t] \in Seq(Nat) /\ ToSet(queue[t]) \subseteq JobIds
        BY <2>1, <2>3 DEF TypeInv, QueueTypes, JobInv
      <4> QED BY <4>1, SeqWithin
    <3> QED BY <2>1, <3>1 DEF TypeInv, QueueTypes
  <2>5. thread \in [Threads -> [at : {"Idle", "Draining", "Solving", "Solved", "Exited"},
                                track : Tracks \union {NoTrack}, job : 0 .. MaxJobs]]
    <3>1. \A w \in Threads : thread[w].job \in 0 .. MaxJobs
      <4> SUFFICES ASSUME NEW w \in Threads PROVE thread[w].job \in 0 .. MaxJobs
        OBVIOUS
      <4>1. thread[w].job = 0 \/ thread[w].job \in JobIds
        BY <2>1, <2>3, ThreadFacts, Places
      <4> QED BY <2>2, <4>1 DEF JobIds
    <3> QED BY <2>1, <3>1 DEF TypeInv, ThreadInv
  <2>6. doomed \in [{"Caller", "Runner"} -> SUBSET JobIds]
    <3>1. \A o \in {"Caller", "Runner"} : doomed[o] \subseteq JobIds
      BY <2>1, <2>3 DEF JobInv
    <3> QED BY <2>1, <3>1 DEF TypeInv, QueueTypes
  <2>7. pending \in [Calls -> [Tracks -> 0 .. MaxJobs]]
    <3>1. \A c \in Calls, t \in Tracks : pending[c][t] \in 0 .. MaxJobs
      <4> SUFFICES ASSUME NEW c \in Calls, NEW t \in Tracks PROVE pending[c][t] \in 0 .. MaxJobs
        OBVIOUS
      <4>1. pending[c][t] = Cardinality(Unfinished(jobs, c, t)) /\ pending[c][t] \in Nat
        BY <2>1 DEF PendingInv, TypeInv, JobTypes
      <4>2. Unfinished(jobs, c, t) \in SUBSET (1 .. Len(jobs))
        BY <2>1, JobFacts DEF Unfinished
      <4>3. IsFiniteSet(1 .. Len(jobs)) /\ Cardinality(1 .. Len(jobs)) = Len(jobs)
        <5>1. 1 \in Int /\ Len(jobs) \in Int
          BY <2>2
        <5>2. /\ IsFiniteSet(1 .. Len(jobs))
              /\ Cardinality(1 .. Len(jobs)) = IF 1 > Len(jobs) THEN 0 ELSE Len(jobs) - 1 + 1
          BY <5>1, FS_Interval
        <5> QED BY <2>2, <5>2
      <4>4. Cardinality(Unfinished(jobs, c, t)) <= Len(jobs)
        BY <4>2, <4>3, FS_Subset
      <4> QED BY <2>2, <4>1, <4>4
    <3> QED BY <2>1, <3>1 DEF TypeInv, JobTypes
  <2>8. \A t \in Tracks : solver[t] \in 0 .. MaxJobs /\ resetAt[t] \in 0 .. MaxJobs
    BY <2>1, <2>2 DEF TypeInv, JobTypes
  <2>9. solver \in [Tracks -> 0 .. MaxJobs] /\ resetAt \in [Tracks -> 0 .. MaxJobs]
    BY <2>1, <2>8 DEF TypeInv, JobTypes
  <2> QED BY <2>1, <2>4, <2>5, <2>6, <2>7, <2>9
          DEF TypeOK, TypeInv, CallerInv, JobTypes, QueueTypes, JobRecord
<1> QED BY <1>1, InvHolds, PTL

\* The cardinality of a set of at most one.
LEMMA AtMostOne ==
  ASSUME NEW S, \A x, y \in S : x = y
  PROVE  Cardinality(S) = IF S = {} THEN 0 ELSE 1
<1>1. CASE S = {}
  BY <1>1, FS_EmptySet
<1>2. CASE S # {}
  <2>1. PICK x : S = {x}
    BY <1>2
  <2> QED BY <1>2, <2>1, FS_Singleton
<1> QED BY <1>1, <1>2

\* A track has one drain task while it is scheduled.
LEMMA OneTask ==
  ASSUME TypeInv, TaskInv, NEW t \in Tracks
  PROVE  DrainTasks(t) = IF scheduled[t] THEN 1 ELSE 0
<1> DEFINE R == {i \in DOMAIN runner : runner[i] = t}
           W == {w \in Threads : thread[w].track = t}
           c == IF caller.track = t THEN 1 ELSE 0
<1>1. /\ \A x, y \in R : x = y
      /\ R # {} <=> t \in ToSet(runner)
  <2>1. DOMAIN runner = 1 .. Len(runner) /\ \A x : x \in ToSet(runner) <=> \E i \in 1 .. Len(runner) : runner[i] = x
    BY InSet DEF TypeInv, QueueTypes
  <2>2. Distinct(runner)
    BY DEF TaskInv
  <2> QED BY <2>1, <2>2 DEF Distinct
<1>2. t # NoTrack
  BY JobsAssumption
<1>3. /\ \A x, y \in W : x = y
      /\ W # {} <=> \E w \in Threads : thread[w].track = t
  BY <1>2 DEF TaskInv
<1>4. Cardinality(R) = IF t \in ToSet(runner) THEN 1 ELSE 0
  <2> HIDE DEF R
  <2> QED BY <1>1, AtMostOne
<1>5. Cardinality(W) = IF \E w \in Threads : thread[w].track = t THEN 1 ELSE 0
  <2> HIDE DEF W
  <2> QED BY <1>3, AtMostOne
<1>6. /\ scheduled[t] \in BOOLEAN
      /\ scheduled[t] <=> t \in ToSet(runner) \/ (\E w \in Threads : thread[w].track = t) \/ caller.track = t
      /\ t \in ToSet(runner) => caller.track # t /\ ~\E w \in Threads : thread[w].track = t
      /\ caller.track = t => ~\E w \in Threads : thread[w].track = t
  BY <1>2, QueueFacts DEF TaskInv
<1>7. DrainTasks(t) = Cardinality(R) + Cardinality(W) + c
  BY DEF DrainTasks
<1>8. c = IF caller.track = t THEN 1 ELSE 0
  OBVIOUS
<1> HIDE DEF R, W, c
<1> QED BY <1>4, <1>5, <1>6, <1>7, <1>8

\* A job that is not over is in one place.
LEMMA OnePlace ==
  ASSUME TypeInv, TaskInv, JobInv, NEW j \in DOMAIN jobs
  PROVE  Holders(j) = IF jobs[j].result = "None" THEN 1 ELSE 0
<1> DEFINE Q == {t \in Tracks : j \in ToSet(queue[t])}
           W == {w \in Threads : thread[w].job = j}
           D == {o \in DOMAIN doomed : j \in doomed[o]}
<1> SUFFICES ASSUME NEW u, u = jobs[j].track PROVE Holders(j) = IF jobs[j].result = "None" THEN 1 ELSE 0
  OBVIOUS
<1>1. j \in 1 .. Len(jobs) /\ j # 0 /\ u \in Tracks /\ DOMAIN doomed = {"Caller", "Runner"}
  BY JobFacts DEF TypeInv, QueueTypes
<1>2. \A t \in Q : t = u /\ Open(jobs, j, u)
  BY Places
<1>3. \A w \in W : Busy(w) /\ Open(jobs, j, u) /\ thread[w].track = u /\ j \notin ToSet(queue[u])
  <2> SUFFICES ASSUME NEW w \in Threads, thread[w].job = j
               PROVE  Busy(w) /\ Open(jobs, j, u) /\ thread[w].track = u /\ j \notin ToSet(queue[u])
    OBVIOUS
  <2>1. Busy(w) /\ Open(jobs, j, thread[w].track) /\ j \notin ToSet(queue[thread[w].track])
    BY <1>1, Places
  <2>2. thread[w].track = u
    BY <2>1, Places
  <2> QED BY <2>1, <2>2
<1>4. \A o \in D : Open(jobs, j, u) /\ j \notin ToSet(queue[u]) /\ W = {}
  BY <1>1 DEF JobInv
<1>5. \A x, y \in Q : x = y
  BY <1>2
<1>6. \A v, w \in W : v = w
  BY <1>3, Places
<1>7. \A o, p \in D : o = p
  BY <1>1 DEF JobInv
<1>8. jobs[j].result = "None" => Q # {} \/ W # {} \/ D # {}
  BY <1>1 DEF JobInv
<1>9. Open(jobs, j, u) => jobs[j].result = "None"
  BY DEF Open
<1>10. Q # {} => j \in ToSet(queue[u])
  BY <1>2
<1>11. Holders(j) = Cardinality(Q) + Cardinality(W) + Cardinality(D)
  BY DEF Holders
<1> HIDE DEF Q, W, D
<1>12. /\ Cardinality(Q) = IF Q = {} THEN 0 ELSE 1
       /\ Cardinality(W) = IF W = {} THEN 0 ELSE 1
       /\ Cardinality(D) = IF D = {} THEN 0 ELSE 1
  BY <1>5, <1>6, <1>7, AtMostOne
<1>13. CASE jobs[j].result = "None"
  <2>1. (Q = {} \/ W = {}) /\ (Q = {} \/ D = {}) /\ (W = {} \/ D = {})
    BY <1>3, <1>4, <1>10
  <2> QED BY <1>8, <1>11, <1>12, <1>13, <2>1
<1>14. CASE jobs[j].result # "None"
  <2>1. Q = {} /\ W = {} /\ D = {}
    BY <1>2, <1>3, <1>4, <1>9, <1>14
  <2> QED BY <1>11, <1>12, <1>14, <2>1
<1> QED BY <1>13, <1>14

\* For any number of tracks, workers, calls and jobs, and whatever the runner
\* does: a track has exactly one drain task while it is scheduled, a job that is
\* not over is in exactly one place, and the counters count those jobs
\* (SerialJobQueue and ExecutionCompletion).
THEOREM JobsAreKept == Spec => []NoJobStranded
<1>1. Inv => NoJobStranded
  <2> SUFFICES ASSUME Inv PROVE NoJobStranded
    OBVIOUS
  <2>1. TypeInv /\ TaskInv /\ JobInv /\ PendingInv
    BY DEF Inv
  <2>2. \A t \in Tracks : DrainTasks(t) = IF scheduled[t] THEN 1 ELSE 0
    BY <2>1, OneTask
  <2>3. \A t \in Tracks : queue[t] # << >> => scheduled[t]
    BY <2>1 DEF TaskInv
  <2>4. \A j \in DOMAIN jobs : Holders(j) = IF jobs[j].result = "None" THEN 1 ELSE 0
    BY <2>1, OnePlace
  <2>5. \A c \in Calls, t \in Tracks :
          pending[c][t] = Cardinality({j \in DOMAIN jobs : /\ jobs[j].call = c
                                                           /\ jobs[j].track = t
                                                           /\ jobs[j].result = "None"})
    BY <2>1 DEF PendingInv, Unfinished
  <2> QED BY <2>2, <2>3, <2>4, <2>5 DEF NoJobStranded
<1> QED BY <1>1, InvHolds, PTL

\* For any number of tracks, workers, calls and jobs, and under an unordered
\* runner too: one worker at a time is at the solver of a track, which sees the
\* frames in the order they were emitted and none from before its last reset.
THEOREM FramesInOrder == Spec => SolvesInOrder
<1> DEFINE A == /\ \A v, w \in Threads : thread'[v].job # 0 /\ thread'[v].track = thread'[w].track => v = w
                /\ \A t \in Tracks : solver'[t] \notin {0, solver[t]} => /\ solver'[t] > solver[t]
                                                                         /\ solver'[t] > resetAt[t]
<1>1. Inv /\ Inv' /\ [Next]_vars => [A]_vars
  <2> SUFFICES ASSUME Inv, Inv', [Next]_vars PROVE A
    OBVIOUS
  <2>1. \A v, w \in Threads : thread'[v].job # 0 /\ thread'[v].track = thread'[w].track => v = w
    BY DEF Inv, TypeInv, ThreadInv, TaskInv, Busy
  <2>2. TypeInv /\ TaskInv /\ JobInv /\ OrderInv /\ solver \in [Tracks -> Nat]
    BY DEF Inv, TypeInv, JobTypes
  <2>3. CASE UNCHANGED solver
    BY <2>1, <2>3
  <2>4. ASSUME NEW w \in Threads, Solve(w) PROVE A
    <3>1. thread[w].at = "Solving" /\ solver' = [solver EXCEPT ![thread[w].track] = thread[w].job]
      BY <2>4 DEF Solve
    <3>2. /\ thread[w].track \in Tracks /\ thread[w].job > solver[thread[w].track]
          /\ thread[w].job > resetAt[thread[w].track]
      BY <2>2, <3>1, ThreadFacts DEF OrderInv
    <3> QED BY <2>1, <2>2, <3>1, <3>2
  <2>5. ASSUME NEW t \in Tracks, ResetTrack(t) PROVE A
    <3>1. solver' = [solver EXCEPT ![t] = 0]
      BY <2>5 DEF ResetTrack
    <3> QED BY <2>1, <2>2, <3>1
  <2> HIDE DEF A
  <2> QED BY <2>3, <2>4, <2>5
          DEF Next, vars, Execute, FinishSchedule, Drop, CallerRuns, HandOver, Refuse, ReportRefusal, DropPool,
              Join, ScheduleJob, Poll, Worker, Take, NextJob, DrainEnds, Complete, Exit, Lose, Cancel, Terminated
<1> QED BY <1>1, InvHolds, PTL DEF Spec, SolvesInOrder
=============================================================================
