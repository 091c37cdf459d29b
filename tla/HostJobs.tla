------------------------------ MODULE HostJobs ------------------------------
(***************************************************************************)
(* Host blendshape jobs: HostBlendshapeSolveExecutor of audio2face.rs over *)
(* the serial queues and the thread pool of audio2face/job_runner.rs, with *)
(* the completion state of audio2x.rs that its executions observe.         *)
(*                                                                         *)
(* A call of execute registers a job for every frame that the geometry     *)
(* emits and pushes it to the queue of its track.  The queue hands one     *)
(* drain task to the runner, whichever job came first, and the drain task  *)
(* runs the jobs of its track one after the other; so the temporal solver  *)
(* of a track sees its frames in order even under an unordered runner.     *)
(* A runner may refuse a drain task, or drop one it had accepted: the      *)
(* guard in the task then takes the jobs of its track and cancels them.    *)
(*                                                                         *)
(* The condition variables are enabledness: both are notified under the    *)
(* mutex that their waiters re-check.  Data, logging and poisoned mutexes  *)
(* are left out.                                                           *)
(***************************************************************************)
EXTENDS Integers, Sequences, FiniteSets, FiniteSetsExt, SequencesExt

CONSTANTS
  Tracks,   \* the tracks of the executor
  Threads,  \* the workers of the runner
  MaxCalls, \* bound: calls of execute
  MaxJobs,  \* bound: frames emitted by all of them
  Watched,  \* bound: what users wait for, of Tracks and All
  NoTrack,  \* none of them
  All,      \* what a poll of the whole execution waits for
  Faults    \* what the runner does: "Refuse" and "Lose" tasks, "Unordered"

ASSUME JobsAssumption ==
  /\ IsFiniteSet(Tracks) /\ IsFiniteSet(Threads)
  /\ NoTrack \notin Tracks /\ All \notin Tracks /\ Watched \subseteq Tracks \union {All}
  /\ MaxCalls \in Nat /\ MaxJobs \in Nat
  /\ Faults \subseteq {"Refuse", "Lose", "Unordered"}

Calls == 1 .. MaxCalls
JobIds == 1 .. MaxJobs

VARIABLES
  caller,    \* the thread of the executor: [at, track]
  jobs,      \* the jobs so far: [call, track, result], result "None" until completed
  queue,     \* SerialQueueState.tasks of each track
  scheduled, \* SerialQueueState.scheduled
  runner,    \* the drain tasks in the queue of the runner, as tracks
  thread,    \* each worker: [at, track, job]
  doomed,    \* jobs that a dropped drain guard took, by who drops it
  calls,     \* calls of execute begun
  report,    \* calls whose completion has its report
  pending,   \* CompletionState.pending_by_track
  waiting,   \* registered wakers: [call, for], for a track or All
  solver,    \* the last job each track's solver saw since its reset, or 0
  resetAt    \* how many jobs there were at that reset

vars == << caller, jobs, queue, scheduled, runner, thread, doomed, calls, report,
           pending, waiting, solver, resetAt >>

Init ==
  /\ caller = [at |-> "Idle", track |-> NoTrack]
  /\ jobs = << >> /\ calls = 0
  /\ queue = [t \in Tracks |-> << >>] /\ scheduled = [t \in Tracks |-> FALSE]
  /\ runner = << >>
  /\ thread = [w \in Threads |-> [at |-> "Idle", track |-> NoTrack, job |-> 0]]
  /\ doomed = [o \in {"Caller", "Runner"} |-> {}]
  /\ report = {} /\ waiting = {}
  /\ pending = [c \in Calls |-> [t \in Tracks |-> 0]]
  /\ solver = [t \in Tracks |-> 0] /\ resetAt = [t \in Tracks |-> 0]

-----------------------------------------------------------------------------
(* ExecutionCompletion. *)

\* all_ready and track_ready.
Ready(c, for, reports, counts) ==
  /\ c \in reports
  /\ \A t \in (IF for = All THEN Tracks ELSE {for}) : counts[c][t] = 0

FaultyUnwoken(reports, counts) == {w \in waiting : w.for # All \/ ~Ready(w.call, w.for, reports, counts)}

\* ready_wakers_locked and wake_all: the wakers that stay registered.
Unwoken(reports, counts) == {w \in waiting : ~Ready(w.call, w.for, reports, counts)}

\* complete_task: job j is over.
CompleteTask(j, result) ==
  LET c == jobs[j].call
      counts == [pending EXCEPT ![c][jobs[j].track] = IF @ = 0 THEN 0 ELSE @ - 1]
  IN /\ jobs' = [jobs EXCEPT ![j].result = result]
     /\ pending' = counts
     /\ waiting' = Unwoken(report, counts)

\* Execution::poll and TrackCompletionFuture::poll: ready, or a waker is
\* registered.  The user has the execution once execute has returned it; a user
\* that drops it, and only changes what is logged, polls no more.
Poll(c, for) ==
  /\ c \in report
  /\ ~Ready(c, for, report, pending)
  /\ waiting' = waiting \union {[call |-> c, for |-> for]}
  /\ UNCHANGED << caller, jobs, queue, scheduled, runner, thread, doomed, calls, report,
                  pending, solver, resetAt >>

-----------------------------------------------------------------------------
(* The executor. *)

\* execute begins; the geometry is executed and emits frames.
Execute ==
  /\ caller.at = "Idle" /\ calls < MaxCalls
  /\ calls' = calls + 1
  /\ caller' = [caller EXCEPT !.at = "Emitting"]
  /\ UNCHANGED << jobs, queue, scheduled, runner, thread, doomed, report, pending, waiting, solver, resetAt >>

\* SerialJobQueue::enqueue up to its unlock: who finds the queue unscheduled
\* schedules it, and still has to hand its drain task to the runner.
Enqueue(t, j) ==
  /\ queue' = [queue EXCEPT ![t] = Append(@, j)]
  /\ scheduled' = [scheduled EXCEPT ![t] = TRUE]
  /\ caller' = IF scheduled[t] THEN caller ELSE [at |-> "Handing", track |-> t]

\* A frame of track t is emitted: add_task, then the job is enqueued.
ScheduleJob(t) ==
  /\ caller.at = "Emitting" /\ Len(jobs) < MaxJobs
  /\ jobs' = Append(jobs, [call |-> calls, track |-> t, result |-> "None"])
  /\ pending' = [pending EXCEPT ![calls][t] = @ + 1]
  /\ Enqueue(t, Len(jobs) + 1)
  /\ UNCHANGED << runner, thread, doomed, calls, report, waiting, solver, resetAt >>

\* ThreadPoolJobRunner::enqueue accepts the drain task.
HandOver ==
  /\ caller.at = "Handing"
  /\ runner' = Append(runner, caller.track)
  /\ caller' = [at |-> "Emitting", track |-> NoTrack]
  /\ UNCHANGED << jobs, queue, scheduled, thread, doomed, calls, report, pending, waiting, solver, resetAt >>

\* The tasks are left in the queue.
FaultyDropGuard(t, o) ==
  /\ scheduled' = [scheduled EXCEPT ![t] = FALSE]
  /\ UNCHANGED << queue, doomed >>

\* SerialDrainGuard::drop for track t in the hands of o, up to its unlock.
DropGuard(t, o) ==
  /\ scheduled' = [scheduled EXCEPT ![t] = FALSE]
  /\ queue' = [queue EXCEPT ![t] = << >>]
  /\ doomed' = [doomed EXCEPT ![o] = @ \union ToSet(queue[t])]

\* A runner that refuses the drain task drops it on the caller's thread.
Refuse ==
  /\ "Refuse" \in Faults
  /\ caller.at = "Handing"
  /\ DropGuard(caller.track, "Caller")
  /\ caller' = [at |-> "Refused", track |-> NoTrack]
  /\ UNCHANGED << jobs, runner, thread, calls, report, pending, waiting, solver, resetAt >>

\* A runner that accepted drain task i drops it.
Lose(i) ==
  /\ "Lose" \in Faults
  /\ DropGuard(runner[i], "Runner")
  /\ runner' = RemoveAt(runner, i)
  /\ UNCHANGED << caller, jobs, thread, calls, report, pending, waiting, solver, resetAt >>

\* JobRunnerTask::drop of a job that was taken, outside the lock of the queue.
Cancel(o) ==
  /\ \E j \in doomed[o] :
       /\ doomed' = [doomed EXCEPT ![o] = @ \ {j}]
       /\ CompleteTask(j, "Cancelled")
  /\ UNCHANGED << caller, queue, scheduled, runner, thread, calls, report, solver, resetAt >>

\* enqueue has returned the error, the callback gets it, and execute goes on.
ReportRefusal ==
  /\ caller.at = "Refused" /\ doomed["Caller"] = {}
  /\ caller' = [caller EXCEPT !.at = "Emitting"]
  /\ UNCHANGED << jobs, queue, scheduled, runner, thread, doomed, calls, report, pending, waiting, solver, resetAt >>

\* A call whose geometry has failed returns without it.
FaultyFinishSchedule ==
  /\ caller.at = "Emitting"
  /\ caller' = [caller EXCEPT !.at = "Idle"]
  /\ UNCHANGED << jobs, queue, scheduled, runner, thread, doomed, calls, report, pending,
                  waiting, solver, resetAt >>

\* execute ends, also when the geometry has failed: finish_schedule, and the
\* completion is kept for reset_track and for the drop.
FinishSchedule ==
  /\ caller.at = "Emitting"
  /\ report' = report \union {calls}
  /\ waiting' = Unwoken(report \union {calls}, pending)
  /\ caller' = [caller EXCEPT !.at = "Idle"]
  /\ UNCHANGED << jobs, queue, scheduled, runner, thread, doomed, calls, pending, solver, resetAt >>

FaultyTrackFree(t) == calls \in report => pending[calls][t] = 0

\* The guard of reset_track: no call has a job of the track.
TrackFree(t) == \A c \in report : pending[c][t] = 0

\* reset_track: the solver of the track forgets its previous frame.
ResetTrack(t) ==
  /\ caller.at = "Idle"
  /\ TrackFree(t)
  /\ solver' = [solver EXCEPT ![t] = 0]
  /\ resetAt' = [resetAt EXCEPT ![t] = Len(jobs)]
  /\ UNCHANGED << caller, jobs, queue, scheduled, runner, thread, doomed, calls, report,
                  pending, waiting >>

\* Drop of the executor waits for every call ...
Drop ==
  /\ caller.at = "Idle"
  /\ caller' = [caller EXCEPT !.at = "Dropping"]
  /\ UNCHANGED << jobs, queue, scheduled, runner, thread, doomed, calls, report, pending, waiting, solver, resetAt >>

\* ... and then drops its pool, which is asked to stop (request_shutdown).
DropPool ==
  /\ caller.at = "Dropping"
  /\ \A c \in report : Ready(c, All, report, pending)
  /\ caller' = [caller EXCEPT !.at = "Joining"]
  /\ UNCHANGED << jobs, queue, scheduled, runner, thread, doomed, calls, report, pending, waiting, solver, resetAt >>

\* Every worker has been joined.
Join ==
  /\ caller.at = "Joining"
  /\ \A w \in Threads : thread[w].at = "Exited"
  /\ caller' = [caller EXCEPT !.at = "Gone"]
  /\ UNCHANGED << jobs, queue, scheduled, runner, thread, doomed, calls, report, pending, waiting, solver, resetAt >>

-----------------------------------------------------------------------------
(* The workers. *)

\* worker_loop takes a drain task.
Take(w) ==
  /\ thread[w].at = "Idle"
  /\ \E i \in (IF "Unordered" \in Faults THEN DOMAIN runner ELSE DOMAIN runner \intersect {1}) :
       /\ thread' = [thread EXCEPT ![w] = [at |-> "Draining", track |-> runner[i], job |-> 0]]
       /\ runner' = RemoveAt(runner, i)
  /\ UNCHANGED << caller, jobs, queue, scheduled, doomed, calls, report, pending, waiting, solver, resetAt >>

\* SerialDrainGuard::run: the next job of the track ...
NextJob(w) ==
  LET t == thread[w].track
  IN /\ thread[w].at = "Draining" /\ queue[t] # << >>
     /\ thread' = [thread EXCEPT ![w].at = "Solving", ![w].job = Head(queue[t])]
     /\ queue' = [queue EXCEPT ![t] = Tail(@)]
     /\ UNCHANGED << caller, jobs, scheduled, runner, doomed, calls, report, pending, waiting, solver, resetAt >>

\* ... or, seen under the same lock, none, and the next job needs a drain task.
DrainEnds(w) ==
  LET t == thread[w].track
  IN /\ thread[w].at = "Draining" /\ queue[t] = << >>
     /\ scheduled' = [scheduled EXCEPT ![t] = FALSE]
     /\ thread' = [thread EXCEPT ![w] = [at |-> "Idle", track |-> NoTrack, job |-> 0]]
     /\ UNCHANGED << caller, jobs, queue, runner, doomed, calls, report, pending, waiting, solver, resetAt >>

\* The job advances the solver of its track.
Solve(w) ==
  /\ thread[w].at = "Solving"
  /\ solver' = [solver EXCEPT ![thread[w].track] = thread[w].job]
  /\ thread' = [thread EXCEPT ![w].at = "Solved"]
  /\ UNCHANGED << caller, jobs, queue, scheduled, runner, doomed, calls, report, pending, waiting, resetAt >>

\* JobRunnerTask::run after the job and its callback; that a job may fail
\* or panic only changes what observers are told.
Complete(w) ==
  /\ thread[w].at = "Solved"
  /\ CompleteTask(thread[w].job, "Ran")
  /\ thread' = [thread EXCEPT ![w].at = "Draining", ![w].job = 0]
  /\ UNCHANGED << caller, queue, scheduled, runner, doomed, calls, report, solver, resetAt >>

\* worker_loop returns once the pool stops and its queue is empty.
Exit(w) ==
  /\ thread[w].at = "Idle"
  /\ caller.at = "Joining" /\ runner = << >>
  /\ thread' = [thread EXCEPT ![w].at = "Exited"]
  /\ UNCHANGED << caller, jobs, queue, scheduled, runner, doomed, calls, report, pending, waiting, solver, resetAt >>

-----------------------------------------------------------------------------
Worker(w) == Take(w) \/ NextJob(w) \/ DrainEnds(w) \/ Solve(w) \/ Complete(w) \/ Exit(w)

CallerRuns == HandOver \/ Refuse \/ ReportRefusal \/ DropPool \/ Join

\* Everything has ended: not a deadlock.
Terminated == caller.at = "Gone" /\ UNCHANGED vars

Next ==
  \/ Execute \/ FinishSchedule \/ Drop \/ CallerRuns
  \/ \E t \in Tracks : ScheduleJob(t) \/ ResetTrack(t)
  \/ \E c \in Calls, for \in Watched : Poll(c, for)
  \/ \E w \in Threads : Worker(w)
  \/ \E i \in DOMAIN runner : Lose(i)
  \/ \E o \in DOMAIN doomed : Cancel(o)
  \/ Terminated

Spec == Init /\ [][Next]_vars

\* Threads run, and a drop that has begun goes on.  Nobody has to execute, to
\* observe, or to drop the executor.
FairSpec ==
  /\ Spec
  /\ WF_vars(CallerRuns)
  /\ \A w \in Threads : WF_vars(Worker(w))
  /\ \A o \in {"Caller", "Runner"} : WF_vars(Cancel(o))

-----------------------------------------------------------------------------
TypeOK ==
  /\ caller \in [at : {"Idle", "Emitting", "Handing", "Refused", "Dropping", "Joining", "Gone"},
                 track : Tracks \union {NoTrack}]
  /\ jobs \in Seq([call : Calls, track : Tracks, result : {"None", "Ran", "Cancelled"}])
  /\ Len(jobs) <= MaxJobs
  /\ queue \in [Tracks -> Seq(JobIds)]
  /\ scheduled \in [Tracks -> BOOLEAN]
  /\ runner \in Seq(Tracks)
  /\ thread \in [Threads -> [at : {"Idle", "Draining", "Solving", "Solved", "Exited"},
                             track : Tracks \union {NoTrack}, job : 0 .. MaxJobs]]
  /\ doomed \in [{"Caller", "Runner"} -> SUBSET JobIds]
  /\ calls \in 0 .. MaxCalls
  /\ report = 1 .. (IF caller.at \in {"Emitting", "Handing", "Refused"} THEN calls - 1 ELSE calls)
  /\ pending \in [Calls -> [Tracks -> 0 .. MaxJobs]]
  /\ waiting \subseteq [call : Calls, for : Watched]
  /\ solver \in [Tracks -> 0 .. MaxJobs]
  /\ resetAt \in [Tracks -> 0 .. MaxJobs]

\* The drain tasks of a track: in the runner, on a worker, or about to be handed over.
DrainTasks(t) ==
  Cardinality({i \in DOMAIN runner : runner[i] = t})
    + Cardinality({w \in Threads : thread[w].track = t})
    + (IF caller.track = t THEN 1 ELSE 0)

\* Where an unfinished job is: in its queue, on a worker, or about to be cancelled.
Holders(j) ==
  Cardinality({t \in Tracks : j \in ToSet(queue[t])})
    + Cardinality({w \in Threads : thread[w].job = j})
    + Cardinality({o \in DOMAIN doomed : j \in doomed[o]})

\* No job is stranded or run twice (SerialJobQueue::enqueue against the end and
\* the drop of a drain task): a track has exactly one drain task while it is
\* scheduled and none otherwise, jobs only wait on a scheduled track, an
\* unfinished job is in exactly one place and a finished one in none, and the
\* counters of the completions are the unfinished jobs.
NoJobStranded ==
  /\ \A t \in Tracks :
       /\ DrainTasks(t) = IF scheduled[t] THEN 1 ELSE 0
       /\ queue[t] # << >> => scheduled[t]
  /\ \A j \in DOMAIN jobs : Holders(j) = IF jobs[j].result = "None" THEN 1 ELSE 0
  /\ \A c \in Calls, t \in Tracks :
       pending[c][t] = Cardinality({j \in DOMAIN jobs : /\ jobs[j].call = c
                                                        /\ jobs[j].track = t
                                                        /\ jobs[j].result = "None"})

\* The temporal solver of a track is never used by two workers at once, and
\* sees its frames in the order they were emitted, without one emitted before
\* the solver's last reset (SerialJobQueue and the guard of reset_track).
SolvesInOrder ==
  [][/\ \A v, w \in Threads : thread'[v].job # 0 /\ thread'[v].track = thread'[w].track => v = w
     /\ \A t \in Tracks : solver'[t] \notin {0, solver[t]} => /\ solver'[t] > solver[t]
                                                              /\ solver'[t] > resetAt[t]]_vars

\* Whoever waits for a call is woken, however the runner treats its tasks, and
\* the drop of an executor returns with its pool stopped.
ExecutionsComplete ==
  /\ \A c \in Calls, for \in Watched :
       [call |-> c, for |-> for] \in waiting ~> [call |-> c, for |-> for] \notin waiting
  /\ caller.at = "Dropping" ~> caller.at = "Gone"
=============================================================================
