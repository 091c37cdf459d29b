----------------------- MODULE InteractiveBlendshape -----------------------
(***************************************************************************)
(* The host interactive blendshape executor of audio2face.rs over the      *)
(* cached weights of animation/interactive_blendshape.rs.                  *)
(*                                                                         *)
(* A call is a future.  Each of its polls may queue a job on the runner;   *)
(* the job computes one frame under the lock of the layer and leaves the   *)
(* weights in the cache.  The call borrows the executor, its jobs do not:  *)
(* a future that is dropped or interrupted leaves its job behind.          *)
(*                                                                         *)
(* Weights are known by the version of the geometry that they came from.   *)
(* The user announces every change of geometry as documented, so a call is *)
(* always given the version that is current.                               *)
(***************************************************************************)
EXTENDS Integers, Sequences

CONSTANTS
  Frames,      \* the number of frames
  Workers,     \* the workers of the runner
  MaxCalls,    \* bound: calls made
  MaxChanges,  \* bound: changes of geometry
  MaxInterrupts \* bound: interrupts requested

FrameIds == 0 .. Frames - 1
None == 0       \* a frame without weights; versions begin with 1

VARIABLES
  geometry,   \* the version of each frame's geometry, kept by the user
  cache,      \* InteractiveBlendshapeLayer.frames: the version of the weights
  future,     \* HostBlendshapeInteractiveFuture: [at, ordered, frame, generation, job]
  generation, \* InteractiveInterruptHandle
  queue,      \* jobs in the runner, by number
  worker,     \* the job of each worker, or 0
  jobs,       \* the jobs so far: [ordered, frame, given, weights]
  calls,      \* calls made
  changes,    \* changes made
  delivered   \* what the last callback saw: [given, weights]

vars == << geometry, cache, future, generation, queue, worker, jobs, calls, changes, delivered >>

NoFuture == [at |-> "None", ordered |-> FALSE, frame |-> 0, generation |-> 0, job |-> 0]

Init ==
  /\ geometry = [f \in FrameIds |-> 1]
  /\ cache = [f \in FrameIds |-> None]
  /\ future = NoFuture
  /\ generation = 0
  /\ queue = << >> /\ worker = [w \in Workers |-> 0] /\ jobs = << >>
  /\ calls = 0 /\ changes = 0
  /\ delivered = [given |-> None, weights |-> None]

\* compute_frame and compute_all_frames make the future.
Compute(ordered, f) ==
  /\ future.at = "None" /\ calls < MaxCalls
  /\ ordered => f = 0
  /\ calls' = calls + 1
  /\ future' = [NoFuture EXCEPT !.at = "Made", !.ordered = ordered, !.frame = f]
  /\ UNCHANGED << geometry, cache, generation, queue, worker, jobs, changes, delivered >>

\* The end of a poll: the job of the next frame is queued (frame f for call c).
QueueJob(c, f) ==
  /\ jobs' = Append(jobs, [ordered |-> c.ordered, frame |-> f, given |-> geometry[f], weights |-> None])
  /\ queue' = Append(queue, Len(jobs) + 1)
  /\ future' = [c EXCEPT !.at = "Waiting", !.frame = f, !.job = Len(jobs) + 1]

\* A poll without a pending job: the first one, which takes the generation.
PollFirst ==
  /\ future.at = "Made"
  /\ QueueJob([future EXCEPT !.generation = generation], future.frame)
  /\ UNCHANGED << geometry, cache, generation, worker, calls, changes, delivered >>

\* A poll after an interrupt finishes the call, whatever its job does.
PollInterrupted ==
  /\ future.at = "Waiting" /\ future.generation # generation
  /\ future' = NoFuture
  /\ UNCHANGED << geometry, cache, generation, queue, worker, jobs, calls, changes, delivered >>

\* A poll that finds the result: the callback has it, and stops the call or
\* lets an ordered pass go on to its next frame.
PollResult(goOn) ==
  LET job == jobs[future.job]
      more == goOn /\ future.ordered /\ future.frame + 1 < Frames
  IN /\ future.at = "Waiting" /\ future.generation = generation
     /\ job.weights # None
     /\ delivered' = [given |-> job.given, weights |-> job.weights]
     /\ IF more THEN QueueJob(future, future.frame + 1)
                ELSE future' = NoFuture /\ UNCHANGED << jobs, queue >>
     /\ UNCHANGED << geometry, cache, generation, worker, calls, changes >>

\* The future is dropped before it has finished.
DropFuture ==
  /\ future.at # "None"
  /\ future' = NoFuture
  /\ UNCHANGED << geometry, cache, generation, queue, worker, jobs, calls, changes, delivered >>

\* InteractiveInterruptHandle::interrupt, from any thread.
Interrupt ==
  /\ generation < MaxInterrupts
  /\ generation' = generation + 1
  /\ UNCHANGED << geometry, cache, future, queue, worker, jobs, calls, changes, delivered >>

\* The geometry of frames fs changes, and the weights that depend on it are
\* invalidated: invalidate_geometry for all, invalidate_geometry_frame for one.
ChangeGeometry(fs) ==
  /\ future.at = "None" /\ changes < MaxChanges
  /\ changes' = changes + 1
  /\ geometry' = [f \in FrameIds |-> IF f \in fs THEN geometry[f] + 1 ELSE geometry[f]]
  /\ cache' = [f \in FrameIds |-> IF f \in fs THEN None ELSE cache[f]]
  /\ UNCHANGED << future, generation, queue, worker, jobs, calls, delivered >>

\* A worker of the runner takes a job ...
Take(w) ==
  /\ worker[w] = 0 /\ queue # << >>
  /\ worker' = [worker EXCEPT ![w] = Head(queue)]
  /\ queue' = Tail(queue)
  /\ UNCHANGED << geometry, cache, future, generation, jobs, calls, changes, delivered >>

\* ... and runs it under the lock of the layer.  An ordered pass clears the
\* cache with its first frame and solves every frame (begin_all_frames,
\* compute_next_frame); random access returns cached weights (compute_frame).
Run(w) ==
  LET job == jobs[worker[w]]
      kept == IF job.ordered /\ job.frame = 0 THEN [f \in FrameIds |-> None] ELSE cache
      weights == IF ~job.ordered /\ kept[job.frame] # None THEN kept[job.frame] ELSE job.given
  IN /\ worker[w] # 0
     /\ cache' = [kept EXCEPT ![job.frame] = weights]
     /\ jobs' = [jobs EXCEPT ![worker[w]].weights = weights]
     /\ worker' = [worker EXCEPT ![w] = 0]
     /\ UNCHANGED << geometry, future, generation, queue, calls, changes, delivered >>

Next ==
  \/ \E ordered \in BOOLEAN, f \in FrameIds : Compute(ordered, f)
  \/ PollFirst \/ PollInterrupted \/ DropFuture \/ Interrupt
  \/ \E goOn \in BOOLEAN : PollResult(goOn)
  \/ \E fs \in {FrameIds} \union {{f} : f \in FrameIds} : ChangeGeometry(fs)
  \/ \E w \in Workers : Take(w) \/ Run(w)

Spec == Init /\ [][Next]_vars

\* Weights are replayed only until their geometry is invalidated: what a
\* callback receives was computed from the geometry that is current, because
\* the cache was emptied "after any geometry-layer change".  The code does not
\* keep this: a job that an earlier call left in the runner refills the cache
\* after the invalidation, with weights of the geometry that call was given.
ReplayIsCurrent == delivered.weights = delivered.given
=============================================================================
