--------------------------- MODULE Orchestration ---------------------------
(* A multi-task run: POST /orchestrate, the watcher that ends the run, and     *)
(* its cancel endpoint (routes/agent.py), over the tasks of AgentRun.          *)
(*                                                                             *)
(* start_orchestration adds the pipelines of the children and then the watcher *)
(* to the background tasks of one response.  Starlette awaits these one after  *)
(* the other: a child starts when the children before it are done, and the     *)
(* watcher when all of them are.                                               *)
EXTENDS AgentRun

CONSTANT MaxPolls      \* polls of the watcher until its deadline (600 s / 5 s)

ASSUME MaxPollsAssumption == MaxPolls \in Nat

VARIABLE run

(* Fields of run:                                                              *)
(*   status   Orchestration.status                                             *)
(*   watch    where run_orchestration_watcher waits                            *)
(*   polls    polls that changed nothing                                       *)
(*   crashed  history: the worker process died                                 *)

vars == <<task, run>>

Run == [status : {"none", "running", "complete", "failed", "cancelled"},
        watch : {"none", "sleep", "synthesise", "gone"},
        polls : 0..MaxPolls, crashed : BOOLEAN]

TypeOK == task \in [Tasks -> Task] /\ run \in Run

Init ==
  /\ task = [t \in Tasks |-> NewTask]
  /\ run = [status |-> "none", watch |-> "none", polls |-> 0, crashed |-> FALSE]

\* POST /orchestrate
Start ==
  /\ run.status = "none"
  /\ task' = [t \in Tasks |-> Created(task[t])]
  /\ run' = [run EXCEPT !.status = "running", !.watch = "sleep"]

Turn(t) == \A u \in Tasks : u < t => task[u].at = "done"

\* The job of a child, in its turn.
Child(t) == Turn(t) /\ PipelineStep(t) /\ UNCHANGED run

Refinement(t) == RefineStep(t) /\ UNCHANGED run

Owner(t) == (CancelTask(t) \/ Refine(t) \/ Delete(t)) /\ UNCHANGED run

-----------------------------------------------------------------------------
(* The watcher *)

AllDone == \A t \in Tasks : task[t].at = "done"

\* _orchestration_any_task_failed: only blackboards still in active_tasks.
AnyFailed == \E t \in Tasks : task[t].live /\ task[t].status = "failed"

\* _orchestration_any_task_cancelled: the registry, then the blackboards.
AnyCancelled ==
  \E t \in Tasks : task[t].noted \/ (task[t].live /\ task[t].status = "cancelled")

\* Faulty variants: a blank answer counts as one; the synthesis starts when
\* every child has stopped.
AnyRow == \A t \in Tasks : task[t].row # "none"

AllEnded == \A t \in Tasks : ~task[t].live

AllAnswered == \A t \in Tasks : task[t].row = "answer"

\* Faulty variant: children that wait for their turn are forgotten.
AskedStarted(ts) ==
  [t \in Tasks |-> [ts[t] EXCEPT !.asked = @ \/ (ts[t].live /\ ts[t].at # "queued")]]

\* request_cancel on every child that still has a blackboard.
AllAsked(ts) == [t \in Tasks |-> [ts[t] EXCEPT !.asked = @ \/ ts[t].live]]

\* The five seconds are over, before the deadline.
Awake == run.watch = "sleep" /\ AllDone /\ run.polls < MaxPolls

\* The run is no longer running, or a child failed: the watcher stops.
PollEnded ==
  /\ Awake
  /\ run.status # "running" \/ AnyFailed
  /\ run' = [run EXCEPT !.watch = "gone",
                        !.status = IF @ = "running" THEN "failed" ELSE @]
  /\ UNCHANGED task

\* A child stopped as cancelled: so does the run, with the other children.
PollCancelled ==
  /\ Awake
  /\ run.status = "running" /\ ~AnyFailed /\ AnyCancelled
  /\ run' = [run EXCEPT !.watch = "gone", !.status = "cancelled"]
  /\ task' = AllAsked(task)

\* Every child has an answer: the synthesis is asked for.
PollAnswered ==
  /\ Awake
  /\ run.status = "running" /\ ~AnyFailed /\ ~AnyCancelled /\ AllAnswered
  /\ run' = [run EXCEPT !.watch = "synthesise"]
  /\ UNCHANGED task

\* Nothing to do yet.
PollAgain ==
  /\ Awake
  /\ run.status = "running" /\ ~AnyFailed /\ ~AnyCancelled /\ ~AllAnswered
  /\ run' = [run EXCEPT !.polls = @ + 1]
  /\ UNCHANGED task

\* The synthesis is there, or it failed and is empty: the run is complete,
\* whatever its status has become in the meantime.
Synthesised ==
  /\ run.watch = "synthesise"
  /\ run' = [run EXCEPT !.watch = "gone", !.status = "complete"]
  /\ UNCHANGED task

Deadline ==
  /\ run.watch = "sleep" /\ AllDone /\ run.polls = MaxPolls
  /\ run' = [run EXCEPT !.watch = "gone",
                        !.status = IF @ = "running" THEN "failed" ELSE @]
  /\ UNCHANGED task

Watcher == PollEnded \/ PollCancelled \/ PollAnswered \/ PollAgain
           \/ Synthesised \/ Deadline

-----------------------------------------------------------------------------
(* Cancel, the registry, crashes *)

\* POST /orchestrate/{id}/cancel, again as often as the user likes.
CancelRun ==
  /\ run.status \in {"running", "cancelled"}
  /\ run' = [run EXCEPT !.status = "cancelled"]
  /\ task' = AllAsked(task)

\* note_task_cancelled and is_task_cancelled drop an entry after 15 minutes:
\* that takes the pipeline of a later child, the watcher's first poll comes
\* after five seconds.
Expire(t) ==
  /\ task[t].noted
  /\ \E u \in Tasks : t < u /\ task[u].at # "queued"
  /\ Become(t, [task[t] EXCEPT !.noted = FALSE])
  /\ UNCHANGED run

\* The worker process dies: active_tasks, the registry and every background
\* task are gone, the rows stay.
Lost(r) == [r EXCEPT !.live = FALSE, !.noted = FALSE, !.at = "done", !.re = "done"]

Crash ==
  /\ run.status # "none" /\ ~run.crashed
  /\ task' = [t \in Tasks |-> Lost(task[t])]
  /\ run' = [run EXCEPT !.crashed = TRUE, !.watch = "gone"]

Next ==
  \/ Start \/ Watcher \/ CancelRun \/ Crash
  \/ \E t \in Tasks : Child(t) \/ Refinement(t) \/ Owner(t) \/ Expire(t)

Spec == Init /\ [][Next]_vars

\* The event loop runs every coroutine that is not waiting: model calls end,
\* with an answer or an error, and sleeps are over in time.
Fairness ==
  /\ WF_vars(Watcher)
  /\ \A t \in Tasks : WF_vars(Child(t)) /\ WF_vars(Refinement(t))

FairSpec == Spec /\ Fairness

-----------------------------------------------------------------------------
(* What a run promises *)

\* A cancelled run spends nothing more: every child that still has a
\* blackboard has the cancel request on it, those that wait their turn, too
\* (cancel_orchestration, and the watcher when it finds a cancelled child).
CancelReaches ==
  run.status = "cancelled" =>
    \A t \in Tasks : task[t].live => task[t].asked

\* A complete run was put together from an answer of every child; its owner
\* may have deleted one since (run_orchestration_watcher).
CompleteMeansAnswered ==
  run.status = "complete" =>
    \A t \in Tasks : task[t].row \in {"answer", "deleted"}

\* A run never completes when the cancel of one of its children was answered
\* with "cancelling", also when the registry has forgotten that child.
AbandonedNeverCompletes ==
  run.status = "complete" => \A t \in Tasks : ~task[t].told

\* A cancelled run stays cancelled (cancel_orchestration answers "cancelled",
\* and so does every repetition of it).
CancelSticks == [][run.status = "cancelled" => run'.status = "cancelled"]_vars

\* A run ends, at the latest with the watcher's deadline, and leaves no
\* blackboard in active_tasks, which would grow without bound otherwise; only
\* the death of the process keeps it running (run_orchestration_watcher, the
\* finally of run_agent_pipeline_background).
RunEnds ==
  run.status = "running" ~>
    \/ run.status # "running" /\ \A t \in Tasks : ~task[t].live
    \/ run.crashed
=============================================================================
