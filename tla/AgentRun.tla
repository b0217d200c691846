------------------------------ MODULE AgentRun ------------------------------
(* An Agent Mode task: its blackboard in active_tasks, the pipeline that       *)
(* writes it, the cancel, refine and delete requests of its owner, and the     *)
(* row the finished task leaves in the research memory (routes/agent.py,       *)
(* core/agent_pipeline.py, core/blackboard.py).                                *)
(*                                                                             *)
(* One worker process runs everything on one asyncio event loop, so a step is  *)
(* what a coroutine does from one await to the next.  A stage of a pipeline is *)
(* one awaited model call; the step that ends it also starts the next one.     *)
EXTENDS Naturals

CONSTANTS
  Tasks,        \* the tasks of the user
  MaxIter       \* Blackboard.max_iterations: revisions the judge may ask for

ASSUME TasksAssumption == Tasks \subseteq Nat
ASSUME MaxIterAssumption == MaxIter \in Nat

VARIABLE task

(* Fields of task[t]:                                                          *)
(*   live     the blackboard is in active_tasks                                *)
(*   status   bb.status; both writers keep the object after it is dropped      *)
(*   asked    bb.cancel_requested                                              *)
(*   iter     bb.iterations                                                    *)
(*   noted    the task is in the _cancelled_tasks registry                     *)
(*   at       where the pipeline of the task waits                             *)
(*   re       where its refinement waits                                       *)
(*   told     history: the cancel endpoint answered "cancelling"               *)
(*   row      the AgentTask row in the research memory                         *)

\* The stages of run_agent_pipeline_on_blackboard and what follows each one.
\* The judge decides what follows it; a revision runs solver and synthesizer again.
After == [planner       |-> {"researcher"},
          researcher    |-> {"integrity", "steelman"},
          integrity     |-> {"steelman"},
          steelman      |-> {"solver"},
          solver        |-> {"critic"},
          critic        |-> {"verifier"},
          verifier      |-> {"synthesizer"},
          synthesizer   |-> {"judge"},
          resolver      |-> {"resynthesizer"},
          resynthesizer |-> {"rejudge"}]
Judges == {"judge", "rejudge"}
Stages == DOMAIN After \cup Judges \cup {"post", "insights"}
Places == Stages \cup {"none", "queued", "save", "blank", "saved", "done"}

\* The stages of run_refinement_pipeline: classify_refinement chooses which ones
\* are run, always in this order and always with synthesizer and judge.
RefineAfter ==
  [classify    |-> {"planner", "researcher", "critic", "solver", "verifier", "synthesizer"},
   planner     |-> {"researcher", "critic", "solver", "verifier", "synthesizer"},
   researcher  |-> {"steelman"},
   steelman    |-> {"critic", "solver", "verifier", "synthesizer"},
   critic      |-> {"solver", "verifier", "synthesizer"},
   solver      |-> {"verifier", "synthesizer"},
   verifier    |-> {"synthesizer"},
   synthesizer |-> {"judge"}]
RefineStages == DOMAIN RefineAfter \cup {"judge"}
RefinePlaces == RefineStages \cup {"none", "queued", "done"}

Statuses == {"none", "running", "needs_revision", "complete", "failed", "cancelled"}
Terminal == {"complete", "failed", "cancelled"}

Task == [live : BOOLEAN, status : Statuses, asked : BOOLEAN, iter : 0..MaxIter,
         noted : BOOLEAN, at : Places, re : RefinePlaces, told : BOOLEAN,
         row : {"none", "answer", "blank", "deleted"}]

NewTask == [live |-> FALSE, status |-> "none", asked |-> FALSE, iter |-> 0,
            noted |-> FALSE, at |-> "none", re |-> "none", told |-> FALSE,
            row |-> "none"]

-----------------------------------------------------------------------------
(* The pipeline *)

\* create_blackboard: the task has a blackboard and a background job.
Created(r) == [r EXCEPT !.live = TRUE, !.status = "running", !.at = "queued"]

\* The finally of run_agent_pipeline_background: the end as cancelled is noted,
\* the blackboard is dropped, and only a complete task goes on to be saved.
Left(r, answer) ==
  [r EXCEPT !.live = FALSE,
            !.noted = @ \/ r.status = "cancelled",
            !.at = IF r.status = "complete" THEN answer ELSE "done"]

\* Faulty variant: a pipeline that was cancelled returns without dropping its blackboard.
CheckedKeeps(r, next) ==
  IF r.asked THEN [r EXCEPT !.status = "cancelled", !.noted = TRUE, !.at = "done"]
  ELSE next

\* _mark_cancelled_if_requested, at the boundary after a stage.
Checked(r, next) ==
  IF r.asked THEN Left([r EXCEPT !.status = "cancelled"], "done") ELSE next

Become(t, r) == task' = [task EXCEPT ![t] = r]

\* The background job starts: run_agent_pipeline_background up to the planner.
Begin(t) ==
  /\ task[t].at = "queued"
  /\ LET r == [task[t] EXCEPT !.status = "running"]
     IN  Become(t, Checked(r, [r EXCEPT !.at = "planner"]))

\* Faulty variant: the check after a stage is forgotten.
StageUnchecked(t) ==
  /\ task[t].at \in DOMAIN After
  /\ \E s \in After[task[t].at] : Become(t, [task[t] EXCEPT !.at = s])

\* A stage that the judge does not decide about returns.
Stage(t) ==
  /\ task[t].at \in DOMAIN After
  /\ \E s \in After[task[t].at] :
       Become(t, Checked(task[t], [task[t] EXCEPT !.at = s]))

\* Faulty variant: the judge's iterations are not limited.
ReviseAlways(t) ==
  /\ task[t].at \in Judges
  /\ LET r == [task[t] EXCEPT !.status = "needs_revision", !.iter = @ + 1]
     IN  Become(t, Checked(r, [r EXCEPT !.at = "resolver"]))

\* The judge asks for a revision, as long as there are iterations left.
Revise(t) ==
  /\ task[t].at \in Judges
  /\ task[t].iter < MaxIter
  /\ LET r == [task[t] EXCEPT !.status = "needs_revision", !.iter = @ + 1]
     IN  Become(t, Checked(r, [r EXCEPT !.at = "resolver"]))

\* Faulty variant: the check after the judge is forgotten.
AcceptUnchecked(t) ==
  /\ task[t].at \in Judges
  /\ Become(t, [task[t] EXCEPT !.status = "complete", !.at = "post"])

\* The judge is content.  A task with an answer goes through post-processing,
\* one with a blank answer is finished.
Accept(t) ==
  /\ task[t].at \in Judges
  /\ LET r == [task[t] EXCEPT !.status = "complete"]
     IN  \/ Become(t, Checked(r, [r EXCEPT !.at = "post"]))
         \/ Become(t, Checked(r, Left(r, "blank")))

\* Scores, assumptions and dissent are there, or given up: insights and
\* contradictions are asked for.  No cancel request is looked at any more.
Post(t) ==
  /\ task[t].at = "post"
  /\ Become(t, [task[t] EXCEPT !.at = "insights"])

\* They are there: the pipeline returns.
Insights(t) ==
  /\ task[t].at = "insights"
  /\ Become(t, Left(task[t], "save"))

\* A stage raises: the task failed.
Raise(t) ==
  /\ task[t].at \in DOMAIN After
  /\ Become(t, Left([task[t] EXCEPT !.status = "failed"], "done"))

\* _save_completed_task_to_memory: topics and conclusions are there and the row
\* is committed, or the save failed, which the code takes as not fatal.
Save(t) ==
  /\ task[t].at \in {"save", "blank"}
  /\ \/ Become(t, [task[t] EXCEPT !.at = "saved",
                      !.row = IF task[t].at = "save" THEN "answer" ELSE "blank"])
     \/ Become(t, [task[t] EXCEPT !.at = "done"])

\* The contradictions with earlier tasks are looked for after that.
Contrast(t) ==
  /\ task[t].at = "saved"
  /\ Become(t, [task[t] EXCEPT !.at = "done"])

PipelineStep(t) == Begin(t) \/ Stage(t) \/ Revise(t) \/ Accept(t) \/ Post(t)
                   \/ Insights(t) \/ Raise(t) \/ Save(t) \/ Contrast(t)

-----------------------------------------------------------------------------
(* The requests of the owner *)

\* POST /tasks/{id}/cancel of a task that is not finished.
CancelTask(t) ==
  /\ task[t].live
  /\ task[t].status \notin Terminal
  /\ Become(t, [task[t] EXCEPT !.asked = TRUE, !.told = TRUE])

\* POST /refine: refused while the status is running.  The bound of ten
\* refinements is one here.
Refine(t) ==
  /\ task[t].live
  /\ task[t].status # "running"
  /\ task[t].re = "none"
  /\ Become(t, [task[t] EXCEPT !.status = "running", !.re = "queued"])

\* DELETE /tasks/{id}: the row of a saved task.
Delete(t) ==
  /\ task[t].row \in {"answer", "blank"}
  /\ Become(t, [task[t] EXCEPT !.row = "deleted"])

-----------------------------------------------------------------------------
(* The refinement *)

\* The finally of run_refinement_background: nothing is saved.
RefineLeft(r) ==
  [r EXCEPT !.live = FALSE, !.noted = @ \/ r.status = "cancelled", !.re = "done"]

RefineChecked(r, next) ==
  IF r.asked THEN RefineLeft([r EXCEPT !.status = "cancelled"]) ELSE next

\* The background job starts; the blackboard may be gone by now.
RefineBegin(t) ==
  /\ task[t].re = "queued"
  /\ Become(t, [task[t] EXCEPT !.re = IF task[t].live THEN "classify" ELSE "done"])

\* The request is classified: the status is set to running once more.
RefineClassified(t) ==
  /\ task[t].re = "classify"
  /\ LET r == [task[t] EXCEPT !.status = "running"]
     IN  \E s \in RefineAfter.classify :
           Become(t, RefineChecked(r, [r EXCEPT !.re = s]))

\* The steelman step follows the researcher with no look at the cancel request.
RefineResearched(t) ==
  /\ task[t].re = "researcher"
  /\ Become(t, [task[t] EXCEPT !.re = "steelman"])

RefineStage(t) ==
  /\ task[t].re \in DOMAIN RefineAfter \ {"classify", "researcher"}
  /\ \E s \in RefineAfter[task[t].re] :
       Become(t, RefineChecked(task[t], [task[t] EXCEPT !.re = s]))

\* The judge's verdict only counts as an iteration: a refinement is never
\* revised, it is complete.
RefineJudged(t) ==
  /\ task[t].re = "judge"
  /\ \E i \in {task[t].iter, task[t].iter + 1} :
       /\ i <= MaxIter
       /\ LET r == [task[t] EXCEPT !.iter = i, !.status = "complete"]
          IN  Become(t, RefineChecked(r, RefineLeft(r)))

\* Before the try of run_refinement_pipeline the failure is written through
\* active_tasks, and lost when the blackboard is gone.
RefineRaise(t) ==
  /\ task[t].re \in DOMAIN RefineAfter
  /\ Become(t, RefineLeft([task[t] EXCEPT !.status =
                             IF task[t].re # "classify" \/ task[t].live
                               THEN "failed" ELSE @]))

RefineStep(t) == RefineBegin(t) \/ RefineClassified(t) \/ RefineResearched(t)
                 \/ RefineStage(t) \/ RefineJudged(t) \/ RefineRaise(t)

-----------------------------------------------------------------------------
(* What the handling of one task promises *)

Writing(t) == task[t].at \in Stages
Refining(t) == task[t].re \in RefineStages

\* A blackboard has one writer at a time: a refinement is refused while the
\* pipeline still mutates it (the race guard of refine_agent_answer).
OneWriter == \A t \in Tasks : ~(Writing(t) /\ Refining(t))

\* A cancel that was answered with "cancelling" is kept: the task does not
\* complete and leaves no row, whichever stage it was in and whoever wrote the
\* blackboard (cancel_agent_task, _mark_cancelled_if_requested).
PromiseKept ==
  \A t \in Tasks : task[t].told =>
    task[t].row = "none" /\ task[t].at \notin {"save", "blank"}

\* After a cancel request no further stage of the task is started, and no
\* post-processing.  Model calls that no check precedes still are, although
\* cancel_agent_task says that everything after the running call is skipped: the
\* second half of a post-processing that had begun, the calls that save its
\* result, and in a refinement the classification and the steelman step.
Unchecked == {"insights", "save", "saved"}
RefineUnchecked == {"queued", "classify", "steelman"}

NoStageAfterCancel ==
  [][\A t \in Tasks : task[t].asked =>
       /\ task'[t].at \in {task[t].at, "done"} \cup Unchecked
       /\ task'[t].re \in {task[t].re, "done"} \cup RefineUnchecked]_task
=============================================================================
