------------------------ MODULE OrchestrationProofs ------------------------
(* Proofs about Orchestration, for any number of children, of revisions and    *)
(* of polls.  The argument looks at one task at a time: every step of a task   *)
(* keeps what TaskOK says of its record, and is one of the changes Moves       *)
(* allows.  The run only adds that what its status claims of the tasks stays   *)
(* true under such changes.                                                    *)
EXTENDS Orchestration, TLAPS

\* What makes PromiseKept inductive: an acknowledged cancel can only come while
\* the blackboard is there, and a task in post-processing that got one is not
\* complete any more, as a refinement has put its status back to running.
TaskOK(r) ==
  /\ r.told => r.asked /\ r.row = "none" /\ r.at \notin {"save", "blank", "saved"}
  /\ r.told /\ r.at \in {"post", "insights"} => r.status # "complete"
  /\ r.at \in {"save", "blank", "saved", "done"} => ~r.live
  /\ r.row # "none" => r.at \in {"saved", "done"}

\* What a step may do to a task whose run has started.
Moves(r, s) ==
  /\ s.live => r.live
  /\ r.asked => s.asked
  /\ r.row \in {"answer", "deleted"} => s.row \in {"answer", "deleted"}
  /\ r.asked => /\ s.at \in {r.at, "done"} \cup Unchecked
                /\ s.re \in {r.re, "done"} \cup RefineUnchecked

\* The status of the run is true of its tasks.
RunOK ==
  /\ run.status = "none" => task = [t \in Tasks |-> NewTask] /\ run.watch = "none"
  /\ run.watch = "synthesise" \/ run.status = "complete" =>
       \A t \in Tasks : task[t].row \in {"answer", "deleted"}
  /\ CancelReaches

IInv == TypeOK /\ (\A t \in Tasks : TaskOK(task[t])) /\ RunOK

\* A step that only changes task t, as TaskOK and Moves allow.
Steps(t) == \E s \in Task : TaskOK(s) /\ Moves(task[t], s) /\ Become(t, s)

-----------------------------------------------------------------------------
(* The steps of one task *)

\* Leaving the pipeline keeps the types and drops the blackboard.
LEMMA LeftOK ==
  ASSUME NEW r \in Task, NEW a \in {"save", "blank", "done"}
  PROVE  /\ Left(r, a) \in Task
         /\ ~Left(r, a).live
         /\ Left(r, a).asked = r.asked /\ Left(r, a).told = r.told
         /\ Left(r, a).row = r.row /\ Left(r, a).re = r.re
         /\ Left(r, a).status = r.status
         /\ Left(r, a).at = IF r.status = "complete" THEN a ELSE "done"
<1> DEFINE n == r.noted \/ r.status = "cancelled"
           p == IF r.status = "complete" THEN a ELSE "done"
<1>1. n \in BOOLEAN /\ p \in Places
  BY DEF Places
<1>2. Left(r, a) = [r EXCEPT !.live = FALSE, !.noted = n, !.at = p]
  BY DEF Left
<1> HIDE DEF n
<1>3. p = IF r.status = "complete" THEN a ELSE "done"
  OBVIOUS
<1> HIDE DEF p
<1>4. QED BY <1>1, <1>2, <1>3 DEF Task

\* A stage boundary: the task goes on, or stops as cancelled.
LEMMA CheckedOK ==
  ASSUME NEW r \in Task, NEW n \in Task
  PROVE  /\ Checked(r, n) \in Task
         /\ ~r.asked => Checked(r, n) = n
         /\ r.asked => /\ ~Checked(r, n).live
                       /\ Checked(r, n).asked
                       /\ Checked(r, n).told = r.told
                       /\ Checked(r, n).row = r.row
                       /\ Checked(r, n).re = r.re
                       /\ Checked(r, n).at = "done"
<1>1. CASE ~r.asked
  BY <1>1 DEF Checked
<1>2. CASE r.asked
  <2> DEFINE c == [r EXCEPT !.status = "cancelled"]
  <2>1. c \in Task /\ c.asked /\ c.told = r.told /\ c.row = r.row /\ c.re = r.re
        /\ c.status = "cancelled"
    BY <1>2 DEF Task, Statuses
  <2>2. Checked(r, n) = Left(c, "done")
    BY <1>2 DEF Checked
  <2> HIDE DEF c
  <2>3. QED BY <1>2, <2>1, <2>2, LeftOK
<1>3. QED BY <1>1, <1>2

\* The same for the end of a refinement.
LEMMA RefineLeftOK ==
  ASSUME NEW r \in Task
  PROVE  /\ RefineLeft(r) \in Task
         /\ ~RefineLeft(r).live
         /\ RefineLeft(r).asked = r.asked /\ RefineLeft(r).told = r.told
         /\ RefineLeft(r).row = r.row /\ RefineLeft(r).at = r.at
         /\ RefineLeft(r).status = r.status /\ RefineLeft(r).re = "done"
BY DEF RefineLeft, Task, RefinePlaces, RefineStages, RefineAfter

LEMMA RefineCheckedOK ==
  ASSUME NEW r \in Task, NEW n \in Task
  PROVE  /\ RefineChecked(r, n) \in Task
         /\ ~r.asked => RefineChecked(r, n) = n
         /\ r.asked => /\ ~RefineChecked(r, n).live
                       /\ RefineChecked(r, n).asked
                       /\ RefineChecked(r, n).told = r.told
                       /\ RefineChecked(r, n).row = r.row
                       /\ RefineChecked(r, n).at = r.at
                       /\ RefineChecked(r, n).status = "cancelled"
                       /\ RefineChecked(r, n).re = "done"
<1>1. CASE ~r.asked
  BY <1>1 DEF RefineChecked
<1>2. CASE r.asked
  <2> DEFINE c == [r EXCEPT !.status = "cancelled"]
  <2>1. c \in Task /\ c.asked /\ c.told = r.told /\ c.row = r.row /\ c.at = r.at
        /\ c.status = "cancelled"
    BY <1>2 DEF Task, Statuses
  <2>2. RefineChecked(r, n) = RefineLeft(c)
    BY <1>2 DEF RefineChecked
  <2> HIDE DEF c
  <2>3. QED BY <1>2, <2>1, <2>2, RefineLeftOK
<1>3. QED BY <1>1, <1>2

\* Every step of the pipeline keeps the record of its task in order.
LEMMA PipelineSteps ==
  ASSUME NEW t \in Tasks, task \in [Tasks -> Task], TaskOK(task[t]), PipelineStep(t)
  PROVE  Steps(t)
<1> DEFINE r == task[t]
<1> USE MaxIterAssumption
<1>0. r \in Task
  OBVIOUS
<1>1. CASE Begin(t)
  <2> DEFINE b == [r EXCEPT !.status = "running"]
             n == [b EXCEPT !.at = "planner"]
  <2>1. b \in Task /\ b.asked = r.asked /\ b.told = r.told /\ b.row = r.row
        /\ b.re = r.re /\ b.live = r.live
    BY <1>0 DEF Task, Statuses
  <2>2. n \in Task /\ n.asked = r.asked /\ n.told = r.told /\ n.row = r.row
        /\ n.re = r.re /\ n.at = "planner" /\ n.live = r.live
    BY <1>0 DEF Task, Statuses, Places, Stages, After
  <2>3. Become(t, Checked(b, n)) /\ r.at = "queued"
    BY <1>1 DEF Begin
  <2> HIDE DEF b, n
  <2>4. QED
    <3>1. TaskOK(Checked(b, n)) /\ Moves(r, Checked(b, n))
      BY <2>1, <2>2, <2>3, CheckedOK DEF TaskOK, Moves
    <3>2. QED BY <3>1, <2>1, <2>2, <2>3, CheckedOK DEF Steps
<1>2. CASE Stage(t)
  <2>1. PICK s \in After[r.at] : Become(t, Checked(r, [r EXCEPT !.at = s]))
    BY <1>2 DEF Stage
  <2> DEFINE n == [r EXCEPT !.at = s]
  <2>2. s \in Stages \ {"post", "insights"}
    BY <1>2, <2>1 DEF Stage, Stages, After, Judges
  <2>3. n \in Task /\ n.asked = r.asked /\ n.told = r.told /\ n.row = r.row
        /\ n.re = r.re /\ n.live = r.live /\ n.at = s
    BY <1>0, <2>2 DEF Task, Places
  <2>4. r.at \in Stages /\ r.at \notin {"post", "insights", "save", "blank", "saved", "done"}
    BY <1>2 DEF Stage, Stages, After
  <2>5. s \notin {"save", "blank", "saved", "done", "post", "insights"}
    BY <2>2 DEF Stages, After, Judges
  <2> HIDE DEF n
  <2>6. TaskOK(Checked(r, n)) /\ Moves(r, Checked(r, n))
    BY <1>0, <2>3, <2>4, <2>5, CheckedOK DEF TaskOK, Moves
  <2>7. Become(t, Checked(r, n))
    BY <2>1 DEF n
  <2>8. QED BY <1>0, <2>3, <2>6, <2>7, CheckedOK DEF Steps
<1>3. CASE Revise(t)
  <2> DEFINE b == [r EXCEPT !.status = "needs_revision", !.iter = @ + 1]
             n == [b EXCEPT !.at = "resolver"]
  <2>0. r.iter + 1 \in 0..MaxIter
    BY <1>0, <1>3 DEF Revise, Task
  <2>1. b \in Task /\ b.asked = r.asked /\ b.told = r.told /\ b.row = r.row
        /\ b.re = r.re /\ b.live = r.live
    BY <1>0, <2>0 DEF Task, Statuses
  <2>2. n \in Task /\ n.asked = r.asked /\ n.told = r.told /\ n.row = r.row
        /\ n.re = r.re /\ n.at = "resolver" /\ n.live = r.live
    BY <1>0, <2>0 DEF Task, Statuses, Places, Stages, After
  <2>3. Become(t, Checked(b, n)) /\ r.at \in Judges
    BY <1>3 DEF Revise
  <2> HIDE DEF b, n
  <2>4. TaskOK(Checked(b, n)) /\ Moves(r, Checked(b, n))
    BY <2>1, <2>2, <2>3, CheckedOK DEF TaskOK, Moves, Judges
  <2>5. QED BY <2>1, <2>2, <2>3, <2>4, CheckedOK DEF Steps
<1>4. CASE Accept(t)
  <2> DEFINE b == [r EXCEPT !.status = "complete"]
             n == [b EXCEPT !.at = "post"]
  <2>1. b \in Task /\ b.asked = r.asked /\ b.told = r.told /\ b.row = r.row
        /\ b.re = r.re /\ b.live = r.live /\ b.status = "complete"
    BY <1>0 DEF Task, Statuses
  <2>2. n \in Task /\ n.asked = r.asked /\ n.told = r.told /\ n.row = r.row
        /\ n.re = r.re /\ n.at = "post" /\ n.live = r.live
    BY <1>0 DEF Task, Statuses, Places, Stages
  <2>3. r.at \in Judges
        /\ (Become(t, Checked(b, n)) \/ Become(t, Checked(b, Left(b, "blank"))))
    BY <1>4 DEF Accept
  <2> HIDE DEF b, n
  <2>4. CASE Become(t, Checked(b, n))
    <3>1. TaskOK(Checked(b, n)) /\ Moves(r, Checked(b, n))
      BY <1>0, <2>1, <2>2, <2>3, CheckedOK DEF TaskOK, Moves, Judges
    <3>2. QED BY <2>1, <2>2, <2>4, <3>1, CheckedOK DEF Steps
  <2>5. CASE Become(t, Checked(b, Left(b, "blank")))
    <3> DEFINE l == Left(b, "blank")
    <3>1. l \in Task /\ ~l.live /\ l.asked = r.asked /\ l.told = r.told
          /\ l.row = r.row /\ l.re = r.re /\ l.at = "blank"
      BY <2>1, LeftOK
    <3> HIDE DEF l
    <3>2. TaskOK(Checked(b, l)) /\ Moves(r, Checked(b, l))
      BY <1>0, <2>1, <2>3, <3>1, CheckedOK DEF TaskOK, Moves, Judges
    <3>3. Become(t, Checked(b, l))
      BY <2>5 DEF l
    <3>4. QED BY <2>1, <3>1, <3>2, <3>3, CheckedOK DEF Steps
  <2>6. QED BY <2>3, <2>4, <2>5
<1>5. CASE Post(t)
  <2> DEFINE n == [r EXCEPT !.at = "insights"]
  <2>1. Become(t, n) /\ r.at = "post"
    BY <1>5 DEF Post
  <2>2. n \in Task /\ n.live = r.live /\ n.asked = r.asked /\ n.told = r.told
        /\ n.row = r.row /\ n.re = r.re /\ n.status = r.status /\ n.at = "insights"
    BY <1>0 DEF Task, Places, Stages
  <2> HIDE DEF n
  <2>3. TaskOK(n) /\ Moves(r, n)
    BY <2>1, <2>2 DEF TaskOK, Moves, Unchecked
  <2>4. QED BY <2>1, <2>2, <2>3 DEF Steps
<1>55. CASE Insights(t)
  <2> DEFINE l == Left(r, "save")
  <2>1. Become(t, l) /\ r.at = "insights"
    BY <1>55 DEF Insights
  <2>2. l \in Task /\ ~l.live /\ l.asked = r.asked /\ l.told = r.told
        /\ l.row = r.row /\ l.re = r.re
        /\ l.at = (IF r.status = "complete" THEN "save" ELSE "done")
    BY <1>0, LeftOK
  <2> HIDE DEF l
  <2>3. TaskOK(l) /\ Moves(r, l)
    BY <2>1, <2>2 DEF TaskOK, Moves, Unchecked
  <2>4. QED BY <2>1, <2>2, <2>3 DEF Steps
<1>6. CASE Raise(t)
  <2> DEFINE b == [r EXCEPT !.status = "failed"]
             l == Left(b, "done")
  <2>1. b \in Task /\ b.asked = r.asked /\ b.told = r.told /\ b.row = r.row
        /\ b.re = r.re
    BY <1>0 DEF Task, Statuses
  <2>2. Become(t, l) /\ r.at \in DOMAIN After
    BY <1>6 DEF Raise
  <2> HIDE DEF b
  <2>3. l \in Task /\ ~l.live /\ l.asked = r.asked /\ l.told = r.told
        /\ l.row = r.row /\ l.re = r.re /\ l.at = "done"
    BY <2>1, LeftOK
  <2> HIDE DEF l
  <2>4. TaskOK(l) /\ Moves(r, l)
    BY <2>2, <2>3 DEF TaskOK, Moves, After
  <2>5. QED BY <2>2, <2>3, <2>4 DEF Steps
<1>7. CASE Save(t)
  <2>1. r.at \in {"save", "blank"} /\ r.row = "none" /\ ~r.told /\ ~r.live
    BY <1>7 DEF Save, TaskOK
  <2> DEFINE w == IF r.at = "save" THEN "answer" ELSE "blank"
             n == [r EXCEPT !.at = "saved", !.row = w]
             d == [r EXCEPT !.at = "done"]
  <2>2. Become(t, n) \/ Become(t, d)
    BY <1>7 DEF Save
  <2>3. n \in Task /\ n.live = r.live /\ n.asked = r.asked /\ n.told = r.told
        /\ n.at = "saved" /\ n.row \in {"answer", "blank"} /\ n.re = r.re
    BY <1>0 DEF Task, Places
  <2>4. d \in Task /\ d.live = r.live /\ d.asked = r.asked /\ d.told = r.told
        /\ d.at = "done" /\ d.row = r.row /\ d.re = r.re
    BY <1>0 DEF Task, Places
  <2> HIDE DEF n, d
  <2>5. TaskOK(n) /\ Moves(r, n) /\ TaskOK(d) /\ Moves(r, d)
    BY <2>1, <2>3, <2>4 DEF TaskOK, Moves, Unchecked
  <2>6. QED BY <2>2, <2>3, <2>4, <2>5 DEF Steps
<1>8. CASE Contrast(t)
  <2> DEFINE d == [r EXCEPT !.at = "done"]
  <2>1. Become(t, d) /\ r.at = "saved"
    BY <1>8 DEF Contrast
  <2>2. d \in Task /\ d.live = r.live /\ d.asked = r.asked /\ d.told = r.told
        /\ d.at = "done" /\ d.row = r.row /\ d.re = r.re
    BY <1>0 DEF Task, Places
  <2> HIDE DEF d
  <2>3. TaskOK(d) /\ Moves(r, d)
    BY <2>1, <2>2 DEF TaskOK, Moves
  <2>4. QED BY <2>1, <2>2, <2>3 DEF Steps
<1>9. QED
  BY <1>1, <1>2, <1>3, <1>4, <1>5, <1>55, <1>6, <1>7, <1>8 DEF PipelineStep

\* The same for a refinement: it never touches what the pipeline waits for.
LEMMA RefineSteps ==
  ASSUME NEW t \in Tasks, task \in [Tasks -> Task], TaskOK(task[t]), RefineStep(t)
  PROVE  Steps(t)
<1> DEFINE r == task[t]
<1> USE MaxIterAssumption
<1>0. r \in Task
  OBVIOUS
<1>1. CASE RefineBegin(t)
  <2> DEFINE p == IF r.live THEN "classify" ELSE "done"
             n == [r EXCEPT !.re = p]
  <2>1. p \in {"classify", "done"} /\ p \in RefinePlaces
    BY DEF RefinePlaces, RefineStages, RefineAfter
  <2>2. Become(t, n)
    BY <1>1 DEF RefineBegin
  <2> HIDE DEF p
  <2>3. n \in Task /\ n.live = r.live /\ n.asked = r.asked /\ n.told = r.told
        /\ n.row = r.row /\ n.at = r.at /\ n.status = r.status /\ n.re = p
    BY <1>0, <2>1 DEF Task
  <2> HIDE DEF n
  <2>4. TaskOK(n) /\ Moves(r, n)
    BY <2>1, <2>3 DEF TaskOK, Moves, RefineUnchecked
  <2>5. QED BY <2>2, <2>3, <2>4 DEF Steps
<1>2. CASE RefineClassified(t)
  <2> DEFINE b == [r EXCEPT !.status = "running"]
  <2>1. PICK s \in RefineAfter.classify :
          Become(t, RefineChecked(b, [b EXCEPT !.re = s]))
    BY <1>2 DEF RefineClassified
  <2> DEFINE n == [b EXCEPT !.re = s]
  <2>2. s \in RefinePlaces
    BY <2>1 DEF RefinePlaces, RefineStages, RefineAfter
  <2>3. b \in Task /\ b.asked = r.asked /\ b.told = r.told /\ b.row = r.row
        /\ b.at = r.at /\ b.live = r.live /\ b.status = "running"
    BY <1>0 DEF Task, Statuses
  <2>4. n \in Task /\ n.asked = r.asked /\ n.told = r.told /\ n.row = r.row
        /\ n.at = r.at /\ n.live = r.live /\ n.status = "running"
    BY <1>0, <2>2 DEF Task, Statuses
  <2>5. Become(t, RefineChecked(b, n))
    BY <2>1
  <2> HIDE DEF b, n
  <2>6. TaskOK(RefineChecked(b, n)) /\ Moves(r, RefineChecked(b, n))
    BY <2>3, <2>4, RefineCheckedOK DEF TaskOK, Moves
  <2>7. QED BY <2>3, <2>4, <2>5, <2>6, RefineCheckedOK DEF Steps
<1>3. CASE RefineResearched(t)
  <2> DEFINE n == [r EXCEPT !.re = "steelman"]
  <2>1. Become(t, n)
    BY <1>3 DEF RefineResearched
  <2>2. n \in Task /\ n.live = r.live /\ n.asked = r.asked /\ n.told = r.told
        /\ n.row = r.row /\ n.at = r.at /\ n.status = r.status /\ n.re = "steelman"
    BY <1>0 DEF Task, RefinePlaces, RefineStages, RefineAfter
  <2> HIDE DEF n
  <2>3. TaskOK(n) /\ Moves(r, n)
    BY <2>2 DEF TaskOK, Moves, RefineUnchecked
  <2>4. QED BY <2>1, <2>2, <2>3 DEF Steps
<1>4. CASE RefineStage(t)
  <2>1. PICK s \in RefineAfter[r.re] :
          Become(t, RefineChecked(r, [r EXCEPT !.re = s]))
    BY <1>4 DEF RefineStage
  <2> DEFINE n == [r EXCEPT !.re = s]
  <2>2. s \in RefinePlaces
    BY <1>4, <2>1 DEF RefineStage, RefinePlaces, RefineStages, RefineAfter
  <2>3. n \in Task /\ n.asked = r.asked /\ n.told = r.told /\ n.row = r.row
        /\ n.at = r.at /\ n.live = r.live /\ n.status = r.status
    BY <1>0, <2>2 DEF Task
  <2>4. Become(t, RefineChecked(r, n))
    BY <2>1
  <2> HIDE DEF n
  <2>5. TaskOK(RefineChecked(r, n)) /\ Moves(r, RefineChecked(r, n))
    BY <1>0, <2>3, RefineCheckedOK DEF TaskOK, Moves
  <2>6. QED BY <1>0, <2>3, <2>4, <2>5, RefineCheckedOK DEF Steps
<1>5. CASE RefineJudged(t)
  <2>1. PICK i \in {r.iter, r.iter + 1} :
          /\ i <= MaxIter
          /\ LET b == [r EXCEPT !.iter = i, !.status = "complete"]
             IN  Become(t, RefineChecked(b, RefineLeft(b)))
    BY <1>5 DEF RefineJudged
  <2> DEFINE b == [r EXCEPT !.iter = i, !.status = "complete"]
             l == RefineLeft(b)
  <2>2. i \in 0..MaxIter
    BY <1>0, <2>1 DEF Task
  <2>3. b \in Task /\ b.asked = r.asked /\ b.told = r.told /\ b.row = r.row
        /\ b.at = r.at
    BY <1>0, <2>2 DEF Task, Statuses
  <2>4. Become(t, RefineChecked(b, l))
    BY <2>1
  <2> HIDE DEF b
  <2>5. l \in Task /\ ~l.live /\ l.asked = r.asked /\ l.told = r.told
        /\ l.row = r.row /\ l.at = r.at /\ l.re = "done"
    BY <2>3, RefineLeftOK
  <2> HIDE DEF l
  <2>6. TaskOK(RefineChecked(b, l)) /\ Moves(r, RefineChecked(b, l))
    BY <2>3, <2>5, RefineCheckedOK DEF TaskOK, Moves
  <2>7. QED BY <2>3, <2>4, <2>5, <2>6, RefineCheckedOK DEF Steps
<1>6. CASE RefineRaise(t)
  <2> DEFINE p == IF r.re # "classify" \/ r.live THEN "failed" ELSE r.status
             b == [r EXCEPT !.status = p]
             l == RefineLeft(b)
  <2>1. p \in Statuses /\ (p = r.status \/ p = "failed")
    BY <1>0 DEF Task, Statuses
  <2>2. Become(t, l)
    BY <1>6 DEF RefineRaise
  <2> HIDE DEF p
  <2>3. b \in Task /\ b.asked = r.asked /\ b.told = r.told /\ b.row = r.row
        /\ b.at = r.at /\ b.status = p
    BY <1>0, <2>1 DEF Task
  <2> HIDE DEF b
  <2>4. l \in Task /\ ~l.live /\ l.asked = r.asked /\ l.told = r.told
        /\ l.row = r.row /\ l.at = r.at /\ l.re = "done" /\ l.status = p
    BY <2>3, RefineLeftOK
  <2> HIDE DEF l
  <2>5. TaskOK(l) /\ Moves(r, l)
    BY <2>1, <2>4 DEF TaskOK, Moves
  <2>6. QED BY <2>2, <2>4, <2>5 DEF Steps
<1>7. QED
  BY <1>1, <1>2, <1>3, <1>4, <1>5, <1>6 DEF RefineStep

\* And for the requests of the owner.
LEMMA OwnerSteps ==
  ASSUME NEW t \in Tasks, task \in [Tasks -> Task], TaskOK(task[t]),
         CancelTask(t) \/ Refine(t) \/ Delete(t)
  PROVE  Steps(t)
<1> DEFINE r == task[t]
<1>0. r \in Task
  OBVIOUS
<1>1. CASE CancelTask(t)
  <2> DEFINE n == [r EXCEPT !.asked = TRUE, !.told = TRUE]
  <2>1. Become(t, n) /\ r.live /\ r.status # "complete"
    BY <1>1 DEF CancelTask, Terminal
  <2>2. n \in Task /\ n.live = r.live /\ n.asked /\ n.told /\ n.row = r.row
        /\ n.at = r.at /\ n.re = r.re /\ n.status = r.status
    BY <1>0 DEF Task
  <2> HIDE DEF n
  <2>3. r.row \in {"none", "answer", "blank", "deleted"}
    BY <1>0 DEF Task
  <2>4. TaskOK(n) /\ Moves(r, n)
    BY <2>1, <2>2, <2>3 DEF TaskOK, Moves
  <2>5. QED BY <2>1, <2>2, <2>4 DEF Steps
<1>2. CASE Refine(t)
  <2> DEFINE n == [r EXCEPT !.status = "running", !.re = "queued"]
  <2>1. Become(t, n) /\ r.live
    BY <1>2 DEF Refine
  <2>2. n \in Task /\ n.live = r.live /\ n.asked = r.asked /\ n.told = r.told
        /\ n.row = r.row /\ n.at = r.at /\ n.re = "queued" /\ n.status = "running"
    BY <1>0 DEF Task, Statuses, RefinePlaces
  <2> HIDE DEF n
  <2>3. TaskOK(n) /\ Moves(r, n)
    BY <2>1, <2>2 DEF TaskOK, Moves, RefineUnchecked
  <2>4. QED BY <2>1, <2>2, <2>3 DEF Steps
<1>3. CASE Delete(t)
  <2> DEFINE n == [r EXCEPT !.row = "deleted"]
  <2>1. Become(t, n) /\ r.row \in {"answer", "blank"}
    BY <1>3 DEF Delete
  <2>2. n \in Task /\ n.live = r.live /\ n.asked = r.asked /\ n.told = r.told
        /\ n.row = "deleted" /\ n.at = r.at /\ n.re = r.re /\ n.status = r.status
    BY <1>0 DEF Task
  <2> HIDE DEF n
  <2>3. TaskOK(n) /\ Moves(r, n)
    BY <2>1, <2>2 DEF TaskOK, Moves
  <2>4. QED BY <2>1, <2>2, <2>3 DEF Steps
<1>4. QED BY <1>1, <1>2, <1>3

-----------------------------------------------------------------------------
(* The steps of the run *)

\* A started task is not a new one: it has no step before its run starts.
LEMMA NewTasksRest ==
  ASSUME NEW t \in Tasks, task = [u \in Tasks |-> NewTask],
         PipelineStep(t) \/ RefineStep(t) \/ CancelTask(t) \/ Refine(t) \/ Delete(t)
         \/ Expire(t)
  PROVE  FALSE
<1>1. task[t] = NewTask
  OBVIOUS
<1>2. QED
  BY <1>1 DEF NewTask, PipelineStep, Begin, Stage, Revise, Accept, Post, Insights,
              Raise, Save, Contrast,
              RefineStep, RefineBegin, RefineClassified, RefineResearched, RefineStage,
              RefineJudged, RefineRaise, CancelTask, Refine, Delete, Expire,
              After, Judges, RefineAfter

\* A step of one task keeps what the run claims.
LEMMA RunKept ==
  ASSUME NEW t \in Tasks, IInv, Steps(t), UNCHANGED run, run.status # "none"
  PROVE  IInv'
<1>1. PICK s \in Task : TaskOK(s) /\ Moves(task[t], s) /\ Become(t, s)
  BY DEF Steps
<1>2. task \in [Tasks -> Task] /\ run \in Run
  BY DEF IInv, TypeOK
<1>3. task' = [task EXCEPT ![t] = s] /\ task' \in [Tasks -> Task]
  BY <1>1, <1>2 DEF Become
<1>4. \A u \in Tasks : task'[u] = IF u = t THEN s ELSE task[u]
  BY <1>2, <1>3
<1>5. \A u \in Tasks : TaskOK(task'[u])
  BY <1>1, <1>4 DEF IInv
<1>6. \A u \in Tasks : task'[u].row \in {"answer", "deleted"} \/
                       task[u].row \notin {"answer", "deleted"}
  BY <1>1, <1>4 DEF Moves
<1>7. \A u \in Tasks : task'[u].live => task[u].live /\ (task[u].asked => task'[u].asked)
  BY <1>1, <1>4 DEF Moves
<1>8. RunOK'
  BY <1>6, <1>7 DEF IInv, RunOK, CancelReaches
<1>9. QED
  BY <1>2, <1>3, <1>5, <1>8 DEF IInv, TypeOK

\* request_cancel on every child changes nothing but the flags.
LEMMA AllAskedOK ==
  ASSUME task \in [Tasks -> Task], \A t \in Tasks : TaskOK(task[t]),
         task' = AllAsked(task)
  PROVE  /\ task' \in [Tasks -> Task]
         /\ \A t \in Tasks : /\ TaskOK(task'[t])
                             /\ task'[t].row = task[t].row
                             /\ task'[t].live => task'[t].asked
                             /\ task'[t].at = task[t].at /\ task'[t].re = task[t].re
<1> SUFFICES ASSUME NEW t \in Tasks
             PROVE  /\ task'[t] \in Task /\ TaskOK(task'[t])
                    /\ task'[t].row = task[t].row
                    /\ task'[t].live => task'[t].asked
                    /\ task'[t].at = task[t].at /\ task'[t].re = task[t].re
  BY DEF AllAsked
<1> DEFINE r == task[t]
           a == r.asked \/ r.live
           n == [r EXCEPT !.asked = a]
<1>1. task'[t] = n /\ r \in Task /\ TaskOK(r)
  BY DEF AllAsked
<1>2. a \in BOOLEAN /\ (a <=> r.asked \/ r.live)
  BY <1>1 DEF Task
<1> HIDE DEF a
<1>3. n \in Task /\ n.row = r.row /\ n.live = r.live /\ n.told = r.told
      /\ n.at = r.at /\ n.status = r.status /\ n.asked = a /\ n.re = r.re
  BY <1>1, <1>2 DEF Task
<1> HIDE DEF n
<1>4. TaskOK(n)
  BY <1>1, <1>2, <1>3 DEF TaskOK
<1>5. QED BY <1>1, <1>2, <1>3, <1>4

LEMMA LostOK ==
  ASSUME NEW r \in Task, TaskOK(r)
  PROVE  Lost(r) \in Task /\ TaskOK(Lost(r)) /\ ~Lost(r).live /\ Lost(r).row = r.row
         /\ Lost(r).at = "done" /\ Lost(r).re = "done"
BY DEF Lost, Task, TaskOK, Places, RefinePlaces

LEMMA NewOK == NewTask \in Task /\ TaskOK(NewTask) /\ Created(NewTask) \in Task
               /\ TaskOK(Created(NewTask))
<1>1. 0 \in 0..MaxIter
  BY MaxIterAssumption
<1>2. /\ "none" \in Places /\ "queued" \in Places /\ "none" \in RefinePlaces
      /\ "none" \in Statuses /\ "running" \in Statuses
  BY DEF Places, RefinePlaces, Statuses
<1>3. NewTask \in Task
  BY <1>1, <1>2 DEF NewTask, Task
<1>4. Created(NewTask) \in Task
  BY <1>2, <1>3 DEF Created, Task
<1>5. TaskOK(NewTask) /\ TaskOK(Created(NewTask))
  BY DEF NewTask, Created, TaskOK
<1>6. QED BY <1>3, <1>4, <1>5

LEMMA Initially == Init => IInv
<1> SUFFICES ASSUME Init PROVE IInv
  OBVIOUS
<1>1. task \in [Tasks -> Task] /\ \A t \in Tasks : TaskOK(task[t])
  BY NewOK DEF Init
<1>2. run \in Run
  BY MaxPollsAssumption DEF Init, Run
<1>3. RunOK
  BY DEF Init, RunOK, CancelReaches
<1>4. QED BY <1>1, <1>2, <1>3 DEF IInv, TypeOK

LEMMA Inductive == IInv /\ [Next]_vars => IInv'
<1> SUFFICES ASSUME IInv, [Next]_vars PROVE IInv'
  OBVIOUS
<1> USE MaxPollsAssumption
<1>0. /\ task \in [Tasks -> Task] /\ run \in Run /\ RunOK
      /\ \A t \in Tasks : TaskOK(task[t])
  BY DEF IInv, TypeOK
<1>1. CASE Start
  <2>1. task = [t \in Tasks |-> NewTask]
    BY <1>0, <1>1 DEF Start, RunOK
  <2>2. \A t \in Tasks : task'[t] = Created(NewTask)
    BY <1>1, <2>1 DEF Start
  <2>3. task' \in [Tasks -> Task] /\ \A t \in Tasks : TaskOK(task'[t])
    BY <1>1, <2>2, NewOK DEF Start
  <2>4. run' \in Run /\ run'.status = "running" /\ run'.watch = "sleep"
    BY <1>0, <1>1 DEF Start, Run
  <2>5. RunOK'
    BY <2>4 DEF RunOK, CancelReaches
  <2>6. QED BY <2>3, <2>4, <2>5 DEF IInv, TypeOK
<1>2. CASE Watcher /\ ~PollCancelled
  <2>1. UNCHANGED task /\ run.watch \in {"sleep", "synthesise"}
    BY <1>2 DEF Watcher, PollEnded, PollAnswered, PollAgain, Synthesised, Deadline, Awake
  <2>2. run.status # "none"
    BY <1>0, <2>1 DEF RunOK
  <2>3. /\ run' \in Run /\ run'.status # "none"
        /\ run'.status = "cancelled" => run.status = "cancelled"
        /\ run'.watch = "synthesise" => AllAnswered
        /\ run'.status = "complete" => run.status = "complete" \/ run.watch = "synthesise"
    <3>1. CASE PollEnded \/ Deadline
      BY <1>0, <2>2, <3>1 DEF PollEnded, Deadline, Run
    <3>2. CASE PollAnswered
      BY <1>0, <2>2, <3>2 DEF PollAnswered, Run
    <3>3. CASE PollAgain
      <4>1. run.polls + 1 \in 0..MaxPolls
        BY <1>0, <3>3 DEF PollAgain, Awake, Run
      <4>2. run.watch = "sleep"
        BY <3>3 DEF PollAgain, Awake
      <4>3. QED BY <1>0, <2>2, <3>3, <4>1, <4>2 DEF PollAgain, Run
    <3>4. CASE Synthesised
      BY <1>0, <2>2, <3>4 DEF Synthesised, Run
    <3>5. QED BY <1>2, <3>1, <3>2, <3>3, <3>4 DEF Watcher
  <2>4. RunOK'
    BY <1>0, <2>1, <2>3 DEF RunOK, CancelReaches, AllAnswered
  <2>5. QED BY <1>0, <2>1, <2>3, <2>4 DEF IInv, TypeOK
<1>3. CASE PollCancelled \/ CancelRun
  <2>1. /\ run' \in Run /\ run'.status = "cancelled"
        /\ run'.watch = "synthesise" => run.watch = "synthesise"
        /\ task' = AllAsked(task)
    BY <1>0, <1>3 DEF PollCancelled, CancelRun, Run
  <2>2. /\ task' \in [Tasks -> Task]
        /\ \A t \in Tasks : /\ TaskOK(task'[t])
                            /\ task'[t].row = task[t].row
                            /\ task'[t].live => task'[t].asked
    BY <1>0, <2>1, AllAskedOK
  <2>3. RunOK'
    BY <1>0, <2>1, <2>2 DEF RunOK, CancelReaches
  <2>4. QED BY <2>1, <2>2, <2>3 DEF IInv, TypeOK
<1>4. CASE Crash
  <2>1. /\ run' \in Run /\ run'.status = run.status /\ run.status # "none"
        /\ run'.watch = "gone"
    BY <1>0, <1>4 DEF Crash, Run
  <2>2. /\ task' \in [Tasks -> Task]
        /\ \A t \in Tasks : /\ TaskOK(task'[t]) /\ ~task'[t].live
                            /\ task'[t].row = task[t].row
    BY <1>0, <1>4, LostOK DEF Crash
  <2>3. RunOK'
    BY <1>0, <2>1, <2>2 DEF RunOK, CancelReaches
  <2>4. QED BY <2>1, <2>2, <2>3 DEF IInv, TypeOK
<1>5. CASE \E t \in Tasks : Child(t) \/ Refinement(t) \/ Owner(t)
  <2>1. PICK t \in Tasks : Child(t) \/ Refinement(t) \/ Owner(t)
    BY <1>5
  <2>2. PipelineStep(t) \/ RefineStep(t) \/ CancelTask(t) \/ Refine(t) \/ Delete(t)
    BY <2>1 DEF Child, Refinement, Owner
  <2>3. run.status # "none" /\ UNCHANGED run
    BY <1>0, <2>1, <2>2, NewTasksRest DEF RunOK, Child, Refinement, Owner
  <2>4. Steps(t)
    BY <1>0, <2>2, PipelineSteps, RefineSteps, OwnerSteps
  <2>5. QED BY <2>3, <2>4, RunKept
<1>6. CASE \E t \in Tasks : Expire(t)
  <2>1. PICK t \in Tasks : Expire(t)
    BY <1>6
  <2>2. run.status # "none" /\ UNCHANGED run
    BY <1>0, <2>1, NewTasksRest DEF RunOK, Expire
  <2> DEFINE r == task[t]
             n == [r EXCEPT !.noted = FALSE]
  <2>3. Become(t, n)
    BY <2>1 DEF Expire
  <2>4. n \in Task /\ n.live = r.live /\ n.asked = r.asked /\ n.told = r.told
        /\ n.row = r.row /\ n.at = r.at /\ n.re = r.re /\ n.status = r.status
    BY <1>0 DEF Task
  <2> HIDE DEF n
  <2>5. TaskOK(n) /\ Moves(r, n)
    BY <1>0, <2>4 DEF TaskOK, Moves
  <2>6. Steps(t)
    BY <2>3, <2>4, <2>5 DEF Steps
  <2>7. QED BY <2>2, <2>6, RunKept
<1>7. CASE UNCHANGED vars
  BY <1>0, <1>7 DEF vars, IInv, TypeOK, RunOK, CancelReaches
<1>8. QED
  BY <1>1, <1>2, <1>3, <1>4, <1>5, <1>6, <1>7 DEF Next, Watcher

-----------------------------------------------------------------------------
(* The theorems *)

LEMMA Always == Spec => []IInv
BY Initially, Inductive, PTL DEF Spec

\* Tasks and run keep their types through every request, stage and crash.
THEOREM TypeCorrect == Spec => []TypeOK
<1>1. IInv => TypeOK
  BY DEF IInv
<1>2. QED BY <1>1, Always, PTL

\* A cancel that was answered "cancelling" is kept in every interleaving of the
\* pipeline, a refinement and the watcher: the task leaves no row.
THEOREM PromisesAreKept == Spec => []PromiseKept
<1>1. IInv => PromiseKept
  BY DEF IInv, PromiseKept, TaskOK
<1>2. QED BY <1>1, Always, PTL

\* A cancelled run has put the cancel request on every blackboard it still has.
THEOREM CancelReachesEveryChild == Spec => []CancelReaches
<1>1. IInv => CancelReaches
  BY DEF IInv, RunOK
<1>2. QED BY <1>1, Always, PTL

\* A complete run had an answer of every child, although the answers were read
\* before the synthesis was awaited.
THEOREM CompleteHasAnswers == Spec => []CompleteMeansAnswered
<1>1. IInv => CompleteMeansAnswered
  BY DEF IInv, RunOK, CompleteMeansAnswered
<1>2. QED BY <1>1, Always, PTL

\* A run never completes over a child whose cancel was acknowledged.
THEOREM AbandonedRunsDoNotComplete == Spec => []AbandonedNeverCompletes
<1>1. IInv => AbandonedNeverCompletes
  <2> SUFFICES ASSUME IInv, run.status = "complete", NEW t \in Tasks, task[t].told
               PROVE  FALSE
    BY DEF AbandonedNeverCompletes
  <2>1. task[t].row = "none"
    BY DEF IInv, TaskOK
  <2>2. task[t].row \in {"answer", "deleted"}
    BY DEF IInv, RunOK
  <2>3. QED BY <2>1, <2>2
<1>2. QED BY <1>1, Always, PTL

\* After a cancel request no further stage of the task is started, and no
\* post-processing: only the calls of Unchecked and RefineUnchecked.
THEOREM NoStageIsStartedAfterCancel == Spec => NoStageAfterCancel
<1> DEFINE Calm == \A t \in Tasks : task[t].asked =>
                     /\ task'[t].at \in {task[t].at, "done"} \cup Unchecked
                     /\ task'[t].re \in {task[t].re, "done"} \cup RefineUnchecked
<1>1. IInv /\ [Next]_vars => [Calm]_task
  <2> SUFFICES ASSUME IInv, [Next]_vars, NEW u \in Tasks, task[u].asked,
                      task' # task
               PROVE  /\ task'[u].at \in {task[u].at, "done"} \cup Unchecked
                      /\ task'[u].re \in {task[u].re, "done"} \cup RefineUnchecked
    OBVIOUS
  <2>0. /\ task \in [Tasks -> Task] /\ RunOK
        /\ \A t \in Tasks : TaskOK(task[t])
    BY DEF IInv, TypeOK
  <2>1. CASE Start
    BY <2>0, <2>1 DEF Start, RunOK, NewTask
  <2>2. CASE PollCancelled \/ CancelRun
    <3>1. task' = AllAsked(task)
      BY <2>2 DEF PollCancelled, CancelRun
    <3>2. QED BY <2>0, <3>1, AllAskedOK
  <2>3. CASE Crash
    BY <2>0, <2>3, LostOK DEF Crash
  <2>4. CASE \E t \in Tasks : Child(t) \/ Refinement(t) \/ Owner(t)
    <3>1. PICK t \in Tasks : PipelineStep(t) \/ RefineStep(t) \/ CancelTask(t)
                             \/ Refine(t) \/ Delete(t)
      BY <2>4 DEF Child, Refinement, Owner
    <3>2. Steps(t)
      BY <2>0, <3>1, PipelineSteps, RefineSteps, OwnerSteps
    <3>3. PICK s \in Task : Moves(task[t], s) /\ task' = [task EXCEPT ![t] = s]
      BY <3>2 DEF Steps, Become
    <3>4. QED BY <2>0, <3>3 DEF Moves
  <2>5. CASE \E t \in Tasks : Expire(t)
    <3>1. PICK t \in Tasks : task' = [task EXCEPT ![t] = [task[t] EXCEPT !.noted = FALSE]]
      BY <2>5 DEF Expire, Become
    <3>2. task'[u].at = task[u].at /\ task'[u].re = task[u].re
      BY <2>0, <3>1 DEF Task
    <3>3. QED BY <3>2
  <2>6. CASE UNCHANGED task
    BY <2>6
  <2>7. QED
    BY <2>1, <2>2, <2>3, <2>4, <2>5, <2>6 DEF Next, vars, Watcher, PollEnded,
       PollAnswered, PollAgain, Synthesised, Deadline
<1>2. QED BY <1>1, Always, PTL DEF Spec, NoStageAfterCancel
=============================================================================
