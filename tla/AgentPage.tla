------------------------------ MODULE AgentPage ------------------------------
(* The work one visit to the Agent page (pages/AgentPage.tsx) starts on the    *)
(* server: tasks, multi-task runs, refinements and challenges of an answer,    *)
(* the task handed over by the Arena page, and what may overtake them.         *)
(*                                                                             *)
(* Every handler takes a generation (runGenerationRef) when it starts, awaits  *)
(* the server, and looks after each await whether it is still the last one.    *)
(* A handler is named by its generation, a task or run by the handler that     *)
(* created it.  A step is one turn of the page's event loop or of the server.  *)
(* Wording, drafts, attached files, exports and the sidebar are left out.      *)
EXTENDS Naturals

CONSTANTS
  MaxGen,   \* bound: generations of one visit
  History   \* finished tasks of earlier visits the user can open

ASSUME MaxGenAssumption == MaxGen \in Nat \ {0}
ASSUME HistoryAssumption == History \subseteq Nat /\ \A j \in History : j > MaxGen

VARIABLES
  gen,         \* runGenerationRef
  active,      \* activeTaskIdRef: the task Stop asks to cancel
  op,          \* op[g]: the handler of generation g
  running,     \* isRunning
  refining,    \* isRefining
  challenging, \* isChallengingAnswer
  orch,        \* orchActiveId: the multi-task run the page polls
  result,      \* the task whose answer is shown
  orchResult,  \* the multi-task run whose answers are shown
  objections,  \* the task whose challenges are shown
  job,         \* job[j]: a task or run at the server
  fate,        \* history: what the page has done about a job it started
  stuck,       \* history: flags whose handler was superseded without Stop
  cleared      \* history: generations whose flags another handler cleared, and those
               \* that started while a multi-task run of such a one was left

shown == <<running, refining, challenging, orch, result, orchResult, objections>>
server == <<job, fate>>
vars == <<gen, active, op, shown, server, stuck, cleared>>

None == 0
Gens == 1..MaxGen
Jobs == Gens \cup History

Op == [kind : {"bridge", "run", "local", "orch", "refine", "challenge"},
       at : {"sent", "handoff", "polling", "loading", "ended"},
       job : Jobs]
NoOp == [kind |-> "none", at |-> "none", job |-> None]

TypeOK ==
  /\ gen \in Gens
  /\ active \in Jobs \cup {None}
  /\ op \in [Gens -> Op \cup {NoOp}]
  /\ running \in BOOLEAN /\ refining \in BOOLEAN /\ challenging \in BOOLEAN
  /\ orch \in Gens \cup {None}
  /\ result \in Jobs \cup {None}
  /\ orchResult \in Gens \cup {None}
  /\ objections \in Jobs \cup {None}
  /\ job \in [Jobs -> {"none", "live", "complete", "failed", "cancelled"}]
  /\ fate \in [Jobs -> {"open", "asked", "gave up", "dropped"}]
  /\ stuck \subseteq {"running", "challenging"}
  /\ cleared \subseteq Gens

\* The page is opened, with a task of the Arena page (bridgeMeta) or without.
Init ==
  /\ gen = 1
  /\ \E bridge \in BOOLEAN :
       /\ active = IF bridge THEN 1 ELSE None
       /\ op = [g \in Gens |-> IF g = 1 /\ bridge
                               THEN [kind |-> "bridge", at |-> "polling", job |-> 1] ELSE NoOp]
       /\ running = bridge
       /\ job = [j \in Jobs |-> IF j \in History THEN "complete"
                                ELSE IF j = 1 /\ bridge THEN "live" ELSE "none"]
  /\ refining = FALSE /\ challenging = FALSE
  /\ orch = None /\ result = None /\ orchResult = None /\ objections = None
  /\ fate = [j \in Jobs |-> "open"]
  /\ stuck = {}
  /\ cleared = {}

Busy == running \/ refining \/ challenging

\* A job that runs and of which the page has not let go.
Open(j) == job[j] = "live" /\ fate[j] = "open"

\* The page lets go of job j, in one of the ways of fate.
LetGo(j, how) == [fate EXCEPT ![j] = IF Open(j) THEN how ELSE @]

-----------------------------------------------------------------------------
(* The user *)

\* Faulty variant: the task of the handler before stays the active one.
BeginKeeps(kind, j) ==
  /\ gen + 1 \in Gens
  /\ gen' = gen + 1
  /\ op' = [op EXCEPT ![gen + 1] = [kind |-> kind, at |-> "sent", job |-> j]]
  /\ UNCHANGED active

\* ++runGenerationRef.current: a handler starts and its request leaves.
Begin(kind, j) ==
  /\ gen + 1 \in Gens
  /\ gen' = gen + 1
  /\ active' = None
  /\ op' = [op EXCEPT ![gen + 1] = [kind |-> kind, at |-> "sent", job |-> j]]

\* The challenge in flight, if any, will not take its flag back.
Superseded == IF challenging THEN stuck \cup {"challenging"} ELSE stuck

\* handleOrchestrateRun, handleRefine and handleChallengeAnswer leave orchActiveId: a
\* run whose flags were cleared is polled again, and Stop asks only for the run.
Beside == IF orch # None THEN cleared \cup {gen + 1} ELSE cleared

\* handleRunTask, from the compose box or the Try again of an error.  A template
\* that needs the user's machine is not sent to the server: it awaits the payload
\* that is handed over to Condura.
Run ==
  /\ ~running
  /\ \E kind \in {"run", "local"} : Begin(kind, gen + 1)
  /\ result' = None /\ orchResult' = None /\ orch' = None /\ objections' = None
  /\ running' = TRUE /\ refining' = FALSE
  /\ stuck' = Superseded
  /\ UNCHANGED <<challenging, server, cleared>>

\* handleOrchestrateRun, from the compose box.
Orchestrate ==
  /\ ~running /\ result = None /\ orchResult = None
  /\ Begin("orch", gen + 1)
  /\ running' = TRUE /\ refining' = FALSE
  /\ stuck' = Superseded
  /\ cleared' = Beside
  /\ UNCHANGED <<challenging, orch, result, orchResult, objections, server>>

\* Faulty variant: nobody asks whether there is an answer.
AnswerShownAlways == orchResult = None /\ (~running \/ refining)

\* The section with the answer, from where it is refined and challenged.
AnswerShown == result # None /\ orchResult = None /\ (~running \/ refining)

\* handleRefine.
Refine ==
  /\ AnswerShown /\ ~refining /\ ~running
  /\ Begin("refine", result)
  /\ running' = TRUE /\ refining' = TRUE
  /\ stuck' = Superseded
  /\ cleared' = Beside
  /\ UNCHANGED <<challenging, orch, result, orchResult, objections, server>>

\* handleChallengeAnswer.  It may supersede a refinement, which then neither
\* takes its flags back nor can be reached by Stop.
Challenge ==
  /\ AnswerShown /\ ~challenging /\ objections = None
  /\ Begin("challenge", result)
  /\ challenging' = TRUE
  /\ fate' = IF active # None THEN LetGo(active, "dropped") ELSE fate
  /\ stuck' = IF running THEN stuck \cup {"running"} ELSE stuck
  /\ cleared' = Beside
  /\ UNCHANGED <<running, refining, orch, result, orchResult, objections, job>>

\* Faulty variant: only the task is cancelled, a multi-task run goes on.
StopWorkTaskOnly ==
  /\ Busy
  /\ gen + 1 \in Gens
  /\ gen' = gen + 1
  /\ active' = None
  /\ orch' = None
  /\ running' = FALSE /\ refining' = FALSE /\ challenging' = FALSE
  /\ fate' = IF active # None THEN LetGo(active, "asked") ELSE fate
  /\ stuck' = {}
  /\ UNCHANGED <<op, job, cleared>>

\* handleStopAgentWork: the multi-task run, else the task, is to be cancelled.
StopWork ==
  /\ Busy
  /\ gen + 1 \in Gens
  /\ gen' = gen + 1
  /\ active' = None
  /\ orch' = None
  /\ running' = FALSE /\ refining' = FALSE /\ challenging' = FALSE
  /\ fate' = IF orch # None THEN LetGo(orch, "asked")
             ELSE IF active # None THEN LetGo(active, "asked") ELSE fate
  /\ stuck' = {}
  /\ UNCHANGED <<op, job, cleared>>

Stop == StopWork /\ UNCHANGED <<result, orchResult, objections>>

NothingShown == result' = None /\ orchResult' = None /\ objections' = None

\* startFreshAgentTask while the page is busy: Stop, then resetRun.
NewTask == StopWork /\ NothingShown

\* resetRun alone: a new task when nothing runs, Run again, a question taken
\* from the history, the deletion of the task shown.  It forgets the multi-task
\* run it polls but not that one is running.
ResetRun ==
  /\ NothingShown
  /\ orch' = None /\ refining' = FALSE /\ challenging' = FALSE
  /\ fate' = IF orch # None THEN LetGo(orch, "dropped") ELSE fate
  /\ stuck' = (stuck \ {"challenging"}) \cup IF orch = gen /\ running THEN {"running"} ELSE {}
  /\ UNCHANGED <<gen, active, op, running, job, cleared>>

\* handleHistorySelect: the answer of a finished task arrives, any time after
\* the click.
HistorySelect(j) ==
  /\ job[j] = "complete"
  /\ j \in Gens => op[j].kind # "orch"
  /\ result' = j
  /\ UNCHANGED <<gen, active, op, running, refining, challenging, orch, orchResult, objections,
                 server, stuck, cleared>>

-----------------------------------------------------------------------------
(* The handlers after an await *)

Goes(g, to) == op' = [op EXCEPT ![g].at = to]

NotBusy == running' = FALSE /\ refining' = FALSE

\* clearActiveTask of a poll: by the id of the task, not by the generation.
ClearActive(j) == active' = IF active = j THEN None ELSE active

\* The server takes the request of g: always for a new job; a refinement as long
\* as the task is not running.
Taken(g) ==
  /\ op[g].at = "sent" /\ op[g].kind \in {"run", "orch", "refine"}
  /\ op[g].kind = "refine" => job[op[g].job] \in {"complete", "failed"}

\* The id of the job arrives.  A handler that was superseded asks the server to
\* cancel it; else the poll, or the effect that polls a multi-task run, starts.
Created(g) ==
  LET j == op[g].job IN
  /\ Taken(g)
  /\ job' = [job EXCEPT ![j] = "live"]
  /\ \/ /\ g # gen
        /\ fate' = [fate EXCEPT ![j] = "asked"]
        /\ Goes(g, "ended")
        /\ UNCHANGED <<active, orch>>
     \/ /\ g = gen /\ op[g].kind = "orch"
        /\ fate' = [fate EXCEPT ![j] = "open"]
        /\ orch' = j
        /\ Goes(g, "ended")
        /\ UNCHANGED active
     \/ /\ g = gen /\ op[g].kind # "orch"
        /\ fate' = [fate EXCEPT ![j] = "open"]
        /\ active' = j
        /\ Goes(g, "polling")
        /\ UNCHANGED orch
  /\ UNCHANGED <<gen, running, refining, challenging, result, orchResult, objections, stuck, cleared>>

\* Faulty variant: the catch leaves the flags.
RefusedSpins(g) ==
  /\ op[g].at = "sent" /\ op[g].kind # "challenge"
  /\ Goes(g, "ended")
  /\ UNCHANGED <<gen, active, shown, server, stuck, cleared>>

\* The request fails, refused or with its answer lost on the way back, or a local
\* template gets no payload.
Refused(g) ==
  LET j == op[g].job IN
  /\ op[g].at = "sent" /\ op[g].kind # "challenge"
  /\ \/ UNCHANGED server
     \/ /\ Taken(g)
        /\ job' = [job EXCEPT ![j] = "live"]
        /\ fate' = [fate EXCEPT ![j] = "gave up"]
  /\ Goes(g, "ended")
  /\ IF g = gen THEN NotBusy ELSE UNCHANGED <<running, refining>>
  /\ orch' = IF g = gen /\ op[g].kind = "orch" THEN None ELSE orch
  /\ UNCHANGED <<gen, active, challenging, result, orchResult, objections, stuck, cleared>>

\* The server refuses the task because it needs the user's machine: the handler, if
\* it is still the last one, awaits the payload for Condura.
LocalOnly(g) ==
  /\ g = gen /\ op[g].at = "sent" /\ op[g].kind = "run"
  /\ Goes(g, "handoff")
  /\ UNCHANGED <<gen, active, shown, server, stuck, cleared>>

\* The payload is there, or given up: the handler offers Condura and clears the
\* flags.  It does not look again whether it is still the last one.
HandedOff(g) ==
  /\ \/ op[g].at = "handoff" /\ refining' = FALSE
     \/ op[g].at = "sent" /\ op[g].kind = "local" /\ UNCHANGED refining
  /\ Goes(g, "ended")
  /\ running' = FALSE
  /\ stuck' = stuck \ {"running"}
  /\ cleared' = IF g # gen /\ running THEN cleared \cup {gen} ELSE cleared
  /\ UNCHANGED <<gen, active, challenging, orch, result, orchResult, objections, server>>

\* A poll that was superseded ends at its next look at the generation.
Overtaken(g) ==
  LET j == op[g].job IN
  /\ g # gen /\ op[g].at \in {"polling", "loading"}
  /\ Goes(g, "ended")
  /\ ClearActive(j)
  /\ fate' = IF active = j THEN LetGo(j, "dropped") ELSE fate
  /\ UNCHANGED <<gen, shown, job, stuck, cleared>>

\* A poll finds the task complete or failed and fetches its answer.
PollDone(g) ==
  /\ g = gen /\ op[g].at = "polling" /\ job[op[g].job] \in {"complete", "failed"}
  /\ Goes(g, "loading")
  /\ UNCHANGED <<gen, active, shown, server, stuck, cleared>>

\* A poll finds the task cancelled, or gives up: after 60 attempts, or signed out.
PollOver(g) ==
  LET j == op[g].job IN
  /\ g = gen /\ op[g].at = "polling"
  /\ Goes(g, "ended")
  /\ ClearActive(j)
  /\ NotBusy
  /\ fate' = IF job[j] = "live" THEN LetGo(j, "gave up") ELSE fate
  /\ UNCHANGED <<gen, challenging, orch, result, orchResult, objections, job, stuck, cleared>>

\* Faulty variant: the generation is not looked at after the answer is fetched.
LoadedLate(g) ==
  LET j == op[g].job IN
  /\ op[g].at = "loading"
  /\ Goes(g, "ended")
  /\ ClearActive(j)
  /\ NotBusy
  /\ result' \in {j, result}
  /\ UNCHANGED <<gen, challenging, orch, orchResult, objections, server, stuck, cleared>>

\* The answer of the task arrives, or cannot be loaded.
Loaded(g) ==
  LET j == op[g].job IN
  /\ g = gen /\ op[g].at = "loading"
  /\ Goes(g, "ended")
  /\ ClearActive(j)
  /\ NotBusy
  /\ result' \in {j, result}
  /\ UNCHANGED <<gen, challenging, orch, orchResult, objections, server, stuck, cleared>>

\* The tick of the effect that polls a multi-task run: the run is over, or the
\* request for its state fails, which ends the polling too.
Tick ==
  /\ orch # None /\ running
  /\ \/ job[orch] = "complete" /\ orchResult' = orch
     \/ UNCHANGED orchResult
  /\ fate' = LetGo(orch, "gave up")
  /\ running' = FALSE
  /\ orch' = None
  /\ UNCHANGED <<gen, active, op, refining, challenging, result, objections, job, stuck, cleared>>


\* The objections arrive, or the challenge fails.
Challenged(g) ==
  /\ op[g].at = "sent" /\ op[g].kind = "challenge"
  /\ Goes(g, "ended")
  /\ \/ /\ g = gen
        /\ challenging' = FALSE
        /\ objections' \in {op[g].job, None}
     \/ g # gen /\ UNCHANGED <<challenging, objections>>
  /\ UNCHANGED <<gen, active, running, refining, orch, result, orchResult, server, stuck, cleared>>

-----------------------------------------------------------------------------
(* The server: AgentRun and Orchestration *)

JobEnds(j) ==
  /\ job[j] = "live"
  /\ \E end \in {"complete", "failed"} \cup IF fate[j] = "asked" THEN {"cancelled"} ELSE {} :
       job' = [job EXCEPT ![j] = end]
  /\ UNCHANGED <<gen, active, op, shown, fate, stuck, cleared>>

HandlerStep(g) ==
  \/ Created(g) \/ Refused(g) \/ LocalOnly(g) \/ HandedOff(g) \/ Overtaken(g) \/ PollDone(g) \/ PollOver(g) \/ Loaded(g)
  \/ Challenged(g)

Next ==
  \/ Run \/ Orchestrate \/ Refine \/ Challenge \/ Stop \/ NewTask \/ ResetRun \/ Tick
  \/ \E g \in Gens : HandlerStep(g)
  \/ \E j \in Jobs : HistorySelect(j) \/ JobEnds(j)

Spec == Init /\ [][Next]_vars

\* Requests end (fetchWithTimeout) and a poll has 60 attempts.  A multi-task run
\* is polled every 2.5 s until it has ended, which the server sees to
\* (RunEnds of Orchestration).
Fairness ==
  /\ \A g \in Gens : WF_vars(HandlerStep(g)) /\ WF_vars(op[g].kind = "orch" /\ JobEnds(g))
  /\ WF_vars(orch # None /\ job[orch] # "live" /\ Tick)

FairSpec == Spec /\ Fairness

-----------------------------------------------------------------------------

ActiveIsCurrent ==
  active # None => /\ op[gen].at \in {"polling", "loading"} /\ op[gen].job = active
                   /\ running \/ gen \in cleared

OrchIsCurrent ==
  orch # None => orch \in cleared \/ (running /\ orch = gen /\ active = None)

\* What Stop asks the server to cancel is the task, or the multi-task run, of the
\* last handler and never one that another handler has left behind; and the page
\* says that it is running, so that Stop can be pressed.  The exception is a
\* handler whose flags were cleared by an older one, which handed its own task over
\* to Condura without looking at the generation again.
StopIsCurrent == ActiveIsCurrent /\ OrchIsCurrent

\* A job the page has started and not let go of is in the reach of Stop, with the
\* same exception.
NoOrphan ==
  \A j \in Jobs : Open(j) => j \in {active, orch} \cup {op[g].job : g \in cleared}

\* A flag that shows work has a handler behind it that will take it back, unless
\* another handler superseded that one without Stop.
BusyIsLive ==
  /\ running /\ "running" \notin stuck =>
       \/ orch = gen
       \/ /\ op[gen].kind \in {"bridge", "run", "local", "orch", "refine"}
          /\ op[gen].at \in {"sent", "handoff", "polling", "loading"}
  /\ challenging /\ "challenging" \notin stuck =>
       op[gen].kind = "challenge" /\ op[gen].at = "sent"

\* A handler that was superseded shows nothing any more, and takes no flag of the
\* handler after it, unless it hands its task over to Condura.
SupersededSilent ==
  [][\A g \in Gens : g < gen /\ op'[g] # op[g] =>
       /\ UNCHANGED <<challenging, orch, result, orchResult, objections>>
       /\ UNCHANGED <<running, refining>> \/ op[g].at = "handoff" \/ op[g].kind = "local"]_vars


\* After Stop or a new task nothing the page has started runs on without having
\* been asked to stop, but for jobs whose polling was given up.
StopReaches ==
  [][Stop \/ NewTask => \A j \in Jobs : job[j] = "live" => fate'[j] \in {"asked", "gave up"}]_vars

\* While a task or a multi-task run of the page is in the reach of Stop, the page
\* says so.  Does not hold: see HandedOff.
StopShown == active # None \/ orch # None => running
==============================================================================
