--------------------------- MODULE AgentPageProofs ---------------------------
(* The safety of AgentPage for any number of generations and finished tasks.   *)
(*                                                                             *)
(* The argument: only the handler of the last generation polls, only what it   *)
(* polls is active or the multi-task run of the page, and a job that is let go *)
(* of otherwise has been asked to stop.  The flags of the page then follow the *)
(* handler of the last generation, unless it is one of cleared: then a run may  *)
(* go on beside the handlers after it.                                         *)
EXTENDS AgentPage, TLAPS

Fresh == \A g \in Gens : g > gen => op[g] = NoOp
Named == \A g \in Gens : op[g].kind \in {"run", "orch"} => op[g].job = g
Polled == orch # None => op[orch].kind = "orch" /\ op[orch].at = "ended"
Unrefined == op[gen].kind = "orch" => ~refining
LoadingIsOver == op[gen].at = "loading" => ~Open(op[gen].job)
Flagged ==
  op[gen].kind \in {"bridge", "run", "local", "orch", "refine"}
    /\ op[gen].at \in {"sent", "handoff", "polling", "loading"} => running \/ gen \in cleared
LeftBeside == orch # None /\ orch # gen => gen \in cleared

Inv ==
  /\ TypeOK
  /\ Fresh
  /\ Named
  /\ Polled
  /\ Unrefined
  /\ LoadingIsOver
  /\ Flagged
  /\ LeftBeside
  /\ ActiveIsCurrent
  /\ OrchIsCurrent
  /\ NoOrphan
  /\ BusyIsLive

\* Gens, Jobs and None, for the leaves that do no arithmetic.
LEMMA Names ==
  /\ Gens \subseteq Jobs /\ Gens \subseteq Nat /\ None \notin Jobs
  /\ \A g \in Gens : g + 1 # g /\ g < g + 1 /\ ~(g > g)
  /\ \A g, h \in Gens : h > g + 1 => h > g /\ h # g + 1
<1>1. \A g \in Gens : g \in Nat
  BY MaxGenAssumption DEF Gens
<1>2. None \notin Jobs
  BY MaxGenAssumption, HistoryAssumption DEF Gens, Jobs, None
<1>3. QED BY <1>1, <1>2 DEF Jobs

LEMMA InitInv == Init => Inv
<1> SUFFICES ASSUME Init PROVE Inv
  OBVIOUS
<1> USE Names DEF Init
<1>0. PICK bridge \in BOOLEAN :
        /\ active = IF bridge THEN 1 ELSE None
        /\ op = [g \in Gens |-> IF g = 1 /\ bridge
                                THEN [kind |-> "bridge", at |-> "polling", job |-> 1] ELSE NoOp]
        /\ running = bridge
        /\ job = [j \in Jobs |-> IF j \in History THEN "complete"
                                 ELSE IF j = 1 /\ bridge THEN "live" ELSE "none"]
  OBVIOUS
<1>a. 1 \in Gens
  BY MaxGenAssumption DEF Gens
<1>b. [kind |-> "bridge", at |-> "polling", job |-> 1] \in Op
  BY <1>a DEF Op
<1>1. TypeOK
  BY <1>0, <1>a, <1>b DEF TypeOK
<1>2. Fresh /\ Named /\ Polled /\ Unrefined /\ LoadingIsOver /\ Flagged /\ LeftBeside
  BY <1>0, <1>a DEF Fresh, Named, Polled, Unrefined, LoadingIsOver, Flagged, LeftBeside, NoOp
<1>3. ActiveIsCurrent /\ OrchIsCurrent /\ BusyIsLive
  BY <1>0, <1>a DEF ActiveIsCurrent, OrchIsCurrent, BusyIsLive
<1>4. NoOrphan
  BY <1>0, <1>a DEF NoOrphan, Open
<1>5. QED BY <1>1, <1>2, <1>3, <1>4 DEF Inv

\* A handler that waits for an answer, and its next stage.
LEMMA Working ==
  ASSUME TypeOK, NEW g \in Gens, op[g].at # "none"
  PROVE  op[g] \in Op /\ op[g].job \in Jobs /\ op[g] # NoOp
<1>1. NoOp.at = "none"
  BY DEF NoOp
<1>2. op[g] \in Op \cup {NoOp}
  BY DEF TypeOK
<1>3. op[g] \in Op
  BY <1>1, <1>2
<1>4. QED BY <1>1, <1>3 DEF Op

LEMMA Moved ==
  ASSUME TypeOK, NEW g \in Gens, NEW to \in {"handoff", "polling", "loading", "ended"},
         op[g].at # "none", Goes(g, to)
  PROVE  /\ op' \in [Gens -> Op \cup {NoOp}]
         /\ op'[g].at = to /\ op'[g].kind = op[g].kind /\ op'[g].job = op[g].job
         /\ \A h \in Gens \ {g} : op'[h] = op[h]
<1> DEFINE o == [op[g] EXCEPT !.at = to]
<1>1. op[g] \in Op
  BY Working
<1>2. o \in Op /\ o.at = to /\ o.kind = op[g].kind /\ o.job = op[g].job
  BY <1>1 DEF Op
<1>3. op \in [Gens -> Op \cup {NoOp}] /\ op' = [op EXCEPT ![g] = o]
  BY DEF TypeOK, Goes
<1> HIDE DEF o
<1>4. QED BY <1>2, <1>3

\* The first stage of a new handler.
LEMMA Began ==
  ASSUME Inv, NEW k \in {"run", "local", "orch", "refine", "challenge"}, NEW j \in Jobs,
         Begin(k, j),
         k \in {"run", "orch"} => j = gen + 1
  PROVE  /\ gen + 1 \in Gens /\ gen' = gen + 1 /\ active' = None
         /\ op[gen + 1] = NoOp /\ NoOp.at = "none"
         /\ op' \in [Gens -> Op \cup {NoOp}]
         /\ op'[gen + 1].kind = k /\ op'[gen + 1].at = "sent" /\ op'[gen + 1].job = j
         /\ \A h \in Gens \ {gen + 1} : op'[h] = op[h]
         /\ Fresh' /\ Named'
<1> DEFINE o == [kind |-> k, at |-> "sent", job |-> j]
<1>1. o \in Op /\ o.kind = k /\ o.at = "sent" /\ o.job = j
  BY DEF Op
<1>2. /\ gen \in Gens /\ gen + 1 \in Gens /\ gen' = gen + 1 /\ active' = None
      /\ op \in [Gens -> Op \cup {NoOp}] /\ Fresh
      /\ op' = [op EXCEPT ![gen + 1] = o]
  BY DEF Inv, TypeOK, Begin
<1> HIDE DEF o
<1>3. op[gen + 1] = NoOp /\ NoOp.at = "none"
  BY <1>2, Names DEF Fresh, NoOp
<1>4. \A h \in Gens \ {gen + 1} : op'[h] = op[h]
  BY <1>2
<1>5. ASSUME NEW h \in Gens, h > gen' PROVE op'[h] = NoOp
  <2>1. h # gen + 1 /\ h > gen
    BY <1>2, <1>5, Names
  <2>2. QED BY <2>1, <1>2, <1>4 DEF Fresh
<1>6. Named'
  BY <1>1, <1>2, <1>4 DEF Inv, Named
<1>7. QED BY <1>1, <1>2, <1>3, <1>4, <1>5, <1>6 DEF Fresh

\* What letting go of a job writes.
LEMMA LetGoTyped ==
  ASSUME TypeOK, NEW j, NEW how \in {"asked", "gave up", "dropped"}
  PROVE  LetGo(j, how) \in [Jobs -> {"open", "asked", "gave up", "dropped"}]
  BY DEF TypeOK, LetGo

\* Letting go of a job opens no other.
LEMMA LetGoCloses ==
  ASSUME TypeOK, NEW j \in Jobs, NEW how \in {"asked", "gave up", "dropped"},
         fate' = LetGo(j, how), job' = job
  PROVE  /\ ~Open(j)'
         /\ \A k \in Jobs : Open(k)' => Open(k)
  BY DEF TypeOK, LetGo, Open

\* What a step of handler g leaves as it was.
LEMMA Stepped ==
  ASSUME Inv, NEW g \in Gens, NEW to \in {"handoff", "polling", "loading", "ended"},
         op[g].at # "none", Goes(g, to), gen' = gen
  PROVE  /\ gen \in Gens /\ op[g].job \in Jobs
         /\ op' \in [Gens -> Op \cup {NoOp}]
         /\ op'[g].at = to /\ op'[g].kind = op[g].kind /\ op'[g].job = op[g].job
         /\ \A h \in Gens \ {g} : op'[h] = op[h]
         /\ Fresh' /\ Named'
<1>1. gen \in Gens /\ TypeOK /\ Fresh /\ Named
  BY DEF Inv, TypeOK
<1>2. op[g].job \in Jobs /\ op[g] # NoOp
  BY <1>1, Working
<1>3. /\ op' \in [Gens -> Op \cup {NoOp}]
      /\ op'[g].at = to /\ op'[g].kind = op[g].kind /\ op'[g].job = op[g].job
      /\ \A h \in Gens \ {g} : op'[h] = op[h]
  BY <1>1, Moved
<1>4. Fresh' /\ Named'
  BY <1>1, <1>2, <1>3 DEF Fresh, Named
<1>5. QED BY <1>1, <1>2, <1>3, <1>4

\* The task of a handler that loads its answer.
LEMMA LoadingHasTask ==
  ASSUME Inv
  PROVE  gen \in Gens /\ (op[gen].at = "loading" => op[gen].job \in Jobs)
  BY Working DEF Inv, TypeOK

LEMMA SameOpen ==
  ASSUME UNCHANGED <<job, fate>>
  PROVE  \A k : Open(k)' = Open(k)
  BY DEF Open

\* A job that is written down as let go of is not open, whatever the server does.
LEMMA Disowned ==
  ASSUME TypeOK, NEW j \in Jobs, NEW how \in {"asked", "gave up", "dropped"},
         fate' = [fate EXCEPT ![j] = how],
         job' = job \/ job' = [job EXCEPT ![j] = "live"]
  PROVE  /\ fate' \in [Jobs -> {"open", "asked", "gave up", "dropped"}]
         /\ job' \in [Jobs -> {"none", "live", "complete", "failed", "cancelled"}]
         /\ \A k \in Jobs : Open(k)' => Open(k)
<1>1. /\ fate \in [Jobs -> {"open", "asked", "gave up", "dropped"}]
      /\ job \in [Jobs -> {"none", "live", "complete", "failed", "cancelled"}]
  BY DEF TypeOK
<1>2. fate'[j] = how /\ \A k \in Jobs \ {j} : fate'[k] = fate[k] /\ job'[k] = job[k]
  BY <1>1
<1>3. QED BY <1>1, <1>2 DEF Open


\* The jobs NoOrphan excepts.
Lost(k) == \E h \in cleared : op[h].job = k

\* A step keeps NoOrphan if it opens only what Stop reaches, and what it takes from
\* Stop is excepted.
LEMMA NoOrphanKept ==
  ASSUME NoOrphan, cleared \subseteq cleared',
         \A h \in cleared : op[h].job \in Jobs => op'[h].job = op[h].job,
         \A k \in Jobs : Open(k)' => \/ k \in {active', orch'}
                                     \/ Lost(k)
                                     \/ Open(k) /\ k \notin {active, orch}
  PROVE  NoOrphan'
<1> SUFFICES ASSUME NEW k \in Jobs, Open(k)'
             PROVE  k \in {active', orch'} \cup {op'[h].job : h \in cleared'}
  BY DEF NoOrphan
<1>1. CASE k \in {active', orch'}
  BY <1>1
<1>2. CASE Lost(k)
  <2>1. PICK h \in cleared : op[h].job = k
    BY <1>2 DEF Lost
  <2>2. op'[h].job = k /\ h \in cleared'
    BY <2>1
  <2>3. QED BY <2>2
<1>3. CASE Open(k) /\ k \notin {active, orch}
  <2>1. PICK h \in cleared : op[h].job = k
    BY <1>3 DEF NoOrphan
  <2>2. op'[h].job = k /\ h \in cleared'
    BY <2>1
  <2>3. QED BY <2>2
<1>4. QED BY <1>1, <1>2, <1>3

\* A multi-task run whose flags were cleared.
LEMMA LostRun ==
  ASSUME Inv, orch # None, orch \in cleared
  PROVE  Lost(orch)
<1>1. orch \in Gens /\ op[orch].kind = "orch" /\ Named
  BY DEF Inv, TypeOK, Polled
<1>2. op[orch].job = orch
  BY <1>1 DEF Named
<1>3. QED BY <1>2 DEF Lost

\* What Stop has when the page does not say that it is running.
LEMMA Idle ==
  ASSUME Inv, ~running
  PROVE  /\ active # None => Lost(active)
         /\ orch # None => Lost(orch)
<1>1. active # None => gen \in cleared /\ op[gen].job = active
  BY DEF Inv, ActiveIsCurrent
<1>2. orch # None => orch \in cleared
  BY DEF Inv, OrchIsCurrent
<1>3. QED BY <1>1, <1>2, LostRun DEF Lost

\* What Stop has when the last handler awaits its first answer.
LEMMA Awaiting ==
  ASSUME Inv, op[gen].at \in {"sent", "handoff"}
  PROVE  active = None /\ (orch # None => orch # gen /\ orch \in cleared /\ Lost(orch))
<1>1. active = None
  BY DEF Inv, ActiveIsCurrent
<1>2. orch # None => orch # gen
  BY DEF Inv, Polled
<1>3. orch # None => orch \in cleared
  BY <1>2 DEF Inv, OrchIsCurrent
<1>4. QED BY <1>1, <1>2, <1>3, LostRun

LEMMA RunKeeps ==
  ASSUME Inv, Run
  PROVE  Inv'
<1>0. /\ gen \in Gens /\ gen + 1 \in Gens /\ gen' = gen + 1 /\ active' = None
      /\ op[gen + 1] = NoOp /\ NoOp.at = "none"
      /\ op' \in [Gens -> Op \cup {NoOp}]
      /\ op'[gen + 1].kind \in {"run", "local"} /\ op'[gen + 1].at = "sent"
      /\ op'[gen + 1].job = gen + 1
      /\ \A h \in Gens \ {gen + 1} : op'[h] = op[h]
      /\ Fresh' /\ Named'
      /\ fate' \in [Jobs -> {"open", "asked", "gave up", "dropped"}]
      /\ \A k \in Jobs : Open(k)' = Open(k)
  <2>0. PICK kind \in {"run", "local"} : Begin(kind, gen + 1)
    BY DEF Run
  <2>1. gen \in Gens /\ gen + 1 \in Jobs /\ Begin(kind, gen + 1)
    BY <2>0, Names DEF Inv, TypeOK, Begin
  <2>2. /\ gen + 1 \in Gens /\ gen' = gen + 1 /\ active' = None
        /\ op[gen + 1] = NoOp /\ NoOp.at = "none"
        /\ op' \in [Gens -> Op \cup {NoOp}]
        /\ op'[gen + 1].kind = kind /\ op'[gen + 1].at = "sent" /\ op'[gen + 1].job = gen + 1
        /\ \A h \in Gens \ {gen + 1} : op'[h] = op[h]
        /\ Fresh' /\ Named'
    BY <2>1, Began
  <2>3. fate' \in [Jobs -> {"open", "asked", "gave up", "dropped"}] /\ \A k \in Jobs : Open(k)' = Open(k)
    BY SameOpen DEF Inv, TypeOK, Run, server
  <2>4. QED BY <2>1, <2>2, <2>3
<1>1. TypeOK'
  BY <1>0, Names
     DEF Inv, TypeOK, Run, AnswerShown, Superseded, shown, server
<1>2. Polled' /\ Unrefined' /\ Flagged' /\ LeftBeside'
  BY <1>0, Names
     DEF Inv, TypeOK, Polled, Unrefined, Flagged, LeftBeside, OrchIsCurrent, Run, AnswerShown, Superseded, shown, server
<1>3. LoadingIsOver'
  BY <1>0
     DEF Inv, LoadingIsOver, ActiveIsCurrent, Run, AnswerShown, Superseded, shown, server
<1>4. ActiveIsCurrent' /\ OrchIsCurrent'
  BY <1>0, Names
     DEF Inv, TypeOK, Polled, Unrefined, Flagged, LeftBeside, Named, ActiveIsCurrent, OrchIsCurrent, Run, AnswerShown, Superseded, shown, server
<1>5. NoOrphan'
  <2>1. NoOrphan /\ cleared \subseteq cleared'
    BY DEF Inv, TypeOK, Run
  <2>2. ASSUME NEW h \in cleared, op[h].job \in Jobs PROVE op'[h].job = op[h].job
    <3>1. NoOp.job \notin Jobs
      BY Names DEF NoOp
    <3>2. h # gen + 1 /\ h \in Gens
      BY <1>0, <2>2, <3>1 DEF Inv, TypeOK
    <3>3. QED BY <1>0, <3>2
  <2>3. \A k \in Jobs : Open(k)' =>
          k \in {active', orch'} \/ Lost(k) \/ (Open(k) /\ k \notin {active, orch})
    BY <1>0, Idle, Names DEF Run
  <2>4. QED BY <2>1, <2>2, <2>3, NoOrphanKept
<1>6. BusyIsLive'
  BY <1>0, Names
     DEF Inv, TypeOK, BusyIsLive, Polled, Unrefined, OrchIsCurrent, Run, AnswerShown, Superseded, shown, server
<1>7. QED BY <1>0, <1>1, <1>2, <1>3, <1>4, <1>5, <1>6 DEF Inv

LEMMA OrchestrateKeeps ==
  ASSUME Inv, Orchestrate
  PROVE  Inv'
<1>0. /\ gen \in Gens /\ gen + 1 \in Gens /\ gen' = gen + 1 /\ active' = None
      /\ op[gen + 1] = NoOp /\ NoOp.at = "none"
      /\ op' \in [Gens -> Op \cup {NoOp}]
      /\ op'[gen + 1].kind = "orch" /\ op'[gen + 1].at = "sent" /\ op'[gen + 1].job = gen + 1
      /\ \A h \in Gens \ {gen + 1} : op'[h] = op[h]
      /\ Fresh' /\ Named'
      /\ fate' \in [Jobs -> {"open", "asked", "gave up", "dropped"}]
      /\ \A k \in Jobs : Open(k)' = Open(k)
  <2>1. gen \in Gens /\ gen + 1 \in Jobs /\ Begin("orch", gen + 1)
    BY Names DEF Inv, TypeOK, Orchestrate, Begin, AnswerShown
  <2>2. /\ gen + 1 \in Gens /\ gen' = gen + 1 /\ active' = None
        /\ op[gen + 1] = NoOp /\ NoOp.at = "none"
        /\ op' \in [Gens -> Op \cup {NoOp}]
        /\ op'[gen + 1].kind = "orch" /\ op'[gen + 1].at = "sent" /\ op'[gen + 1].job = gen + 1
        /\ \A h \in Gens \ {gen + 1} : op'[h] = op[h]
        /\ Fresh' /\ Named'
    BY <2>1, Began
  <2>3. fate' \in [Jobs -> {"open", "asked", "gave up", "dropped"}] /\ \A k \in Jobs : Open(k)' = Open(k)
    BY SameOpen DEF Inv, TypeOK, Orchestrate, server
  <2>4. QED BY <2>1, <2>2, <2>3
<1>1. TypeOK'
  BY <1>0, Names
     DEF Inv, TypeOK, Orchestrate, AnswerShown, Superseded, Beside, shown, server
<1>2. Polled' /\ Unrefined' /\ Flagged' /\ LeftBeside'
  BY <1>0, Names
     DEF Inv, TypeOK, Polled, Unrefined, Flagged, LeftBeside, OrchIsCurrent, Orchestrate, AnswerShown, Superseded, Beside, shown, server
<1>3. LoadingIsOver'
  BY <1>0
     DEF Inv, LoadingIsOver, ActiveIsCurrent, Orchestrate, AnswerShown, Superseded, Beside, shown, server
<1>4. ActiveIsCurrent' /\ OrchIsCurrent'
  BY <1>0, Names
     DEF Inv, TypeOK, Polled, Unrefined, Flagged, LeftBeside, Named, ActiveIsCurrent, OrchIsCurrent, Orchestrate, AnswerShown, Superseded, Beside, shown, server
<1>5. NoOrphan'
  <2>1. NoOrphan /\ cleared \subseteq cleared'
    BY DEF Inv, TypeOK, Orchestrate, Beside
  <2>2. ASSUME NEW h \in cleared, op[h].job \in Jobs PROVE op'[h].job = op[h].job
    <3>1. NoOp.job \notin Jobs
      BY Names DEF NoOp
    <3>2. h # gen + 1 /\ h \in Gens
      BY <1>0, <2>2, <3>1 DEF Inv, TypeOK
    <3>3. QED BY <1>0, <3>2
  <2>3. \A k \in Jobs : Open(k)' =>
          k \in {active', orch'} \/ Lost(k) \/ (Open(k) /\ k \notin {active, orch})
    BY <1>0, Idle, Names DEF Orchestrate
  <2>4. QED BY <2>1, <2>2, <2>3, NoOrphanKept
<1>6. BusyIsLive'
  BY <1>0, Names
     DEF Inv, TypeOK, BusyIsLive, Polled, Unrefined, OrchIsCurrent, Orchestrate, AnswerShown, Superseded, Beside, shown, server
<1>7. QED BY <1>0, <1>1, <1>2, <1>3, <1>4, <1>5, <1>6 DEF Inv

LEMMA RefineKeeps ==
  ASSUME Inv, Refine
  PROVE  Inv'
<1>0. /\ gen \in Gens /\ gen + 1 \in Gens /\ gen' = gen + 1 /\ active' = None
      /\ op[gen + 1] = NoOp /\ NoOp.at = "none"
      /\ op' \in [Gens -> Op \cup {NoOp}]
      /\ op'[gen + 1].kind = "refine" /\ op'[gen + 1].at = "sent" /\ op'[gen + 1].job = result
      /\ \A h \in Gens \ {gen + 1} : op'[h] = op[h]
      /\ Fresh' /\ Named'
      /\ fate' \in [Jobs -> {"open", "asked", "gave up", "dropped"}]
      /\ \A k \in Jobs : Open(k)' = Open(k)
  <2>1. gen \in Gens /\ result \in Jobs /\ Begin("refine", result)
    BY Names DEF Inv, TypeOK, Refine, Begin, AnswerShown
  <2>2. /\ gen + 1 \in Gens /\ gen' = gen + 1 /\ active' = None
        /\ op[gen + 1] = NoOp /\ NoOp.at = "none"
        /\ op' \in [Gens -> Op \cup {NoOp}]
        /\ op'[gen + 1].kind = "refine" /\ op'[gen + 1].at = "sent" /\ op'[gen + 1].job = result
        /\ \A h \in Gens \ {gen + 1} : op'[h] = op[h]
        /\ Fresh' /\ Named'
    BY <2>1, Began
  <2>3. fate' \in [Jobs -> {"open", "asked", "gave up", "dropped"}] /\ \A k \in Jobs : Open(k)' = Open(k)
    BY SameOpen DEF Inv, TypeOK, Refine, server
  <2>4. QED BY <2>1, <2>2, <2>3
<1>1. TypeOK'
  BY <1>0, Names
     DEF Inv, TypeOK, Refine, AnswerShown, Superseded, Beside, shown, server
<1>2. Polled' /\ Unrefined' /\ Flagged' /\ LeftBeside'
  BY <1>0, Names
     DEF Inv, TypeOK, Polled, Unrefined, Flagged, LeftBeside, OrchIsCurrent, Refine, AnswerShown, Superseded, Beside, shown, server
<1>3. LoadingIsOver'
  BY <1>0
     DEF Inv, LoadingIsOver, ActiveIsCurrent, Refine, AnswerShown, Superseded, Beside, shown, server
<1>4. ActiveIsCurrent' /\ OrchIsCurrent'
  BY <1>0, Names
     DEF Inv, TypeOK, Polled, Unrefined, Flagged, LeftBeside, Named, ActiveIsCurrent, OrchIsCurrent, Refine, AnswerShown, Superseded, Beside, shown, server
<1>5. NoOrphan'
  <2>1. NoOrphan /\ cleared \subseteq cleared'
    BY DEF Inv, TypeOK, Refine, Beside
  <2>2. ASSUME NEW h \in cleared, op[h].job \in Jobs PROVE op'[h].job = op[h].job
    <3>1. NoOp.job \notin Jobs
      BY Names DEF NoOp
    <3>2. h # gen + 1 /\ h \in Gens
      BY <1>0, <2>2, <3>1 DEF Inv, TypeOK
    <3>3. QED BY <1>0, <3>2
  <2>3. \A k \in Jobs : Open(k)' =>
          k \in {active', orch'} \/ Lost(k) \/ (Open(k) /\ k \notin {active, orch})
    BY <1>0, Idle, Names DEF Refine
  <2>4. QED BY <2>1, <2>2, <2>3, NoOrphanKept
<1>6. BusyIsLive'
  BY <1>0, Names
     DEF Inv, TypeOK, BusyIsLive, Polled, Unrefined, OrchIsCurrent, Refine, AnswerShown, Superseded, Beside, shown, server
<1>7. QED BY <1>0, <1>1, <1>2, <1>3, <1>4, <1>5, <1>6 DEF Inv

LEMMA ChallengeKeeps ==
  ASSUME Inv, Challenge
  PROVE  Inv'
<1>0. /\ gen \in Gens /\ gen + 1 \in Gens /\ gen' = gen + 1 /\ active' = None
      /\ op[gen + 1] = NoOp /\ NoOp.at = "none"
      /\ op' \in [Gens -> Op \cup {NoOp}]
      /\ op'[gen + 1].kind = "challenge" /\ op'[gen + 1].at = "sent" /\ op'[gen + 1].job = result
      /\ \A h \in Gens \ {gen + 1} : op'[h] = op[h]
      /\ Fresh' /\ Named'
      /\ fate' \in [Jobs -> {"open", "asked", "gave up", "dropped"}]
      /\ \A k \in Jobs : Open(k)' => Open(k) /\ k # active
  <2>1. gen \in Gens /\ result \in Jobs /\ Begin("challenge", result)
    BY Names DEF Inv, TypeOK, Challenge, Begin, AnswerShown
  <2>2. /\ gen + 1 \in Gens /\ gen' = gen + 1 /\ active' = None
        /\ op[gen + 1] = NoOp /\ NoOp.at = "none"
        /\ op' \in [Gens -> Op \cup {NoOp}]
        /\ op'[gen + 1].kind = "challenge" /\ op'[gen + 1].at = "sent" /\ op'[gen + 1].job = result
        /\ \A h \in Gens \ {gen + 1} : op'[h] = op[h]
        /\ Fresh' /\ Named'
    BY <2>1, Began
  <2>3. /\ TypeOK /\ (active # None => active \in Jobs) /\ job' = job
        /\ fate' = IF active # None THEN LetGo(active, "dropped") ELSE fate
        /\ fate \in [Jobs -> {"open", "asked", "gave up", "dropped"}] /\ None \notin Jobs
    BY Names DEF Inv, TypeOK, Challenge, AnswerShown, OrchIsCurrent, Polled, Unrefined
  <2>4. CASE active # None
    BY <2>1, <2>2, <2>3, <2>4, LetGoTyped, LetGoCloses
  <2>5. CASE active = None
    BY <2>1, <2>2, <2>3, <2>5, SameOpen
  <2>6. QED BY <2>1, <2>2, <2>4, <2>5
<1>1. TypeOK'
  BY <1>0, Names
     DEF Inv, TypeOK, Challenge, AnswerShown, Beside, shown, server
<1>2. Polled' /\ Unrefined' /\ Flagged' /\ LeftBeside'
  BY <1>0, Names
     DEF Inv, TypeOK, Polled, Unrefined, Flagged, LeftBeside, OrchIsCurrent, Challenge, AnswerShown, Beside, shown, server
<1>3. LoadingIsOver'
  BY <1>0
     DEF Inv, LoadingIsOver, ActiveIsCurrent, Challenge, AnswerShown, Beside, shown, server
<1>4. ActiveIsCurrent' /\ OrchIsCurrent'
  BY <1>0, Names
     DEF Inv, TypeOK, Polled, Unrefined, Flagged, LeftBeside, Named, ActiveIsCurrent, OrchIsCurrent, Challenge, AnswerShown, Beside, shown, server
<1>5. NoOrphan'
  <2>1. NoOrphan /\ cleared \subseteq cleared'
    BY DEF Inv, TypeOK, Challenge, Beside
  <2>2. ASSUME NEW h \in cleared, op[h].job \in Jobs PROVE op'[h].job = op[h].job
    <3>1. NoOp.job \notin Jobs
      BY Names DEF NoOp
    <3>2. h # gen + 1 /\ h \in Gens
      BY <1>0, <2>2, <3>1 DEF Inv, TypeOK
    <3>3. QED BY <1>0, <3>2
  <2>3. \A k \in Jobs : Open(k)' =>
          k \in {active', orch'} \/ Lost(k) \/ (Open(k) /\ k \notin {active, orch})
    BY <1>0 DEF Challenge
  <2>4. QED BY <2>1, <2>2, <2>3, NoOrphanKept
<1>6. BusyIsLive'
  BY <1>0, Names
     DEF Inv, TypeOK, BusyIsLive, Polled, Unrefined, OrchIsCurrent, Challenge, AnswerShown, Beside, shown, server
<1>7. QED BY <1>0, <1>1, <1>2, <1>3, <1>4, <1>5, <1>6 DEF Inv

LEMMA StopWorkKeeps ==
  ASSUME Inv, StopWork, UNCHANGED <<result, orchResult, objections>> \/ NothingShown
  PROVE  Inv'
<1>0. /\ gen \in Gens /\ gen + 1 \in Gens /\ gen' = gen + 1
      /\ op' = op /\ op[gen + 1].at = "none" /\ op[gen + 1].kind = "none"
      /\ Fresh' /\ Named'
      /\ fate' \in [Jobs -> {"open", "asked", "gave up", "dropped"}]
      /\ \A k \in Jobs : Open(k)' => Open(k) /\ (k \notin {active, orch} \/ Lost(k))
  <2>1. /\ TypeOK /\ gen \in Gens /\ gen + 1 \in Gens /\ gen' = gen + 1
        /\ op' = op /\ job' = job
        /\ orch \in Gens \cup {None} /\ active \in Jobs \cup {None}
        /\ fate' = IF orch # None THEN LetGo(orch, "asked")
                   ELSE IF active # None THEN LetGo(active, "asked") ELSE fate
    BY DEF Inv, TypeOK, StopWork, OrchIsCurrent
  <2>2. op[gen + 1] = NoOp /\ Fresh' /\ Named'
    BY <2>1, Names DEF Inv, Fresh, Named
  <2>3. op[gen + 1].at = "none" /\ op[gen + 1].kind = "none"
    BY <2>2 DEF NoOp
  <2>4. /\ fate' \in [Jobs -> {"open", "asked", "gave up", "dropped"}]
        /\ \A k \in Jobs : Open(k)' => Open(k) /\ (k \notin {active, orch} \/ Lost(k))
    <3>1. CASE orch # None
      <4>1. orch \in Jobs /\ fate' = LetGo(orch, "asked")
        BY <2>1, <3>1, Names
      <4>2. TypeOK /\ job' = job
        BY <2>1
      <4>3. \A k \in Jobs : Open(k)' => Open(k) /\ k # orch
        BY <4>1, <4>2, LetGoCloses
      <4>4. active # None => orch # gen
        BY <3>1 DEF Inv, ActiveIsCurrent, Polled
      <4>5. active # None => gen \in cleared /\ op[gen].job = active
        BY <3>1, <4>4 DEF Inv, ActiveIsCurrent, LeftBeside
      <4>6. active # None => Lost(active)
        BY <4>5 DEF Lost
      <4>7. QED BY <4>1, <4>2, <4>3, <4>6, LetGoTyped, Names
    <3>2. CASE orch = None /\ active # None
      <4>1. active \in Jobs /\ fate' = LetGo(active, "asked")
        BY <2>1, <3>2, Names
      <4>2. TypeOK /\ job' = job
        BY <2>1
      <4>3. \A k \in Jobs : Open(k)' => Open(k) /\ k # active
        BY <4>1, <4>2, LetGoCloses
      <4>4. QED BY <3>2, <4>1, <4>2, <4>3, LetGoTyped, Names
    <3>3. CASE orch = None /\ active = None
      <4>1. fate' = fate
        BY <2>1, <3>3
      <4>2. QED BY <2>1, <3>3, <4>1, SameOpen, Names DEF TypeOK
    <3>4. QED BY <3>1, <3>2, <3>3
  <2>5. QED BY <2>1, <2>2, <2>3, <2>4
<1>1. TypeOK'
  BY <1>0, Names
     DEF Inv, TypeOK, StopWork, NothingShown, shown, server
<1>2. Polled' /\ Unrefined' /\ Flagged' /\ LeftBeside'
  BY <1>0, Names
     DEF Inv, TypeOK, Polled, Unrefined, Flagged, LeftBeside, OrchIsCurrent, StopWork, NothingShown, shown, server
<1>3. LoadingIsOver'
  BY <1>0
     DEF Inv, LoadingIsOver, ActiveIsCurrent, StopWork, NothingShown, shown, server
<1>4. ActiveIsCurrent' /\ OrchIsCurrent'
  BY <1>0, Names
     DEF Inv, TypeOK, Polled, Unrefined, Flagged, LeftBeside, Named, ActiveIsCurrent, OrchIsCurrent, StopWork, NothingShown, shown, server
<1>5. NoOrphan'
  <2>1. NoOrphan /\ cleared \subseteq cleared'
    BY DEF Inv, TypeOK, StopWork
  <2>2. \A h \in cleared : op[h].job \in Jobs => op'[h].job = op[h].job
    BY <1>0, Names DEF Inv, TypeOK, StopWork
  <2>3. \A k \in Jobs : Open(k)' =>
          k \in {active', orch'} \/ Lost(k) \/ (Open(k) /\ k \notin {active, orch})
    BY <1>0
  <2>4. QED BY <2>1, <2>2, <2>3, NoOrphanKept
<1>6. BusyIsLive'
  BY <1>0, Names
     DEF Inv, TypeOK, BusyIsLive, Polled, Unrefined, OrchIsCurrent, StopWork, NothingShown, shown, server
<1>7. QED BY <1>0, <1>1, <1>2, <1>3, <1>4, <1>5, <1>6 DEF Inv

LEMMA ResetRunKeeps ==
  ASSUME Inv, ResetRun
  PROVE  Inv'
<1>0. /\ gen \in Gens /\ (op[gen].at = "loading" => op[gen].job \in Jobs)
      /\ Fresh' /\ Named'
      /\ fate' \in [Jobs -> {"open", "asked", "gave up", "dropped"}]
      /\ \A k \in Jobs : Open(k)' => Open(k) /\ k # orch
  <2>1. /\ TypeOK /\ NoOrphan /\ gen' = gen /\ op' = op /\ job' = job /\ None \notin Jobs
        /\ fate' = IF orch # None THEN LetGo(orch, "dropped") ELSE fate
    BY Names DEF Inv, ResetRun
  <2>2. Fresh' /\ Named'
    BY <2>1 DEF Inv, Fresh, Named
  <2>3. CASE orch # None
    <3>1. orch \in Jobs
      BY <2>1, <2>3, Names DEF TypeOK
    <3>2. QED BY <2>1, <2>2, <2>3, <3>1, LetGoTyped, LetGoCloses, LoadingHasTask
  <2>4. CASE orch = None
    <3>1. fate \in [Jobs -> {"open", "asked", "gave up", "dropped"}] /\ fate' = fate
      BY <2>1, <2>4 DEF TypeOK
    <3>2. QED BY <2>1, <2>2, <2>4, <3>1, SameOpen, LoadingHasTask
  <2>5. QED BY <2>3, <2>4
<1>1. TypeOK'
  BY <1>0, Names
     DEF Inv, TypeOK, ResetRun, NothingShown, shown, server
<1>2. Polled' /\ Unrefined' /\ Flagged' /\ LeftBeside'
  BY <1>0, Names
     DEF Inv, TypeOK, Polled, Unrefined, Flagged, LeftBeside, OrchIsCurrent, ResetRun, NothingShown, shown, server
<1>3. LoadingIsOver'
  BY <1>0
     DEF Inv, LoadingIsOver, ActiveIsCurrent, ResetRun, NothingShown, shown, server
<1>4. ActiveIsCurrent' /\ OrchIsCurrent'
  BY <1>0, Names
     DEF Inv, TypeOK, Polled, Unrefined, Flagged, LeftBeside, Named, ActiveIsCurrent, OrchIsCurrent, ResetRun, NothingShown, shown, server
<1>5. NoOrphan'
  <2>1. NoOrphan /\ cleared \subseteq cleared'
    BY DEF Inv, TypeOK, ResetRun
  <2>2. \A h \in cleared : op[h].job \in Jobs => op'[h].job = op[h].job
    BY <1>0, Names DEF Inv, TypeOK, ResetRun
  <2>3. \A k \in Jobs : Open(k)' =>
          k \in {active', orch'} \/ Lost(k) \/ (Open(k) /\ k \notin {active, orch})
    BY <1>0 DEF ResetRun
  <2>4. QED BY <2>1, <2>2, <2>3, NoOrphanKept
<1>6. BusyIsLive'
  BY <1>0, Names
     DEF Inv, TypeOK, BusyIsLive, Polled, Unrefined, OrchIsCurrent, ResetRun, NothingShown, shown, server
<1>7. QED BY <1>0, <1>1, <1>2, <1>3, <1>4, <1>5, <1>6 DEF Inv

LEMMA HistorySelectKeeps ==
  ASSUME Inv, NEW j \in Jobs, HistorySelect(j)
  PROVE  Inv'
<1>0. /\ gen \in Gens /\ (op[gen].at = "loading" => op[gen].job \in Jobs)
      /\ Fresh' /\ Named'
      /\ \A k \in Jobs : Open(k)' = Open(k)
  BY LoadingHasTask, SameOpen DEF Inv, Fresh, Named, HistorySelect, server
<1>1. TypeOK'
  BY <1>0, Names
     DEF Inv, TypeOK, HistorySelect, shown, server
<1>2. Polled' /\ Unrefined' /\ Flagged' /\ LeftBeside'
  BY <1>0, Names
     DEF Inv, TypeOK, Polled, Unrefined, Flagged, LeftBeside, OrchIsCurrent, HistorySelect, shown, server
<1>3. LoadingIsOver'
  BY <1>0
     DEF Inv, LoadingIsOver, ActiveIsCurrent, HistorySelect, shown, server
<1>4. ActiveIsCurrent' /\ OrchIsCurrent'
  BY <1>0, Names
     DEF Inv, TypeOK, Polled, Unrefined, Flagged, LeftBeside, Named, ActiveIsCurrent, OrchIsCurrent, HistorySelect, shown, server
<1>5. NoOrphan'
  <2>1. NoOrphan /\ cleared \subseteq cleared'
    BY DEF Inv, TypeOK, HistorySelect
  <2>2. \A h \in cleared : op[h].job \in Jobs => op'[h].job = op[h].job
    BY <1>0, Names DEF Inv, TypeOK, HistorySelect
  <2>3. \A k \in Jobs : Open(k)' =>
          k \in {active', orch'} \/ Lost(k) \/ (Open(k) /\ k \notin {active, orch})
    BY <1>0 DEF HistorySelect
  <2>4. QED BY <2>1, <2>2, <2>3, NoOrphanKept
<1>6. BusyIsLive'
  BY <1>0, Names
     DEF Inv, TypeOK, BusyIsLive, Polled, Unrefined, OrchIsCurrent, HistorySelect, shown, server
<1>7. QED BY <1>0, <1>1, <1>2, <1>3, <1>4, <1>5, <1>6 DEF Inv

LEMMA JobEndsKeeps ==
  ASSUME Inv, NEW j \in Jobs, JobEnds(j)
  PROVE  Inv'
<1>0. /\ gen \in Gens /\ (op[gen].at = "loading" => op[gen].job \in Jobs)
      /\ Fresh' /\ Named'
      /\ job' \in [Jobs -> {"none", "live", "complete", "failed", "cancelled"}]
      /\ \A k \in Jobs : Open(k)' => Open(k)
  <2>1. PICK end \in {"complete", "failed", "cancelled"} : job' = [job EXCEPT ![j] = end]
    BY DEF JobEnds
  <2>2. job \in [Jobs -> {"none", "live", "complete", "failed", "cancelled"}] /\ fate' = fate
    BY DEF Inv, TypeOK, JobEnds
  <2>3. job'[j] = end /\ \A k \in Jobs \ {j} : job'[k] = job[k]
    BY <2>1, <2>2
  <2>4. \A k \in Jobs : Open(k)' => Open(k)
    BY <2>2, <2>3 DEF Open
  <2>5. Fresh' /\ Named'
    BY DEF Inv, Fresh, Named, JobEnds
  <2>6. QED BY <2>1, <2>2, <2>4, <2>5, LoadingHasTask
<1>1. TypeOK'
  BY <1>0, Names
     DEF Inv, TypeOK, JobEnds, shown, server
<1>2. Polled' /\ Unrefined' /\ Flagged' /\ LeftBeside'
  BY <1>0, Names
     DEF Inv, TypeOK, Polled, Unrefined, Flagged, LeftBeside, OrchIsCurrent, JobEnds, shown, server
<1>3. LoadingIsOver'
  BY <1>0
     DEF Inv, LoadingIsOver, ActiveIsCurrent, JobEnds, shown, server
<1>4. ActiveIsCurrent' /\ OrchIsCurrent'
  BY <1>0, Names
     DEF Inv, TypeOK, Polled, Unrefined, Flagged, LeftBeside, Named, ActiveIsCurrent, OrchIsCurrent, JobEnds, shown, server
<1>5. NoOrphan'
  <2>1. NoOrphan /\ cleared \subseteq cleared'
    BY DEF Inv, TypeOK, JobEnds
  <2>2. \A h \in cleared : op[h].job \in Jobs => op'[h].job = op[h].job
    BY <1>0, Names DEF Inv, TypeOK, JobEnds
  <2>3. \A k \in Jobs : Open(k)' =>
          k \in {active', orch'} \/ Lost(k) \/ (Open(k) /\ k \notin {active, orch})
    BY <1>0 DEF JobEnds, shown
  <2>4. QED BY <2>1, <2>2, <2>3, NoOrphanKept
<1>6. BusyIsLive'
  BY <1>0, Names
     DEF Inv, TypeOK, BusyIsLive, Polled, Unrefined, OrchIsCurrent, JobEnds, shown, server
<1>7. QED BY <1>0, <1>1, <1>2, <1>3, <1>4, <1>5, <1>6 DEF Inv

LEMMA CreatedLateKeeps ==
  ASSUME Inv, NEW g \in Gens, Taken(g), job' = [job EXCEPT ![op[g].job] = "live"],
         UNCHANGED <<gen, running, refining, challenging, result, orchResult, objections, stuck, cleared>>,
         g # gen, fate' = [fate EXCEPT ![op[g].job] = "asked"], Goes(g, "ended"),
         UNCHANGED <<active, orch>>
  PROVE  Inv'
<1>0. /\ gen \in Gens /\ (op[gen].at = "loading" => op[gen].job \in Jobs)
      /\ op[g].job \in Jobs /\ (g # gen => op'[gen] = op[gen])
      /\ op' \in [Gens -> Op \cup {NoOp}]
      /\ op'[g].at = "ended" /\ op'[g].kind = op[g].kind /\ op'[g].job = op[g].job
      /\ \A h \in Gens \ {g} : op'[h] = op[h]
      /\ Fresh' /\ Named'
      /\ fate' \in [Jobs -> {"open", "asked", "gave up", "dropped"}]
      /\ job' \in [Jobs -> {"none", "live", "complete", "failed", "cancelled"}]
      /\ \A k \in Jobs : Open(k)' => Open(k)
  <2>1. /\ gen \in Gens /\ op[g].job \in Jobs
        /\ op' \in [Gens -> Op \cup {NoOp}]
        /\ op'[g].at = "ended" /\ op'[g].kind = op[g].kind /\ op'[g].job = op[g].job
        /\ \A h \in Gens \ {g} : op'[h] = op[h]
        /\ Fresh' /\ Named'
    <3>1. op[g].at # "none" /\ Goes(g, "ended") /\ gen' = gen
      BY DEF Taken
    <3>2. QED BY <3>1, Stepped
  <2>2. TypeOK
    BY DEF Inv
  <2>3. QED BY <2>1, <2>2, Disowned, LoadingHasTask
<1>1. TypeOK'
  BY <1>0, Names
     DEF Inv, TypeOK, Taken, shown, server
<1>2. Polled' /\ Unrefined' /\ Flagged' /\ LeftBeside'
  BY <1>0, Names
     DEF Inv, TypeOK, Polled, Unrefined, Flagged, LeftBeside, OrchIsCurrent, Taken, shown, server
<1>3. LoadingIsOver'
  BY <1>0
     DEF Inv, LoadingIsOver, ActiveIsCurrent, Taken, shown, server
<1>4. ActiveIsCurrent' /\ OrchIsCurrent'
  BY <1>0, Names
     DEF Inv, TypeOK, Polled, Unrefined, Flagged, LeftBeside, Named, ActiveIsCurrent, OrchIsCurrent, Taken, shown, server
<1>5. NoOrphan'
  <2>1. NoOrphan /\ cleared \subseteq cleared'
    BY DEF Inv, TypeOK
  <2>2. \A h \in cleared : op[h].job \in Jobs => op'[h].job = op[h].job
    BY <1>0, Names DEF Inv, TypeOK
  <2>3. \A k \in Jobs : Open(k)' =>
          k \in {active', orch'} \/ Lost(k) \/ (Open(k) /\ k \notin {active, orch})
    BY <1>0
  <2>4. QED BY <2>1, <2>2, <2>3, NoOrphanKept
<1>6. BusyIsLive'
  BY <1>0, Names
     DEF Inv, TypeOK, BusyIsLive, Polled, Unrefined, OrchIsCurrent, Taken, shown, server
<1>7. QED BY <1>0, <1>1, <1>2, <1>3, <1>4, <1>5, <1>6 DEF Inv

LEMMA CreatedManyKeeps ==
  ASSUME Inv, NEW g \in Gens, Taken(g), job' = [job EXCEPT ![op[g].job] = "live"],
         UNCHANGED <<gen, running, refining, challenging, result, orchResult, objections, stuck, cleared>>,
         g = gen, op[g].kind = "orch", fate' = [fate EXCEPT ![op[g].job] = "open"],
         orch' = op[g].job, Goes(g, "ended"), UNCHANGED active
  PROVE  Inv'
<1>0. /\ gen \in Gens /\ (op[gen].at = "loading" => op[gen].job \in Jobs)
      /\ op[g].job \in Jobs /\ (g # gen => op'[gen] = op[gen])
      /\ op' \in [Gens -> Op \cup {NoOp}]
      /\ op'[g].at = "ended" /\ op'[g].kind = op[g].kind /\ op'[g].job = op[g].job
      /\ \A h \in Gens \ {g} : op'[h] = op[h]
      /\ Fresh' /\ Named'
      /\ fate' \in [Jobs -> {"open", "asked", "gave up", "dropped"}]
      /\ job' \in [Jobs -> {"none", "live", "complete", "failed", "cancelled"}]
      /\ active = None /\ op[g].at = "sent"
      /\ orch # None => orch # gen /\ orch \in cleared /\ Lost(orch)
      /\ \A k \in Jobs : Open(k)' => k = op[g].job \/ Open(k)
  <2>1. /\ gen \in Gens /\ op[g].job \in Jobs
        /\ op' \in [Gens -> Op \cup {NoOp}]
        /\ op'[g].at = "ended" /\ op'[g].kind = op[g].kind /\ op'[g].job = op[g].job
        /\ \A h \in Gens \ {g} : op'[h] = op[h]
        /\ Fresh' /\ Named'
    <3>1. op[g].at # "none" /\ Goes(g, "ended") /\ gen' = gen
      BY DEF Taken
    <3>2. QED BY <3>1, Stepped
  <2>2. /\ active = None /\ op[g].at = "sent" /\ TypeOK
        /\ orch # None => orch # gen /\ orch \in cleared /\ Lost(orch)
    BY Awaiting DEF Inv, Taken
  <2>4. /\ fate' \in [Jobs -> {"open", "asked", "gave up", "dropped"}]
        /\ job' \in [Jobs -> {"none", "live", "complete", "failed", "cancelled"}]
        /\ \A k \in Jobs \ {op[g].job} : fate'[k] = fate[k] /\ job'[k] = job[k]
    BY <2>1, <2>2 DEF TypeOK
  <2>5. \A k \in Jobs : Open(k)' => k = op[g].job \/ Open(k)
    BY <2>4 DEF Open
  <2>6. QED BY <2>1, <2>2, <2>4, <2>5, LoadingHasTask
<1>a. orch' = gen /\ gen' = gen /\ active' = None /\ op'[gen].at = "ended" /\ op'[gen].kind = "orch"
  BY <1>0 DEF Inv, Named
<1>1. TypeOK'
  BY <1>0, <1>a DEF Inv, TypeOK
<1>2. Polled' /\ Unrefined' /\ Flagged' /\ LeftBeside'
  BY <1>0, <1>a, Names
     DEF Inv, TypeOK, Polled, Unrefined, Flagged, LeftBeside, OrchIsCurrent, Taken, shown, server
<1>3. LoadingIsOver'
  BY <1>0
     DEF Inv, LoadingIsOver, ActiveIsCurrent, Taken, shown, server
<1>4. ActiveIsCurrent' /\ OrchIsCurrent'
  <2>1. running \/ gen \in cleared
    BY <1>0 DEF Inv, Flagged
  <2>2. QED BY <1>a, <2>1 DEF Inv, ActiveIsCurrent, OrchIsCurrent
<1>5. NoOrphan'
  <2>1. NoOrphan /\ cleared \subseteq cleared'
    BY DEF Inv, TypeOK
  <2>2. \A h \in cleared : op[h].job \in Jobs => op'[h].job = op[h].job
    BY <1>0, Names DEF Inv, TypeOK
  <2>3. \A k \in Jobs : Open(k)' =>
          k \in {active', orch'} \/ Lost(k) \/ (Open(k) /\ k \notin {active, orch})
    BY <1>0, Names
  <2>4. QED BY <2>1, <2>2, <2>3, NoOrphanKept
<1>6. BusyIsLive'
  BY <1>0, <1>a, Names
     DEF Inv, TypeOK, BusyIsLive, Polled, Unrefined, OrchIsCurrent, Taken, shown, server
<1>7. QED BY <1>0, <1>1, <1>2, <1>3, <1>4, <1>5, <1>6 DEF Inv

LEMMA CreatedOneKeeps ==
  ASSUME Inv, NEW g \in Gens, Taken(g), job' = [job EXCEPT ![op[g].job] = "live"],
         UNCHANGED <<gen, running, refining, challenging, result, orchResult, objections, stuck, cleared>>,
         g = gen, op[g].kind # "orch", fate' = [fate EXCEPT ![op[g].job] = "open"],
         active' = op[g].job, Goes(g, "polling"), UNCHANGED orch
  PROVE  Inv'
<1>0. /\ gen \in Gens /\ (op[gen].at = "loading" => op[gen].job \in Jobs)
      /\ op[g].job \in Jobs /\ (g # gen => op'[gen] = op[gen])
      /\ op' \in [Gens -> Op \cup {NoOp}]
      /\ op'[g].at = "polling" /\ op'[g].kind = op[g].kind /\ op'[g].job = op[g].job
      /\ \A h \in Gens \ {g} : op'[h] = op[h]
      /\ Fresh' /\ Named'
      /\ fate' \in [Jobs -> {"open", "asked", "gave up", "dropped"}]
      /\ job' \in [Jobs -> {"none", "live", "complete", "failed", "cancelled"}]
      /\ active = None /\ op[g].at = "sent"
      /\ orch # None => orch # gen /\ orch \in cleared /\ Lost(orch)
      /\ \A k \in Jobs : Open(k)' => k = op[g].job \/ Open(k)
  <2>1. /\ gen \in Gens /\ op[g].job \in Jobs
        /\ op' \in [Gens -> Op \cup {NoOp}]
        /\ op'[g].at = "polling" /\ op'[g].kind = op[g].kind /\ op'[g].job = op[g].job
        /\ \A h \in Gens \ {g} : op'[h] = op[h]
        /\ Fresh' /\ Named'
    <3>1. op[g].at # "none" /\ Goes(g, "polling") /\ gen' = gen
      BY DEF Taken
    <3>2. QED BY <3>1, Stepped
  <2>2. /\ active = None /\ op[g].at = "sent" /\ TypeOK
        /\ orch # None => orch # gen /\ orch \in cleared /\ Lost(orch)
    BY Awaiting DEF Inv, Taken
  <2>4. /\ fate' \in [Jobs -> {"open", "asked", "gave up", "dropped"}]
        /\ job' \in [Jobs -> {"none", "live", "complete", "failed", "cancelled"}]
        /\ \A k \in Jobs \ {op[g].job} : fate'[k] = fate[k] /\ job'[k] = job[k]
    BY <2>1, <2>2 DEF TypeOK
  <2>5. \A k \in Jobs : Open(k)' => k = op[g].job \/ Open(k)
    BY <2>4 DEF Open
  <2>6. QED BY <2>1, <2>2, <2>4, <2>5, LoadingHasTask
<1>1. TypeOK'
  BY <1>0, Names
     DEF Inv, TypeOK, Taken, shown, server
<1>2. Polled' /\ Unrefined' /\ Flagged' /\ LeftBeside'
  BY <1>0, Names
     DEF Inv, TypeOK, Polled, Unrefined, Flagged, LeftBeside, OrchIsCurrent, Taken, shown, server
<1>3. LoadingIsOver'
  BY <1>0
     DEF Inv, LoadingIsOver, ActiveIsCurrent, Taken, shown, server
<1>4. ActiveIsCurrent' /\ OrchIsCurrent'
  BY <1>0, Names
     DEF Inv, TypeOK, Polled, Unrefined, Flagged, LeftBeside, Named, ActiveIsCurrent, OrchIsCurrent, Taken, shown, server
<1>5. NoOrphan'
  <2>1. NoOrphan /\ cleared \subseteq cleared'
    BY DEF Inv, TypeOK
  <2>2. \A h \in cleared : op[h].job \in Jobs => op'[h].job = op[h].job
    BY <1>0, Names DEF Inv, TypeOK
  <2>3. \A k \in Jobs : Open(k)' =>
          k \in {active', orch'} \/ Lost(k) \/ (Open(k) /\ k \notin {active, orch})
    BY <1>0, Names
  <2>4. QED BY <2>1, <2>2, <2>3, NoOrphanKept
<1>6. BusyIsLive'
  BY <1>0, Names
     DEF Inv, TypeOK, BusyIsLive, Polled, Unrefined, OrchIsCurrent, Taken, shown, server
<1>7. QED BY <1>0, <1>1, <1>2, <1>3, <1>4, <1>5, <1>6 DEF Inv

LEMMA CreatedKeeps ==
  ASSUME Inv, NEW g \in Gens, Created(g)
  PROVE  Inv'
  BY CreatedLateKeeps, CreatedManyKeeps, CreatedOneKeeps DEF Created

LEMMA RefusedKeeps ==
  ASSUME Inv, NEW g \in Gens, Refused(g)
  PROVE  Inv'
<1>0. /\ gen \in Gens /\ (op[gen].at = "loading" => op[gen].job \in Jobs)
      /\ op[g].job \in Jobs /\ (g # gen => op'[gen] = op[gen])
      /\ op' \in [Gens -> Op \cup {NoOp}]
      /\ op'[g].at = "ended" /\ op'[g].kind = op[g].kind /\ op'[g].job = op[g].job
      /\ \A h \in Gens \ {g} : op'[h] = op[h]
      /\ Fresh' /\ Named'
      /\ fate' \in [Jobs -> {"open", "asked", "gave up", "dropped"}]
      /\ job' \in [Jobs -> {"none", "live", "complete", "failed", "cancelled"}]
      /\ \A k \in Jobs : Open(k)' => Open(k)
  <2>1. /\ gen \in Gens /\ op[g].job \in Jobs
        /\ op' \in [Gens -> Op \cup {NoOp}]
        /\ op'[g].at = "ended" /\ op'[g].kind = op[g].kind /\ op'[g].job = op[g].job
        /\ \A h \in Gens \ {g} : op'[h] = op[h]
        /\ Fresh' /\ Named'
    <3>1. op[g].at # "none" /\ Goes(g, "ended") /\ gen' = gen
      BY DEF Refused
    <3>2. QED BY <3>1, Stepped
  <2>2. CASE UNCHANGED server
    BY <2>1, <2>2, SameOpen, LoadingHasTask DEF Inv, TypeOK, server
  <2>3. CASE /\ job' = [job EXCEPT ![op[g].job] = "live"]
             /\ fate' = [fate EXCEPT ![op[g].job] = "gave up"]
    <3>1. TypeOK
      BY DEF Inv
    <3>2. QED BY <2>1, <2>3, <3>1, Disowned, LoadingHasTask
  <2>4. QED BY <2>2, <2>3 DEF Refused
<1>1. TypeOK'
  BY <1>0, Names
     DEF Inv, TypeOK, Refused, NotBusy, shown, server
<1>2. Polled' /\ Unrefined' /\ Flagged' /\ LeftBeside'
  BY <1>0, Names
     DEF Inv, TypeOK, Polled, Unrefined, Flagged, LeftBeside, OrchIsCurrent, Refused, NotBusy, shown, server
<1>3. LoadingIsOver'
  BY <1>0
     DEF Inv, LoadingIsOver, ActiveIsCurrent, Refused, NotBusy, shown, server
<1>4. ActiveIsCurrent' /\ OrchIsCurrent'
  BY <1>0, Names
     DEF Inv, TypeOK, Polled, Unrefined, Flagged, LeftBeside, Named, ActiveIsCurrent, OrchIsCurrent, Refused, NotBusy, shown, server
<1>5. NoOrphan'
  <2>1. NoOrphan /\ cleared \subseteq cleared'
    BY DEF Inv, TypeOK, Refused
  <2>2. \A h \in cleared : op[h].job \in Jobs => op'[h].job = op[h].job
    BY <1>0, Names DEF Inv, TypeOK, Refused
  <2>3. \A k \in Jobs : Open(k)' =>
          k \in {active', orch'} \/ Lost(k) \/ (Open(k) /\ k \notin {active, orch})
    BY <1>0, Awaiting, Names DEF Refused
  <2>4. QED BY <2>1, <2>2, <2>3, NoOrphanKept
<1>6. BusyIsLive'
  BY <1>0, Names
     DEF Inv, TypeOK, BusyIsLive, Polled, Unrefined, OrchIsCurrent, Refused, NotBusy, shown, server
<1>7. QED BY <1>0, <1>1, <1>2, <1>3, <1>4, <1>5, <1>6 DEF Inv

LEMMA OvertakenKeeps ==
  ASSUME Inv, NEW g \in Gens, Overtaken(g)
  PROVE  Inv'
<1>0. /\ gen \in Gens /\ (op[gen].at = "loading" => op[gen].job \in Jobs)
      /\ op[g].job \in Jobs /\ (g # gen => op'[gen] = op[gen])
      /\ op' \in [Gens -> Op \cup {NoOp}]
      /\ op'[g].at = "ended" /\ op'[g].kind = op[g].kind /\ op'[g].job = op[g].job
      /\ \A h \in Gens \ {g} : op'[h] = op[h]
      /\ Fresh' /\ Named'
      /\ fate' \in [Jobs -> {"open", "asked", "gave up", "dropped"}]
      /\ job' \in [Jobs -> {"none", "live", "complete", "failed", "cancelled"}]
      /\ \A k \in Jobs : Open(k)' => Open(k)
      /\ active = op[g].job => ~Open(op[g].job)'
  <2>1. /\ gen \in Gens /\ op[g].job \in Jobs
        /\ op' \in [Gens -> Op \cup {NoOp}]
        /\ op'[g].at = "ended" /\ op'[g].kind = op[g].kind /\ op'[g].job = op[g].job
        /\ \A h \in Gens \ {g} : op'[h] = op[h]
        /\ Fresh' /\ Named'
    <3>1. op[g].at # "none" /\ Goes(g, "ended") /\ gen' = gen
      BY DEF Overtaken
    <3>2. QED BY <3>1, Stepped
  <2>2. TypeOK /\ job' = job
    BY DEF Inv, Overtaken
  <2>3. CASE fate' = LetGo(op[g].job, "dropped")
    BY <2>1, <2>2, <2>3, LetGoTyped, LetGoCloses, LoadingHasTask DEF TypeOK
  <2>4. CASE fate' = fate /\ active # op[g].job
    BY <2>1, <2>2, <2>4, SameOpen, LoadingHasTask DEF TypeOK
  <2>5. QED BY <2>3, <2>4 DEF Overtaken
<1>1. TypeOK'
  BY <1>0, Names
     DEF Inv, TypeOK, Overtaken, ClearActive, shown, server
<1>2. Polled' /\ Unrefined' /\ Flagged' /\ LeftBeside'
  BY <1>0, Names
     DEF Inv, TypeOK, Polled, Unrefined, Flagged, LeftBeside, OrchIsCurrent, Overtaken, ClearActive, shown, server
<1>3. LoadingIsOver'
  BY <1>0
     DEF Inv, LoadingIsOver, ActiveIsCurrent, Overtaken, ClearActive, shown, server
<1>4. ActiveIsCurrent' /\ OrchIsCurrent'
  BY <1>0, Names
     DEF Inv, TypeOK, Polled, Unrefined, Flagged, LeftBeside, Named, ActiveIsCurrent, OrchIsCurrent, Overtaken, ClearActive, shown, server
<1>5. NoOrphan'
  <2>1. NoOrphan /\ cleared \subseteq cleared'
    BY DEF Inv, TypeOK, Overtaken
  <2>2. \A h \in cleared : op[h].job \in Jobs => op'[h].job = op[h].job
    BY <1>0, Names DEF Inv, TypeOK, Overtaken
  <2>3. \A k \in Jobs : Open(k)' =>
          k \in {active', orch'} \/ Lost(k) \/ (Open(k) /\ k \notin {active, orch})
    BY <1>0 DEF Overtaken, ClearActive, shown
  <2>4. QED BY <2>1, <2>2, <2>3, NoOrphanKept
<1>6. BusyIsLive'
  BY <1>0, Names
     DEF Inv, TypeOK, BusyIsLive, Polled, Unrefined, OrchIsCurrent, Overtaken, ClearActive, shown, server
<1>7. QED BY <1>0, <1>1, <1>2, <1>3, <1>4, <1>5, <1>6 DEF Inv

LEMMA PollOverKeeps ==
  ASSUME Inv, NEW g \in Gens, PollOver(g)
  PROVE  Inv'
<1>0. /\ gen \in Gens /\ (op[gen].at = "loading" => op[gen].job \in Jobs)
      /\ op[g].job \in Jobs /\ (g # gen => op'[gen] = op[gen])
      /\ op' \in [Gens -> Op \cup {NoOp}]
      /\ op'[g].at = "ended" /\ op'[g].kind = op[g].kind /\ op'[g].job = op[g].job
      /\ \A h \in Gens \ {g} : op'[h] = op[h]
      /\ Fresh' /\ Named'
      /\ fate' \in [Jobs -> {"open", "asked", "gave up", "dropped"}]
      /\ job' \in [Jobs -> {"none", "live", "complete", "failed", "cancelled"}]
      /\ \A k \in Jobs : Open(k)' => Open(k)
      /\ ~Open(op[g].job)'
  <2>1. /\ gen \in Gens /\ op[g].job \in Jobs
        /\ op' \in [Gens -> Op \cup {NoOp}]
        /\ op'[g].at = "ended" /\ op'[g].kind = op[g].kind /\ op'[g].job = op[g].job
        /\ \A h \in Gens \ {g} : op'[h] = op[h]
        /\ Fresh' /\ Named'
    <3>1. op[g].at # "none" /\ Goes(g, "ended") /\ gen' = gen
      BY DEF PollOver
    <3>2. QED BY <3>1, Stepped
  <2>2. TypeOK /\ job' = job
    BY DEF Inv, PollOver
  <2>3. CASE fate' = LetGo(op[g].job, "gave up")
    BY <2>1, <2>2, <2>3, LetGoTyped, LetGoCloses, LoadingHasTask DEF TypeOK
  <2>4. CASE fate' = fate /\ job[op[g].job] # "live"
    BY <2>1, <2>2, <2>4, SameOpen, LoadingHasTask DEF TypeOK, Open
  <2>5. QED BY <2>3, <2>4 DEF PollOver
<1>1. TypeOK'
  BY <1>0, Names
     DEF Inv, TypeOK, PollOver, ClearActive, NotBusy, shown, server
<1>2. Polled' /\ Unrefined' /\ Flagged' /\ LeftBeside'
  BY <1>0, Names
     DEF Inv, TypeOK, Polled, Unrefined, Flagged, LeftBeside, OrchIsCurrent, PollOver, ClearActive, NotBusy, shown, server
<1>3. LoadingIsOver'
  BY <1>0
     DEF Inv, LoadingIsOver, ActiveIsCurrent, PollOver, ClearActive, NotBusy, shown, server
<1>4. ActiveIsCurrent' /\ OrchIsCurrent'
  BY <1>0, Names
     DEF Inv, TypeOK, Polled, Unrefined, Flagged, LeftBeside, Named, ActiveIsCurrent, OrchIsCurrent, PollOver, ClearActive, NotBusy, shown, server
<1>5. NoOrphan'
  <2>1. NoOrphan /\ cleared \subseteq cleared'
    BY DEF Inv, TypeOK, PollOver
  <2>2. \A h \in cleared : op[h].job \in Jobs => op'[h].job = op[h].job
    BY <1>0, Names DEF Inv, TypeOK, PollOver
  <2>3. \A k \in Jobs : Open(k)' =>
          k \in {active', orch'} \/ Lost(k) \/ (Open(k) /\ k \notin {active, orch})
    BY <1>0 DEF PollOver, ClearActive
  <2>4. QED BY <2>1, <2>2, <2>3, NoOrphanKept
<1>6. BusyIsLive'
  BY <1>0, Names
     DEF Inv, TypeOK, BusyIsLive, Polled, Unrefined, OrchIsCurrent, PollOver, ClearActive, NotBusy, shown, server
<1>7. QED BY <1>0, <1>1, <1>2, <1>3, <1>4, <1>5, <1>6 DEF Inv

LEMMA PollDoneKeeps ==
  ASSUME Inv, NEW g \in Gens, PollDone(g)
  PROVE  Inv'
<1>0. /\ gen \in Gens /\ (op[gen].at = "loading" => op[gen].job \in Jobs)
      /\ op[g].job \in Jobs /\ (g # gen => op'[gen] = op[gen])
      /\ op' \in [Gens -> Op \cup {NoOp}]
      /\ op'[g].at = "loading" /\ op'[g].kind = op[g].kind /\ op'[g].job = op[g].job
      /\ \A h \in Gens \ {g} : op'[h] = op[h]
      /\ Fresh' /\ Named'
      /\ fate' \in [Jobs -> {"open", "asked", "gave up", "dropped"}]
      /\ job' \in [Jobs -> {"none", "live", "complete", "failed", "cancelled"}]
      /\ \A k \in Jobs : Open(k)' = Open(k)
      /\ ~Open(op[g].job)
  <2>1. /\ gen \in Gens /\ op[g].job \in Jobs
        /\ op' \in [Gens -> Op \cup {NoOp}]
        /\ op'[g].at = "loading" /\ op'[g].kind = op[g].kind /\ op'[g].job = op[g].job
        /\ \A h \in Gens \ {g} : op'[h] = op[h]
        /\ Fresh' /\ Named'
    <3>1. op[g].at # "none" /\ Goes(g, "loading") /\ gen' = gen
      BY DEF PollDone
    <3>2. QED BY <3>1, Stepped
  <2>2. QED BY <2>1, SameOpen, LoadingHasTask DEF Inv, TypeOK, PollDone, Open, server
<1>1. TypeOK'
  BY <1>0, Names
     DEF Inv, TypeOK, PollDone, shown, server
<1>2. Polled' /\ Unrefined' /\ Flagged' /\ LeftBeside'
  BY <1>0, Names
     DEF Inv, TypeOK, Polled, Unrefined, Flagged, LeftBeside, OrchIsCurrent, PollDone, shown, server
<1>3. LoadingIsOver'
  BY <1>0
     DEF Inv, LoadingIsOver, ActiveIsCurrent, PollDone, shown, server
<1>4. ActiveIsCurrent' /\ OrchIsCurrent'
  BY <1>0, Names
     DEF Inv, TypeOK, Polled, Unrefined, Flagged, LeftBeside, Named, ActiveIsCurrent, OrchIsCurrent, PollDone, shown, server
<1>5. NoOrphan'
  <2>1. NoOrphan /\ cleared \subseteq cleared'
    BY DEF Inv, TypeOK, PollDone
  <2>2. \A h \in cleared : op[h].job \in Jobs => op'[h].job = op[h].job
    BY <1>0, Names DEF Inv, TypeOK, PollDone
  <2>3. \A k \in Jobs : Open(k)' =>
          k \in {active', orch'} \/ Lost(k) \/ (Open(k) /\ k \notin {active, orch})
    BY <1>0 DEF PollDone, shown
  <2>4. QED BY <2>1, <2>2, <2>3, NoOrphanKept
<1>6. BusyIsLive'
  BY <1>0, Names
     DEF Inv, TypeOK, BusyIsLive, Polled, Unrefined, OrchIsCurrent, PollDone, shown, server
<1>7. QED BY <1>0, <1>1, <1>2, <1>3, <1>4, <1>5, <1>6 DEF Inv

LEMMA LoadedKeeps ==
  ASSUME Inv, NEW g \in Gens, Loaded(g)
  PROVE  Inv'
<1>0. /\ gen \in Gens /\ (op[gen].at = "loading" => op[gen].job \in Jobs)
      /\ op[g].job \in Jobs /\ (g # gen => op'[gen] = op[gen])
      /\ op' \in [Gens -> Op \cup {NoOp}]
      /\ op'[g].at = "ended" /\ op'[g].kind = op[g].kind /\ op'[g].job = op[g].job
      /\ \A h \in Gens \ {g} : op'[h] = op[h]
      /\ Fresh' /\ Named'
      /\ fate' \in [Jobs -> {"open", "asked", "gave up", "dropped"}]
      /\ job' \in [Jobs -> {"none", "live", "complete", "failed", "cancelled"}]
      /\ \A k \in Jobs : Open(k)' = Open(k)
      /\ ~Open(op[g].job)
  <2>1. /\ gen \in Gens /\ op[g].job \in Jobs
        /\ op' \in [Gens -> Op \cup {NoOp}]
        /\ op'[g].at = "ended" /\ op'[g].kind = op[g].kind /\ op'[g].job = op[g].job
        /\ \A h \in Gens \ {g} : op'[h] = op[h]
        /\ Fresh' /\ Named'
    <3>1. op[g].at # "none" /\ Goes(g, "ended") /\ gen' = gen
      BY DEF Loaded
    <3>2. QED BY <3>1, Stepped
  <2>2. QED BY <2>1, SameOpen, LoadingHasTask DEF Inv, TypeOK, Loaded, LoadingIsOver, server
<1>1. TypeOK'
  BY <1>0, Names
     DEF Inv, TypeOK, Loaded, ClearActive, NotBusy, shown, server
<1>2. Polled' /\ Unrefined' /\ Flagged' /\ LeftBeside'
  BY <1>0, Names
     DEF Inv, TypeOK, Polled, Unrefined, Flagged, LeftBeside, OrchIsCurrent, Loaded, ClearActive, NotBusy, shown, server
<1>3. LoadingIsOver'
  BY <1>0
     DEF Inv, LoadingIsOver, ActiveIsCurrent, Loaded, ClearActive, NotBusy, shown, server
<1>4. ActiveIsCurrent' /\ OrchIsCurrent'
  BY <1>0, Names
     DEF Inv, TypeOK, Polled, Unrefined, Flagged, LeftBeside, Named, ActiveIsCurrent, OrchIsCurrent, Loaded, ClearActive, NotBusy, shown, server
<1>5. NoOrphan'
  <2>1. NoOrphan /\ cleared \subseteq cleared'
    BY DEF Inv, TypeOK, Loaded
  <2>2. \A h \in cleared : op[h].job \in Jobs => op'[h].job = op[h].job
    BY <1>0, Names DEF Inv, TypeOK, Loaded
  <2>3. \A k \in Jobs : Open(k)' =>
          k \in {active', orch'} \/ Lost(k) \/ (Open(k) /\ k \notin {active, orch})
    BY <1>0 DEF Loaded, ClearActive
  <2>4. QED BY <2>1, <2>2, <2>3, NoOrphanKept
<1>6. BusyIsLive'
  BY <1>0, Names
     DEF Inv, TypeOK, BusyIsLive, Polled, Unrefined, OrchIsCurrent, Loaded, ClearActive, NotBusy, shown, server
<1>7. QED BY <1>0, <1>1, <1>2, <1>3, <1>4, <1>5, <1>6 DEF Inv

LEMMA ChallengedKeeps ==
  ASSUME Inv, NEW g \in Gens, Challenged(g)
  PROVE  Inv'
<1>0. /\ gen \in Gens /\ (op[gen].at = "loading" => op[gen].job \in Jobs)
      /\ op[g].job \in Jobs /\ (g # gen => op'[gen] = op[gen])
      /\ op' \in [Gens -> Op \cup {NoOp}]
      /\ op'[g].at = "ended" /\ op'[g].kind = op[g].kind /\ op'[g].job = op[g].job
      /\ \A h \in Gens \ {g} : op'[h] = op[h]
      /\ Fresh' /\ Named'
      /\ fate' \in [Jobs -> {"open", "asked", "gave up", "dropped"}]
      /\ job' \in [Jobs -> {"none", "live", "complete", "failed", "cancelled"}]
      /\ \A k \in Jobs : Open(k)' = Open(k)
  <2>1. /\ gen \in Gens /\ op[g].job \in Jobs
        /\ op' \in [Gens -> Op \cup {NoOp}]
        /\ op'[g].at = "ended" /\ op'[g].kind = op[g].kind /\ op'[g].job = op[g].job
        /\ \A h \in Gens \ {g} : op'[h] = op[h]
        /\ Fresh' /\ Named'
    <3>1. op[g].at # "none" /\ Goes(g, "ended") /\ gen' = gen
      BY DEF Challenged
    <3>2. QED BY <3>1, Stepped
  <2>2. QED BY <2>1, SameOpen, LoadingHasTask DEF Inv, TypeOK, Challenged, server
<1>1. TypeOK'
  BY <1>0, Names
     DEF Inv, TypeOK, Challenged, shown, server
<1>2. Polled' /\ Unrefined' /\ Flagged' /\ LeftBeside'
  BY <1>0, Names
     DEF Inv, TypeOK, Polled, Unrefined, Flagged, LeftBeside, OrchIsCurrent, Challenged, shown, server
<1>3. LoadingIsOver'
  BY <1>0
     DEF Inv, LoadingIsOver, ActiveIsCurrent, Challenged, shown, server
<1>4. ActiveIsCurrent' /\ OrchIsCurrent'
  BY <1>0, Names
     DEF Inv, TypeOK, Polled, Unrefined, Flagged, LeftBeside, Named, ActiveIsCurrent, OrchIsCurrent, Challenged, shown, server
<1>5. NoOrphan'
  <2>1. NoOrphan /\ cleared \subseteq cleared'
    BY DEF Inv, TypeOK, Challenged
  <2>2. \A h \in cleared : op[h].job \in Jobs => op'[h].job = op[h].job
    BY <1>0, Names DEF Inv, TypeOK, Challenged
  <2>3. \A k \in Jobs : Open(k)' =>
          k \in {active', orch'} \/ Lost(k) \/ (Open(k) /\ k \notin {active, orch})
    BY <1>0 DEF Challenged
  <2>4. QED BY <2>1, <2>2, <2>3, NoOrphanKept
<1>6. BusyIsLive'
  <2>1. CASE g = gen
    BY <1>0, <2>1 DEF Inv, BusyIsLive, Challenged
  <2>2. CASE g # gen
    <3>1. /\ op'[gen'] = op[gen] /\ BusyIsLive
          /\ UNCHANGED <<gen, running, challenging, orch, stuck>>
      BY <1>0, <2>2 DEF Inv, Challenged
    <3>2. QED BY <3>1 DEF BusyIsLive
  <2>3. QED BY <2>1, <2>2
<1>7. QED BY <1>0, <1>1, <1>2, <1>3, <1>4, <1>5, <1>6 DEF Inv

LEMMA LocalOnlyKeeps ==
  ASSUME Inv, NEW g \in Gens, LocalOnly(g)
  PROVE  Inv'
<1>0. /\ gen \in Gens /\ (op[gen].at = "loading" => op[gen].job \in Jobs)
      /\ op[g].job \in Jobs /\ (g # gen => op'[gen] = op[gen])
      /\ op' \in [Gens -> Op \cup {NoOp}]
      /\ op'[g].at = "handoff" /\ op'[g].kind = op[g].kind /\ op'[g].job = op[g].job
      /\ \A h \in Gens \ {g} : op'[h] = op[h]
      /\ Fresh' /\ Named'
      /\ fate' \in [Jobs -> {"open", "asked", "gave up", "dropped"}]
      /\ job' \in [Jobs -> {"none", "live", "complete", "failed", "cancelled"}]
      /\ \A k \in Jobs : Open(k)' = Open(k)
  <2>1. /\ gen \in Gens /\ op[g].job \in Jobs
        /\ op' \in [Gens -> Op \cup {NoOp}]
        /\ op'[g].at = "handoff" /\ op'[g].kind = op[g].kind /\ op'[g].job = op[g].job
        /\ \A h \in Gens \ {g} : op'[h] = op[h]
        /\ Fresh' /\ Named'
    <3>1. op[g].at # "none" /\ Goes(g, "handoff") /\ gen' = gen
      BY DEF LocalOnly
    <3>2. QED BY <3>1, Stepped
  <2>2. QED BY <2>1, SameOpen, LoadingHasTask DEF Inv, TypeOK, LocalOnly, server
<1>1. TypeOK'
  BY <1>0, Names
     DEF Inv, TypeOK, LocalOnly, shown, server
<1>2. Polled' /\ Unrefined' /\ Flagged' /\ LeftBeside'
  BY <1>0, Names
     DEF Inv, TypeOK, Polled, Unrefined, Flagged, LeftBeside, OrchIsCurrent, LocalOnly, shown, server
<1>3. LoadingIsOver'
  BY <1>0
     DEF Inv, LoadingIsOver, ActiveIsCurrent, LocalOnly, shown, server
<1>4. ActiveIsCurrent' /\ OrchIsCurrent'
  BY <1>0, Names
     DEF Inv, TypeOK, Polled, Unrefined, Flagged, LeftBeside, Named, ActiveIsCurrent, OrchIsCurrent, LocalOnly, shown, server
<1>5. NoOrphan'
  <2>1. NoOrphan /\ cleared \subseteq cleared'
    BY DEF Inv, TypeOK, LocalOnly
  <2>2. \A h \in cleared : op[h].job \in Jobs => op'[h].job = op[h].job
    BY <1>0, Names DEF Inv, TypeOK, LocalOnly
  <2>3. \A k \in Jobs : Open(k)' =>
          k \in {active', orch'} \/ Lost(k) \/ (Open(k) /\ k \notin {active, orch})
    BY <1>0 DEF LocalOnly, shown
  <2>4. QED BY <2>1, <2>2, <2>3, NoOrphanKept
<1>6. BusyIsLive'
  BY <1>0, Names
     DEF Inv, TypeOK, BusyIsLive, Polled, Unrefined, OrchIsCurrent, LocalOnly, shown, server
<1>7. QED BY <1>0, <1>1, <1>2, <1>3, <1>4, <1>5, <1>6 DEF Inv

LEMMA HandedOffKeeps ==
  ASSUME Inv, NEW g \in Gens, HandedOff(g)
  PROVE  Inv'
<1>0. /\ gen \in Gens /\ (op[gen].at = "loading" => op[gen].job \in Jobs)
      /\ op[g].job \in Jobs /\ (g # gen => op'[gen] = op[gen])
      /\ op' \in [Gens -> Op \cup {NoOp}]
      /\ op'[g].at = "ended" /\ op'[g].kind = op[g].kind /\ op'[g].job = op[g].job
      /\ \A h \in Gens \ {g} : op'[h] = op[h]
      /\ Fresh' /\ Named'
      /\ fate' \in [Jobs -> {"open", "asked", "gave up", "dropped"}]
      /\ job' \in [Jobs -> {"none", "live", "complete", "failed", "cancelled"}]
      /\ \A k \in Jobs : Open(k)' = Open(k)
  <2>1. /\ gen \in Gens /\ op[g].job \in Jobs
        /\ op' \in [Gens -> Op \cup {NoOp}]
        /\ op'[g].at = "ended" /\ op'[g].kind = op[g].kind /\ op'[g].job = op[g].job
        /\ \A h \in Gens \ {g} : op'[h] = op[h]
        /\ Fresh' /\ Named'
    <3>1. op[g].at # "none" /\ Goes(g, "ended") /\ gen' = gen
      BY DEF HandedOff
    <3>2. QED BY <3>1, Stepped
  <2>2. QED BY <2>1, SameOpen, LoadingHasTask DEF Inv, TypeOK, HandedOff, server
<1>1. TypeOK'
  BY <1>0, Names
     DEF Inv, TypeOK, HandedOff, shown, server
<1>2. Polled' /\ Unrefined' /\ Flagged' /\ LeftBeside'
  <2>1. Polled' /\ LeftBeside'
    BY <1>0, Names DEF Inv, TypeOK, Polled, LeftBeside, HandedOff
  <2>2. Unrefined'
    BY <1>0 DEF Inv, Unrefined, HandedOff
  <2>3. CASE g = gen
    BY <1>0, <2>1, <2>2, <2>3 DEF Flagged, HandedOff
  <2>4. CASE g # gen
    <3>1. op'[gen] = op[gen] /\ gen' = gen /\ (running => gen \in cleared') /\ cleared \subseteq cleared'
      BY <1>0, <2>4 DEF HandedOff
    <3>2. Flagged'
      BY <3>1 DEF Inv, Flagged
    <3>3. QED BY <2>1, <2>2, <3>2
  <2>5. QED BY <2>3, <2>4
<1>3. LoadingIsOver'
  BY <1>0
     DEF Inv, LoadingIsOver, ActiveIsCurrent, HandedOff, shown, server
<1>4. ActiveIsCurrent' /\ OrchIsCurrent'
  BY <1>0, Names
     DEF Inv, TypeOK, Polled, Unrefined, Flagged, LeftBeside, Named, ActiveIsCurrent, OrchIsCurrent, HandedOff, shown, server
<1>5. NoOrphan'
  <2>1. NoOrphan /\ cleared \subseteq cleared'
    BY DEF Inv, TypeOK, HandedOff
  <2>2. \A h \in cleared : op[h].job \in Jobs => op'[h].job = op[h].job
    BY <1>0, Names DEF Inv, TypeOK, HandedOff
  <2>3. \A k \in Jobs : Open(k)' =>
          k \in {active', orch'} \/ Lost(k) \/ (Open(k) /\ k \notin {active, orch})
    BY <1>0 DEF HandedOff
  <2>4. QED BY <2>1, <2>2, <2>3, NoOrphanKept
<1>6. BusyIsLive'
  BY <1>0, Names
     DEF Inv, TypeOK, BusyIsLive, Polled, Unrefined, OrchIsCurrent, HandedOff, shown, server
<1>7. QED BY <1>0, <1>1, <1>2, <1>3, <1>4, <1>5, <1>6 DEF Inv

LEMMA TickStepKeeps ==
  ASSUME Inv, Tick
  PROVE  Inv'
<1>0. /\ gen \in Gens /\ (op[gen].at = "loading" => op[gen].job \in Jobs)
      /\ Fresh' /\ Named'
      /\ fate' \in [Jobs -> {"open", "asked", "gave up", "dropped"}]
      /\ \A k \in Jobs : Open(k)' => Open(k) /\ k # orch
      /\ active # None => gen \in cleared
  <2>1. /\ TypeOK /\ job' = job /\ fate' = LetGo(orch, "gave up") /\ orch \in Jobs
        /\ active # None => gen \in cleared
    BY Names DEF Inv, TypeOK, Tick, ActiveIsCurrent, Polled, LeftBeside
  <2>2. Fresh' /\ Named'
    BY DEF Inv, Fresh, Named, Tick
  <2>3. QED BY <2>1, <2>2, LetGoTyped, LetGoCloses, LoadingHasTask
<1>1. TypeOK'
  BY <1>0, Names
     DEF Inv, TypeOK, Tick, shown, server
<1>2. Polled' /\ Unrefined' /\ Flagged' /\ LeftBeside'
  BY <1>0, Names
     DEF Inv, TypeOK, Polled, Unrefined, Flagged, LeftBeside, OrchIsCurrent, Tick, shown, server
<1>3. LoadingIsOver'
  BY <1>0
     DEF Inv, LoadingIsOver, ActiveIsCurrent, Tick, shown, server
<1>4. ActiveIsCurrent' /\ OrchIsCurrent'
  BY <1>0, Names
     DEF Inv, TypeOK, Polled, Unrefined, Flagged, LeftBeside, Named, ActiveIsCurrent, OrchIsCurrent, Tick, shown, server
<1>5. NoOrphan'
  <2>1. NoOrphan /\ cleared \subseteq cleared'
    BY DEF Inv, TypeOK, Tick
  <2>2. \A h \in cleared : op[h].job \in Jobs => op'[h].job = op[h].job
    BY <1>0, Names DEF Inv, TypeOK, Tick
  <2>3. \A k \in Jobs : Open(k)' =>
          k \in {active', orch'} \/ Lost(k) \/ (Open(k) /\ k \notin {active, orch})
    BY <1>0 DEF Tick
  <2>4. QED BY <2>1, <2>2, <2>3, NoOrphanKept
<1>6. BusyIsLive'
  BY <1>0, Names
     DEF Inv, TypeOK, BusyIsLive, Polled, Unrefined, OrchIsCurrent, Tick, shown, server
<1>7. QED BY <1>0, <1>1, <1>2, <1>3, <1>4, <1>5, <1>6 DEF Inv

LEMMA NextKeeps == Inv /\ [Next]_vars => Inv'
<1> SUFFICES ASSUME Inv, [Next]_vars PROVE Inv'
  OBVIOUS
<1>1. CASE UNCHANGED vars
  <2>1. \A k : Open(k)' = Open(k)
    BY <1>1, SameOpen DEF vars, server
  <2>2. (Fresh /\ Named /\ NoOrphan /\ LoadingIsOver)' = (Fresh /\ Named /\ NoOrphan /\ LoadingIsOver)
    BY <1>1, <2>1 DEF Fresh, Named, NoOrphan, LoadingIsOver, vars, shown
  <2>3. TypeOK'
    BY <1>1 DEF Inv, TypeOK, vars, shown, server
  <2>4. (Polled /\ Unrefined /\ Flagged /\ LeftBeside)'
    BY <1>1 DEF Inv, Polled, Unrefined, Flagged, LeftBeside, vars, shown
  <2>5. (ActiveIsCurrent /\ OrchIsCurrent /\ BusyIsLive)'
    BY <1>1 DEF Inv, ActiveIsCurrent, OrchIsCurrent, BusyIsLive, vars, shown
  <2>6. QED BY <2>2, <2>3, <2>4, <2>5 DEF Inv
<1>2. CASE Run \/ Orchestrate \/ Refine \/ Challenge \/ ResetRun \/ Tick
  BY <1>2, RunKeeps, OrchestrateKeeps, RefineKeeps, ChallengeKeeps, ResetRunKeeps, TickStepKeeps
<1>3. CASE Stop \/ NewTask
  BY <1>3, StopWorkKeeps DEF Stop, NewTask
<1>4. ASSUME NEW g \in Gens, HandlerStep(g) PROVE Inv'
  BY <1>4, CreatedKeeps, RefusedKeeps, OvertakenKeeps, PollDoneKeeps, PollOverKeeps, LoadedKeeps,
     ChallengedKeeps, LocalOnlyKeeps, HandedOffKeeps DEF HandlerStep
<1>5. ASSUME NEW j \in Jobs, HistorySelect(j) \/ JobEnds(j) PROVE Inv'
  BY <1>5, HistorySelectKeeps, JobEndsKeeps
<1>6. QED BY <1>1, <1>2, <1>3, <1>4, <1>5 DEF Next

THEOREM Invariant == Spec => []Inv
  BY InitInv, NextKeeps, PTL DEF Spec

-----------------------------------------------------------------------------

\* Every variable keeps its type.
THEOREM TypeCorrect == Spec => []TypeOK
  BY Invariant, PTL DEF Inv

\* Stop never cancels a task or a run of another handler than the last one
\* (activeTaskIdRef, orchActiveId).
THEOREM StopActsOnTheLast == Spec => []StopIsCurrent
  BY Invariant, PTL DEF Inv, StopIsCurrent

\* No job is left running out of the reach of Stop (handleStopAgentWork), but for
\* the ways of losing one that fate names.
THEOREM NothingIsOrphaned == Spec => []NoOrphan
  BY Invariant, PTL DEF Inv

\* A busy page has a handler that will end it (isRunning, isChallengingAnswer).
THEOREM BusyHasAHandler == Spec => []BusyIsLive
  BY Invariant, PTL DEF Inv

\* A superseded handler shows nothing (the checks of runGenerationRef), and takes
\* the flags of the handler after it only when it hands its task over to Condura.
THEOREM SupersededShowsNothing == Spec => SupersededSilent
<1> DEFINE Silent(g) ==
      /\ UNCHANGED <<challenging, orch, result, orchResult, objections>>
      /\ UNCHANGED <<running, refining>> \/ op[g].at = "handoff" \/ op[g].kind = "local"
<1>1. Inv /\ [Next]_vars => [\A g \in Gens : g < gen /\ op'[g] # op[g] => Silent(g)]_vars
  <2> SUFFICES ASSUME Inv, Next, NEW g \in Gens, g < gen, op'[g] # op[g]
               PROVE  Silent(g)
    OBVIOUS
  <2> USE Names DEF Inv, TypeOK
  <2>1. CASE Run \/ Orchestrate \/ Refine \/ Challenge
    <3>1. g # gen + 1
      BY Names
    <3>2. gen + 1 \in Gens /\ \E o : op' = [op EXCEPT ![gen + 1] = o]
      BY <2>1 DEF Run, Orchestrate, Refine, Challenge, Begin
    <3>3. QED BY <3>1, <3>2
  <2>2. CASE Stop \/ NewTask \/ ResetRun \/ Tick
    BY <2>2 DEF Stop, NewTask, StopWork, ResetRun, Tick
  <2>3. ASSUME NEW h \in Gens, HandlerStep(h) PROVE Silent(g)
    <3>1. h = g
      BY <2>3 DEF HandlerStep, Created, Refused, LocalOnly, HandedOff, Overtaken, PollDone,
                  PollOver, Loaded, Challenged, Goes
    <3>2. g # gen
      OBVIOUS
    <3>3. QED
      BY <2>3, <3>1, <3>2
         DEF HandlerStep, Created, Refused, LocalOnly, HandedOff, Overtaken, PollDone, PollOver,
             Loaded, Challenged, shown
  <2>4. ASSUME NEW j \in Jobs, HistorySelect(j) \/ JobEnds(j) PROVE FALSE
    BY <2>4 DEF HistorySelect, JobEnds
  <2>5. QED BY <2>1, <2>2, <2>3, <2>4 DEF Next
<1>2. QED BY <1>1, Invariant, PTL DEF Spec, SupersededSilent
==============================================================================
