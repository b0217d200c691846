------------------------ MODULE WebhookLedgerProofs ------------------------
(***************************************************************************)
(* The webhook ledger for any number of workers, events, deliveries and    *)
(* any faults: it implements AppliedOnce.                                  *)
(***************************************************************************)
EXTENDS WebhookLedger, TLAPS

USE EventAssumption, BoundAssumption

-----------------------------------------------------------------------------
\* An idle worker has no event, and the effects of an event are committed at
\* most once, with a claim that stays as long as the event may come again.
Settled ==
  /\ \A w \in Workers : pc[w] = "idle" <=> job[w] = NoEvent
  /\ \A e \in Events : /\ times[e] \in {0, 1}
                       /\ times[e] = 1 => e \in ledger \/ sends[e] = MaxSends

Inv == TypeOK /\ Owned /\ Settled

LEMMA InvInit == Init => Inv
<1> SUFFICES ASSUME Init PROVE Inv
  OBVIOUS
<1>1. TypeOK
  BY DEF Init, TypeOK, Steps, Effects
<1>2. Owned /\ Settled
  BY DEF Init, Owned, Settled
<1>3. QED BY <1>1, <1>2 DEF Inv

LEMMA InvClaim ==
  ASSUME Inv, NEW w \in Workers, NEW e \in Events, Claim(w, e)
  PROVE  Inv' /\ times' = times
<1>1. /\ job[w] = NoEvent /\ times[e] = 0 /\ \A v \in Workers : job[v] # e
      /\ job' = [job EXCEPT ![w] = e] /\ pc' = [pc EXCEPT ![w] = "claimed"]
      /\ sends' = [sends EXCEPT ![e] = @ + 1] /\ sends[e] < MaxSends
      /\ ledger' = ledger \cup {e} /\ times' = times /\ wrote' = wrote /\ acked' = acked
      /\ stranded' = stranded /\ early' = early
  BY DEF Claim, Deliver, Inv, Owned, Settled
<1>2. sends[e] \in 0..MaxSends /\ sends[e] + 1 \in 0..MaxSends
  BY <1>1 DEF Inv, TypeOK
<1>3. TypeOK'
  BY <1>1, <1>2 DEF Inv, TypeOK, Steps
<1>4. \A v \in Workers : /\ v = w => job'[v] = e /\ pc'[v] = "claimed"
                         /\ v # w => job'[v] = job[v] /\ pc'[v] = pc[v]
  BY <1>1 DEF Inv, TypeOK
<1>5. Owned'
  BY <1>1, <1>4 DEF Inv, Owned
<1>6. Settled'
  <2>1. \A f \in Events : f # e => sends'[f] = sends[f]
    BY <1>1 DEF Inv, TypeOK
  <2>2. QED BY <1>1, <1>4, <2>1 DEF Inv, Settled
<1>7. QED BY <1>1, <1>3, <1>5, <1>6 DEF Inv

LEMMA InvDuplicate ==
  ASSUME Inv, NEW w \in Workers, NEW e \in Events, Duplicate(w, e)
  PROVE  Inv' /\ times' = times
<1>1. /\ sends' = [sends EXCEPT ![e] = @ + 1] /\ sends[e] < MaxSends /\ e \in ledger
      /\ acked' = [acked EXCEPT ![e] = TRUE]
      /\ UNCHANGED <<ledger, job, pc, wrote, times, stranded>>
      /\ early' \in {early, early \cup {e}}
  BY DEF Duplicate, Deliver
<1>2. sends[e] \in 0..MaxSends /\ sends[e] + 1 \in 0..MaxSends
  BY <1>1 DEF Inv, TypeOK
<1>3. TypeOK'
  BY <1>1, <1>2 DEF Inv, TypeOK
<1>4. Owned'
  BY <1>1 DEF Inv, Owned
<1>5. Settled'
  <2>1. \A f \in Events : f # e => sends'[f] = sends[f]
    BY <1>1 DEF Inv, TypeOK
  <2>2. QED BY <1>1, <2>1 DEF Inv, Settled
<1>6. QED BY <1>1, <1>3, <1>4, <1>5 DEF Inv

\* A worker that goes on with its event, and has neither begun nor committed.
LEMMA InvAdvance ==
  ASSUME Inv, NEW w \in Workers, NEW to \in Steps \ {"idle", "committed"},
         pc[w] \notin {"idle", "committed"}, pc' = [pc EXCEPT ![w] = to],
         UNCHANGED <<ledger, job, wrote, times, sends, acked, stranded, early>>
  PROVE  Inv'
<1>1. TypeOK'
  BY DEF Inv, TypeOK
<1>2. \A v \in Workers : /\ v = w => pc'[v] = to
                         /\ v # w => pc'[v] = pc[v]
  BY DEF Inv, TypeOK
<1>3. Owned'
  BY <1>2 DEF Inv, Owned
<1>4. Settled'
  BY <1>2 DEF Inv, Settled
<1>5. QED BY <1>1, <1>3, <1>4 DEF Inv

\* The commit applies an event that was not applied before.
LEMMA InvCommit ==
  ASSUME Inv, NEW w \in Workers, Commit(w)
  PROVE  Inv' /\ \E e \in Events : Once!Apply(e)
<1>1. PICK e \in Events : e = job[w] /\ e \in ledger /\ times[e] = 0
  BY DEF Commit, Advance, Inv, TypeOK, Owned, Settled
<1>2. /\ pc[w] = "all" /\ pc' = [pc EXCEPT ![w] = "committed"]
      /\ wrote' = [wrote EXCEPT ![e] = "all"] /\ times' = [times EXCEPT ![e] = @ + 1]
      /\ UNCHANGED <<ledger, job, sends, acked, stranded, early>>
  BY <1>1 DEF Commit, Advance
<1>3. times'[e] = 1 /\ \A f \in Events : f # e => times'[f] = times[f]
  BY <1>1, <1>2 DEF Inv, TypeOK
<1>4. times' = [times EXCEPT ![e] = 1]
  BY <1>1, <1>2 DEF Inv, TypeOK
<1>5. TypeOK'
  BY <1>2, <1>4 DEF Inv, TypeOK, Steps, Effects
<1>6. \A v \in Workers : /\ v = w => pc'[v] = "committed"
                         /\ v # w => pc'[v] = pc[v] /\ job[v] # e
  BY <1>1, <1>2 DEF Inv, TypeOK, Owned
<1>7. Owned'
  BY <1>1, <1>2, <1>3, <1>6 DEF Inv, Owned, TypeOK
<1>8. Settled'
  BY <1>1, <1>2, <1>3, <1>6 DEF Inv, Settled
<1>9. QED BY <1>1, <1>4, <1>5, <1>7, <1>8 DEF Inv, Once!Apply

\* A request that ends gives up its claim only if it committed nothing.
LEMMA InvFinish ==
  ASSUME Inv, NEW w \in Workers, pc[w] # "idle", Finish(w), UNCHANGED <<times, sends>>,
         ledger' \in {ledger, ledger \ {job[w]}},
         ledger' = ledger \/ pc[w] # "committed",
         wrote' \in [Events -> Effects], acked' \in [Events -> BOOLEAN],
         early' = early, stranded' \in {stranded, stranded \cup {job[w]}}
  PROVE  Inv'
<1>1. TypeOK'
  BY DEF Inv, TypeOK, Finish, Steps, Settled
<1>2. \A v \in Workers : /\ v = w => job'[v] = NoEvent /\ pc'[v] = "idle"
                         /\ v # w => job'[v] = job[v] /\ pc'[v] = pc[v]
  BY DEF Inv, TypeOK, Finish
<1>3. job[w] \in Events
  BY DEF Inv, TypeOK, Settled
<1>4. Owned'
  BY <1>2, <1>3 DEF Inv, Owned
<1>5. Settled'
  BY <1>2, <1>3 DEF Inv, Owned, Settled
<1>6. QED BY <1>1, <1>4, <1>5 DEF Inv

LEMMA InvPurge ==
  ASSUME Inv, NEW e \in Events, Purge(e)
  PROVE  Inv' /\ times' = times
<1>1. TypeOK'
  BY DEF Purge, Inv, TypeOK
<1>2. Owned' /\ Settled'
  BY DEF Purge, Inv, Owned, Settled
<1>3. QED BY <1>1, <1>2 DEF Purge, Inv

LEMMA InvStep ==
  Inv /\ [Next]_vars => Inv' /\ (times' = times \/ \E e \in Events : Once!Apply(e))
<1> SUFFICES ASSUME Inv, [Next]_vars
             PROVE  Inv' /\ (times' = times \/ \E e \in Events : Once!Apply(e))
  OBVIOUS
<1>1. CASE UNCHANGED vars
  BY <1>1 DEF vars, Inv, TypeOK, Owned, Settled
<1>2. ASSUME NEW w \in Workers, WriteRow(w) \/ WriteUser(w) \/ CodeFails(w)
      PROVE  Inv' /\ times' = times
  <2>1. PICK to \in Steps \ {"idle", "committed"} :
          /\ pc[w] \notin {"idle", "committed"} /\ pc' = [pc EXCEPT ![w] = to]
          /\ UNCHANGED <<ledger, job, wrote, times, sends, acked, stranded, early>>
    BY <1>2 DEF WriteRow, WriteUser, CodeFails, Advance, Steps
  <2>2. QED BY <2>1, InvAdvance
<1>3. ASSUME NEW w \in Workers, Answer(w) \/ Release(w) \/ DatabaseFails(w) \/ Crash(w)
      PROVE  Inv' /\ times' = times
  <2>1. wrote \in [Events -> Effects] /\ acked \in [Events -> BOOLEAN]
    BY DEF Inv, TypeOK
  <2>2. /\ pc[w] # "idle" /\ Finish(w) /\ UNCHANGED <<times, sends>>
        /\ ledger' \in {ledger, ledger \ {job[w]}}
        /\ ledger' = ledger \/ pc[w] # "committed"
        /\ early' = early /\ stranded' \in {stranded, stranded \cup {job[w]}}
    BY <1>3 DEF Answer, Release, DatabaseFails, Crash, Stop
  <2>3. wrote' \in [Events -> Effects] /\ acked' \in [Events -> BOOLEAN]
    BY <1>3, <2>1 DEF Answer, Release, DatabaseFails, Crash, Stop, Effects
  <2>4. QED BY <2>2, <2>3, InvFinish
<1>4. CASE Next
  BY <1>2, <1>3, <1>4, InvClaim, InvDuplicate, InvCommit, InvPurge DEF Next
<1>5. QED BY <1>1, <1>4

LEMMA InvAlways == Spec => []Inv
<1>1. QED BY InvInit, InvStep, PTL DEF Spec

-----------------------------------------------------------------------------
\* No handler, fault or sweep leaves a record of the wrong type.
THEOREM TypeCorrect == Spec => []TypeOK
<1>1. Inv => TypeOK
  BY DEF Inv
<1>2. QED BY <1>1, InvAlways, PTL

\* No worker holds an event it has no claim on or shares with another worker.
THEOREM ClaimsHaveOneOwner == Spec => []Owned
<1>1. Inv => Owned
  BY DEF Inv
<1>2. QED BY <1>1, InvAlways, PTL

\* The ledger implements AppliedOnce: no redelivery, failure or crash applies
\* an event twice.
THEOREM ImplementsAppliedOnce == Spec => AppliesOnce
<1>1. Init => Once!Init
  BY DEF Init, Once!Init
<1>2. Inv /\ [Next]_vars => [Once!Next]_times
  BY InvStep DEF Once!Next
<1>3. QED BY <1>1, <1>2, InvAlways, PTL DEF Spec, AppliesOnce, Once!Spec

-----------------------------------------------------------------------------
(* A claim that nobody works on is the claim of an event that was applied, *)
(* or of one whose claim was left behind.                                  *)
Accounted ==
  \A e \in Events :
    /\ acked[e] => times[e] = 1 \/ e \in Excused
    /\ e \in ledger => times[e] = 1 \/ e \in stranded \/ \E w \in Workers : job[w] = e

LEMMA AccountedStep == Inv /\ Inv' /\ Accounted /\ [Next]_vars => Accounted'
<1> SUFFICES ASSUME Inv, Inv', Accounted, [Next]_vars PROVE Accounted'
  OBVIOUS
<1>1. CASE UNCHANGED vars
  BY <1>1 DEF vars, Accounted, Excused
<1>2. ASSUME NEW w \in Workers, NEW e \in Events, Claim(w, e) PROVE Accounted'
  <2>1. /\ job[w] = NoEvent /\ job'[w] = e /\ ledger' = ledger \cup {e}
        /\ \A v \in Workers : v # w => job'[v] = job[v]
        /\ UNCHANGED <<times, acked, stranded, early>>
    BY <1>2 DEF Claim, Deliver, Inv, TypeOK, Settled
  <2>2. QED BY <2>1 DEF Accounted, Excused
<1>3. ASSUME NEW w \in Workers, NEW e \in Events, Duplicate(w, e) PROVE Accounted'
  <2>1. times[e] \in {0, 1} /\ early \subseteq early' /\ UNCHANGED <<ledger, job, times, stranded>>
    BY <1>3 DEF Duplicate, Inv, Settled
  <2>2. times[e] = 1 \/ e \in stranded \/ e \in early'
    BY <1>3, <2>1 DEF Duplicate, Accounted
  <2>3. \A f \in Events : acked'[f] => acked[f] \/ f = e
    BY <1>3 DEF Duplicate, Inv, TypeOK
  <2>4. QED BY <2>1, <2>2, <2>3 DEF Accounted, Excused
<1>4. ASSUME NEW w \in Workers, WriteRow(w) \/ WriteUser(w) \/ CodeFails(w)
      PROVE  Accounted'
  BY <1>4 DEF WriteRow, WriteUser, CodeFails, Accounted, Excused
<1>5. ASSUME NEW w \in Workers, Commit(w) PROVE Accounted'
  <2>1. PICK e \in Events : e = job[w] /\ times[e] = 0
    BY <1>5 DEF Commit, Advance, Inv, TypeOK, Owned, Settled
  <2>2. /\ times'[e] = 1 /\ \A f \in Events : f # e => times'[f] = times[f]
        /\ UNCHANGED <<ledger, job, acked, stranded, early>>
    BY <1>5, <2>1 DEF Commit, Inv, TypeOK
  <2>3. QED BY <2>1, <2>2 DEF Accounted, Excused
<1>6. ASSUME NEW w \in Workers, Answer(w) PROVE Accounted'
  <2>1. PICK e \in Events : e = job[w] /\ times[e] = 1
    BY <1>6 DEF Answer, Inv, TypeOK, Owned, Settled
  <2>2. /\ \A f \in Events : acked'[f] => acked[f] \/ f = e
        /\ UNCHANGED <<ledger, times, stranded, early>>
        /\ \A v \in Workers : v # w => job'[v] = job[v]
    BY <1>6, <2>1 DEF Answer, Finish, Inv, TypeOK
  <2>3. QED BY <2>1, <2>2 DEF Accounted, Excused
<1>7. ASSUME NEW w \in Workers, Release(w) PROVE Accounted'
  <2>1. /\ ledger' = ledger \ {job[w]} /\ UNCHANGED <<times, acked, stranded, early>>
        /\ \A v \in Workers : v # w => job'[v] = job[v]
    BY <1>7 DEF Release, Finish, Inv, TypeOK
  <2>2. QED BY <2>1 DEF Accounted, Excused
<1>8. ASSUME NEW w \in Workers, DatabaseFails(w) \/ Crash(w) PROVE Accounted'
  <2>1. PICK e \in Events : e = job[w] /\ times[e] \in {0, 1}
    BY <1>8 DEF DatabaseFails, Crash, Inv, TypeOK, Settled
  <2>2. /\ UNCHANGED <<ledger, times, acked, early>> /\ stranded \subseteq stranded'
        /\ times[e] = 1 \/ e \in stranded'
        /\ \A v \in Workers : v # w => job'[v] = job[v]
    BY <1>8, <2>1 DEF DatabaseFails, Crash, Stop, Finish, Inv, TypeOK
  <2>3. QED BY <2>1, <2>2 DEF Accounted, Excused
<1>9. ASSUME NEW e \in Events, Purge(e) PROVE Accounted'
  BY <1>9 DEF Purge, Accounted, Excused
<1>10. QED
  BY <1>1, <1>2, <1>3, <1>4, <1>5, <1>6, <1>7, <1>8, <1>9 DEF Next

LEMMA AccountedAlways == Spec => []Accounted
<1>1. Init => Accounted
  BY DEF Init, Accounted
<1>2. QED BY <1>1, AccountedStep, InvAlways, PTL DEF Spec

\* Whatever fails, an event that was answered 200 was applied, unless its claim
\* was left behind by a handler that failed or a redelivery was answered early.
THEOREM NothingIsForgotten == Spec => []NothingForgotten
<1>1. Accounted => NothingForgotten
  BY DEF Accounted, NothingForgotten
<1>2. QED BY <1>1, AccountedAlways, PTL
-----------------------------------------------------------------------------
\* What is committed of an event and how often it was committed agree.
Written == \A e \in Events : wrote[e] = "all" <=> times[e] = 1

LEMMA WrittenInit == Init => Written
<1> SUFFICES ASSUME Init, NEW e \in Events PROVE wrote[e] = "all" <=> times[e] = 1
  BY DEF Written
<1>1. wrote[e] = "none" /\ times[e] = 0
  BY DEF Init
<1>2. QED BY <1>1

LEMMA WrittenStep == Inv /\ Inv' /\ Written /\ [Next]_vars => Written'
<1> SUFFICES ASSUME Inv, Inv', Written, [Next]_vars PROVE Written'
  OBVIOUS
<1>1. CASE UNCHANGED <<wrote, times>>
  BY <1>1 DEF Written
<1>2. ASSUME NEW w \in Workers, Commit(w) PROVE Written'
  <2>1. PICK e \in Events : e = job[w] /\ times[e] = 0
    BY <1>2 DEF Commit, Advance, Inv, TypeOK, Owned, Settled
  <2>2. /\ wrote'[e] = "all" /\ times'[e] = 1
        /\ \A f \in Events : f # e => wrote'[f] = wrote[f] /\ times'[f] = times[f]
    BY <1>2, <2>1 DEF Commit, Inv, TypeOK
  <2>3. QED BY <2>1, <2>2 DEF Written
<1>3. ASSUME NEW w \in Workers, Release(w) PROVE Written'
  <2>1. times' = times /\ \A e \in Events : wrote'[e] # wrote[e] => wrote[e] = "none" /\ wrote'[e] = "row"
    BY <1>3 DEF Release, Inv, TypeOK
  <2>2. QED BY <2>1 DEF Written
<1>4. QED
  BY <1>1, <1>2, <1>3
     DEF Next, vars, Claim, Duplicate, Deliver, WriteRow, WriteUser, Answer, CodeFails,
         DatabaseFails, Crash, Stop, Purge

\* What a handler that failed left half done is done again, with the same
\* exceptions: nobody but a worker that runs its event holds the claim, and
\* Razorpay has seen no 200.
THEOREM HalfDoneIsDoneAgain == Spec => []HalfDoneIsRedone
<1>1. Accounted /\ Written => HalfDoneIsRedone
  BY DEF Accounted, Written, HalfDoneIsRedone, Excused
<1>2. QED BY <1>1, WrittenInit, WrittenStep, InvAlways, AccountedAlways, PTL DEF Spec
=============================================================================
