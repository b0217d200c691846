--------------------------- MODULE WebhookLedger ---------------------------
(***************************************************************************)
(* POST /webhook of routes/payments.py with the claim ledger of            *)
(* core/webhook_idempotency.py.  A worker process commits a claim on the   *)
(* event's key, changes the subscription's row and then the user's in its  *)
(* session, commits both and answers 200.  When the handler raises, the    *)
(* claim is released and the answer is 500.  Razorpay sends an event until *)
(* it is answered with 200, and may repeat one that was.                   *)
(***************************************************************************)
EXTENDS Naturals

CONSTANTS
  Events,    \* webhook events; each has an event_key of its own
  NoEvent,   \* what an idle worker works on
  Workers,   \* the uvicorn worker processes; each handles one webhook at a time
  MaxSends,  \* bound: deliveries of one event
  Impatient, \* whether Razorpay sends an event again before the answer came
  Faults     \* what can go wrong: the handler's "code" raises, the "database"
             \* refuses a statement or a commit, a worker dies ("crash")

ASSUME EventAssumption == NoEvent \notin Events
ASSUME BoundAssumption == MaxSends \in Nat \ {0}
ASSUME FaultAssumption ==
  Impatient \in BOOLEAN /\ Faults \subseteq {"code", "database", "crash"}

VARIABLES
  ledger,  \* the keys in processed_webhook_events
  job,     \* job[w]: the event w works on
  pc,      \* pc[w]: how far it got
  wrote,   \* wrote[e]: what is committed of e's effects
  times,   \* times[e]: how often e's effects were committed as a whole
  sends,   \* sends[e]: deliveries of e (external)
  acked,   \* acked[e]: whether Razorpay saw a 200 for e (external)
  stranded, \* history: events whose claim outlived the handler that failed
  early     \* history: events answered 200 while their handler was busy

vars == <<ledger, job, pc, wrote, times, sends, acked, stranded, early>>

Effects == {"none", "row", "all"}
Steps == {"idle", "claimed", "row", "all", "committed", "failed", "failedrow"}

TypeOK ==
  /\ ledger \subseteq Events
  /\ job \in [Workers -> Events \cup {NoEvent}]
  /\ pc \in [Workers -> Steps]
  /\ wrote \in [Events -> Effects]
  /\ times \in [Events -> Nat]
  /\ sends \in [Events -> 0..MaxSends]
  /\ acked \in [Events -> BOOLEAN]
  /\ stranded \subseteq Events /\ early \subseteq Events

Init ==
  /\ ledger = {}
  /\ job = [w \in Workers |-> NoEvent]
  /\ pc = [w \in Workers |-> "idle"]
  /\ wrote = [e \in Events |-> "none"]
  /\ times = [e \in Events |-> 0]
  /\ sends = [e \in Events |-> 0]
  /\ acked = [e \in Events |-> FALSE]
  /\ stranded = {} /\ early = {}

-----------------------------------------------------------------------------

\* Razorpay delivers e to the idle worker w.
Deliver(w, e) ==
  /\ pc[w] = "idle"
  /\ sends[e] < MaxSends
  /\ Impatient \/ \A v \in Workers : job[v] # e
  /\ sends' = [sends EXCEPT ![e] = @ + 1]

\* Mutant: does not look for a claim.
ClaimAlways(w, e) ==
  /\ Deliver(w, e)
  /\ ledger' = ledger \cup {e}
  /\ job' = [job EXCEPT ![w] = e]
  /\ pc' = [pc EXCEPT ![w] = "claimed"]
  /\ UNCHANGED <<wrote, times, acked, stranded, early>>

\* Mutant: claims the blank key that claim_webhook_event refuses.
ClaimBlank(w, e) ==
  /\ Deliver(w, e)
  /\ e \notin ledger
  /\ ledger' = ledger \cup {job[w]}
  /\ job' = [job EXCEPT ![w] = e]
  /\ pc' = [pc EXCEPT ![w] = "claimed"]
  /\ UNCHANGED <<wrote, times, acked, stranded, early>>

\* claim_webhook_event, of a key that is not in the table: committed at once,
\* and unique among the workers.
Claim(w, e) ==
  /\ Deliver(w, e)
  /\ e \notin ledger
  /\ ledger' = ledger \cup {e}
  /\ job' = [job EXCEPT ![w] = e]
  /\ pc' = [pc EXCEPT ![w] = "claimed"]
  /\ UNCHANGED <<wrote, times, acked, stranded, early>>

\* claim_webhook_event, of a key that is: answered 200, whether the claim's
\* owner is done or not.
Duplicate(w, e) ==
  /\ Deliver(w, e)
  /\ e \in ledger
  /\ acked' = [acked EXCEPT ![e] = TRUE]
  /\ early' = IF \E v \in Workers : job[v] = e /\ times[e] = 0 THEN early \cup {e} ELSE early
  /\ UNCHANGED <<ledger, job, pc, wrote, times, stranded>>

\* The handler changes the subscription's row, then the user, in its session.
Advance(w, from, to) ==
  /\ pc[w] = from
  /\ pc' = [pc EXCEPT ![w] = to]

WriteRow(w) ==
  /\ Advance(w, "claimed", "row")
  /\ UNCHANGED <<ledger, job, wrote, times, sends, acked, stranded, early>>

WriteUser(w) ==
  /\ Advance(w, "row", "all")
  /\ UNCHANGED <<ledger, job, wrote, times, sends, acked, stranded, early>>

Commit(w) ==
  /\ Advance(w, "all", "committed")
  /\ wrote' = [wrote EXCEPT ![job[w]] = "all"]
  /\ times' = [times EXCEPT ![job[w]] = @ + 1]
  /\ UNCHANGED <<ledger, job, sends, acked, stranded, early>>

\* Ends the request of w.
Finish(w) ==
  /\ job' = [job EXCEPT ![w] = NoEvent]
  /\ pc' = [pc EXCEPT ![w] = "idle"]

Answer(w) ==
  /\ pc[w] = "committed"
  /\ Finish(w)
  /\ acked' = [acked EXCEPT ![job[w]] = TRUE]
  /\ UNCHANGED <<ledger, wrote, times, sends, stranded, early>>

\* The handler raises with its session intact (a malformed field, a client that
\* cannot be built).  The failure is transient: not on the last delivery.
CodeFails(w) ==
  /\ "code" \in Faults
  /\ Advance(w, "claimed", "failed") \/ Advance(w, "row", "failedrow")
  /\ sends[job[w]] < MaxSends
  /\ UNCHANGED <<ledger, job, wrote, times, sends, acked, stranded, early>>

\* Mutant: keeps the claim.
ReleaseNothing(w) ==
  /\ pc[w] \in {"failed", "failedrow"}
  /\ Finish(w)
  /\ UNCHANGED <<ledger, wrote, times, sends, acked, stranded, early>>

\* Mutant: commits the session and forgets the claim.
ReleaseForgets(w) ==
  /\ pc[w] \in {"failed", "failedrow"}
  /\ wrote' = IF pc[w] = "failedrow" /\ wrote[job[w]] = "none"
              THEN [wrote EXCEPT ![job[w]] = "row"]
              ELSE wrote
  /\ Finish(w)
  /\ UNCHANGED <<ledger, times, sends, acked, stranded, early>>

\* release_webhook_event: deletes the claim and commits, with the claim, what
\* the session had changed so far.  The answer is 500.
Release(w) ==
  /\ pc[w] \in {"failed", "failedrow"}
  /\ ledger' = ledger \ {job[w]}
  /\ wrote' = IF pc[w] = "failedrow" /\ wrote[job[w]] = "none"
              THEN [wrote EXCEPT ![job[w]] = "row"]
              ELSE wrote
  /\ Finish(w)
  /\ UNCHANGED <<times, sends, acked, stranded, early>>

\* The request of w ends and leaves its claim behind.
Stop(w) ==
  /\ Finish(w)
  /\ stranded' = IF times[job[w]] = 0 THEN stranded \cup {job[w]} ELSE stranded
  /\ UNCHANGED <<ledger, wrote, times, sends, acked, early>>

\* A statement or the commit fails.  The session refuses the release's delete
\* too, which is logged and rolled back: the claim stays.  The answer is 500.
DatabaseFails(w) ==
  /\ "database" \in Faults
  /\ pc[w] \in {"claimed", "row", "all", "failed", "failedrow"}
  /\ Stop(w)

\* The worker dies; its session is rolled back, and there is no answer.
Crash(w) ==
  /\ "crash" \in Faults
  /\ pc[w] # "idle"
  /\ Stop(w)

\* Mutant: purges claims that are not yet expired.
PurgeEarly(e) ==
  /\ e \in ledger
  /\ \A w \in Workers : job[w] # e
  /\ ledger' = ledger \ {e}
  /\ UNCHANGED <<job, pc, wrote, times, sends, acked, stranded, early>>

\* purge_expired_webhook_events: 7 days on, when e is delivered no more.
Purge(e) ==
  /\ e \in ledger
  /\ sends[e] = MaxSends
  /\ \A w \in Workers : job[w] # e
  /\ ledger' = ledger \ {e}
  /\ UNCHANGED <<job, pc, wrote, times, sends, acked, stranded, early>>

Next ==
  \/ \E w \in Workers, e \in Events : Claim(w, e) \/ Duplicate(w, e)
  \/ \E w \in Workers :
       \/ WriteRow(w) \/ WriteUser(w) \/ Commit(w) \/ Answer(w)
       \/ CodeFails(w) \/ Release(w) \/ DatabaseFails(w) \/ Crash(w)
  \/ \E e \in Events : Purge(e)

Spec == Init /\ [][Next]_vars

\* A handler runs to its end, and Razorpay sends an event again until it has an
\* answer of 200.
Fairness ==
  /\ \A w \in Workers :
       WF_vars(WriteRow(w) \/ WriteUser(w) \/ Commit(w) \/ Answer(w) \/ Release(w))
  /\ \A e \in Events :
       WF_vars(\E w \in Workers : ~acked[e] /\ (Claim(w, e) \/ Duplicate(w, e)))

FairSpec == Spec /\ Fairness

-----------------------------------------------------------------------------

\* Whatever is delivered again, fails or crashes, the effects of an event are
\* applied at most once: the ledger implements AppliedOnce.
Once == INSTANCE AppliedOnce WITH Events <- Events, times <- times
AppliesOnce == Once!Spec

\* A claim has one owner: no two workers run the handler of one event, and no
\* event whose effects are committed runs again.
Owned ==
  \A w \in Workers :
    job[w] # NoEvent =>
      /\ job[w] \in ledger
      /\ \A v \in Workers : job[v] = job[w] => v = w
      /\ times[job[w]] = IF pc[w] = "committed" THEN 1 ELSE 0

\* An event that Razorpay will not send again, because it was answered 200, had
\* its effects applied.  The ledger forgets an event in two ways only: its claim
\* is left behind by a worker that died or whose database failed, and answers
\* the redeliveries; or a redelivery is answered while the first worker is busy.
Excused == stranded \cup early
NothingForgotten == \A e \in Events : acked[e] => times[e] = 1 \/ e \in Excused

\* The same without the exceptions, which webhook_idempotency.py states: "failed
\* handlers release the claim so genuine retries work".
NeverForgotten == \A e \in Events : acked[e] => times[e] = 1

\* What a failed handler left half done is done again: but for those exceptions,
\* its event is unclaimed or claimed anew, and unanswered.
HalfDoneIsRedone ==
  \A e \in Events :
    wrote[e] = "row" /\ e \notin Excused =>
      /\ e \in ledger => \E w \in Workers : job[w] = e
      /\ ~acked[e]

\* A handler that failed is retried until the effects of its event are applied,
\* but for those exceptions.
RetriesWork == \A e \in Events : <>(times[e] = 1 \/ e \in Excused)
=============================================================================
