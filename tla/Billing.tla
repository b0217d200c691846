------------------------------ MODULE Billing ------------------------------
(***************************************************************************)
(* One user's plan: the FastAPI handlers of routes/payments.py, the two    *)
(* hourly sweeps (core/subscription_expiry_scheduler.py and                *)
(* core/loyalty_scheduler.py) and, as the environment, Razorpay and its    *)
(* webhooks.  A handler runs synchronously between its awaits and commits  *)
(* once, so each handler is one action.  What the endpoints see of         *)
(* Razorpay can be stale: its webhooks wait in "mail" and, unless Prompt, *)
(* arrive in any order.                                                    *)
(***************************************************************************)
EXTENDS Integers, FiniteSets

CONSTANTS
  Subs,      \* the subscriptions that may be opened for this user
  Plan,      \* Plan[s]: the plan key s was opened with
  NoSub,     \* a null subscription reference
  RewardAt,  \* monthly Pro charges that earn the loyalty pause (10 in the code)
  Period,    \* length of a billing period, in ticks
  Hold,      \* length of the loyalty pause (62 days in the code), in ticks
  MaxNow,    \* bound: the last tick, "the far future"
  MaxPaid,   \* bound: charges Razorpay makes on one subscription
  MaxMail,   \* bound: Razorpay takes no step of its own with more webhooks waiting
  Prompt,    \* whether webhooks arrive in order and within the tick they are sent in
  Faults     \* what may go wrong: webhooks applied "again" or "lost"; a Razorpay
             \* call that the code logs and ignores fails ("api"); a resume that
             \* the code retries fails ("outage"); its commit fails ("database");
             \* a payment signature is sent again after its first period
             \* ("replay"); the add-on is opened with POST /subscribe ("addon_key")

Plans == {"plus_monthly", "plus_annual", "pro_monthly", "pro_annual",
          "agent_addon_monthly"}

ASSUME SubsAssumption == NoSub \notin Subs
ASSUME PlanAssumption == Plan \in [Subs -> Plans]
ASSUME BoundAssumption ==
  /\ RewardAt \in Nat \ {0} /\ Period \in Nat \ {0} /\ Hold \in Nat
  /\ MaxNow \in Nat /\ MaxPaid \in Nat /\ MaxMail \in Nat
ASSUME FaultAssumption == 
  /\ Prompt \in BOOLEAN
  /\ Faults \subseteq {"again", "lost", "api", "outage", "database", "replay", "addon_key"}

VARIABLES
  user,  \* the billing columns of the row in "users"
  rows,  \* rows[s]: the row of s in "subscriptions"
  rzp,   \* rzp[s]: the subscription at Razorpay (external)
  mail,  \* webhooks sent and not yet processed (external)
  now    \* the clock

vars == <<user, rows, rzp, mail, now>>

NoTime == -1     \* a NULL timestamp
Time == 0..MaxNow

Addons == {s \in Subs : Plan[s] = "agent_addon_monthly"}
Primaries == Subs \ Addons
Annual == {s \in Subs : Plan[s] \in {"plus_annual", "pro_annual"}}
ProMonthly == {s \in Subs : Plan[s] = "pro_monthly"}
Charges(of) == {c \in ProMonthly \X (1..MaxPaid) : c[2] <= of[c[1]].paid}
TierOf(s) == IF Plan[s] \in {"plus_monthly", "plus_annual"} THEN "PLUS" ELSE "PRO"
Paying(u) == u.tier \in {"PLUS", "PRO"}

Terminal == {"cancelled", "completed", "expired"}
RowStatus == Terminal \cup
  {"absent", "created", "authenticated", "active", "halted", "failed"}
RzpState == {"none", "created", "active", "pending", "halted", "paused", "ended"}
Kinds == {"activated", "charged", "captured", "failed", "halted", "cancelled",
          "completed"}

Row == [status : RowStatus, end : Time \cup {NoTime}, paid : 0..MaxPaid]
Remote == [state : RzpState, end : Time \cup {NoTime}, paid : 0..MaxPaid,
           atEnd : BOOLEAN,
           left : BOOLEAN]  \* history: its link was dropped, its cancel failed
Event == [kind : Kinds, sub : Subs, end : Time \cup {NoTime}, paid : 0..MaxPaid]
User == [tier : {"FREE", "PLUS", "PRO"},
         sub : Subs \cup {NoSub},
         status : RowStatus,
         end : Time \cup {NoTime},
         addonActive : BOOLEAN,
         addonCancelling : BOOLEAN,
         addonSub : Subs \cup {NoSub},
         consecutive : Nat,
         reward : BOOLEAN,
         resumeAt : Time \cup {NoTime},
         nextAttempt : Time \cup {NoTime}]

TypeOK ==
  /\ user \in User
  /\ rows \in [Subs -> Row]
  /\ rzp \in [Subs -> Remote]
  /\ mail \subseteq Event
  /\ now \in Time

Init ==
  /\ user = [tier |-> "FREE", sub |-> NoSub, status |-> "absent", end |-> NoTime,
             addonActive |-> FALSE, addonCancelling |-> FALSE, addonSub |-> NoSub,
             consecutive |-> 0, reward |-> FALSE, resumeAt |-> NoTime,
             nextAttempt |-> NoTime]
  /\ rows = [s \in Subs |-> [status |-> "absent", end |-> NoTime, paid |-> 0]]
  /\ rzp = [s \in Subs |-> [state |-> "none", end |-> NoTime, paid |-> 0,
                            atEnd |-> FALSE, left |-> FALSE]]
  /\ mail = {}
  /\ now = 0

-----------------------------------------------------------------------------
(* The clock.  Later saturates: a deadline past the last tick is due at it. *)

Later(d) == IF now + d > MaxNow THEN MaxNow ELSE now + d

\* _period_still_paid: strictly in the future.
StillPaid(end) == end # NoTime /\ end > now

Tick ==
  /\ now < MaxNow
  /\ Prompt => mail = {}
  /\ now' = now + 1
  /\ UNCHANGED <<user, rows, rzp, mail>>

-----------------------------------------------------------------------------
(* Razorpay (external).  Its calls can fail at any time under the fault     *)
(* "api".                                                                   *)

Room == Cardinality(mail) <= MaxMail

Outcomes == IF "api" \in Faults THEN BOOLEAN ELSE {TRUE}

Notice(k, s, r) == [kind |-> k, sub |-> s, end |-> r.end, paid |-> r.paid]

\* A charge of s succeeds: a new period, one more payment, two or three webhooks.
Charged(s, news) ==
  LET r == [rzp[s] EXCEPT !.state = "active", !.end = now + Period, !.paid = @ + 1]
  IN  /\ Room /\ rzp[s].paid < MaxPaid /\ now + Period <= MaxNow
      /\ rzp' = [rzp EXCEPT ![s] = r]
      /\ mail' = mail \cup {Notice(k, s, r) : k \in news}
      /\ UNCHANGED <<user, rows, now>>

Pay(s) ==
  /\ rzp[s].state = "created"
  /\ Charged(s, {"activated", "charged", "captured"})

Renewable(s) == s \notin Annual /\ ~rzp[s].atEnd /\ ~StillPaid(rzp[s].end)

Renew(s) ==
  /\ rzp[s].state \in {"active", "pending"}
  /\ Renewable(s)
  /\ Charged(s, {"charged", "captured"})

\* Razorpay moves s to a state and tells the webhook.
Moved(s, st, k) ==
  /\ Room
  /\ rzp' = [rzp EXCEPT ![s].state = st]
  /\ mail' = mail \cup {Notice(k, s, rzp[s])}
  /\ UNCHANGED <<user, rows, now>>

RenewalFails(s) ==
  /\ rzp[s].state = "active"
  /\ Renewable(s)
  /\ Moved(s, "pending", "failed")

GiveUp(s) ==
  /\ rzp[s].state = "pending"
  /\ Moved(s, "halted", "halted")

PeriodEnds(s) ==
  /\ rzp[s].state \in {"active", "pending"}
  /\ ~StillPaid(rzp[s].end)
  /\ \/ rzp[s].atEnd /\ Moved(s, "ended", "cancelled")
     \/ s \in Annual /\ ~rzp[s].atEnd /\ Moved(s, "ended", "completed")

\* Razorpay or the merchant's dashboard ends s before its period does.
Withdraw(s) ==
  /\ rzp[s].state = "active"
  /\ StillPaid(rzp[s].end)
  /\ Moved(s, "ended", "cancelled")

Cancellable(s) == rzp[s].state \notin {"none", "ended"}

\* subscription.cancel: at the cycle's end if a cycle is running, else at once.
CancelAt(r, atCycleEnd) ==
  IF atCycleEnd /\ r.state \in {"active", "pending"}
  THEN [r EXCEPT !.atEnd = TRUE]
  ELSE [r EXCEPT !.state = "ended"]

CancelNews(s, atCycleEnd) ==
  IF CancelAt(rzp[s], atCycleEnd).state = "ended"
  THEN {Notice("cancelled", s, rzp[s])}
  ELSE {}

-----------------------------------------------------------------------------
(* Requests of the user.  A request that the code refuses (4xx, 502)       *)
(* changes nothing, and is not a step.                                     *)

\* What POST /subscribe opens: its client sends the keys of plans only, but the
\* endpoint takes the add-on's as well.
Openable == IF "addon_key" \in Faults THEN Subs ELSE Primaries

\* Mutant: grants the tier when the checkout starts.
SubscribeGrants(s) ==
  /\ s \in Openable
  /\ rows[s].status = "absent"
  /\ rzp' = [rzp EXCEPT ![s].state = "created"]
  /\ rows' = [rows EXCEPT ![s].status = "created"]
  /\ user' = [user EXCEPT !.tier = TierOf(s), !.sub = s, !.status = "created"]
  /\ UNCHANGED <<mail, now>>

\* POST /subscribe: opens s and points the user at it, whatever it pointed at.
Subscribe(s) ==
  /\ s \in Openable
  /\ rows[s].status = "absent"
  /\ rzp' = [rzp EXCEPT ![s].state = "created"]
  /\ rows' = [rows EXCEPT ![s].status = "created"]
  /\ user' = [user EXCEPT !.sub = s, !.status = "created", !.end = NoTime]
  /\ UNCHANGED <<mail, now>>

\* POST /addon/agent/subscribe: opens s and leaves the user as it is.
SubscribeAddon(s) ==
  /\ s \in Addons
  /\ rows[s].status = "absent"
  /\ user.tier = "PLUS" /\ ~user.addonActive /\ ~user.addonCancelling
  /\ rzp' = [rzp EXCEPT ![s].state = "created"]
  /\ rows' = [rows EXCEPT ![s].status = "created"]
  /\ UNCHANGED <<user, mail, now>>

\* The client holds a payment signature for s: its checkout page is open, and
\* calls /verify, perhaps more than once, during the first paid period; or the
\* signature is sent "replay"ed at any later time, which the code does not refuse.
CheckoutOpen(s) ==
  \/ rzp[s].state = "active" /\ rzp[s].paid = 1 /\ StillPaid(rzp[s].end)
  \/ "replay" \in Faults /\ rzp[s].paid > 0

\* Mutant: does not record which subscription pays for the add-on.
AddonOnUnlinked(u, s) ==
  [u EXCEPT !.addonActive = TRUE, !.addonCancelling = FALSE]

AddonOn(u, s) ==
  [u EXCEPT !.addonActive = TRUE, !.addonCancelling = FALSE, !.addonSub = s]

\* Mutant: leaves the cancelling flag behind.
AddonOffCancelling(u) == [u EXCEPT !.addonActive = FALSE, !.addonSub = NoSub]

AddonOff(u) ==
  [u EXCEPT !.addonActive = FALSE, !.addonCancelling = FALSE, !.addonSub = NoSub]

\* The user after s was paid for: s's tier, status and end.
Upgraded(u, s, st, end) ==
  [u EXCEPT !.tier = TierOf(s), !.sub = s, !.status = st, !.end = end]

\* POST /verify
Verify(s) ==
  /\ rows[s].status # "absent"
  /\ CheckoutOpen(s)
  /\ rows' = [rows EXCEPT ![s].status = "authenticated"]
  /\ user' = IF s \in Addons
             THEN [AddonOn(user, s) EXCEPT !.status = "authenticated"]
             ELSE Upgraded(user, s, "authenticated", rows[s].end)
  /\ UNCHANGED <<rzp, mail, now>>

\* Mutant: swallows the failure of the call to Razorpay.
CancelUnheard ==
  LET s == user.sub
  IN  /\ s # NoSub
      /\ rows[s].status \in {"active", "authenticated", "created"}
      /\ rows' = [rows EXCEPT ![s].status = "cancelled"]
      /\ user' = [user EXCEPT !.status = "cancelled", !.end = rows[s].end]
      /\ UNCHANGED <<rzp, mail, now>>

\* POST /cancel: the subscription the user points at, at its cycle's end.
Cancel ==
  LET s == user.sub
  IN  /\ s # NoSub
      /\ rows[s].status \in {"active", "authenticated", "created"}
      /\ Cancellable(s)
      /\ rzp' = [rzp EXCEPT ![s] = CancelAt(@, TRUE)]
      /\ mail' = mail \cup CancelNews(s, TRUE)
      /\ rows' = [rows EXCEPT ![s].status = "cancelled"]
      /\ user' = [user EXCEPT !.status = "cancelled", !.end = rows[s].end]
      /\ UNCHANGED now

\* POST /addon/agent/cancel
CancelAddon ==
  LET s == user.addonSub
  IN  /\ user.addonActive /\ s # NoSub
      /\ Cancellable(s)
      /\ rzp' = [rzp EXCEPT ![s] = CancelAt(@, TRUE)]
      /\ mail' = mail \cup CancelNews(s, TRUE)
      /\ user' = [user EXCEPT !.addonActive = FALSE, !.addonCancelling = TRUE]
      /\ UNCHANGED <<rows, now>>

\* POST /addon/agent/reactivate: Razorpay takes the scheduled cancel back, or
\* refuses (502, no step).
ReactivateAddon ==
  LET s == user.addonSub
  IN  /\ user.addonCancelling /\ s # NoSub
      /\ Cancellable(s)
      /\ rzp' = [rzp EXCEPT ![s].atEnd = FALSE]
      /\ user' = [user EXCEPT !.addonCancelling = FALSE, !.addonActive = TRUE]
      /\ UNCHANGED <<rows, mail, now>>

-----------------------------------------------------------------------------
(* POST /webhook.  An event is applied once its claim is taken; it is      *)
(* applied "again" if its claim was released or purged, and is "lost" if   *)
(* the process died between the claim and the commit (WebhookLedger).      *)

KindRank == [activated |-> 1, charged |-> 2, captured |-> 3, failed |-> 4,
             halted |-> 5, cancelled |-> 6, completed |-> 6]

SentBefore(e, f) ==
  \/ e.paid < f.paid
  \/ e.paid = f.paid /\ KindRank[e.kind] < KindRank[f.kind]

Deliverable(e) ==
  Prompt => \A f \in mail : f.sub = e.sub => ~SentBefore(f, e)

Kept(e) == IF "again" \in Faults THEN {mail, mail \ {e}} ELSE {mail \ {e}}

Known(end, old) == IF end = NoTime THEN old ELSE end
AtLeast(n, m) == IF n > m THEN n ELSE m

\* Mutant: counts a redelivered charge.
AccruesAgain(e) == e.kind = "charged" /\ e.sub \in ProMonthly /\ ~user.reward

\* Whether the charge e accrues towards the loyalty reward: a monthly Pro
\* charge with a paid_count above the stored one, and no reward running.
Accrues(e) ==
  /\ e.kind = "charged" /\ e.sub \in ProMonthly
  /\ e.paid > rows[e.sub].paid
  /\ ~user.reward

Rewarded(e) == Accrues(e) /\ user.consecutive + 1 = RewardAt

\* _loyalty_on_pro_monthly_charged
Accrued(u, e) ==
  IF ~Accrues(e) THEN u
  ELSE IF ~Rewarded(e) THEN [u EXCEPT !.consecutive = @ + 1]
  ELSE [u EXCEPT !.consecutive = @ + 1, !.reward = TRUE, !.resumeAt = Later(Hold)]

HasAddon == user.addonActive \/ user.addonCancelling \/ user.addonSub # NoSub
DropsAddon(e) == TierOf(e.sub) = "PRO" /\ HasAddon

\* activated, charged or captured, for Plus and Pro.  A payment entity
\* (captured) carries no period end, and is not a charge for loyalty.
\* Pro drops the add-on and cancels it at once; the reward pauses billing.
\* A failing Razorpay call is logged and the rest goes through.
ApplyPaid(e) ==
  LET s    == e.sub
      end  == IF e.kind = "captured" THEN rows[s].end ELSE Known(e.end, rows[s].end)
      paid == IF e.kind = "charged" THEN AtLeast(e.paid, rows[s].paid) ELSE rows[s].paid
      up   == Upgraded(user, s, "active", end)
      a    == user.addonSub
  IN  /\ rows' = [rows EXCEPT ![s] = [status |-> "active", end |-> end, paid |-> paid]]
      /\ user' = Accrued(IF DropsAddon(e) THEN AddonOff(up) ELSE up, e)
      /\ \E cancels \in Outcomes, pauses \in Outcomes :
           LET stop == cancels /\ DropsAddon(e) /\ a # NoSub /\ Cancellable(a)
               hold == pauses /\ Rewarded(e) /\ rzp[s].state = "active"
           IN  /\ rzp' = [t \in Subs |->
                            IF stop /\ t = a THEN CancelAt(rzp[t], FALSE)
                            ELSE IF ~cancels /\ DropsAddon(e) /\ t = a
                            THEN [rzp[t] EXCEPT !.left = TRUE]
                            ELSE IF hold /\ t = s THEN [rzp[t] EXCEPT !.state = "paused"]
                            ELSE rzp[t]]
               /\ \E kept \in Kept(e) :
                    mail' = kept \cup (IF stop THEN CancelNews(a, FALSE) ELSE {})

\* activated, charged or captured, for the add-on.  The count is not the
\* maximum here: a late charge sets it back.
ApplyAddonPaid(e) ==
  LET s == e.sub
  IN  /\ rows' = [rows EXCEPT ![s] =
                    [status |-> "active",
                     end    |-> IF e.kind = "captured" THEN @.end ELSE Known(e.end, @.end),
                     paid   |-> IF e.kind = "charged" THEN e.paid ELSE @.paid]]
      /\ user' = AddonOn(user, s)
      /\ mail' \in Kept(e)
      /\ UNCHANGED rzp

\* subscription.halted: stamps the user, whichever subscription it is about.
ApplyHalted(e) ==
  /\ rows' = [rows EXCEPT ![e.sub].status = "halted"]
  /\ user' = [user EXCEPT !.status = "halted"]
  /\ mail' \in Kept(e)
  /\ UNCHANGED rzp

\* _mark_subscription_payment_failed
ApplyFailed(e) ==
  LET s == e.sub
      linked == user.addonSub = s \/ user.addonActive \/ user.addonCancelling
  IN  /\ rows' = [rows EXCEPT ![s].status = "failed"]
      /\ user' = IF s \in Addons /\ linked
                 THEN [user EXCEPT !.addonActive = FALSE, !.addonCancelling = FALSE]
                 ELSE IF s \in Primaries /\ user.sub = s
                 THEN [user EXCEPT !.status = "failed"]
                 ELSE user
      /\ mail' \in Kept(e)
      /\ UNCHANGED rzp

\* The row after its subscription ended, and the end the handler works with.
EndOf(e) == Known(e.end, rows[e.sub].end)
RowEnded(e) ==
  rows' = [rows EXCEPT ![e.sub].status = e.kind, ![e.sub].end = EndOf(e)]

\* Mutant: downgrades at once, as the code did before.
ApplyEndedAtOnce(e) ==
  /\ RowEnded(e)
  /\ user' = [user EXCEPT !.status = e.kind, !.end = EndOf(e), !.tier = "FREE"]
  /\ mail' \in Kept(e)
  /\ UNCHANGED rzp

\* _apply_primary_subscription_ended: the tier stays while the period lasts.
ApplyEnded(e) ==
  /\ RowEnded(e)
  /\ user' = [user EXCEPT !.status = e.kind,
                          !.end = EndOf(e),
                          !.tier = IF StillPaid(EndOf(e)) THEN @ ELSE "FREE"]
  /\ mail' \in Kept(e)
  /\ UNCHANGED rzp

\* _apply_agent_addon_subscription_ended
ApplyAddonEnded(e) ==
  /\ RowEnded(e)
  /\ user' = IF StillPaid(EndOf(e))
             THEN [AddonOn(user, e.sub) EXCEPT !.addonCancelling = TRUE]
             ELSE AddonOff(user)
  /\ mail' \in Kept(e)
  /\ UNCHANGED rzp

Webhook(e) ==
  /\ e \in mail
  /\ Deliverable(e)
  /\ rows[e.sub].status # "absent"
  /\ \/ e.kind \in {"activated", "charged", "captured"} /\ e.sub \in Primaries
        /\ ApplyPaid(e)
     \/ e.kind \in {"activated", "charged", "captured"} /\ e.sub \in Addons
        /\ ApplyAddonPaid(e)
     \/ e.kind = "halted" /\ ApplyHalted(e)
     \/ e.kind = "failed" /\ ApplyFailed(e)
     \/ e.kind \in {"cancelled", "completed"} /\ e.sub \in Primaries /\ ApplyEnded(e)
     \/ e.kind \in {"cancelled", "completed"} /\ e.sub \in Addons /\ ApplyAddonEnded(e)
  /\ UNCHANGED now

Lose(e) ==
  /\ "lost" \in Faults
  /\ e \in mail
  /\ mail' = mail \ {e}
  /\ UNCHANGED <<user, rows, rzp, now>>

-----------------------------------------------------------------------------
(* The hourly sweeps.                                                      *)

Expired(r) == IF r.status \in Terminal THEN r ELSE [r EXCEPT !.status = "expired"]

\* Mutant: overlooks the plans that were cancelled.
PrimaryDueCompleted ==
  /\ user.status = "completed"
  /\ user.end # NoTime /\ user.end <= now
  /\ Paying(user)

PrimaryDue ==
  /\ user.status \in {"cancelled", "completed"}
  /\ user.end # NoTime /\ user.end <= now
  /\ Paying(user)

AddonDue ==
  LET r == rows[user.addonSub]
  IN  /\ user.addonCancelling /\ user.addonSub # NoSub
      /\ IF r.end = NoTime THEN r.status \in Terminal ELSE r.end <= now

\* expire_ended_subscriptions: the primary plan, then the add-on.
ExpirySweep ==
  LET free == IF PrimaryDue THEN [user EXCEPT !.tier = "FREE"] ELSE user
      over == {s \in Subs : \/ PrimaryDue /\ s = user.sub
                            \/ AddonDue /\ s = user.addonSub}
  IN  /\ PrimaryDue \/ AddonDue
      /\ user' = IF AddonDue THEN AddonOff(free) ELSE free
      /\ rows' = [s \in Subs |-> IF s \in over THEN Expired(rows[s]) ELSE rows[s]]
      /\ UNCHANGED <<rzp, mail, now>>

\* Mutant: gives up after the first failure.
ResumeDueOnce ==
  /\ user.reward /\ user.resumeAt # NoTime /\ user.resumeAt <= now
  /\ user.nextAttempt = NoTime

ResumeDue ==
  /\ user.reward /\ user.resumeAt # NoTime /\ user.resumeAt <= now
  /\ user.nextAttempt <= now

RewardOver(u) ==
  [u EXCEPT !.reward = FALSE, !.resumeAt = NoTime, !.nextAttempt = NoTime]

\* check_loyalty_resumes: resumes the subscription the user points at.
ResumeOk ==
  /\ ResumeDue /\ user.sub # NoSub
  /\ rzp[user.sub].state = "paused"
  /\ rzp' = [rzp EXCEPT ![user.sub].state = "active"]
  /\ user' = [RewardOver(user) EXCEPT !.consecutive = 0]
  /\ UNCHANGED <<rows, mail, now>>

\* The same sweep when the database fails after Razorpay has resumed: the
\* exception is logged and the user keeps the reward.
ResumeUnsaved ==
  /\ "database" \in Faults
  /\ ResumeDue /\ user.sub # NoSub
  /\ rzp[user.sub].state = "paused"
  /\ rzp' = [rzp EXCEPT ![user.sub].state = "active"]
  /\ UNCHANGED <<user, rows, mail, now>>

\* The same sweep when Razorpay refuses: try again after the backoff.
ResumeFails ==
  /\ ResumeDue /\ user.sub # NoSub
  /\ rzp[user.sub].state # "paused" \/ "outage" \in Faults
  /\ user' = [user EXCEPT !.nextAttempt = Later(1)]
  /\ UNCHANGED <<rows, rzp, mail, now>>

-----------------------------------------------------------------------------
Next ==
  \/ Tick
  \/ \E s \in Subs : \/ Pay(s) \/ Renew(s) \/ RenewalFails(s) \/ GiveUp(s)
                     \/ PeriodEnds(s) \/ Withdraw(s)
                     \/ Subscribe(s) \/ SubscribeAddon(s) \/ Verify(s)
  \/ Cancel \/ CancelAddon \/ ReactivateAddon
  \/ \E e \in mail : Webhook(e) \/ Lose(e)
  \/ ExpirySweep \/ ResumeOk \/ ResumeUnsaved \/ ResumeFails

Spec == Init /\ [][Next]_vars

\* The process keeps running: its clock, its hourly sweeps and the handling of
\* the webhooks that Razorpay sends until they are answered.  A resume that is
\* tried again and again is not refused for ever.
Fairness ==
  /\ WF_vars(Tick) /\ WF_vars(ExpirySweep) /\ SF_vars(ResumeOk)
  /\ WF_vars(\E e \in mail : Webhook(e))
  /\ \A s \in Subs : WF_vars(PeriodEnds(s))

FairSpec == Spec /\ Fairness

-----------------------------------------------------------------------------
(* Properties.                                                             *)

\* A paid tier is backed by a payment for a plan of that tier, whatever
\* webhooks are repeated, lost or late (create_subscription grants nothing).
TierBacked ==
  Paying(user) => \E s \in Primaries : TierOf(s) = user.tier /\ rzp[s].paid > 0

\* Agent Mode flags are backed by a paid add-on that the user still points at,
\* so that /addon/agent/cancel and the expiry sweep can find it.
AddonBacked ==
  user.addonActive \/ user.addonCancelling =>
    user.addonSub \in Addons /\ rzp[user.addonSub].paid > 0

\* The user's references are to subscriptions that were opened; the add-on's is
\* to an add-on, and the plan's to a plan unless POST /subscribe was called with
\* the add-on's key.
Opened(s) == s # NoSub => rzp[s].state # "none"
RefsOK ==
  /\ user.sub \in Subs \cup {NoSub} /\ Opened(user.sub)
  /\ "addon_key" \notin Faults => user.sub \notin Addons
  /\ user.addonSub \in Addons \cup {NoSub} /\ Opened(user.addonSub)

\* Razorpay's side: only what was charged has a period, and only what runs can
\* be set to end at its cycle's end.
RemoteOK(s) ==
  /\ rzp[s].end # NoTime => rzp[s].paid > 0
  /\ rzp[s].atEnd => rzp[s].state \notin {"none", "created"}

\* A webhook says nothing that Razorpay has not done.
Truthful(e) ==
  /\ rzp[e.sub].state # "none"
  /\ e.paid <= rzp[e.sub].paid
  /\ e.end # NoTime => rzp[e.sub].paid > 0
  /\ e.kind \in {"activated", "charged", "captured"} => rzp[e.sub].paid > 0
  /\ e.kind \in {"cancelled", "completed"} => rzp[e.sub].state = "ended"

\* A row has counted no charge that Razorpay did not make, and the row of a plan
\* says cancelled or completed only if the plan is over or ends with its cycle
\* (the cancel of an add-on can be taken back, which its row does not record).
RowOK(s) ==
  /\ rows[s].status = "absent" <=> rzp[s].state = "none"
  /\ rows[s].paid <= rzp[s].paid
  /\ rows[s].end # NoTime => rzp[s].paid > 0
  /\ s \in Primaries /\ rows[s].status \in {"cancelled", "completed"} =>
       rzp[s].state = "ended" \/ rzp[s].atEnd

\* What the database says of the user and of Razorpay is true, whatever
\* webhooks are repeated, lost or late: the inductive invariant.
Consistent ==
  /\ TypeOK /\ RefsOK
  /\ \A s \in Subs : RemoteOK(s) /\ RowOK(s)
  /\ \A e \in mail : Truthful(e)
  /\ TierBacked /\ AddonBacked

\* An add-on that Razorpay goes on charging, with its webhooks handled, is one
\* that the user is linked to, so that /addon/agent/cancel and Pro can cancel it.
\* The one way to lose the link is _cancel_agent_addon_if_active, when its call
\* to Razorpay fails.
NoOrphanAddon ==
  \A s \in Addons :
    /\ rzp[s].state = "active" /\ ~rzp[s].atEnd
    /\ \A e \in mail : e.sub # s
    => user.addonSub = s \/ rzp[s].left

\* Once the row of a plan says cancelled or completed, Razorpay never charges
\* the plan again.
NoChargeAfterCancel ==
  [][\A s \in Primaries : rows[s].status \in {"cancelled", "completed"}
                            => rzp'[s].paid = rzp[s].paid]_vars

\* The loyalty count grows by one, and only with a charge the row had not yet
\* counted and Razorpay did make: redelivered charges earn nothing.
AccruesPerCharge ==
  [][user'.consecutive > user.consecutive =>
       /\ user'.consecutive = user.consecutive + 1
       /\ \E s \in ProMonthly : /\ rows[s].paid < rows'[s].paid
                                /\ rows'[s].paid <= rzp[s].paid]_vars

\* A running loyalty reward was earned: Razorpay made RewardAt charges on the
\* monthly Pro plans, a webhook that is redelivered or overtaken counts for none.
RewardEarned == user.reward => RewardAt <= Cardinality(Charges(rzp))

\* The paid tier is not taken while a plan of that tier is paid for, going by
\* the row that has counted its charges.
PaidTierKept ==
  [][Paying(user) /\ user'.tier = "FREE" =>
       \A s \in Primaries :
         TierOf(s) = user.tier /\ rows'[s].paid > 0 => ~StillPaid(rows'[s].end)]_vars

\* A plan that ended at Razorpay gives no paid tier for ever: the webhook or
\* the expiry sweep takes it away.
EndedThenFree ==
  \A s \in Primaries : rzp[s].state = "ended" ~> ~Paying(user)

\* A plan that was paused for the loyalty reward does not stay paused, though
\* resumes fail and the commit after one may fail (check_loyalty_resumes).
PauseEnds ==
  \A s \in ProMonthly : rzp[s].state = "paused" ~> rzp[s].state # "paused"

\* The loyalty reward itself ends, unless the user cancelled the plan meanwhile.
RewardEnds ==
  user.reward ~> ~user.reward \/ \E s \in ProMonthly : rzp[s].state = "ended"

\* What subscription_expiry_scheduler.py says of itself: a paying user whose plans
\* have all ended, with no webhook waiting and no paid period left, is one the
\* expiry sweep picks up.
SweepCovers ==
  /\ Paying(user) /\ mail = {}
  /\ \A s \in Primaries : rzp[s].paid > 0 =>
       rzp[s].state = "ended" /\ ~StillPaid(rzp[s].end)
  => PrimaryDue
=============================================================================
