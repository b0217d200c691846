----------------------------- MODULE PlanProofs -----------------------------
(***************************************************************************)
(* What Billing promises of the plan, the reward and the add-on that a     *)
(* user holds.  With two plans at once the columns of "users" follow       *)
(* whichever webhook came last and the promise about the tier fails, as a  *)
(* run shows; with one plan it holds whatever the bounds.  The reward      *)
(* needs no such restriction.                                              *)
(***************************************************************************)
EXTENDS BillingProofs, FiniteSetTheorems

USE SubsAssumption, PlanAssumption, BoundAssumption

-----------------------------------------------------------------------------
(* What the handlers do, column by column.                                 *)

\* A payment for a plan: the row and the columns of the user that it sets.
LEMMA PaidEffect ==
  ASSUME TypeOK, NEW e \in mail, e.sub \in Primaries, ApplyPaid(e)
  PROVE  LET s    == e.sub
             end  == IF e.kind = "captured" THEN rows[s].end ELSE Known(e.end, rows[s].end)
             paid == IF e.kind = "charged" THEN AtLeast(e.paid, rows[s].paid) ELSE rows[s].paid
         IN  /\ user'.tier = TierOf(s) /\ user'.sub = s /\ user'.end = end
             /\ user'.end = rows'[s].end /\ user'.status = "active"
             /\ rows'[s].status = "active" /\ rows'[s].paid = paid
             /\ user'.addonSub = IF DropsAddon(e) THEN NoSub ELSE user.addonSub
             /\ user'.addonCancelling => user.addonCancelling /\ ~DropsAddon(e)
             /\ user'.consecutive = IF Accrues(e) THEN user.consecutive + 1 ELSE user.consecutive
             /\ user'.reward => user.reward \/ Rewarded(e)
             /\ rows'[s] = [status |-> "active", end |-> end, paid |-> paid]
             /\ \A t \in Subs : t # s => rows'[t] = rows[t]
<1> DEFINE s    == e.sub
           end  == IF e.kind = "captured" THEN rows[s].end ELSE Known(e.end, rows[s].end)
           paid == IF e.kind = "charged" THEN AtLeast(e.paid, rows[s].paid) ELSE rows[s].paid
           up   == Upgraded(user, s, "active", end)
           v    == IF DropsAddon(e) THEN AddonOff(up) ELSE up
<1>1. /\ user \in User /\ s \in Subs /\ rows[s] \in Row /\ rows \in [Subs -> Row]
      /\ end \in Time \cup {NoTime}
  BY EventType DEF TypeOK, Row
<1>2. up \in User /\ AddonOff(up) \in User
  BY <1>1, UserType DEF RowStatus
<1>3. /\ up.tier = TierOf(s) /\ up.sub = s /\ up.end = end /\ up.status = "active"
      /\ up.addonSub = user.addonSub /\ up.addonCancelling = user.addonCancelling
      /\ up.consecutive = user.consecutive /\ up.reward = user.reward
  BY <1>1 DEF Upgraded, User
<1>4. /\ AddonOff(up).tier = up.tier /\ AddonOff(up).sub = up.sub
      /\ AddonOff(up).end = up.end /\ AddonOff(up).status = up.status
      /\ AddonOff(up).addonSub = NoSub /\ ~AddonOff(up).addonCancelling
      /\ AddonOff(up).consecutive = up.consecutive /\ AddonOff(up).reward = up.reward
  BY <1>2 DEF AddonOff, User
<1>5. /\ v \in User /\ v.tier = TierOf(s) /\ v.sub = s /\ v.end = end /\ v.status = "active"
      /\ v.addonSub = IF DropsAddon(e) THEN NoSub ELSE user.addonSub
      /\ v.addonCancelling => user.addonCancelling /\ ~DropsAddon(e)
      /\ v.consecutive = user.consecutive /\ v.reward = user.reward
  BY <1>2, <1>3, <1>4
<1>6. ASSUME NEW u \in User
      PROVE  /\ Accrued(u, e).tier = u.tier /\ Accrued(u, e).sub = u.sub
             /\ Accrued(u, e).end = u.end /\ Accrued(u, e).status = u.status
             /\ Accrued(u, e).addonSub = u.addonSub
             /\ Accrued(u, e).addonCancelling = u.addonCancelling
             /\ Accrued(u, e).consecutive = IF Accrues(e) THEN u.consecutive + 1 ELSE u.consecutive
             /\ Accrued(u, e).reward => u.reward \/ Rewarded(e)
  BY DEF Accrued, Rewarded, User
<1>7. user' = Accrued(v, e)
  BY DEF ApplyPaid
<1>8. rows' = [rows EXCEPT ![s] = [status |-> "active", end |-> end, paid |-> paid]]
  BY DEF ApplyPaid
<1>9. /\ rows'[s] = [status |-> "active", end |-> end, paid |-> paid]
      /\ \A t \in Subs : t # s => rows'[t] = rows[t]
  <2> DEFINE r == [status |-> "active", end |-> end, paid |-> paid]
  <2>1. rows' = [rows EXCEPT ![s] = r]
    BY <1>8
  <2> HIDE DEF r
  <2>2. rows'[s] = r /\ \A t \in Subs : t # s => rows'[t] = rows[t]
    BY <1>1, <2>1
  <2>3. QED BY <2>2 DEF r
<1>10. /\ user'.tier = TierOf(s) /\ user'.sub = s /\ user'.end = end /\ user'.status = "active"
       /\ user'.addonSub = IF DropsAddon(e) THEN NoSub ELSE user.addonSub
       /\ user'.addonCancelling => user.addonCancelling /\ ~DropsAddon(e)
       /\ user'.consecutive = IF Accrues(e) THEN user.consecutive + 1 ELSE user.consecutive
       /\ user'.reward => user.reward \/ Rewarded(e)
  <2> HIDE DEF v, s, end
  <2>1. QED BY <1>5, <1>6, <1>7
<1>11. /\ user'.end = rows'[s].end /\ rows'[s].status = "active"
       /\ rows'[s].paid = paid
  <2> HIDE DEF s, end, paid
  <2>1. QED BY <1>9, <1>10
<1>12. QED BY <1>9, <1>10, <1>11

\* The end of a subscription: its row, and nothing of the others.
LEMMA EndedEffect ==
  ASSUME TypeOK, NEW e \in mail, RowEnded(e)
  PROVE  /\ rows'[e.sub].status = e.kind /\ rows'[e.sub].end = EndOf(e)
         /\ rows'[e.sub].paid = rows[e.sub].paid
         /\ \A t \in Subs : t # e.sub => rows'[t] = rows[t]
<1>1. e.sub \in Subs /\ rows[e.sub] \in Row /\ rows \in [Subs -> Row]
  BY EventType DEF TypeOK
<1>2. rows' = [rows EXCEPT ![e.sub] = [rows[e.sub] EXCEPT !.status = e.kind, !.end = EndOf(e)]]
  BY <1>1 DEF RowEnded, Row
<1>3. rows'[e.sub] = [rows[e.sub] EXCEPT !.status = e.kind, !.end = EndOf(e)]
  BY <1>1, <1>2
<1>4. QED BY <1>1, <1>2, <1>3 DEF Row

\* What the expiry sweep leaves of the user and of the rows.
LEMMA SweepEffect ==
  ASSUME TypeOK, ExpirySweep
  PROVE  /\ user'.tier = IF PrimaryDue THEN "FREE" ELSE user.tier
         /\ user'.sub = user.sub /\ user'.end = user.end /\ user'.status = user.status
         /\ user'.consecutive = user.consecutive /\ user'.reward = user.reward
         /\ user'.addonSub = IF AddonDue THEN NoSub ELSE user.addonSub
         /\ user'.addonCancelling => user.addonCancelling /\ ~AddonDue
         /\ \A s \in Subs : /\ rows'[s].end = rows[s].end /\ rows'[s].paid = rows[s].paid
                            /\ rows'[s].status \in {rows[s].status, "expired"}
<1> DEFINE free == IF PrimaryDue THEN [user EXCEPT !.tier = "FREE"] ELSE user
<1>1. user \in User /\ \A s \in Subs : rows[s] \in Row
  BY DEF TypeOK
<1>2. /\ free \in User /\ free.tier = IF PrimaryDue THEN "FREE" ELSE user.tier
      /\ free.sub = user.sub /\ free.end = user.end /\ free.status = user.status
      /\ free.consecutive = user.consecutive /\ free.reward = user.reward
      /\ free.addonSub = user.addonSub /\ free.addonCancelling = user.addonCancelling
  BY <1>1 DEF User
<1>3. /\ AddonOff(free).tier = free.tier /\ AddonOff(free).sub = free.sub
      /\ AddonOff(free).end = free.end /\ AddonOff(free).status = free.status
      /\ AddonOff(free).consecutive = free.consecutive
      /\ AddonOff(free).reward = free.reward
      /\ AddonOff(free).addonSub = NoSub /\ ~AddonOff(free).addonCancelling
  BY <1>2 DEF AddonOff, User
<1>4. user' = IF AddonDue THEN AddonOff(free) ELSE free
  BY DEF ExpirySweep
<1>5. \A s \in Subs : rows'[s] \in {rows[s], Expired(rows[s])}
  BY DEF ExpirySweep
<1>6. \A s \in Subs : /\ Expired(rows[s]).end = rows[s].end
                      /\ Expired(rows[s]).paid = rows[s].paid
                      /\ Expired(rows[s]).status \in {rows[s].status, "expired"}
  BY <1>1 DEF Expired, Row
<1>7. QED BY <1>2, <1>3, <1>4, <1>5, <1>6

\* A payment signature for the add-on: the columns it leaves alone.
LEMMA AddonOnEffect ==
  ASSUME NEW u \in User, NEW s
  PROVE  /\ AddonOn(u, s).tier = u.tier /\ AddonOn(u, s).sub = u.sub
         /\ AddonOn(u, s).end = u.end /\ AddonOn(u, s).status = u.status
         /\ AddonOn(u, s).consecutive = u.consecutive /\ AddonOn(u, s).reward = u.reward
         /\ AddonOn(u, s).addonSub = s /\ ~AddonOn(u, s).addonCancelling
  BY DEF AddonOn, User

LEMMA AddonOffEffect ==
  ASSUME NEW u \in User
  PROVE  /\ AddonOff(u).tier = u.tier /\ AddonOff(u).sub = u.sub
         /\ AddonOff(u).end = u.end /\ AddonOff(u).status = u.status
         /\ AddonOff(u).consecutive = u.consecutive /\ AddonOff(u).reward = u.reward
         /\ AddonOff(u).addonSub = NoSub /\ ~AddonOff(u).addonCancelling
  BY DEF AddonOff, User

\* The steps that change neither the user nor a row.
LEMMA StillEffect ==
  ASSUME \/ UNCHANGED vars \/ Tick \/ \E e \in mail : Lose(e)
         \/ \E s \in Subs : \/ Pay(s) \/ Renew(s) \/ RenewalFails(s) \/ GiveUp(s)
                            \/ PeriodEnds(s) \/ Withdraw(s)
         \/ ResumeUnsaved
  PROVE  user' = user /\ rows' = rows
  BY DEF vars, Tick, Lose, ResumeUnsaved, Pay, Renew, RenewalFails, GiveUp, PeriodEnds, Withdraw,
         Charged, Moved

\* The steps that change only the add-on's flags, the reward or its retry.
LEMMA AsideEffect ==
  ASSUME TypeOK, CancelAddon \/ ReactivateAddon \/ ResumeOk \/ ResumeFails
  PROVE  /\ rows' = rows
         /\ user'.tier = user.tier /\ user'.sub = user.sub /\ user'.end = user.end
         /\ user'.status = user.status /\ user'.addonSub = user.addonSub
         /\ \/ user'.consecutive = user.consecutive /\ user'.reward = user.reward
            \/ user'.consecutive = 0 /\ ~user'.reward
<1>1. user \in User
  BY DEF TypeOK
<1>2. CASE CancelAddon \/ ReactivateAddon \/ ResumeFails
  BY <1>1, <1>2 DEF CancelAddon, ReactivateAddon, ResumeFails, User
<1>3. CASE ResumeOk
  BY <1>1, <1>3 DEF ResumeOk, RewardOver, User
<1>4. QED BY <1>2, <1>3

LEMMA OpenEffect ==
  ASSUME TypeOK, NEW s \in Subs, Subscribe(s) \/ SubscribeAddon(s)
  PROVE  /\ rows[s].status = "absent" /\ rows'[s].status = "created"
         /\ rows'[s].end = rows[s].end /\ rows'[s].paid = rows[s].paid
         /\ \A t \in Subs : t # s => rows'[t] = rows[t]
         /\ user'.tier = user.tier /\ user'.addonSub = user.addonSub
         /\ user'.consecutive = user.consecutive /\ user'.reward = user.reward
         /\ user'.addonCancelling = user.addonCancelling
         /\ \/ user'.sub = user.sub /\ user'.end = user.end /\ s \in Addons
            \/ user'.sub = s /\ user'.end = NoTime /\ s \in Openable
<1>1. user \in User /\ rows \in [Subs -> Row] /\ rows[s] \in Row
  BY DEF TypeOK
<1>2. CASE Subscribe(s)
  BY <1>1, <1>2 DEF Subscribe, User, Row
<1>3. CASE SubscribeAddon(s)
  BY <1>1, <1>3 DEF SubscribeAddon, Row
<1>4. QED BY <1>2, <1>3

LEMMA VerifyEffect ==
  ASSUME TypeOK, NEW s \in Subs, Verify(s)
  PROVE  /\ rows[s].status # "absent" /\ rows'[s].status = "authenticated"
         /\ rows'[s].end = rows[s].end /\ rows'[s].paid = rows[s].paid
         /\ \A t \in Subs : t # s => rows'[t] = rows[t]
         /\ user'.consecutive = user.consecutive /\ user'.reward = user.reward
         /\ \/ /\ s \in Addons /\ user'.tier = user.tier /\ user'.sub = user.sub
               /\ user'.end = user.end /\ user'.addonSub = s /\ ~user'.addonCancelling
            \/ /\ s \in Primaries /\ user'.tier = TierOf(s) /\ user'.sub = s
               /\ user'.end = rows[s].end /\ user'.addonSub = user.addonSub
               /\ user'.addonCancelling = user.addonCancelling
<1>1. user \in User /\ rows \in [Subs -> Row] /\ rows[s] \in Row
  BY DEF TypeOK
<1>2. /\ rows'[s].status = "authenticated" /\ rows'[s].end = rows[s].end
      /\ rows'[s].paid = rows[s].paid /\ \A t \in Subs : t # s => rows'[t] = rows[t]
  BY <1>1 DEF Verify, Row
<1>3. CASE s \in Addons
  BY <1>1, <1>2, <1>3 DEF Verify, AddonOn, User
<1>4. CASE s \notin Addons
  BY <1>1, <1>2, <1>4 DEF Verify, Upgraded, User, Primaries
<1>5. QED BY <1>3, <1>4

LEMMA CancelEffect ==
  ASSUME TypeOK, Cancel
  PROVE  /\ user.sub \in Subs /\ rows[user.sub].status # "absent"
         /\ rows'[user.sub].status = "cancelled"
         /\ rows'[user.sub].end = rows[user.sub].end
         /\ rows'[user.sub].paid = rows[user.sub].paid
         /\ \A t \in Subs : t # user.sub => rows'[t] = rows[t]
         /\ user'.tier = user.tier /\ user'.sub = user.sub
         /\ user'.end = rows[user.sub].end /\ user'.status = "cancelled"
         /\ user'.addonSub = user.addonSub /\ user'.addonCancelling = user.addonCancelling
         /\ user'.consecutive = user.consecutive /\ user'.reward = user.reward
<1>1. user \in User /\ rows \in [Subs -> Row]
  BY DEF TypeOK
<1>2. user.sub \in Subs /\ rows[user.sub] \in Row
  BY <1>1 DEF Cancel, User
<1>3. QED BY <1>1, <1>2 DEF Cancel, User, Row

\* The webhooks other than a payment for a plan: which columns they leave.
LEMMA OtherEffect ==
  ASSUME TypeOK, NEW e \in mail, Webhook(e),
         ~(e.kind \in {"activated", "charged", "captured"} /\ e.sub \in Primaries)
  PROVE  /\ rzp' = rzp /\ mail' \in Kept(e) /\ now' = now
         /\ rows[e.sub].status # "absent" /\ rows'[e.sub].status # "absent"
         /\ \A t \in Subs : t # e.sub => rows'[t] = rows[t]
         /\ e.sub \in Primaries => rows'[e.sub].paid = rows[e.sub].paid
         /\ user'.sub = user.sub
         /\ user'.consecutive = user.consecutive /\ user'.reward = user.reward
         /\ \/ /\ e.kind \in {"cancelled", "completed"} /\ e.sub \in Primaries
               /\ rows'[e.sub].end = EndOf(e) /\ user'.end = EndOf(e)
               /\ user'.status = e.kind
               /\ user'.tier = IF StillPaid(EndOf(e)) THEN user.tier ELSE "FREE"
               /\ user'.addonSub = user.addonSub
               /\ user'.addonCancelling = user.addonCancelling
            \/ /\ e.kind \notin {"cancelled", "completed"} \/ e.sub \notin Primaries
               /\ user'.end = user.end /\ user'.tier = user.tier
               /\ e.sub \in Primaries =>
                    /\ e.kind \in {"halted", "failed"} /\ rows'[e.sub].end = rows[e.sub].end
                    /\ user'.addonSub = user.addonSub
                    /\ user'.addonCancelling = user.addonCancelling
<1>1. /\ user \in User /\ e.sub \in Subs /\ rows[e.sub] \in Row /\ rows \in [Subs -> Row]
      /\ rows[e.sub].status # "absent" /\ now' = now
  BY EventType DEF TypeOK, Webhook
<1>2. CASE ApplyAddonPaid(e) /\ e.sub \in Addons
            /\ e.kind \in {"activated", "charged", "captured"}
  <2>1. rows'[e.sub].status = "active" /\ \A t \in Subs : t # e.sub => rows'[t] = rows[t]
    BY <1>1, <1>2 DEF ApplyAddonPaid
  <2>2. QED BY <1>1, <1>2, <2>1, AddonOnEffect DEF ApplyAddonPaid, Primaries
<1>3. CASE e.kind = "halted" /\ ApplyHalted(e)
  <2>1. /\ rows'[e.sub].status = "halted" /\ rows'[e.sub].end = rows[e.sub].end
        /\ rows'[e.sub].paid = rows[e.sub].paid
        /\ \A t \in Subs : t # e.sub => rows'[t] = rows[t]
    BY <1>1, <1>3 DEF ApplyHalted, Row
  <2>2. user' = [user EXCEPT !.status = "halted"]
    BY <1>3 DEF ApplyHalted
  <2>3. QED BY <1>1, <1>3, <2>1, <2>2 DEF ApplyHalted, User
<1>4. CASE e.kind = "failed" /\ ApplyFailed(e)
  <2>1. /\ rows'[e.sub].status = "failed" /\ rows'[e.sub].end = rows[e.sub].end
        /\ rows'[e.sub].paid = rows[e.sub].paid
        /\ \A t \in Subs : t # e.sub => rows'[t] = rows[t]
    BY <1>1, <1>4 DEF ApplyFailed, Row
  <2>2. /\ user'.tier = user.tier /\ user'.sub = user.sub /\ user'.end = user.end
        /\ user'.consecutive = user.consecutive /\ user'.reward = user.reward
        /\ user'.addonSub = user.addonSub
        /\ e.sub \in Primaries => user'.addonCancelling = user.addonCancelling
    BY <1>1, <1>4 DEF ApplyFailed, User, Primaries
  <2>3. QED BY <1>1, <1>4, <2>1, <2>2 DEF ApplyFailed
<1>5. CASE e.kind \in {"cancelled", "completed"} /\ e.sub \in Primaries /\ ApplyEnded(e)
  <2>1. RowEnded(e)
    BY <1>5 DEF ApplyEnded
  <2>2. /\ rows'[e.sub].status = e.kind /\ rows'[e.sub].end = EndOf(e)
        /\ rows'[e.sub].paid = rows[e.sub].paid
        /\ \A t \in Subs : t # e.sub => rows'[t] = rows[t]
    BY <2>1, EndedEffect
  <2>3. QED BY <1>1, <1>5, <2>2 DEF ApplyEnded, User
<1>6. CASE e.kind \in {"cancelled", "completed"} /\ e.sub \in Addons /\ ApplyAddonEnded(e)
  <2>1. RowEnded(e)
    BY <1>6 DEF ApplyAddonEnded
  <2>2. /\ rows'[e.sub].status = e.kind /\ rows'[e.sub].end = EndOf(e)
        /\ rows'[e.sub].paid = rows[e.sub].paid
        /\ \A t \in Subs : t # e.sub => rows'[t] = rows[t]
    BY <2>1, EndedEffect
  <2>3. /\ user'.tier = user.tier /\ user'.sub = user.sub /\ user'.end = user.end
        /\ user'.consecutive = user.consecutive /\ user'.reward = user.reward
    <3>1. AddonOn(user, e.sub) \in User
      BY <1>1, UserType
    <3>2. CASE StillPaid(EndOf(e))
      <4>1. user' = [AddonOn(user, e.sub) EXCEPT !.addonCancelling = TRUE]
        BY <1>6, <3>2 DEF ApplyAddonEnded
      <4>2. QED BY <1>1, <3>1, <4>1, AddonOnEffect DEF User
    <3>3. CASE ~StillPaid(EndOf(e))
      BY <1>1, <1>6, <3>3, AddonOffEffect DEF ApplyAddonEnded
    <3>4. QED BY <3>2, <3>3
  <2>4. QED BY <1>1, <1>6, <2>2, <2>3 DEF ApplyAddonEnded, Primaries
<1>7. QED BY <1>2, <1>3, <1>4, <1>5, <1>6 DEF Webhook

-----------------------------------------------------------------------------
(* The paid tier of a user with one plan.                                  *)

\* The user's end is the end in the row of the plan they point at, the one the
\* handlers compare with the clock.
EndMirrors ==
  /\ \A s \in Subs : rows[s].status = "absent" => rows[s].end = NoTime
  /\ user.sub # NoSub => user.end = rows[user.sub].end
  /\ Paying(user) => user.sub # NoSub

LEMMA MirrorInit == Init => EndMirrors
  BY DEF Init, EndMirrors, Paying

LEMMA MirrorStep ==
  ASSUME \A s, t \in Primaries : s = t, "addon_key" \notin Faults, Consistent, EndMirrors, [Next]_vars
  PROVE  EndMirrors'
<1>1. /\ TypeOK /\ user.sub \in Primaries \cup {NoSub} /\ NoSub \notin Subs
      /\ Openable = Primaries
  BY DEF Consistent, RefsOK, Primaries, Openable
<1>2. ASSUME rows' = rows, user'.tier = user.tier, user'.sub = user.sub, user'.end = user.end
      PROVE  EndMirrors'
  BY <1>2 DEF EndMirrors, Paying
<1>3. ASSUME NEW s \in Subs, Subscribe(s) \/ SubscribeAddon(s) PROVE EndMirrors'
  BY <1>1, <1>3, OpenEffect DEF EndMirrors, Paying, Primaries
<1>4. ASSUME NEW s \in Subs, Verify(s) PROVE EndMirrors'
  BY <1>1, <1>4, VerifyEffect DEF EndMirrors, Paying, Primaries
<1>5. CASE Cancel
  BY <1>1, <1>5, CancelEffect DEF EndMirrors, Paying
<1>6. CASE ExpirySweep
  <2>1. \A s \in Subs : rows'[s].end = rows[s].end
                        /\ (rows'[s].status = "absent" => rows[s].status = "absent")
    BY <1>1, <1>6, SweepEffect
  <2>2. QED BY <1>1, <1>6, <2>1, SweepEffect DEF EndMirrors, Paying, Primaries
<1>7. ASSUME NEW e \in mail, e.sub \in Primaries, ApplyPaid(e) PROVE EndMirrors'
  <2>1. /\ user'.sub = e.sub /\ user'.end = rows'[e.sub].end
        /\ rows'[e.sub].status = "active"
        /\ \A t \in Subs : t # e.sub => rows'[t] = rows[t]
    BY <1>1, <1>7, PaidEffect
  <2>2. QED BY <1>1, <1>7, <2>1 DEF EndMirrors, Primaries
<1>8. ASSUME NEW e \in mail, Webhook(e) PROVE EndMirrors'
  <2>1. CASE e.kind \in {"activated", "charged", "captured"} /\ e.sub \in Primaries
    BY <1>7, <1>8, <2>1 DEF Webhook, Addons, Primaries
  <2>2. CASE ~(e.kind \in {"activated", "charged", "captured"} /\ e.sub \in Primaries)
    <3>1. \A t \in Subs : t # e.sub => rows'[t] = rows[t]
      BY <1>1, <1>8, <2>2, OtherEffect
    <3>2. user'.sub = user.sub /\ rows'[e.sub].status # "absent"
      BY <1>1, <1>8, <2>2, OtherEffect
    <3>3. user'.tier = user.tier \/ user'.tier = "FREE"
      BY <1>1, <1>8, <2>2, OtherEffect
    <3>4. user.sub # NoSub => user'.end = rows'[user.sub].end
      <4>1. CASE e.sub \in Primaries
        BY <1>1, <1>8, <2>2, <4>1, OtherEffect DEF EndMirrors
      <4>2. CASE e.sub \notin Primaries
        BY <1>1, <1>8, <2>2, <3>1, <3>2, <4>2, OtherEffect DEF EndMirrors, Primaries
      <4>3. QED BY <4>1, <4>2
    <3>5. QED BY <1>1, <3>1, <3>2, <3>3, <3>4 DEF EndMirrors, Paying
  <2>3. QED BY <2>1, <2>2
<1>9. QED BY <1>1, <1>2, <1>3, <1>4, <1>5, <1>6, <1>8, StillEffect, AsideEffect DEF Next

\* Only the end of a plan and the expiry sweep take the tier away, and both
\* look at the end in the row.
LEMMA TierKeptStep ==
  ASSUME \A s, t \in Primaries : s = t, "addon_key" \notin Faults, Consistent,
         EndMirrors, [Next]_vars, Paying(user), user'.tier = "FREE"
  PROVE  \A s \in Primaries : ~StillPaid(rows'[s].end)
<1> SUFFICES ~StillPaid(rows'[user.sub].end)
  <2>1. user.sub \in Primaries
    BY DEF Consistent, RefsOK, EndMirrors, Paying, Primaries
  <2>2. QED BY <2>1
<1>1. TypeOK /\ user.sub \in Primaries /\ user.sub \in Subs /\ user.tier # "FREE"
  BY DEF Consistent, RefsOK, EndMirrors, Paying, Primaries
<1>2. ~(user'.tier = user.tier)
  BY <1>1
<1>3. CASE ExpirySweep
  <2>1. PrimaryDue /\ rows'[user.sub].end = rows[user.sub].end
    BY <1>1, <1>3, SweepEffect
  <2>2. user.end = rows[user.sub].end /\ user.end <= now /\ user.end \in Int /\ now \in Int
    BY <1>1, <2>1 DEF EndMirrors, PrimaryDue, TypeOK, User, Time, NoTime
  <2>3. QED BY <2>1, <2>2 DEF StillPaid
<1>4. ASSUME NEW e \in mail, Webhook(e)
      PROVE  ~StillPaid(rows'[user.sub].end)
  <2>1. ~(e.kind \in {"activated", "charged", "captured"} /\ e.sub \in Primaries)
    <3>1. SUFFICES ASSUME e.sub \in Primaries, ApplyPaid(e) PROVE FALSE
      BY <1>4 DEF Webhook, Addons, Primaries
    <3>2. user'.tier = TierOf(e.sub)
      BY <1>1, <3>1, PaidEffect
    <3>3. QED BY <3>1, <3>2, TierType
  <2>2. /\ e.sub \in Primaries /\ rows'[e.sub].end = EndOf(e)
        /\ ~StillPaid(EndOf(e))
    BY <1>1, <1>2, <1>4, <2>1, OtherEffect
  <2>3. user.sub = e.sub
    BY <1>1, <2>2
  <2>4. QED BY <2>2, <2>3
<1>5. ASSUME NEW s \in Subs, Verify(s) PROVE FALSE
  BY <1>1, <1>2, <1>5, VerifyEffect, TierType
<1>6. QED BY <1>1, <1>2, <1>3, <1>4, <1>5, StillEffect, AsideEffect, OpenEffect, CancelEffect
          DEF Next

\* A user with one plan, and any add-ons opened as such, keeps the paid tier
\* while the plan is paid for, whatever webhooks are repeated, lost or late.
THEOREM PaidTierIsKept ==
  ASSUME \A s, t \in Primaries : s = t, "addon_key" \notin Faults
  PROVE  Spec => PaidTierKept
<1>1. Init => Consistent /\ EndMirrors
  BY ConsistentInit, MirrorInit
<1>2. Consistent /\ EndMirrors /\ [Next]_vars => (Consistent /\ EndMirrors)'
  BY ConsistentStep, MirrorStep
<1>3. Consistent /\ EndMirrors /\ [Next]_vars =>
        [Paying(user) /\ user'.tier = "FREE" =>
           \A s \in Primaries :
             TierOf(s) = user.tier /\ rows'[s].paid > 0 => ~StillPaid(rows'[s].end)]_vars
  BY TierKeptStep
<1>4. QED BY <1>1, <1>2, <1>3, PTL DEF Spec, PaidTierKept

-----------------------------------------------------------------------------
(* The loyalty reward, for any number of plans.                            *)

\* The loyalty count is at most the charges that the rows have counted, and a
\* running reward was earned by them.
Counted == /\ user.consecutive <= Cardinality(Charges(rows))
           /\ user.reward => RewardAt <= Cardinality(Charges(rows))

\* Charges are countable, and more of them when the counts are higher.
LEMMA ChargesGrow ==
  ASSUME IsFiniteSet(Subs), NEW f, NEW g,
         \A p \in ProMonthly : f[p].paid \in Nat /\ g[p].paid \in Nat /\ f[p].paid <= g[p].paid
  PROVE  /\ Charges(f) \subseteq Charges(g)
         /\ IsFiniteSet(Charges(f)) /\ IsFiniteSet(Charges(g))
         /\ Cardinality(Charges(f)) \in Nat /\ Cardinality(Charges(g)) \in Nat
         /\ Cardinality(Charges(f)) <= Cardinality(Charges(g))
<1> DEFINE All == ProMonthly \X (1..MaxPaid)
<1>1. IsFiniteSet(All)
  <2>1. ProMonthly \in SUBSET Subs
    BY DEF ProMonthly
  <2>2. IsFiniteSet(ProMonthly)
    BY <2>1, FS_Subset
  <2>3. IsFiniteSet(1..MaxPaid)
    BY FS_Interval
  <2>4. QED BY <2>2, <2>3, FS_Product
<1>2. Charges(f) \in SUBSET All /\ Charges(g) \in SUBSET All
  BY DEF Charges
<1>3. Charges(f) \subseteq Charges(g)
  <2>1. ASSUME NEW c \in Charges(f) PROVE c \in Charges(g)
    <3>1. c \in All /\ c[1] \in ProMonthly /\ c[2] \in Nat /\ c[2] <= f[c[1]].paid
      BY DEF Charges
    <3>2. c[2] <= g[c[1]].paid
      BY <3>1
    <3>3. QED BY <3>1, <3>2 DEF Charges
  <2>2. QED BY <2>1
<1>4. IsFiniteSet(Charges(f)) /\ IsFiniteSet(Charges(g))
  BY <1>1, <1>2, FS_Subset
<1>5. Cardinality(Charges(f)) <= Cardinality(Charges(g))
  BY <1>3, <1>4, FS_Subset
<1>6. QED BY <1>3, <1>4, <1>5, FS_CardinalityType

\* A charge that is counted for the first time is one more.
LEMMA ChargeAdds ==
  ASSUME IsFiniteSet(Subs), NEW f, NEW g,
         \A p \in ProMonthly : f[p].paid \in Nat /\ g[p].paid \in Nat /\ f[p].paid <= g[p].paid,
         NEW p \in ProMonthly, g[p].paid > f[p].paid, g[p].paid <= MaxPaid
  PROVE  Cardinality(Charges(f)) + 1 <= Cardinality(Charges(g))
<1> DEFINE c == <<p, g[p].paid>>
<1>1. /\ IsFiniteSet(Charges(f)) /\ IsFiniteSet(Charges(g)) /\ Charges(f) \subseteq Charges(g)
      /\ Cardinality(Charges(f)) \in Nat /\ Cardinality(Charges(g)) \in Nat
  BY ChargesGrow
<1>2. c \in ProMonthly \X (1..MaxPaid) /\ c[1] = p /\ c[2] = g[p].paid
  OBVIOUS
<1>3. c \in Charges(g) /\ c \notin Charges(f)
  BY <1>2 DEF Charges
<1>4. /\ IsFiniteSet(Charges(f) \cup {c})
      /\ Cardinality(Charges(f) \cup {c}) = Cardinality(Charges(f)) + 1
  BY <1>1, <1>3, FS_AddElement
<1>5. Charges(f) \cup {c} \in SUBSET Charges(g)
  BY <1>1, <1>3
<1>6. Cardinality(Charges(f) \cup {c}) <= Cardinality(Charges(g))
  BY <1>1, <1>5, FS_Subset
<1>7. QED BY <1>1, <1>4, <1>6

LEMMA CountedInit == Init /\ IsFiniteSet(Subs) => Counted
<1> SUFFICES ASSUME Init, IsFiniteSet(Subs) PROVE Counted
  OBVIOUS
<1>1. \A p \in ProMonthly : rows[p].paid \in Nat
  BY DEF Init, ProMonthly
<1>2. Cardinality(Charges(rows)) \in Nat
  BY <1>1, ChargesGrow
<1>3. QED BY <1>2 DEF Init, Counted

LEMMA CountedStep ==
  ASSUME IsFiniteSet(Subs), Consistent, Counted, [Next]_vars
  PROVE  Counted'
<1>1. /\ TypeOK /\ user.consecutive \in Nat /\ user.sub \in Subs \cup {NoSub}
      /\ \A t \in Subs : rows[t].paid \in Nat /\ rows[t].paid <= MaxPaid
  BY DEF Consistent, TypeOK, User, Row
<1>2. \A p \in ProMonthly : p \in Primaries /\ p \in Subs /\ p \notin Addons
  BY DEF ProMonthly, Primaries, Addons
<1>3. ASSUME \A p \in ProMonthly : rows'[p].paid \in Nat /\ rows[p].paid <= rows'[p].paid,
             \/ user'.consecutive = user.consecutive /\ (user'.reward => user.reward)
             \/ user'.consecutive = 0 /\ ~user'.reward
      PROVE  Counted'
  <2>1. /\ Cardinality(Charges(rows)) \in Nat /\ Cardinality(Charges(rows')) \in Nat
        /\ Cardinality(Charges(rows)) <= Cardinality(Charges(rows'))
    BY <1>1, <1>2, <1>3, ChargesGrow
  <2>2. QED BY <1>1, <1>3, <2>1 DEF Counted, Charges
<1>4. ASSUME NEW s \in Subs, Subscribe(s) \/ SubscribeAddon(s) \/ Verify(s) PROVE Counted'
  <2>1. /\ rows'[s].paid = rows[s].paid /\ \A t \in Subs : t # s => rows'[t] = rows[t]
        /\ user'.consecutive = user.consecutive /\ user'.reward = user.reward
    BY <1>1, <1>4, OpenEffect, VerifyEffect
  <2>2. \A p \in ProMonthly : rows'[p].paid \in Nat /\ rows[p].paid <= rows'[p].paid
    BY <1>1, <1>2, <2>1
  <2>3. QED BY <1>3, <2>1, <2>2
<1>5. CASE Cancel
  <2>1. \A p \in ProMonthly : rows'[p].paid \in Nat /\ rows[p].paid <= rows'[p].paid
    BY <1>1, <1>2, <1>5, CancelEffect
  <2>2. QED BY <1>1, <1>3, <1>5, <2>1, CancelEffect
<1>6. CASE ExpirySweep
  <2>1. \A p \in ProMonthly : rows'[p].paid \in Nat /\ rows[p].paid <= rows'[p].paid
    BY <1>1, <1>2, <1>6, SweepEffect
  <2>2. QED BY <1>1, <1>3, <1>6, <2>1, SweepEffect
<1>7. ASSUME NEW e \in mail, e.sub \in Primaries, ApplyPaid(e) PROVE Counted'
  <2>1. /\ e.sub \in Subs /\ e.paid \in Nat /\ e.paid <= MaxPaid
    BY <1>1, EventType DEF Primaries, TypeOK, Event
  <2>2. /\ \A t \in Subs : t # e.sub => rows'[t] = rows[t]
        /\ rows'[e.sub].paid = IF e.kind = "charged" THEN AtLeast(e.paid, rows[e.sub].paid)
                               ELSE rows[e.sub].paid
        /\ user'.consecutive = IF Accrues(e) THEN user.consecutive + 1 ELSE user.consecutive
        /\ user'.reward => user.reward \/ Rewarded(e)
    BY <1>1, <1>7, PaidEffect
  <2>3. \A p \in ProMonthly : rows'[p].paid \in Nat /\ rows[p].paid <= rows'[p].paid
    BY <1>1, <1>2, <2>1, <2>2 DEF AtLeast
  <2>4. CASE Accrues(e)
    <3>1. /\ e.sub \in ProMonthly /\ rows'[e.sub].paid > rows[e.sub].paid
          /\ rows'[e.sub].paid <= MaxPaid
      BY <1>1, <2>1, <2>2, <2>4 DEF Accrues, AtLeast
    <3>2. /\ Cardinality(Charges(rows)) \in Nat /\ Cardinality(Charges(rows')) \in Nat
          /\ Cardinality(Charges(rows)) + 1 <= Cardinality(Charges(rows'))
      BY <1>1, <1>2, <2>3, <3>1, ChargesGrow, ChargeAdds
    <3>3. user'.consecutive = user.consecutive + 1
          /\ user'.consecutive <= Cardinality(Charges(rows'))
      BY <1>1, <2>2, <2>4, <3>2 DEF Counted
    <3>4. user'.reward => RewardAt <= Cardinality(Charges(rows'))
      <4>1. user'.reward => Rewarded(e)
        BY <2>2, <2>4 DEF Accrues
      <4>2. QED BY <3>3, <4>1 DEF Rewarded
    <3>5. QED BY <3>3, <3>4 DEF Counted, Charges
  <2>5. CASE ~Accrues(e)
    <3>1. user'.consecutive = user.consecutive /\ (user'.reward => user.reward)
      BY <2>2, <2>5 DEF Rewarded
    <3>2. QED BY <1>3, <2>3, <3>1
  <2>6. QED BY <2>4, <2>5
<1>8. ASSUME NEW e \in mail, Webhook(e) PROVE Counted'
  <2>1. CASE e.kind \in {"activated", "charged", "captured"} /\ e.sub \in Primaries
    BY <1>7, <1>8, <2>1 DEF Webhook, Addons, Primaries
  <2>2. CASE ~(e.kind \in {"activated", "charged", "captured"} /\ e.sub \in Primaries)
    <3>1. \A p \in ProMonthly : rows'[p].paid \in Nat /\ rows[p].paid <= rows'[p].paid
      BY <1>1, <1>2, <1>8, <2>2, OtherEffect
    <3>2. user'.consecutive = user.consecutive /\ user'.reward = user.reward
      BY <1>1, <1>8, <2>2, OtherEffect
    <3>3. QED BY <1>3, <3>1, <3>2
  <2>3. QED BY <2>1, <2>2
<1>9. CASE CancelAddon \/ ReactivateAddon \/ ResumeOk \/ ResumeFails
  <2>1. \A p \in ProMonthly : rows'[p].paid = rows[p].paid
    BY <1>1, <1>2, <1>9, AsideEffect
  <2>2. QED BY <1>1, <1>2, <1>3, <1>9, <2>1, AsideEffect
<1>10. ASSUME user' = user, rows' = rows PROVE Counted'
  BY <1>1, <1>2, <1>3, <1>10
<1>11. QED BY <1>4, <1>5, <1>6, <1>8, <1>9, <1>10, StillEffect DEF Next

\* The loyalty reward runs only when Razorpay made the charges that earn it,
\* with any number of plans and whatever webhooks are replayed, late or lost.
THEOREM RewardIsEarned ==
  ASSUME IsFiniteSet(Subs)
  PROVE  Spec => []RewardEarned
<1>1. Init => Consistent /\ Counted
  BY ConsistentInit, CountedInit
<1>2. Consistent /\ Counted /\ [Next]_vars => (Consistent /\ Counted)'
  BY ConsistentStep, CountedStep
<1>3. ASSUME Consistent, Counted PROVE RewardEarned
  <2>1. \A p \in ProMonthly :
          rows[p].paid \in Nat /\ rzp[p].paid \in Nat /\ rows[p].paid <= rzp[p].paid
    BY <1>3 DEF Consistent, RowOK, TypeOK, Row, Remote, ProMonthly
  <2>2. /\ Cardinality(Charges(rows)) \in Nat /\ Cardinality(Charges(rzp)) \in Nat
        /\ Cardinality(Charges(rows)) <= Cardinality(Charges(rzp))
    BY <2>1, ChargesGrow
  <2>3. QED BY <1>3, <2>2 DEF Counted, RewardEarned
<1>4. QED BY <1>1, <1>2, <1>3, PTL DEF Spec

-----------------------------------------------------------------------------
(* The add-on of a user who opens one.                                     *)

Claims(e) == e.kind \in {"activated", "charged", "captured"}

\* An add-on that runs on is held by the user, or a webhook that gives it to
\* them waits, or the call that ends it failed; one that the user is cancelling
\* is over or ends with its cycle.
Held ==
  \A s \in Addons :
    /\ rzp[s].state = "active" /\ ~rzp[s].atEnd =>
         user.addonSub = s \/ rzp[s].left \/ \E e \in mail : e.sub = s /\ Claims(e)
    /\ user.addonCancelling /\ user.addonSub = s => rzp[s].state = "ended" \/ rzp[s].atEnd

LEMMA HeldInit == Init => Held
  BY DEF Init, Held, Addons

\* Only a plan is ever paused.
NoPausedAddon == \A s \in Addons : rzp[s].state # "paused"

LEMMA NoPausedInit == Init => NoPausedAddon
  BY DEF Init, NoPausedAddon, Addons

LEMMA NoPausedStep ==
  ASSUME Consistent, NoPausedAddon, [Next]_vars
  PROVE  NoPausedAddon'
<1> SUFFICES ASSUME NEW a \in Addons PROVE rzp'[a].state # "paused"
  BY DEF NoPausedAddon
<1>1. /\ a \in Subs /\ rzp \in [Subs -> Remote] /\ rzp[a] \in Remote
      /\ rzp[a].state # "paused"
  BY DEF Consistent, TypeOK, Addons, NoPausedAddon
<1>2. ASSUME rzp'[a] = rzp[a] PROVE rzp'[a].state # "paused"
  BY <1>1, <1>2
<1>3. ASSUME NEW s \in Subs, Pay(s) \/ Renew(s) \/ RenewalFails(s) \/ GiveUp(s)
                             \/ PeriodEnds(s) \/ Withdraw(s)
      PROVE  rzp'[a].state # "paused"
  BY <1>1, <1>3 DEF Pay, Renew, RenewalFails, GiveUp, PeriodEnds, Withdraw, Charged, Moved,
                    Remote
<1>4. ASSUME NEW s \in Subs, Subscribe(s) \/ SubscribeAddon(s) \/ Verify(s)
      PROVE  rzp'[a].state # "paused"
  BY <1>1, <1>4 DEF Subscribe, SubscribeAddon, Verify, Remote
<1>5. \A c \in BOOLEAN : CancelAt(rzp[a], c).state # "paused"
  BY <1>1 DEF CancelAt, Remote
<1>6. CASE Cancel \/ CancelAddon \/ ReactivateAddon
  <2>1. \/ rzp'[a] = rzp[a] \/ rzp'[a] = CancelAt(rzp[a], TRUE)
        \/ rzp'[a] = [rzp[a] EXCEPT !.atEnd = FALSE]
    BY <1>1, <1>6 DEF Cancel, CancelAddon, ReactivateAddon
  <2>2. QED BY <1>1, <1>5, <2>1 DEF Remote
<1>7. ASSUME NEW e \in mail, Webhook(e) PROVE rzp'[a].state # "paused"
  <2>1. CASE ApplyPaid(e) /\ e.sub \in Primaries
    <3>1. a # e.sub
      BY <2>1 DEF Primaries
    <3>2. \/ rzp'[a] = rzp[a] \/ rzp'[a] = CancelAt(rzp[a], FALSE)
          \/ rzp'[a] = [rzp[a] EXCEPT !.left = TRUE]
      BY <1>1, <2>1, <3>1 DEF ApplyPaid
    <3>3. QED BY <1>1, <1>5, <3>2 DEF Remote
  <2>2. CASE rzp' = rzp
    BY <1>1, <2>2
  <2>3. QED BY <1>7, <2>1, <2>2 DEF Webhook, ApplyAddonPaid, ApplyHalted, ApplyFailed,
                                   ApplyEnded, ApplyAddonEnded
<1>8. CASE ResumeOk \/ ResumeUnsaved
  BY <1>1, <1>8 DEF ResumeOk, ResumeUnsaved, Remote
<1>9. CASE UNCHANGED vars \/ Tick \/ ExpirySweep \/ ResumeFails \/ \E e \in mail : Lose(e)
  BY <1>1, <1>9 DEF vars, Tick, ExpirySweep, ResumeFails, Lose
<1>10. QED BY <1>3, <1>4, <1>6, <1>7, <1>8, <1>9 DEF Next

\* A step that is not about the add-on.
LEMMA HeldAside ==
  ASSUME Held, \A s \in Addons : rzp'[s] = rzp[s],
         \A e \in mail : e \in mail' \/ e.sub \notin Addons \/ ~Claims(e),
         user'.addonSub = user.addonSub, user'.addonCancelling => user.addonCancelling
  PROVE  Held'
  BY DEF Held

\* A step after which the add-on does not run on.
LEMMA HeldStops ==
  ASSUME NEW a \in Addons, \A s, t \in Addons : s = t,
         rzp'[a].state # "active" \/ rzp'[a].atEnd,
         user'.addonCancelling /\ user'.addonSub = a => rzp'[a].state = "ended" \/ rzp'[a].atEnd
  PROVE  Held'
<1>1. \A s \in Addons : s = a
  OBVIOUS
<1>2. QED BY <1>1 DEF Held

\* A step after which the user holds the add-on and is not cancelling it.
LEMMA HeldOn ==
  ASSUME NEW a \in Addons, \A s, t \in Addons : s = t,
         user'.addonSub = a, ~user'.addonCancelling
  PROVE  Held'
<1>1. \A s \in Addons : s = a
  OBVIOUS
<1>2. QED BY <1>1 DEF Held

LEMMA HeldRazorpay ==
  ASSUME Consistent, Held, NEW a \in Addons, \A s, t \in Addons : s = t, NEW s \in Subs,
         \/ Pay(s) \/ Renew(s) \/ RenewalFails(s) \/ GiveUp(s) \/ PeriodEnds(s)
         \/ Withdraw(s)
  PROVE  Held'
<1>1. /\ a \in Subs /\ rzp \in [Subs -> Remote] /\ rzp[a] \in Remote
      /\ user' = user /\ mail \subseteq mail'
  BY DEF Consistent, TypeOK, Addons, Pay, Renew, RenewalFails, GiveUp, PeriodEnds,
         Withdraw, Charged, Moved
<1>2. CASE s # a
  <2>1. rzp'[a] = rzp[a]
    BY <1>1, <1>2 DEF Pay, Renew, RenewalFails, GiveUp, PeriodEnds, Withdraw, Charged, Moved
  <2>2. \A t \in Addons : rzp'[t] = rzp[t]
    BY <2>1
  <2>3. QED BY <1>1, <2>2, HeldAside
<1>3. CASE s = a /\ (Pay(a) \/ Renew(a))
  <2>1. Charged(a, {"charged", "captured"}) \/ Charged(a, {"activated", "charged", "captured"})
    BY <1>3 DEF Pay, Renew
  <2> DEFINE r == [rzp[a] EXCEPT !.state = "active", !.end = now + Period, !.paid = @ + 1]
             n == Notice("charged", a, r)
  <2>2. n \in mail' /\ n.sub = a /\ Claims(n)
    BY <2>1 DEF Charged, Notice, Claims
  <2>3. rzp[a].state # "ended" /\ ~rzp[a].atEnd
    BY <1>1, <1>3 DEF Pay, Renew, Renewable, Consistent, RemoteOK
  <2>4. ~(user.addonCancelling /\ user.addonSub = a)
    BY <2>3 DEF Held
  <2>5. \A t \in Addons : t = a
    OBVIOUS
  <2>6. QED BY <1>1, <2>2, <2>4, <2>5 DEF Held
<1>4. CASE s = a /\ (RenewalFails(a) \/ GiveUp(a) \/ PeriodEnds(a) \/ Withdraw(a))
  <2>1. /\ rzp'[a].state \in {"pending", "halted", "ended"} /\ rzp'[a].atEnd = rzp[a].atEnd
        /\ rzp[a].state # "ended"
    BY <1>1, <1>4 DEF RenewalFails, GiveUp, PeriodEnds, Withdraw, Moved, Remote
  <2>2. user'.addonCancelling /\ user'.addonSub = a => rzp'[a].atEnd
    BY <1>1, <2>1 DEF Held
  <2>3. QED BY <2>1, <2>2, HeldStops
<1>5. QED BY <1>2, <1>3, <1>4

LEMMA HeldClient ==
  ASSUME Consistent, Held, NEW a \in Addons, \A s, t \in Addons : s = t,
         \/ \E s \in Subs : Subscribe(s) \/ SubscribeAddon(s) \/ Verify(s)
         \/ Cancel \/ CancelAddon \/ ReactivateAddon
  PROVE  Held'
<1>1. /\ TypeOK /\ a \in Subs /\ rzp \in [Subs -> Remote] /\ rzp[a] \in Remote
      /\ user \in User /\ a \notin Primaries /\ NoSub \notin Subs
  BY DEF Consistent, TypeOK, Addons, Primaries
<1>2. ASSUME NEW s \in Primaries, Subscribe(s) PROVE Held'
  <2>1. mail' = mail /\ \A t \in Addons : rzp'[t] = rzp[t]
    BY <1>1, <1>2 DEF Subscribe, Primaries
  <2>2. s \in Subs
    BY DEF Primaries
  <2>3. user'.addonSub = user.addonSub /\ user'.addonCancelling = user.addonCancelling
    BY <1>1, <1>2, <2>2, OpenEffect
  <2>4. QED BY <2>1, <2>3, HeldAside
<1>3. CASE Subscribe(a) \/ SubscribeAddon(a)
  <2>1. rzp'[a].state = "created" /\ rows[a].status = "absent"
    BY <1>1, <1>3 DEF Subscribe, SubscribeAddon, Remote
  <2>2. user.addonSub # a
    BY <1>1, <2>1 DEF Consistent, RefsOK, Opened, RowOK
  <2>3. user'.addonSub = user.addonSub
    BY <1>1, <1>3, OpenEffect
  <2>4. QED BY <2>1, <2>2, <2>3, HeldStops
<1>4. ASSUME NEW s \in Subs, Verify(s) PROVE Held'
  <2>1. rzp' = rzp /\ mail' = mail
    BY <1>4 DEF Verify
  <2>2. CASE s \in Addons
    <3>1. user'.addonSub = a /\ ~user'.addonCancelling
      BY <1>1, <1>4, <2>2, VerifyEffect DEF Primaries
    <3>2. QED BY <3>1, HeldOn
  <2>3. CASE s \notin Addons
    <3>1. user'.addonSub = user.addonSub /\ user'.addonCancelling = user.addonCancelling
      BY <1>1, <1>4, <2>3, VerifyEffect
    <3>2. QED BY <2>1, <3>1, HeldAside
  <2>4. QED BY <2>2, <2>3
<1>5. CASE Cancel
  <2>1. user'.addonSub = user.addonSub /\ user'.addonCancelling = user.addonCancelling
    BY <1>1, <1>5, CancelEffect
  <2>2. mail \subseteq mail' /\ \A t \in Addons : t # user.sub => rzp'[t] = rzp[t]
    BY <1>1, <1>5 DEF Cancel, Addons
  <2>3. CASE user.sub # a
    BY <2>1, <2>2, <2>3, HeldAside
  <2>4. CASE user.sub = a
    <3>1. rzp'[a] = CancelAt(rzp[a], TRUE)
      BY <1>1, <1>5, <2>4 DEF Cancel
    <3>2. rzp'[a].state = "ended" \/ rzp'[a].atEnd
      BY <1>1, <3>1 DEF CancelAt, Remote
    <3>3. QED BY <3>2, HeldStops
  <2>5. QED BY <2>3, <2>4
<1>6. CASE CancelAddon
  <2>1. user.addonSub = a
    BY <1>1, <1>6 DEF CancelAddon, Consistent, RefsOK
  <2>2. rzp'[a] = CancelAt(rzp[a], TRUE)
    BY <1>1, <1>6, <2>1 DEF CancelAddon
  <2>3. rzp'[a].state = "ended" \/ rzp'[a].atEnd
    BY <1>1, <2>2 DEF CancelAt, Remote
  <2>4. QED BY <2>3, HeldStops
<1>7. CASE ReactivateAddon
  <2>1. user'.addonSub = a /\ ~user'.addonCancelling
    BY <1>1, <1>7 DEF ReactivateAddon, Consistent, RefsOK, User
  <2>2. QED BY <2>1, HeldOn
<1>8. ASSUME NEW s \in Subs, Subscribe(s) \/ SubscribeAddon(s) PROVE Held'
  <2>1. s \in Primaries \/ s = a
    BY DEF Primaries
  <2>2. QED BY <1>2, <1>3, <1>8, <2>1 DEF Subscribe, SubscribeAddon
<1>9. QED BY <1>4, <1>5, <1>6, <1>7, <1>8

LEMMA HeldApplyPaid ==
  ASSUME Consistent, Held, NEW a \in Addons, \A s, t \in Addons : s = t,
         NEW e \in mail, e.sub \in Primaries, ApplyPaid(e)
  PROVE  Held'
<1>1. /\ TypeOK /\ a \in Subs /\ rzp \in [Subs -> Remote] /\ rzp[a] \in Remote
      /\ a # e.sub /\ NoSub \notin Subs
  BY DEF Consistent, TypeOK, Addons, Primaries
<1>2. /\ user'.addonSub = IF DropsAddon(e) THEN NoSub ELSE user.addonSub
      /\ user'.addonCancelling => user.addonCancelling /\ ~DropsAddon(e)
  BY <1>1, PaidEffect
<1>3. PICK cancels \in Outcomes, pauses \in Outcomes :
        LET b    == user.addonSub
            stop == cancels /\ DropsAddon(e) /\ b # NoSub /\ Cancellable(b)
            hold == pauses /\ Rewarded(e) /\ rzp[e.sub].state = "active"
        IN  /\ rzp' = [t \in Subs |->
                         IF stop /\ t = b THEN CancelAt(rzp[t], FALSE)
                         ELSE IF ~cancels /\ DropsAddon(e) /\ t = b
                         THEN [rzp[t] EXCEPT !.left = TRUE]
                         ELSE IF hold /\ t = e.sub THEN [rzp[t] EXCEPT !.state = "paused"]
                         ELSE rzp[t]]
            /\ \E kept \in Kept(e) :
                 mail' = kept \cup (IF stop THEN CancelNews(b, FALSE) ELSE {})
  BY DEF ApplyPaid
<1>4. cancels \in BOOLEAN /\ CancelAt(rzp[a], FALSE).state # "active"
  BY <1>1 DEF Outcomes, CancelAt, Remote
<1>5. CASE DropsAddon(e)
  <2>1. user.addonSub = a
    BY <1>5 DEF DropsAddon, HasAddon, Consistent, RefsOK, AddonBacked
  <2>2. user'.addonSub # a
    BY <1>1, <1>2, <1>5
  <2>3. CASE cancels = TRUE
    <3>1. rzp'[a].state # "active"
      <4>1. CASE Cancellable(a)
        <5>1. rzp'[a] = CancelAt(rzp[a], FALSE)
          BY <1>1, <1>3, <1>5, <2>1, <2>3, <4>1
        <5>2. QED BY <1>4, <5>1
      <4>2. CASE ~Cancellable(a)
        <5>1. rzp'[a] = rzp[a]
          BY <1>1, <1>3, <1>5, <2>1, <2>3, <4>2
        <5>2. QED BY <4>2, <5>1 DEF Cancellable
      <4>3. QED BY <4>1, <4>2
    <3>2. QED BY <2>2, <3>1, HeldStops
  <2>4. CASE cancels = FALSE
    <3>1. rzp'[a] = [rzp[a] EXCEPT !.left = TRUE]
      BY <1>1, <1>3, <1>5, <2>1, <2>4
    <3>2. rzp'[a].left
      BY <1>1, <3>1 DEF Remote
    <3>3. \A t \in Addons : t = a
      OBVIOUS
    <3>4. QED BY <2>2, <3>2, <3>3 DEF Held
  <2>5. QED BY <1>4, <2>3, <2>4
<1>6. CASE ~DropsAddon(e)
  <2>1. \A t \in Addons : rzp'[t] = rzp[t]
    BY <1>1, <1>3, <1>6
  <2>2. \A f \in mail : f # e => f \in mail'
    BY <1>3 DEF Kept
  <2>3. e.sub \notin Addons
    BY DEF Primaries
  <2>4. QED BY <1>2, <1>6, <2>1, <2>2, <2>3, HeldAside
<1>7. QED BY <1>5, <1>6

LEMMA HeldWebhook ==
  ASSUME Consistent, Held, NEW a \in Addons, \A s, t \in Addons : s = t,
         NEW e \in mail, Webhook(e)
  PROVE  Held'
<1>1. /\ TypeOK /\ a \in Subs /\ user \in User /\ e.sub \in Subs /\ Truthful(e)
      /\ NoSub \notin Subs
  BY EventType DEF Consistent, TypeOK, Addons
<1>2. CASE Claims(e) /\ e.sub \in Primaries
  BY <1>2, HeldApplyPaid DEF Webhook, Claims, Addons, Primaries
<1>3. CASE ~(Claims(e) /\ e.sub \in Primaries)
  <2>1. rzp' = rzp /\ mail' \in Kept(e)
    BY <1>1, <1>3, OtherEffect DEF Claims
  <2>2. \A f \in mail : f # e => f \in mail'
    BY <2>1 DEF Kept
  <2>3. CASE e.sub \in Primaries
    <3>1. user'.addonSub = user.addonSub /\ user'.addonCancelling = user.addonCancelling
      BY <1>1, <1>3, <2>3, OtherEffect DEF Claims
    <3>2. e.sub \notin Addons
      BY <2>3 DEF Primaries
    <3>3. QED BY <2>1, <2>2, <3>1, <3>2, HeldAside
  <2>4. CASE e.sub \in Addons /\ Claims(e)
    <3>1. ApplyAddonPaid(e) /\ e.sub = a
      BY <2>4 DEF Webhook, Claims, Addons, Primaries
    <3>2. user'.addonSub = a /\ ~user'.addonCancelling
      BY <1>1, <3>1, AddonOnEffect DEF ApplyAddonPaid
    <3>3. QED BY <3>2, HeldOn
  <2>5. CASE e.kind \in {"halted", "failed"}
    <3>1. user'.addonSub = user.addonSub /\ (user'.addonCancelling => user.addonCancelling)
      <4>1. ApplyHalted(e) \/ ApplyFailed(e)
        BY <2>5 DEF Webhook
      <4>2. QED BY <1>1, <4>1 DEF ApplyHalted, ApplyFailed, User
    <3>2. ~Claims(e)
      BY <2>5 DEF Claims
    <3>3. QED BY <2>1, <2>2, <3>1, <3>2, HeldAside
  <2>6. CASE e.sub \in Addons /\ e.kind \in {"cancelled", "completed"}
    <3>1. rzp'[a].state = "ended"
      BY <1>1, <2>1, <2>6 DEF Truthful
    <3>2. QED BY <3>1, HeldStops
  <2>7. e.kind \in Kinds /\ (e.sub \in Primaries \/ e.sub \in Addons)
    BY <1>1 DEF TypeOK, Event, Primaries
  <2>8. QED BY <2>3, <2>4, <2>5, <2>6, <2>7 DEF Claims, Kinds
<1>4. QED BY <1>2, <1>3

LEMMA HeldStep ==
  ASSUME \A s, t \in Addons : s = t, "lost" \notin Faults,
         Consistent, Held, NoPausedAddon, [Next]_vars
  PROVE  Held'
<1>1. CASE Addons = {}
  BY <1>1 DEF Held
<1>2. ASSUME NEW a \in Addons PROVE Held'
  <2>1. TypeOK /\ user \in User /\ rzp \in [Subs -> Remote] /\ a \in Subs /\ NoSub \notin Subs
    BY DEF Consistent, TypeOK, Addons
  <2>2. CASE UNCHANGED vars \/ Tick
    BY <2>2, HeldAside DEF vars, Tick
  <2>3. CASE ExpirySweep
    <3>1. rzp' = rzp /\ mail' = mail
      BY <2>3 DEF ExpirySweep
    <3>2. CASE AddonDue
      <4>1. user.addonSub = a /\ user.addonCancelling
        BY <2>1, <3>2 DEF AddonDue, Consistent, RefsOK
      <4>2. rzp'[a].state # "active" \/ rzp'[a].atEnd
        BY <3>1, <4>1 DEF Held
      <4>3. ~user'.addonCancelling
        BY <2>1, <2>3, <3>2, SweepEffect
      <4>4. QED BY <4>2, <4>3, HeldStops
    <3>3. CASE ~AddonDue
      BY <2>1, <2>3, <3>1, <3>3, SweepEffect, HeldAside
    <3>4. QED BY <3>2, <3>3
  <2>4. CASE ResumeFails \/ ResumeOk \/ ResumeUnsaved
    <3>1. user'.addonSub = user.addonSub /\ user'.addonCancelling = user.addonCancelling
          /\ mail' = mail
      BY <2>1, <2>4 DEF ResumeFails, ResumeOk, ResumeUnsaved, RewardOver, User
    <3>2. \A t \in Addons : rzp'[t] = rzp[t]
      BY <2>1, <2>4 DEF ResumeFails, ResumeOk, ResumeUnsaved, NoPausedAddon, Addons
    <3>3. QED BY <3>1, <3>2, HeldAside
  <2>5. ASSUME NEW e \in mail, Lose(e) PROVE FALSE
    BY <2>5 DEF Lose
  <2>6. QED BY <2>2, <2>3, <2>4, <2>5, HeldRazorpay, HeldClient, HeldWebhook DEF Next
<1>3. QED BY <1>1, <1>2

\* A user who opens at most one add-on, with any plans, is linked to the add-on
\* that Razorpay goes on charging once its webhooks are handled, unless the call
\* that ends it on an upgrade to Pro failed: in any order and however often the
\* webhooks arrive, as long as none is lost.
THEOREM NoAddonIsOrphaned ==
  ASSUME \A s, t \in Addons : s = t, "lost" \notin Faults
  PROVE  Spec => []NoOrphanAddon
<1>1. Init => Consistent /\ Held /\ NoPausedAddon
  BY ConsistentInit, HeldInit, NoPausedInit
<1>2. Consistent /\ Held /\ NoPausedAddon /\ [Next]_vars =>
        (Consistent /\ Held /\ NoPausedAddon)'
  BY ConsistentStep, HeldStep, NoPausedStep
<1>3. Held => NoOrphanAddon
  BY DEF Held, NoOrphanAddon
<1>4. QED BY <1>1, <1>2, <1>3, PTL DEF Spec

=============================================================================
