--------------------------- MODULE BillingProofs ---------------------------
(***************************************************************************)
(* Safety of Billing for any set of plans, any bounds and any faults:      *)
(* webhooks repeated, lost and in any order.                               *)
(***************************************************************************)
EXTENDS Billing, TLAPS

USE SubsAssumption, PlanAssumption, BoundAssumption

-----------------------------------------------------------------------------
(* Types.                                                                  *)

LEMMA LaterType == ASSUME now \in Time, NEW d \in Nat PROVE Later(d) \in Time
  BY DEF Later, Time

LEMMA TierType == ASSUME NEW s \in Primaries PROVE TierOf(s) \in {"PLUS", "PRO"}
  BY DEF TierOf

\* What the helpers return of a user is a user.
LEMMA UserType ==
  ASSUME TypeOK, NEW u \in User
  PROVE  /\ AddonOff(u) \in User
         /\ \A s \in Subs : AddonOn(u, s) \in User
         /\ \A s \in Primaries, st \in RowStatus, end \in Time \cup {NoTime} :
              Upgraded(u, s, st, end) \in User
         /\ \A e \in Event : Accrued(u, e) \in User
         /\ RewardOver(u) \in User
<1>1. AddonOff(u) \in User
  BY DEF AddonOff, User
<1>2. ASSUME NEW s \in Subs PROVE AddonOn(u, s) \in User
  BY DEF AddonOn, User
<1>3. ASSUME NEW s \in Primaries, NEW st \in RowStatus,
             NEW end \in Time \cup {NoTime}
      PROVE  Upgraded(u, s, st, end) \in User
  BY TierType DEF Upgraded, User, Primaries
<1>4. ASSUME NEW e \in Event PROVE Accrued(u, e) \in User
  <2>1. Later(Hold) \in Time
    BY LaterType DEF TypeOK
  <2>2. [u EXCEPT !.consecutive = @ + 1] \in User
    BY DEF User
  <2>3. [u EXCEPT !.consecutive = @ + 1, !.reward = TRUE, !.resumeAt = Later(Hold)]
          \in User
    <3>1. \A t \in Time : [[u EXCEPT !.consecutive = @ + 1] EXCEPT !.reward = TRUE, !.resumeAt = t] \in User
      BY <2>2 DEF User
    <3>2. [u EXCEPT !.consecutive = @ + 1, !.reward = TRUE, !.resumeAt = Later(Hold)]
       = [[u EXCEPT !.consecutive = @ + 1] EXCEPT !.reward = TRUE, !.resumeAt = Later(Hold)]
      BY DEF User
    <3> QED BY <2>1, <3>1, <3>2
  <2>4. QED BY <2>2, <2>3 DEF Accrued
<1>5. RewardOver(u) \in User
  BY DEF RewardOver, User
<1>6. QED BY <1>1, <1>2, <1>3, <1>4, <1>5

LEMMA TypeInit == Init => TypeOK
  BY DEF Init, TypeOK, User, Row, Remote, Time, NoTime, RowStatus, RzpState, Terminal

\* A webhook about a subscription carries its end and count.
LEMMA NoticeType ==
  ASSUME NEW k \in Kinds, NEW s \in Subs, NEW r \in Remote
  PROVE  Notice(k, s, r) \in Event
  BY DEF Notice, Remote, Event

LEMMA NewsType ==
  ASSUME TypeOK, NEW s \in Subs, NEW b \in BOOLEAN
  PROVE  CancelAt(rzp[s], b) \in Remote /\ CancelNews(s, b) \subseteq Event
<1>1. rzp[s] \in Remote
  BY DEF TypeOK
<1>2. CancelAt(rzp[s], b) \in Remote
  BY <1>1 DEF CancelAt, Remote, RzpState
<1>3. CancelNews(s, b) \subseteq Event
  BY <1>1, NoticeType DEF CancelNews, Kinds
<1>4. QED BY <1>2, <1>3

LEMMA TypeRazorpay ==
  ASSUME TypeOK, NEW s \in Subs,
         Pay(s) \/ Renew(s) \/ RenewalFails(s) \/ GiveUp(s) \/ PeriodEnds(s) \/ Withdraw(s)
  PROVE  TypeOK'
<1>1. rzp[s] \in Remote /\ now \in Time
  BY DEF TypeOK
<1>2. ASSUME NEW news \in SUBSET Kinds, Charged(s, news) PROVE TypeOK'
  <2> DEFINE r == [rzp[s] EXCEPT !.state = "active", !.end = now + Period, !.paid = @ + 1]
  <2>1. r \in Remote
    <3>1. now + Period \in Time
      BY <1>1, <1>2 DEF Charged, Time
    <3>2. rzp[s].paid \in 0..MaxPaid
      BY <1>1 DEF Remote
    <3>3. rzp[s].paid + 1 \in 0..MaxPaid
      BY <1>2, <3>2 DEF Charged
    <3>4. QED BY <1>1, <3>1, <3>3 DEF Remote, RzpState
  <2>2. mail' \subseteq Event
    BY <1>2, <2>1, NoticeType DEF Charged, TypeOK
  <2>3. QED BY <1>2, <2>1, <2>2 DEF Charged, TypeOK
<1>3. ASSUME NEW st \in RzpState, NEW k \in Kinds, Moved(s, st, k) PROVE TypeOK'
  <2>1. [rzp[s] EXCEPT !.state = st] \in Remote
    BY <1>1 DEF Remote
  <2>2. mail' \subseteq Event
    BY <1>1, <1>3, NoticeType DEF Moved, TypeOK
  <2>3. QED BY <1>3, <2>1, <2>2 DEF Moved, TypeOK
<1>4. Pay(s) \/ Renew(s) => \E news \in SUBSET Kinds : Charged(s, news)
  BY DEF Pay, Renew, Kinds
<1>5. RenewalFails(s) \/ GiveUp(s) \/ PeriodEnds(s) \/ Withdraw(s)
        => \E st \in RzpState, k \in Kinds : Moved(s, st, k)
  BY DEF RenewalFails, GiveUp, PeriodEnds, Withdraw, RzpState, Kinds
<1>6. QED BY <1>2, <1>3, <1>4, <1>5

LEMMA TypeClient ==
  ASSUME TypeOK,
         \/ \E s \in Subs : Subscribe(s) \/ SubscribeAddon(s) \/ Verify(s)
         \/ Cancel \/ CancelAddon \/ ReactivateAddon
  PROVE  TypeOK'
<1>1. user \in User /\ \A s \in Subs : rows[s] \in Row /\ rzp[s] \in Remote
  BY DEF TypeOK
<1>2. ASSUME NEW s \in Subs, Subscribe(s) PROVE TypeOK'
  <2>1. user' \in User
    BY <1>1, <1>2 DEF Subscribe, User, RowStatus
  <2>2. [rzp[s] EXCEPT !.state = "created"] \in Remote
    BY <1>1 DEF Remote, RzpState
  <2>3. [rows[s] EXCEPT !.status = "created"] \in Row
    BY <1>1 DEF Row, RowStatus
  <2>4. QED BY <1>2, <2>1, <2>2, <2>3 DEF Subscribe, TypeOK
<1>3. ASSUME NEW s \in Subs, SubscribeAddon(s) PROVE TypeOK'
  <2>1. [rzp[s] EXCEPT !.state = "created"] \in Remote
    BY <1>1 DEF Remote, RzpState
  <2>2. [rows[s] EXCEPT !.status = "created"] \in Row
    BY <1>1 DEF Row, RowStatus
  <2>3. QED BY <1>3, <2>1, <2>2 DEF SubscribeAddon, TypeOK
<1>4. ASSUME NEW s \in Subs, Verify(s) PROVE TypeOK'
  <2>1. [rows[s] EXCEPT !.status = "authenticated"] \in Row
    BY <1>1 DEF Row, RowStatus
  <2>2. AddonOn(user, s) \in User
    BY <1>1, UserType
  <2>3. [AddonOn(user, s) EXCEPT !.status = "authenticated"] \in User
    BY <2>2 DEF User, RowStatus
  <2>4. s \notin Addons => Upgraded(user, s, "authenticated", rows[s].end) \in User
    BY <1>1, UserType DEF Row, RowStatus, Primaries
  <2>5. QED BY <1>4, <2>1, <2>3, <2>4 DEF Verify, TypeOK
<1>5. CASE Cancel
  <2>1. user.sub \in Subs
    BY <1>1, <1>5 DEF Cancel, User
  <2>2. user' \in User
    BY <1>1, <1>5, <2>1 DEF Cancel, User, RowStatus, Terminal, Row
  <2>3. [rows[user.sub] EXCEPT !.status = "cancelled"] \in Row
    BY <1>1, <2>1 DEF Row, RowStatus, Terminal
  <2>4. QED BY <1>5, <2>1, <2>2, <2>3, NewsType DEF Cancel, TypeOK
<1>6. CASE CancelAddon
  <2>1. user.addonSub \in Subs
    BY <1>1, <1>6 DEF CancelAddon, User
  <2>2. user' \in User
    BY <1>1, <1>6 DEF CancelAddon, User
  <2>3. QED BY <1>6, <2>1, <2>2, NewsType DEF CancelAddon, TypeOK
<1>7. CASE ReactivateAddon
  <2>1. user.addonSub \in Subs
    BY <1>1, <1>7 DEF ReactivateAddon, User
  <2>2. user' \in User
    BY <1>1, <1>7 DEF ReactivateAddon, User
  <2>3. [rzp[user.addonSub] EXCEPT !.atEnd = FALSE] \in Remote
    BY <1>1, <2>1 DEF Remote
  <2>4. QED BY <1>7, <2>1, <2>2, <2>3 DEF ReactivateAddon, TypeOK
<1>8. QED BY <1>2, <1>3, <1>4, <1>5, <1>6, <1>7

LEMMA KeptType == ASSUME TypeOK, NEW e \in mail PROVE \A k \in Kept(e) : k \subseteq Event
  BY DEF Kept, TypeOK

LEMMA EventType ==
  ASSUME TypeOK, NEW e \in mail
  PROVE  /\ e \in Event /\ e.sub \in Subs /\ e.end \in Time \cup {NoTime}
         /\ e.paid \in 0..MaxPaid
         /\ rows[e.sub] \in Row
         /\ \A old \in Time \cup {NoTime} : Known(e.end, old) \in Time \cup {NoTime}
         /\ EndOf(e) \in Time \cup {NoTime}
<1>1. e \in Event /\ rows \in [Subs -> Row]
  BY DEF TypeOK
<1>2. e.sub \in Subs /\ e.end \in Time \cup {NoTime} /\ e.paid \in 0..MaxPaid
  BY <1>1 DEF Event
<1>3. rows[e.sub] \in Row
  BY <1>1, <1>2
<1>4. \A old \in Time \cup {NoTime} : Known(e.end, old) \in Time \cup {NoTime}
  BY <1>2 DEF Known
<1>5. EndOf(e) \in Time \cup {NoTime}
  BY <1>3, <1>4 DEF EndOf, Row
<1>6. QED BY <1>1, <1>2, <1>3, <1>4, <1>5

LEMMA TypeApplyPaid ==
  ASSUME TypeOK, NEW e \in mail, e.sub \in Primaries, ApplyPaid(e), now' = now
  PROVE  TypeOK'
<1> DEFINE s    == e.sub
           end  == IF e.kind = "captured" THEN rows[s].end ELSE Known(e.end, rows[s].end)
           paid == IF e.kind = "charged" THEN AtLeast(e.paid, rows[s].paid) ELSE rows[s].paid
           up   == Upgraded(user, s, "active", end)
           a    == user.addonSub
<1>1. /\ user \in User /\ rows[s] \in Row /\ a \in Subs \cup {NoSub}
      /\ rzp \in [Subs -> Remote] /\ rows \in [Subs -> Row] /\ s \in Subs
  BY EventType DEF TypeOK, User
<1>2. end \in Time \cup {NoTime}
  BY <1>1, EventType DEF Row
<1>3. paid \in 0..MaxPaid
  BY <1>1, EventType DEF Row, AtLeast
<1>4. up \in User
  BY <1>1, <1>2, UserType DEF RowStatus
<1>5. user' \in User
  <2>1. user' = Accrued(IF DropsAddon(e) THEN AddonOff(up) ELSE up, e)
    BY DEF ApplyPaid
  <2>2. AddonOff(up) \in User
    BY <1>4, UserType
  <2>3. QED BY <1>4, <2>1, <2>2, UserType, EventType
<1>6. rows' \in [Subs -> Row]
  <2>1. rows' = [rows EXCEPT ![s] = [status |-> "active", end |-> end, paid |-> paid]]
    BY DEF ApplyPaid
  <2>2. [status |-> "active", end |-> end, paid |-> paid] \in Row
    BY <1>2, <1>3 DEF Row, RowStatus
  <2>3. QED BY <1>1, <2>1, <2>2
<1>7. rzp' \in [Subs -> Remote] /\ mail' \subseteq Event
  <2>1. PICK cancels \in Outcomes, pauses \in Outcomes :
           LET stop == cancels /\ DropsAddon(e) /\ a # NoSub /\ Cancellable(a)
               hold == pauses /\ Rewarded(e) /\ rzp[s].state = "active"
           IN  /\ rzp' = [t \in Subs |->
                            IF stop /\ t = a THEN CancelAt(rzp[t], FALSE)
                            ELSE IF ~cancels /\ DropsAddon(e) /\ t = a
                            THEN [rzp[t] EXCEPT !.left = TRUE]
                            ELSE IF hold /\ t = s THEN [rzp[t] EXCEPT !.state = "paused"]
                            ELSE rzp[t]]
               /\ \E kept \in Kept(e) :
                    mail' = kept \cup (IF stop THEN CancelNews(a, FALSE) ELSE {})
    BY DEF ApplyPaid
  <2> DEFINE stop == cancels /\ DropsAddon(e) /\ a # NoSub /\ Cancellable(a)
  <2>2. \A t \in Subs : CancelAt(rzp[t], FALSE) \in Remote
                        /\ [rzp[t] EXCEPT !.left = TRUE] \in Remote
                        /\ [rzp[t] EXCEPT !.state = "paused"] \in Remote
    <3>1. \A t \in Subs : [rzp[t] EXCEPT !.left = TRUE] \in Remote
      BY <1>1 DEF Remote
    <3>2. \A t \in Subs : [rzp[t] EXCEPT !.state = "paused"] \in Remote
      BY <1>1 DEF Remote, RzpState
    <3>3. QED BY <3>1, <3>2, NewsType
  <2>3. rzp' \in [Subs -> Remote]
    BY <1>1, <2>1, <2>2
  <2>4. stop => CancelNews(a, FALSE) \subseteq Event
    BY <1>1, NewsType
  <2>5. mail' \subseteq Event
    BY <2>1, <2>4, KeptType
  <2>6. QED BY <2>3, <2>5
<1>8. QED BY <1>5, <1>6, <1>7 DEF TypeOK

LEMMA TypeWebhook ==
  ASSUME TypeOK, NEW e \in mail, Webhook(e) \/ Lose(e)
  PROVE  TypeOK'
<1>1. /\ user \in User /\ rows \in [Subs -> Row] /\ rzp \in [Subs -> Remote]
      /\ e.sub \in Subs /\ rows[e.sub] \in Row
  BY EventType DEF TypeOK
<1>2. CASE Lose(e)
  BY <1>2 DEF Lose, TypeOK
<1>3. ASSUME now' = now, ApplyAddonPaid(e) PROVE TypeOK'
  <2> DEFINE r == [status |-> "active",
                   end    |-> IF e.kind = "captured" THEN rows[e.sub].end
                              ELSE Known(e.end, rows[e.sub].end),
                   paid   |-> IF e.kind = "charged" THEN e.paid ELSE rows[e.sub].paid]
  <2>1. r \in Row
    BY <1>1, EventType DEF Row, RowStatus
  <2>2. rows' = [rows EXCEPT ![e.sub] = r]
    BY <1>1, <1>3 DEF ApplyAddonPaid
  <2>3. user' \in User
    BY <1>1, <1>3, UserType DEF ApplyAddonPaid
  <2>4. QED BY <1>1, <1>3, <2>1, <2>2, <2>3, KeptType DEF ApplyAddonPaid, TypeOK
<1>4. ASSUME now' = now, ApplyHalted(e) PROVE TypeOK'
  <2>1. user' \in User
    BY <1>1, <1>4 DEF ApplyHalted, User, RowStatus
  <2>2. [rows[e.sub] EXCEPT !.status = "halted"] \in Row
    BY <1>1 DEF Row, RowStatus
  <2>3. QED BY <1>1, <1>4, <2>1, <2>2, KeptType DEF ApplyHalted, TypeOK
<1>5. ASSUME now' = now, ApplyFailed(e) PROVE TypeOK'
  <2>1. user' \in User
    <3>1. [user EXCEPT !.addonActive = FALSE, !.addonCancelling = FALSE] \in User
      BY <1>1 DEF User
    <3>2. [user EXCEPT !.status = "failed"] \in User
      BY <1>1 DEF User, RowStatus
    <3>3. QED BY <1>1, <1>5, <3>1, <3>2 DEF ApplyFailed
  <2>2. [rows[e.sub] EXCEPT !.status = "failed"] \in Row
    BY <1>1 DEF Row, RowStatus
  <2>3. QED BY <1>1, <1>5, <2>1, <2>2, KeptType DEF ApplyFailed, TypeOK
<1>6. ASSUME e.kind \in {"cancelled", "completed"}, RowEnded(e)
      PROVE  rows' \in [Subs -> Row]
  <2>1. [rows[e.sub] EXCEPT !.status = e.kind, !.end = EndOf(e)] \in Row
    BY <1>1, <1>6, EventType DEF Row, RowStatus, Terminal
  <2>2. rows' = [rows EXCEPT ![e.sub] = [rows[e.sub] EXCEPT !.status = e.kind, !.end = EndOf(e)]]
    BY <1>1, <1>6 DEF RowEnded, Row
  <2>3. QED BY <1>1, <2>1, <2>2
<1>7. ASSUME now' = now, e.kind \in {"cancelled", "completed"}, ApplyEnded(e) PROVE TypeOK'
  <2>1. \A tier \in {"FREE", "PLUS", "PRO"} :
          [user EXCEPT !.status = e.kind, !.end = EndOf(e), !.tier = tier] \in User
    BY <1>1, <1>7, EventType DEF User, RowStatus, Terminal
  <2>2. user' \in User
    BY <1>1, <1>7, <2>1 DEF ApplyEnded, User
  <2>3. QED BY <1>1, <1>6, <1>7, <2>2, KeptType DEF ApplyEnded, TypeOK
<1>8. ASSUME now' = now, e.kind \in {"cancelled", "completed"}, ApplyAddonEnded(e) PROVE TypeOK'
  <2>1. [AddonOn(user, e.sub) EXCEPT !.addonCancelling = TRUE] \in User
    <3>1. AddonOn(user, e.sub) \in User
      BY <1>1, UserType
    <3>2. QED BY <3>1 DEF User
  <2>2. user' \in User
    BY <1>1, <1>8, <2>1, UserType DEF ApplyAddonEnded
  <2>3. QED BY <1>1, <1>6, <1>8, <2>2, KeptType DEF ApplyAddonEnded, TypeOK
<1>9. CASE Webhook(e)
  BY <1>9, <1>3, <1>4, <1>5, <1>7, <1>8, TypeApplyPaid DEF Webhook
<1>10. QED BY <1>2, <1>9

LEMMA TypeSweep ==
  ASSUME TypeOK, Tick \/ ExpirySweep \/ ResumeOk \/ ResumeUnsaved \/ ResumeFails
  PROVE  TypeOK'
<1>1. /\ user \in User /\ rows \in [Subs -> Row] /\ rzp \in [Subs -> Remote]
      /\ now \in Time
  BY DEF TypeOK
<1>2. CASE Tick
  BY <1>1, <1>2 DEF Tick, TypeOK, Time
<1>3. CASE ExpirySweep
  <2> DEFINE free == IF PrimaryDue THEN [user EXCEPT !.tier = "FREE"] ELSE user
  <2>1. free \in User
    BY <1>1 DEF User
  <2>2. user' \in User
    <3>1. user' = IF AddonDue THEN AddonOff(free) ELSE free
      BY <1>3 DEF ExpirySweep
    <3>2. QED BY <2>1, <3>1, UserType
  <2>3. \A r \in Row : Expired(r) \in Row
    BY DEF Expired, Row, RowStatus, Terminal
  <2>4. QED BY <1>1, <1>3, <2>2, <2>3 DEF ExpirySweep, TypeOK
<1>4. CASE ResumeOk
  <2>1. user.sub \in Subs
    BY <1>1, <1>4 DEF ResumeOk, User
  <2>2. RewardOver(user) \in User
    BY <1>1, UserType
  <2>3. user' \in User
    BY <1>4, <2>2 DEF ResumeOk, User
  <2>4. [rzp[user.sub] EXCEPT !.state = "active"] \in Remote
    BY <1>1, <2>1 DEF Remote, RzpState
  <2>5. QED BY <1>1, <1>4, <2>1, <2>3, <2>4 DEF ResumeOk, TypeOK
<1>7. CASE ResumeUnsaved
  <2>1. user.sub \in Subs
    BY <1>1, <1>7 DEF ResumeUnsaved, User
  <2>2. [rzp[user.sub] EXCEPT !.state = "active"] \in Remote
    BY <1>1, <2>1 DEF Remote, RzpState
  <2>3. QED BY <1>1, <1>7, <2>1, <2>2 DEF ResumeUnsaved, TypeOK
<1>5. CASE ResumeFails
  <2>1. Later(1) \in Time
    BY <1>1, LaterType
  <2>2. user' \in User
    BY <1>1, <1>5, <2>1 DEF ResumeFails, User
  <2>3. QED BY <1>1, <1>5, <2>2 DEF ResumeFails, TypeOK
<1>6. QED BY <1>2, <1>3, <1>4, <1>5, <1>7

LEMMA TypeStep == TypeOK /\ [Next]_vars => TypeOK'
<1> SUFFICES ASSUME TypeOK, [Next]_vars PROVE TypeOK'
  OBVIOUS
<1>1. CASE UNCHANGED vars
  BY <1>1 DEF vars, TypeOK
<1>2. CASE Next
  BY <1>2, TypeRazorpay, TypeClient, TypeWebhook, TypeSweep DEF Next
<1>3. QED BY <1>1, <1>2

\* The columns and the Razorpay objects keep their types: no handler stores a
\* status, tier or reference that the others do not know.
THEOREM TypeCorrect == Spec => []TypeOK
<1>1. QED BY TypeInit, TypeStep, PTL DEF Spec

-----------------------------------------------------------------------------
(* The inductive invariant Consistent.                                     *)

LEMMA ConsistentInit == Init => Consistent
<1> SUFFICES ASSUME Init PROVE Consistent
  OBVIOUS
<1>1. TypeOK
  BY TypeInit
<1>2. RefsOK /\ TierBacked /\ AddonBacked /\ \A e \in mail : Truthful(e)
  BY SubsAssumption DEF Init, RefsOK, Opened, TierBacked, AddonBacked, Paying, Addons
<1>3. \A s \in Subs : RemoteOK(s) /\ RowOK(s)
  BY DEF Init, RemoteOK, RowOK
<1>4. QED BY <1>1, <1>2, <1>3 DEF Consistent

\* What Razorpay never takes back of a subscription: that it was opened, its
\* charges, its end and, for a plan, that it ends with its cycle.
OnlyGrows(s) ==
  /\ rzp'[s].paid >= rzp[s].paid
  /\ rzp[s].state # "none" => rzp'[s].state # "none"
  /\ rzp[s].state = "ended" => rzp'[s].state = "ended"
  /\ s \in Primaries /\ rzp[s].atEnd => rzp'[s].state = "ended" \/ rzp'[s].atEnd

LEMMA TruthKept ==
  ASSUME TypeOK, TypeOK', NEW e \in Event, Truthful(e), OnlyGrows(e.sub)
  PROVE  Truthful(e)'
<1>1. e.sub \in Subs /\ e.paid \in Nat
  BY DEF Event
<1>2. rzp[e.sub].paid \in Nat /\ rzp'[e.sub].paid \in Nat
  BY <1>1 DEF TypeOK, Remote
<1>3. QED BY <1>1, <1>2 DEF Truthful, OnlyGrows

LEMMA RowKept ==
  ASSUME TypeOK, TypeOK', NEW s \in Subs, RowOK(s), OnlyGrows(s), rows'[s] = rows[s],
         rzp[s].state = "none" => rzp'[s].state = "none"
  PROVE  RowOK(s)'
<1>1. rzp[s].paid \in Nat /\ rzp'[s].paid \in Nat /\ rows[s].paid \in Nat
  BY DEF TypeOK, Remote, Row
<1>2. QED BY <1>1 DEF RowOK, OnlyGrows

LEMMA TierKept ==
  ASSUME TypeOK, TypeOK', TierBacked, \A s \in Subs : OnlyGrows(s),
         user'.tier \in {user.tier, "FREE"}
  PROVE  TierBacked'
<1> SUFFICES ASSUME Paying(user)'
             PROVE  \E s \in Primaries : TierOf(s) = user'.tier /\ rzp'[s].paid > 0
  BY DEF TierBacked
<1>1. user'.tier = user.tier /\ Paying(user)
  BY DEF Paying
<1>2. PICK s \in Primaries : TierOf(s) = user.tier /\ rzp[s].paid > 0
  BY <1>1 DEF TierBacked
<1>3. rzp[s].paid \in Nat /\ rzp'[s].paid \in Nat /\ s \in Subs
  BY DEF TypeOK, Remote, Primaries
<1>4. rzp'[s].paid > 0
  BY <1>2, <1>3 DEF OnlyGrows
<1>5. QED BY <1>1, <1>2, <1>4

LEMMA AddonKept ==
  ASSUME TypeOK, TypeOK', AddonBacked, \A s \in Subs : OnlyGrows(s),
         user'.addonActive \/ user'.addonCancelling =>
           /\ user.addonActive \/ user.addonCancelling
           /\ user'.addonSub = user.addonSub
  PROVE  AddonBacked'
<1> SUFFICES ASSUME user'.addonActive \/ user'.addonCancelling
             PROVE  user'.addonSub \in Addons /\ rzp'[user'.addonSub].paid > 0
  BY DEF AddonBacked
<1> DEFINE a == user.addonSub
<1>1. user'.addonSub = a /\ a \in Addons /\ rzp[a].paid > 0
  BY DEF AddonBacked
<1>2. rzp[a].paid \in Nat /\ rzp'[a].paid \in Nat /\ a \in Subs
  BY <1>1 DEF TypeOK, Remote, Addons
<1>3. QED BY <1>1, <1>2 DEF OnlyGrows

LEMMA RefsKept ==
  ASSUME RefsOK, \A s \in Subs : OnlyGrows(s),
         \/ user'.sub = user.sub
         \/ user'.sub \in Openable /\ rzp'[user'.sub].state # "none",
         \/ user'.addonSub \in {user.addonSub, NoSub}
         \/ user'.addonSub \in Addons /\ rzp'[user'.addonSub].state # "none"
  PROVE  RefsOK'
<1>1. ASSUME NEW s \in Subs, Opened(s) PROVE rzp'[s].state # "none"
  BY <1>1, SubsAssumption DEF Opened, OnlyGrows
<1>2. user.sub \in Subs \cup {NoSub} /\ user.addonSub \in Subs \cup {NoSub}
  BY DEF RefsOK, Primaries, Addons
<1>3. /\ user'.sub \in Subs \cup {NoSub} /\ Opened(user.sub)'
      /\ "addon_key" \notin Faults => user'.sub \notin Addons
  BY <1>1, <1>2 DEF RefsOK, Opened, Openable, Primaries
<1>4. user'.addonSub \in Addons \cup {NoSub} /\ Opened(user.addonSub)'
  BY <1>1, <1>2 DEF RefsOK, Opened
<1>5. QED BY <1>3, <1>4 DEF RefsOK

\* A step that leaves the user alone, or changes neither references, tier nor
\* add-on, keeps what the invariant says of them.
LEMMA UserKept ==
  ASSUME Consistent, TypeOK', \A s \in Subs : OnlyGrows(s),
         user'.tier \in {user.tier, "FREE"},
         \/ user'.sub = user.sub
         \/ user'.sub \in Openable /\ rzp'[user'.sub].state # "none",
         user'.addonSub \in {user.addonSub, NoSub},
         user'.addonActive \/ user'.addonCancelling =>
           /\ user.addonActive \/ user.addonCancelling
           /\ user'.addonSub = user.addonSub
  PROVE  RefsOK' /\ TierBacked' /\ AddonBacked'
<1>1. RefsOK'
  BY RefsKept DEF Consistent
<1>2. QED BY <1>1, TierKept, AddonKept DEF Consistent

LEMMA ConsistentRazorpay ==
  ASSUME Consistent, NEW s \in Subs,
         Pay(s) \/ Renew(s) \/ RenewalFails(s) \/ GiveUp(s) \/ PeriodEnds(s) \/ Withdraw(s)
  PROVE  Consistent'
<1>1. TypeOK /\ TypeOK' /\ user' = user /\ rows' = rows
  BY TypeRazorpay DEF Consistent, Pay, Renew, RenewalFails, GiveUp, PeriodEnds,
                      Withdraw, Charged, Moved
<1>2. /\ rzp[s] \in Remote /\ rzp[s].paid \in Nat /\ now \in Nat
      /\ rzp \in [Subs -> Remote] /\ mail \subseteq Event
  BY <1>1 DEF TypeOK, Remote, Time
<1>3. ASSUME NEW news \in SUBSET (Kinds \ {"cancelled", "completed"}), Charged(s, news),
             rzp[s].state \in {"created", "active", "pending"}
      PROVE  /\ \A t \in Subs : OnlyGrows(t) /\ (rzp[t].state = "none" => rzp'[t].state = "none")
             /\ \A t \in Subs : RemoteOK(t)'
             /\ \A e \in mail' \ mail : Truthful(e)'
  <2> DEFINE r == [rzp[s] EXCEPT !.state = "active", !.end = now + Period, !.paid = @ + 1]
  <2>1. /\ r.state = "active" /\ r.end = now + Period /\ r.paid = rzp[s].paid + 1
        /\ r.atEnd = rzp[s].atEnd
    BY <1>2 DEF Remote
  <2>2. rzp' = [rzp EXCEPT ![s] = r] /\ rzp'[s] = r
    BY <1>2, <1>3 DEF Charged
  <2>3. \A t \in Subs : t # s => rzp'[t] = rzp[t]
    BY <1>2, <2>2
  <2>4. \A t \in Subs : OnlyGrows(t) /\ (rzp[t].state = "none" => rzp'[t].state = "none")
    <3>1. ASSUME NEW t \in Subs, t # s PROVE OnlyGrows(t)
      <4>1. rzp[t].paid \in Nat /\ rzp'[t] = rzp[t]
        BY <1>1, <2>3, <3>1 DEF TypeOK, Remote
      <4>2. QED BY <4>1 DEF OnlyGrows
    <3>2. OnlyGrows(s)
      BY <1>2, <1>3, <2>1, <2>2 DEF OnlyGrows
    <3>3. QED BY <1>3, <2>3, <3>1, <3>2
  <2>5. \A t \in Subs : RemoteOK(t)'
    BY <1>2, <2>1, <2>2, <2>3 DEF Consistent, RemoteOK
  <2>6. ASSUME NEW e \in mail' \ mail PROVE Truthful(e)'
    <3>1. PICK k \in news : e = Notice(k, s, r)
      BY <1>3 DEF Charged
    <3>2. e.sub = s /\ e.kind = k /\ e.paid = r.paid
      BY <3>1 DEF Notice
    <3>3. QED BY <1>2, <1>3, <2>1, <2>2, <3>2 DEF Truthful
  <2>7. QED BY <2>4, <2>5, <2>6
<1>4. ASSUME NEW st \in RzpState \ {"none", "created"}, NEW k \in Kinds, Moved(s, st, k),
             rzp[s].state \in {"active", "pending"},
             k \notin {"activated", "charged", "captured"},
             k \in {"cancelled", "completed"} => st = "ended"
      PROVE  /\ \A t \in Subs : OnlyGrows(t) /\ (rzp[t].state = "none" => rzp'[t].state = "none")
             /\ \A t \in Subs : RemoteOK(t)'
             /\ \A e \in mail' \ mail : Truthful(e)'
  <2>1. rzp' = [rzp EXCEPT ![s] = [rzp[s] EXCEPT !.state = st]]
    BY <1>2, <1>4 DEF Moved
  <2>2. /\ rzp'[s].state = st /\ rzp'[s].end = rzp[s].end /\ rzp'[s].paid = rzp[s].paid
        /\ rzp'[s].atEnd = rzp[s].atEnd
    BY <1>2, <2>1 DEF Remote
  <2>3. \A t \in Subs : t # s => rzp'[t] = rzp[t]
    BY <1>2, <2>1
  <2>4. \A t \in Subs : OnlyGrows(t) /\ (rzp[t].state = "none" => rzp'[t].state = "none")
    <3>1. \A t \in Subs : rzp[t].paid \in Nat
      BY <1>1 DEF TypeOK, Remote
    <3>2. QED BY <1>4, <2>2, <2>3, <3>1 DEF OnlyGrows
  <2>5. \A t \in Subs : RemoteOK(t)'
    BY <1>4, <2>2, <2>3 DEF Consistent, RemoteOK
  <2>6. ASSUME NEW e \in mail' \ mail PROVE Truthful(e)'
    <3>1. e = Notice(k, s, rzp[s])
      BY <1>4, <2>6 DEF Moved
    <3>2. e.sub = s /\ e.kind = k /\ e.paid = rzp[s].paid /\ e.end = rzp[s].end
      BY <3>1 DEF Notice
    <3>3. QED BY <1>2, <1>4, <2>2, <3>2 DEF Truthful, Consistent, RemoteOK
  <2>7. QED BY <2>4, <2>5, <2>6
<1>5. /\ \A t \in Subs : OnlyGrows(t) /\ (rzp[t].state = "none" => rzp'[t].state = "none")
      /\ \A t \in Subs : RemoteOK(t)'
      /\ \A e \in mail' \ mail : Truthful(e)'
  <2>1. Pay(s) \/ Renew(s) =>
          /\ rzp[s].state \in {"created", "active", "pending"}
          /\ \E news \in SUBSET (Kinds \ {"cancelled", "completed"}) : Charged(s, news)
    BY DEF Pay, Renew, Kinds
  <2>2. RenewalFails(s) \/ GiveUp(s) \/ PeriodEnds(s) \/ Withdraw(s) =>
          /\ rzp[s].state \in {"active", "pending"}
          /\ \E st \in RzpState \ {"none", "created"}, k \in Kinds :
               /\ Moved(s, st, k) /\ k \notin {"activated", "charged", "captured"}
               /\ k \in {"cancelled", "completed"} => st = "ended"
    BY DEF RenewalFails, GiveUp, PeriodEnds, Withdraw, RzpState, Kinds
  <2>3. QED BY <1>3, <1>4, <2>1, <2>2
<1>6. \A t \in Subs : RowOK(t)'
  BY <1>1, <1>5, RowKept DEF Consistent
<1>7. \A e \in mail' : Truthful(e)'
  <2>1. \A e \in mail : e \in Event /\ e.sub \in Subs
    BY <1>2 DEF Event
  <2>2. \A e \in mail : Truthful(e)'
    BY <1>1, <1>5, <2>1, TruthKept DEF Consistent
  <2>3. QED BY <1>5, <2>2
<1>8. RefsOK' /\ TierBacked' /\ AddonBacked'
  BY <1>1, <1>5, UserKept
<1>9. QED BY <1>1, <1>5, <1>6, <1>7, <1>8 DEF Consistent

\* What a step has to establish, once it takes nothing back at Razorpay.
LEMMA ConsistentFrom ==
  ASSUME Consistent, TypeOK', \A t \in Subs : OnlyGrows(t),
         \A t \in Subs : RemoteOK(t)' /\ RowOK(t)',
         \A e \in mail' \ mail : Truthful(e)',
         RefsOK' /\ TierBacked' /\ AddonBacked'
  PROVE  Consistent'
<1>1. \A e \in mail : e \in Event /\ e.sub \in Subs
  BY DEF Consistent, TypeOK, Event
<1>2. \A e \in mail : Truthful(e)'
  BY <1>1, TruthKept DEF Consistent
<1>3. QED BY <1>2 DEF Consistent

LEMMA SameRazorpay ==
  ASSUME Consistent, rzp' = rzp
  PROVE  \A t \in Subs : OnlyGrows(t) /\ RemoteOK(t)'
<1>1. \A t \in Subs : rzp[t].paid \in Nat
  BY DEF Consistent, TypeOK, Remote
<1>2. QED BY <1>1 DEF OnlyGrows, Consistent, RemoteOK

\* What a cancellation at Razorpay does to s and what its webhook says.
LEMMA CancelKept ==
  ASSUME Consistent, NEW s \in Subs, NEW b \in BOOLEAN, Cancellable(s),
         rzp' = [rzp EXCEPT ![s] = CancelAt(rzp[s], b)]
  PROVE  /\ \A t \in Subs : OnlyGrows(t) /\ RemoteOK(t)' /\ (t # s => rzp'[t] = rzp[t])
         /\ rzp'[s].state = "ended" \/ rzp'[s].atEnd
         /\ rzp[s].state # "none" /\ rzp'[s].state # "none"
         /\ \A e \in CancelNews(s, b) : Truthful(e)'
<1>1. rzp \in [Subs -> Remote] /\ rzp[s] \in Remote /\ rzp[s].paid \in Nat
  BY DEF Consistent, TypeOK, Remote
<1>2. rzp'[s] = CancelAt(rzp[s], b) /\ \A t \in Subs : t # s => rzp'[t] = rzp[t]
  BY <1>1
<1>3. /\ rzp'[s].paid = rzp[s].paid /\ rzp'[s].end = rzp[s].end
      /\ \/ rzp'[s].state = "ended" /\ rzp'[s].atEnd = rzp[s].atEnd
         \/ rzp'[s].state = rzp[s].state /\ rzp'[s].atEnd
            /\ rzp[s].state \in {"active", "pending"}
  BY <1>1, <1>2 DEF CancelAt, Remote
<1>4. \A t \in Subs : OnlyGrows(t)
  <2>1. \A t \in Subs : rzp[t].paid \in Nat
    BY <1>1 DEF Remote
  <2>2. QED BY <1>2, <1>3, <2>1 DEF OnlyGrows
<1>5. \A t \in Subs : RemoteOK(t)'
  BY <1>2, <1>3 DEF Consistent, RemoteOK
<1>6. ASSUME NEW e \in CancelNews(s, b) PROVE Truthful(e)'
  <2>1. e = Notice("cancelled", s, rzp[s]) /\ rzp'[s].state = "ended"
    BY <1>2, <1>6 DEF CancelNews
  <2>2. e.sub = s /\ e.kind = "cancelled" /\ e.paid = rzp[s].paid /\ e.end = rzp[s].end
    BY <2>1 DEF Notice
  <2>3. QED BY <1>1, <1>3, <2>1, <2>2 DEF Truthful, Consistent, RemoteOK
<1>7. QED BY <1>2, <1>3, <1>4, <1>5, <1>6 DEF Cancellable

LEMMA ConsistentOpen ==
  ASSUME Consistent, NEW s \in Subs, Subscribe(s) \/ SubscribeAddon(s)
  PROVE  Consistent'
<1>1. /\ rzp \in [Subs -> Remote] /\ rows \in [Subs -> Row] /\ user \in User
      /\ rzp[s] \in Remote /\ rows[s] \in Row /\ TypeOK'
  BY TypeClient DEF Consistent, TypeOK
<1>2. /\ rows[s].status = "absent" /\ mail' = mail
      /\ rzp' = [rzp EXCEPT ![s] = [rzp[s] EXCEPT !.state = "created"]]
      /\ rows' = [rows EXCEPT ![s] = [rows[s] EXCEPT !.status = "created"]]
  BY <1>1 DEF Subscribe, SubscribeAddon
<1>3. /\ rzp'[s].state = "created" /\ rzp'[s].paid = rzp[s].paid
      /\ rzp'[s].end = rzp[s].end /\ rzp'[s].atEnd = rzp[s].atEnd
      /\ rows'[s].status = "created" /\ rows'[s].paid = rows[s].paid
      /\ rows'[s].end = rows[s].end
  BY <1>1, <1>2 DEF Remote, Row
<1>4. \A t \in Subs : t # s => rzp'[t] = rzp[t] /\ rows'[t] = rows[t]
  BY <1>1, <1>2
<1>5. rzp[s].state = "none" /\ ~rzp[s].atEnd
  BY <1>2 DEF Consistent, RowOK, RemoteOK
<1>6. \A t \in Subs : OnlyGrows(t)
  <2>1. \A t \in Subs : rzp[t].paid \in Nat
    BY <1>1 DEF Remote
  <2>2. QED BY <1>3, <1>4, <1>5, <2>1 DEF OnlyGrows
<1>7. \A t \in Subs : RemoteOK(t)'
  BY <1>3, <1>4, <1>5 DEF Consistent, RemoteOK
<1>8. \A t \in Subs : RowOK(t)'
  BY <1>3, <1>4 DEF Consistent, RowOK
<1>9. RefsOK' /\ TierBacked' /\ AddonBacked'
  <2>1. /\ user'.tier = user.tier
        /\ user'.sub = user.sub \/ (user'.sub = s /\ s \in Openable)
        /\ user'.addonSub = user.addonSub /\ user'.addonActive = user.addonActive
        /\ user'.addonCancelling = user.addonCancelling
    BY <1>1 DEF Subscribe, SubscribeAddon, User
  <2>2. QED BY <1>1, <1>3, <1>6, <2>1, UserKept
<1>10. QED BY <1>1, <1>2, <1>6, <1>7, <1>8, <1>9, ConsistentFrom

\* Paying for s: what the invariant says of a user who is given s's tier, or
\* s as the add-on.
LEMMA PaidFor ==
  ASSUME Consistent, TypeOK', \A t \in Subs : OnlyGrows(t), NEW s \in Subs, rzp[s].paid > 0,
         rzp[s].state # "none",
         \/ /\ s \in Primaries /\ user'.tier = TierOf(s) /\ user'.sub = s
            /\ user'.addonSub \in {user.addonSub, NoSub}
            /\ user'.addonActive \/ user'.addonCancelling =>
                 /\ user.addonActive \/ user.addonCancelling
                 /\ user'.addonSub = user.addonSub
         \/ /\ s \in Addons /\ user'.tier = user.tier /\ user'.sub = user.sub
            /\ user'.addonSub = s
  PROVE  RefsOK' /\ TierBacked' /\ AddonBacked'
<1>1. TypeOK /\ rzp[s].paid \in Nat /\ rzp'[s].paid \in Nat
  BY DEF Consistent, TypeOK, Remote
<1>2. rzp'[s].paid > 0
  BY <1>1 DEF OnlyGrows
<1>3. RefsOK'
  <2>1. rzp'[s].state # "none"
    BY DEF OnlyGrows
  <2>2. s \in Primaries => s \in Openable
    BY DEF Openable, Primaries
  <2>3. QED BY <2>1, <2>2, RefsKept DEF Consistent
<1>4. TierBacked'
  <2>1. CASE s \in Primaries /\ user'.tier = TierOf(s)
    BY <1>2, <2>1 DEF TierBacked
  <2>2. CASE user'.tier = user.tier
    BY <1>1, <2>2, TierKept DEF Consistent
  <2>3. QED BY <2>1, <2>2
<1>5. AddonBacked'
  <2>1. CASE s \in Addons /\ user'.addonSub = s
    BY <1>2, <2>1 DEF AddonBacked
  <2>2. CASE user'.addonActive \/ user'.addonCancelling =>
                 /\ user.addonActive \/ user.addonCancelling
                 /\ user'.addonSub = user.addonSub
    BY <1>1, <2>2, AddonKept DEF Consistent
  <2>3. QED BY <2>1, <2>2
<1>6. QED BY <1>3, <1>4, <1>5

LEMMA ConsistentClient ==
  ASSUME Consistent, (\E s \in Subs : Verify(s)) \/ Cancel \/ CancelAddon \/ ReactivateAddon
  PROVE  Consistent'
<1>1. /\ rzp \in [Subs -> Remote] /\ rows \in [Subs -> Row] /\ user \in User
      /\ TypeOK /\ TypeOK' /\ \A t \in Subs : rzp[t].paid \in Nat
  BY TypeClient DEF Consistent, TypeOK, Remote
<1>2. ASSUME NEW s \in Subs, Verify(s) PROVE Consistent'
  <2>1. \A t \in Subs : OnlyGrows(t) /\ RemoteOK(t)'
    BY <1>2, SameRazorpay DEF Verify
  <2>2. rzp[s].paid > 0 /\ rzp[s].state # "none"
    BY <1>1, <1>2 DEF Verify, CheckoutOpen, Consistent, RowOK
  <2>3. /\ rows'[s].status = "authenticated" /\ rows'[s].paid = rows[s].paid
        /\ rows'[s].end = rows[s].end /\ \A t \in Subs : t # s => rows'[t] = rows[t]
    BY <1>1, <1>2 DEF Verify, Row
  <2>4. \A t \in Subs : RowOK(t)'
    BY <1>2, <2>2, <2>3 DEF Verify, Consistent, RowOK
  <2>5. RefsOK' /\ TierBacked' /\ AddonBacked'
    <3>1. CASE s \in Addons
      <4>1. user'.tier = user.tier /\ user'.sub = user.sub /\ user'.addonSub = s
        BY <1>1, <1>2, <3>1 DEF Verify, AddonOn, User
      <4>2. QED BY <1>1, <2>1, <2>2, <3>1, <4>1, PaidFor
    <3>2. CASE s \notin Addons
      <4>1. /\ user'.tier = TierOf(s) /\ user'.sub = s /\ user'.addonSub = user.addonSub
            /\ user'.addonActive = user.addonActive
            /\ user'.addonCancelling = user.addonCancelling
        BY <1>1, <1>2, <3>2 DEF Verify, Upgraded, User
      <4>2. QED BY <1>1, <2>1, <2>2, <3>2, <4>1, PaidFor DEF Primaries
    <3>3. QED BY <3>1, <3>2
  <2>6. mail' = mail
    BY <1>2 DEF Verify
  <2>7. QED BY <1>1, <2>1, <2>4, <2>5, <2>6, ConsistentFrom
<1>3. CASE Cancel
  <2>1. PICK s \in Subs : s = user.sub /\ Cancellable(s)
    BY <1>3 DEF Cancel, Consistent, RefsOK
  <2>2. /\ \A t \in Subs : OnlyGrows(t) /\ RemoteOK(t)' /\ (t # s => rzp'[t] = rzp[t])
        /\ rzp'[s].state = "ended" \/ rzp'[s].atEnd
        /\ rzp[s].state # "none" /\ rzp'[s].state # "none"
        /\ \A e \in CancelNews(s, TRUE) : Truthful(e)'
    BY <1>3, <2>1, CancelKept DEF Cancel
  <2>3. /\ rows'[s].status = "cancelled" /\ rows'[s].paid = rows[s].paid
        /\ rows'[s].end = rows[s].end /\ \A t \in Subs : t # s => rows'[t] = rows[t]
    BY <1>1, <1>3, <2>1 DEF Cancel, Row
  <2>4. \A t \in Subs : RowOK(t)'
    <3>1. ASSUME NEW t \in Subs, t # s PROVE RowOK(t)'
      BY <2>2, <2>3, <3>1 DEF Consistent, RowOK
    <3>2. rzp'[s].paid \in Nat /\ rzp'[s].paid >= rzp[s].paid /\ rows[s].paid \in Nat
      BY <1>1, <2>1, <2>2 DEF OnlyGrows, TypeOK, Remote, Row
    <3>3. RowOK(s)'
      BY <1>1, <2>1, <2>2, <2>3, <3>2 DEF Consistent, RowOK
    <3>4. QED BY <3>1, <3>3
  <2>5. RefsOK' /\ TierBacked' /\ AddonBacked'
    <3>1. /\ user'.tier = user.tier /\ user'.sub = user.sub
          /\ user'.addonSub = user.addonSub /\ user'.addonActive = user.addonActive
          /\ user'.addonCancelling = user.addonCancelling
      BY <1>1, <1>3 DEF Cancel, User
    <3>2. QED BY <1>1, <2>2, <3>1, UserKept
  <2>6. mail' = mail \cup CancelNews(s, TRUE)
    BY <1>3, <2>1 DEF Cancel
  <2>7. QED BY <1>1, <2>2, <2>4, <2>5, <2>6, ConsistentFrom
<1>4. CASE CancelAddon
  <2>1. PICK s \in Addons : s = user.addonSub /\ s \in Subs /\ Cancellable(s)
    BY <1>4 DEF CancelAddon, Consistent, RefsOK, Addons
  <2>2. /\ \A t \in Subs : OnlyGrows(t) /\ RemoteOK(t)' /\ (t # s => rzp'[t] = rzp[t])
        /\ rzp[s].state # "none" /\ rzp'[s].state # "none"
        /\ \A e \in CancelNews(s, TRUE) : Truthful(e)'
    BY <1>4, <2>1, CancelKept DEF CancelAddon
  <2>3. rows' = rows
    BY <1>4 DEF CancelAddon
  <2>4. \A t \in Subs : RowOK(t)'
    BY <1>1, <2>2, <2>3, RowKept DEF Consistent
  <2>5. RefsOK' /\ TierBacked' /\ AddonBacked'
    <3>1. /\ user'.tier = user.tier /\ user'.sub = user.sub
          /\ user'.addonSub = user.addonSub /\ user.addonActive
      BY <1>1, <1>4 DEF CancelAddon, User
    <3>2. QED BY <1>1, <2>2, <3>1, UserKept
  <2>6. mail' = mail \cup CancelNews(s, TRUE)
    BY <1>4, <2>1 DEF CancelAddon
  <2>7. QED BY <1>1, <2>2, <2>4, <2>5, <2>6, ConsistentFrom
<1>5. CASE ReactivateAddon
  <2>1. PICK s \in Addons : s = user.addonSub /\ s \in Subs /\ s \notin Primaries
    BY <1>5 DEF ReactivateAddon, Consistent, RefsOK, Addons, Primaries
  <2>2. /\ rzp'[s].state = rzp[s].state /\ rzp'[s].paid = rzp[s].paid
        /\ rzp'[s].end = rzp[s].end /\ ~rzp'[s].atEnd
        /\ \A t \in Subs : t # s => rzp'[t] = rzp[t]
    BY <1>1, <1>5, <2>1 DEF ReactivateAddon, Remote
  <2>3. \A t \in Subs : OnlyGrows(t) /\ RemoteOK(t)'
    BY <1>1, <2>1, <2>2 DEF OnlyGrows, Consistent, RemoteOK
  <2>4. \A t \in Subs : RowOK(t)'
    BY <1>1, <1>5, <2>2, <2>3, RowKept DEF ReactivateAddon, Consistent
  <2>5. RefsOK' /\ TierBacked' /\ AddonBacked'
    <3>1. /\ user'.tier = user.tier /\ user'.sub = user.sub
          /\ user'.addonSub = user.addonSub /\ user.addonCancelling
      BY <1>1, <1>5 DEF ReactivateAddon, User
    <3>2. QED BY <1>1, <2>3, <3>1, UserKept
  <2>6. mail' = mail
    BY <1>5 DEF ReactivateAddon
  <2>7. QED BY <1>1, <2>3, <2>4, <2>5, <2>6, ConsistentFrom
<1>6. QED BY <1>2, <1>3, <1>4, <1>5

LEMMA AccruedKeeps ==
  ASSUME NEW u \in User, NEW e
  PROVE  LET v == Accrued(u, e)
         IN  /\ v.tier = u.tier /\ v.sub = u.sub /\ v.addonSub = u.addonSub
             /\ v.addonActive = u.addonActive /\ v.addonCancelling = u.addonCancelling
  BY DEF Accrued, User

LEMMA ConsistentApplyPaid ==
  ASSUME Consistent, NEW e \in mail, e.sub \in Primaries, ApplyPaid(e), now' = now,
         e.kind \in {"activated", "charged", "captured"}, rows[e.sub].status # "absent"
  PROVE  Consistent'
<1> DEFINE s    == e.sub
           end  == IF e.kind = "captured" THEN rows[s].end ELSE Known(e.end, rows[s].end)
           paid == IF e.kind = "charged" THEN AtLeast(e.paid, rows[s].paid) ELSE rows[s].paid
           up   == Upgraded(user, s, "active", end)
<1>1. /\ TypeOK /\ TypeOK' /\ user \in User /\ s \in Subs /\ rows[s] \in Row
      /\ rzp \in [Subs -> Remote] /\ rows \in [Subs -> Row]
      /\ \A t \in Subs : rzp[t].paid \in Nat
      /\ end \in Time \cup {NoTime}
  <2>1. TypeOK /\ TypeOK'
    BY TypeApplyPaid DEF Consistent
  <2>2. /\ user \in User /\ s \in Subs /\ rows[s] \in Row
        /\ rzp \in [Subs -> Remote] /\ rows \in [Subs -> Row]
        /\ \A t \in Subs : rzp[t].paid \in Nat
    BY <2>1, EventType DEF TypeOK, Remote
  <2>3. end \in Time \cup {NoTime}
    BY <2>1, <2>2, EventType DEF Row
  <2>4. QED BY <2>1, <2>2, <2>3
<1>2. /\ rzp[s].paid > 0 /\ e.paid <= rzp[s].paid /\ e.paid \in Nat
      /\ rzp[s].state # "none"
  BY EventType DEF Consistent, Truthful
<1>3. PICK a \in Addons \cup {NoSub} : a = user.addonSub
  BY DEF Consistent, RefsOK
<1>4. PICK cancels \in Outcomes, pauses \in Outcomes :
         LET b    == user.addonSub
             stop == cancels /\ DropsAddon(e) /\ b # NoSub /\ Cancellable(b)
             hold == pauses /\ Rewarded(e) /\ rzp[s].state = "active"
         IN  /\ rzp' = [t \in Subs |->
                          IF stop /\ t = b THEN CancelAt(rzp[t], FALSE)
                          ELSE IF ~cancels /\ DropsAddon(e) /\ t = b
                          THEN [rzp[t] EXCEPT !.left = TRUE]
                          ELSE IF hold /\ t = s THEN [rzp[t] EXCEPT !.state = "paused"]
                          ELSE rzp[t]]
             /\ \E kept \in Kept(e) :
                  mail' = kept \cup (IF stop THEN CancelNews(b, FALSE) ELSE {})
  BY DEF ApplyPaid
<1> DEFINE stop == cancels /\ DropsAddon(e) /\ a # NoSub /\ Cancellable(a)
           hold == pauses /\ Rewarded(e) /\ rzp[s].state = "active"
<1>5. \A t \in Subs :
        /\ rzp'[t].paid = rzp[t].paid /\ rzp'[t].end = rzp[t].end
        /\ rzp'[t].atEnd = rzp[t].atEnd
        /\ \/ rzp'[t].state = rzp[t].state
           \/ stop /\ t = a /\ rzp'[t].state = "ended"
           \/ rzp[t].state = "active" /\ rzp'[t].state = "paused"
  BY <1>1, <1>3, <1>4 DEF CancelAt, Remote
<1>6. stop => a \in Subs /\ a # s /\ rzp[a].state \notin {"none", "ended"}
                /\ rzp'[a].state = "ended"
  BY <1>1, <1>3, <1>4 DEF Cancellable, Addons, Primaries, CancelAt, Remote
<1>7. \A t \in Subs : OnlyGrows(t) /\ (rzp[t].state = "none" => rzp'[t].state = "none")
  BY <1>1, <1>5, <1>6 DEF OnlyGrows
<1>8. \A t \in Subs : RemoteOK(t)'
  BY <1>5, <1>6 DEF Consistent, RemoteOK
<1>9. \A t \in Subs : RowOK(t)'
  <2>1. rows' = [rows EXCEPT ![s] = [status |-> "active", end |-> end, paid |-> paid]]
    BY DEF ApplyPaid
  <2>2. ASSUME NEW t \in Subs, t # s PROVE RowOK(t)'
    <3>1. rows'[t] = rows[t]
      BY <1>1, <2>1, <2>2
    <3>2. QED BY <1>1, <1>7, <3>1, RowKept DEF Consistent
  <2>3. rows'[s].status = "active" /\ rows'[s].paid = paid
    BY <1>1, <2>1
  <2>4. paid \in Nat /\ paid <= rzp[s].paid
    <3>1. rows[s].paid \in Nat /\ rows[s].paid <= rzp[s].paid
      BY <1>1 DEF Consistent, RowOK, Row
    <3>2. QED BY <1>2, <3>1 DEF AtLeast
  <2>5. RowOK(s)'
    BY <1>1, <1>2, <1>5, <1>7, <2>3, <2>4 DEF RowOK, OnlyGrows
  <2>6. QED BY <2>2, <2>5
<1>10. ASSUME NEW f \in mail' \ mail PROVE Truthful(f)'
  <2>1. stop /\ f \in CancelNews(a, FALSE)
    BY <1>3, <1>4, <1>10 DEF Kept
  <2>2. f = Notice("cancelled", a, rzp[a])
    BY <2>1 DEF CancelNews
  <2>3. f.sub = a /\ f.kind = "cancelled" /\ f.paid = rzp[a].paid /\ f.end = rzp[a].end
    BY <2>2 DEF Notice
  <2>4. QED BY <1>1, <1>5, <1>6, <2>1, <2>3 DEF Truthful, Consistent, RemoteOK
<1>11. RefsOK' /\ TierBacked' /\ AddonBacked'
  <2> DEFINE v == IF DropsAddon(e) THEN AddonOff(up) ELSE up
  <2>1. user' = Accrued(v, e)
    BY DEF ApplyPaid
  <2>2. up \in User /\ AddonOff(up) \in User
    BY <1>1, UserType DEF RowStatus
  <2>3. /\ v.tier = TierOf(s) /\ v.sub = s /\ v.addonSub \in {user.addonSub, NoSub}
        /\ v.addonActive \/ v.addonCancelling =>
             /\ user.addonActive \/ user.addonCancelling
             /\ v.addonSub = user.addonSub
    BY <1>1 DEF AddonOff, Upgraded, User
  <2>4. /\ user'.tier = TierOf(s) /\ user'.sub = s
        /\ user'.addonSub \in {user.addonSub, NoSub}
        /\ user'.addonActive \/ user'.addonCancelling =>
             /\ user.addonActive \/ user.addonCancelling
             /\ user'.addonSub = user.addonSub
    BY <2>1, <2>2, <2>3, AccruedKeeps
  <2>5. QED BY <1>1, <1>2, <1>7, <2>4, PaidFor
<1>12. QED BY <1>1, <1>7, <1>8, <1>9, <1>10, <1>11, ConsistentFrom

\* A webhook that leaves Razorpay alone changes one row, to something true.
LEMMA ConsistentApply ==
  ASSUME Consistent, NEW e \in mail, TypeOK', rzp' = rzp, mail' \in Kept(e),
         \A t \in Subs : t # e.sub => rows'[t] = rows[t],
         rows[e.sub].status # "absent" /\ rows'[e.sub].status # "absent",
         rows'[e.sub].paid \in {rows[e.sub].paid, e.paid},
         rows'[e.sub].end \in {rows[e.sub].end, e.end},
         rows'[e.sub].status \in {"cancelled", "completed"} =>
           e.kind \in {"cancelled", "completed"},
         \/ /\ user'.tier \in {user.tier, "FREE"} /\ user'.sub = user.sub
            /\ user'.addonSub \in {user.addonSub, NoSub}
            /\ user'.addonActive \/ user'.addonCancelling =>
                 /\ user.addonActive \/ user.addonCancelling
                 /\ user'.addonSub = user.addonSub
         \/ /\ e.sub \in Addons /\ user'.tier = user.tier /\ user'.sub = user.sub
            /\ user'.addonSub = e.sub /\ rzp[e.sub].paid > 0
  PROVE  Consistent'
<1>1. \A t \in Subs : OnlyGrows(t) /\ RemoteOK(t)'
  BY SameRazorpay
<1>2. e.sub \in Subs /\ rows[e.sub].paid \in Nat /\ e.paid \in Nat /\ rzp[e.sub].paid \in Nat
  BY EventType DEF Consistent, TypeOK, Row, Remote
<1>3. Truthful(e)
  BY DEF Consistent
<1>4. \A t \in Subs : RowOK(t)'
  <2>1. ASSUME NEW t \in Subs, t # e.sub PROVE RowOK(t)'
    BY <2>1 DEF Consistent, RowOK
  <2>2. RowOK(e.sub)'
    BY <1>2, <1>3 DEF Consistent, RowOK, Truthful
  <2>3. QED BY <2>1, <2>2
<1>5. mail' \subseteq mail
  BY DEF Kept
<1>6. RefsOK' /\ TierBacked' /\ AddonBacked'
  <2>1. CASE /\ user'.tier \in {user.tier, "FREE"} /\ user'.sub = user.sub
             /\ user'.addonSub \in {user.addonSub, NoSub}
             /\ user'.addonActive \/ user'.addonCancelling =>
                  /\ user.addonActive \/ user.addonCancelling
                  /\ user'.addonSub = user.addonSub
    BY <1>1, <2>1, UserKept
  <2>2. CASE /\ e.sub \in Addons /\ user'.tier = user.tier /\ user'.sub = user.sub
             /\ user'.addonSub = e.sub /\ rzp[e.sub].paid > 0
    <3>1. rzp[e.sub].state # "none"
      BY <1>3 DEF Truthful
    <3>2. PICK s \in Subs : s = e.sub
      BY <1>2
    <3>3. /\ s \in Addons /\ user'.tier = user.tier /\ user'.sub = user.sub
          /\ user'.addonSub = s /\ rzp[s].paid > 0 /\ rzp[s].state # "none"
      BY <2>2, <3>1, <3>2
    <3>4. QED BY <1>1, <3>3, PaidFor
  <2>3. QED BY <2>1, <2>2
<1>7. QED BY <1>1, <1>4, <1>5, <1>6, ConsistentFrom

LEMMA ConsistentWebhook ==
  ASSUME Consistent, NEW e \in mail, Webhook(e) \/ Lose(e)
  PROVE  Consistent'
<1>1. /\ TypeOK /\ TypeOK' /\ user \in User /\ rows \in [Subs -> Row]
      /\ e.sub \in Subs /\ rows[e.sub] \in Row /\ Truthful(e)
  BY EventType, TypeWebhook DEF Consistent, TypeOK
<1>2. CASE Lose(e)
  <2>1. rzp' = rzp /\ rows' = rows /\ user' = user /\ mail' \subseteq mail
    BY <1>2 DEF Lose
  <2>2. \A t \in Subs : OnlyGrows(t) /\ RemoteOK(t)'
    BY <2>1, SameRazorpay
  <2>3. \A t \in Subs : RowOK(t)'
    BY <2>1 DEF Consistent, RowOK
  <2>4. RefsOK' /\ TierBacked' /\ AddonBacked'
    BY <1>1, <2>1, <2>2, UserKept
  <2>5. QED BY <1>1, <2>1, <2>2, <2>3, <2>4, ConsistentFrom
<1>3. ASSUME rows[e.sub].status # "absent", ApplyAddonPaid(e), e.sub \in Addons,
             e.kind \in {"activated", "charged", "captured"}
      PROVE  Consistent'
  <2>1. /\ \A t \in Subs : t # e.sub => rows'[t] = rows[t]
        /\ rows'[e.sub].status = "active"
        /\ rows'[e.sub].paid \in {rows[e.sub].paid, e.paid}
        /\ rows'[e.sub].end \in {rows[e.sub].end, e.end}
    BY <1>1, <1>3 DEF ApplyAddonPaid, Known
  <2>2. user'.tier = user.tier /\ user'.sub = user.sub /\ user'.addonSub = e.sub
    BY <1>1, <1>3 DEF ApplyAddonPaid, AddonOn, User
  <2>3. QED BY <1>1, <1>3, <2>1, <2>2, ConsistentApply DEF ApplyAddonPaid, Truthful
<1>4. ASSUME rows[e.sub].status # "absent", ApplyHalted(e) PROVE Consistent'
  <2>1. /\ \A t \in Subs : t # e.sub => rows'[t] = rows[t]
        /\ rows'[e.sub].status = "halted" /\ rows'[e.sub].paid = rows[e.sub].paid
        /\ rows'[e.sub].end = rows[e.sub].end
    BY <1>1, <1>4 DEF ApplyHalted, Row
  <2>2. /\ user'.tier = user.tier /\ user'.sub = user.sub
        /\ user'.addonSub = user.addonSub /\ user'.addonActive = user.addonActive
        /\ user'.addonCancelling = user.addonCancelling
    BY <1>1, <1>4 DEF ApplyHalted, User
  <2>3. QED BY <1>1, <1>4, <2>1, <2>2, ConsistentApply DEF ApplyHalted
<1>5. ASSUME rows[e.sub].status # "absent", ApplyFailed(e) PROVE Consistent'
  <2>1. /\ \A t \in Subs : t # e.sub => rows'[t] = rows[t]
        /\ rows'[e.sub].status = "failed" /\ rows'[e.sub].paid = rows[e.sub].paid
        /\ rows'[e.sub].end = rows[e.sub].end
    BY <1>1, <1>5 DEF ApplyFailed, Row
  <2>2. /\ user'.tier = user.tier /\ user'.sub = user.sub
        /\ user'.addonSub = user.addonSub
        /\ user'.addonActive => user.addonActive
        /\ user'.addonCancelling => user.addonCancelling
    BY <1>1, <1>5 DEF ApplyFailed, User
  <2>3. QED BY <1>1, <1>5, <2>1, <2>2, ConsistentApply DEF ApplyFailed
<1>6. ASSUME RowEnded(e), e.kind \in {"cancelled", "completed"}
      PROVE  /\ \A t \in Subs : t # e.sub => rows'[t] = rows[t]
             /\ rows'[e.sub].status = e.kind /\ rows'[e.sub].paid = rows[e.sub].paid
             /\ rows'[e.sub].end \in {rows[e.sub].end, e.end}
  <2>1. rows' = [rows EXCEPT ![e.sub] = [rows[e.sub] EXCEPT !.status = e.kind, !.end = EndOf(e)]]
    BY <1>1, <1>6 DEF RowEnded, Row
  <2>2. rows'[e.sub] = [rows[e.sub] EXCEPT !.status = e.kind, !.end = EndOf(e)]
    BY <1>1, <2>1
  <2>3. /\ rows'[e.sub].status = e.kind /\ rows'[e.sub].paid = rows[e.sub].paid
        /\ rows'[e.sub].end = EndOf(e)
    BY <1>1, <2>2 DEF Row
  <2>4. EndOf(e) \in {rows[e.sub].end, e.end}
    BY DEF EndOf, Known
  <2>5. QED BY <1>1, <2>1, <2>3, <2>4
<1>7. ASSUME rows[e.sub].status # "absent", ApplyEnded(e), e.kind \in {"cancelled", "completed"}
      PROVE  Consistent'
  <2>1. /\ user'.tier \in {user.tier, "FREE"} /\ user'.sub = user.sub
        /\ user'.addonSub = user.addonSub /\ user'.addonActive = user.addonActive
        /\ user'.addonCancelling = user.addonCancelling
    BY <1>1, <1>7 DEF ApplyEnded, User
  <2>2. QED BY <1>1, <1>6, <1>7, <2>1, ConsistentApply DEF ApplyEnded
<1>8. ASSUME rows[e.sub].status # "absent", ApplyAddonEnded(e), e.sub \in Addons,
             e.kind \in {"cancelled", "completed"}
      PROVE  Consistent'
  <2>1. CASE StillPaid(EndOf(e))
    <3>1. rzp[e.sub].paid > 0
      BY <1>1, <2>1 DEF StillPaid, EndOf, Known, Consistent, RowOK, Truthful
    <3>2. user'.tier = user.tier /\ user'.sub = user.sub /\ user'.addonSub = e.sub
      BY <1>1, <1>8, <2>1 DEF ApplyAddonEnded, AddonOn, User
    <3>3. QED BY <1>1, <1>6, <1>8, <3>1, <3>2, ConsistentApply DEF ApplyAddonEnded
  <2>2. CASE ~StillPaid(EndOf(e))
    <3>1. /\ user'.tier = user.tier /\ user'.sub = user.sub /\ user'.addonSub = NoSub
          /\ ~user'.addonActive /\ ~user'.addonCancelling
      BY <1>1, <1>8, <2>2 DEF ApplyAddonEnded, AddonOff, User
    <3>2. QED BY <1>1, <1>6, <1>8, <3>1, ConsistentApply DEF ApplyAddonEnded
  <2>3. QED BY <2>1, <2>2
<1>9. CASE Webhook(e)
  BY <1>9, <1>3, <1>4, <1>5, <1>7, <1>8, ConsistentApplyPaid DEF Webhook
<1>10. QED BY <1>2, <1>9

LEMMA ConsistentSweep ==
  ASSUME Consistent, Tick \/ ExpirySweep \/ ResumeOk \/ ResumeUnsaved \/ ResumeFails
  PROVE  Consistent'
<1>1. /\ TypeOK /\ TypeOK' /\ user \in User /\ mail' = mail
      /\ rows \in [Subs -> Row] /\ rzp \in [Subs -> Remote]
      /\ \A t \in Subs : rzp[t].paid \in Nat
  BY TypeSweep DEF Consistent, TypeOK, Remote, Tick, ExpirySweep, ResumeOk, ResumeUnsaved,
                   ResumeFails
<1>2. CASE Tick \/ ResumeFails
  <2>1. rzp' = rzp /\ rows' = rows
    BY <1>2 DEF Tick, ResumeFails
  <2>2. /\ user'.tier = user.tier /\ user'.sub = user.sub
        /\ user'.addonSub = user.addonSub /\ user'.addonActive = user.addonActive
        /\ user'.addonCancelling = user.addonCancelling
    BY <1>1, <1>2 DEF Tick, ResumeFails, User
  <2>3. \A t \in Subs : OnlyGrows(t) /\ RemoteOK(t)'
    BY <2>1, SameRazorpay
  <2>4. \A t \in Subs : RowOK(t)'
    BY <2>1 DEF Consistent, RowOK
  <2>5. QED BY <1>1, <2>2, <2>3, <2>4, UserKept, ConsistentFrom
<1>3. CASE ExpirySweep
  <2> DEFINE free == IF PrimaryDue THEN [user EXCEPT !.tier = "FREE"] ELSE user
  <2>1. rzp' = rzp /\ user' = IF AddonDue THEN AddonOff(free) ELSE free
    BY <1>3 DEF ExpirySweep
  <2>2. /\ user'.tier \in {user.tier, "FREE"} /\ user'.sub = user.sub
        /\ user'.addonSub \in {user.addonSub, NoSub}
        /\ user'.addonActive \/ user'.addonCancelling =>
             /\ user.addonActive \/ user.addonCancelling
             /\ user'.addonSub = user.addonSub
    <3>1. /\ free.tier \in {user.tier, "FREE"} /\ free.sub = user.sub
          /\ free.addonSub = user.addonSub /\ free.addonActive = user.addonActive
          /\ free.addonCancelling = user.addonCancelling /\ free \in User
      BY <1>1 DEF User
    <3>2. /\ AddonOff(free).tier = free.tier /\ AddonOff(free).sub = free.sub
          /\ AddonOff(free).addonSub = NoSub
          /\ ~AddonOff(free).addonActive /\ ~AddonOff(free).addonCancelling
      BY <3>1 DEF AddonOff, User
    <3>3. QED BY <2>1, <3>1, <3>2
  <2>3. \A t \in Subs : OnlyGrows(t) /\ RemoteOK(t)'
    BY <2>1, SameRazorpay
  <2>4. \A t \in Subs : RowOK(t)'
    <3>1. ASSUME NEW t \in Subs PROVE RowOK(t)'
      <4>1. CASE rows'[t] = rows[t]
        BY <2>1, <4>1 DEF Consistent, RowOK
      <4>2. CASE rows'[t] # rows[t]
        <5>1. t \in {user.sub, user.addonSub} /\ rows'[t] = Expired(rows[t])
          BY <1>3, <4>2 DEF ExpirySweep
        <5>2. rzp[t].state # "none"
          BY <5>1, SubsAssumption DEF Consistent, RefsOK, Opened
        <5>3. /\ rows'[t].paid = rows[t].paid /\ rows'[t].end = rows[t].end
              /\ rows'[t].status = "expired"
          BY <1>1, <4>2, <5>1 DEF Expired, Row
        <5>4. QED BY <2>1, <5>2, <5>3 DEF Consistent, RowOK
      <4>3. QED BY <4>1, <4>2
    <3>2. QED BY <3>1
  <2>5. QED BY <1>1, <2>2, <2>3, <2>4, UserKept, ConsistentFrom
<1>4. CASE ResumeOk \/ ResumeUnsaved
  <2>1. PICK s \in Subs : s = user.sub
    BY <1>4 DEF ResumeOk, ResumeUnsaved, Consistent, RefsOK
  <2>2. /\ rzp[s].state = "paused" /\ rzp'[s].state = "active"
        /\ rzp'[s].paid = rzp[s].paid /\ rzp'[s].end = rzp[s].end
        /\ rzp'[s].atEnd = rzp[s].atEnd /\ \A t \in Subs : t # s => rzp'[t] = rzp[t]
    BY <1>1, <1>4, <2>1 DEF ResumeOk, ResumeUnsaved, Remote
  <2>3. \A t \in Subs : OnlyGrows(t) /\ RemoteOK(t)'
                        /\ (rzp[t].state = "none" => rzp'[t].state = "none")
    BY <1>1, <2>2 DEF OnlyGrows, Consistent, RemoteOK
  <2>4. \A t \in Subs : RowOK(t)'
    BY <1>1, <1>4, <2>3, RowKept DEF ResumeOk, ResumeUnsaved, Consistent
  <2>5. /\ user'.tier = user.tier /\ user'.sub = user.sub
        /\ user'.addonSub = user.addonSub /\ user'.addonActive = user.addonActive
        /\ user'.addonCancelling = user.addonCancelling
    BY <1>1, <1>4 DEF ResumeOk, ResumeUnsaved, RewardOver, User
  <2>6. QED BY <1>1, <2>3, <2>4, <2>5, UserKept, ConsistentFrom
<1>5. QED BY <1>2, <1>3, <1>4

LEMMA ConsistentStep == Consistent /\ [Next]_vars => Consistent'
<1> SUFFICES ASSUME Consistent, [Next]_vars PROVE Consistent'
  OBVIOUS
<1>1. CASE UNCHANGED vars
  <2>1. /\ TypeOK /\ TypeOK' /\ user' = user /\ rows' = rows /\ rzp' = rzp /\ mail' = mail
    BY <1>1, TypeStep DEF vars, Consistent
  <2>2. \A t \in Subs : OnlyGrows(t) /\ RemoteOK(t)'
    BY <2>1, SameRazorpay
  <2>3. \A t \in Subs : RowOK(t)'
    BY <2>1 DEF Consistent, RowOK
  <2>4. QED BY <2>1, <2>2, <2>3, UserKept, ConsistentFrom
<1>2. CASE Next
  BY <1>2, ConsistentRazorpay, ConsistentOpen, ConsistentClient, ConsistentWebhook,
     ConsistentSweep DEF Next
<1>3. QED BY <1>1, <1>2

-----------------------------------------------------------------------------
(* The theorems.                                                           *)

\* What the database says of the user and of Razorpay is true at all times,
\* whatever webhooks are repeated, lost or late and whatever calls fail.
THEOREM ConsistentAlways == Spec => []Consistent
<1>1. QED BY ConsistentInit, ConsistentStep, PTL DEF Spec

\* No interleaving of checkouts, webhooks and sweeps grants a tier that was
\* never paid for.
THEOREM TierIsBacked == Spec => []TierBacked
<1>1. Consistent => TierBacked
  BY DEF Consistent
<1>2. QED BY <1>1, ConsistentAlways, PTL

\* The Agent Mode flags always point at an add-on that was paid for.
THEOREM AddonIsBacked == Spec => []AddonBacked
<1>1. Consistent => AddonBacked
  BY DEF Consistent
<1>2. QED BY <1>1, ConsistentAlways, PTL

\* Only Pay and Renew charge, and only what a row calls neither cancelled nor
\* completed.
LEMMA NoChargeStep ==
  Consistent /\ [Next]_vars =>
    \A s \in Primaries :
      rows[s].status \in {"cancelled", "completed"} => rzp'[s].paid = rzp[s].paid
<1> SUFFICES ASSUME Consistent, [Next]_vars, NEW t \in Primaries,
                    rows[t].status \in {"cancelled", "completed"}
             PROVE  rzp'[t].paid = rzp[t].paid
  OBVIOUS
<1>1. rzp \in [Subs -> Remote] /\ t \in Subs /\ rzp[t] \in Remote /\ user \in User
  BY DEF Consistent, TypeOK, Primaries
<1>2. CASE UNCHANGED vars \/ Tick \/ ExpirySweep \/ ResumeFails
  BY <1>2 DEF vars, Tick, ExpirySweep, ResumeFails
<1>3. ASSUME NEW s \in Subs, Pay(s) \/ Renew(s) PROVE rzp'[t].paid = rzp[t].paid
  <2>1. rzp[t].state = "ended" \/ (rzp[t].atEnd /\ rzp[t].state # "created")
    BY <1>1 DEF Consistent, RowOK, RemoteOK
  <2>2. t # s
    BY <1>3, <2>1 DEF Pay, Renew, Renewable
  <2>3. QED BY <1>1, <1>3, <2>2 DEF Pay, Renew, Charged
<1>4. ASSUME NEW s \in Subs, RenewalFails(s) \/ GiveUp(s) \/ PeriodEnds(s) \/ Withdraw(s)
      PROVE  rzp'[t].paid = rzp[t].paid
  <2>1. \E st \in RzpState, k \in Kinds : Moved(s, st, k)
    BY <1>4 DEF RenewalFails, GiveUp, PeriodEnds, Withdraw, RzpState, Kinds
  <2>2. QED BY <1>1, <2>1 DEF Moved, Remote
<1>5. ASSUME NEW s \in Subs, Subscribe(s) \/ SubscribeAddon(s) \/ Verify(s)
      PROVE  rzp'[t].paid = rzp[t].paid
  BY <1>1, <1>5 DEF Subscribe, SubscribeAddon, Verify, Remote
<1>6. \A b \in BOOLEAN : CancelAt(rzp[t], b).paid = rzp[t].paid
  BY <1>1 DEF CancelAt, Remote
<1>7. CASE Cancel \/ CancelAddon
  <2>1. rzp'[t] \in {rzp[t], CancelAt(rzp[t], TRUE)}
    BY <1>1, <1>7 DEF Cancel, CancelAddon
  <2>2. QED BY <1>6, <2>1
<1>8. CASE ReactivateAddon \/ ResumeOk \/ ResumeUnsaved
  BY <1>1, <1>8 DEF ReactivateAddon, ResumeOk, ResumeUnsaved, Remote
<1>9. ASSUME NEW e \in mail, ApplyPaid(e) PROVE rzp'[t].paid = rzp[t].paid
  <2>1. rzp'[t] \in {rzp[t], CancelAt(rzp[t], FALSE), [rzp[t] EXCEPT !.left = TRUE],
                     [rzp[t] EXCEPT !.state = "paused"]}
    BY <1>1, <1>9 DEF ApplyPaid
  <2>2. /\ [rzp[t] EXCEPT !.left = TRUE].paid = rzp[t].paid
        /\ [rzp[t] EXCEPT !.state = "paused"].paid = rzp[t].paid
    BY <1>1 DEF Remote
  <2>3. QED BY <1>6, <2>1, <2>2
<1>10. ASSUME NEW e \in mail, Webhook(e) \/ Lose(e) PROVE rzp'[t].paid = rzp[t].paid
  BY <1>9, <1>10 DEF Webhook, Lose, ApplyAddonPaid, ApplyHalted, ApplyFailed, ApplyEnded,
                     ApplyAddonEnded
<1>11. QED BY <1>2, <1>3, <1>4, <1>5, <1>7, <1>8, <1>10 DEF Next

\* Once the row of a plan says cancelled or completed, the plan is never charged
\* again, whatever the user opens, verifies or resumes beside it.
THEOREM NeverChargedAfterCancel == Spec => NoChargeAfterCancel
<1>1. Consistent /\ [Next]_vars =>
        [\A s \in Primaries : rows[s].status \in {"cancelled", "completed"}
                                => rzp'[s].paid = rzp[s].paid]_vars
  BY NoChargeStep
<1>2. QED BY <1>1, ConsistentAlways, PTL DEF Spec, NoChargeAfterCancel

\* Only a charge that accrues raises the count, by one, and it raises the
\* row's count with it.
LEMMA AccrueStep ==
  Consistent /\ [Next]_vars =>
    (user'.consecutive > user.consecutive =>
       /\ user'.consecutive = user.consecutive + 1
       /\ \E s \in ProMonthly : /\ rows[s].paid < rows'[s].paid
                                /\ rows'[s].paid <= rzp[s].paid)
<1> SUFFICES ASSUME Consistent, [Next]_vars, user'.consecutive > user.consecutive
             PROVE  /\ user'.consecutive = user.consecutive + 1
                    /\ \E s \in ProMonthly : /\ rows[s].paid < rows'[s].paid
                                             /\ rows'[s].paid <= rzp[s].paid
  OBVIOUS
<1>1. TypeOK /\ user \in User /\ user.consecutive \in Nat
  BY DEF Consistent, TypeOK, User
<1>2. user' # user /\ user'.consecutive # user.consecutive /\ user'.consecutive # 0
  BY <1>1
<1>3. PICK e \in mail : Webhook(e)
  <2>1. CASE ExpirySweep
    <3>1. \A u \in User : /\ [u EXCEPT !.tier = "FREE"] \in User
                          /\ [u EXCEPT !.tier = "FREE"].consecutive = u.consecutive
                          /\ AddonOff(u).consecutive = u.consecutive
      BY DEF AddonOff, User
    <3>2. QED BY <1>1, <1>2, <2>1, <3>1 DEF ExpirySweep
  <2>2. ASSUME NEW s \in Subs, Verify(s) PROVE FALSE
    <3>1. user'.consecutive = user.consecutive
      BY <1>1, <2>2 DEF Verify, AddonOn, Upgraded, User
    <3>2. QED BY <1>2, <3>1
  <2>3. CASE Cancel \/ CancelAddon \/ ReactivateAddon \/ ResumeFails
    <3>1. user'.consecutive = user.consecutive
      BY <1>1, <2>3 DEF Cancel, CancelAddon, ReactivateAddon, ResumeFails, User
    <3>2. QED BY <1>2, <3>1
  <2>4. CASE ResumeOk
    <3>1. user'.consecutive = 0
      BY <1>1, <2>4 DEF ResumeOk, RewardOver, User
    <3>2. QED BY <1>2, <3>1
  <2>5. ASSUME NEW s \in Subs, Subscribe(s) PROVE FALSE
    <3>1. user'.consecutive = user.consecutive
      BY <1>1, <2>5 DEF Subscribe, User
    <3>2. QED BY <1>2, <3>1
  <2>6. ASSUME \/ UNCHANGED vars \/ Tick \/ ResumeUnsaved \/ \E e \in mail : Lose(e)
               \/ \E s \in Subs : \/ Pay(s) \/ Renew(s) \/ RenewalFails(s) \/ GiveUp(s)
                                  \/ PeriodEnds(s) \/ Withdraw(s) \/ SubscribeAddon(s)
        PROVE  FALSE
    <3>1. user' = user
        BY <2>6 DEF vars, Tick, ResumeUnsaved, Lose, Pay, Renew, RenewalFails, GiveUp, PeriodEnds, Withdraw,
                  SubscribeAddon, Charged, Moved
    <3>2. QED BY <1>2, <3>1
  <2>7. QED BY <2>1, <2>2, <2>3, <2>4, <2>5, <2>6 DEF Next
<1>4. e.sub \in Subs /\ rows[e.sub].paid \in Nat /\ e.paid \in Nat
  BY <1>1, EventType DEF Row
<1>5. ApplyPaid(e) /\ e.sub \in Primaries
  <2>1. CASE ApplyAddonPaid(e) \/ ApplyAddonEnded(e)
    <3>1. user'.consecutive = user.consecutive
      BY <1>1, <2>1 DEF ApplyAddonPaid, ApplyAddonEnded, AddonOn, AddonOff, User
    <3>2. QED BY <1>2, <3>1
  <2>2. CASE ApplyHalted(e) \/ ApplyFailed(e) \/ ApplyEnded(e)
    <3>1. user'.consecutive = user.consecutive
      BY <1>1, <2>2 DEF ApplyHalted, ApplyFailed, ApplyEnded, User
    <3>2. QED BY <1>2, <3>1
  <2>3. QED BY <1>3, <2>1, <2>2 DEF Webhook
<1>6. Accrues(e) /\ user'.consecutive = user.consecutive + 1
  <2> DEFINE s   == e.sub
             end == IF e.kind = "captured" THEN rows[s].end ELSE Known(e.end, rows[s].end)
             up  == Upgraded(user, s, "active", end)
             v   == IF DropsAddon(e) THEN AddonOff(up) ELSE up
  <2>1. user' = Accrued(v, e)
    BY <1>5 DEF ApplyPaid
  <2>2. e.sub \in Primaries
    BY <1>5
  <2>3. v \in User /\ v.consecutive = user.consecutive
    <3>1. up \in User /\ up.consecutive = user.consecutive
      <4>1. end \in Time \cup {NoTime}
        BY <1>1, EventType DEF Row
      <4>2. up \in User
        BY <1>1, <2>2, <4>1, UserType DEF RowStatus
      <4>3. up.consecutive = user.consecutive
        BY <1>1 DEF Upgraded, User
      <4>4. QED BY <4>2, <4>3
    <3>2. AddonOff(up) \in User /\ AddonOff(up).consecutive = up.consecutive
      <4>1. AddonOff(up) \in User
        BY <1>1, <3>1, UserType
      <4>2. \A u \in User : AddonOff(u).consecutive = u.consecutive
        BY DEF AddonOff, User
      <4>3. QED BY <3>1, <4>1, <4>2
    <3>3. QED BY <3>1, <3>2
  <2>4. Accrued(v, e).consecutive =
          IF Accrues(e) THEN user.consecutive + 1 ELSE user.consecutive
    BY <1>1, <2>3 DEF Accrued, User
  <2>5. QED BY <1>2, <2>1, <2>4
<1>7. /\ e.sub \in ProMonthly /\ e.kind = "charged" /\ e.paid > rows[e.sub].paid
      /\ e.paid <= rzp[e.sub].paid
  BY <1>6 DEF Accrues, Consistent, Truthful
<1>8. rows'[e.sub].paid = e.paid
  <2>1. rows'[e.sub].paid = AtLeast(e.paid, rows[e.sub].paid)
    BY <1>1, <1>4, <1>5, <1>7 DEF ApplyPaid, TypeOK
  <2>2. QED BY <1>4, <1>7, <2>1 DEF AtLeast
<1>9. QED BY <1>4, <1>6, <1>7, <1>8

\* Redelivered and late charges earn no loyalty: each one counted is a charge
\* that Razorpay made and the row had not counted.
THEOREM AccruesOncePerCharge == Spec => AccruesPerCharge
<1>1. Consistent /\ [Next]_vars =>
        [user'.consecutive > user.consecutive =>
           /\ user'.consecutive = user.consecutive + 1
           /\ \E s \in ProMonthly : /\ rows[s].paid < rows'[s].paid
                                    /\ rows'[s].paid <= rzp[s].paid]_vars
  BY AccrueStep
<1>2. QED BY <1>1, ConsistentAlways, PTL DEF Spec, AccruesPerCharge
=============================================================================
