---------------------------- MODULE SessionProofs ---------------------------
(* The safety of Session for any tabs, calls and number of pairs.             *)
(*                                                                             *)
(* The argument follows a pair of tokens: on its way from the server to a tab  *)
(* nobody has seen it; once it is stored it can be shown; once it is shown by  *)
(* a tab, that tab has it replaced before it looks at the storage again; and   *)
(* once it is spent, its successor is on its way.                              *)
EXTENDS Session, TLAPS

\* Pairs somebody has seen: stored, revoked, or presented by a page that lives.
Seen(n) == n = stored \/ n \in spent \/ \E t \in Tabs : n \in shown[t]

\* Pairs on their way to a tab, in the answer of a refresh or of a login.
Unseen(n) == n \in 1..issued /\ ~Seen(n)
LoginAnswer(c) == call[c].kind = "login" /\ call[c].pair # None
Arriving ==
  /\ \A t \in Tabs : refresh[t].got # None => Unseen(refresh[t].got)
  /\ \A c \in Calls : LoginAnswer(c) => Unseen(call[c].pair)
  /\ \A t, u \in Tabs : refresh[t].got # None /\ refresh[t].got = refresh[u].got => t = u
  /\ \A c, d \in Calls : LoginAnswer(c) /\ LoginAnswer(d) /\ call[c].pair = call[d].pair => c = d
  /\ \A t \in Tabs, c \in Calls : LoginAnswer(c) => refresh[t].got # call[c].pair
  /\ \A c \in Calls : call[c].at = "waiting" => call[c].kind # "login"

Issued == \A n \in Pairs : Seen(n) => n \in 1..issued

RefreshShape ==
  \A t \in Tabs :
    /\ refresh[t].at = "off" => refresh[t] = NoRefresh
    /\ refresh[t].at = "sent" => refresh[t].got = None
    /\ refresh[t].at # "off" => refresh[t].pair \in shown[t]
    /\ refresh[t].got # None => refresh[t].pair \in spent
    /\ refresh[t].at = "body" => refresh[t].got # None

Parents == \A n \in Pairs : parent[n] # None => n \in 1..issued /\ parent[n] \in spent

NotShownAgain == \A t \in Tabs : refresh[t].at = "off" => stored \notin shown[t]

Inv ==
  /\ TypeOK
  /\ Arriving
  /\ Issued
  /\ RefreshShape
  /\ Parents
  /\ NotShownAgain
  /\ SingleUse
  /\ NoStrandedSession

LEMMA SendKeeps ==
  ASSUME Inv, NEW c \in Calls, NEW k \in Kinds, Send(c, k)
  PROVE  Inv'
<1> USE TabOfAssumption, UsesAssumption, MaxPairsAssumption DEF Send, Sent, Pairs, None, browser, server
<1>1. TypeOK'
  BY DEF Inv, TypeOK, Call, NoCall, Refresh, NoRefresh, Kinds
<1>2. Arriving'
  BY
     DEF Inv, TypeOK, Call, NoCall, Refresh, NoRefresh, Arriving, Unseen, Seen, LoginAnswer,
         Issued, RefreshShape
<1>3. Issued'
  BY DEF Inv, TypeOK, Refresh, NoRefresh, Arriving, Unseen, Seen, LoginAnswer, Issued, RefreshShape
<1>4. RefreshShape'
  BY DEF Inv, TypeOK, Refresh, NoRefresh, RefreshShape
<1>5. Parents'
  BY DEF Inv, TypeOK, Refresh, Parents, Issued, Seen, RefreshShape
<1>6. NotShownAgain'
  BY
     DEF Inv, TypeOK, Refresh, NoRefresh, Arriving, Unseen, Seen, LoginAnswer, NotShownAgain,
         RefreshShape
<1>7. SingleUse'
  BY DEF Inv, TypeOK, Refresh, Parents, SingleUse, RefreshShape
<1>8. NoStrandedSession'
  BY
     DEF Inv, TypeOK, Refresh, NoRefresh, Arriving, Unseen, Seen, LoginAnswer,
         NoStrandedSession, RefreshShape
<1>9. QED BY <1>1, <1>2, <1>3, <1>4, <1>5, <1>6, <1>7, <1>8 DEF Inv

LEMMA NobodyStoredKeeps ==
  ASSUME Inv, NEW t \in Tabs, NobodyStored(t)
  PROVE  Inv'
<1> USE TabOfAssumption, UsesAssumption, MaxPairsAssumption DEF NobodyStored, Pairs, None, browser, server
<1>1. TypeOK'
  BY DEF Inv, TypeOK, Call, NoCall, Refresh, NoRefresh, Kinds
<1>2. Arriving'
  BY
     DEF Inv, TypeOK, Call, NoCall, Refresh, NoRefresh, Arriving, Unseen, Seen, LoginAnswer,
         Issued, RefreshShape
<1>3. Issued'
  BY DEF Inv, TypeOK, Refresh, NoRefresh, Arriving, Unseen, Seen, LoginAnswer, Issued, RefreshShape
<1>4. RefreshShape'
  BY DEF Inv, TypeOK, Refresh, NoRefresh, RefreshShape
<1>5. Parents'
  BY DEF Inv, TypeOK, Refresh, Parents, Issued, Seen, RefreshShape
<1>6. NotShownAgain'
  BY
     DEF Inv, TypeOK, Refresh, NoRefresh, Arriving, Unseen, Seen, LoginAnswer, NotShownAgain,
         RefreshShape
<1>7. SingleUse'
  BY DEF Inv, TypeOK, Refresh, Parents, SingleUse, RefreshShape
<1>8. NoStrandedSession'
  BY
     DEF Inv, TypeOK, Refresh, NoRefresh, Arriving, Unseen, Seen, LoginAnswer,
         NoStrandedSession, RefreshShape
<1>9. QED BY <1>1, <1>2, <1>3, <1>4, <1>5, <1>6, <1>7, <1>8 DEF Inv

LEMMA JoinKeeps ==
  ASSUME Inv, NEW c \in Calls, Join(c)
  PROVE  Inv'
<1> USE TabOfAssumption, UsesAssumption, MaxPairsAssumption DEF Pairs, None
<1> DEFINE t == TabOf[c]
           w == [call[c] EXCEPT !.at = "waiting", !.reply = "none"]
           r == [at |-> "sent", pair |-> stored, got |-> None]
<1>1. /\ t \in Tabs /\ call[c] \in Call /\ call[c].at = "answered" /\ NoCall \in Call
      /\ call[c].kind \in {"plain", "init"}
      /\ UNCHANGED <<stored, lost, server>>
  BY DEF Inv, TypeOK, Join, WantsRefresh, NoCall, Call, Kinds
<1>2. w \in Call /\ w.kind = call[c].kind /\ w.pair = call[c].pair /\ w.at = "waiting"
  BY <1>1 DEF Call, Kinds
<1>3. \/ /\ refresh[t].at # "off"
         /\ call' = [call EXCEPT ![c] = w]
         /\ UNCHANGED <<page, refresh, shown>>
      \/ /\ refresh[t].at = "off"
         /\ stored # None
         /\ call' = [call EXCEPT ![c] = w]
         /\ refresh' = [refresh EXCEPT ![t] = r]
         /\ shown' = [shown EXCEPT ![t] = @ \cup {stored}]
         /\ UNCHANGED page
      \/ /\ refresh[t].at = "off"
         /\ stored = None
         /\ call' = [call EXCEPT ![c] = NoCall]
         /\ page' = [page EXCEPT ![t] = "out"]
         /\ UNCHANGED <<refresh, shown>>
  BY DEF Join, Idle
<1> HIDE DEF t, w
<1>4. CASE /\ refresh[t].at # "off"
           /\ call' = [call EXCEPT ![c] = w]
           /\ UNCHANGED <<page, refresh, shown>>
  <2>1. TypeOK'
    BY <1>1, <1>2, <1>4 DEF Inv, TypeOK, Call, NoCall, Refresh, NoRefresh, Kinds, server
  <2>2. Arriving'
    BY <1>1, <1>2, <1>4
       DEF Inv, TypeOK, Call, NoCall, Refresh, NoRefresh, Arriving, Unseen, Seen, LoginAnswer,
           Issued, RefreshShape, server
  <2>3. Issued'
    BY <1>1, <1>2, <1>4
       DEF Inv, TypeOK, Refresh, NoRefresh, Arriving, Unseen, Seen, LoginAnswer, Issued,
           RefreshShape, server
  <2>4. RefreshShape'
    BY <1>1, <1>2, <1>4 DEF Inv, TypeOK, Refresh, NoRefresh, RefreshShape, server
  <2>5. Parents'
    BY <1>1, <1>2, <1>4 DEF Inv, TypeOK, Refresh, Parents, Issued, Seen, RefreshShape, server
  <2>6. NotShownAgain'
    BY <1>1, <1>2, <1>4
       DEF Inv, TypeOK, Refresh, NoRefresh, Arriving, Unseen, Seen, LoginAnswer,
           NotShownAgain, RefreshShape, server
  <2>7. SingleUse'
    BY <1>1, <1>2, <1>4 DEF Inv, TypeOK, Refresh, Parents, SingleUse, RefreshShape, server
  <2>8. NoStrandedSession'
    BY <1>1, <1>2, <1>4
       DEF Inv, TypeOK, Refresh, NoRefresh, Arriving, Unseen, Seen, LoginAnswer,
           NoStrandedSession, RefreshShape, server
  <2>9. QED BY <2>1, <2>2, <2>3, <2>4, <2>5, <2>6, <2>7, <2>8 DEF Inv
<1>5. CASE /\ refresh[t].at = "off"
           /\ stored # None
           /\ call' = [call EXCEPT ![c] = w]
            /\ refresh' = [refresh EXCEPT ![t] = r]
           /\ shown' = [shown EXCEPT ![t] = @ \cup {stored}]
           /\ UNCHANGED page
  <2>1. TypeOK'
    BY <1>1, <1>2, <1>5 DEF Inv, TypeOK, Call, NoCall, Refresh, NoRefresh, Kinds, server
  <2>2. Arriving'
    BY <1>1, <1>2, <1>5
       DEF Inv, TypeOK, Call, NoCall, Refresh, NoRefresh, Arriving, Unseen, Seen, LoginAnswer,
           Issued, RefreshShape, server
  <2>3. Issued'
    BY <1>1, <1>2, <1>5
       DEF Inv, TypeOK, Refresh, NoRefresh, Arriving, Unseen, Seen, LoginAnswer, Issued,
           RefreshShape, server
  <2>4. RefreshShape'
    BY <1>1, <1>2, <1>5 DEF Inv, TypeOK, Refresh, NoRefresh, RefreshShape, server
  <2>5. Parents'
    BY <1>1, <1>2, <1>5 DEF Inv, TypeOK, Refresh, Parents, Issued, Seen, RefreshShape, server
  <2>6. NotShownAgain'
    BY <1>1, <1>2, <1>5
       DEF Inv, TypeOK, Refresh, NoRefresh, Arriving, Unseen, Seen, LoginAnswer,
           NotShownAgain, RefreshShape, server
  <2>7. SingleUse'
    BY <1>1, <1>2, <1>5 DEF Inv, TypeOK, Refresh, Parents, SingleUse, RefreshShape, server
  <2>8. NoStrandedSession'
    BY <1>1, <1>2, <1>5
       DEF Inv, TypeOK, Refresh, NoRefresh, Arriving, Unseen, Seen, LoginAnswer,
           NoStrandedSession, RefreshShape, server
  <2>9. QED BY <2>1, <2>2, <2>3, <2>4, <2>5, <2>6, <2>7, <2>8 DEF Inv
<1>6. CASE /\ refresh[t].at = "off"
           /\ stored = None
           /\ call' = [call EXCEPT ![c] = NoCall]
           /\ page' = [page EXCEPT ![t] = "out"]
           /\ UNCHANGED <<refresh, shown>>
  <2>1. TypeOK'
    BY <1>1, <1>2, <1>6 DEF Inv, TypeOK, Call, NoCall, Refresh, NoRefresh, Kinds, server
  <2>2. Arriving'
    BY <1>1, <1>2, <1>6
       DEF Inv, TypeOK, Call, NoCall, Refresh, NoRefresh, Arriving, Unseen, Seen, LoginAnswer,
           Issued, RefreshShape, server
  <2>3. Issued'
    BY <1>1, <1>2, <1>6
       DEF Inv, TypeOK, Refresh, NoRefresh, Arriving, Unseen, Seen, LoginAnswer, Issued,
           RefreshShape, server
  <2>4. RefreshShape'
    BY <1>1, <1>2, <1>6 DEF Inv, TypeOK, Refresh, NoRefresh, RefreshShape, server
  <2>5. Parents'
    BY <1>1, <1>2, <1>6 DEF Inv, TypeOK, Refresh, Parents, Issued, Seen, RefreshShape, server
  <2>6. NotShownAgain'
    BY <1>1, <1>2, <1>6
       DEF Inv, TypeOK, Refresh, NoRefresh, Arriving, Unseen, Seen, LoginAnswer,
           NotShownAgain, RefreshShape, server
  <2>7. SingleUse'
    BY <1>1, <1>2, <1>6 DEF Inv, TypeOK, Refresh, Parents, SingleUse, RefreshShape, server
  <2>8. NoStrandedSession'
    BY <1>1, <1>2, <1>6
       DEF Inv, TypeOK, Refresh, NoRefresh, Arriving, Unseen, Seen, LoginAnswer,
           NoStrandedSession, RefreshShape, server
  <2>9. QED BY <2>1, <2>2, <2>3, <2>4, <2>5, <2>6, <2>7, <2>8 DEF Inv
<1>7. QED BY <1>3, <1>4, <1>5, <1>6

LEMMA RefreshedKeeps ==
  ASSUME Inv, NEW t \in Tabs, Refreshed(t)
  PROVE  Inv'
<1> USE TabOfAssumption, UsesAssumption, MaxPairsAssumption DEF Refreshed, Waiting, Sent, Pairs, None, browser, server
<1>1. TypeOK'
  BY DEF Inv, TypeOK, Call, NoCall, Refresh, NoRefresh, Kinds
<1>2. Arriving'
  BY
     DEF Inv, TypeOK, Call, NoCall, Refresh, NoRefresh, Arriving, Unseen, Seen, LoginAnswer,
         Issued, RefreshShape
<1>3. Issued'
  BY DEF Inv, TypeOK, Refresh, NoRefresh, Arriving, Unseen, Seen, LoginAnswer, Issued, RefreshShape
<1>4. RefreshShape'
  BY DEF Inv, TypeOK, Refresh, NoRefresh, RefreshShape
<1>5. Parents'
  BY DEF Inv, TypeOK, Refresh, Parents, Issued, Seen, RefreshShape
<1>6. NotShownAgain'
  BY
     DEF Inv, TypeOK, Refresh, NoRefresh, Arriving, Unseen, Seen, LoginAnswer, NotShownAgain,
         RefreshShape
<1>7. SingleUse'
  BY DEF Inv, TypeOK, Refresh, Parents, SingleUse, RefreshShape
<1>8. NoStrandedSession'
  BY
     DEF Inv, TypeOK, Refresh, NoRefresh, Arriving, Unseen, Seen, LoginAnswer,
         NoStrandedSession, RefreshShape
<1>9. QED BY <1>1, <1>2, <1>3, <1>4, <1>5, <1>6, <1>7, <1>8 DEF Inv

LEMMA HeadersKeeps ==
  ASSUME Inv, NEW t \in Tabs, Headers(t)
  PROVE  Inv'
<1> USE TabOfAssumption, UsesAssumption, MaxPairsAssumption DEF Pairs, None
<1> DEFINE r == [refresh[t] EXCEPT !.at = "body"]
<1>1. /\ refresh' = [refresh EXCEPT ![t] = r] /\ refresh[t] \in Refresh
      /\ refresh[t].at = "answered" /\ refresh[t].got # None
      /\ UNCHANGED <<stored, page, call, shown, lost, server>>
  BY DEF Headers, Inv, TypeOK
<1>2. r \in Refresh /\ r.at = "body" /\ r.got = refresh[t].got /\ r.pair = refresh[t].pair
  BY <1>1 DEF Refresh
<1> HIDE DEF r
<1>3. TypeOK'
  BY <1>1, <1>2 DEF Inv, TypeOK, Call, NoCall, Refresh, NoRefresh, Kinds, server
<1>4. Arriving'
  BY <1>1, <1>2
     DEF Inv, TypeOK, Call, NoCall, Refresh, NoRefresh, Arriving, Unseen, Seen, LoginAnswer,
         Issued, RefreshShape, server
<1>5. Issued'
  BY <1>1, <1>2
     DEF Inv, TypeOK, Refresh, NoRefresh, Arriving, Unseen, Seen, LoginAnswer, Issued,
         RefreshShape, server
<1>6. RefreshShape'
  BY <1>1, <1>2 DEF Inv, TypeOK, Refresh, NoRefresh, RefreshShape, server
<1>7. Parents'
  BY <1>1, <1>2 DEF Inv, TypeOK, Refresh, Parents, Issued, Seen, RefreshShape, server
<1>8. NotShownAgain'
  BY <1>1, <1>2
     DEF Inv, TypeOK, Refresh, NoRefresh, Arriving, Unseen, Seen, LoginAnswer,
         NotShownAgain, RefreshShape, server
<1>9. SingleUse'
  BY <1>1, <1>2 DEF Inv, TypeOK, Refresh, Parents, SingleUse, RefreshShape, server
<1>10. NoStrandedSession'
  BY <1>1, <1>2
     DEF Inv, TypeOK, Refresh, NoRefresh, Arriving, Unseen, Seen, LoginAnswer,
         NoStrandedSession, RefreshShape, server
<1>11. QED BY <1>3, <1>4, <1>5, <1>6, <1>7, <1>8, <1>9, <1>10 DEF Inv

LEMMA SignOutKeeps ==
  ASSUME Inv, NEW t \in Tabs, SignOut(t)
  PROVE  Inv'
<1> USE TabOfAssumption, UsesAssumption, MaxPairsAssumption DEF SignOut, Waiting, Pairs, None, browser, server
<1>1. TypeOK'
  BY DEF Inv, TypeOK, Call, NoCall, Refresh, NoRefresh, Kinds
<1>2. Arriving'
  BY
     DEF Inv, TypeOK, Call, NoCall, Refresh, NoRefresh, Arriving, Unseen, Seen, LoginAnswer,
         Issued, RefreshShape
<1>3. Issued'
  BY DEF Inv, TypeOK, Refresh, NoRefresh, Arriving, Unseen, Seen, LoginAnswer, Issued, RefreshShape
<1>4. RefreshShape'
  BY DEF Inv, TypeOK, Refresh, NoRefresh, RefreshShape
<1>5. Parents'
  BY DEF Inv, TypeOK, Refresh, Parents, Issued, Seen, RefreshShape
<1>6. NotShownAgain'
  BY
     DEF Inv, TypeOK, Refresh, NoRefresh, Arriving, Unseen, Seen, LoginAnswer, NotShownAgain,
         RefreshShape
<1>7. SingleUse'
  BY DEF Inv, TypeOK, Refresh, Parents, SingleUse, RefreshShape
<1>8. NoStrandedSession'
  BY
     DEF Inv, TypeOK, Refresh, NoRefresh, Arriving, Unseen, Seen, LoginAnswer,
         NoStrandedSession, RefreshShape
<1>9. QED BY <1>1, <1>2, <1>3, <1>4, <1>5, <1>6, <1>7, <1>8 DEF Inv

LEMMA AcceptKeeps ==
  ASSUME Inv, NEW c \in Calls, Accept(c)
  PROVE  Inv'
<1> USE TabOfAssumption, UsesAssumption, MaxPairsAssumption DEF Accept, WantsRefresh, Idle, Pairs, None, browser, server
<1>1. TypeOK'
  BY DEF Inv, TypeOK, Call, NoCall, Refresh, NoRefresh, Kinds
<1>2. Arriving'
  BY
     DEF Inv, TypeOK, Call, NoCall, Refresh, NoRefresh, Arriving, Unseen, Seen, LoginAnswer,
         Issued, RefreshShape
<1>3. Issued'
  BY DEF Inv, TypeOK, Refresh, NoRefresh, Arriving, Unseen, Seen, LoginAnswer, Issued, RefreshShape
<1>4. RefreshShape'
  BY DEF Inv, TypeOK, Refresh, NoRefresh, RefreshShape
<1>5. Parents'
  BY DEF Inv, TypeOK, Refresh, Parents, Issued, Seen, RefreshShape
<1>6. NotShownAgain'
  BY
     DEF Inv, TypeOK, Refresh, NoRefresh, Arriving, Unseen, Seen, LoginAnswer, NotShownAgain,
         RefreshShape
<1>7. SingleUse'
  BY DEF Inv, TypeOK, Refresh, Parents, SingleUse, RefreshShape
<1>8. NoStrandedSession'
  BY
     DEF Inv, TypeOK, Refresh, NoRefresh, Arriving, Unseen, Seen, LoginAnswer,
         NoStrandedSession, RefreshShape
<1>9. QED BY <1>1, <1>2, <1>3, <1>4, <1>5, <1>6, <1>7, <1>8 DEF Inv

LEMMA FailKeeps ==
  ASSUME Inv, NEW c \in Calls, Fail(c)
  PROVE  Inv'
<1> USE TabOfAssumption, UsesAssumption, MaxPairsAssumption DEF Fail, Idle, Pairs, None, browser, server
<1>1. TypeOK'
  BY DEF Inv, TypeOK, Call, NoCall, Refresh, NoRefresh, Kinds
<1>2. Arriving'
  BY
     DEF Inv, TypeOK, Call, NoCall, Refresh, NoRefresh, Arriving, Unseen, Seen, LoginAnswer,
         Issued, RefreshShape
<1>3. Issued'
  BY DEF Inv, TypeOK, Refresh, NoRefresh, Arriving, Unseen, Seen, LoginAnswer, Issued, RefreshShape
<1>4. RefreshShape'
  BY DEF Inv, TypeOK, Refresh, NoRefresh, RefreshShape
<1>5. Parents'
  BY DEF Inv, TypeOK, Refresh, Parents, Issued, Seen, RefreshShape
<1>6. NotShownAgain'
  BY
     DEF Inv, TypeOK, Refresh, NoRefresh, Arriving, Unseen, Seen, LoginAnswer, NotShownAgain,
         RefreshShape
<1>7. SingleUse'
  BY DEF Inv, TypeOK, Refresh, Parents, SingleUse, RefreshShape
<1>8. NoStrandedSession'
  BY
     DEF Inv, TypeOK, Refresh, NoRefresh, Arriving, Unseen, Seen, LoginAnswer,
         NoStrandedSession, RefreshShape
<1>9. QED BY <1>1, <1>2, <1>3, <1>4, <1>5, <1>6, <1>7, <1>8 DEF Inv

LEMMA LoadKeeps ==
  ASSUME Inv, NEW t \in Tabs, Load(t)
  PROVE  Inv'
<1> USE TabOfAssumption, UsesAssumption, MaxPairsAssumption DEF Load, Sent, Pairs, None, browser, server
<1>1. TypeOK'
  <2>1. Sent("init", stored, FALSE) \in Call /\ NoCall \in Call
    BY DEF Inv, TypeOK, Call, NoCall, Kinds
  <2>2. call' \in [Calls -> Call]
    BY <2>1 DEF Inv, TypeOK
  <2>3. lost' \subseteq Pairs
    BY DEF Inv, TypeOK, Refresh, RefreshShape
  <2>4. QED BY <2>2, <2>3 DEF Inv, TypeOK, Refresh, NoRefresh
<1>2. Arriving'
  BY
     DEF Inv, TypeOK, Call, NoCall, Refresh, NoRefresh, Arriving, Unseen, Seen, LoginAnswer,
         Issued, RefreshShape
<1>3. Issued'
  BY DEF Inv, TypeOK, Refresh, NoRefresh, Arriving, Unseen, Seen, LoginAnswer, Issued, RefreshShape
<1>4. RefreshShape'
  BY DEF Inv, TypeOK, Refresh, NoRefresh, RefreshShape
<1>5. Parents'
  BY DEF Inv, TypeOK, Refresh, Parents, Issued, Seen, RefreshShape
<1>6. NotShownAgain'
  BY
     DEF Inv, TypeOK, Refresh, NoRefresh, Arriving, Unseen, Seen, LoginAnswer, NotShownAgain,
         RefreshShape
<1>7. SingleUse'
  BY DEF Inv, TypeOK, Refresh, Parents, SingleUse, RefreshShape
<1>8. NoStrandedSession'
  BY
     DEF Inv, TypeOK, Refresh, NoRefresh, Arriving, Unseen, Seen, LoginAnswer,
         NoStrandedSession, RefreshShape
<1>9. QED BY <1>1, <1>2, <1>3, <1>4, <1>5, <1>6, <1>7, <1>8 DEF Inv

LEMMA ServeLoginKeeps ==
  ASSUME Inv, NEW c \in Calls, ServeLogin(c)
  PROVE  Inv'
<1> USE TabOfAssumption, UsesAssumption, MaxPairsAssumption DEF Pairs, None
<1> DEFINE n == issued + 1
           w == [call[c] EXCEPT !.at = "answered", !.reply = "ok", !.pair = n]
           v == [call[c] EXCEPT !.at = "answered", !.reply = "401"]
<1>1. /\ call[c] \in Call /\ call[c].kind = "login"
      /\ UNCHANGED <<stored, page, refresh, shown, lost, deadAccess, spent>>
  BY DEF Inv, TypeOK, ServeLogin
<1>2. \/ /\ n \in Pairs /\ issued' = n
         /\ parent' = [parent EXCEPT ![n] = None]
         /\ call' = [call EXCEPT ![c] = w]
      \/ /\ call' = [call EXCEPT ![c] = v]
         /\ UNCHANGED <<issued, parent>>
  BY DEF ServeLogin, Mint
<1>3. /\ n \in Pairs => w \in Call
      /\ w.kind = "login" /\ w.pair = n /\ w.at = "answered"
      /\ v \in Call /\ v.kind = "login" /\ v.pair = call[c].pair /\ v.at = "answered"
  BY <1>1 DEF Call, Kinds
<1>4. ~Seen(n)
  BY DEF Inv, TypeOK, Issued, Seen
<1>5. issued \in Nat /\ n = issued + 1 /\ 1..issued \subseteq 1..n
  BY DEF Inv, TypeOK
<1> HIDE DEF n, w, v
<1>6. CASE /\ n \in Pairs /\ issued' = n
           /\ parent' = [parent EXCEPT ![n] = None] /\ call' = [call EXCEPT ![c] = w]
  <2>1. TypeOK'
    BY <1>1, <1>3, <1>4, <1>5, <1>6 DEF Inv, TypeOK, Call, NoCall, Refresh, NoRefresh, Kinds
  <2>2. Arriving'
    BY <1>1, <1>3, <1>4, <1>5, <1>6
       DEF Inv, TypeOK, Call, NoCall, Refresh, NoRefresh, Arriving, Unseen, Seen, LoginAnswer,
           Issued, RefreshShape
  <2>3. Issued'
    BY <1>1, <1>3, <1>4, <1>5, <1>6
       DEF Inv, TypeOK, Refresh, NoRefresh, Arriving, Unseen, Seen, LoginAnswer, Issued,
           RefreshShape
  <2>4. RefreshShape'
    BY <1>1, <1>3, <1>4, <1>5, <1>6 DEF Inv, TypeOK, Refresh, NoRefresh, RefreshShape
  <2>5. Parents'
    BY <1>1, <1>3, <1>4, <1>5, <1>6 DEF Inv, TypeOK, Refresh, Parents, Issued, Seen, RefreshShape
  <2>6. NotShownAgain'
    BY <1>1, <1>3, <1>4, <1>5, <1>6
       DEF Inv, TypeOK, Refresh, NoRefresh, Arriving, Unseen, Seen, LoginAnswer,
           NotShownAgain, RefreshShape
  <2>7. SingleUse'
    BY <1>1, <1>3, <1>4, <1>5, <1>6 DEF Inv, TypeOK, Refresh, Parents, SingleUse, RefreshShape
  <2>8. NoStrandedSession'
    BY <1>1, <1>3, <1>4, <1>5, <1>6
       DEF Inv, TypeOK, Refresh, NoRefresh, Arriving, Unseen, Seen, LoginAnswer,
           NoStrandedSession, RefreshShape
  <2>9. QED BY <2>1, <2>2, <2>3, <2>4, <2>5, <2>6, <2>7, <2>8 DEF Inv
<1>7. CASE call' = [call EXCEPT ![c] = v] /\ UNCHANGED <<issued, parent>>
  <2>1. TypeOK'
    BY <1>1, <1>3, <1>7 DEF Inv, TypeOK, Call, NoCall, Refresh, NoRefresh, Kinds
  <2>2. Arriving'
    BY <1>1, <1>3, <1>7
       DEF Inv, TypeOK, Call, NoCall, Refresh, NoRefresh, Arriving, Unseen, Seen, LoginAnswer,
           Issued, RefreshShape
  <2>3. Issued'
    BY <1>1, <1>3, <1>7
       DEF Inv, TypeOK, Refresh, NoRefresh, Arriving, Unseen, Seen, LoginAnswer, Issued,
           RefreshShape
  <2>4. RefreshShape'
    BY <1>1, <1>3, <1>7 DEF Inv, TypeOK, Refresh, NoRefresh, RefreshShape
  <2>5. Parents'
    BY <1>1, <1>3, <1>7 DEF Inv, TypeOK, Refresh, Parents, Issued, Seen, RefreshShape
  <2>6. NotShownAgain'
    BY <1>1, <1>3, <1>7
       DEF Inv, TypeOK, Refresh, NoRefresh, Arriving, Unseen, Seen, LoginAnswer,
           NotShownAgain, RefreshShape
  <2>7. SingleUse'
    BY <1>1, <1>3, <1>7 DEF Inv, TypeOK, Refresh, Parents, SingleUse, RefreshShape
  <2>8. NoStrandedSession'
    BY <1>1, <1>3, <1>7
       DEF Inv, TypeOK, Refresh, NoRefresh, Arriving, Unseen, Seen, LoginAnswer,
           NoStrandedSession, RefreshShape
  <2>9. QED BY <2>1, <2>2, <2>3, <2>4, <2>5, <2>6, <2>7, <2>8 DEF Inv
<1>8. QED BY <1>2, <1>6, <1>7

LEMMA ServeKeeps ==
  ASSUME Inv, NEW c \in Calls, Serve(c)
  PROVE  Inv'
<1> USE TabOfAssumption, UsesAssumption, MaxPairsAssumption DEF Pairs, None
<1>1. PICK reply \in {"ok", "error", "401"} :
        /\ call' = [call EXCEPT ![c].at = "answered", ![c].reply = reply, ![c].pair = None]
        /\ call[c].pair = None => reply = "401"
        /\ deadAccess' = IF call[c].kind = "logout" /\ reply = "ok"
                         THEN deadAccess \cup {call[c].pair} ELSE deadAccess
  BY DEF Serve
<1> DEFINE w == [call[c] EXCEPT !.at = "answered", !.reply = reply, !.pair = None]
<1>2. call' = [call EXCEPT ![c] = w] /\ call[c] \in Call
  BY <1>1 DEF Inv, TypeOK
<1>3. w \in Call /\ w.at = "answered" /\ w.pair = None
  BY <1>2 DEF Call
<1>4. deadAccess' \subseteq Pairs
  BY <1>1, <1>2 DEF Inv, TypeOK, Call
<1>5. UNCHANGED <<stored, page, refresh, shown, lost, issued, spent, parent>>
  BY DEF Serve
<1> HIDE DEF w
<1>6. Inv'
  <2>1. TypeOK'
    BY <1>2, <1>3, <1>4, <1>5 DEF Inv, TypeOK, Call, NoCall, Refresh, NoRefresh, Kinds
  <2>2. Arriving'
    BY <1>2, <1>3, <1>4, <1>5
       DEF Inv, TypeOK, Call, NoCall, Refresh, NoRefresh, Arriving, Unseen, Seen, LoginAnswer,
           Issued, RefreshShape
  <2>3. Issued'
    BY <1>2, <1>3, <1>4, <1>5
       DEF Inv, TypeOK, Refresh, NoRefresh, Arriving, Unseen, Seen, LoginAnswer, Issued,
           RefreshShape
  <2>4. RefreshShape'
    BY <1>2, <1>3, <1>4, <1>5 DEF Inv, TypeOK, Refresh, NoRefresh, RefreshShape
  <2>5. Parents'
    BY <1>2, <1>3, <1>4, <1>5 DEF Inv, TypeOK, Refresh, Parents, Issued, Seen, RefreshShape
  <2>6. NotShownAgain'
    BY <1>2, <1>3, <1>4, <1>5
       DEF Inv, TypeOK, Refresh, NoRefresh, Arriving, Unseen, Seen, LoginAnswer,
           NotShownAgain, RefreshShape
  <2>7. SingleUse'
    BY <1>2, <1>3, <1>4, <1>5 DEF Inv, TypeOK, Refresh, Parents, SingleUse, RefreshShape
  <2>8. NoStrandedSession'
    BY <1>2, <1>3, <1>4, <1>5
       DEF Inv, TypeOK, Refresh, NoRefresh, Arriving, Unseen, Seen, LoginAnswer,
           NoStrandedSession, RefreshShape
  <2>9. QED BY <2>1, <2>2, <2>3, <2>4, <2>5, <2>6, <2>7, <2>8 DEF Inv
<1>7. QED BY <1>6

LEMMA RotatePreserves ==
  ASSUME Inv, NEW t \in Tabs, Rotate(t)
  PROVE  Inv'
<1> USE TabOfAssumption, UsesAssumption, MaxPairsAssumption DEF Pairs, None
<1> DEFINE n == issued + 1
           r == [refresh[t] EXCEPT !.at = "answered", !.got = n]
<1>1. /\ refresh' = [refresh EXCEPT ![t] = r] /\ refresh[t] \in Refresh
      /\ refresh[t].at = "sent" /\ refresh[t].pair \notin spent
      /\ spent' = spent \cup {refresh[t].pair}
      /\ n \in Pairs /\ issued' = n /\ parent' = [parent EXCEPT ![n] = refresh[t].pair]
      /\ UNCHANGED <<stored, page, call, shown, lost, deadAccess>>
  BY DEF Rotate, Mint, Answer, Inv, TypeOK
<1>2. r \in Refresh /\ r.at = "answered" /\ r.got = n /\ r.pair = refresh[t].pair
  BY <1>1 DEF Refresh
<1>3. refresh[t].pair \in shown[t] /\ refresh[t].pair \in Pairs
  BY <1>1 DEF Inv, TypeOK, RefreshShape
<1>4. ~Seen(n) /\ refresh[t].pair \in shown[t] /\ refresh[t].pair \in Pairs
  BY <1>3 DEF Inv, TypeOK, Issued, Seen
<1>5. issued \in Nat /\ n = issued + 1 /\ 1..issued \subseteq 1..n
  BY DEF Inv, TypeOK
<1> HIDE DEF n, r
<1>6. Inv'
  <2>1. TypeOK'
    <3>1. refresh' \in [Tabs -> Refresh]
      BY <1>1, <1>2 DEF Inv, TypeOK
    <3>2. parent' \in [Pairs -> Pairs \cup {None}]
      BY <1>1, <1>4 DEF Inv, TypeOK
    <3>3. spent' \subseteq Pairs
      BY <1>1, <1>4 DEF Inv, TypeOK
    <3>4. n \in 0..MaxPairs
      BY <1>1, <1>5
    <3>5. QED BY <1>1, <3>1, <3>2, <3>3, <3>4 DEF Inv, TypeOK
  <2>2. Arriving'
    BY <1>1, <1>2, <1>4, <1>5
       DEF Inv, TypeOK, Call, NoCall, Refresh, NoRefresh, Arriving, Unseen, Seen, LoginAnswer,
           Issued, RefreshShape
  <2>3. Issued'
    BY <1>1, <1>2, <1>4, <1>5
       DEF Inv, TypeOK, Refresh, NoRefresh, Arriving, Unseen, Seen, LoginAnswer, Issued,
           RefreshShape
  <2>4. RefreshShape'
    BY <1>1, <1>2, <1>4, <1>5 DEF Inv, TypeOK, Refresh, NoRefresh, RefreshShape
  <2>5. Parents'
    BY <1>1, <1>2, <1>4, <1>5 DEF Inv, TypeOK, Refresh, Parents, Issued, Seen, RefreshShape
  <2>6. NotShownAgain'
    BY <1>1, <1>2, <1>4, <1>5
       DEF Inv, TypeOK, Refresh, NoRefresh, Arriving, Unseen, Seen, LoginAnswer,
           NotShownAgain, RefreshShape
  <2>7. SingleUse'
    BY <1>1, <1>2, <1>4, <1>5 DEF Inv, TypeOK, Refresh, Parents, SingleUse, RefreshShape
  <2>8. NoStrandedSession'
    BY <1>1, <1>2, <1>4, <1>5
       DEF Inv, TypeOK, Refresh, NoRefresh, Arriving, Unseen, Seen, LoginAnswer,
           NoStrandedSession, RefreshShape
  <2>9. QED BY <2>1, <2>2, <2>3, <2>4, <2>5, <2>6, <2>7, <2>8 DEF Inv
<1>7. QED BY <1>6

LEMMA RefuseKeeps ==
  ASSUME Inv, NEW t \in Tabs, Refuse(t)
  PROVE  Inv'
<1> USE TabOfAssumption, UsesAssumption, MaxPairsAssumption DEF Pairs, None
<1> DEFINE r == [refresh[t] EXCEPT !.at = "answered", !.got = None]
<1>1. /\ refresh' = [refresh EXCEPT ![t] = r] /\ refresh[t] \in Refresh
      /\ refresh[t].at = "sent"
      /\ UNCHANGED <<stored, page, call, shown, lost, server>>
  BY DEF Refuse, Answer, Inv, TypeOK
<1>2. r \in Refresh /\ r.at = "answered" /\ r.got = None /\ r.pair = refresh[t].pair
  BY <1>1 DEF Refresh
<1> HIDE DEF r
<1>3. Inv'
  <2>1. TypeOK'
    BY <1>1, <1>2 DEF Inv, TypeOK, Call, NoCall, Refresh, NoRefresh, Kinds, server
  <2>2. Arriving'
    BY <1>1, <1>2
       DEF Inv, TypeOK, Call, NoCall, Refresh, NoRefresh, Arriving, Unseen, Seen, LoginAnswer,
           Issued, RefreshShape, server
  <2>3. Issued'
    BY <1>1, <1>2
       DEF Inv, TypeOK, Refresh, NoRefresh, Arriving, Unseen, Seen, LoginAnswer, Issued,
           RefreshShape, server
  <2>4. RefreshShape'
    BY <1>1, <1>2 DEF Inv, TypeOK, Refresh, NoRefresh, RefreshShape, server
  <2>5. Parents'
    BY <1>1, <1>2 DEF Inv, TypeOK, Refresh, Parents, Issued, Seen, RefreshShape, server
  <2>6. NotShownAgain'
    BY <1>1, <1>2
       DEF Inv, TypeOK, Refresh, NoRefresh, Arriving, Unseen, Seen, LoginAnswer,
           NotShownAgain, RefreshShape, server
  <2>7. SingleUse'
    BY <1>1, <1>2 DEF Inv, TypeOK, Refresh, Parents, SingleUse, RefreshShape, server
  <2>8. NoStrandedSession'
    BY <1>1, <1>2
       DEF Inv, TypeOK, Refresh, NoRefresh, Arriving, Unseen, Seen, LoginAnswer,
           NoStrandedSession, RefreshShape, server
  <2>9. QED BY <2>1, <2>2, <2>3, <2>4, <2>5, <2>6, <2>7, <2>8 DEF Inv
<1>4. QED BY <1>3

LEMMA ExpireKeeps ==
  ASSUME Inv, NEW n \in Pairs, Expire(n)
  PROVE  Inv'
<1> USE TabOfAssumption, UsesAssumption, MaxPairsAssumption DEF Expire, Pairs, None, browser, server
<1>1. TypeOK'
  BY DEF Inv, TypeOK, Call, NoCall, Refresh, NoRefresh, Kinds
<1>2. Arriving'
  BY
     DEF Inv, TypeOK, Call, NoCall, Refresh, NoRefresh, Arriving, Unseen, Seen, LoginAnswer,
         Issued, RefreshShape
<1>3. Issued'
  BY DEF Inv, TypeOK, Refresh, NoRefresh, Arriving, Unseen, Seen, LoginAnswer, Issued, RefreshShape
<1>4. RefreshShape'
  BY DEF Inv, TypeOK, Refresh, NoRefresh, RefreshShape
<1>5. Parents'
  BY DEF Inv, TypeOK, Refresh, Parents, Issued, Seen, RefreshShape
<1>6. NotShownAgain'
  BY
     DEF Inv, TypeOK, Refresh, NoRefresh, Arriving, Unseen, Seen, LoginAnswer, NotShownAgain,
         RefreshShape
<1>7. SingleUse'
  BY DEF Inv, TypeOK, Refresh, Parents, SingleUse, RefreshShape
<1>8. NoStrandedSession'
  BY
     DEF Inv, TypeOK, Refresh, NoRefresh, Arriving, Unseen, Seen, LoginAnswer,
         NoStrandedSession, RefreshShape
<1>9. QED BY <1>1, <1>2, <1>3, <1>4, <1>5, <1>6, <1>7, <1>8 DEF Inv

-----------------------------------------------------------------------------

\* Every step keeps the invariant.
LEMMA NextKeeps == Inv /\ [Next]_vars => Inv'
<1> SUFFICES ASSUME Inv, [Next]_vars PROVE Inv'
  OBVIOUS
<1>1. ASSUME NEW c \in Calls, CallStep(c) PROVE Inv'
  BY <1>1, JoinKeeps, AcceptKeeps, FailKeeps, ServeLoginKeeps, ServeKeeps DEF CallStep
<1>2. ASSUME NEW c \in Calls, NEW k \in Kinds, Send(c, k) PROVE Inv'
  BY <1>2, SendKeeps
<1>3. ASSUME NEW t \in Tabs, RefreshStep(t) PROVE Inv'
  BY <1>3, HeadersKeeps, RefreshedKeeps, SignOutKeeps, RotatePreserves, RefuseKeeps
     DEF RefreshStep, RefreshEnds, Timed, Refused, RefreshFails, BodyFails
<1>4. ASSUME NEW t \in Tabs, Load(t) \/ NobodyStored(t) PROVE Inv'
  BY <1>4, LoadKeeps, NobodyStoredKeeps
<1>5. ASSUME NEW n \in Pairs, Expire(n) PROVE Inv'
  BY <1>5, ExpireKeeps
<1>6. CASE UNCHANGED vars
  BY <1>6 DEF vars, browser, server, Inv, TypeOK, Arriving, Unseen, Seen, LoginAnswer,
     Issued, RefreshShape, Parents, NotShownAgain, SingleUse, NoStrandedSession
<1>7. QED BY <1>1, <1>2, <1>3, <1>4, <1>5, <1>6 DEF Next

\* Nothing is issued at the start.
LEMMA InitInv == Init => Inv
<1> SUFFICES ASSUME Init PROVE Inv
  OBVIOUS
<1> USE TabOfAssumption, MaxPairsAssumption DEF Init, Pairs, None
<1>1. NoCall \in Call /\ NoRefresh \in Refresh
  BY DEF Call, NoCall, Refresh, NoRefresh, Kinds
<1>2. TypeOK
  BY <1>1 DEF TypeOK
<1>3. Arriving /\ Issued /\ RefreshShape /\ Parents /\ NotShownAgain
  BY DEF Arriving, LoginAnswer, Issued, Seen, RefreshShape, Parents, NotShownAgain,
     NoCall, NoRefresh
<1>4. SingleUse /\ NoStrandedSession
  BY DEF SingleUse, NoStrandedSession
<1>5. QED BY <1>2, <1>3, <1>4 DEF Inv

\* The inductive invariant holds in every behaviour.
THEOREM Invariant == Spec => []Inv
  BY InitInv, NextKeeps, PTL DEF Spec

\* A step of a tab that starts a refresh is Join; it presents the stored pair, and
\* the tab, which has no refresh on its way, has not presented that one before.
LEMMA StepNeverReplays ==
  Inv /\ [Next]_vars =>
    [\A t \in Tabs : refresh'[t].at = "sent" /\ refresh'[t] # refresh[t]
                       => refresh'[t].pair \notin shown[t]]_vars
<1> SUFFICES ASSUME Inv, Next, NEW t \in Tabs,
                    refresh'[t].at = "sent", refresh'[t] # refresh[t]
             PROVE  refresh'[t].pair \notin shown[t]
  OBVIOUS
<1> USE TabOfAssumption DEF Inv, TypeOK
<1>1. PICK c \in Calls : Join(c)
  <2>1. ASSUME NEW c \in Calls, CallStep(c) \/ \E k \in Kinds \ {"init"} : Send(c, k)
        PROVE  Join(c)
    BY <2>1 DEF CallStep, Accept, Fail, ServeLogin, Serve, Send
  <2>2. ASSUME NEW u \in Tabs, RefreshStep(u) \/ Load(u) \/ NobodyStored(u) PROVE FALSE
    <3>1. CASE Refreshed(u) \/ Refused(u) \/ RefreshFails(u) \/ BodyFails(u) \/ Load(u)
      <4>1. refresh' = [refresh EXCEPT ![u] = NoRefresh] /\ NoRefresh.at = "off"
        BY <3>1 DEF Refreshed, Refused, RefreshFails, BodyFails, SignOut, Load, NoRefresh
      <4>2. QED BY <4>1
    <3>2. CASE Rotate(u)
      BY <3>2 DEF Rotate, Answer, Refresh
    <3>3. CASE Refuse(u)
      BY <3>3 DEF Refuse, Answer, Refresh
    <3>4. CASE NobodyStored(u)
      BY <3>4 DEF NobodyStored
    <3>5. CASE Headers(u)
      BY <3>5 DEF Headers, Refresh
    <3>6. QED BY <2>2, <3>1, <3>2, <3>3, <3>4, <3>5 DEF RefreshStep, RefreshEnds, Timed
  <2>3. ASSUME NEW n \in Pairs, Expire(n) PROVE FALSE
    BY <2>3 DEF Expire, browser
  <2>4. QED BY <2>1, <2>2, <2>3 DEF Next
<1>2. TabOf[c] = t /\ refresh[t].at = "off" /\ refresh'[t].pair = stored
  BY <1>1 DEF Join
<1>3. QED BY <1>2 DEF NotShownAgain

-----------------------------------------------------------------------------

\* Every variable keeps its type.
THEOREM TypeCorrect == Spec => []TypeOK
  BY Invariant, PTL DEF Inv

\* A refresh token is exchanged for one pair at most (routes/auth.py, refresh).
THEOREM RefreshIsSingleUse == Spec => []SingleUse
  BY Invariant, PTL DEF Inv

\* The stored session is not left on a token that has been exchanged, unless its
\* successor is coming or its page was left (lib/apiFetch.ts, doRefresh).
THEOREM SessionNotStranded == Spec => []NoStrandedSession
  BY Invariant, PTL DEF Inv

\* A page presents each refresh token at most once (lib/apiFetch.ts, isRefreshing).
THEOREM RefreshNotReplayed == Spec => NeverReplays
<1>1. Inv /\ [Next]_vars =>
        [\A t \in Tabs : refresh'[t].at = "sent" /\ refresh'[t] # refresh[t]
                           => refresh'[t].pair \notin shown[t]]_vars
  BY StepNeverReplays
<1>2. QED BY <1>1, Invariant, PTL DEF Spec, NeverReplays
=============================================================================
