---------------------------- MODULE ArenaProofs -----------------------------
(* Safety of the Arena page for any number of rounds and chats, however the    *)
(* rounds, the server, the network and the user's clicks interleave.           *)
EXTENDS Arena, SequenceTheorems, TLAPS

USE MaxRoundsAssumption, OldChatsAssumption, RememberedAssumption, PicksAssumption

-----------------------------------------------------------------------------
(* What event_generator has on the wire.                                       *)

\* What the server can have written by a stage and the page not yet read: the
\* rest of one of the few courses a round takes.
Unread(stage) ==
  IF stage \in {"none", "checking"} THEN {<<>>}
  ELSE IF stage = "passed" THEN {<<>>, <<"pass">>}
  ELSE IF stage = "filed" THEN {<<>>, <<"result">>, <<"pass", "result">>}
  ELSE {<<>>, <<"error">>, <<"reject", "error">>, <<"pass", "error">>, <<"result">>,
        <<"pass", "result">>, <<"result", "error">>, <<"pass", "result", "error">>}

Tells(w, events) == \E i \in DOMAIN w : w[i] \in events

LEMMA UnreadSeq == ASSUME NEW stage, NEW w \in Unread(stage) PROVE w \in Seq(Events)
<1>1. \A a \in Events : <<a>> \in Seq(Events)
  OBVIOUS
<1>2. \A a, b \in Events : <<a, b>> \in Seq(Events)
  OBVIOUS
<1>3. \A a, b, c \in Events : <<a, b, c>> \in Seq(Events)
  OBVIOUS
<1>4. {"pass", "reject", "result", "error"} \subseteq Events /\ <<>> \in Seq(Events)
  BY DEF Events
<1>5. QED BY <1>1, <1>2, <1>3, <1>4 DEF Unread

\* One event more.
LEMMA OneMore ==
  ASSUME NEW a \in Events, NEW b \in Events, NEW c \in Events
  PROVE  <<a>> \o <<b>> = <<a, b>> /\ <<a, b>> \o <<c>> = <<a, b, c>>
<1>1. /\ <<a>> \in Seq(Events) /\ <<b>> \in Seq(Events) /\ <<c>> \in Seq(Events)
      /\ <<a, b>> \in Seq(Events) /\ <<a, b, c>> \in Seq(Events)
  OBVIOUS
<1>2. /\ Len(<<a>>) = 1 /\ Len(<<b>>) = 1 /\ Len(<<c>>) = 1
      /\ Len(<<a, b>>) = 2 /\ Len(<<a, b, c>>) = 3
  OBVIOUS
<1>3. <<a>> \o <<b>> = <<a, b>>
  <2> DEFINE w == <<a>> \o <<b>>
  <2>1. w \in Seq(Events) /\ Len(w) = 2 /\ w[1] = a /\ w[2] = b
    BY <1>1, <1>2, ConcatProperties
  <2>2. \A i \in 1..2 : w[i] = <<a, b>>[i]
    BY <2>1
  <2> HIDE DEF w
  <2>3. w = <<a, b>>
    BY <1>1, <1>2, <2>1, <2>2, SeqEqual
  <2>4. QED BY <2>3 DEF w
<1>4. <<a, b>> \o <<c>> = <<a, b, c>>
  <2> DEFINE w == <<a, b>> \o <<c>>
  <2>1. w \in Seq(Events) /\ Len(w) = 3 /\ w[1] = a /\ w[2] = b /\ w[3] = c
    BY <1>1, <1>2, ConcatProperties
  <2>2. \A i \in 1..3 : w[i] = <<a, b, c>>[i]
    BY <2>1
  <2> HIDE DEF w
  <2>3. w = <<a, b, c>>
    BY <1>1, <1>2, <2>1, <2>2, SeqEqual
  <2>4. QED BY <2>3 DEF w
<1>5. QED BY <1>3, <1>4

LEMMA UnreadEmpty == \A stage : <<>> \in Unread(stage)
  BY DEF Unread

\* Reading one event.
LEMMA UnreadTail ==
  ASSUME NEW stage, NEW w \in Unread(stage), w # <<>>
  PROVE  /\ Tail(w) \in Unread(stage)
         /\ Tells(Tail(w), {"result"}) => Tells(w, {"result"})
         /\ Head(w) = "pass" => stage = "passed" \/ Tells(Tail(w), Terminal)
         /\ Head(w) = "result" => Tells(w, {"result"})
         /\ Head(w) \in Events
<1> DEFINE Course == {<<"pass">>, <<"error">>, <<"reject", "error">>, <<"pass", "error">>,
                      <<"result">>, <<"pass", "result">>, <<"result", "error">>,
                      <<"pass", "result", "error">>}
<1>1. w \in Course
  BY DEF Unread
<1>2. CASE w = <<"pass">>
  <2>1. Head(w) = "pass" /\ Tail(w) = <<>>
    BY <1>2
  <2>2. <<"pass">>[1] = "pass" /\ Len(<<"pass">>) = 1
    OBVIOUS
  <2>3. /\ <<"error">>[1] = "error" /\ <<"result">>[1] = "result"
        /\ <<"reject", "error">>[1] = "reject" /\ Len(<<"pass", "error">>) = 2
        /\ Len(<<"pass", "result">>) = 2 /\ <<"result", "error">>[1] = "result"
        /\ Len(<<"pass", "result", "error">>) = 3 /\ Len(<<>>) = 0
    OBVIOUS
  <2>4. stage = "passed"
    <3>1. stage # "passed" => Len(w) # 1 \/ w[1] # "pass"
      BY <2>3 DEF Unread
    <3>2. QED BY <1>2, <2>2, <3>1
  <2>5. ~Tells(Tail(w), {"result"})
    BY <2>1 DEF Tells
  <2>6. QED BY <2>1, <2>4, <2>5, UnreadEmpty DEF Events
<1>3. CASE w = <<"error">>
  <2>1. Head(w) = "error" /\ Tail(w) = <<>> /\ DOMAIN Tail(w) = {}
    BY <1>3
  <2>2. ~Tells(Tail(w), {"result"})
    BY <2>1 DEF Tells
  <2>3. QED BY <2>1, <2>2, UnreadEmpty DEF Events
<1>4. CASE w = <<"reject", "error">>
  <2>1. Head(w) = "reject" /\ Tail(w) = <<"error">>
    BY <1>4
  <2>2. QED BY <1>4, <2>1 DEF Unread, Tells, Events
<1>5. CASE w = <<"pass", "error">>
  <2>1. Head(w) = "pass" /\ Tail(w) = <<"error">>
    BY <1>5
  <2>2. QED BY <1>5, <2>1 DEF Unread, Tells, Events, Terminal
<1>6. CASE w = <<"result">>
  <2>1. Head(w) = "result" /\ Tail(w) = <<>>
    BY <1>6
  <2>2. QED BY <1>6, <2>1, UnreadEmpty DEF Tells, Events
<1>7. CASE w = <<"pass", "result">>
  <2>1. Head(w) = "pass" /\ Tail(w) = <<"result">>
    BY <1>7
  <2>2. QED BY <1>7, <2>1 DEF Unread, Tells, Events, Terminal
<1>8. CASE w = <<"result", "error">>
  <2>1. Head(w) = "result" /\ Tail(w) = <<"error">>
    BY <1>8
  <2>2. QED BY <1>8, <2>1 DEF Unread, Tells, Events
<1>9. CASE w = <<"pass", "result", "error">>
  <2>1. Head(w) = "pass" /\ Tail(w) = <<"result", "error">>
    BY <1>9
  <2>2. QED BY <1>9, <2>1 DEF Unread, Tells, Events, Terminal
<1>10. QED BY <1>1, <1>2, <1>3, <1>4, <1>5, <1>6, <1>7, <1>8, <1>9

\* Writing the events of the next stage.
LEMMA UnreadPass ==
  ASSUME NEW w \in Unread("checking")
  PROVE  w \o <<"pass">> \in Unread("passed") /\ ~Tells(w \o <<"pass">>, {"result"})
<1>1. w \o <<"pass">> = <<"pass">>
  BY DEF Unread
<1>2. QED BY <1>1 DEF Unread, Tells

LEMMA UnreadReject ==
  ASSUME NEW w \in Unread("checking")
  PROVE  /\ w \o <<"reject", "error">> \in Unread("closed")
         /\ ~Tells(w \o <<"reject", "error">>, {"result"})
         /\ Tells(w \o <<"reject", "error">>, Terminal)
<1>1. w \o <<"reject", "error">> = <<"reject", "error">>
  BY DEF Unread
<1>2. QED BY <1>1 DEF Unread, Tells, Terminal

LEMMA UnreadResult ==
  ASSUME NEW w \in Unread("passed")
  PROVE  /\ w \o <<"result">> \in Unread("filed")
         /\ Tells(w \o <<"result">>, Terminal)
<1>1. w \o <<"result">> \in {<<"result">>, <<"pass", "result">>}
  <2>1. <<>> \o <<"result">> = <<"result">>
    OBVIOUS
  <2>2. <<"pass">> \o <<"result">> = <<"pass", "result">>
    BY OneMore DEF Events
  <2>3. QED BY <2>1, <2>2 DEF Unread
<1>2. QED BY <1>1 DEF Unread, Tells, Terminal

LEMMA UnreadError ==
  ASSUME NEW stage \in {"checking", "passed", "filed"}, NEW w \in Unread(stage)
  PROVE  /\ w \o <<"error">> \in Unread("closed")
         /\ Tells(w \o <<"error">>, Terminal)
         /\ Tells(w \o <<"error">>, {"result"}) => Tells(w, {"result"})
<1>1. w \in {<<>>, <<"pass">>, <<"result">>, <<"pass", "result">>}
  BY DEF Unread
<1>2. CASE w = <<>>
  <2>1. w \o <<"error">> = <<"error">>
    BY <1>2
  <2>2. QED BY <2>1 DEF Unread, Tells, Terminal
<1>3. CASE w = <<"pass">>
  <2>1. w \o <<"error">> = <<"pass", "error">>
    BY <1>3, OneMore DEF Events
  <2>2. QED BY <2>1 DEF Unread, Tells, Terminal
<1>4. CASE w = <<"result">>
  <2>1. w \o <<"error">> = <<"result", "error">>
    BY <1>4, OneMore DEF Events
  <2>2. QED BY <1>4, <2>1 DEF Unread, Tells, Terminal
<1>5. CASE w = <<"pass", "result">>
  <2>1. w \o <<"error">> = <<"pass", "result", "error">>
    BY <1>5, OneMore DEF Events
  <2>2. QED BY <1>5, <2>1 DEF Unread, Tells, Terminal
<1>6. QED BY <1>1, <1>2, <1>3, <1>4, <1>5

LEMMA UnreadClose == Unread("filed") \subseteq Unread("closed")
  BY DEF Unread

-----------------------------------------------------------------------------
(* Types.                                                                      *)

LEMMA Nobody == None \notin Rounds /\ None \notin OldChats /\ None \notin Chats
  BY DEF None, Rounds, Chats

LEMMA TypeInit == Init => TypeOK
<1> SUFFICES ASSUME Init PROVE TypeOK
  OBVIOUS
<1>1. <<>> \in Seq(Events) /\ 0 \in 0..MaxRounds
  OBVIOUS
<1>2. stored \in Chats \cup {None} /\ restoring \in OldChats \cup {None}
  BY DEF Init, Chats, None
<1>3. sess \in [id : Chats \cup {None}, turns : SUBSET Turns]
  BY DEF Init, NoSession
<1>4. filed \in [Chats -> SUBSET Turns]
  BY DEF Init, Turns
<1>5. wire \in [Rounds -> Seq(Events)]
  BY <1>1 DEF Init
<1>6. QED BY <1>1, <1>2, <1>3, <1>4, <1>5 DEF Init, TypeOK

LEMMA ChatType == ASSUME TypeOK, NEW r \in Rounds PROVE ChatOf(r) \in Chats
  BY DEF TypeOK, ChatOf, Chats

LEMMA AbortType ==
  ASSUME TypeOK, AbortCurrent
  PROVE  aborted' \subseteq Rounds /\ over' \subseteq Rounds /\ wire' \in [Rounds -> Seq(Events)]
<1>1. aborted' \subseteq Rounds /\ over' \subseteq Rounds
  BY DEF AbortCurrent, TypeOK
<1>2. <<>> \in Seq(Events)
  OBVIOUS
<1>3. wire' \in [Rounds -> Seq(Events)]
  BY <1>2 DEF AbortCurrent, TypeOK
<1>4. QED BY <1>1, <1>3

LEMMA TypeStart ==
  ASSUME TypeOK, NEW b \in BOOLEAN, Start(b)
  PROVE  TypeOK'
<1> DEFINE r == round + 1
<1>1. r \in Rounds /\ r \in 0..MaxRounds
  BY DEF Start, TypeOK, Rounds
<1>2. AbortCurrent
  BY DEF Start
<1>3. round' = r /\ req' = [req EXCEPT ![r] = "asked"]
  BY DEF Start
<1>4. askedIn' \in [Rounds -> Chats \cup {None}]
  BY <1>1 DEF Start, TypeOK
<1>5. timers' \subseteq Rounds /\ rerun' \in Rounds \cup {None}
  BY <1>1 DEF Start, StopTimer, TypeOK
<1> HIDE DEF r
<1>6. QED BY <1>1, <1>2, <1>3, <1>4, <1>5, AbortType DEF Start, TypeOK, server

LEMMA TypeReset ==
  ASSUME TypeOK, Reset, phase' \in {"idle", "done"}, prompted' \in BOOLEAN,
         sess' \in [id : Chats \cup {None}, turns : SUBSET Turns],
         stored' \in Chats \cup {None}, overtaken' = overtaken
  PROVE  TypeOK'
  BY AbortType DEF Reset, StopTimer, TypeOK, server

LEMMA TypeUser ==
  ASSUME TypeOK, \/ Stop \/ NewChat \/ TurnClick \/ RestoreAnswer \/ RestoreMissing
                 \/ \E c \in Picks : Select(c)
  PROVE  TypeOK'
<1>1. CASE Stop
  BY <1>1, AbortType DEF Stop, StopTimer, TypeOK, chat, server
<1>2. CASE NewChat
  BY <1>2, TypeReset DEF NewChat, TypeOK
<1>3. CASE TurnClick
  BY <1>3 DEF TurnClick, TypeOK, chat, stream, server, control
<1>4. CASE RestoreAnswer
  <2>1. restoring \in Chats /\ filed[restoring] \subseteq Turns
    BY <1>4 DEF RestoreAnswer, TypeOK, Chats
  <2>2. sess' \in [id : Chats \cup {None}, turns : SUBSET Turns]
    BY <1>4, <2>1 DEF RestoreAnswer
  <2>3. QED BY <1>4, <2>2 DEF RestoreAnswer, TypeOK, stream, server, control
<1>5. CASE RestoreMissing
  BY <1>5 DEF RestoreMissing, TypeOK, page, stream, server, control
<1>6. ASSUME NEW c \in Picks, Select(c) PROVE TypeOK'
  <2>1. c \in Chats /\ filed[c] \subseteq Turns
    BY DEF TypeOK, Chats, Rounds
  <2>2. sess' \in [id : Chats \cup {None}, turns : SUBSET Turns] /\ stored' \in Chats
    BY <1>6, <2>1 DEF Select
  <2>3. QED BY <1>6, <2>2, TypeReset DEF Select
<1>7. QED BY <1>1, <1>2, <1>3, <1>4, <1>5, <1>6

LEMMA TypeServe ==
  ASSUME TypeOK, NEW r \in Rounds, NEW stage \in {"passed", "filed", "closed"},
         NEW events \in Seq(Events), Serve(r, stage, events),
         filed' \in [Chats -> SUBSET Turns]
  PROVE  TypeOK'
<1>1. wire[r] \in Seq(Events) /\ wire[r] \o events \in Seq(Events) /\ <<>> \in Seq(Events)
  BY ConcatProperties DEF TypeOK
<1>2. wire' \in [Rounds -> Seq(Events)] /\ srv' \in [Rounds -> {"none", "checking", "passed", "filed", "closed"}]
  BY <1>1 DEF Serve, TypeOK
<1>3. QED BY <1>2 DEF Serve, TypeOK, page, chat, control

LEMMA TypeGenerate ==
  ASSUME TypeOK, NEW r \in Rounds, Generate(r)
  PROVE  TypeOK'
<1>1. /\ <<"pass">> \in Seq(Events) /\ <<"reject", "error">> \in Seq(Events)
      /\ <<"error">> \in Seq(Events) /\ <<"result">> \in Seq(Events) /\ <<>> \in Seq(Events)
  BY DEF Events
<1>2. filed' \in [Chats -> SUBSET Turns]
  <2>1. filed \in [Chats -> SUBSET Turns] /\ r \in Turns
    BY DEF TypeOK, Turns, Chats
  <2>2. [filed EXCEPT ![ChatOf(r)] = @ \cup {r}] \in [Chats -> SUBSET Turns]
    BY <2>1, ChatType
  <2>3. QED BY <2>1, <2>2 DEF Generate
<1>3. PICK stage \in {"passed", "filed", "closed"}, events \in Seq(Events) :
        Serve(r, stage, events)
  BY <1>1 DEF Generate
<1>4. QED BY <1>2, <1>3, TypeServe

LEMMA TypeRound ==
  ASSUME TypeOK, NEW r \in Rounds,
         Open(r) \/ Broken(r) \/ Catch(r) \/ Finish(r) \/ Suggest(r)
  PROVE  TypeOK'
<1>1. <<>> \in Seq(Events)
  OBVIOUS
<1>2. CASE Open(r)
  BY <1>2 DEF Open, TypeOK, page, chat, control
<1>3. CASE Broken(r)
  BY <1>1, <1>3 DEF Broken, Returned, StopTimer, TypeOK, chat, server, control
<1>4. CASE Catch(r)
  BY <1>4 DEF Catch, Returned, StopTimer, TypeOK, chat, server, control
<1>5. CASE Finish(r)
  BY <1>5 DEF Finish, Returned, TypeOK, chat, server, control
<1>6. CASE Suggest(r)
  BY <1>6 DEF Suggest, TypeOK, chat, stream, server, control
<1>7. QED BY <1>2, <1>3, <1>4, <1>5, <1>6

LEMMA TypeRead ==
  ASSUME TypeOK, NEW r \in Rounds,
         OnPass(r) \/ OnReject(r) \/ OnResult(r) \/ OnError(r) \/ Split(r)
  PROVE  TypeOK'
<1>1. Readable(r) /\ wire' = [wire EXCEPT ![r] = Tail(wire[r])]
  BY DEF OnPass, OnReject, OnResult, OnError, Split, Took, TypeOK
<1>2. Tail(wire[r]) \in Seq(Events)
  BY <1>1, HeadTailProperties DEF Readable, TypeOK
<1>3. wire' \in [Rounds -> Seq(Events)]
  BY <1>1, <1>2 DEF TypeOK
<1>4. CASE OnPass(r)
  BY <1>3, <1>4 DEF OnPass, Took, TypeOK, server, control
<1>5. CASE OnReject(r)
  BY <1>3, <1>5 DEF OnReject, Took, StopTimer, TypeOK, server, control
<1>6. CASE OnResult(r)
  <2>1. sess.turns \subseteq Turns /\ r \in Turns
    BY DEF TypeOK, Turns, Chats
  <2>2. sess' \in [id : Chats \cup {None}, turns : SUBSET Turns] /\ stored' \in Chats
    BY <1>6, <2>1, ChatType DEF OnResult
  <2>3. QED BY <1>3, <1>6, <2>2 DEF OnResult, Took, StopTimer, TypeOK, server, control
<1>7. CASE OnError(r)
  BY <1>3, <1>7 DEF OnError, Took, StopTimer, TypeOK, server, control
<1>8. CASE Split(r)
  BY <1>3, <1>8 DEF Split, TypeOK, page, chat, server, control
<1>9. QED BY <1>4, <1>5, <1>6, <1>7, <1>8

LEMMA TypeStep == TypeOK /\ [Next]_vars => TypeOK'
<1> SUFFICES ASSUME TypeOK, [Next]_vars PROVE TypeOK'
  OBVIOUS
<1>1. CASE UNCHANGED vars
  BY <1>1 DEF vars, page, chat, stream, server, control, TypeOK
<1>2. CASE Submit \/ ReRun
  BY <1>2, TypeStart DEF Submit, ReRun
<1>3. CASE \E r \in Rounds : RoundStep(r) \/ Split(r) \/ Suggest(r)
  BY <1>3, TypeGenerate, TypeRound, TypeRead DEF RoundStep
<1>4. QED BY <1>1, <1>2, <1>3, TypeUser DEF Next

\* The page's state keeps its types whatever the user, the server and the
\* network do: no handler shows a round, files a turn or names a chat that the
\* others do not know.
THEOREM TypeCorrect == Spec => []TypeOK
<1>1. QED BY TypeInit, TypeStep, PTL DEF Spec

-----------------------------------------------------------------------------
(* The inductive invariant.                                                    *)

\* What the user stopped, replaced or left is what was aborted; every round
\* but the last is, and none is asked beyond the last.
OneRound ==
  /\ over = aborted
  /\ \A r \in Rounds : r > round => req[r] = "none" /\ r \notin aborted
  /\ \A r \in Rounds : r < round => r \in aborted

\* A stream starts with its request, follows one of the courses of
\* event_generator and is not read once its round is aborted.
Streams ==
  \A r \in Rounds :
    /\ wire[r] \in Unread(srv[r])
    /\ r \in aborted => wire[r] = <<>>
    /\ req[r] \in {"none", "asked"} => srv[r] = "none"

\* An event that ends the round is to come.
Pending(r) == srv[r] \in {"checking", "passed"} \/ Tells(wire[r], Terminal)

Live(r) ==
  /\ r \in Rounds \ aborted
  /\ req[r] = "asked" \/ (req[r] = "open" /\ Pending(r))

\* What the page shows as running, and what redraws it, is a live round.
Shown ==
  /\ InProgress => round \in cut \/ Live(round)
  /\ \A r \in timers : r = round /\ r \notin aborted /\ (r \in cut \/ Live(r))

\* A verdict is written after its turn was filed; the chat of the last round is
\* the chat on the page or, before there is one, the chat being restored.
Filing ==
  /\ \A r \in Rounds : srv[r] = "filed" \/ Tells(wire[r], {"result"}) => r \in filed[ChatOf(r)]
  /\ sess.id = None => stored = restoring
  /\ round \in Rounds \ aborted =>
       \/ overtaken
       \/ IF sess.id = None THEN restoring # None => askedIn[round] = restoring
          ELSE ChatOf(round) = sess.id

Inv == TypeOK /\ OneRound /\ Streams /\ Shown /\ Filing /\ OneChat

LEMMA InvInit == Init => Inv
<1> SUFFICES ASSUME Init PROVE Inv
  OBVIOUS
<1>1. TypeOK
  BY TypeInit
<1>2. OneRound
  BY DEF Init, OneRound, Rounds
<1>3. Streams
  BY UnreadEmpty DEF Init, Streams
<1>4. Shown
  BY DEF Init, Shown, InProgress
<1>5. Filing
  <2>1. \A r \in Rounds : ~Tells(wire[r], {"result"})
    BY DEF Init, Tells
  <2>2. round \notin Rounds
    BY DEF Init, Rounds
  <2>3. QED BY <2>1, <2>2 DEF Init, Filing
<1>6. OneChat
  BY DEF Init, OneChat, NoSession
<1>7. QED BY <1>1, <1>2, <1>3, <1>4, <1>5, <1>6 DEF Inv

-----------------------------------------------------------------------------
(* What the steps do.                                                          *)

\* A stream that is listened to is the last round's.
LEMMA ThisRound ==
  ASSUME TypeOK, OneRound, NEW r \in Rounds, req[r] # "none", r \notin aborted
  PROVE  r = round
  BY DEF TypeOK, OneRound, Rounds

LEMMA AbortEffect ==
  ASSUME TypeOK, OneRound, AbortCurrent
  PROVE  /\ over' = aborted' /\ aborted' = aborted \cup ({round} \cap Rounds)
         /\ \A r \in Rounds : wire'[r] = IF r = round THEN <<>> ELSE wire[r]
  BY DEF AbortCurrent, OneRound

\* A step that reads: whose stream it is and what is left of it.
LEMMA ReadEffect ==
  ASSUME Inv, NEW r \in Rounds, Readable(r), wire' = [wire EXCEPT ![r] = Tail(@)]
  PROVE  /\ r = round /\ r \notin aborted /\ req[r] = "open"
         /\ wire'[r] = Tail(wire[r]) /\ \A q \in Rounds : q # r => wire'[q] = wire[q]
         /\ Tail(wire[r]) \in Unread(srv[r])
         /\ \A q \in Rounds : Tells(wire'[q], {"result"}) => Tells(wire[q], {"result"})
         /\ Head(wire[r]) = "pass" => srv[r] = "passed" \/ Tells(wire'[r], Terminal)
         /\ Head(wire[r]) = "result" => Tells(wire[r], {"result"})
<1>1. r = round /\ r \notin aborted /\ req[r] = "open" /\ wire[r] # <<>>
  BY ThisRound DEF Readable, Inv
<1>2. wire'[r] = Tail(wire[r]) /\ \A q \in Rounds : q # r => wire'[q] = wire[q]
  BY DEF Inv, TypeOK
<1>3. wire[r] \in Unread(srv[r])
  BY DEF Inv, Streams
<1>4. /\ Tail(wire[r]) \in Unread(srv[r])
      /\ Tells(Tail(wire[r]), {"result"}) => Tells(wire[r], {"result"})
      /\ Head(wire[r]) = "pass" => srv[r] = "passed" \/ Tells(Tail(wire[r]), Terminal)
      /\ Head(wire[r]) = "result" => Tells(wire[r], {"result"})
  BY <1>1, <1>3, UnreadTail
<1>5. \A q \in Rounds : Tells(wire'[q], {"result"}) => Tells(wire[q], {"result"})
  BY <1>2, <1>4
<1>6. QED BY <1>1, <1>2, <1>4, <1>5

\* A turn of the generator: the stream stays on course, what was to come comes
\* and what it tells has been filed.
LEMMA GenerateEffect ==
  ASSUME Inv, NEW r \in Rounds, Generate(r)
  PROVE  /\ UNCHANGED <<page, chat, req, cut, control>>
         /\ \A q \in Rounds : q # r => srv'[q] = srv[q] /\ wire'[q] = wire[q]
         /\ srv[r] # "none" /\ wire'[r] \in Unread(srv'[r])
         /\ r \in aborted => wire'[r] = <<>>
         /\ r \notin aborted /\ Pending(r) => Pending(r)'
         /\ \A c \in Chats : filed[c] \subseteq filed'[c]
         /\ srv'[r] = "filed" \/ Tells(wire'[r], {"result"}) => r \in filed'[ChatOf(r)]
<1>1. /\ wire \in [Rounds -> Seq(Events)] /\ filed \in [Chats -> SUBSET Turns]
      /\ wire[r] \in Seq(Events) /\ wire[r] \in Unread(srv[r])
      /\ r \in aborted => wire[r] = <<>>
      /\ srv[r] = "filed" \/ Tells(wire[r], {"result"}) => r \in filed[ChatOf(r)]
      /\ ChatOf(r) \in Chats
  BY ChatType DEF Inv, TypeOK, Streams, Filing
<1>2. ASSUME NEW stage, NEW events, Serve(r, stage, events)
      PROVE  /\ UNCHANGED <<page, chat, req, cut, control>>
             /\ \A q \in Rounds : q # r => srv'[q] = srv[q] /\ wire'[q] = wire[q]
             /\ srv'[r] = stage
             /\ r \in aborted => wire'[r] = <<>>
             /\ r \notin aborted => wire'[r] = wire[r] \o events
  BY <1>1, <1>2 DEF Serve, Inv, TypeOK
<1>3. ~Tells(<<>>, {"result"})
  BY DEF Tells
<1>4. CASE srv[r] = "checking" /\ Serve(r, "passed", <<"pass">>) /\ UNCHANGED filed
  <2>1. wire'[r] \in Unread("passed") /\ ~Tells(wire'[r], {"result"})
    BY <1>1, <1>2, <1>3, <1>4, UnreadPass, UnreadEmpty
  <2>2. QED BY <1>2, <1>4, <2>1 DEF Pending
<1>5. CASE srv[r] = "checking" /\ Serve(r, "closed", <<"reject", "error">>) /\ UNCHANGED filed
  <2>1. wire'[r] \in Unread("closed") /\ ~Tells(wire'[r], {"result"})
        /\ (r \notin aborted => Tells(wire'[r], Terminal))
    BY <1>1, <1>2, <1>3, <1>5, UnreadReject, UnreadEmpty
  <2>2. QED BY <1>2, <1>5, <2>1 DEF Pending
<1>6. CASE srv[r] \in {"checking", "passed", "filed"} /\ Serve(r, "closed", <<"error">>)
           /\ UNCHANGED filed
  <2>1. /\ wire'[r] \in Unread("closed")
        /\ Tells(wire'[r], {"result"}) => Tells(wire[r], {"result"})
        /\ r \notin aborted => Tells(wire'[r], Terminal)
    <3>1. CASE r \in aborted
      BY <1>2, <1>3, <1>6, <3>1, UnreadEmpty
    <3>2. CASE r \notin aborted
      <4>1. wire'[r] = wire[r] \o <<"error">>
        BY <1>2, <1>6, <3>2
      <4>2. QED BY <1>1, <1>6, <4>1, UnreadError
    <3>3. QED BY <3>1, <3>2
  <2>2. QED BY <1>1, <1>2, <1>6, <2>1 DEF Pending
<1>7. CASE srv[r] = "passed" /\ Serve(r, "filed", <<"result">>)
           /\ filed' = [filed EXCEPT ![ChatOf(r)] = @ \cup {r}]
  <2>1. wire'[r] \in Unread("filed") /\ (r \notin aborted => Tells(wire'[r], Terminal))
    BY <1>1, <1>2, <1>7, UnreadResult, UnreadEmpty
  <2>2. r \in filed'[ChatOf(r)] /\ \A c \in Chats : filed[c] \subseteq filed'[c]
    BY <1>1, <1>7
  <2>3. QED BY <1>2, <1>7, <2>1, <2>2 DEF Pending
<1>8. CASE (srv[r] = "filed" \/ (r \in aborted /\ srv[r] \in {"checking", "passed"}))
           /\ Serve(r, "closed", <<>>) /\ UNCHANGED filed
  <2>1. r \notin aborted => wire'[r] = wire[r] /\ srv[r] = "filed"
    BY <1>1, <1>2, <1>8, ConcatEmptySeq
  <2>2. wire'[r] \in Unread("closed")
    BY <1>1, <1>2, <1>8, <2>1, UnreadClose, UnreadEmpty
  <2>3. r \notin aborted /\ Pending(r) => Pending(r)'
    BY <2>1 DEF Pending
  <2>4. Tells(wire'[r], {"result"}) => Tells(wire[r], {"result"})
    BY <1>2, <1>3, <1>8, <2>1
  <2>5. QED BY <1>1, <1>2, <1>8, <2>2, <2>3, <2>4
<1>9. QED BY <1>4, <1>5, <1>6, <1>7, <1>8 DEF Generate

-----------------------------------------------------------------------------
(* The invariant is kept, one kind of step at a time.                          *)

\* A step that leaves the rounds alone and starts showing none.
LEMMA InvAside ==
  ASSUME Inv, TypeOK',
         UNCHANGED <<round, aborted, over, req, srv, wire, timers, cut, filed, askedIn>>,
         phase' \in {phase, "idle", "done"},
         Filing' /\ OneChat'
  PROVE  Inv'
<1>1. OneRound' /\ Streams'
  BY DEF Inv, OneRound, Streams
<1>2. \A r \in Rounds : Live(r) => Live(r)'
  BY DEF Live, Pending
<1>3. Shown'
  <2>1. InProgress' => InProgress
    BY DEF InProgress
  <2>2. Live(round) => Live(round)'
    BY <1>2 DEF Live
  <2>3. \A r \in timers' : r \in Rounds
    BY DEF Inv, TypeOK
  <2>4. QED BY <1>2, <2>1, <2>2, <2>3 DEF Inv, Shown
<1>4. QED BY <1>1, <1>3 DEF Inv

\* A step that aborts the last round and shows none in its place.
LEMMA InvAborts ==
  ASSUME Inv, TypeOK', AbortCurrent,
         UNCHANGED <<round, req, srv, cut, filed, askedIn, restoring>>, timers' = StopTimer,
         phase' \in {"idle", "done"},
         sess'.id = None => stored' = restoring,
         OneChat'
  PROVE  Inv'
<1>1. /\ over' = aborted' /\ aborted' = aborted \cup ({round} \cap Rounds)
      /\ \A r \in Rounds : wire'[r] = IF r = round THEN <<>> ELSE wire[r]
  BY AbortEffect DEF Inv
<1>2. OneRound'
  BY <1>1 DEF Inv, OneRound
<1>3. Streams'
  BY <1>1, UnreadEmpty DEF Inv, Streams
<1>4. Shown'
  <2>1. timers' = {}
    BY DEF StopTimer, Inv, Shown
  <2>2. QED BY <2>1 DEF Shown, InProgress
<1>5. Filing'
  <2>1. \A r \in Rounds : Tells(wire'[r], {"result"}) => Tells(wire[r], {"result"})
    BY <1>1 DEF Tells
  <2>2. \A r \in Rounds : ChatOf(r)' = ChatOf(r)
    BY DEF ChatOf
  <2>3. round' \notin Rounds \ aborted'
    BY <1>1
  <2>4. QED BY <2>1, <2>2, <2>3 DEF Inv, Filing
<1>6. QED BY <1>2, <1>3, <1>4, <1>5 DEF Inv

LEMMA InvStart ==
  ASSUME Inv, NEW b \in BOOLEAN, Start(b)
  PROVE  Inv'
<1>1. PICK n \in Rounds : n = round + 1
  BY DEF Start
<1>2. TypeOK /\ TypeOK'
  BY TypeStart DEF Inv
<1>3. /\ round' = n /\ n # round
      /\ \A r \in Rounds : r < n => r = round \/ r < round
      /\ \A r \in Rounds : r > n => r > round /\ r # round /\ r # n
      /\ n > round
  BY <1>1, <1>2 DEF Start, TypeOK, Rounds
<1>4. /\ over' = aborted' /\ aborted' = aborted \cup ({round} \cap Rounds)
      /\ \A r \in Rounds : wire'[r] = IF r = round THEN <<>> ELSE wire[r]
  BY <1>2, AbortEffect DEF Inv, Start
<1>5. /\ req[n] = "none" /\ srv[n] = "none" /\ n \notin aborted /\ wire[n] = <<>>
      /\ n \notin aborted'
  <2>1. req[n] = "none" /\ n \notin aborted
    BY <1>3 DEF Inv, OneRound
  <2>2. srv[n] = "none" /\ wire[n] \in Unread("none")
    BY <1>3, <2>1 DEF Inv, Streams
  <2>3. QED BY <1>3, <1>4, <2>1, <2>2 DEF Unread
<1>6. /\ req'[n] = "asked" /\ \A r \in Rounds : r # n => req'[r] = req[r]
      /\ srv' = srv /\ filed' = filed /\ sess' = sess /\ stored' = stored
      /\ restoring' = restoring /\ overtaken' = overtaken
  BY <1>1, <1>2 DEF Start, server, TypeOK
<1>7. /\ askedIn'[n] = (IF sess.id # None THEN sess.id ELSE stored)
      /\ \A r \in Rounds : r # n => askedIn'[r] = askedIn[r]
  BY <1>1, <1>2 DEF Start, TypeOK
<1>8. timers' = {n}
  BY <1>1 DEF Start, StopTimer, Inv, Shown
<1>9. OneRound'
  <2>1. ASSUME NEW r \in Rounds, r > n PROVE req'[r] = "none" /\ r \notin aborted'
    BY <1>3, <1>4, <1>6, <2>1 DEF Inv, OneRound
  <2>2. ASSUME NEW r \in Rounds, r < n PROVE r \in aborted'
    <3>1. r = round \/ r < round
      BY <1>3, <2>2
    <3>2. QED BY <1>4, <3>1 DEF Inv, OneRound
  <2>3. QED BY <1>3, <1>4, <2>1, <2>2 DEF OneRound
<1>10. Streams'
  BY <1>4, <1>5, <1>6, UnreadEmpty DEF Inv, Streams
<1>11. Shown'
  BY <1>3, <1>5, <1>6, <1>8 DEF Shown, Live
<1>12. Filing'
  <2>1. ASSUME NEW r \in Rounds, srv'[r] = "filed" \/ Tells(wire'[r], {"result"})
        PROVE  r \in filed'[ChatOf(r)']
    <3>1. srv[r] = "filed" \/ Tells(wire[r], {"result"})
      BY <1>4, <1>6, <2>1 DEF Tells
    <3>2. r # n
      BY <1>5, <3>1 DEF Tells
    <3>3. ChatOf(r)' = ChatOf(r)
      BY <1>7, <3>2 DEF ChatOf
    <3>4. QED BY <1>6, <3>1, <3>3 DEF Inv, Filing
  <2>2. sess'.id = None => stored' = restoring'
    BY <1>6 DEF Inv, Filing
  <2>3. sess'.id = None => askedIn'[n] = restoring'
    BY <1>6, <1>7, <2>2
  <2>4. sess'.id # None => ChatOf(n)' = sess'.id
    BY <1>6, <1>7 DEF ChatOf
  <2>5. QED BY <1>3, <2>1, <2>2, <2>3, <2>4 DEF Filing
<1>13. OneChat'
  BY <1>6 DEF Inv, OneChat
<1>14. QED BY <1>2, <1>9, <1>10, <1>11, <1>12, <1>13 DEF Inv

LEMMA InvUser ==
  ASSUME Inv, \/ Stop \/ NewChat \/ TurnClick \/ RestoreAnswer \/ RestoreMissing
              \/ \E c \in Picks : Select(c)
  PROVE  Inv'
<1>1. TypeOK /\ TypeOK' /\ Filing /\ OneChat
  BY TypeUser DEF Inv
<1>2. CASE Stop
  BY <1>1, <1>2, InvAborts DEF Stop, chat, server, Filing, OneChat
<1>3. CASE NewChat
  BY <1>1, <1>3, InvAborts DEF NewChat, Reset, server, Filing, OneChat
<1>4. ASSUME NEW c \in Picks, Select(c) PROVE Inv'
  <2>1. c \in Chats /\ c # None
    BY Nobody DEF Chats, Rounds
  <2>2. sess'.id = c /\ sess'.turns = filed[c] /\ filed' = filed
    BY <1>4 DEF Select, Reset, server
  <2>3. OneChat'
    BY <2>1, <2>2 DEF OneChat
  <2>4. QED BY <1>1, <1>4, <2>1, <2>2, <2>3, InvAborts DEF Select, Reset, server
<1>5. CASE TurnClick
  <2>1. Filing' /\ OneChat'
    BY <1>1, <1>5 DEF TurnClick, chat, stream, server, control, Filing, OneChat, ChatOf
  <2>2. QED BY <1>1, <1>5, <2>1, InvAside DEF TurnClick, chat, stream, server, control
<1>6. CASE RestoreAnswer
  <2>1. /\ restoring # None /\ sess'.id = restoring /\ sess'.turns = filed[restoring]
        /\ overtaken' = (overtaken \/ sess.id \notin {None, restoring})
        /\ UNCHANGED <<round, aborted, srv, wire, filed, askedIn>>
    BY <1>6 DEF RestoreAnswer, stream, server, control
  <2>2. OneChat'
    BY <2>1 DEF OneChat
  <2>3. \A r \in Rounds : ChatOf(r)' = ChatOf(r)
    BY <2>1 DEF ChatOf
  <2>4. ASSUME round \in Rounds \ aborted, ~overtaken' PROVE ChatOf(round) = restoring
    <3>1. ~overtaken /\ sess.id \in {None, restoring}
      BY <1>1, <2>1, <2>4 DEF TypeOK
    <3>2. CASE sess.id = None
      BY <1>1, <2>1, <2>4, <3>1, <3>2 DEF Filing, ChatOf
    <3>3. CASE sess.id = restoring
      BY <1>1, <2>1, <2>4, <3>1, <3>3 DEF Filing
    <3>4. QED BY <3>1, <3>2, <3>3
  <2>5. Filing'
    BY <1>1, <2>1, <2>3, <2>4 DEF Filing
  <2>6. QED BY <1>1, <1>6, <2>1, <2>2, <2>5, InvAside DEF RestoreAnswer, stream, server, control
<1>7. CASE RestoreMissing
  <2>1. /\ restoring' = None /\ stored' = None /\ sess' = sess /\ overtaken' = overtaken
        /\ UNCHANGED <<round, aborted, srv, wire, filed, askedIn>>
    BY <1>7 DEF RestoreMissing, stream, server, control
  <2>2. \A r \in Rounds : ChatOf(r)' = ChatOf(r)
    BY <2>1 DEF ChatOf
  <2>3. Filing' /\ OneChat'
    BY <1>1, <2>1, <2>2 DEF Filing, OneChat
  <2>4. QED BY <1>1, <1>7, <2>1, <2>3, InvAside DEF RestoreMissing, page, stream, server, control
<1>8. QED BY <1>2, <1>3, <1>4, <1>5, <1>6, <1>7

LEMMA InvGenerate ==
  ASSUME Inv, NEW r \in Rounds, Generate(r)
  PROVE  Inv'
<1>1. TypeOK /\ TypeOK'
  BY TypeGenerate DEF Inv
<1>2. /\ UNCHANGED <<phase, timers, sess, stored, askedIn, restoring, overtaken, req, cut,
                     round, aborted, over>>
      /\ \A q \in Rounds : q # r => srv'[q] = srv[q] /\ wire'[q] = wire[q]
      /\ srv[r] # "none" /\ wire'[r] \in Unread(srv'[r])
      /\ r \in aborted => wire'[r] = <<>>
      /\ r \notin aborted /\ Pending(r) => Pending(r)'
      /\ \A c \in Chats : filed[c] \subseteq filed'[c]
      /\ srv'[r] = "filed" \/ Tells(wire'[r], {"result"}) => r \in filed'[ChatOf(r)]
  BY GenerateEffect DEF page, chat, control
<1>3. OneRound'
  BY <1>2 DEF Inv, OneRound
<1>4. Streams'
  BY <1>2 DEF Inv, Streams
<1>5. \A q \in Rounds : Live(q) => Live(q)'
  BY <1>2 DEF Live, Pending
<1>6. Shown'
  <2>1. Live(round) => Live(round)'
    BY <1>2, <1>5 DEF Live
  <2>2. \A q \in timers : q \in Rounds
    BY <1>1 DEF TypeOK
  <2>3. InProgress' = InProgress
    BY <1>2 DEF InProgress
  <2>4. QED BY <1>2, <1>5, <2>1, <2>2, <2>3 DEF Inv, Shown
<1>7. \A q \in Rounds : ChatOf(q)' = ChatOf(q) /\ ChatOf(q) \in Chats
  BY <1>1, <1>2, ChatType DEF ChatOf
<1>8. Filing'
  <2>1. ASSUME NEW q \in Rounds, srv'[q] = "filed" \/ Tells(wire'[q], {"result"})
        PROVE  q \in filed'[ChatOf(q)]
    <3>1. CASE q = r
      BY <1>2, <2>1, <3>1
    <3>2. CASE q # r
      BY <1>2, <1>7, <2>1, <3>2 DEF Inv, Filing
    <3>3. QED BY <3>1, <3>2
  <2>2. QED BY <1>2, <1>7, <2>1 DEF Inv, Filing
<1>9. OneChat'
  BY <1>1, <1>2 DEF Inv, OneChat, TypeOK
<1>10. QED BY <1>1, <1>3, <1>4, <1>6, <1>8, <1>9 DEF Inv

\* What a step of one request keeps of the rounds: the facts about streams are
\* of the last round alone.
LEMMA InvRequest ==
  ASSUME Inv, TypeOK', NEW r \in Rounds,
         r = round, r \notin aborted, req'[r] \in {"open", "ended"},
         UNCHANGED <<round, aborted, over, sess, stored, askedIn, restoring, overtaken, filed>>,
         \A q \in Rounds : q # r => req'[q] = req[q] /\ srv'[q] = srv[q] /\ wire'[q] = wire[q],
         wire'[r] \in Unread(srv'[r]),
         srv'[r] = "filed" \/ Tells(wire'[r], {"result"}) =>
           srv[r] = "filed" \/ Tells(wire[r], {"result"}),
         InProgress' => r \in cut' \/ Live(r)',
         \A q \in timers' : q = r /\ (r \in cut' \/ Live(r)')
  PROVE  Inv'
<1>1. OneRound'
  BY DEF Inv, OneRound
<1>2. Streams'
  BY DEF Inv, Streams
<1>3. Shown'
  BY DEF Shown, Live
<1>4. Filing'
  <2>1. \A q \in Rounds : ChatOf(q)' = ChatOf(q)
    BY DEF ChatOf
  <2>2. \A q \in Rounds : srv'[q] = "filed" \/ Tells(wire'[q], {"result"})
                            => srv[q] = "filed" \/ Tells(wire[q], {"result"})
    OBVIOUS
  <2>3. QED BY <2>1, <2>2 DEF Inv, Filing
<1>5. OneChat'
  BY DEF Inv, OneChat
<1>6. QED BY <1>1, <1>2, <1>3, <1>4, <1>5 DEF Inv

LEMMA InvRound ==
  ASSUME Inv, NEW r \in Rounds,
         Open(r) \/ Broken(r) \/ Catch(r) \/ Finish(r) \/ Suggest(r)
  PROVE  Inv'
<1>1. TypeOK /\ TypeOK' /\ OneRound /\ wire[r] \in Unread(srv[r])
  BY TypeRound DEF Inv, Streams
<1>2. ~Tells(<<>>, {"result"})
  BY DEF Tells
<1>3. CASE Open(r)
  <2>1. /\ r = round /\ r \notin aborted /\ req'[r] = "open" /\ srv'[r] = "checking"
        /\ \A q \in Rounds : q # r => req'[q] = req[q] /\ srv'[q] = srv[q]
        /\ UNCHANGED <<phase, timers, wire, cut, filed, round, aborted, over,
                       sess, stored, askedIn, restoring, overtaken>>
    BY <1>1, <1>3, ThisRound DEF Open, TypeOK, page, chat, control
  <2>2. srv[r] = "none" /\ wire[r] = <<>>
    BY <1>1, <1>3 DEF Open, Inv, Streams, Unread
  <2>3. Live(r)' /\ wire'[r] \in Unread("checking")
    BY <2>1, <2>2 DEF Live, Pending, Unread
  <2>4. \A q \in timers' : q = r
    BY <2>1 DEF Inv, Shown
  <2>5. QED BY <1>1, <1>2, <2>1, <2>2, <2>3, <2>4, InvRequest
<1>4. CASE Broken(r)
  <2>1. /\ r = round /\ r \notin aborted /\ req'[r] = "ended" /\ wire'[r] = <<>>
        /\ \A q \in Rounds : q # r => req'[q] = req[q] /\ wire'[q] = wire[q]
        /\ UNCHANGED <<srv, cut, filed, round, aborted, over,
                       sess, stored, askedIn, restoring, overtaken>>
        /\ phase' = "idle" /\ timers' = StopTimer
    BY <1>1, <1>4, ThisRound DEF Broken, Returned, TypeOK, chat, server, control
  <2>2. timers' = {} /\ ~InProgress'
    BY <2>1 DEF StopTimer, Inv, Shown, InProgress
  <2>3. wire'[r] \in Unread(srv'[r])
    BY <2>1, UnreadEmpty
  <2>4. QED BY <1>1, <1>2, <2>1, <2>2, <2>3, InvRequest
<1>5. CASE Catch(r)
  <2>1. /\ r \in aborted /\ req'[r] = "ended" /\ req[r] \in {"asked", "open"}
        /\ \A q \in Rounds : q # r => req'[q] = req[q]
        /\ UNCHANGED <<wire, srv, cut, filed, round, aborted, over,
                       sess, stored, askedIn, restoring, overtaken>>
        /\ ~InProgress' /\ timers' = StopTimer
    BY <1>1, <1>5 DEF Catch, Returned, TypeOK, chat, server, control, InProgress
  <2>2. timers' = {}
    BY <2>1 DEF StopTimer, Inv, Shown
  <2>3. OneRound' /\ Streams' /\ Shown'
    BY <1>1, <2>1, <2>2 DEF Inv, OneRound, Streams, Shown
  <2>4. Filing' /\ OneChat'
    BY <2>1 DEF Inv, Filing, OneChat, ChatOf
  <2>5. QED BY <1>1, <2>3, <2>4 DEF Inv
<1>6. CASE Finish(r)
  <2>1. /\ r = round /\ r \notin aborted /\ req'[r] = "ended"
        /\ wire[r] = <<>> /\ srv[r] = "closed" /\ req[r] = "open"
        /\ \A q \in Rounds : q # r => req'[q] = req[q]
        /\ UNCHANGED <<phase, timers, wire, srv, cut, filed, round, aborted, over,
                       sess, stored, askedIn, restoring, overtaken>>
    BY <1>1, <1>6, ThisRound DEF Finish, Returned, TypeOK, chat, server, control
  <2>2. ~Live(r)
    BY <2>1 DEF Live, Pending, Tells
  <2>3. (InProgress => r \in cut) /\ \A q \in timers : q = r /\ r \in cut
    BY <2>1, <2>2 DEF Inv, Shown
  <2>4. (InProgress' => r \in cut') /\ \A q \in timers' : q = r /\ r \in cut'
    BY <2>1, <2>3 DEF InProgress
  <2>5. QED BY <1>1, <2>1, <2>4, InvRequest
<1>7. CASE Suggest(r)
  <2>1. Filing' /\ OneChat'
    BY <1>7 DEF Inv, Suggest, chat, stream, server, control, Filing, OneChat, ChatOf
  <2>2. QED BY <1>1, <1>7, <2>1, InvAside DEF Suggest, chat, stream, server, control
<1>8. QED BY <1>3, <1>4, <1>5, <1>6, <1>7

LEMMA InvRead ==
  ASSUME Inv, NEW r \in Rounds,
         OnPass(r) \/ OnReject(r) \/ OnResult(r) \/ OnError(r) \/ Split(r)
  PROVE  Inv'
<1>1. TypeOK /\ TypeOK' /\ Readable(r) /\ wire' = [wire EXCEPT ![r] = Tail(@)]
  BY TypeRead DEF Inv, OnPass, OnReject, OnResult, OnError, Split, Took
<1>2. /\ r = round /\ r \notin aborted /\ req[r] = "open"
      /\ \A q \in Rounds : q # r => wire'[q] = wire[q]
      /\ wire'[r] \in Unread(srv[r])
      /\ \A q \in Rounds : Tells(wire'[q], {"result"}) => Tells(wire[q], {"result"})
      /\ Head(wire[r]) = "pass" => srv[r] = "passed" \/ Tells(wire'[r], Terminal)
      /\ Head(wire[r]) = "result" => Tells(wire[r], {"result"})
  BY <1>1, ReadEffect
<1>3. UNCHANGED <<req, srv, filed, round, aborted, over, askedIn, restoring, overtaken>>
  BY DEF OnPass, OnReject, OnResult, OnError, Split, Took, page, chat, server, control
<1>4. \A q \in timers : q = r
  BY <1>2 DEF Inv, Shown
<1>5. CASE OnPass(r)
  <2>1. UNCHANGED <<timers, sess, stored, cut>> /\ Head(wire[r]) = "pass"
    BY <1>5 DEF OnPass, Took
  <2>2. Live(r)'
    BY <1>2, <1>3, <2>1 DEF Live, Pending
  <2>3. QED BY <1>1, <1>2, <1>3, <1>4, <2>1, <2>2, InvRequest
<1>6. CASE OnReject(r) \/ OnError(r)
  <2>1. UNCHANGED <<sess, stored, cut>> /\ phase' = "idle" /\ timers' = StopTimer
    BY <1>6 DEF OnReject, OnError, Took
  <2>2. timers' = {} /\ ~InProgress'
    BY <1>2, <1>4, <2>1 DEF StopTimer, InProgress
  <2>3. QED BY <1>1, <1>2, <1>3, <2>1, <2>2, InvRequest
<1>7. CASE OnResult(r)
  <2>1. /\ Head(wire[r]) = "result" /\ phase' = "done" /\ timers' = StopTimer
        /\ sess'.id = ChatOf(r) /\ sess'.turns = sess.turns \cup {r} /\ stored' = ChatOf(r)
    BY <1>7 DEF OnResult, Took
  <2>2. timers' = {} /\ ~InProgress'
    BY <1>2, <1>4, <2>1 DEF StopTimer, InProgress
  <2>3. OneRound' /\ Streams' /\ Shown'
    BY <1>2, <1>3, <2>2 DEF Inv, OneRound, Streams, Shown
  <2>4. ChatOf(r) # None /\ r \in filed[ChatOf(r)]
    <3>1. ChatOf(r) # None
      BY <1>1, ChatType, Nobody
    <3>2. r \in filed[ChatOf(r)]
      BY <1>2, <2>1 DEF Inv, Filing
    <3>3. QED BY <3>1, <3>2
  <2>5. \A q \in Rounds : ChatOf(q)' = ChatOf(q)
    BY <1>3 DEF ChatOf
  <2>6. Filing'
    BY <1>2, <1>3, <2>1, <2>4, <2>5 DEF Inv, Filing
  <2>7. OneChat'
    <3>1. ASSUME ~overtaken PROVE sess.turns \subseteq filed[ChatOf(r)]
      <4>1. CASE sess.id = None
        BY <3>1, <4>1 DEF Inv, OneChat
      <4>2. CASE sess.id # None
        BY <1>2, <3>1, <4>2 DEF Inv, OneChat, Filing
      <4>3. QED BY <4>1, <4>2
    <3>2. QED BY <1>3, <2>1, <2>4, <3>1 DEF OneChat
  <2>8. QED BY <1>1, <2>3, <2>6, <2>7 DEF Inv
<1>8. CASE Split(r)
  <2>1. UNCHANGED <<timers, sess, stored>> /\ r \in cut'
    BY <1>8 DEF Split, page, chat
  <2>2. QED BY <1>1, <1>2, <1>3, <1>4, <2>1, InvRequest
<1>9. QED BY <1>5, <1>6, <1>7, <1>8

LEMMA InvStep == Inv /\ [Next]_vars => Inv'
<1> SUFFICES ASSUME Inv, [Next]_vars PROVE Inv'
  OBVIOUS
<1>1. CASE UNCHANGED vars
  <2>1. TypeOK' /\ Filing' /\ OneChat'
    BY <1>1, TypeStep DEF Inv, vars, page, chat, stream, server, control, Filing, OneChat, ChatOf
  <2>2. QED BY <1>1, <2>1, InvAside DEF vars, page, chat, stream, server, control
<1>2. CASE Submit \/ ReRun
  BY <1>2, InvStart DEF Submit, ReRun
<1>3. CASE \E r \in Rounds : RoundStep(r) \/ Split(r) \/ Suggest(r)
  BY <1>3, InvGenerate, InvRound, InvRead DEF RoundStep
<1>4. QED BY <1>1, <1>2, <1>3, InvUser DEF Next

-----------------------------------------------------------------------------
(* The theorems.                                                               *)

LEMMA InvAlways == Spec => []Inv
<1>1. QED BY InvInit, InvStep, PTL DEF Spec

\* A page that shows a running round has its request behind it and an event to
\* come that ends it, unless a read has cut one: no spinner is left behind by a
\* stop, a re-run, another chat or a late catch.
THEOREM SpinnerStaysLive == Spec => []SpinnerIsLive
<1>1. Inv => SpinnerIsLive
  BY DEF Inv, Shown, Live, Pending, Tells, SpinnerIsLive
<1>2. QED BY <1>1, InvAlways, PTL

\* No interval survives its round, however rounds replace one another.
THEOREM TimersEnd == Spec => []NoLeakedTimer
<1>1. Inv => NoLeakedTimer
  BY DEF Inv, Shown, Live, NoLeakedTimer
<1>2. QED BY <1>1, InvAlways, PTL

\* The turns listed under a chat are filed in it by the server, unless the chat
\* restored at load overtook another one.
THEOREM TurnsHaveOneChat == Spec => []OneChat
<1>1. Inv => OneChat
  BY DEF Inv
<1>2. QED BY <1>1, InvAlways, PTL

\* No single step lets a round that is over show anything.
LEMMA LateStep ==
  Inv /\ [Next]_vars =>
    \A r \in over : /\ answer' = r => answer = r
                    /\ notice' = r => notice = r
                    /\ chips' = r => chips = r
<1> SUFFICES ASSUME Inv, [Next]_vars, NEW q \in over
             PROVE  /\ answer' = q => answer = q
                    /\ notice' = q => notice = q
                    /\ chips' = q => chips = q
  OBVIOUS
<1>1. q \in aborted /\ q \in Rounds /\ q # None
  BY Nobody DEF Inv, TypeOK, OneRound
<1>2. CASE UNCHANGED vars
  BY <1>2 DEF vars, page
<1>3. CASE Submit \/ ReRun
  BY <1>1, <1>3 DEF Submit, ReRun, Start
<1>4. CASE Stop \/ NewChat \/ TurnClick \/ RestoreAnswer \/ RestoreMissing
           \/ \E c \in Picks : Select(c)
  BY <1>1, <1>4 DEF Stop, NewChat, TurnClick, RestoreAnswer, RestoreMissing, Select, Reset, page
<1>5. ASSUME NEW r \in Rounds, RoundStep(r) \/ Split(r) \/ Suggest(r)
      PROVE  /\ answer' = q => answer = q
             /\ notice' = q => notice = q
             /\ chips' = q => chips = q
  <2>1. CASE Generate(r)
    BY <2>1 DEF Generate, Serve, page
  <2>2. CASE Open(r) \/ Broken(r) \/ Catch(r) \/ Finish(r)
    BY <1>1, <2>2 DEF Open, Broken, Catch, Finish, page
  <2>3. CASE OnPass(r) \/ OnReject(r) \/ OnResult(r) \/ OnError(r) \/ Split(r)
    BY <1>1, <2>3 DEF OnPass, OnReject, OnResult, OnError, Split, Took, Readable, page
  <2>4. CASE Suggest(r)
    BY <1>1, <2>4 DEF Suggest
  <2>5. QED BY <1>5, <2>1, <2>2, <2>3, <2>4 DEF RoundStep
<1>6. QED BY <1>2, <1>3, <1>4, <1>5 DEF Next

\* A round that was stopped, replaced or left puts no answer, error or
\* suggestions on the page any more, whichever of its handlers runs late.
THEOREM NothingComesLate == Spec => NoLateAnswer
<1>1. Inv /\ [Next]_vars =>
        [\A r \in over : /\ answer' = r => answer = r
                         /\ notice' = r => notice = r
                         /\ chips' = r => chips = r]_vars
  BY LateStep
<1>2. QED BY <1>1, InvAlways, PTL DEF Spec, NoLateAnswer

=============================================================================
