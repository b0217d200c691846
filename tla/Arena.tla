-------------------------------- MODULE Arena --------------------------------
(* One visit to the Arena page (App.tsx): the rounds the user asks the panel,  *)
(* each with an AbortController, a flush timer and a stream of server-sent     *)
(* events (api.ts), the chat the answers are filed in, and what may overtake   *)
(* a round: stopping it, asking again, a new task, opening another chat, a     *)
(* turn clicked in the sidebar, and the chat restored when the page loads.     *)
(*                                                                             *)
(* A step is one turn of the page's event loop or one event the server puts    *)
(* on a stream (routes/prompt.py).  Rounds are numbered in the order they are  *)
(* asked; a chat is named by the round that opened it or is an old one.        *)
(* Tokens, previews and the private chat with one mind are left out.           *)
EXTENDS Naturals, Sequences

CONSTANTS
  MaxRounds,  \* bound: rounds asked in one visit
  OldChats,   \* chats the account already has when the page is loaded
  Remembered, \* bound: what arena_session_id may hold at first
  Picks       \* bound: the chats the user picks in the sidebar

ASSUME MaxRoundsAssumption == MaxRounds \in Nat
ASSUME OldChatsAssumption == OldChats \subseteq Nat /\ \A c \in OldChats : c > MaxRounds
ASSUME RememberedAssumption == Remembered \subseteq OldChats \cup {0}
ASSUME PicksAssumption == Picks \subseteq (1..MaxRounds) \cup OldChats

VARIABLES
  phase,      \* what the page shows of the round
  round,      \* the last round asked, that promptAbortRef points to, 0 for none
  aborted,    \* rounds whose AbortController has been aborted
  req,        \* req[r]: handleSubmit of r, waiting for a response or its stream
  srv,        \* srv[r]: event_generator of r
  wire,       \* wire[r]: events written by the server and not yet read
  timers,     \* rounds whose interval of flushStreamPreviews runs
  rerun,      \* rerunInFlightRef: the re-run round that has not returned
  prompted,   \* currentPrompt is not empty
  answer,     \* the round whose answer its stream put on the page
  notice,     \* the round whose error is on the page
  chips,      \* the round whose follow-up suggestions are on the page
  asking,     \* rounds whose follow-up suggestions are being asked for
  sess,       \* sessionData: a chat and the turns listed under it
  stored,     \* arena_session_id in localStorage
  askedIn,    \* askedIn[r]: the chat sent with r, None for a new one
  restoring,  \* the chat asked for when the page was loaded
  filed,      \* filed[c]: turns the server has added to chat c
  over,       \* history: rounds the user stopped, replaced or left
  cut,        \* history: rounds that lost an event between two reads
  overtaken   \* history: the chat restored arrived after another was opened

page == <<phase, timers, rerun, prompted, answer, notice, chips, asking>>
chat == <<sess, stored, askedIn, restoring, overtaken>>
stream == <<req, wire, cut>>
server == <<srv, filed>>
control == <<round, aborted, over>>
vars == <<page, chat, stream, server, control>>

Rounds == 1..MaxRounds
Chats == Rounds \cup OldChats
None == 0
Events == {"pass", "reject", "result", "error"}

\* The turns of an old chat are one turn with the name of the chat.
Turns == Chats
NoSession == [id |-> None, turns |-> {}]

TypeOK ==
  /\ phase \in {"idle", "pipeline", "streaming", "done"}
  /\ round \in 0..MaxRounds
  /\ aborted \subseteq Rounds
  /\ req \in [Rounds -> {"none", "asked", "open", "ended"}]
  /\ srv \in [Rounds -> {"none", "checking", "passed", "filed", "closed"}]
  /\ wire \in [Rounds -> Seq(Events)]
  /\ timers \subseteq Rounds
  /\ rerun \in Rounds \cup {None}
  /\ prompted \in BOOLEAN
  /\ answer \in Rounds \cup {None}
  /\ notice \in Rounds \cup {None}
  /\ chips \in Rounds \cup {None}
  /\ asking \subseteq Rounds
  /\ sess \in [id : Chats \cup {None}, turns : SUBSET Turns]
  /\ stored \in Chats \cup {None}
  /\ askedIn \in [Rounds -> Chats \cup {None}]
  /\ restoring \in OldChats \cup {None}
  /\ filed \in [Chats -> SUBSET Turns]
  /\ over \subseteq Rounds
  /\ cut \subseteq Rounds
  /\ overtaken \in BOOLEAN

Init ==
  /\ phase = "idle" /\ round = 0 /\ aborted = {}
  /\ req = [r \in Rounds |-> "none"]
  /\ srv = [r \in Rounds |-> "none"]
  /\ wire = [r \in Rounds |-> <<>>]
  /\ timers = {} /\ rerun = None /\ prompted = FALSE
  /\ answer = None /\ notice = None /\ chips = None /\ asking = {}
  /\ sess = NoSession
  /\ stored \in Remembered
  /\ askedIn = [r \in Rounds |-> None]
  /\ restoring = stored
  /\ filed = [c \in Chats |-> IF c \in OldChats THEN {c} ELSE {}]
  /\ over = {} /\ cut = {} /\ overtaken = FALSE

InProgress == phase \in {"pipeline", "streaming"}

\* Faulty variant: no round yet (promptAbortRef null) is aborted like any other.
AbortCurrentNull ==
  /\ aborted' = aborted \cup {round}
  /\ over' = over \cup {round}
  /\ wire' = [r \in Rounds |-> IF r = round THEN <<>> ELSE wire[r]]

\* Faulty variant: the controller is dropped without abort().
AbortCurrentForgets ==
  /\ over' = over \cup ({round} \cap Rounds)
  /\ UNCHANGED <<aborted, wire>>

\* promptAbortRef.current?.abort(): nothing more is read from the stream.
AbortCurrent ==
  /\ aborted' = aborted \cup ({round} \cap Rounds)
  /\ over' = over \cup ({round} \cap Rounds)
  /\ wire' = [r \in Rounds |-> IF r = round THEN <<>> ELSE wire[r]]

\* Faulty variant: the handle of the timer is dropped, its interval goes on.
StopTimerForgets == timers

\* clearInterval(flushTimer.current): the timer of the last round asked.
StopTimer == timers \ {round}

-----------------------------------------------------------------------------
(* The user *)

\* handleSubmit up to its request.  The chat is the one on the page, else the
\* one in localStorage.
Start(isRerun) ==
  LET r == round + 1 IN
  /\ r \in Rounds
  /\ AbortCurrent
  /\ round' = r
  /\ timers' = StopTimer \cup {r}
  /\ phase' = "pipeline"
  /\ answer' = None /\ notice' = None /\ chips' = None
  /\ prompted' = TRUE
  /\ rerun' = IF isRerun THEN r ELSE rerun
  /\ askedIn' = [askedIn EXCEPT ![r] = IF sess.id # None THEN sess.id ELSE stored]
  /\ req' = [req EXCEPT ![r] = "asked"]
  /\ UNCHANGED <<asking, sess, stored, restoring, overtaken,
                 cut, server>>

\* PromptInput and the follow-up bar are there only when no round is running.
Submit == ~InProgress /\ Start(FALSE)

\* handleReRunRound: Shift+R works at any time, but only one at a time.
ReRun == prompted /\ rerun = None /\ Start(TRUE)

\* handleStopGeneration.
Stop ==
  /\ InProgress
  /\ AbortCurrent
  /\ timers' = StopTimer
  /\ phase' = "idle"
  /\ UNCHANGED <<rerun, prompted, answer, notice, chips, asking, chat, req, cut, server, round>>

\* Faulty variant: a round that runs is not aborted when the page is reset.
ResetKeepsRound ==
  /\ timers' = StopTimer
  /\ answer' = None /\ notice' = None /\ chips' = None
  /\ over' = over \cup ({round} \cap Rounds)
  /\ UNCHANGED <<aborted, wire, rerun, asking, askedIn, restoring, req, cut, server, round>>

\* What a new task and another chat put back to nothing.
Reset ==
  /\ AbortCurrent
  /\ timers' = StopTimer
  /\ answer' = None /\ notice' = None /\ chips' = None
  /\ UNCHANGED <<rerun, asking, askedIn, restoring, req, cut, server, round>>

\* handleNewChat waits for saveMemory first, so that its reset comes any time
\* after the click.  The chat itself is kept.
NewChat ==
  /\ Reset
  /\ phase' = "idle"
  /\ prompted' = FALSE
  /\ UNCHANGED <<sess, stored, overtaken>>

\* handleSessionSelect: the turns of a chat picked in the sidebar arrive, any
\* time after the click.  When the server has lost the chat nothing changes.
Select(c) ==
  /\ filed[c] # {}
  /\ Reset
  /\ sess' = [id |-> c, turns |-> filed[c]]
  /\ stored' = c
  /\ phase' = "done"
  /\ prompted' = TRUE
  /\ UNCHANGED overtaken

\* handleTurnClick: loadTurn of a turn in the sidebar.
TurnClick ==
  /\ sess.turns # {}
  /\ phase' = "done"
  /\ answer' = None
  /\ prompted' = TRUE
  /\ UNCHANGED <<timers, rerun, notice, chips, asking, chat, stream, server, control>>

-----------------------------------------------------------------------------
(* The chat restored when the page is loaded *)

RestoreAnswer ==
  /\ restoring # None
  /\ restoring' = None
  /\ sess' = [id |-> restoring, turns |-> filed[restoring]]
  /\ overtaken' = (overtaken \/ sess.id \notin {None, restoring})
  /\ phase' = "done"
  /\ answer' = None
  /\ prompted' = TRUE
  /\ UNCHANGED <<timers, rerun, notice, chips, asking, stored, askedIn,
                 stream, server, control>>

RestoreMissing ==
  /\ restoring # None
  /\ restoring' = None
  /\ stored' = None
  /\ UNCHANGED <<page, sess, askedIn, overtaken,
                 stream, server, control>>

-----------------------------------------------------------------------------
(* The server, event_generator *)

ChatOf(r) == IF askedIn[r] = None THEN r ELSE askedIn[r]

\* One turn of the generator: its next stage and the events it writes, which
\* nobody reads any more once the round is aborted.
Serve(r, stage, events) ==
  /\ srv' = [srv EXCEPT ![r] = stage]
  /\ wire' = [wire EXCEPT ![r] = IF r \in aborted THEN <<>> ELSE @ \o events]
  /\ UNCHANGED <<page, chat, req, cut, control>>

Generate(r) ==
  \/ /\ srv[r] = "checking"
     /\ \/ Serve(r, "passed", <<"pass">>)
        \/ Serve(r, "closed", <<"reject", "error">>)
     /\ UNCHANGED filed
  \/ /\ srv[r] \in {"checking", "passed", "filed"}
     /\ Serve(r, "closed", <<"error">>)
     /\ UNCHANGED filed
  \/ /\ srv[r] = "passed"
     /\ Serve(r, "filed", <<"result">>)
     /\ filed' = [filed EXCEPT ![ChatOf(r)] = @ \cup {r}]
  \/ /\ srv[r] = "filed" \/ (r \in aborted /\ srv[r] \in {"checking", "passed"})
     /\ Serve(r, "closed", <<>>)
     /\ UNCHANGED filed

-----------------------------------------------------------------------------
(* The stream of a round, as handleSubmit sees it *)

Returned(r) ==
  /\ req' = [req EXCEPT ![r] = "ended"]
  /\ rerun' = IF rerun = r THEN None ELSE rerun

\* The response has arrived; its body is the stream.
Open(r) ==
  /\ req[r] = "asked" /\ r \notin aborted
  /\ req' = [req EXCEPT ![r] = "open"]
  /\ srv' = [srv EXCEPT ![r] = "checking"]
  /\ UNCHANGED <<page, chat, wire, cut, filed, control>>

\* Faulty variant: the catch shows the error and leaves the phase.
BrokenSpins(r) ==
  /\ req[r] \in {"asked", "open"} /\ r \notin aborted
  /\ Returned(r)
  /\ wire' = [wire EXCEPT ![r] = <<>>]
  /\ timers' = StopTimer
  /\ notice' = r
  /\ UNCHANGED <<phase, prompted, answer, chips, asking, chat, cut, server, control>>

\* The request is refused or the connection is lost: the catch of a round that
\* is not aborted.
Broken(r) ==
  /\ req[r] \in {"asked", "open"} /\ r \notin aborted
  /\ Returned(r)
  /\ wire' = [wire EXCEPT ![r] = <<>>]
  /\ timers' = StopTimer
  /\ notice' = r
  /\ phase' = "idle"
  /\ UNCHANGED <<prompted, answer, chips, asking, chat, cut, server, control>>

\* The catch of an aborted round clears the timer and the phase of the page,
\* whichever round they belong to by now.  It runs after the handler that
\* aborted it or, for a request that waited for new tokens, any time later.
Catch(r) ==
  /\ req[r] \in {"asked", "open"} /\ r \in aborted
  /\ Returned(r)
  /\ timers' = StopTimer
  /\ phase' = IF InProgress THEN "idle" ELSE phase
  /\ UNCHANGED <<prompted, answer, notice, chips, asking, chat, wire, cut, server, control>>

Readable(r) == req[r] = "open" /\ r \notin aborted /\ wire[r] # <<>>

\* consumeSseStream gives an event to the callback handleSubmit has for it.
Took(r, event) ==
  /\ Readable(r) /\ Head(wire[r]) = event
  /\ wire' = [wire EXCEPT ![r] = Tail(@)]
  /\ UNCHANGED <<rerun, prompted, askedIn, restoring, overtaken,
                 req, cut, server, control>>

OnPass(r) ==
  /\ Took(r, "pass")
  /\ phase' = "streaming"
  /\ UNCHANGED <<timers, answer, notice, chips, asking, sess, stored>>

OnReject(r) ==
  /\ Took(r, "reject")
  /\ timers' = StopTimer
  /\ notice' = r
  /\ phase' = "idle"
  /\ UNCHANGED <<answer, chips, asking, sess, stored>>

OnResult(r) ==
  /\ Took(r, "result")
  /\ timers' = StopTimer
  /\ answer' = r
  /\ phase' = "done"
  /\ stored' = ChatOf(r)
  /\ asking' = asking \cup {r}
  /\ sess' = [id |-> ChatOf(r), turns |-> sess.turns \cup {r}]
  /\ UNCHANGED <<notice, chips>>

\* Faulty variant: an error after the verdict leaves the phase.
OnErrorSpins(r) ==
  /\ Took(r, "error")
  /\ timers' = StopTimer
  /\ chips' = None
  /\ notice' = r
  /\ UNCHANGED <<phase, answer, asking, sess, stored>>

OnError(r) ==
  /\ Took(r, "error")
  /\ timers' = StopTimer
  /\ chips' = None
  /\ notice' = r
  /\ phase' = "idle"
  /\ UNCHANGED <<answer, asking, sess, stored>>

\* parseSseBuffer forgets the name of an event when the read that brought it
\* ends before its data: the event is lost.
Split(r) ==
  /\ Readable(r)
  /\ wire' = [wire EXCEPT ![r] = Tail(@)]
  /\ cut' = cut \cup {r}
  /\ UNCHANGED <<page, chat, req, server, control>>

\* The stream ends; handleSubmit returns and leaves the phase as it is.
Finish(r) ==
  /\ req[r] = "open" /\ r \notin aborted /\ wire[r] = <<>> /\ srv[r] = "closed"
  /\ Returned(r)
  /\ UNCHANGED <<phase, timers, prompted, answer, notice, chips, asking, chat, wire, cut,
                 server, control>>

\* suggestFollowUps answers, with suggestions or without.
Suggest(r) ==
  /\ r \in asking
  /\ asking' = asking \ {r}
  /\ chips' \in IF r \in aborted THEN {chips} ELSE {r, None}
  /\ UNCHANGED <<phase, timers, rerun, prompted, answer, notice, chat, stream, server, control>>

-----------------------------------------------------------------------------

RoundStep(r) ==
  \/ Generate(r) \/ Open(r) \/ Broken(r) \/ Catch(r)
  \/ OnPass(r) \/ OnReject(r) \/ OnResult(r) \/ OnError(r) \/ Finish(r)

Next ==
  \/ Submit \/ ReRun \/ Stop \/ NewChat \/ TurnClick
  \/ RestoreAnswer \/ RestoreMissing
  \/ \E c \in Picks : Select(c)
  \/ \E r \in Rounds : RoundStep(r) \/ Split(r) \/ Suggest(r)

Spec == Init /\ [][Next]_vars

\* The server ends every stream and the browser reads what arrives or notices
\* that the connection is lost.
Fairness == \A r \in Rounds : WF_vars(RoundStep(r))

FairSpec == Spec /\ Fairness

-----------------------------------------------------------------------------

Terminal == {"reject", "result", "error"}

\* A page that shows a running round has the request of the last round behind
\* it, with an event to come that ends the round, unless a read has cut one.
SpinnerIsLive ==
  InProgress =>
    \/ round \in cut
    \/ /\ round \in Rounds \ aborted
       /\ \/ req[round] = "asked"
          \/ /\ req[round] = "open"
             /\ \/ srv[round] \in {"checking", "passed"}
                \/ \E i \in DOMAIN wire[round] : wire[round][i] \in Terminal

\* An interval that redraws previews belongs to the last round, which has not
\* been stopped and whose stream has not ended: none survives its round.
NoLeakedTimer ==
  \A r \in timers :
    /\ r = round
    /\ r \notin aborted
    /\ r \in cut \/ req[r] \in {"asked", "open"}

\* The turns listed under a chat have been filed in it by the server, so that a
\* turn is never opened with the id of another chat, unless the chat restored
\* at load arrived after the user had opened another one.
OneChat ==
  overtaken \/ (IF sess.id = None THEN sess.turns = {} ELSE sess.turns \subseteq filed[sess.id])

\* The same without the exception: what the comment of loadTurn says.
OwnChat == sess.id # None => sess.turns \subseteq filed[sess.id]

\* A round that was stopped, replaced or left puts nothing on the page any more:
\* no answer, no error and no suggestions.
NoLateAnswer ==
  [][\A r \in over :
       /\ answer' = r => answer = r
       /\ notice' = r => notice = r
       /\ chips' = r => chips = r]_vars

\* A round that is shown as running comes to its end.
RoundEnds == \A r \in Rounds : (round = r /\ InProgress) ~> (~InProgress \/ round # r \/ r \in cut)

\* The same for every way the network may cut the stream into reads.
NoEternalShimmer == (InProgress) ~> ~(InProgress)

\* While a round streams, the previews of its cards are redrawn.
PreviewsWhileStreaming == phase = "streaming" => round \in timers

==============================================================================
