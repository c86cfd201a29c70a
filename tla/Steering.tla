------------------------------ MODULE Steering ------------------------------
(***************************************************************************)
(* The browser channel's inputs and the turn they meet.  A consultant's     *)
(* message is captured by the bridge (runtime/browser.ts, submit) and wakes  *)
(* listenBrowserInputs.  The loop releases a message as a turn of its own,   *)
(* and while the turn runs it steers later messages of the conversation into *)
(* it: a durable intent, a request to the app-server, an outcome that may    *)
(* never come.  A message whose outcome is not known is `uncertain`, is      *)
(* never handed over again and holds its conversation.                       *)
(***************************************************************************)
EXTENDS Naturals, FiniteSets

CONSTANTS Inputs,     \* the messages consultants submit
          Messages,   \* those of input_kind "message"; only these are steered
          Room,       \* Inputs -> conversation
          MaxMishaps  \* bound: kills, losses and failures together

None == "none"

\* The words for no input and for the look at a reply are no input's identifier.
ASSUME InputsAssumption == None \notin Inputs /\ "judge" \notin Inputs

VARIABLES
  recs,      \* the record of an input, once it is captured
  answers,   \* release -> the reply written under it: whom it names, its delivery
  turn,      \* takeTurn's own state: browserActive and how far it has come
  steer,     \* the request deliverBrowserInputs is in the middle of
  waiting,   \* browserPending
  native,    \* the app-server's turn
  stretch,   \* the write the process has yet to make in the same callback
  life,      \* the process: "up", "down" or "latched"
  heard,     \* how often the model was handed an input
  torn,      \* inputs whose delivery a kill cut before the reply was looked at
  mishaps
vars == <<recs, answers, turn, steer, waiting, native, stretch, life, heard, torn, mishaps>>

NoRecord == [seen |-> FALSE, rel |-> None, done |-> FALSE, phase |-> None, effect |-> None]
NoTurn   == [of |-> None, at |-> None, again |-> FALSE, ended |-> FALSE]
NoSteer  == [at |-> "idle", input |-> None, answer |-> None]
NoNative == [of |-> None, status |-> None]

TypeOK ==
  /\ \A i \in Inputs : recs[i].rel \in Inputs \cup {None}
  /\ turn.at \in {None, "preparing", "starting", "running"}
  /\ steer.at \in {"idle", "sent", "looping"}
  /\ life \in {"up", "down", "latched"}

Init ==
  /\ recs = [i \in Inputs |-> NoRecord]
  /\ answers = [i \in Inputs |-> [names |-> {}, status |-> None]]
  /\ turn = NoTurn /\ steer = NoSteer /\ native = NoNative
  /\ waiting = {} /\ stretch = None /\ life = "up"
  /\ heard = [i \in Inputs |-> 0] /\ torn = {} /\ mishaps = 0

Able == life = "up" /\ stretch = None
Mishap == mishaps < MaxMishaps /\ mishaps' = mishaps + 1

Written(r) == answers[r].status # None
Under(r)   == {i \in Inputs : recs[i].rel = r}
\* releasePass holds a conversation that has one open input of unknown effect.
Held(c) == \E i \in Inputs : /\ Room[i] = c /\ recs[i].effect = "uncertain" /\ ~recs[i].done

Set(S, f(_)) == [i \in Inputs |-> IF i \in S THEN f(recs[i]) ELSE recs[i]]
Uncertain(r) == [r EXCEPT !.phase = "uncertain", !.effect = "uncertain"]
Completed(r) == [r EXCEPT !.done = TRUE, !.effect = "completed"]
\* noteBrowserEffect passes over an input whose delivery is unknown.
Effected(r)  == IF r.phase = "uncertain" THEN r ELSE [r EXCEPT !.effect = "started"]
Doubted(r)   == [r EXCEPT !.effect = "uncertain"]

(* ---- capture ---------------------------------------------------------- *)

\* submit, and the listener that puts a plain message among the pending.
Submit(i) ==
  /\ Able /\ ~recs[i].seen
  /\ recs' = [recs EXCEPT ![i].seen = TRUE]
  /\ waiting' = IF i \in Messages THEN waiting \cup {i} ELSE waiting
  /\ UNCHANGED <<answers, turn, steer, native, stretch, life, heard, torn, mishaps>>

(* ---- the turn --------------------------------------------------------- *)

Releasable(i) == recs[i].seen /\ recs[i].rel = None /\ recs[i].phase # "uncertain" /\ ~Held(Room[i])

\* A browser group is one message: its release is written before the turn.
Begin(i) ==
  /\ Able /\ turn = NoTurn /\ Releasable(i)
  /\ recs' = [recs EXCEPT ![i].rel = i]
  /\ turn' = [NoTurn EXCEPT !.of = i, !.at = "preparing"]
  /\ UNCHANGED <<answers, steer, waiting, native, stretch, life, heard, torn, mishaps>>

\* The ticket reader failed: the release is closed, and the fault parks the
\* message or, when it is not the runtime's own, ends the process.
PrepareFails ==
  /\ Able /\ turn.at = "preparing" /\ Mishap
  /\ recs' = Set(Under(turn.of), Completed)
  /\ turn' = NoTurn
  /\ \/ life' = "up" /\ UNCHANGED waiting
     \/ life' = "down" /\ waiting' = {}
  /\ UNCHANGED <<answers, steer, native, stretch, heard, torn>>

Prepare ==
  /\ Able /\ turn.at = "preparing"
  /\ recs' = Set(Under(turn.of), Effected)
  /\ turn' = [turn EXCEPT !.at = "starting"]
  /\ native' = NoNative
  /\ UNCHANGED <<answers, steer, waiting, stretch, life, heard, torn, mishaps>>

\* The app-server takes turn/start; a follow-up asks again for the same input.
NativeStarts ==
  /\ turn.at = "starting" /\ native = NoNative
  /\ native' = [of |-> turn.of, status |-> "running"]
  /\ heard' = IF turn.again THEN heard ELSE [heard EXCEPT ![turn.of] = @ + 1]
  /\ UNCHANGED <<recs, answers, turn, steer, waiting, stretch, life, torn, mishaps>>

\* onStarted: the native turn is known and what waits may be steered into it.
Started ==
  /\ Able /\ turn.at = "starting" /\ native # NoNative
  /\ turn' = [turn EXCEPT !.at = "running"]
  /\ recs' = Set(Under(turn.of), Effected)
  /\ waiting' = waiting \cup {i \in Messages : /\ recs[i].seen /\ recs[i].rel = None
                                               /\ Room[i] = Room[turn.of]}
  /\ UNCHANGED <<answers, steer, native, stretch, life, heard, torn, mishaps>>

\* turn/start or the wait for its end failed: whether the model was asked is not known.
TurnFails ==
  /\ Able /\ turn.at \in {"starting", "running"} /\ steer.at = "idle" /\ Mishap
  /\ recs' = Set(Under(turn.of), Doubted)
  /\ turn' = NoTurn /\ native' = NoNative /\ waiting' = {}
  /\ life' = "down"
  /\ UNCHANGED <<answers, steer, stretch, heard, torn>>

\* The model calls the reply tool: the reply names every input of the release.
Reply ==
  /\ Able /\ native.status = "running" /\ turn.of = native.of /\ ~Written(turn.of)
  /\ answers' = [answers EXCEPT ![turn.of] = [names |-> Under(turn.of), status |-> "pending"]]
  /\ UNCHANGED <<recs, turn, steer, waiting, native, stretch, life, heard, torn, mishaps>>

NativeEnds(s) ==
  /\ native.status = "running"
  /\ native' = [native EXCEPT !.status = s]
  /\ UNCHANGED <<recs, answers, turn, steer, waiting, stretch, life, heard, torn, mishaps>>

\* acceptBrowserEvent: turn.completed ends the active turn at once.
EndSeen ==
  /\ Able /\ turn.at = "running" /\ ~turn.ended
  /\ native.status \notin {None, "running"}
  /\ turn' = [turn EXCEPT !.ended = TRUE]
  /\ UNCHANGED <<recs, answers, steer, waiting, native, stretch, life, heard, torn, mishaps>>

\* What becomes of an input when its release is settled.
Closing(r, ending) ==
  [i \in Inputs |->
    IF recs[i].rel # r \/ recs[i].phase = "uncertain" THEN recs[i]
    ELSE IF Written(r) /\ i \notin answers[r].names THEN Uncertain(recs[i])
    ELSE [Completed(recs[i]) EXCEPT !.phase = ending]]

\* The turn is over and the delivery chain has been waited for.
Returned == Able /\ turn.at = "running" /\ turn.ended /\ steer.at = "idle"

ReturnsFailed ==
  /\ Returned /\ ~turn.again /\ native.status = "failed"
  /\ recs' = Set(Under(turn.of), Completed)
  /\ turn' = NoTurn /\ life' = "latched"
  /\ UNCHANGED <<answers, steer, waiting, native, stretch, heard, torn, mishaps>>

ReturnsInterrupted ==
  /\ Returned /\ ~turn.again /\ native.status = "interrupted"
  /\ recs' = Set(Under(turn.of), Doubted)
  /\ turn' = NoTurn
  /\ UNCHANGED <<answers, steer, waiting, native, stretch, life, heard, torn, mishaps>>

\* ensureReply: a turn that said nothing to the consultant is asked once more.
AsksAgain ==
  /\ Returned /\ ~turn.again /\ native.status = "completed" /\ ~Written(turn.of)
  /\ turn' = [turn EXCEPT !.at = "preparing", !.again = TRUE, !.ended = FALSE]
  /\ UNCHANGED <<recs, answers, steer, waiting, native, stretch, life, heard, torn, mishaps>>

\* The follow-up's own status is not read: it closes the release however it ended.
Closes ==
  /\ Returned
  /\ turn.again \/ (native.status = "completed" /\ Written(turn.of))
  /\ \E ending \in IF Written(turn.of) THEN {"completed"} ELSE {"completed", "failed"} :
       recs' = Closing(turn.of, ending)
  /\ turn' = NoTurn
  /\ UNCHANGED <<answers, steer, waiting, native, stretch, life, heard, torn, mishaps>>

(* ---- steering --------------------------------------------------------- *)

\* The next pending input of the turn's conversation.  The loop goes on through
\* what is pending after an await even if the turn has ended meanwhile.
Pending(i) ==
  /\ Able /\ turn.at = "running" /\ i \in waiting /\ Room[i] = Room[turn.of]
  /\ steer.at = "looping" \/ (steer.at = "idle" /\ ~turn.ended)

After(pending) == IF \E i \in pending : Room[i] = Room[turn.of] THEN "looping" ELSE "idle"

Skip(i) ==
  /\ Pending(i)
  /\ recs[i].rel # None \/ recs[i].phase = "uncertain"
  /\ waiting' = waiting \ {i}
  /\ steer' = [NoSteer EXCEPT !.at = After(waiting \ {i})]
  /\ UNCHANGED <<recs, answers, turn, native, stretch, life, heard, torn, mishaps>>

Due(i) == Pending(i) /\ recs[i].rel = None /\ recs[i].phase # "uncertain"

\* The intent is written first, and only then is it seen whether it is too late.
TooLate(i) ==
  /\ Due(i) /\ (turn.ended \/ Written(turn.of))
  /\ recs' = [recs EXCEPT ![i].phase = "next_turn"]
  /\ waiting' = waiting \ {i}
  /\ steer' = [NoSteer EXCEPT !.at = After(waiting \ {i})]
  /\ UNCHANGED <<answers, turn, native, stretch, life, heard, torn, mishaps>>

Dispatch(i) ==
  /\ Due(i) /\ ~turn.ended /\ ~Written(turn.of)
  /\ recs' = [recs EXCEPT ![i].phase = "dispatching"]
  /\ waiting' = waiting \ {i}
  /\ steer' = [at |-> "sent", input |-> i, answer |-> None]
  /\ UNCHANGED <<answers, turn, native, stretch, life, heard, torn, mishaps>>

\* Its attachments cannot be materialised: the chain's catch logs it and the loop is over.
Unready(i) ==
  /\ Due(i) /\ Mishap
  /\ recs' = [recs EXCEPT ![i].phase = "dispatching"]
  /\ waiting' = waiting \ {i} /\ steer' = NoSteer
  /\ UNCHANGED <<answers, turn, native, stretch, life, heard, torn>>

\* The app-server takes turn/steer, or refuses it when the turn is over.
NativeSteered ==
  /\ steer.at = "sent" /\ steer.answer = None
  /\ IF native.status = "running"
     THEN /\ heard' = [heard EXCEPT ![steer.input] = @ + 1]
          /\ steer' = [steer EXCEPT !.answer = "accepted"]
     ELSE steer' = [steer EXCEPT !.answer = "rejected"] /\ UNCHANGED heard
  /\ UNCHANGED <<recs, answers, turn, waiting, native, stretch, life, torn, mishaps>>

\* Its answer is lost, or is another error: nothing is known from it.
NativeSilent ==
  /\ steer.at = "sent" /\ steer.answer # "lost" /\ Mishap
  /\ steer' = [steer EXCEPT !.answer = "lost"]
  /\ UNCHANGED <<recs, answers, turn, waiting, native, stretch, life, heard, torn>>

Settled == steer' = [NoSteer EXCEPT !.at = After(waiting)]

\* The acknowledgement: released under the turn and marked delivered ...
Acknowledged ==
  /\ Able /\ steer.answer = "accepted"
  /\ recs' = [recs EXCEPT ![steer.input].rel = turn.of, ![steer.input].phase = "delivered"]
  /\ stretch' = "judge"
  /\ UNCHANGED <<answers, turn, steer, waiting, native, life, heard, torn, mishaps>>

\* ... and then held against a reply written while the request was away.
Excluded(i) == Written(turn.of) /\ i \notin answers[turn.of].names
Judge ==
  /\ life = "up" /\ stretch = "judge"
  /\ recs' = IF Excluded(steer.input) THEN Set({steer.input}, Uncertain)
             ELSE Set(Under(turn.of), Effected)
  /\ Settled /\ stretch' = None
  /\ UNCHANGED <<answers, turn, waiting, native, life, heard, torn, mishaps>>

\* classifySteerFailure: only a refusal together with the turn's known end,
\* from the event stream or from thread/read, proves that nothing was delivered.
ProvedByEnd(read) == turn.ended \/ read    \* a slip: the turn's end alone is taken for it
Proved(read) == steer.answer = "rejected" /\ (turn.ended \/ read)

Refused ==
  /\ Able /\ steer.answer \in {"rejected", "lost"}
  /\ \E read \in BOOLEAN :
       recs' = IF Proved(read) THEN [recs EXCEPT ![steer.input].phase = "next_turn"]
               ELSE [recs EXCEPT ![steer.input] = [Uncertain(@) EXCEPT !.rel = turn.of]]
  /\ Settled
  /\ UNCHANGED <<answers, turn, waiting, native, stretch, life, heard, torn, mishaps>>

(* ---- delivery and restart --------------------------------------------- *)

Answered(r) == {i \in Under(r) : ~recs[i].done /\ recs[i].phase # "uncertain"}

\* deliver: a browser reply is sent by being readable, and its inputs are closed.
Send(r) ==
  /\ Able /\ turn = NoTurn /\ answers[r].status = "pending"
  /\ answers' = [answers EXCEPT ![r].status = "sent"]
  /\ stretch' = r
  /\ UNCHANGED <<recs, turn, steer, waiting, native, life, heard, torn, mishaps>>

CloseAnswered ==
  /\ life = "up" /\ stretch \in Inputs
  /\ recs' = Set(Answered(stretch), Completed)
  /\ stretch' = None
  /\ UNCHANGED <<answers, turn, steer, waiting, native, life, heard, torn, mishaps>>

Kill ==
  /\ life = "up" /\ Mishap
  /\ life' = "down"
  /\ torn' = IF stretch = "judge" /\ Excluded(steer.input) THEN torn \cup {steer.input} ELSE torn
  /\ turn' = NoTurn /\ steer' = NoSteer /\ native' = NoNative
  /\ waiting' = {} /\ stretch' = None
  /\ UNCHANGED <<recs, answers, heard>>

\* recover: an intent whose outcome is unknown, then each release left open.
Recovered(i) ==
  LET r == IF recs[i].phase = "dispatching" THEN Uncertain(recs[i]) ELSE recs[i]
  IN  IF r.rel = None \/ r.done THEN r
      ELSE IF answers[r.rel].status = "sent"
           THEN IF r.phase = "uncertain" THEN r ELSE Completed(r)
      ELSE IF answers[r.rel].status = None THEN Doubted(r)
      ELSE r

Recover ==
  /\ life = "down" /\ life' = "up"
  /\ recs' = [i \in Inputs |-> Recovered(i)]
  /\ UNCHANGED <<answers, turn, steer, waiting, native, stretch, heard, torn, mishaps>>

(* ---- the specification ------------------------------------------------ *)

Turning == \/ Prepare \/ PrepareFails \/ Started \/ TurnFails \/ Reply \/ EndSeen
           \/ ReturnsFailed \/ ReturnsInterrupted \/ AsksAgain \/ Closes
Steers  == \/ \E i \in Inputs : Skip(i) \/ TooLate(i) \/ Dispatch(i) \/ Unready(i)
           \/ Acknowledged \/ Judge \/ Refused
Server  == \/ NativeStarts \/ NativeSteered \/ NativeSilent
           \/ \E s \in {"completed", "failed", "interrupted"} : NativeEnds(s)
Next == \/ \E i \in Inputs : Submit(i) \/ Begin(i) \/ Send(i)
        \/ Turning \/ Steers \/ Server \/ CloseAnswered \/ Kill \/ Recover

\* The loop runs its passes and answers its callbacks; the app-server answers
\* what it is asked and ends its turn; the supervisor restarts the process.
Moves == \/ \E i \in Inputs : Begin(i) \/ Send(i) \/ Skip(i) \/ TooLate(i) \/ Dispatch(i)
         \/ Prepare \/ NativeStarts \/ Started \/ EndSeen \/ NativeSteered
         \/ ReturnsFailed \/ ReturnsInterrupted \/ AsksAgain \/ Closes
         \/ Acknowledged \/ Judge \/ Refused \/ CloseAnswered \/ Recover
         \/ \E s \in {"completed", "failed", "interrupted"} : NativeEnds(s)
Fairness == WF_vars(Moves)
Spec == Init /\ [][Next]_vars /\ Fairness

(* ---- properties ------------------------------------------------------- *)

\* The model is handed an input once: steered into a running turn or as a turn
\* of its own, and never the second after a first of unknown outcome, whatever
\* request is refused, answer lost or process killed between the two.
HeardOnce == \A i \in Inputs : heard[i] <= 1

\* An input closed under a written reply is one the reply names.  The loop looks
\* at the reply after the acknowledgement and again when the turn ends; a kill
\* between the acknowledgement and the look is the exception (torn).
NamedWhenAnswered ==
  life # "latched" =>
    \A i \in Inputs \ torn :
      recs[i].done /\ recs[i].rel # None /\ Written(recs[i].rel)
        => i \in answers[recs[i].rel].names

\* Every captured input is closed in the end, or its conversation is held by an
\* input of unknown effect, or the account is latched.
InputsSettle ==
  \A i \in Inputs : recs[i].seen ~> recs[i].done \/ Held(Room[i]) \/ life = "latched"

\* An input reaches the model once and the reply that closes it is its own.
InputsAreHeard == TypeOK /\ HeardOnce /\ NamedWhenAnswered
=============================================================================
