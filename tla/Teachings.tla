----------------------------- MODULE Teachings -----------------------------
(***************************************************************************)
(* What a client taught the agent (stream/teachings.ts), the three tools     *)
(* that write it (runtime/teach-tool.ts) and the check that reads it before  *)
(* a reply of the management conversation goes out (ensureTeachCheck).  One  *)
(* file is one record, named by the message that taught it and a second.     *)
(* Turns are killed and taken again, calls outlive the turn that made them,  *)
(* and a file may be damaged and mended by hand.                             *)
(***************************************************************************)
EXTENDS Naturals, FiniteSets

CONSTANTS Managed,    \* messages of the management conversation
          Elsewhere,  \* messages of other conversations
          Texts,      \* what may be recorded
          MaxActive,  \* the declaration's teaching.max_active
          MaxSecond,  \* bound: seconds that pass
          MaxCalls,   \* bound: tool calls the model makes
          MaxMishaps  \* bound: kills, interrupted turns and damaged files

Sources == Managed \cup Elsewhere
None == "none"
Ids == Managed \X (0 .. MaxSecond + MaxCalls)

VARIABLES
  files,     \* id -> the record on disk, for the ids in use
  torn,      \* ids of the files that cannot be read
  second,    \* the clock
  current,   \* the release the server was told, the one a turn is taken under
  asking,    \* what that turn is for: "answer" or "teach"
  call,      \* the call on its way to the server
  made,      \* calls made
  reply,     \* release -> "absent", "held", "let go" or "parked"
  closed,    \* releases that are over
  left,      \* releases interrupted: open until the next start
  wrote,     \* ghost: id -> the release whose turn made the call that wrote it
  plain,     \* ghost: releases whose follow-up answered NOTHING_TAUGHT
  mended, strayed, mishaps
vars == <<files, torn, second, current, asking, call, made, reply, closed, left,
          wrote, plain, mended, strayed, mishaps>>
turnVars == <<current, asking, reply, closed, left, plain>>

NoCall == [from |-> None, op |-> None, source |-> None, text |-> None, id |-> None]

Init ==
  /\ files = <<>> /\ torn = {} /\ second = 0
  /\ current = None /\ asking = "answer" /\ call = NoCall /\ made = 0
  /\ reply = [r \in Managed |-> "absent"] /\ closed = {} /\ left = {}
  /\ wrote = <<>> /\ plain = {} /\ mended = FALSE /\ strayed = {} /\ mishaps = 0

TypeOK ==
  /\ DOMAIN files \subseteq Ids /\ torn \subseteq DOMAIN files
  /\ current \in Managed \cup {None} /\ asking \in {"answer", "teach"}
  /\ reply \in [Managed -> {"absent", "held", "let go", "parked"}]

(* ---- the record set --------------------------------------------------- *)

Readable == DOMAIN files \ torn
Of(kind, status) == {i \in Readable : files[i].kind = kind /\ files[i].status = status}
Active == Of("instruction", "active")

Same(among, s, t) == {i \in among : i[1] = s /\ files[i].text = t}

\* slip: an id is taken as it is derived.
Derived(s) == <<s, second>>
\* The next free second: a file that cannot be read keeps its name.
FreeId(s) ==
  <<s, CHOOSE n \in second .. MaxSecond + MaxCalls :
         /\ <<s, n>> \notin DOMAIN files
         /\ \A k \in second .. n - 1 : <<s, k>> \in DOMAIN files>>

UnderRelease(r) == {i \in Readable : files[i].release = r}

\* A name that is new gets its record; none is written over.
With(f, i, record) == [j \in DOMAIN f \cup {i} |-> IF j = i THEN record ELSE f[j]]

\* base and writeTeaching: the release is the one the server knows on arrival.
Record(kind, status) ==
  LET i == FreeId(call.source) IN
  /\ files' = With(files, i, [kind |-> kind, status |-> status, text |-> call.text,
                              release |-> current])
  /\ wrote' = With(wrote, i, call.from)
  /\ strayed' = IF current = call.from THEN strayed ELSE strayed \cup {i}

Nothing == UNCHANGED <<files, wrote, strayed>>

\* citedCapture after the room check: an inbound message of that conversation.
Cited == call.source \in Managed

Remember ==
  /\ call.op = "remember"
  /\ LET same == Same(Active, call.source, call.text)
         full == same = {} /\ Cardinality(Active) >= MaxActive IN
     \/ (~Cited \/ full \/ same # {}) /\ Nothing
     \/ Cited /\ ~full /\ same = {} /\ Record("instruction", "active")

RaiseChange ==
  /\ call.op = "raise_change"
  /\ LET same == Same(Of("change-request", "open"), call.source, call.text) IN
     \/ (~Cited \/ same # {}) /\ Nothing
     \/ Cited /\ same = {} /\ Record("change-request", "open")

Forget ==
  /\ call.op = "forget"
  /\ \/ ~(Cited /\ call.id \in Active) /\ Nothing
     \/ /\ Cited /\ call.id \in Active
        /\ files' = [files EXCEPT ![call.id].status = "forgotten"]
        /\ UNCHANGED <<wrote, strayed>>

\* A call arrives: its handler runs to its end.
Land ==
  /\ call # NoCall
  /\ Remember \/ RaiseChange \/ Forget
  /\ call' = NoCall
  /\ UNCHANGED <<turnVars, torn, second, made, mended, mishaps>>

(* ---- the turn --------------------------------------------------------- *)

Untold == current' = None

\* A turn of the management conversation is taken, or taken again after a death.
Begin(r) ==
  /\ current = None /\ r \notin closed \cup left
  /\ current' = r /\ asking' = "answer"
  /\ UNCHANGED <<files, torn, second, call, made, reply, closed, left, wrote,
                 plain, mended, strayed, mishaps>>

Calls(r) ==
  [from : {r}, op : {"remember", "raise_change"}, source : Sources, text : Texts, id : {None}]
  \cup [from : {r}, op : {"forget"}, source : Sources, text : {None}, id : DOMAIN files]

ModelCalls ==
  /\ current # None /\ call = NoCall /\ made < MaxCalls
  /\ call' \in Calls(current) /\ made' = made + 1
  /\ UNCHANGED <<turnVars, files, torn, second, wrote, mended, strayed, mishaps>>

\* The reply tool: a reply of the management conversation is written held.
ModelReplies ==
  /\ current # None /\ asking = "answer" /\ reply[current] = "absent"
  /\ reply' = [reply EXCEPT ![current] = "held"]
  /\ UNCHANGED <<files, torn, second, current, asking, call, made, closed, left, wrote,
                 plain, mended, strayed, mishaps>>

LetGo == reply' = [reply EXCEPT ![current] = "let go"]
Over == closed' = closed \cup {current} /\ Untold /\ asking' = "answer"

\* The turn ends and ensureTeachCheck looks at the store.
TeachCheck ==
  /\ current # None /\ asking = "answer" /\ call = NoCall
  /\ \/ reply[current] # "held" /\ Over /\ UNCHANGED reply
     \/ reply[current] = "held" /\ UnderRelease(current) # {} /\ LetGo /\ Over
     \/ /\ reply[current] = "held" /\ UnderRelease(current) = {}
        /\ asking' = "teach" /\ UNCHANGED <<reply, closed, current>>
  /\ UNCHANGED <<files, torn, second, call, made, left, wrote, plain, mended, strayed,
                 mishaps>>

Mishap == mishaps < MaxMishaps /\ mishaps' = mishaps + 1

\* The follow-up has ended, however it ended: recorded, said so plainly, or parked.
Asked ==
  /\ current # None /\ asking = "teach"
  /\ \/ call = NoCall /\ UNCHANGED mishaps
     \/ call # NoCall /\ Mishap
  /\ \/ UnderRelease(current) # {} /\ LetGo /\ UNCHANGED plain
     \/ UnderRelease(current) = {} /\ LetGo /\ plain' = plain \cup {current}
     \/ /\ UnderRelease(current) = {} /\ UNCHANGED plain
        /\ reply' = [reply EXCEPT ![current] = "parked"]
  /\ Over
  /\ UNCHANGED <<files, torn, second, call, made, left, wrote, mended, strayed>>

\* A turn is interrupted: its release waits for the next start, and a call of it
\* may still be on its way.
Interrupt ==
  /\ current # None /\ asking = "answer" /\ Mishap
  /\ left' = left \cup {current} /\ Untold
  /\ UNCHANGED <<files, torn, second, asking, call, made, reply, closed, wrote, plain,
                 mended, strayed>>

\* The process dies, and the server it holds with it.
Kill ==
  /\ Mishap
  /\ current' = None /\ asking' = "answer" /\ call' = NoCall /\ left' = {}
  /\ UNCHANGED <<files, torn, second, made, reply, closed, wrote, plain, mended, strayed>>

(* ---- the world -------------------------------------------------------- *)

Tick == second < MaxSecond /\ second' = second + 1
        /\ UNCHANGED <<turnVars, files, torn, call, made, wrote, mended, strayed, mishaps>>

Damage(i) == /\ i \in Readable /\ Mishap /\ torn' = torn \cup {i}
             /\ UNCHANGED <<turnVars, files, second, call, made, wrote, mended, strayed>>

Mend(i) == /\ i \in torn /\ torn' = torn \ {i} /\ mended' = TRUE
           /\ UNCHANGED <<turnVars, files, second, call, made, wrote, strayed, mishaps>>

Next == \/ \E r \in Managed : Begin(r)
        \/ ModelCalls \/ Land \/ ModelReplies \/ TeachCheck \/ Asked
        \/ Interrupt \/ Kill \/ Tick
        \/ \E i \in DOMAIN files : Damage(i) \/ Mend(i)

Spec == Init /\ [][Next]_vars

(* ---- what is promised ------------------------------------------------- *)

\* The list in front of the model says a thing once and never more things than
\* the cap, through repeated calls, turns taken again and forgotten records; a
\* file mended by hand may bring back what was taught again meanwhile
\* (teachings.ts, remember).
StandsOnce ==
  mended \/ /\ Cardinality(Active) <= MaxActive
            /\ \A i, j \in Active :
                 i[1] = j[1] /\ files[i].text = files[j].text => i = j

\* A record is never written over, damaged or not, and what was forgotten never
\* stands again: "no record is overwritten" (teachings.ts, freeId and forget).
NothingWrittenOver ==
  [][\A i \in DOMAIN files :
       /\ i \in DOMAIN files'
       /\ [files'[i] EXCEPT !.status = "any"] = [files[i] EXCEPT !.status = "any"]
       /\ files[i].status # files'[i].status =>
            files[i].status = "active" /\ files'[i].status = "forgotten"]_vars

\* A reply of the management conversation leaves when its own turn recorded
\* something, or the model said plainly that nothing was taught.  A call that
\* outlives its turn and lands in another speaks for the wrong one (loop.ts,
\* ensureTeachCheck; teach-tool.ts, release()).
SpokenIsTaught ==
  \A r \in Managed : reply[r] = "let go" =>
     \/ r \in plain
     \/ \E i \in DOMAIN files : wrote[i] = r \/ (i \in strayed /\ files[i].release = r)

\* The list says each thing once and loses nothing, and a reply that claims a
\* teaching has it.
ListIsTrue == [](TypeOK /\ StandsOnce /\ SpokenIsTaught) /\ NothingWrittenOver
=============================================================================
