------------------------------ MODULE Session ------------------------------
(***************************************************************************)
(* One app-server child and the connection to it (harness/codex: connect,    *)
(* Session, Connection, EventStream, awaitCompletion).  The connection is    *)
(* the child's own pipes, or a private socket with an owner who is attached  *)
(* to it and must be let go when the child has gone.  Requests are matched   *)
(* to their answers by id and a turn to its completion by thread and turn,   *)
(* whichever line comes first; the child, the socket and the owner may fail  *)
(* at any point.                                                             *)
(***************************************************************************)
EXTENDS Naturals, Sequences

VARIABLES
  route,      \* "stdio" or "private"
  child,      \* "up" or "dead"
  signalled,  \* SIGTERM has been sent
  at,         \* how far connect has come, and what became of the session
  socket,     \* the private socket: "none", "open" or "closed"
  attached,   \* an owner is attached
  letGo,      \* how often the owner's close was called
  closing,    \* privateClose has been called
  lines,      \* lines of the app-server not yet read
  cut,        \* the connection has failed: connection.closed
  table,      \* the pending requests
  turn,       \* the turn's own progress
  finished,   \* the completion of the turn is among the events
  deaf        \* ghost: the socket closed before anything listened for it
vars == <<route, child, signalled, at, socket, attached, letGo, closing, lines, cut,
          table, turn, finished, deaf>>
transport == <<route, child, signalled, socket, attached, letGo, closing, deaf>>
talk == <<lines, cut, table, turn, finished>>

Init ==
  /\ route \in {"stdio", "private"}
  /\ child = "up" /\ signalled = FALSE
  /\ at = IF route = "private" THEN "opening" ELSE "initializing"
  /\ socket = "none" /\ attached = FALSE /\ letGo = 0 /\ closing = FALSE
  /\ lines = <<>> /\ cut = FALSE
  /\ table = IF route = "private" THEN {} ELSE {"initialize"}
  /\ turn = "none" /\ finished = FALSE
  /\ deaf = FALSE

TypeOK ==
  /\ at \in {"opening", "attaching", "initializing", "ready", "failing", "stopping", "over"}
  /\ turn \in {"none", "asked", "told", "waiting", "completed", "exited", "timed out",
               "refused"}
  /\ table \subseteq {"initialize", "turn"} /\ letGo \in Nat

(* ---- the private route ------------------------------------------------ *)

SocketOpens ==
  /\ at = "opening" /\ child = "up"
  /\ socket' = "open" /\ at' = "attaching"
  /\ UNCHANGED <<route, child, signalled, attached, letGo, closing, deaf, talk>>

\* Ten seconds, or a child that has gone: the child is stopped and waited for.
SocketNeverOpens ==
  /\ at = "opening"
  /\ at' = "failing" /\ signalled' = TRUE
  /\ UNCHANGED <<route, child, socket, attached, letGo, closing, deaf, talk>>

\* The owner attaches; only now does the transport listen for the socket's end, and
\* the session is asked to initialize.
Attaches ==
  /\ at = "attaching"
  /\ attached' = TRUE /\ at' = "initializing" /\ table' = {"initialize"}
  /\ deaf' = (socket = "closed")
  /\ UNCHANGED <<route, child, signalled, socket, letGo, closing, lines, cut, turn, finished>>

AttachFails ==
  /\ at = "attaching"
  /\ at' = "failing" /\ socket' = "closed" /\ signalled' = TRUE
  /\ UNCHANGED <<route, child, attached, letGo, closing, deaf, talk>>

\* The start that failed has waited for the child.
StartFailed ==
  /\ at = "failing" /\ child = "dead" /\ at' = "over"
  /\ UNCHANGED <<transport, talk>>

(* ---- the end of the child, the socket and the owner ------------------- *)

ChildDies ==
  /\ child = "up" /\ child' = "dead"
  /\ UNCHANGED <<route, signalled, at, socket, attached, letGo, closing, deaf, talk>>

\* #fail: what is pending is rejected; a connect that waited stops the session.
Fails ==
  /\ table' = {}
  /\ turn' = IF turn = "asked" THEN "refused" ELSE turn
  /\ at' = IF at = "initializing" THEN "stopping" ELSE at

\* The pipe closes when the child has gone and what it wrote is read.
PipeCloses ==
  /\ route = "stdio" /\ child = "dead" /\ lines = <<>> /\ ~cut
  /\ cut' = TRUE /\ Fails
  /\ UNCHANGED <<transport, lines, finished>>

\* The socket ends.  Once it is listened to, unread lines go with it and the child
\* is stopped.
SocketCloses ==
  /\ socket = "open" /\ socket' = "closed"
  /\ \/ at = "attaching" /\ UNCHANGED <<talk, at, signalled>>
     \/ /\ at # "attaching" /\ signalled' = TRUE
        /\ cut' = TRUE /\ lines' = <<>> /\ Fails /\ UNCHANGED finished
  /\ UNCHANGED <<route, child, attached, letGo, closing, deaf>>

PrivateClose == letGo' = IF attached /\ ~closing THEN letGo + 1 ELSE letGo

\* session.exit has resolved: the owner is let go, a turn awaited ends.
ExitSeen ==
  /\ child = "dead" /\ at \in {"initializing", "ready", "stopping"}
  /\ ~closing \/ turn = "waiting"
  /\ PrivateClose /\ closing' = TRUE
  /\ turn' = IF turn = "waiting" THEN "exited" ELSE turn
  /\ UNCHANGED <<route, child, signalled, at, socket, attached, lines, cut, table, finished,
                 deaf>>

\* The owner says that it has failed: the session is stopped.
OwnerFails ==
  /\ attached /\ at \in {"initializing", "ready"} /\ ~signalled
  /\ signalled' = TRUE
  /\ UNCHANGED <<route, child, at, socket, attached, letGo, closing, deaf, talk>>

\* The runtime ends: stop().
Stop ==
  /\ at = "ready" /\ turn \notin {"asked", "told", "waiting"}
  /\ at' = "stopping" /\ signalled' = TRUE
  /\ UNCHANGED <<route, child, socket, attached, letGo, closing, deaf, talk>>

\* stop() has waited for the child and lets the owner go.
Stopped ==
  /\ at = "stopping" /\ child = "dead"
  /\ PrivateClose /\ closing' = TRUE
  /\ at' = "over"
  /\ UNCHANGED <<route, child, signalled, socket, attached, deaf, talk>>

(* ---- requests and turns ----------------------------------------------- *)

TurnStarts ==
  /\ at = "ready" /\ turn = "none"
  /\ IF cut THEN turn' = "refused" /\ UNCHANGED table
            ELSE turn' = "asked" /\ table' = table \cup {"turn"}
  /\ UNCHANGED <<transport, at, lines, cut, finished>>

Unsaid(line) == \A k \in DOMAIN lines : lines[k] # line
\* The app-server answers or refuses a request, and ends its turn, in either order.
Native ==
  /\ child = "up" /\ ~cut /\ ~deaf
  /\ \E line \in {"yes", "no", "completed"} :
       /\ Unsaid(line)
       /\ \/ line \in {"yes", "no"} /\ table # {} /\ Unsaid("yes") /\ Unsaid("no")
          \/ line = "completed" /\ turn \in {"asked", "told", "waiting"} /\ ~finished /\ Unsaid("no")
       /\ line = "no" => ~finished /\ Unsaid("completed")
       /\ lines' = Append(lines, line)
  /\ UNCHANGED <<transport, at, cut, table, turn, finished>>

\* The event is kept for who asks later.
Kept == finished' = TRUE

\* A line is dispatched: an answer to its request, a notification to the events
\* and to whoever subscribes.
Reads ==
  /\ lines # <<>> /\ lines' = Tail(lines)
  /\ \/ /\ Head(lines) \in {"yes", "no"} /\ "initialize" \in table
        /\ at' = IF Head(lines) = "yes" THEN "ready" ELSE "stopping"
        /\ signalled' = (signalled \/ Head(lines) = "no")
        /\ table' = {} /\ UNCHANGED <<turn, finished>>
     \/ /\ Head(lines) \in {"yes", "no"} /\ "turn" \in table
        /\ turn' = IF Head(lines) = "yes" THEN "told" ELSE "refused"
        /\ table' = {} /\ UNCHANGED <<at, signalled, finished>>
     \/ /\ Head(lines) = "completed"
        /\ Kept
        /\ turn' = IF turn = "waiting" THEN "completed" ELSE turn
        /\ UNCHANGED <<at, signalled, table>>
  /\ UNCHANGED <<route, child, socket, attached, letGo, closing, deaf, cut>>

\* slip: only what comes after the answer is waited for.
ListensOnly == turn' = "waiting"
Looks == turn' = IF finished THEN "completed" ELSE "waiting"

\* The answer's continuation: awaitCompletion looks at the events, then listens.
Awaits == turn = "told" /\ Looks /\ UNCHANGED <<transport, at, lines, cut, table, finished>>

TimesOut ==
  /\ turn = "waiting" /\ turn' = "timed out"
  /\ UNCHANGED <<transport, at, lines, cut, table, finished>>

Moves == \/ SocketNeverOpens \/ Attaches \/ AttachFails \/ StartFailed \/ PipeCloses
         \/ ExitSeen \/ Stopped \/ Reads \/ Awaits \/ TimesOut \/ Native
         \/ (signalled /\ ChildDies) \/ (child = "dead" /\ SocketCloses)
Next == Moves \/ SocketOpens \/ ChildDies \/ SocketCloses \/ OwnerFails \/ Stop \/ TurnStarts

Fairness == WF_vars(Moves)
Spec == Init /\ [][Next]_vars /\ Fairness

(* ---- what is promised ------------------------------------------------- *)

\* The owner of a private endpoint is let go once, after the child has gone, and
\* before the session counts as over (session.ts, attachPrivateLifecycle).
OwnerLetGoOnce ==
  /\ letGo <= 1
  /\ letGo = 1 => child = "dead"
  /\ at = "over" /\ attached => letGo = 1

\* A turn whose completion was read is told as completed: not as timed out, nor as
\* cut short by the child's end (turn.ts, awaitCompletion).
CompletionIsTold ==
  [][turn' # turn /\ turn' \in {"timed out", "exited"} => ~finished]_vars

\* connect returns or fails, and a turn asked for ends, whatever dies on the way:
\* but a private socket that closes while its owner attaches is never noticed, and
\* connect waits for an answer for ever (session.ts:190, privateTransport).
SessionSettles == <>(at \in {"ready", "over"} \/ deaf)
TurnSettles == turn = "asked" ~> turn \notin {"asked", "told", "waiting"}
EverythingSettles == SessionSettles /\ TurnSettles

\* What connect and a turn promise who called them: the owner is let go once, a
\* completion is told, and nothing is waited for without end.
SessionTellsAll == [](TypeOK /\ OwnerLetGoOnce) /\ CompletionIsTold /\ EverythingSettles
=============================================================================
