------------------------------ MODULE Threads ------------------------------
(***************************************************************************)
(* The threads a release loop keeps in the app-server and what it knows of   *)
(* the tool servers behind them (loop.ts: threadFor, readToolServerStatus;   *)
(* harness/codex: openThread, resumeThread, listToolServerStatus).  A unit   *)
(* of work has one thread, named in a file of the store; the status list is  *)
(* read page by page through a thread, and a notification says that it has   *)
(* changed.  The process may be killed between any two steps.                *)
(***************************************************************************)
EXTENDS Naturals, Sequences, FiniteSets

CONSTANTS Units,       \* units of work
          Required,    \* the required tool servers, in the order they are listed: a page each
          MaxThreads,  \* bound: threads opened
          MaxTurns,    \* bound: turns taken
          MaxChanges,  \* bound: changes of a tool server's state
          MaxKills     \* bound: deaths of the process

None == "none"
Servers == {Required[k] : k \in DOMAIN Required}

VARIABLES
  connected,  \* the tool servers that are connected
  wire,       \* lines of the app-server not yet read
  rollouts,   \* threads with a rollout on disk
  opened,     \* threads opened
  fileOf,     \* unit -> the thread record of the store
  cached,     \* unit -> thread, in the loop's map
  stale,      \* toolStatusStale
  holdFor,    \* the servers in holdFaults
  step,       \* what the loop awaits
  unit,       \* the unit of the release being taken
  pages,      \* the pages of the status list read
  resumes,    \* ghost: threads the loop asked to resume
  settled,    \* ghost: unit -> the thread of its first completed turn on record
  missed,     \* ghost: a notification was read during the last status read
  turns, changes, kills
vars == <<connected, wire, rollouts, opened, fileOf, cached, stale, holdFor, step, unit,
          pages, resumes, settled, missed, turns, changes, kills>>

NoFile == [thread |-> 0, completed |-> 0]

Init ==
  /\ connected = Servers /\ wire = <<>> /\ rollouts = {} /\ opened = 0
  /\ fileOf = [u \in Units |-> NoFile] /\ cached = [u \in Units |-> 0]
  /\ stale = TRUE /\ holdFor = {} /\ step = "idle" /\ unit = None /\ pages = <<>>
  /\ resumes = {} /\ settled = [u \in Units |-> 0] /\ missed = FALSE
  /\ turns = 0 /\ changes = 0 /\ kills = 0

TypeOK ==
  /\ step \in {"idle", "opening", "resuming", "reading", "turning"}
  /\ holdFor \subseteq Servers /\ unit \in Units \cup {None}
  /\ Len(pages) <= Len(Required)

appServer == <<connected, rollouts, opened, changes>>

(* ---- the app-server --------------------------------------------------- *)

\* A server's state changes, and the notification follows at once.
Changes(s) ==
  /\ changes < MaxChanges /\ changes' = changes + 1
  /\ connected' = IF s \in connected THEN connected \ {s} ELSE connected \cup {s}
  /\ wire' = Append(wire, [kind |-> "note", page |-> {}])
  /\ UNCHANGED <<rollouts, opened, fileOf, cached, stale, holdFor, step, unit, pages,
                 resumes, settled, missed, turns, kills>>

\* A page of the status list: one server, as it is now.
Pages ==
  /\ step = "reading" /\ \A k \in DOMAIN wire : wire[k].kind = "note"
  /\ LET s == Required[Len(pages) + 1] IN
       wire' = Append(wire, [kind |-> "page", page |-> {s} \cap connected])
  /\ UNCHANGED <<appServer, fileOf, cached, stale, holdFor, step, unit, pages, resumes,
                 settled, missed, turns, kills>>

(* ---- the connection's read loop --------------------------------------- *)

\* slip: a notification met in a release pass is left to the next one.
HeardIdle == stale' = (stale \/ step = "idle")
Heard == stale' = TRUE

\* The handler of a notification runs as its line is read.
Notified ==
  /\ wire # <<>> /\ Head(wire).kind = "note"
  /\ Heard
  /\ missed' = (missed \/ step = "reading")
  /\ wire' = Tail(wire)
  /\ UNCHANGED <<appServer, fileOf, cached, holdFor, step, unit, pages, resumes, settled,
                 turns, kills>>

\* holdsRelease: a required server that is not connected holds release.
Down(read) == Servers \ UNION {read[k] : k \in DOMAIN read}

\* The read is done: the caller goes on to its turn or holds, and the flag is
\* cleared.  A line of the same chunk has been handled before this runs.
LastPage(behind) ==
  LET read == Append(pages, Head(wire).page) IN
  /\ holdFor' = Down(read) /\ pages' = <<>> /\ stale' = FALSE
  /\ step' = IF unit # None /\ Down(read) = {} THEN "turning" ELSE "idle"
  /\ unit' = IF Down(read) = {} THEN unit ELSE None
  /\ missed' = (missed \/ behind)
  /\ wire' = IF behind THEN SubSeq(wire, 3, Len(wire)) ELSE Tail(wire)

PageRead ==
  /\ wire # <<>> /\ Head(wire).kind = "page"
  /\ \/ /\ Len(pages) + 1 < Len(Required)
        /\ pages' = Append(pages, Head(wire).page) /\ wire' = Tail(wire)
        /\ UNCHANGED <<stale, holdFor, step, unit, missed>>
     \/ /\ Len(pages) + 1 = Len(Required)
        /\ \/ LastPage(FALSE)
           \/ Len(wire) > 1 /\ LastPage(TRUE)
  /\ UNCHANGED <<appServer, fileOf, cached, resumes, settled, turns, kills>>

(* ---- the loop --------------------------------------------------------- *)

Known == {u \in Units : cached[u] # 0}

\* releasePass asks again before it looks, and between two turns.
ReadStatus ==
  /\ step = "idle" /\ stale /\ Known # {}
  /\ step' = "reading" /\ unit' = None /\ missed' = FALSE
  /\ UNCHANGED <<appServer, wire, fileOf, cached, stale, holdFor, pages, resumes, settled,
                 turns, kills>>

MayRelease == step = "idle" /\ ~(stale /\ Known # {}) /\ holdFor = {} /\ turns < MaxTurns

Continues(u) == fileOf[u].thread # 0 /\ fileOf[u].completed > 0

\* threadFor: the map, the record of a thread with a completed turn, or a new one.
Release(u) ==
  /\ MayRelease
  /\ unit' = u
  /\ \/ cached[u] # 0 /\ step' = "turning" /\ UNCHANGED resumes
     \/ /\ cached[u] = 0 /\ Continues(u)
        /\ step' = "resuming" /\ resumes' = resumes \cup {fileOf[u].thread}
     \/ /\ cached[u] = 0 /\ ~Continues(u) /\ opened < MaxThreads
        /\ step' = "opening" /\ UNCHANGED resumes
  /\ UNCHANGED <<appServer, wire, fileOf, cached, stale, holdFor, pages, settled, missed,
                 turns, kills>>

\* The app-server opens a thread; its record is written before anything else.  An
\* answer with another model, effort or policy ends the process.
Opened ==
  /\ step = "opening"
  /\ opened' = opened + 1
  /\ fileOf' = [fileOf EXCEPT ![unit] = [thread |-> opened', completed |-> 0]]
  /\ cached' = [cached EXCEPT ![unit] = opened']
  /\ step' = "reading" /\ missed' = FALSE
  /\ UNCHANGED <<connected, rollouts, changes, wire, stale, holdFor, unit, pages, resumes,
                 settled, turns, kills>>

Resumed ==
  /\ step = "resuming"
  /\ cached' = [cached EXCEPT ![unit] = fileOf[unit].thread]
  /\ step' = "reading" /\ missed' = FALSE
  /\ UNCHANGED <<appServer, wire, fileOf, stale, holdFor, unit, pages, resumes, settled,
                 turns, kills>>

\* The app-server takes the turn; a thread has a rollout from its first.
NativeTurn ==
  /\ step = "turning" /\ cached[unit] \notin rollouts
  /\ rollouts' = rollouts \cup {cached[unit]}
  /\ UNCHANGED <<connected, opened, changes, wire, fileOf, cached, stale, holdFor, step,
                 unit, pages, resumes, settled, missed, turns, kills>>

\* takeTurn counts a completed turn on the thread record.
TurnEnds ==
  /\ step = "turning" /\ cached[unit] \in rollouts
  /\ \/ /\ fileOf' = [fileOf EXCEPT ![unit].completed = @ + 1]
        /\ settled' = [settled EXCEPT ![unit] = IF @ = 0 THEN cached[unit] ELSE @]
     \/ UNCHANGED <<fileOf, settled>>
  /\ turns' = turns + 1 /\ step' = "idle" /\ unit' = None
  /\ UNCHANGED <<appServer, wire, cached, stale, holdFor, pages, resumes, missed, kills>>

\* The child dies or the process does: the pair is one unit.
Dies ==
  /\ kills < MaxKills /\ kills' = kills + 1
  /\ opened' = IF step = "opening" THEN opened + 1 ELSE opened
  /\ cached' = [u \in Units |-> 0] /\ stale' = TRUE /\ holdFor' = {} /\ missed' = FALSE
  /\ step' = "idle" /\ unit' = None /\ pages' = <<>> /\ wire' = <<>>
  /\ UNCHANGED <<connected, rollouts, changes, fileOf, resumes, settled, turns>>

Next ==
  \/ \E s \in Servers : Changes(s)
  \/ Pages \/ Notified \/ PageRead \/ ReadStatus
  \/ \E u \in Units : Release(u)
  \/ Opened \/ Resumed \/ NativeTurn \/ TurnEnds \/ Dies

Spec == Init /\ [][Next]_vars

(* ---- what is promised ------------------------------------------------- *)

\* A thread is resumed only when it has taken a turn: one that never has cannot
\* be, and the release would fail for ever (loop.ts, threadFor).
ResumesWhatExists == resumes \subseteq rollouts

\* A unit with a completed turn on record goes on in the thread that took it,
\* through deaths at any point (loop.ts, threadFor and takeTurn).
StaysInItsThread ==
  \A u \in Units : settled[u] # 0 =>
    fileOf[u].thread = settled[u] /\ cached[u] \in {0, settled[u]}

\* With nothing on the wire and no read to come, what holds release is what is
\* down, unless a change was announced while the list was being read: the flag it
\* raised is cleared with the read (tools.ts, holdsRelease; loop.ts, 940).
Current == holdFor = Servers \ connected
Still == wire = <<>> /\ step \in {"idle", "turning"} /\ ~stale
HoldIsCurrent == Still /\ ~missed => Current

\* What the loop knows of its harness over deaths of both: the threads it may
\* resume, the thread of each unit, and the servers that are down.
LoopKnowsItsHarness == TypeOK /\ ResumesWhatExists /\ StaysInItsThread /\ HoldIsCurrent
=============================================================================
