-------------------------------- MODULE Sweep --------------------------------
(***************************************************************************)
(* One agent's process over all its channels: the sweep of                 *)
(* runtime/index.ts with its due times, hints, sleep, drain and the child's*)
(* death; the poll and its hold (runtime/poll.ts); and of a pass           *)
(* (runtime/loop.ts) where it waits, what holds it, which turns it starts  *)
(* and what recover makes of the turns that a death cut.                   *)
(*                                                                         *)
(* What happens between two awaits is one step: a signal, a hint, the      *)
(* status of a server or the child's death lands only while the process    *)
(* waits.                                                                  *)
(***************************************************************************)
EXTENDS Integers, FiniteSets, FiniteSetsExt

CONSTANTS
    K,            \* channels are 1..K, in the order the declaration names them
    Browser,      \* the browser channels: woken by a capture, never by the clock
    Threshold,    \* poll_failures_before_hold
    N,            \* messages are 1..N
    LoopOf,       \* the channel of each message
    UnitOf,       \* the conversation of each message: a thread is one conversation's
    MaxEvents     \* bound: messages sent, turns cut, ends of a process or its child, and
                  \* outages, together

Loops    == 1..K
Messages == 1..N

ASSUME SweepAssumption ==
    /\ K \in Nat \ {0} /\ N \in Nat /\ MaxEvents \in Nat
    /\ Browser \subseteq Loops
    /\ Threshold \in Nat \ {0}
    /\ LoopOf \in [Messages -> Loops]
    /\ DOMAIN UnitOf = Messages

Conversations == {UnitOf[m] : m \in Messages}

VARIABLES
    \* durable
    where,      \* of each message: "unsent", "outside", "captured", "asked" (its
                \* release is written), "replied" (so is a reply), "served" (the release
                \* is completed) or "unknown" (the reply's send was, and it stays open)
    unsure,     \* messages whose model_effect is 'uncertain'
    failures,   \* consecutive_failures of each channel, up to Threshold
    \* outside
    dep,        \* what release depends on: "up", or "tools" or "proxy" is down
    \* the process
    mode,       \* "up", "down" or "stopped"
    signal,     \* draining.signal
    childGone,  \* childExit
    due,        \* of each channel: "now", "later" or "never"
    hinted,     \* the channel whose pass is running was hinted since it began
    phase,      \* "asleep", "polling", "scanning", "releasing", "delivering", "ending"
    place,      \* the channel whose pass it is
    woken,      \* the sleep is over
    owed,       \* of each channel, what recover found asked: recovering
    chosen,     \* messages the pass is yet to release
    turn,       \* the message whose release is in progress, 0 for none
    threads,    \* of each channel, the conversations whose thread it has open
    stale,      \* toolStatusStale of each channel
    hold,       \* of each channel: its holdFaults name a server
    list,       \* what the app-server has answered to the list being read: "clear" or
                \* "down"; "none" while none is
    \* history
    row,        \* failed polls of each channel since its last success
    earned,     \* of each channel: its interval has passed since its last pass, or it
                \* was hinted since that pass began
    shelved,    \* messages whose channel's last pass left them for the proxy, or for an
                \* uncertain input of their conversation
    missed,     \* channels that last read the list while a server changed, with an
                \* answer from before the change
    events      \* how many there were, up to MaxEvents

inbox   == <<where, unsure, failures, row>>
process == <<mode, signal, childGone, due, hinted, phase, place, woken>>
status  == <<threads, stale, hold, list, missed>>
work    == <<owed, chosen, turn>>
history == <<earned, shelved, events>>
vars    == <<inbox, dep, process, status, work, history>>

Phases == {"asleep", "polling", "scanning", "probing", "releasing", "opening", "turning",
           "checking", "delivering", "ending"}

TypeOK ==
    /\ where \in [Messages -> {"unsent", "outside", "captured", "asked", "replied", "served",
                               "unknown"}]
    /\ unsure \subseteq Messages
    /\ failures \in [Loops -> 0..Threshold] /\ row \in [Loops -> 0..Threshold]
    /\ dep \in {"up", "tools", "proxy"}
    /\ mode \in {"up", "down", "stopped"}
    /\ signal \in BOOLEAN /\ childGone \in BOOLEAN /\ woken \in BOOLEAN
    /\ due \in [Loops -> {"now", "later", "never"}]
    /\ hinted \in BOOLEAN
    /\ phase \in Phases /\ place \in Loops
    /\ threads \in [Loops -> SUBSET Conversations]
    /\ stale \in [Loops -> BOOLEAN] /\ hold \in [Loops -> BOOLEAN]
    /\ list \in {"none", "clear", "down"} /\ missed \subseteq Loops
    /\ owed \in [Loops -> SUBSET Messages] /\ chosen \subseteq Messages
    /\ turn \in Messages \cup {0}
    /\ earned \in [Loops -> BOOLEAN]
    /\ shelved \subseteq Messages /\ events \in 0..MaxEvents

All(v) == [l \in Loops |-> v]

\* A process that starts: every channel is due, and the first sweep begins.
Fresh ==
    /\ mode = "up" /\ signal = FALSE /\ childGone = FALSE
    /\ due = All("now") /\ hinted = FALSE
    /\ phase = "polling" /\ place = 1 /\ woken = FALSE
    /\ owed = All({}) /\ chosen = {} /\ turn = 0
    /\ threads = All({}) /\ stale = All(TRUE) /\ hold = All(FALSE) /\ list = "none"
    /\ missed = {}

Init ==
    /\ where = [m \in Messages |-> "unsent"] /\ unsure = {}
    /\ failures = All(0) /\ row = All(0) /\ dep = "up"
    /\ Fresh
    /\ earned = [l \in Loops |-> l # 1] /\ shelved = {}
    /\ events = 0

\* One more of what is bounded.
Happens == events < MaxEvents /\ events' = events + 1

Up     == mode = "up"
Asleep == Up /\ phase = "asleep"

\* A browser channel releases its own messages, and any other channel every message of
\* the store.
Takes(l) == {m \in Messages : l \in Browser => LoopOf[m] = l}

\* The release of m is written and not completed.
Open(m) == where[m] \in {"asked", "replied", "unknown"}

\* An input of a browser channel behind one whose turn may have been taken.
Behind(l, m) == l \in Browser /\ \E q \in unsure : UnitOf[q] = UnitOf[m] /\ Open(q)

\* What a pass of channel l finds to release.
Waiting(l) == {m \in Takes(l) : where[m] = "captured" \/ (m \in owed[l] /\ Open(m))}

-----------------------------------------------------------------------------
(* The sweep.                                                              *)


\* No pass and no turn starts.
Stopping == signal \/ childGone

\* The sweep goes on from channel i with the due times d: to the end of the
\* process, to the next channel that is due, or to sleep until one is.
Onward(i, d) ==
    LET next == {l \in i..K : d[l] = "now"} IN
    /\ due' = d /\ hinted' = FALSE
    /\ \/ /\ Stopping
          /\ phase' = "ending" /\ woken' = FALSE
          /\ UNCHANGED <<place, earned>>
       \/ /\ ~Stopping /\ next # {}
          /\ phase' = "polling" /\ woken' = FALSE
          /\ place' = Min(next)
          /\ earned' = [earned EXCEPT ![Min(next)] = FALSE]
       \/ /\ ~Stopping /\ next = {}
          /\ phase' = "asleep"
          /\ woken' = (\E l \in Loops : d[l] = "now")
          /\ place' = 1
          /\ UNCHANGED earned

WakeUp ==
    /\ Asleep /\ woken
    /\ Onward(1, due)
    /\ UNCHANGED <<inbox, dep, mode, signal, childGone, status, work, shelved, events>>

\* draining.wake, which is there only during a sleep.
Wake == woken' = (woken \/ phase = "asleep")

\* A channel's interval passes; the sleep is as long as the first of them.
IntervalPasses(l) ==
    /\ Up /\ due[l] = "later"
    /\ due' = [due EXCEPT ![l] = "now"]
    /\ earned' = [earned EXCEPT ![l] = TRUE]
    /\ Wake
    /\ UNCHANGED <<inbox, dep, mode, signal, childGone, hinted, phase, place, status, work,
                   shelved, events>>

\* Mutation of Hints: one that lands during a pass is not kept.
HintsUnkept(S) ==
    /\ due'    = [l \in Loops |-> IF l \in S THEN "now" ELSE due[l]]
    /\ earned' = [l \in Loops |-> earned[l] \/ l \in S]
    /\ Wake
    /\ UNCHANGED hinted

\* A hint moves a channel's next pass to now, and is kept if its pass is running.
Hints(S) ==
    /\ due'    = [l \in Loops |-> IF l \in S THEN "now" ELSE due[l]]
    /\ hinted' = (hinted \/ (phase \notin {"asleep", "ending"} /\ place \in S))
    /\ earned' = [l \in Loops |-> earned[l] \/ l \in S]
    /\ Wake

-----------------------------------------------------------------------------
(* What comes from outside.                                                *)

\* A message reaches a channel the process has to go and read.
Arrive(m) ==
    /\ where[m] = "unsent" /\ LoopOf[m] \notin Browser /\ Happens
    /\ where' = [where EXCEPT ![m] = "outside"]
    /\ UNCHANGED <<unsure, failures, row, dep, process, status, work, earned, shelved>>

\* A consultant's input is captured by the host, in this process, and the store
\* tells the sweep of it, unless the sweep is over.
Submit(m) ==
    /\ Up /\ where[m] = "unsent" /\ LoopOf[m] \in Browser /\ Happens
    /\ where' = [where EXCEPT ![m] = "captured"]
    /\ Hints(IF phase = "ending" THEN {} ELSE {LoopOf[m]})
    /\ UNCHANGED <<unsure, failures, row, dep, mode, signal, childGone, phase, place, status,
                   work, shelved>>

\* subscribeReady: an adapter says that something is waiting.
Ready(l) ==
    /\ Up /\ phase # "ending" /\ ~signal /\ l \notin Browser
    /\ \E m \in Messages : LoopOf[m] = l /\ where[m] = "outside"
    /\ (l = place /\ ~hinted) \/ due[l] # "now"
    /\ Hints({l})
    /\ UNCHANGED <<inbox, dep, mode, signal, childGone, phase, place, status, work, shelved,
                   events>>

\* The harness reports a server whose status changed: every loop's status is stale, a
\* browser channel is woken, and a list being read is of before.
StatusChanged ==
    /\ stale' = All(TRUE)
    /\ missed' = IF list = "none" THEN missed ELSE missed \cup {place}
    /\ Hints(Browser)

\* A required server or the provider proxy goes down or comes back; nothing reports
\* the proxy.
DependsOn(new) ==
    /\ dep' = new
    /\ IF Up /\ phase # "ending" /\ "tools" \in {dep, new}
       THEN StatusChanged ELSE UNCHANGED <<due, hinted, earned, woken, stale, missed>>
    /\ UNCHANGED <<inbox, mode, signal, childGone, phase, place, threads, hold, list, work,
                   shelved>>

GoesDown ==
    /\ dep = "up" /\ Happens
    /\ \E new \in {"tools", "proxy"} : DependsOn(new)

ComesBack == dep # "up" /\ DependsOn("up") /\ UNCHANGED events

\* SIGTERM or SIGINT.
StopSignal ==
    /\ Up /\ ~signal
    /\ signal' = TRUE
    /\ Wake
    /\ UNCHANGED <<inbox, dep, mode, childGone, due, hinted, phase, place, status, work, history>>

\* The harness's child exits.
ChildExits ==
    /\ Up /\ ~childGone /\ Happens
    /\ childGone' = TRUE
    /\ Wake
    /\ UNCHANGED <<inbox, dep, mode, signal, due, hinted, phase, place, status, work, earned,
                   shelved>>

-----------------------------------------------------------------------------
(* One pass.                                                               *)

Polls(l) == l \notin Browser
InPass(p) == Up /\ phase = p

\* The due times once the pass is over.
AfterPass ==
    [due EXCEPT ![place] = IF hinted THEN "now"
                           ELSE IF place \in Browser THEN "never" ELSE "later"]

\* The poll works: the count is cleared, and what was outside is captured.
PollWorks ==
    /\ InPass("polling")
    /\ failures' = [failures EXCEPT ![place] = IF Polls(place) THEN 0 ELSE @]
    /\ row'      = [row EXCEPT ![place] = IF Polls(place) THEN 0 ELSE @]
    /\ where'    = [m \in Messages |-> IF LoopOf[m] = place /\ where[m] = "outside"
                                       THEN "captured" ELSE where[m]]
    /\ phase' = "scanning"
    /\ UNCHANGED <<unsure, dep, mode, signal, childGone, due, hinted, place, woken, status,
                   work, history>>

Counted(l) == Min({failures[l] + 1, Threshold})

\* The poll fails: the count is written, and at the threshold the pass is over.
PollFails ==
    /\ InPass("polling") /\ Polls(place)
    /\ failures' = [failures EXCEPT ![place] = Counted(place)]
    /\ row'      = [row EXCEPT ![place] = Min({@ + 1, Threshold})]
    /\ IF Counted(place) >= Threshold
       THEN Onward(place + 1, AfterPass)
       ELSE phase' = "scanning" /\ UNCHANGED <<due, hinted, place, woken, earned>>
    /\ UNCHANGED <<where, unsure, dep, mode, signal, childGone, status, work, shelved, events>>

\* The list the pass is about to read: its status is stale and it has a thread to ask
\* with, or it opens a thread, or a server changed during the turn that is over.
Lists ==
    \/ phase = "scanning" /\ stale[place] /\ threads[place] # {}
    \/ phase = "opening" /\ UnitOf[turn] \notin threads[place]
    \/ phase = "checking"

\* The app-server answers what the servers' status is at that moment; the answer is yet
\* to come.  The thread that is opened for it is kept.
Answers ==
    /\ Up /\ Lists /\ list = "none" /\ ~childGone
    /\ list' = IF dep = "tools" THEN "down" ELSE "clear"
    /\ threads' = IF phase = "opening"
                  THEN [threads EXCEPT ![place] = @ \cup {UnitOf[turn]}] ELSE threads
    /\ missed' = missed \ {place}
    /\ UNCHANGED <<inbox, dep, process, stale, hold, work, history>>

\* readToolServerStatus goes on: whatever was reported since the answer is forgotten.
ReadStatus ==
    /\ Up /\ list # "none"
    /\ hold' = [hold EXCEPT ![place] = (list = "down")]
    /\ stale' = [stale EXCEPT ![place] = FALSE]
    /\ list' = "none"
    /\ phase' = CASE phase = "scanning" -> "probing"
                  [] phase = "checking" -> "releasing"
                  [] OTHER -> phase
    /\ chosen' = IF phase = "checking" /\ list = "down" THEN {} ELSE chosen
    /\ UNCHANGED <<inbox, dep, mode, signal, childGone, due, hinted, place, woken, threads,
                   missed, owed, turn, history>>

\* Of those, the messages nothing but a hint of the channel's own comes back to.
Own(S) == {m \in S : LoopOf[m] = place /\ place \in Browser}

\* releasePass, the status read, probes the proxy and chooses, or holds everything.
\* What recover found is dropped either way.
Scan ==
    /\ InPass("probing") \/ (InPass("scanning") /\ list = "none" /\ ~Lists)
    /\ LET free == {m \in Waiting(place) : ~Behind(place, m)} IN
       IF hold[place] \/ dep = "proxy"
       THEN /\ phase' = "delivering" /\ UNCHANGED chosen
            /\ shelved' = IF dep = "proxy" THEN shelved \cup Own(Waiting(place)) ELSE shelved
       ELSE /\ phase' = "releasing" /\ chosen' = free
            /\ shelved' = (shelved \ Own(free)) \cup Own(Waiting(place) \ free)
    /\ owed' = [owed EXCEPT ![place] = {}]
    /\ UNCHANGED <<inbox, dep, mode, signal, childGone, due, hinted, place, woken, status,
                   turn, earned, events>>

\* The next release starts, unless the process stops or the input stands behind one
\* that became uncertain since.
StartRelease ==
    /\ InPass("releasing") /\ chosen # {} /\ ~Stopping
    /\ LET m == Min(chosen) IN
       /\ chosen' = chosen \ {m}
       /\ IF Behind(place, m)
          THEN /\ shelved' = shelved \cup Own({m})
               /\ UNCHANGED <<phase, turn>>
          ELSE /\ turn' = m /\ phase' = "opening"
               /\ UNCHANGED shelved
    /\ UNCHANGED <<inbox, dep, mode, signal, childGone, due, hinted, place, woken, status,
                   owed, earned, events>>

\* With its thread open the release is held for a server known to be down, or for the
\* proxy, probed again; or it is written, and its turn starts.
Ask ==
    /\ InPass("opening") /\ ~Lists /\ list = "none"
    /\ IF hold[place] \/ dep = "proxy"
       THEN /\ turn' = 0 /\ phase' = "releasing"
            /\ shelved' = IF hold[place] THEN shelved ELSE shelved \cup Own({turn})
            /\ UNCHANGED where
       ELSE /\ phase' = "turning"
            /\ where' = [where EXCEPT ![turn] = IF @ = "captured" THEN "asked" ELSE @]
            /\ UNCHANGED <<turn, shelved>>
    /\ UNCHANGED <<unsure, failures, row, dep, mode, signal, childGone, due, hinted, place,
                   woken, status, owed, chosen, earned, events>>

\* The model calls the reply tool.
Replies ==
    /\ InPass("turning") /\ where[turn] = "asked" /\ ~childGone
    /\ where' = [where EXCEPT ![turn] = "replied"]
    /\ UNCHANGED <<unsure, failures, row, dep, process, status, work, history>>

\* The turn is over, and the status is read again if a server changed meanwhile.
TurnOver ==
    /\ InPass("turning") /\ ~childGone
    /\ turn' = 0
    /\ phase' = IF stale[place] THEN "checking" ELSE "releasing"
    /\ UNCHANGED <<failures, row, dep, mode, signal, childGone, due, hinted, place, woken,
                   status, owed, chosen, earned, shelved>>

\* It completed, and its release is completed.
EndTurn ==
    /\ TurnOver
    /\ where' = [where EXCEPT ![turn] = "served"]
    /\ UNCHANGED <<unsure, events>>

\* A turn of a browser channel that did not complete may have had an effect.
Doubt == unsure' = IF place \in Browser THEN unsure \cup ({turn} \ {0}) ELSE unsure

\* It was interrupted: the box is going away, and the release stays open.
Interrupted ==
    /\ TurnOver /\ Happens
    /\ Doubt
    /\ UNCHANGED where

\* The pass of which no turn is left is done with what it chose.
ChosenDone == turn' = 0 /\ chosen' = {}

\* The child is gone where the pass waits for it, or goes to it.
TurnThrows ==
    /\ Up /\ childGone
    /\ Lists \/ list # "none" \/ phase = "turning" \/ (InPass("releasing") /\ chosen # {} /\ ~signal)
    /\ IF phase = "turning" THEN Doubt ELSE UNCHANGED unsure
    /\ ChosenDone /\ phase' = "ending" /\ list' = "none"
    /\ UNCHANGED <<where, failures, row, dep, mode, signal, childGone, due, hinted, place,
                   woken, threads, stale, hold, missed, owed, history>>

TurnsDone ==
    /\ InPass("releasing") /\ (chosen = {} \/ signal)
    /\ ChosenDone /\ phase' = "delivering"
    /\ UNCHANGED <<inbox, dep, mode, signal, childGone, due, hinted, place, woken, status,
                   owed, history>>

\* deliver sends every reply there is, whichever channel's, and completes the release of
\* one whose send is confirmed; a browser's send always is.  The sweep goes on.
Deliver ==
    /\ InPass("delivering")
    /\ \E lost \in SUBSET {m \in Messages : where[m] = "replied"} :
          /\ place \in Browser => lost = {}
          /\ where' = [m \in Messages |-> IF m \in lost THEN "unknown"
                                          ELSE IF where[m] = "replied" THEN "served" ELSE where[m]]
    /\ Onward(place + 1, AfterPass)
    /\ UNCHANGED <<unsure, failures, row, dep, mode, signal, childGone, status, work, shelved,
                   events>>

-----------------------------------------------------------------------------
(* The end of a process and the start of the next.                         *)

\* What a process knew goes with it.
Forgets ==
    /\ signal' = FALSE /\ childGone' = FALSE
    /\ due' = All("now") /\ hinted' = FALSE
    /\ phase' = "ending" /\ place' = 1 /\ woken' = FALSE
    /\ owed' = All({}) /\ ChosenDone
    /\ threads' = All({}) /\ stale' = All(TRUE) /\ hold' = All(FALSE) /\ list' = "none"
    /\ missed' = {}

\* stop(), and the exit.  A process that was told to stop stays stopped; the unit
\* starts one whose child died again.
Exit ==
    /\ InPass("ending")
    /\ mode' = IF signal THEN "stopped" ELSE "down"
    /\ Forgets
    /\ UNCHANGED <<inbox, dep, history>>

\* A kill, or a fault of a pass that ends the process.
Kill ==
    /\ Up /\ Happens
    /\ mode' = IF signal THEN "stopped" ELSE "down"
    /\ Forgets
    /\ UNCHANGED <<inbox, dep, earned, shelved>>

\* recover, of each channel's loop over the one store: a browser's marks its own releases
\* that have no reply as uncertain and owes none of them; any other channel's filters by
\* no channel, and owes every such release again, a browser's too.
Recover ==
    LET asked == {m \in Messages : where[m] = "asked"} IN
    /\ owed' = [l \in Loops |-> IF l \in Browser THEN {} ELSE asked]
    /\ unsure' = unsure \cup {m \in asked : LoopOf[m] \in Browser}

\* Mutation of Kept: the count does not outlive the process.
KeptInMemory == failures' = All(0) /\ UNCHANGED <<where, row>>

\* What a start finds of the channels is on disk.
Kept == UNCHANGED <<where, failures, row>>

\* The unit's restart, or a person's start.
Start ==
    /\ ~Up
    /\ mode' = "up" /\ phase' = "polling"
    /\ Recover
    /\ Kept
    /\ earned' = [l \in Loops |-> l # 1]
    /\ UNCHANGED <<dep, signal, childGone, due, hinted, place, woken, status, chosen, turn,
                   shelved, events>>

-----------------------------------------------------------------------------

Outside == \/ \E m \in Messages : Arrive(m) \/ Submit(m)
           \/ \E l \in Loops : Ready(l) \/ IntervalPasses(l)
           \/ GoesDown \/ ComesBack \/ StopSignal \/ ChildExits

Turns == StartRelease \/ Ask \/ Replies \/ EndTurn \/ Interrupted \/ TurnThrows \/ TurnsDone
Pass  == PollWorks \/ PollFails \/ Answers \/ ReadStatus \/ Scan \/ Turns \/ Deliver

Next == Outside \/ Pass \/ WakeUp \/ Exit \/ Kill \/ Start

Spec == Init /\ [][Next]_vars

\* The process runs, its clock runs, its unit restarts it, and what is down comes
\* back, the channel's provider too; nobody need start what was stopped.
Fairness ==
    /\ WF_vars(Pass) /\ WF_vars(WakeUp) /\ WF_vars(Exit)
    /\ WF_vars(mode = "down" /\ Start) /\ WF_vars(ComesBack)
    /\ \A l \in Loops : WF_vars(IntervalPasses(l)) /\ SF_vars(place = l /\ PollWorks)
FairSpec == Spec /\ Fairness

-----------------------------------------------------------------------------
(* Properties.                                                             *)

\* poll.ts: the hold has to survive a restart.  A channel whose last Threshold
\* polls all failed, whichever processes made them, is not worked on.
HoldOutlivesProcess ==
    Up /\ phase \notin {"asleep", "polling", "ending"} => row[place] < Threshold

\* The loop believes a server down that is up: it read the answer of before the change,
\* and forgot the change.
Deceived(l) == hold[l] /\ l \in missed

\* index.ts: a browser channel is never polled, so a process that sleeps has nothing of
\* one to do, but for a server that is down, what its last pass left for the proxy or
\* behind an uncertain input, and a change of a server it missed.
AsleepOwesNothing ==
    Asleep /\ ~woken =>
        \A m \in Messages :
            where[m] = "captured" /\ LoopOf[m] \in Browser =>
                dep = "tools" \/ m \in shelved \/ Deceived(LoopOf[m])

PassBegins == mode = "up" /\ phase' = "polling" /\ (phase # "polling" \/ place' # place)

\* index.ts, PA-322: after a signal no pass and no release starts, and none after
\* the child's death.
StopStartsNothing ==
    [][PassBegins \/ (turn = 0 /\ turn' # 0) => ~signal /\ ~childGone]_vars

\* poll.ts, rule 1: a channel whose pass begins was hinted, or has rested its
\* interval since its last pass, or has had none in this process.
IntervalKept == [][PassBegins => earned[place']]_vars

\* Asked, by an earlier process or in a turn that was interrupted, and in no pass's hands.
Stranded(m) ==
    /\ Up /\ phase # "ending" /\ where[m] = "asked"
    /\ \A l \in Loops : m \notin owed[l]
    /\ m \notin chosen \cup {turn}

\* A message is served, unless the process was told to stop first; or its reply's send
\* is unknown, which a person settles; or its turn was cut and it waits for the next
\* start, or for ever if it is a browser's; or a browser's last pass left it for the
\* proxy or behind an uncertain input; or its channel believes a server down.
ArrivedIsServed ==
    \A m \in Messages :
        where[m] \in {"outside", "captured", "asked", "replied"} ~>
            \/ where[m] \in {"served", "unknown"} \/ mode = "stopped"
            \/ Stranded(m)
            \/ m \in shelved
            \/ Deceived(LoopOf[m])


\* adapters/browser/README.md: browser recovery never blindly starts another turn for a
\* release whose effect is uncertain.
NoBlindReissue ==
    [][\A m \in unsure : LoopOf[m] \in Browser /\ Open(m) =>
           ~(turn = m /\ phase = "opening" /\ phase' = "turning")]_vars
=============================================================================
