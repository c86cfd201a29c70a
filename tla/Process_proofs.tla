---------------------------- MODULE Process_proofs ---------------------------
(***************************************************************************)
(* The process of an agent, for every number of channels, messages,         *)
(* processes, deaths and outages.  Its sweep: a hold outlives the process, a *)
(* process that sleeps owes a browser channel nothing, and no pass begins    *)
(* early or after a stop.  Its start and its ending: one process holds the   *)
(* agent, is named by its lock files, and leaves nothing behind.             *)
(* Its session: an owner is let go once, and a completion is told as one.    *)
(***************************************************************************)
EXTENDS MCProcess, TLAPS, WellFoundedInduction, FiniteSetTheorems

-----------------------------------------------------------------------------
(* The sweep. The inductive invariant.                                     *)

InPassOf(l) == phase \notin {"asleep", "ending"} /\ place = l

\* What a process and its pass are while they run, and that one which does not has
\* forgotten what it knew.
ProcessShape ==
    /\ mode # "up" =>
         /\ phase = "ending" /\ ~signal /\ ~childGone /\ ~hinted /\ ~woken /\ place = 1
         /\ due = All("now") /\ hold = All(FALSE) /\ threads = All({}) /\ missed = {}
    /\ phase \notin {"releasing", "opening", "turning", "checking"} => chosen = {}
    /\ phase \in {"opening", "turning"} <=> turn # 0
    /\ phase = "turning" => where[turn] # "captured"
    /\ phase = "asleep" /\ ~woken => ~signal /\ \A l \in Loops : due[l] # "now"

\* The count on disk is the row of failures, and a browser channel has none.
CountIsKept == failures = row /\ \A l \in Browser : row[l] = 0

\* An answer to the list is of a server that is down, or a change was reported since; a
\* channel held for a server has a thread to ask with.
ListShape ==
    /\ list # "none" => phase \in {"scanning", "opening", "checking"} /\ threads[place] # {}
    /\ list = "down" => dep = "tools" \/ place \in missed
    /\ phase \in {"turning", "checking"} => threads[place] # {}
    /\ \A l \in Loops : hold[l] => threads[l] # {}

\* A pass of channel l reads the list again, or is due.
Again(l) == IF InPassOf(l) THEN hinted \/ phase \in {"polling", "scanning"} ELSE due[l] = "now"

\* A browser channel is held for a server that is down, or one whose change it missed, or
\* it reads the list again.
HoldIsCovered ==
    phase # "ending" =>
        \A l \in Browser : hold[l] /\ ~(place = l /\ list # "none") =>
            dep = "tools" \/ l \in missed \/ (stale[l] /\ Again(l))

\* A change missed in the pass that runs has hinted its channel.
MissedIsHinted ==
    place \in Browser /\ place \in missed =>
        /\ list # "none" => hinted
        /\ phase \in {"releasing", "opening", "turning", "checking"} /\ hold[place] => hinted

\* A browser's message is to be reached yet: its channel is due, or its pass goes on.
Reached(m) ==
    IF InPassOf(LoopOf[m])
    THEN hinted \/ phase \in {"polling", "scanning", "probing"} \/ m \in chosen \/ m = turn
    ELSE due[LoopOf[m]] = "now"

BrowserIsCovered ==
    phase # "ending" /\ ~signal =>
        \A m \in Messages : where[m] = "captured" /\ LoopOf[m] \in Browser =>
            m \in shelved \/ dep = "tools" \/ Deceived(LoopOf[m]) \/ Reached(m)

\* A channel that is due has earned its pass, or is in it.
RestIsEarned ==
    phase # "ending" =>
        /\ \A l \in Loops : due[l] = "now" => earned[l] \/ InPassOf(l)
        /\ phase # "asleep" /\ hinted => earned[place]

\* What the pass has in hand was captured.
HandsAreTaken ==
    \A m \in Messages : m \in chosen \/ m = turn => where[m] \notin {"unsent", "outside"}

SweepCore ==
    /\ TypeOK /\ ProcessShape /\ CountIsKept /\ HoldOutlivesProcess /\ ListShape
    /\ HoldIsCovered /\ MissedIsHinted /\ BrowserIsCovered /\ RestIsEarned

SweepInv == SweepCore /\ HandsAreTaken

-----------------------------------------------------------------------------
(* Numbers, hints and the way onward.                                      *)

\* A set of numbers that is not empty has a least one.
LEMMA Leasts == ASSUME NEW S \in SUBSET Nat, S # {}
                PROVE Min(S) \in S
<1>1. PICK x \in S : \A y \in S : ~(<<y, x>> \in OpToRel(<, Nat))
  BY NatLessThanWellFounded, WFMin
<1>2. ASSUME NEW y \in S PROVE x <= y
  <2>1. x \in Nat /\ y \in Nat
    OBVIOUS
  <2>2. ~(<<y, x>> \in {p \in Nat \X Nat : p[1] < p[2]})
    BY <1>1 DEF OpToRel
  <2> QED
    BY <2>1, <2>2
<1> QED
  BY <1>2 DEF Min

\* The count of failures stays between none and the threshold.
LEMMA Counts == ASSUME NEW a \in 0..Threshold PROVE Min({a + 1, Threshold}) \in 0..Threshold
<1>1. {a + 1, Threshold} \subseteq Nat /\ {a + 1, Threshold} # {}
  BY SweepAssumption
<1>2. Min({a + 1, Threshold}) \in {a + 1, Threshold}
  BY <1>1, Leasts
<1>3. a + 1 <= Threshold \/ (a = Threshold)
  BY SweepAssumption
<1>4. a = Threshold => Min({a + 1, Threshold}) = Threshold
  <2>1. CASE a = Threshold
    <3>1. \E x \in {a + 1, Threshold} : \A y \in {a + 1, Threshold} : x <= y
      BY <2>1, SweepAssumption
    <3>2. \A y \in {a + 1, Threshold} : Min({a + 1, Threshold}) <= y
      BY <3>1 DEF Min
    <3> QED
      BY <1>2, <2>1, <3>2, SweepAssumption
  <2> QED
    BY <2>1
<1> QED
  BY <1>2, <1>3, <1>4, SweepAssumption

\* Where the sweep goes on to.
LEMMA Goes ==
  ASSUME TypeOK, NEW i \in Nat \ {0}, NEW d \in [Loops -> {"now", "later", "never"}], Onward(i, d)
  PROVE  /\ due' = d /\ hinted' = FALSE /\ woken' \in BOOLEAN
         /\ phase' \in {"ending", "polling", "asleep"} /\ place' \in Loops
         /\ earned' \in [Loops -> BOOLEAN]
         /\ phase' # "ending" => ~signal /\ ~childGone
         /\ phase' = "polling" =>
              /\ d[place'] = "now" /\ place' >= i
              /\ \A l \in Loops \ {place'} : earned'[l] = earned[l]
         /\ phase' # "polling" => earned' = earned
         /\ phase' = "asleep" /\ ~woken' => \A l \in Loops : d[l] # "now"
<1> DEFINE next == {l \in i..K : d[l] = "now"}
<1>1. next # {} => Min(next) \in next
  BY SweepAssumption, Leasts
<1>2. next \subseteq Loops
  BY SweepAssumption DEF Loops
<1>3. 1 \in Loops
  BY SweepAssumption DEF Loops
<1>4. CASE Stopping /\ phase' = "ending"
  BY <1>4 DEF Onward, TypeOK, Stopping
<1>5. CASE ~Stopping /\ next # {} /\ phase' = "polling"
  <2>1. /\ due' = d /\ hinted' = FALSE /\ woken' = FALSE /\ place' = Min(next)
        /\ earned' = [earned EXCEPT ![Min(next)] = FALSE]
    BY <1>5 DEF Onward
  <2>2. Min(next) \in Loops /\ d[Min(next)] = "now" /\ Min(next) >= i
    BY <1>1, <1>2, <1>5, SweepAssumption DEF Loops
  <2> HIDE DEF next
  <2> QED
    BY <1>5, <2>1, <2>2 DEF TypeOK, Stopping
<1>6. CASE ~Stopping /\ phase' = "asleep"
  BY <1>3, <1>6 DEF Onward, TypeOK, Stopping
<1> QED
  BY <1>4, <1>5, <1>6 DEF Onward

\* The due times after a pass: the channel is due again only if it was hinted.
LEMMA Times == ASSUME TypeOK
               PROVE  /\ AfterPass \in [Loops -> {"now", "later", "never"}]
                      /\ AfterPass[place] = "now" <=> hinted
                      /\ \A l \in Loops \ {place} : AfterPass[l] = due[l]
BY DEF TypeOK, AfterPass

\* A hint makes the channels of S due and earns them their pass.
LEMMA Hinting ==
  ASSUME TypeOK, NEW S \in SUBSET Loops, Hints(S)
  PROVE  /\ due' \in [Loops -> {"now", "later", "never"}] /\ earned' \in [Loops -> BOOLEAN]
         /\ hinted' \in BOOLEAN /\ woken' \in BOOLEAN
         /\ \A l \in Loops : due'[l] = IF l \in S THEN "now" ELSE due[l]
         /\ \A l \in Loops : earned'[l] <=> earned[l] \/ l \in S
         /\ hinted' <=> hinted \/ (phase \notin {"asleep", "ending"} /\ place \in S)
         /\ phase = "asleep" => woken'
BY DEF TypeOK, Hints, Wake

-----------------------------------------------------------------------------
(* Every action keeps it.                                                  *)

\* A hint covers a browser channel's messages and leaves the rest as it was, whether a
\* message of the channel came with it or a server changed.
LEMMA HintsKeep ==
  ASSUME SweepInv, NEW S \in SUBSET Loops, Hints(S), mode = "up" \/ S = {},
         UNCHANGED <<unsure, failures, row, mode, signal, childGone, phase, place, work, shelved,
                     threads, hold, list>>,
         events' \in 0..MaxEvents, dep' \in {"up", "tools", "proxy"},
         where' = where \/ \E m \in Messages : LoopOf[m] \in S /\ where[m] = "unsent" /\
                                               where' = [where EXCEPT ![m] = "captured"],
         \/ UNCHANGED <<dep, stale, missed>>
         \/ /\ Browser \subseteq S /\ stale' = All(TRUE)
            /\ missed' = IF list = "none" THEN missed ELSE missed \cup {place}
  PROVE  SweepCore'
<1> USE SweepAssumption DEF SweepInv, SweepCore, TypeOK, Phases, work, Up
<1>a. /\ due' \in [Loops -> {"now", "later", "never"}] /\ earned' \in [Loops -> BOOLEAN]
      /\ hinted' \in BOOLEAN /\ woken' \in BOOLEAN
      /\ \A l \in Loops : due'[l] = IF l \in S THEN "now" ELSE due[l]
      /\ \A l \in Loops : earned'[l] <=> earned[l] \/ l \in S
      /\ hinted' <=> hinted \/ (phase \notin {"asleep", "ending"} /\ place \in S)
      /\ phase = "asleep" => woken'
  BY Hinting
<1>b. /\ where' \in [Messages -> {"unsent", "outside", "captured", "asked", "replied", "served", "unknown"}]
      /\ \A m \in Messages : where[m] # "unsent" => where'[m] = where[m]
      /\ \A m \in Messages : where'[m] = "captured" => where[m] = "captured" \/ LoopOf[m] \in S
      /\ \A m \in Messages : where[m] # "captured" /\ where'[m] = "captured" => where[m] = "unsent"
  OBVIOUS
<1>c. /\ stale' \in [Loops -> BOOLEAN] /\ missed' \subseteq Loops /\ missed \subseteq missed'
      /\ \A l \in Browser : stale[l] => stale'[l]
      /\ UNCHANGED <<dep, stale, missed>> \/ (Browser \subseteq S /\ \A l \in Loops : stale'[l])
      /\ \A l \in missed' \ missed : l = place /\ list # "none" /\ Browser \subseteq S
  BY DEF All
<1>1. TypeOK'
  BY <1>a, <1>b, <1>c
<1>2. ProcessShape'
  <2>1. mode # "up" => due' = due /\ hinted' = hinted /\ woken' = woken /\ missed' = missed
    <3>1. mode # "up" => S = {}
      OBVIOUS
    <3>2. mode # "up" => phase = "ending"
      BY DEF ProcessShape
    <3>3. mode # "up" => due' = due /\ hinted' = hinted /\ woken' = woken
      BY <3>1, <3>2 DEF Hints, Wake
    <3>4. mode # "up" => list = "none"
      BY <3>2 DEF ListShape
    <3> QED
      BY <3>3, <3>4, <1>c
  <2>2. phase = "turning" => where'[turn] # "captured"
    <3>1. phase = "turning" => turn \in Messages /\ where[turn] # "captured"
      BY DEF ProcessShape
    <3>2. phase = "turning" => where[turn] # "unsent"
      BY <3>1 DEF HandsAreTaken
    <3> QED
      BY <1>b, <3>1, <3>2
  <2> QED
    BY <1>a, <2>1, <2>2 DEF ProcessShape
<1>3. CountIsKept' /\ HoldOutlivesProcess'
  BY DEF CountIsKept, HoldOutlivesProcess
<1>5. ListShape'
  BY <1>c DEF ListShape
<1>6. HoldIsCovered'
  BY <1>a, <1>c DEF HoldIsCovered, Again, InPassOf
<1>7. MissedIsHinted'
  BY <1>a, <1>c DEF MissedIsHinted, ListShape
<1>8. BrowserIsCovered'
  <2> SUFFICES ASSUME phase # "ending", ~signal, NEW m \in Messages, where'[m] = "captured",
                      LoopOf[m] \in Browser
               PROVE  m \in shelved \/ dep' = "tools" \/ Deceived(LoopOf[m])' \/ Reached(m)'
    BY DEF BrowserIsCovered
  <2>1. LoopOf[m] \in S => Reached(m)'
    BY <1>a DEF Reached, InPassOf
  <2>2. LoopOf[m] \notin S => m \in shelved \/ dep' = "tools" \/ Deceived(LoopOf[m]) \/ Reached(m)
    BY <1>b, <1>c DEF BrowserIsCovered
  <2>3. Reached(m) => Reached(m)'
    BY <1>a DEF Reached, InPassOf
  <2>4. Deceived(LoopOf[m]) => Deceived(LoopOf[m])'
    BY <1>c DEF Deceived
  <2> QED
    BY <2>1, <2>2, <2>3, <2>4
<1>9. RestIsEarned'
  BY <1>a DEF RestIsEarned, InPassOf
<1> QED
  BY <1>1, <1>2, <1>3, <1>5, <1>6, <1>7, <1>8, <1>9

\* A consultant's input is captured, and its channel is hinted unless the sweep is over.
LEMMA SubmitSweep == ASSUME SweepInv, NEW m \in Messages, Submit(m) PROVE SweepCore'
<1>1. \E S \in SUBSET Loops :
        /\ Hints(S) /\ (phase # "ending" => S = {LoopOf[m]}) /\ (phase = "ending" => S = {})
  BY SweepAssumption DEF Submit
<1>2. /\ mode = "up" /\ where[m] = "unsent" /\ where' = [where EXCEPT ![m] = "captured"]
      /\ events' \in 0..MaxEvents
      /\ UNCHANGED <<unsure, failures, row, dep, mode, signal, childGone, phase, place, status,
                     work, shelved>>
  BY SweepAssumption DEF Submit, Up, Happens, SweepInv, SweepCore, TypeOK
<1>3. CASE phase # "ending"
  BY <1>1, <1>2, <1>3, HintsKeep DEF SweepInv, SweepCore, TypeOK, status
<1>4. CASE phase = "ending"
  <2> USE SweepAssumption DEF SweepInv, SweepCore, TypeOK, Phases, work, status, Up
  <2>1. Hints({})
    BY <1>1, <1>4
  <2>2. /\ due' = due /\ earned' = earned /\ hinted' = hinted /\ woken' = woken
    BY <1>4, <2>1 DEF Hints, Wake
  <2>3. /\ where' \in [Messages -> {"unsent", "outside", "captured", "asked", "replied", "served", "unknown"}]
        /\ \A q \in Messages : where[q] # "unsent" => where'[q] = where[q]
    BY <1>2
  <2>4. TypeOK'
    BY <1>2, <2>2, <2>3
  <2>5. ProcessShape' /\ CountIsKept' /\ HoldOutlivesProcess'
    BY <1>2, <1>4, <2>2 DEF ProcessShape, CountIsKept, HoldOutlivesProcess
  <2>6. ListShape' /\ HoldIsCovered'
    BY <1>2, <1>4 DEF ListShape, HoldIsCovered
  <2>7. MissedIsHinted'
    BY <1>2, <1>4, <2>2 DEF MissedIsHinted
  <2>8. BrowserIsCovered' /\ RestIsEarned'
    BY <1>2, <1>4 DEF BrowserIsCovered, RestIsEarned
  <2> QED
    BY <2>4, <2>5, <2>6, <2>7, <2>8
<1> QED
  BY <1>3, <1>4

\* An adapter has something waiting.
LEMMA ReadySweep == ASSUME SweepInv, NEW l \in Loops, Ready(l) PROVE SweepCore'
BY HintsKeep DEF Ready, SweepInv, SweepCore, TypeOK, inbox, status, Up

\* A dependency changes, and a browser channel hears of a server.
LEMMA DependsSweep == ASSUME SweepInv, NEW new \in {"up", "tools", "proxy"}, DependsOn(new),
                             events' \in 0..MaxEvents, dep = "up" \/ new = "up"
                      PROVE  SweepCore'
<1> USE SweepAssumption DEF SweepInv, SweepCore, TypeOK, Phases, DependsOn, inbox, work, Up
<1>1. CASE mode = "up" /\ phase # "ending" /\ "tools" \in {dep, new}
  <2>1. StatusChanged
    BY <1>1
  <2> QED
    BY <1>1, <2>1, HintsKeep DEF StatusChanged
<1>2. CASE ~(mode = "up" /\ phase # "ending" /\ "tools" \in {dep, new})
  <2>1. UNCHANGED <<due, hinted, earned, woken, stale, missed>> /\ dep' = new
    BY <1>2
  <2>2. phase = "ending" \/ (dep # "tools" /\ dep' # "tools")
    BY <1>2, <2>1 DEF ProcessShape
  <2>3. TypeOK'
    BY <2>1
  <2>7. ProcessShape' /\ CountIsKept' /\ HoldOutlivesProcess'
    BY <2>1 DEF ProcessShape, CountIsKept, HoldOutlivesProcess
  <2>4. ListShape'
    BY <2>1, <2>2 DEF ListShape
  <2>5. HoldIsCovered' /\ MissedIsHinted'
    BY <2>1, <2>2 DEF HoldIsCovered, MissedIsHinted, Again, InPassOf
  <2>6. BrowserIsCovered' /\ RestIsEarned'
    BY <2>1, <2>2 DEF BrowserIsCovered, RestIsEarned, Reached, InPassOf, Deceived
  <2> QED
    BY <2>3, <2>4, <2>5, <2>6, <2>7
<1> QED
  BY <1>1, <1>2

\* A message reaches a channel that is polled.
LEMMA ArriveSweep == ASSUME SweepInv, NEW m \in Messages, Arrive(m) PROVE SweepCore'
<1> USE SweepAssumption DEF SweepInv, SweepCore, TypeOK, Phases, inbox, process, status, work, history, Up, Happens,
  Arrive
<1>1. TypeOK'
  OBVIOUS
<1>2. ProcessShape'
  BY DEF ProcessShape
<1>3. CountIsKept'
  BY DEF CountIsKept
<1>4. HoldOutlivesProcess'
  BY DEF HoldOutlivesProcess, CountIsKept
<1>5. ListShape'
  BY DEF ListShape, ProcessShape
<1>6. HoldIsCovered'
  BY DEF HoldIsCovered, Again, InPassOf, ProcessShape, ListShape
<1>7. MissedIsHinted'
  BY DEF MissedIsHinted, ProcessShape, ListShape
<1>8. BrowserIsCovered'
  BY DEF BrowserIsCovered, Deceived, Reached, InPassOf, ProcessShape
<1>9. RestIsEarned'
  BY DEF RestIsEarned, InPassOf, ProcessShape
<1> QED
  BY <1>1, <1>2, <1>3, <1>4, <1>5, <1>6, <1>7, <1>8, <1>9

\* A channel's interval passes.
LEMMA IntervalPassesSweep == ASSUME SweepInv, NEW l \in Loops, IntervalPasses(l) PROVE SweepCore'
<1> USE SweepAssumption DEF SweepInv, SweepCore, TypeOK, Phases, inbox, process, status, work, history, Up, Happens,
  IntervalPasses, Wake
<1>1. TypeOK'
  OBVIOUS
<1>2. ProcessShape'
  BY DEF ProcessShape
<1>3. CountIsKept'
  BY DEF CountIsKept
<1>4. HoldOutlivesProcess'
  BY DEF HoldOutlivesProcess, CountIsKept
<1>5. ListShape'
  BY DEF ListShape, ProcessShape
<1>6. HoldIsCovered'
  BY DEF HoldIsCovered, Again, InPassOf, ProcessShape, ListShape
<1>7. MissedIsHinted'
  BY DEF MissedIsHinted, ProcessShape, ListShape
<1>8. BrowserIsCovered'
  BY DEF BrowserIsCovered, Deceived, Reached, InPassOf, ProcessShape
<1>9. RestIsEarned'
  BY DEF RestIsEarned, InPassOf, ProcessShape
<1> QED
  BY <1>1, <1>2, <1>3, <1>4, <1>5, <1>6, <1>7, <1>8, <1>9

\* A stop is noted, and wakes a process that sleeps.
LEMMA StopSignalSweep == ASSUME SweepInv, StopSignal PROVE SweepCore'
<1> USE SweepAssumption DEF SweepInv, SweepCore, TypeOK, Phases, inbox, process, status, work, history, Up, Happens,
  StopSignal, Wake
<1>1. TypeOK'
  OBVIOUS
<1>2. ProcessShape'
  BY DEF ProcessShape
<1>3. CountIsKept'
  BY DEF CountIsKept
<1>4. HoldOutlivesProcess'
  BY DEF HoldOutlivesProcess, CountIsKept
<1>5. ListShape'
  BY DEF ListShape, ProcessShape
<1>6. HoldIsCovered'
  BY DEF HoldIsCovered, Again, InPassOf, ProcessShape, ListShape
<1>7. MissedIsHinted'
  BY DEF MissedIsHinted, ProcessShape, ListShape
<1>8. BrowserIsCovered'
  BY DEF BrowserIsCovered, Deceived, Reached, InPassOf, ProcessShape
<1>9. RestIsEarned'
  BY DEF RestIsEarned, InPassOf, ProcessShape
<1> QED
  BY <1>1, <1>2, <1>3, <1>4, <1>5, <1>6, <1>7, <1>8, <1>9

\* The child's death is noted, and wakes a process that sleeps.
LEMMA ChildExitsSweep == ASSUME SweepInv, ChildExits PROVE SweepCore'
<1> USE SweepAssumption DEF SweepInv, SweepCore, TypeOK, Phases, inbox, process, status, work, history, Up, Happens,
  ChildExits, Wake
<1>1. TypeOK'
  OBVIOUS
<1>2. ProcessShape'
  BY DEF ProcessShape
<1>3. CountIsKept'
  BY DEF CountIsKept
<1>4. HoldOutlivesProcess'
  BY DEF HoldOutlivesProcess, CountIsKept
<1>5. ListShape'
  BY DEF ListShape, ProcessShape
<1>6. HoldIsCovered'
  BY DEF HoldIsCovered, Again, InPassOf, ProcessShape, ListShape
<1>7. MissedIsHinted'
  BY DEF MissedIsHinted, ProcessShape, ListShape
<1>8. BrowserIsCovered'
  BY DEF BrowserIsCovered, Deceived, Reached, InPassOf, ProcessShape
<1>9. RestIsEarned'
  BY DEF RestIsEarned, InPassOf, ProcessShape
<1> QED
  BY <1>1, <1>2, <1>3, <1>4, <1>5, <1>6, <1>7, <1>8, <1>9

\* What was outside is captured, and the count is cleared.
LEMMA PollWorksSweep == ASSUME SweepInv, PollWorks PROVE SweepCore'
<1> USE SweepAssumption DEF SweepInv, SweepCore, TypeOK, Phases, inbox, process, status, work, history, Up, Happens,
  PollWorks, InPass, Polls
<1>a. /\ where' \in [Messages -> {"unsent", "outside", "captured", "asked", "replied", "served", "unknown"}]
      /\ \A m \in Messages : where[m] # "outside" => where'[m] = where[m]
      /\ \A m \in Messages : where'[m] = "captured" => where[m] = "captured" \/ LoopOf[m] = place
  OBVIOUS
<1>1. TypeOK'
  BY <1>a
<1>2. ProcessShape'
  BY DEF ProcessShape
<1>3. CountIsKept'
  BY DEF CountIsKept
<1>4. HoldOutlivesProcess'
  BY DEF HoldOutlivesProcess, CountIsKept
<1>5. ListShape'
  BY DEF ListShape, ProcessShape
<1>6. HoldIsCovered'
  BY DEF HoldIsCovered, Again, InPassOf, ProcessShape, ListShape
<1>7. MissedIsHinted'
  BY DEF MissedIsHinted, ProcessShape, ListShape
<1>8. BrowserIsCovered'
  BY <1>a DEF BrowserIsCovered, Deceived, Reached, InPassOf
<1>9. RestIsEarned'
  BY DEF RestIsEarned, InPassOf, ProcessShape
<1> QED
  BY <1>1, <1>2, <1>3, <1>4, <1>5, <1>6, <1>7, <1>8, <1>9

\* The app-server answers what its servers are at that moment.
LEMMA AnswersSweep == ASSUME SweepInv, Answers PROVE SweepCore'
<1> USE SweepAssumption DEF SweepInv, SweepCore, TypeOK, Phases, inbox, process, status, work, history, Up, Happens,
  Answers, Lists
<1>a. /\ threads' \in [Loops -> SUBSET Conversations] /\ threads'[place] # {}
      /\ \A l \in Loops : threads[l] \subseteq threads'[l]
      /\ missed' = missed \ {place} /\ place \notin missed'
  <2>1. phase = "opening" => turn \in Messages /\ UnitOf[turn] \in Conversations
    BY DEF Conversations, ProcessShape
  <2>2. phase # "opening" => threads' = threads /\ threads[place] # {}
    BY DEF ListShape
  <2>3. phase = "opening" => threads' = [threads EXCEPT ![place] = @ \cup {UnitOf[turn]}]
    OBVIOUS
  <2> QED
    BY <2>1, <2>2, <2>3
<1>1. TypeOK'
  BY <1>a
<1>2. ProcessShape'
  BY DEF ProcessShape
<1>3. CountIsKept'
  BY DEF CountIsKept
<1>4. HoldOutlivesProcess'
  BY DEF HoldOutlivesProcess, CountIsKept
<1>5. ListShape'
  BY <1>a DEF ListShape
<1>6. HoldIsCovered'
  BY <1>a DEF HoldIsCovered, Again, InPassOf
<1>7. MissedIsHinted'
  BY <1>a DEF MissedIsHinted
<1>8. BrowserIsCovered'
  <2> SUFFICES ASSUME ~signal, NEW m \in Messages, where[m] = "captured", LoopOf[m] \in Browser
               PROVE  m \in shelved \/ dep = "tools" \/ Deceived(LoopOf[m])' \/ Reached(m)'
    BY DEF BrowserIsCovered
  <2>1. m \in shelved \/ dep = "tools" \/ Deceived(LoopOf[m]) \/ Reached(m)
    BY DEF BrowserIsCovered
  <2>2. Reached(m) => Reached(m)'
    BY DEF Reached, InPassOf
  <2>3. LoopOf[m] # place /\ Deceived(LoopOf[m]) => Deceived(LoopOf[m])'
    BY <1>a DEF Deceived
  <2>4. LoopOf[m] = place /\ Deceived(LoopOf[m]) => Reached(m)'
    BY DEF Deceived, MissedIsHinted, Reached, InPassOf
  <2> QED
    BY <2>1, <2>2, <2>3, <2>4
<1>9. RestIsEarned'
  BY DEF RestIsEarned, InPassOf, ProcessShape
<1> QED
  BY <1>1, <1>2, <1>3, <1>4, <1>5, <1>6, <1>7, <1>8, <1>9

\* The status is read, and the pass goes on with what it says.
LEMMA ReadStatusSweep == ASSUME SweepInv, ReadStatus PROVE SweepCore'
<1> USE SweepAssumption DEF SweepInv, SweepCore, TypeOK, Phases, inbox, process, status, work, history, Up, Happens,
  ReadStatus
<1>a. /\ hold' \in [Loops -> BOOLEAN] /\ stale' \in [Loops -> BOOLEAN]
      /\ hold'[place] = (list = "down") /\ ~stale'[place]
      /\ \A l \in Loops \ {place} : hold'[l] = hold[l] /\ stale'[l] = stale[l]
      /\ phase \in {"scanning", "opening", "checking"} /\ chosen' \subseteq chosen
      /\ phase' = IF phase = "scanning" THEN "probing" ELSE IF phase = "checking" THEN "releasing"
                                                        ELSE phase
      /\ threads[place] # {} /\ (list = "down" => dep = "tools" \/ place \in missed)
      /\ (chosen' # chosen => list = "down")
      /\ UNCHANGED <<inbox, dep, mode, signal, childGone, due, hinted, place, woken, threads,
                     missed, owed, turn, history>>
      /\ list' = "none" /\ mode = "up"
  BY DEF ListShape
<1> HIDE DEF ReadStatus
<1>1. TypeOK'
  BY <1>a
<1>2. ProcessShape'
  BY <1>a DEF ProcessShape
<1>3. CountIsKept'
  BY <1>a DEF CountIsKept
<1>4. HoldOutlivesProcess'
  BY <1>a DEF HoldOutlivesProcess, CountIsKept
<1>5. ListShape'
  BY <1>a DEF ListShape, ProcessShape
<1>6. HoldIsCovered'
  BY <1>a DEF HoldIsCovered, Again, InPassOf, ProcessShape, ListShape
<1>7. MissedIsHinted'
  BY <1>a DEF MissedIsHinted, ProcessShape, ListShape
<1>8. BrowserIsCovered'
  <2> SUFFICES ASSUME ~signal, NEW m \in Messages, where[m] = "captured", LoopOf[m] \in Browser
               PROVE  m \in shelved \/ dep = "tools" \/ Deceived(LoopOf[m])' \/ Reached(m)'
    BY <1>a DEF BrowserIsCovered
  <2>1. m \in shelved \/ dep = "tools" \/ Deceived(LoopOf[m]) \/ Reached(m)
    BY <1>a DEF BrowserIsCovered
  <2>2. CASE LoopOf[m] # place
    BY <1>a, <2>1, <2>2 DEF Deceived, Reached, InPassOf
  <2>3. CASE LoopOf[m] = place /\ list = "down"
    BY <1>a, <2>3 DEF Deceived
  <2>4. CASE LoopOf[m] = place /\ list # "down"
    <3>1. Reached(m) => Reached(m)'
      BY <1>a, <2>4 DEF Reached, InPassOf
    <3>2. Deceived(place) /\ phase # "scanning" => hinted
      BY <1>a, <2>4 DEF Deceived, MissedIsHinted
    <3>3. hinted \/ phase = "scanning" => Reached(m)'
      BY <1>a, <2>4 DEF Reached, InPassOf
    <3> QED
      BY <2>1, <2>4, <3>1, <3>2, <3>3
  <2> QED
    BY <2>2, <2>3, <2>4
<1>9. RestIsEarned'
  BY <1>a DEF RestIsEarned, InPassOf, ProcessShape
<1> QED
  BY <1>1, <1>2, <1>3, <1>4, <1>5, <1>6, <1>7, <1>8, <1>9

\* What the pass chooses covers its channel; what it leaves, it leaves for a reason.
LEMMA ScanSweep == ASSUME SweepInv, Scan PROVE SweepCore'
<1> USE SweepAssumption DEF SweepInv, SweepCore, TypeOK, Phases, inbox, process, status, work, history, Up, Happens,
  Scan, InPass
<1>a. /\ phase \in {"probing", "scanning"} /\ mode = "up" /\ list = "none" /\ turn = 0
      /\ phase = "scanning" => ~stale[place] \/ threads[place] = {}
      /\ UNCHANGED <<inbox, dep, mode, signal, childGone, due, hinted, place, woken, status, turn,
                     earned, events>>
      /\ owed' \in [Loops -> SUBSET Messages]
  BY DEF Lists, ListShape, ProcessShape
<1>b. \/ /\ hold[place] \/ dep = "proxy"
         /\ phase' = "delivering" /\ chosen' = chosen
         /\ shelved' = IF dep = "proxy" THEN shelved \cup Own(Waiting(place)) ELSE shelved
      \/ /\ ~hold[place] /\ dep # "proxy"
         /\ phase' = "releasing" /\ chosen' \subseteq Waiting(place)
         /\ shelved' = (shelved \ Own(chosen')) \cup Own(Waiting(place) \ chosen')
  OBVIOUS
<1>c. Waiting(place) \subseteq Messages /\ \A S \in SUBSET Messages : Own(S) \subseteq S
  BY DEF Waiting, Takes, Own
<1>d. hold[place] /\ place \in Browser => dep = "tools" \/ place \in missed \/ hinted
  BY <1>a DEF HoldIsCovered, Again, InPassOf, ListShape
<1> HIDE DEF Scan
<1>e. /\ shelved' \subseteq Messages /\ chosen' \subseteq Messages
      /\ phase' \in {"delivering", "releasing"}
      /\ phase' = "delivering" => chosen' = {}
  <2>1. CASE phase' = "delivering"
    <3>1. Own(Waiting(place)) \subseteq Messages
      BY <1>c
    <3>2. chosen' = {} /\ shelved' \subseteq shelved \cup Own(Waiting(place))
      BY <1>a, <1>b, <2>1 DEF ProcessShape
    <3> QED
      BY <2>1, <3>1, <3>2
  <2>2. CASE phase' # "delivering"
    <3>1. chosen' \in SUBSET Messages /\ Waiting(place) \ chosen' \in SUBSET Messages
      BY <1>b, <1>c, <2>2
    <3> QED
      BY <1>b, <1>c, <2>2, <3>1
  <2> QED
    BY <2>1, <2>2
<1>1. TypeOK'
  BY <1>a, <1>e
<1>2. ProcessShape'
  BY <1>a, <1>e DEF ProcessShape
<1>3. CountIsKept'
  BY <1>a DEF CountIsKept
<1>4. HoldOutlivesProcess'
  BY <1>a, <1>b, <1>c DEF HoldOutlivesProcess, CountIsKept
<1>5. ListShape'
  BY <1>a, <1>b, <1>c DEF ListShape, ProcessShape
<1>6. HoldIsCovered'
  BY <1>a, <1>b, <1>c DEF HoldIsCovered, Again, InPassOf, ProcessShape, ListShape
<1>7. MissedIsHinted'
  BY <1>a, <1>b, <1>c DEF MissedIsHinted, ProcessShape, ListShape
<1>8. BrowserIsCovered'
  <2> SUFFICES ASSUME ~signal, NEW m \in Messages, where[m] = "captured", LoopOf[m] \in Browser
               PROVE  m \in shelved' \/ dep = "tools" \/ Deceived(LoopOf[m])' \/ Reached(m)'
    BY <1>a DEF BrowserIsCovered
  <2>1. CASE LoopOf[m] = place
    <3>1. m \in Waiting(place)
      BY <2>1 DEF Waiting, Takes
    <3>2. \A S \in SUBSET Messages : m \in S => m \in Own(S)
      BY <2>1 DEF Own
    <3>3. CASE hold[place]
      BY <1>a, <1>b, <1>d, <2>1, <3>3 DEF Reached, InPassOf, Deceived
    <3>4. CASE ~hold[place] /\ dep = "proxy"
      BY <1>b, <1>c, <3>1, <3>2, <3>4
    <3>5. CASE ~hold[place] /\ dep # "proxy"
      <4>1. m \in chosen' => Reached(m)'
        BY <1>a, <1>b, <2>1, <3>5 DEF Reached, InPassOf
      <4>2. m \notin chosen' => m \in shelved'
        <5>1. Waiting(place) \ chosen' \in SUBSET Messages
          BY <1>c
        <5> QED
          BY <1>b, <3>1, <3>2, <3>5, <5>1
      <4> QED
        BY <4>1, <4>2
    <3> QED
      BY <3>3, <3>4, <3>5
  <2>2. CASE LoopOf[m] # place
    <3>1. \A S \in SUBSET Messages : m \notin Own(S)
      BY <2>2 DEF Own
    <3>2. m \in shelved => m \in shelved'
      BY <1>b, <1>c, <3>1
    <3>3. Reached(m) => Reached(m)'
      BY <1>a, <2>2 DEF Reached, InPassOf
    <3> QED
      BY <1>a, <3>2, <3>3 DEF BrowserIsCovered, Deceived
  <2> QED
    BY <2>1, <2>2
<1>9. RestIsEarned'
  BY <1>a, <1>b, <1>c DEF RestIsEarned, InPassOf, ProcessShape
<1> QED
  BY <1>1, <1>2, <1>3, <1>4, <1>5, <1>6, <1>7, <1>8, <1>9

\* A release starts, or is left behind an uncertain input.
LEMMA StartReleaseSweep == ASSUME SweepInv, StartRelease PROVE SweepCore'
<1> USE SweepAssumption DEF SweepInv, SweepCore, TypeOK, Phases, inbox, process, status, work, history, Up, Happens,
  StartRelease, InPass
<1>a. Min(chosen) \in chosen /\ Min(chosen) \in Messages /\ Min(chosen) # 0
  <2>1. chosen \subseteq Nat /\ 0 \notin chosen
    BY DEF Messages
  <2> QED
    BY <2>1, Leasts
<1>b. /\ phase = "releasing" /\ mode = "up" /\ turn = 0 /\ list = "none"
      /\ chosen' = chosen \ {Min(chosen)}
      /\ UNCHANGED <<inbox, dep, mode, signal, childGone, due, hinted, place, woken, status, owed,
                     earned, events>>
      /\ \/ phase' = "releasing" /\ turn' = 0 /\ shelved' = shelved \cup Own({Min(chosen)})
         \/ phase' = "opening" /\ turn' = Min(chosen) /\ shelved' = shelved
  BY DEF ProcessShape, ListShape
<1>c. Own({Min(chosen)}) \subseteq Messages
  BY <1>a DEF Own
<1> HIDE DEF StartRelease
<1>1. TypeOK'
  BY <1>a, <1>b, <1>c
<1>2. ProcessShape'
  BY <1>a, <1>b, <1>c DEF ProcessShape
<1>3. CountIsKept'
  BY <1>b DEF CountIsKept
<1>4. HoldOutlivesProcess'
  BY <1>a, <1>b, <1>c DEF HoldOutlivesProcess, CountIsKept
<1>5. ListShape'
  BY <1>a, <1>b, <1>c DEF ListShape, ProcessShape
<1>6. HoldIsCovered'
  BY <1>a, <1>b, <1>c DEF HoldIsCovered, Again, InPassOf, ProcessShape, ListShape
<1>7. MissedIsHinted'
  BY <1>a, <1>b, <1>c DEF MissedIsHinted, ProcessShape, ListShape
<1>8. BrowserIsCovered'
  <2> SUFFICES ASSUME ~signal, NEW m \in Messages, where[m] = "captured", LoopOf[m] \in Browser
               PROVE  m \in shelved' \/ dep = "tools" \/ Deceived(LoopOf[m])' \/ Reached(m)'
    BY <1>b DEF BrowserIsCovered
  <2>1. m \in shelved \/ dep = "tools" \/ Deceived(LoopOf[m]) \/ Reached(m)
    BY <1>b DEF BrowserIsCovered
  <2>2. m \in shelved => m \in shelved'
    BY <1>b
  <2>3. Deceived(LoopOf[m]) => Deceived(LoopOf[m])'
    BY <1>b DEF Deceived
  <2>4. Reached(m) => m \in shelved' \/ Reached(m)'
    <3>1. CASE m = Min(chosen) /\ LoopOf[m] = place
      BY <1>b, <3>1 DEF Reached, InPassOf, Own
    <3>2. CASE LoopOf[m] # place
      BY <1>b, <3>2 DEF Reached, InPassOf
    <3>3. CASE m # Min(chosen) /\ LoopOf[m] = place
      <4>1. Reached(m) => hinted \/ m \in chosen
        BY <1>b, <3>3 DEF Reached, InPassOf, Messages
      <4>2. hinted \/ m \in chosen' => Reached(m)'
        BY <1>b, <3>3 DEF Reached, InPassOf
      <4> QED
        BY <1>b, <3>3, <4>1, <4>2
    <3> QED
      BY <3>1, <3>2, <3>3
  <2> QED
    BY <1>b, <2>1, <2>2, <2>3, <2>4
<1>9. RestIsEarned'
  BY <1>a, <1>b, <1>c DEF RestIsEarned, InPassOf, ProcessShape
<1> QED
  BY <1>1, <1>2, <1>3, <1>4, <1>5, <1>6, <1>7, <1>8, <1>9

\* A release is held for a server or the proxy, or its turn starts.
LEMMA AskSweep == ASSUME SweepInv, Ask PROVE SweepCore'
<1> USE SweepAssumption DEF SweepInv, SweepCore, TypeOK, Phases, inbox, process, status, work, history, Up, Happens,
  Ask, InPass
<1>a. /\ phase = "opening" /\ mode = "up" /\ turn \in Messages /\ turn # 0 /\ list = "none"
      /\ UNCHANGED <<unsure, failures, row, dep, mode, signal, childGone, due, hinted, place, woken,
                     status, owed, chosen, earned, events>>
      /\ \/ /\ hold[place] \/ dep = "proxy"
            /\ turn' = 0 /\ phase' = "releasing" /\ where' = where
            /\ shelved' = IF hold[place] THEN shelved ELSE shelved \cup Own({turn})
         \/ phase' = "turning" /\ turn' = turn /\ shelved' = shelved /\ threads[place] # {}
  BY DEF ProcessShape, Lists
<1>b. /\ where' \in [Messages -> {"unsent", "outside", "captured", "asked", "replied", "served", "unknown"}]
      /\ \A m \in Messages : m # turn => where'[m] = where[m]
      /\ (phase' = "turning" => where'[turn] # "captured")
      /\ \A m \in Messages : where'[m] = "captured" => where[m] = "captured"
  BY <1>a
<1>c. Own({turn}) \subseteq Messages
  BY <1>a DEF Own
<1> HIDE DEF Ask
<1>1. TypeOK'
  BY <1>a, <1>b, <1>c
<1>2. ProcessShape'
  BY <1>a, <1>b, <1>c DEF ProcessShape
<1>3. CountIsKept'
  BY <1>a DEF CountIsKept
<1>4. HoldOutlivesProcess'
  BY <1>a, <1>b, <1>c DEF HoldOutlivesProcess, CountIsKept
<1>5. ListShape'
  BY <1>a, <1>b, <1>c DEF ListShape, ProcessShape
<1>6. HoldIsCovered'
  BY <1>a, <1>b, <1>c DEF HoldIsCovered, Again, InPassOf, ProcessShape, ListShape
<1>7. MissedIsHinted'
  BY <1>a, <1>b, <1>c DEF MissedIsHinted, ProcessShape, ListShape
<1>8. BrowserIsCovered'
  <2> SUFFICES ASSUME ~signal, NEW m \in Messages, where'[m] = "captured", LoopOf[m] \in Browser
               PROVE  m \in shelved' \/ dep = "tools" \/ Deceived(LoopOf[m])' \/ Reached(m)'
    BY <1>a DEF BrowserIsCovered
  <2>1. m \in shelved \/ dep = "tools" \/ Deceived(LoopOf[m]) \/ Reached(m)
    BY <1>a, <1>b DEF BrowserIsCovered
  <2>2. m \in shelved => m \in shelved'
    BY <1>a
  <2>3. Deceived(LoopOf[m]) => Deceived(LoopOf[m])'
    BY <1>a DEF Deceived
  <2>4. CASE m = turn /\ LoopOf[m] = place /\ phase' = "releasing"
    <3>1. ~hold[place] => m \in shelved'
      BY <1>a, <2>4 DEF Own
    <3>2. hold[place] => dep = "tools" \/ place \in missed \/ hinted
      BY <1>a, <2>4 DEF HoldIsCovered, Again, InPassOf
    <3>3. hinted => Reached(m)'
      BY <1>a, <2>4 DEF Reached, InPassOf
    <3>4. hold[place] /\ place \in missed => Deceived(LoopOf[m])'
      BY <1>a, <2>4 DEF Deceived
    <3> QED
      BY <3>1, <3>2, <3>3, <3>4
  <2>5. CASE ~(m = turn /\ LoopOf[m] = place /\ phase' = "releasing")
    <3>1. Reached(m) => Reached(m)'
      BY <1>a, <2>5 DEF Reached, InPassOf
    <3> QED
      BY <1>a, <2>1, <2>2, <2>3, <3>1
  <2> QED
    BY <2>4, <2>5
<1>9. RestIsEarned'
  BY <1>a, <1>b, <1>c DEF RestIsEarned, InPassOf, ProcessShape
<1> QED
  BY <1>1, <1>2, <1>3, <1>4, <1>5, <1>6, <1>7, <1>8, <1>9

\* The reply is written.
LEMMA RepliesSweep == ASSUME SweepInv, Replies PROVE SweepCore'
<1> USE SweepAssumption DEF SweepInv, SweepCore, TypeOK, Phases, inbox, process, status, work, history, Up, Happens,
  Replies, InPass
<1>a. /\ phase = "turning" /\ mode = "up" /\ turn \in Messages
      /\ where' \in [Messages -> {"unsent", "outside", "captured", "asked", "replied", "served", "unknown"}]
      /\ where'[turn] = "replied" /\ \A m \in Messages : m # turn => where'[m] = where[m]
      /\ UNCHANGED <<unsure, failures, row, dep, process, status, work, history>>
  BY DEF ProcessShape
<1> HIDE DEF Replies
<1>1. TypeOK'
  BY <1>a
<1>2. ProcessShape'
  BY <1>a DEF ProcessShape
<1>3. CountIsKept'
  BY <1>a DEF CountIsKept
<1>4. HoldOutlivesProcess'
  BY <1>a DEF HoldOutlivesProcess, CountIsKept
<1>5. ListShape'
  BY <1>a DEF ListShape, ProcessShape
<1>6. HoldIsCovered'
  BY <1>a DEF HoldIsCovered, Again, InPassOf, ProcessShape, ListShape
<1>7. MissedIsHinted'
  BY <1>a DEF MissedIsHinted, ProcessShape, ListShape
<1>8. BrowserIsCovered'
  BY <1>a DEF BrowserIsCovered, Deceived, Reached, InPassOf, ProcessShape
<1>9. RestIsEarned'
  BY <1>a DEF RestIsEarned, InPassOf, ProcessShape
<1> QED
  BY <1>1, <1>2, <1>3, <1>4, <1>5, <1>6, <1>7, <1>8, <1>9

\* A turn ends.
LEMMA EndTurnSweep == ASSUME SweepInv, EndTurn PROVE SweepCore'
<1> USE SweepAssumption DEF SweepInv, SweepCore, TypeOK, Phases, inbox, process, status, work, history, Up, Happens,
  EndTurn, TurnOver, InPass
<1>a. /\ phase = "turning" /\ mode = "up" /\ turn \in Messages /\ where[turn] # "captured"
      /\ list = "none" /\ turn' = 0 /\ phase' \in {"checking", "releasing"}
      /\ UNCHANGED <<failures, row, dep, mode, signal, childGone, due, hinted, place, woken, status,
                     owed, chosen, earned, shelved>>
      /\ events' \in 0..MaxEvents /\ unsure' \subseteq Messages
      /\ where' \in [Messages -> {"unsent", "outside", "captured", "asked", "replied", "served", "unknown"}]
      /\ \A m \in Messages : where'[m] = "captured" => where[m] = "captured" /\ m # turn
  BY DEF ProcessShape, ListShape
<1> HIDE DEF EndTurn, TurnOver
<1>1. TypeOK'
  BY <1>a
<1>2. ProcessShape'
  BY <1>a DEF ProcessShape
<1>3. CountIsKept'
  BY <1>a DEF CountIsKept
<1>4. HoldOutlivesProcess'
  BY <1>a DEF HoldOutlivesProcess, CountIsKept
<1>5. ListShape'
  BY <1>a DEF ListShape, ProcessShape
<1>6. HoldIsCovered'
  BY <1>a DEF HoldIsCovered, Again, InPassOf, ProcessShape, ListShape
<1>7. MissedIsHinted'
  BY <1>a DEF MissedIsHinted, ProcessShape, ListShape
<1>8. BrowserIsCovered'
  BY <1>a DEF BrowserIsCovered, Deceived, Reached, InPassOf, ProcessShape
<1>9. RestIsEarned'
  BY <1>a DEF RestIsEarned, InPassOf, ProcessShape
<1> QED
  BY <1>1, <1>2, <1>3, <1>4, <1>5, <1>6, <1>7, <1>8, <1>9

\* A turn is interrupted.
LEMMA InterruptedSweep == ASSUME SweepInv, Interrupted PROVE SweepCore'
<1> USE SweepAssumption DEF SweepInv, SweepCore, TypeOK, Phases, inbox, process, status, work, history, Up, Happens,
  Interrupted, TurnOver, Doubt, InPass
<1>a. /\ phase = "turning" /\ mode = "up" /\ turn \in Messages /\ where[turn] # "captured"
      /\ list = "none" /\ turn' = 0 /\ phase' \in {"checking", "releasing"}
      /\ UNCHANGED <<failures, row, dep, mode, signal, childGone, due, hinted, place, woken, status,
                     owed, chosen, earned, shelved>>
      /\ events' \in 0..MaxEvents /\ unsure' \subseteq Messages
      /\ where' \in [Messages -> {"unsent", "outside", "captured", "asked", "replied", "served", "unknown"}]
      /\ \A m \in Messages : where'[m] = "captured" => where[m] = "captured" /\ m # turn
  BY DEF ProcessShape, ListShape
<1> HIDE DEF Interrupted, TurnOver, Doubt, Happens
<1>1. TypeOK'
  BY <1>a
<1>2. ProcessShape'
  BY <1>a DEF ProcessShape
<1>3. CountIsKept'
  BY <1>a DEF CountIsKept
<1>4. HoldOutlivesProcess'
  BY <1>a DEF HoldOutlivesProcess, CountIsKept
<1>5. ListShape'
  BY <1>a DEF ListShape, ProcessShape
<1>6. HoldIsCovered'
  BY <1>a DEF HoldIsCovered, Again, InPassOf, ProcessShape, ListShape
<1>7. MissedIsHinted'
  BY <1>a DEF MissedIsHinted, ProcessShape, ListShape
<1>8. BrowserIsCovered'
  BY <1>a DEF BrowserIsCovered, Deceived, Reached, InPassOf, ProcessShape
<1>9. RestIsEarned'
  BY <1>a DEF RestIsEarned, InPassOf, ProcessShape
<1> QED
  BY <1>1, <1>2, <1>3, <1>4, <1>5, <1>6, <1>7, <1>8, <1>9

\* The child is gone, and the process ends.
LEMMA TurnThrowsSweep == ASSUME SweepInv, TurnThrows PROVE SweepCore'
<1> USE SweepAssumption DEF SweepInv, SweepCore, TypeOK, Phases, inbox, process, status, work, history, Up, Happens,
  TurnThrows, ChosenDone, Doubt
<1>a. /\ mode = "up" /\ phase' = "ending" /\ list' = "none" /\ turn' = 0 /\ chosen' = {}
      /\ unsure' \subseteq Messages
      /\ UNCHANGED <<where, failures, row, dep, mode, signal, childGone, due, hinted, place, woken,
                     threads, stale, hold, missed, owed, history>>
  OBVIOUS
<1> HIDE DEF TurnThrows, ChosenDone, Doubt
<1>1. TypeOK'
  BY <1>a
<1>2. ProcessShape'
  BY <1>a DEF ProcessShape
<1>3. CountIsKept'
  BY <1>a DEF CountIsKept
<1>4. HoldOutlivesProcess'
  BY <1>a DEF HoldOutlivesProcess, CountIsKept
<1>5. ListShape'
  BY <1>a DEF ListShape, ProcessShape
<1>6. HoldIsCovered'
  BY <1>a DEF HoldIsCovered, Again, InPassOf, ProcessShape, ListShape
<1>7. MissedIsHinted'
  BY <1>a DEF MissedIsHinted, ProcessShape, ListShape
<1>8. BrowserIsCovered'
  BY <1>a DEF BrowserIsCovered, Deceived, Reached, InPassOf, ProcessShape
<1>9. RestIsEarned'
  BY <1>a DEF RestIsEarned, InPassOf, ProcessShape
<1> QED
  BY <1>1, <1>2, <1>3, <1>4, <1>5, <1>6, <1>7, <1>8, <1>9

\* The turns are done, and the pass delivers.
LEMMA TurnsDoneSweep == ASSUME SweepInv, TurnsDone PROVE SweepCore'
<1> USE SweepAssumption DEF SweepInv, SweepCore, TypeOK, Phases, inbox, process, status, work, history, Up, Happens,
  TurnsDone, InPass, ChosenDone
<1>1. TypeOK'
  OBVIOUS
<1>2. ProcessShape'
  BY DEF ProcessShape
<1>3. CountIsKept'
  BY DEF CountIsKept
<1>4. HoldOutlivesProcess'
  BY DEF HoldOutlivesProcess, CountIsKept
<1>5. ListShape'
  BY DEF ListShape, ProcessShape
<1>6. HoldIsCovered'
  BY DEF HoldIsCovered, Again, InPassOf, ProcessShape, ListShape
<1>7. MissedIsHinted'
  BY DEF MissedIsHinted, ProcessShape, ListShape
<1>8. BrowserIsCovered'
  BY DEF BrowserIsCovered, Deceived, Reached, InPassOf, ProcessShape
<1>9. RestIsEarned'
  BY DEF RestIsEarned, InPassOf, ProcessShape
<1> QED
  BY <1>1, <1>2, <1>3, <1>4, <1>5, <1>6, <1>7, <1>8, <1>9

\* The pass is over, and the sweep goes on.
LEMMA DeliverSweep == ASSUME SweepInv, Deliver PROVE SweepCore'
<1>a. /\ due' = AfterPass /\ hinted' = FALSE /\ woken' \in BOOLEAN
      /\ phase' \in {"ending", "polling", "asleep"} /\ place' \in Loops
      /\ earned' \in [Loops -> BOOLEAN]
      /\ phase' # "ending" => ~signal /\ ~childGone
      /\ phase' = "polling" =>
           /\ AfterPass[place'] = "now" /\ place' >= place + 1
           /\ \A l \in Loops \ {place'} : earned'[l] = earned[l]
      /\ phase' # "polling" => earned' = earned
      /\ phase' = "asleep" /\ ~woken' => \A l \in Loops : AfterPass[l] # "now"
  <2>1. place + 1 \in Nat \ {0}
    BY SweepAssumption DEF SweepInv, SweepCore, TypeOK, Loops
  <2>2. TypeOK /\ Onward(place + 1, AfterPass)
    BY DEF SweepInv, SweepCore, Deliver
  <2>3. AfterPass \in [Loops -> {"now", "later", "never"}]
    BY <2>2, Times
  <2> QED
    BY <2>1, <2>2, <2>3, Goes
<1> USE SweepAssumption DEF SweepInv, SweepCore, TypeOK, Phases, inbox, process, status, work, history, Up
<1>b. /\ AfterPass \in [Loops -> {"now", "later", "never"}]
      /\ AfterPass[place] = "now" <=> hinted
      /\ \A l \in Loops \ {place} : AfterPass[l] = due[l]
  BY Times
<1>c. /\ UNCHANGED <<dep, mode, signal, childGone, status, work, shelved, events>>
      /\ mode = "up" /\ phase = "delivering" /\ list = "none" /\ chosen = {} /\ turn = 0
      /\ where' \in [Messages -> {"unsent", "outside", "captured", "asked", "replied", "served", "unknown"}]
      /\ \A m \in Messages : where'[m] = "captured" <=> where[m] = "captured"
      /\ UNCHANGED <<unsure, failures, row>>
  BY DEF Deliver, InPass, Asleep, ProcessShape, ListShape
<1>1. TypeOK'
  BY <1>a, <1>b, <1>c
<1>2. ProcessShape'
  BY <1>a, <1>c DEF ProcessShape
<1>3. CountIsKept'
  BY <1>c DEF CountIsKept
<1>4. HoldOutlivesProcess'
  BY <1>a DEF HoldOutlivesProcess
<1>5. ListShape'
  BY <1>a, <1>c DEF ListShape
<1>6. HoldIsCovered'
  <2> SUFFICES ASSUME phase' # "ending", NEW l \in Browser, hold[l]
               PROVE  dep = "tools" \/ l \in missed \/ (stale[l] /\ Again(l)')
    BY <1>c DEF HoldIsCovered
  <2>1. dep = "tools" \/ l \in missed \/ (stale[l] /\ Again(l))
    BY <1>a, <1>c DEF HoldIsCovered
  <2>2. Again(l) => due'[l] = "now"
    BY <1>a, <1>b, <1>c DEF Again, InPassOf
  <2>3. due'[l] = "now" => Again(l)'
    BY <1>a DEF Again, InPassOf
  <2> QED
    BY <2>1, <2>2, <2>3
<1>7. MissedIsHinted'
  BY <1>a, <1>c DEF MissedIsHinted
<1>8. BrowserIsCovered'
  <2> SUFFICES ASSUME phase' # "ending", NEW m \in Messages, where[m] = "captured",
                      LoopOf[m] \in Browser
               PROVE  m \in shelved \/ dep = "tools" \/ Deceived(LoopOf[m]) \/ Reached(m)'
    BY <1>c DEF BrowserIsCovered, Deceived
  <2>1. m \in shelved \/ dep = "tools" \/ Deceived(LoopOf[m]) \/ Reached(m)
    BY <1>a, <1>c DEF BrowserIsCovered
  <2>2. Reached(m) => due'[LoopOf[m]] = "now"
    BY <1>a, <1>b, <1>c DEF Reached, InPassOf, ProcessShape, Messages
  <2>3. due'[LoopOf[m]] = "now" => Reached(m)'
    BY <1>a DEF Reached, InPassOf
  <2> QED
    BY <2>1, <2>2, <2>3
<1>9. RestIsEarned'
  <2>1. CASE phase' = "polling"
    <3>1. \A l \in Loops \ {place'} : due'[l] = "now" => earned[l]
      BY <1>a, <1>b, <1>c DEF RestIsEarned, InPassOf
    <3> QED
      BY <1>a, <2>1, <3>1 DEF RestIsEarned, InPassOf
  <2>2. CASE phase' = "asleep"
    <3>1. \A l \in Loops : due'[l] = "now" => earned[l]
      BY <1>a, <1>b, <1>c DEF RestIsEarned, InPassOf
    <3> QED
      BY <1>a, <2>2, <3>1 DEF RestIsEarned, InPassOf
  <2>3. CASE phase' = "ending"
    BY <2>3 DEF RestIsEarned
  <2> QED
    BY <1>a, <2>1, <2>2, <2>3
<1> QED
  BY <1>1, <1>2, <1>3, <1>4, <1>5, <1>6, <1>7, <1>8, <1>9

\* The sleep is over.
LEMMA WakeUpSweep == ASSUME SweepInv, WakeUp PROVE SweepCore'
<1>a. /\ due' = due /\ hinted' = FALSE /\ woken' \in BOOLEAN
      /\ phase' \in {"ending", "polling", "asleep"} /\ place' \in Loops
      /\ earned' \in [Loops -> BOOLEAN]
      /\ phase' # "ending" => ~signal /\ ~childGone
      /\ phase' = "polling" =>
           /\ due[place'] = "now" /\ place' >= 1
           /\ \A l \in Loops \ {place'} : earned'[l] = earned[l]
      /\ phase' # "polling" => earned' = earned
      /\ phase' = "asleep" /\ ~woken' => \A l \in Loops : due[l] # "now"
  <2>1. TypeOK /\ Onward(1, due) /\ due \in [Loops -> {"now", "later", "never"}]
    BY DEF SweepInv, SweepCore, TypeOK, WakeUp
  <2>2. 1 \in Nat \ {0}
    OBVIOUS
  <2> QED
    BY <2>1, <2>2, Goes
<1> USE SweepAssumption DEF SweepInv, SweepCore, TypeOK, Phases, inbox, process, status, work, history, Up
<1>b. due \in [Loops -> {"now", "later", "never"}]
  OBVIOUS
<1>c. /\ UNCHANGED <<dep, mode, signal, childGone, status, work, shelved, events>>
      /\ mode = "up" /\ phase = "asleep" /\ list = "none" /\ chosen = {} /\ turn = 0
      /\ UNCHANGED inbox
  BY DEF WakeUp, InPass, Asleep, ProcessShape, ListShape
<1>1. TypeOK'
  BY <1>a, <1>b, <1>c
<1>2. ProcessShape'
  BY <1>a, <1>c DEF ProcessShape
<1>3. CountIsKept'
  BY <1>c DEF CountIsKept
<1>4. HoldOutlivesProcess'
  BY <1>a DEF HoldOutlivesProcess
<1>5. ListShape'
  BY <1>a, <1>c DEF ListShape
<1>6. HoldIsCovered'
  <2> SUFFICES ASSUME phase' # "ending", NEW l \in Browser, hold[l]
               PROVE  dep = "tools" \/ l \in missed \/ (stale[l] /\ Again(l)')
    BY <1>c DEF HoldIsCovered
  <2>1. dep = "tools" \/ l \in missed \/ (stale[l] /\ Again(l))
    BY <1>a, <1>c DEF HoldIsCovered
  <2>2. Again(l) => due'[l] = "now"
    BY <1>a, <1>b, <1>c DEF Again, InPassOf
  <2>3. due'[l] = "now" => Again(l)'
    BY <1>a DEF Again, InPassOf
  <2> QED
    BY <2>1, <2>2, <2>3
<1>7. MissedIsHinted'
  BY <1>a, <1>c DEF MissedIsHinted
<1>8. BrowserIsCovered'
  <2> SUFFICES ASSUME phase' # "ending", NEW m \in Messages, where[m] = "captured",
                      LoopOf[m] \in Browser
               PROVE  m \in shelved \/ dep = "tools" \/ Deceived(LoopOf[m]) \/ Reached(m)'
    BY <1>c DEF BrowserIsCovered, Deceived
  <2>1. m \in shelved \/ dep = "tools" \/ Deceived(LoopOf[m]) \/ Reached(m)
    BY <1>a, <1>c DEF BrowserIsCovered
  <2>2. Reached(m) => due'[LoopOf[m]] = "now"
    BY <1>a, <1>b, <1>c DEF Reached, InPassOf, ProcessShape, Messages
  <2>3. due'[LoopOf[m]] = "now" => Reached(m)'
    BY <1>a DEF Reached, InPassOf
  <2> QED
    BY <2>1, <2>2, <2>3
<1>9. RestIsEarned'
  <2>1. CASE phase' = "polling"
    <3>1. \A l \in Loops \ {place'} : due'[l] = "now" => earned[l]
      BY <1>a, <1>b, <1>c DEF RestIsEarned, InPassOf
    <3> QED
      BY <1>a, <2>1, <3>1 DEF RestIsEarned, InPassOf
  <2>2. CASE phase' = "asleep"
    <3>1. \A l \in Loops : due'[l] = "now" => earned[l]
      BY <1>a, <1>b, <1>c DEF RestIsEarned, InPassOf
    <3> QED
      BY <1>a, <2>2, <3>1 DEF RestIsEarned, InPassOf
  <2>3. CASE phase' = "ending"
    BY <2>3 DEF RestIsEarned
  <2> QED
    BY <1>a, <2>1, <2>2, <2>3
<1> QED
  BY <1>1, <1>2, <1>3, <1>4, <1>5, <1>6, <1>7, <1>8, <1>9

\* A failed poll is counted, and holds the channel at the threshold.
LEMMA PollFailsSweep == ASSUME SweepInv, PollFails PROVE SweepCore'
<1> USE SweepAssumption DEF SweepInv, SweepCore, TypeOK, Phases, inbox, status, work, Up
<1>1. /\ mode = "up" /\ phase = "polling" /\ place \notin Browser /\ place \in Loops
      /\ UNCHANGED <<where, unsure, dep, mode, signal, childGone, status, work, shelved, events>>
      /\ chosen = {} /\ turn = 0 /\ list = "none"
  BY DEF PollFails, InPass, Polls, ProcessShape, ListShape
<1>2. /\ failures' = row' /\ failures' \in [Loops -> 0..Threshold]
      /\ row'[place] = Counted(place) /\ \A l \in Loops \ {place} : row'[l] = row[l]
  <2>1. Counted(place) = Min({row[place] + 1, Threshold}) /\ Counted(place) \in 0..Threshold
    BY Counts DEF Counted, CountIsKept
  <2>2. failures' = [failures EXCEPT ![place] = Counted(place)]
    BY DEF PollFails
  <2>3. row' = [row EXCEPT ![place] = Counted(place)]
    BY <2>1 DEF PollFails
  <2> QED
    BY <2>1, <2>2, <2>3 DEF CountIsKept
<1>3. CountIsKept'
  BY <1>1, <1>2 DEF CountIsKept
<1>4. CASE Counted(place) < Threshold
  <2>1. phase' = "scanning" /\ UNCHANGED <<due, hinted, place, woken, earned>>
    BY <1>2, <1>4 DEF PollFails, Counted
  <2>2. TypeOK' /\ ProcessShape'
    BY <1>1, <1>2, <2>1 DEF ProcessShape
  <2>3. HoldOutlivesProcess' /\ ListShape'
    BY <1>1, <1>2, <1>4, <2>1 DEF HoldOutlivesProcess, ListShape
  <2>4. HoldIsCovered' /\ MissedIsHinted'
    BY <1>1, <2>1 DEF HoldIsCovered, MissedIsHinted, Again, InPassOf
  <2>5. BrowserIsCovered' /\ RestIsEarned'
    BY <1>1, <2>1 DEF BrowserIsCovered, RestIsEarned, Reached, InPassOf, Deceived
  <2> QED
    BY <1>3, <2>2, <2>3, <2>4, <2>5
<1>5. CASE ~(Counted(place) < Threshold)
  <2>1. Onward(place + 1, AfterPass) /\ place + 1 \in Nat \ {0}
    <3>1. Counted(place) >= Threshold
      BY <1>2, <1>5
    <3> QED
      BY <3>1 DEF PollFails, Loops
  <2>a. /\ due' = AfterPass /\ hinted' = FALSE /\ woken' \in BOOLEAN
        /\ phase' \in {"ending", "polling", "asleep"} /\ place' \in Loops
        /\ earned' \in [Loops -> BOOLEAN]
        /\ phase' # "ending" => ~signal /\ ~childGone
        /\ phase' = "polling" =>
             /\ AfterPass[place'] = "now" /\ place' >= place + 1
             /\ \A l \in Loops \ {place'} : earned'[l] = earned[l]
        /\ phase' # "polling" => earned' = earned
        /\ phase' = "asleep" /\ ~woken' => \A l \in Loops : AfterPass[l] # "now"
    <3>1. TypeOK
      OBVIOUS
    <3> HIDE DEF SweepInv, SweepCore, TypeOK
    <3> QED
      BY <2>1, <3>1, Times, Goes
  <2>b. /\ AfterPass \in [Loops -> {"now", "later", "never"}]
        /\ AfterPass[place] = "now" <=> hinted
        /\ \A l \in Loops \ {place} : AfterPass[l] = due[l]
    BY Times
  <2>2. TypeOK' /\ ProcessShape'
    BY <1>1, <1>2, <2>a, <2>b DEF ProcessShape
  <2>3. HoldOutlivesProcess' /\ ListShape' /\ MissedIsHinted'
    BY <1>1, <2>a DEF HoldOutlivesProcess, ListShape, MissedIsHinted
  <2>4. HoldIsCovered'
    <3> SUFFICES ASSUME phase' # "ending", NEW l \in Browser, hold[l]
                 PROVE  dep = "tools" \/ l \in missed \/ (stale[l] /\ Again(l)')
      BY <1>1 DEF HoldIsCovered
    <3>1. dep = "tools" \/ l \in missed \/ (stale[l] /\ Again(l))
      BY <1>1 DEF HoldIsCovered
    <3>2. Again(l) => due'[l] = "now"
      BY <1>1, <2>a, <2>b DEF Again, InPassOf
    <3>3. due'[l] = "now" => Again(l)'
      BY <2>a DEF Again, InPassOf
    <3> QED
      BY <3>1, <3>2, <3>3
  <2>5. BrowserIsCovered'
    <3> SUFFICES ASSUME phase' # "ending", NEW m \in Messages, where[m] = "captured",
                        LoopOf[m] \in Browser
                 PROVE  m \in shelved \/ dep = "tools" \/ Deceived(LoopOf[m]) \/ Reached(m)'
      BY <1>1 DEF BrowserIsCovered, Deceived
    <3>1. m \in shelved \/ dep = "tools" \/ Deceived(LoopOf[m]) \/ Reached(m)
      BY <1>1, <2>a DEF BrowserIsCovered
    <3>2. Reached(m) => due'[LoopOf[m]] = "now"
      BY <1>1, <2>a, <2>b DEF Reached, InPassOf
    <3>3. due'[LoopOf[m]] = "now" => Reached(m)'
      BY <2>a DEF Reached, InPassOf
    <3> QED
      BY <3>1, <3>2, <3>3
  <2>6. RestIsEarned'
    <3>1. \A l \in Loops : due'[l] = "now" => earned[l]
      BY <1>1, <2>a, <2>b DEF RestIsEarned, InPassOf
    <3> QED
      BY <2>a, <3>1 DEF RestIsEarned, InPassOf
  <2> QED
    BY <1>3, <2>2, <2>3, <2>4, <2>5, <2>6
<1> QED
  BY <1>4, <1>5

\* What a process knew goes with it, whether it exits or is killed.
LEMMA ForgetsSweep ==
  ASSUME SweepInv, Forgets, mode' \in {"stopped", "down"}, events' \in 0..MaxEvents,
         UNCHANGED <<inbox, dep, earned, shelved>>
  PROVE  SweepCore'
<1> USE SweepAssumption DEF SweepInv, SweepCore, TypeOK, Phases, inbox, Up, Forgets, ChosenDone, All
<1>a. 1 \in Loops
  BY DEF Loops
<1>1. TypeOK'
  BY <1>a
<1>2. ProcessShape'
  BY <1>a DEF ProcessShape
<1>3. CountIsKept' /\ HoldOutlivesProcess'
  BY DEF CountIsKept, HoldOutlivesProcess
<1>4. ListShape' /\ HoldIsCovered' /\ MissedIsHinted'
  BY DEF ListShape, HoldIsCovered, MissedIsHinted
<1>5. BrowserIsCovered' /\ RestIsEarned'
  BY DEF BrowserIsCovered, RestIsEarned
<1> QED
  BY <1>1, <1>2, <1>3, <1>4, <1>5

\* The process exits, or is killed anywhere.
LEMMA EndsSweep == ASSUME SweepInv, Exit \/ Kill PROVE SweepCore'
<1>1. events' \in 0..MaxEvents
  BY SweepAssumption DEF Exit, Kill, Happens, history, SweepInv, SweepCore, TypeOK
<1>2. mode' \in {"stopped", "down"} /\ Forgets /\ UNCHANGED <<inbox, dep, earned, shelved>>
  BY DEF Exit, Kill, history
<1> QED
  BY <1>1, <1>2, ForgetsSweep

\* A start finds the counts on disk, and every channel due.
LEMMA StartSweep == ASSUME SweepInv, Start PROVE SweepCore'
<1> USE SweepAssumption DEF SweepInv, SweepCore, TypeOK, Phases, inbox, status, Up, Start, Recover, Kept, All
<1>a. /\ 1 \in Loops /\ mode # "up" /\ phase = "ending" /\ list = "none"
      /\ ~signal /\ ~childGone /\ ~hinted /\ ~woken /\ place = 1 /\ turn = 0 /\ chosen = {}
      /\ due = [l \in Loops |-> "now"] /\ hold = [l \in Loops |-> FALSE] /\ missed = {}
  BY DEF Loops, ProcessShape, ListShape
<1>1. TypeOK'
  BY <1>a
<1>2. ProcessShape'
  BY <1>a DEF ProcessShape
<1>3. CountIsKept' /\ HoldOutlivesProcess'
  BY DEF CountIsKept, HoldOutlivesProcess
<1>4. ListShape' /\ HoldIsCovered' /\ MissedIsHinted'
  BY <1>a DEF ListShape, HoldIsCovered, MissedIsHinted
<1>5. BrowserIsCovered'
  BY <1>a DEF BrowserIsCovered, Reached, InPassOf
<1>6. RestIsEarned'
  BY <1>a DEF RestIsEarned, InPassOf
<1> QED
  BY <1>1, <1>2, <1>3, <1>4, <1>5, <1>6

-----------------------------------------------------------------------------
(* Every step, and what follows for every behaviour.                       *)

\* The first process starts with every channel due.
LEMMA InitSweep == ASSUME Init PROVE SweepInv
<1> USE SweepAssumption DEF Init, Fresh, All
<1>1. 1 \in Loops
  BY DEF Loops
<1>2. TypeOK
  <2>1. 0 \in 0..Threshold /\ 0 \in 0..MaxEvents
    OBVIOUS
  <2>2. failures \in [Loops -> 0..Threshold] /\ row \in [Loops -> 0..Threshold]
    BY <2>1
  <2>3. /\ where \in [Messages -> {"unsent", "outside", "captured", "asked", "replied", "served", "unknown"}]
        /\ threads \in [Loops -> SUBSET Conversations] /\ owed \in [Loops -> SUBSET Messages]
        /\ stale \in [Loops -> BOOLEAN] /\ hold \in [Loops -> BOOLEAN]
        /\ due \in [Loops -> {"now", "later", "never"}] /\ earned \in [Loops -> BOOLEAN]
    OBVIOUS
  <2> QED
    BY <1>1, <2>1, <2>2, <2>3 DEF TypeOK, Phases
<1>3. ProcessShape /\ CountIsKept /\ HoldOutlivesProcess
  BY DEF ProcessShape, CountIsKept, HoldOutlivesProcess
<1>5. ListShape /\ HoldIsCovered /\ MissedIsHinted
  BY DEF ListShape, HoldIsCovered, MissedIsHinted
<1>4. BrowserIsCovered /\ RestIsEarned
  BY DEF BrowserIsCovered, RestIsEarned, InPassOf
<1> QED
  <2>1. HandsAreTaken
    BY DEF HandsAreTaken, Messages
  <2> QED
    BY <1>2, <1>3, <1>4, <1>5, <2>1 DEF SweepInv, SweepCore

\* A message that was captured stays so, and a pass takes what was captured.
LEMMA HandsStep == ASSUME SweepInv, [Next]_vars PROVE HandsAreTaken'
<1> DEFINE Went(m) == where[m] \notin {"unsent", "outside"}
<1>1. \A m \in Messages : Went(m) => Went(m)'
  <2>1. CASE Outside \/ WakeUp \/ Exit \/ Kill \/ Start \/ UNCHANGED vars
    <3>1. \/ where' = where
          \/ \E m \in Messages : where[m] = "unsent" /\ where' \in {[where EXCEPT ![m] = "outside"], [where EXCEPT ![m] = "captured"]}
      BY <2>1 DEF Outside, Arrive, Submit, Ready, IntervalPasses, GoesDown, ComesBack, DependsOn,
         StopSignal, ChildExits, WakeUp, Exit, Kill, Start, Kept, vars, inbox
    <3> QED
      BY <3>1 DEF SweepInv, SweepCore, TypeOK
  <2>2. CASE PollWorks \/ Deliver
    BY <2>2 DEF PollWorks, Deliver, SweepInv, SweepCore, TypeOK
  <2>3. CASE PollFails \/ Answers \/ ReadStatus \/ Scan \/ Turns
    <3>1. CASE Ask
      <4>1. turn \in Messages
        BY <3>1 DEF Ask, InPass, SweepInv, SweepCore, ProcessShape, TypeOK
      <4> QED
        BY <3>1, <4>1 DEF Ask, SweepInv, SweepCore, TypeOK
    <3>2. CASE Replies \/ EndTurn
      BY <3>2 DEF Replies, EndTurn, SweepInv, SweepCore, TypeOK
    <3>3. CASE ~Ask /\ ~Replies /\ ~EndTurn
      <4>1. where' = where
        BY <2>3, <3>3 DEF PollFails, Answers, ReadStatus, Scan, Turns, StartRelease, Interrupted,
           TurnThrows, TurnsDone, inbox
      <4> QED
        BY <4>1
    <3> QED
      BY <3>1, <3>2, <3>3
  <2> QED
    BY <2>1, <2>2, <2>3 DEF Next, Pass
<1>2. CASE Scan
  <2>1. chosen' \subseteq chosen \cup Waiting(place) /\ turn' = turn /\ where' = where
    BY <1>2 DEF Scan, inbox
  <2>2. \A m \in Waiting(place) : Went(m)
    BY DEF Waiting, Open
  <2> QED
    BY <2>1, <2>2 DEF HandsAreTaken, SweepInv
<1>3. CASE StartRelease
  <2>1. chosen \subseteq Nat /\ 0 \notin chosen
    BY SweepAssumption DEF SweepInv, SweepCore, TypeOK, Messages
  <2>2. Min(chosen) \in chosen
    BY <1>3, <2>1, Leasts DEF StartRelease
  <2>3. chosen' \subseteq chosen /\ (turn' = turn \/ turn' = Min(chosen))
    BY <1>3 DEF StartRelease
  <2> QED
    BY <1>1, <2>2, <2>3 DEF HandsAreTaken, SweepInv
<1>4. CASE ~Scan /\ ~StartRelease
  <2>1. chosen' \subseteq chosen /\ turn' \in {turn, 0}
    <3>1. CASE Outside \/ WakeUp \/ Exit \/ Kill \/ Start \/ UNCHANGED vars
      BY <3>1 DEF Outside, Arrive, Submit, Ready, IntervalPasses, GoesDown, ComesBack, DependsOn,
         StopSignal, ChildExits, WakeUp, Exit, Kill, Forgets, ChosenDone, Start, vars, work
    <3>2. CASE PollWorks \/ PollFails \/ Answers \/ ReadStatus \/ Deliver \/ Turns
      BY <1>4, <3>2 DEF PollWorks, PollFails, Answers, ReadStatus, Deliver, Turns, Ask, Replies,
         EndTurn, Interrupted, TurnOver, TurnThrows, TurnsDone, ChosenDone, work
    <3> QED
      BY <1>4, <3>1, <3>2 DEF Next, Pass
  <2> QED
    BY <1>1, <2>1 DEF HandsAreTaken, SweepInv, Messages
<1> QED
  BY <1>2, <1>3, <1>4

\* Every step keeps the rest of the invariant.
LEMMA CoreStep == ASSUME SweepInv, [Next]_vars PROVE SweepCore'
<1>1. CASE GoesDown \/ ComesBack
  <2>1. events' \in 0..MaxEvents
    BY <1>1, SweepAssumption DEF GoesDown, ComesBack, Happens, SweepInv, SweepCore, TypeOK
  <2>2. \E new \in {"up", "tools", "proxy"} : DependsOn(new) /\ (dep = "up" \/ new = "up")
    BY <1>1 DEF GoesDown, ComesBack
  <2> QED
    BY <2>1, <2>2, DependsSweep
<1>2. CASE Outside
  BY <1>1, <1>2, ArriveSweep, SubmitSweep, ReadySweep, IntervalPassesSweep, StopSignalSweep,
     ChildExitsSweep DEF Outside
<1>3. CASE Pass
  BY <1>3, PollWorksSweep, PollFailsSweep, AnswersSweep, ReadStatusSweep, ScanSweep,
     StartReleaseSweep, AskSweep, RepliesSweep, EndTurnSweep, InterruptedSweep, TurnThrowsSweep,
     TurnsDoneSweep, DeliverSweep DEF Pass, Turns
<1>4. CASE WakeUp \/ Exit \/ Kill \/ Start
  BY <1>4, WakeUpSweep, EndsSweep, StartSweep
<1>5. CASE UNCHANGED vars
  <2> USE <1>5 DEF vars, inbox, process, status, work, history
  <2>1. TypeOK'
    BY DEF SweepInv, SweepCore, TypeOK
  <2>5. ProcessShape'
    BY DEF SweepInv, SweepCore, ProcessShape
  <2>2. CountIsKept' /\ HoldOutlivesProcess' /\ ListShape'
    BY DEF SweepInv, SweepCore, CountIsKept, HoldOutlivesProcess, ListShape, Up
  <2>3. HoldIsCovered' /\ MissedIsHinted'
    BY DEF SweepInv, SweepCore, HoldIsCovered, MissedIsHinted, Again, InPassOf
  <2>4. BrowserIsCovered' /\ RestIsEarned'
    BY DEF SweepInv, SweepCore, BrowserIsCovered, Deceived, RestIsEarned, Reached, InPassOf
  <2> QED
    BY <2>1, <2>2, <2>3, <2>4, <2>5 DEF SweepCore
<1> QED
  BY <1>2, <1>3, <1>4, <1>5 DEF Next

\* The invariant of the sweep holds in every reachable state.
THEOREM SweepInvariant == Spec => []SweepInv
<1>1. Init => SweepInv
  BY InitSweep
<1>2. SweepInv /\ [Next]_vars => SweepInv'
  BY CoreStep, HandsStep DEF SweepInv
<1> QED
  BY <1>1, <1>2, PTL DEF Spec

\* poll.ts: a channel at the threshold is not worked on, however many processes the
\* failures were spread over.
THEOREM HoldIsKept == Spec => []HoldOutlivesProcess
<1>1. SweepInv => HoldOutlivesProcess
  BY DEF SweepInv, SweepCore
<1> QED
  BY <1>1, SweepInvariant, PTL

\* index.ts: a process that sleeps with nothing to wake it has left no captured message
\* of a browser channel, but for a server that is down, what its last pass left for the
\* proxy or behind an uncertain input, and a change of a server it missed.
THEOREM SleepOwesNothing == Spec => []AsleepOwesNothing
<1>1. SweepInv => AsleepOwesNothing
  BY SweepAssumption DEF SweepInv, SweepCore, AsleepOwesNothing, ProcessShape, BrowserIsCovered,
     Reached, InPassOf, Asleep, Up
<1> QED
  BY <1>1, SweepInvariant, PTL

\* Only the way onward begins a pass in a process that runs, and it begins one that is due.
LEMMA BeginsStep ==
  ASSUME SweepInv, [Next]_vars, PassBegins
  PROVE  ~signal /\ ~childGone /\ earned[place']
<1>1. WakeUp \/ PollFails \/ Deliver
  BY DEF PassBegins, Next, Outside, Pass, Turns, Arrive, Submit, Ready, IntervalPasses,
     GoesDown, ComesBack, DependsOn, StopSignal, ChildExits, PollWorks, Answers, ReadStatus, Scan,
     StartRelease, Ask, Replies, EndTurn, Interrupted, TurnOver, TurnThrows, TurnsDone, Exit, Kill,
     Forgets, Start, Up, vars, process, status, inbox
<1>2. CASE WakeUp
  <2>1. Onward(1, due) /\ phase = "asleep" /\ 1 \in Nat \ {0} /\ phase' = "polling"
    BY <1>2 DEF WakeUp, Asleep, PassBegins
  <2>2. due[place'] = "now" /\ place' \in Loops /\ ~signal /\ ~childGone
    BY <2>1, Goes DEF SweepInv, SweepCore, TypeOK
  <2> QED
    BY <2>1, <2>2 DEF SweepInv, SweepCore, RestIsEarned, InPassOf
<1>3. CASE PollFails \/ Deliver
  <2>1. Onward(place + 1, AfterPass) /\ phase \in {"polling", "delivering"} /\ phase' = "polling"
    BY <1>3 DEF PollFails, Deliver, InPass, PassBegins
  <2>2. place \in Loops /\ place + 1 \in Nat \ {0} /\ TypeOK
    BY SweepAssumption DEF SweepInv, SweepCore, TypeOK, Loops
  <2>3. /\ AfterPass[place'] = "now" /\ place' \in Loops /\ place' >= place + 1
        /\ ~signal /\ ~childGone
    BY <2>1, <2>2, Times, Goes
  <2>4. place' # place
    BY <2>2, <2>3 DEF Loops
  <2>5. due[place'] = "now"
    BY <2>2, <2>3, <2>4, Times
  <2> QED
    BY <2>1, <2>3, <2>4, <2>5 DEF SweepInv, SweepCore, RestIsEarned, InPassOf
<1> QED
  BY <1>1, <1>2, <1>3

\* index.ts, PA-322: after a signal or the child's death no pass and no turn begins.
THEOREM StopsStart == Spec => StopStartsNothing
<1>1. ASSUME SweepInv, [Next]_vars, turn = 0, turn' # 0 PROVE ~signal /\ ~childGone
  <2>1. StartRelease
    BY <1>1 DEF Next, Outside, Pass, Turns, Arrive, Submit, Ready, IntervalPasses, GoesDown,
       ComesBack, DependsOn, StopSignal, ChildExits, PollWorks, PollFails, Answers, ReadStatus,
       Scan, Ask, Replies, EndTurn, Interrupted, TurnOver, TurnThrows, TurnsDone, Deliver, WakeUp,
       Exit, Kill, Forgets, Start, ChosenDone, vars, process, work
  <2> QED
    BY <2>1 DEF StartRelease, Stopping
<1>2. SweepInv /\ [Next]_vars =>
        [PassBegins \/ (turn = 0 /\ turn' # 0) => ~signal /\ ~childGone]_vars
  BY <1>1, BeginsStep
<1> QED
  BY <1>2, SweepInvariant, PTL DEF Spec, StopStartsNothing

\* poll.ts, rule 1: a pass begins on a channel that was hinted since its last one, has
\* rested its interval, or has had none in this process.
THEOREM RestIsKept == Spec => IntervalKept
<1>1. SweepInv /\ [Next]_vars => [PassBegins => earned[place']]_vars
  BY BeginsStep
<1> QED
  BY <1>1, SweepInvariant, PTL DEF Spec, IntervalKept

-----------------------------------------------------------------------------
\* What the proofs need of the constants: a channel, a count of kills, and a name
\* for the holder of no lock.
UnitConstants == Channels \in Nat \ {0} /\ MaxTrouble \in Nat /\ Unit!Nobody \notin Processes

-----------------------------------------------------------------------------
(* The start. The inductive invariant.                                     *)

Places == {"off", "look", "unlink", "create", "write", "servers", "await", "serve", "connect",
           "run", "close", "release", "leave"}

LockFile == [by : Processes \cup {Unit!Nobody}, written : BOOLEAN]

LockTypes ==
    /\ file \in [1..Channels -> LockFile]
    /\ at \in [Processes -> Places] /\ channel \in [Processes -> 1..Channels]
    /\ saw \in [Processes -> LockFile] /\ locks \in [Processes -> SUBSET (1..Channels)]
    /\ raced \in BOOLEAN

StartTypes ==
    /\ kept \in [Processes -> SUBSET Servers] /\ children \in [Processes -> SUBSET Servers]
    /\ port \in Processes \cup {Unit!Nobody} /\ app \subseteq Processes
    /\ orphans \subseteq Servers /\ abrupt \subseteq Processes

\* The port has one listener, and only the listener connects and runs.
PortIsOwned ==
    \A p \in Processes :
      /\ at[p] \in {"connect", "run"} => port = p
      /\ port = p => at[p] \in {"connect", "run", "close"}

\* What an ending has closed is closed.
EndedIsClosed ==
    \A p \in Processes :
      /\ p \in app => at[p] \in {"connect", "run"} \cup Unit!Ending
      /\ at[p] \in {"off", "leave"} => locks[p] = {}
      /\ at[p] \in {"release", "leave"} => children[p] \cap kept[p] = {}
      /\ at[p] = "off" => children[p] = {}

\* The locks are taken in the order of the channels, and all of them before what follows.
TakenInOrder ==
    \A p \in Processes : \A c \in 1..Channels :
      /\ at[p] \in Unit!Taking => (c \in locks[p] <=> c < channel[p])
      /\ at[p] \in {"servers", "await", "serve", "connect", "run"} \/ port = p => c \in locks[p]

\* The file that names a process is of a lock it has or is writing, unless the process
\* died with it.
FilesHaveMakers ==
    \A p \in Processes \ abrupt : \A c \in 1..Channels :
      file[c].by = p => c \in locks[p] \/ (at[p] = "write" /\ c = channel[p])

\* Only a death without a control group leaves tool servers behind.
OrphansHaveACause == orphans # {} => abrupt \cap ByHand # {}

\* Between its read of a lock file and its write a starter is alone on the channel, and
\* finds the file as it read it, or gone since, until it has made its own.
AloneOnChannel ==
    /\ \A p, q \in Processes :
         /\ p # q /\ channel[p] = channel[q]
         /\ at[p] \in Unit!Taking \ {"look"} /\ at[q] \in Unit!Taking \ {"look"}
         => raced
    /\ ~raced => \A p \in Processes :
         /\ at[p] = "unlink" => file[channel[p]] = saw[p] \/ file[channel[p]].by = Unit!Nobody
         /\ at[p] = "create" => file[channel[p]].by = Unit!Nobody
         /\ at[p] = "write" => file[channel[p]] = [by |-> p, written |-> FALSE]

UnitInv ==
    /\ LockTypes /\ StartTypes /\ PortIsOwned /\ EndedIsClosed
    /\ TakenInOrder /\ FilesHaveMakers /\ OrphansHaveACause /\ AloneOnChannel
    /\ Unit!LocksNameTheirHolder

\* A file that names nobody is a lock file.
LEMMA NoLock == Unit!None \in LockFile /\ Unit!None.by = Unit!Nobody
BY DEF Unit!None, LockFile

\* A process that took a lock is alive, and is taking none of those it has.
LEMMA HolderLives == ASSUME UnitConstants, UnitInv, NEW q \in Processes, NEW c \in locks[q]
                     PROVE  Unit!Live(q) /\ c \in 1..Channels /\ (at[q] \in Unit!Taking => c # channel[q])
BY DEF UnitConstants, UnitInv, LockTypes, EndedIsClosed, TakenInOrder, Unit!Live

-----------------------------------------------------------------------------
(* Every action keeps it.                                                  *)

\* A start begins with no lock and nothing of its own.
LEMMA BeginUnit ==
  ASSUME UnitConstants, UnitInv, NEW p \in Processes, Unit!Begin(p) PROVE UnitInv'
<1> USE DEF UnitConstants, UnitInv, LockTypes, StartTypes, Unit!Begin, Unit!Go, Unit!lockState,
            Unit!serverState, Unit!deaths, Unit!Trouble
<1>1. LockTypes'
  BY NoLock DEF Places
<1>2. StartTypes'
  OBVIOUS
<1>3. PortIsOwned'
  BY DEF PortIsOwned
<1>4. EndedIsClosed'
  BY DEF EndedIsClosed, Unit!Ending
<1>5. TakenInOrder'
  BY DEF TakenInOrder, EndedIsClosed
<1>6. AloneOnChannel'
  BY DEF AloneOnChannel, Unit!Taking
<1>7. Unit!LocksNameTheirHolder'
  BY DEF Unit!LocksNameTheirHolder
<1>8. FilesHaveMakers'
  BY DEF FilesHaveMakers, EndedIsClosed
<1>9. OrphansHaveACause'
  BY DEF OrphansHaveACause
<1> QED
  BY <1>1, <1>2, <1>3, <1>4, <1>5, <1>6, <1>7, <1>8, <1>9

\* A starter that finds another between its read and its write has raced it.
LEMMA LookUnit ==
  ASSUME UnitConstants, UnitInv, NEW p \in Processes, Unit!Look(p) PROVE UnitInv'
<1> USE DEF UnitConstants, UnitInv, LockTypes, StartTypes, Unit!Look, Unit!Go, Unit!lockState, Unit!serverState, Unit!deaths
<1>1. LockTypes'
  BY DEF Places, LockFile
<1>2. StartTypes'
  OBVIOUS
<1>3. PortIsOwned'
  BY DEF PortIsOwned
<1>4. EndedIsClosed'
  BY DEF EndedIsClosed, Unit!Ending
<1>5. TakenInOrder'
  BY DEF TakenInOrder, Unit!Taking
<1>6. AloneOnChannel'
  BY DEF AloneOnChannel, Unit!Taking
<1>7. Unit!LocksNameTheirHolder'
  BY DEF Unit!LocksNameTheirHolder
<1>8. FilesHaveMakers'
  BY DEF FilesHaveMakers, EndedIsClosed
<1>9. OrphansHaveACause'
  BY DEF OrphansHaveACause
<1> QED
  BY <1>1, <1>2, <1>3, <1>4, <1>5, <1>6, <1>7, <1>8, <1>9

\* A lock whose holder lives is left alone.
LEMMA RefusedUnit ==
  ASSUME UnitConstants, UnitInv, NEW p \in Processes, Unit!Refused(p) PROVE UnitInv'
<1> USE DEF UnitConstants, UnitInv, LockTypes, StartTypes, Unit!Refused, Unit!Go, Unit!lockState,
            Unit!serverState, Unit!deaths
<1>1. LockTypes'
  BY DEF Places, LockFile
<1>2. StartTypes'
  OBVIOUS
<1>3. PortIsOwned'
  BY DEF PortIsOwned
<1>4. EndedIsClosed'
  BY DEF EndedIsClosed, Unit!Ending
<1>5. TakenInOrder'
  BY DEF TakenInOrder, Unit!Taking
<1>6. AloneOnChannel'
  BY DEF AloneOnChannel, Unit!Taking
<1>7. Unit!LocksNameTheirHolder'
  BY DEF Unit!LocksNameTheirHolder
<1>8. FilesHaveMakers'
  BY DEF FilesHaveMakers, EndedIsClosed
<1>9. OrphansHaveACause'
  BY DEF OrphansHaveACause
<1> QED
  BY <1>1, <1>2, <1>3, <1>4, <1>5, <1>6, <1>7, <1>8, <1>9

\* A file that nobody took over since the read names no holder that lives.
LEMMA UnlinkUnit ==
  ASSUME UnitConstants, UnitInv, NEW p \in Processes, Unit!Unlink(p) PROVE UnitInv'
<1> USE DEF UnitConstants, UnitInv, LockTypes, StartTypes, Unit!Unlink, Unit!Go, Unit!lockState,
            Unit!serverState, Unit!deaths
<1>a. at[p] = "unlink" /\ at'[p] \in {"close", "create"} /\ \A q \in Processes \ {p} : at'[q] = at[q]
  OBVIOUS
<1>b. /\ file' \in [1..Channels -> LockFile]
      /\ \A c \in 1..Channels : c # channel[p] => file'[c] = file[c]
      /\ file'[channel[p]].by = Unit!Nobody
  <2>1. CASE file[channel[p]].by = Unit!Nobody
    BY <2>1
  <2>2. CASE file[channel[p]].by # Unit!Nobody
    <3>1. file' = [file EXCEPT ![channel[p]] = Unit!None]
      BY <2>2
    <3> QED
      BY <3>1, NoLock
  <2> QED
    BY <2>1, <2>2
<1>1. LockTypes'
  BY <1>b DEF Places
<1>2. StartTypes'
  OBVIOUS
<1>3. PortIsOwned'
  BY DEF PortIsOwned
<1>4. EndedIsClosed'
  BY DEF EndedIsClosed, Unit!Ending
<1>5. TakenInOrder'
  BY DEF TakenInOrder, Unit!Taking
<1>6. AloneOnChannel'
  <2>1. ASSUME NEW q \in Processes, NEW r \in Processes, q # r, channel'[q] = channel'[r],
               at'[q] \in Unit!Taking \ {"look"}, at'[r] \in Unit!Taking \ {"look"}
        PROVE  raced'
    <3>1. at[q] \in Unit!Taking \ {"look"} /\ at[r] \in Unit!Taking \ {"look"}
      BY <1>a, <2>1 DEF Unit!Taking
    <3>2. channel' = channel /\ raced' = raced
      OBVIOUS
    <3> QED
      BY <2>1, <3>1, <3>2 DEF AloneOnChannel
  <2>2. ASSUME ~raced', NEW q \in Processes
        PROVE  /\ at'[q] = "unlink" => file'[channel'[q]] = saw'[q] \/ file'[channel'[q]].by = Unit!Nobody
               /\ at'[q] = "create" => file'[channel'[q]].by = Unit!Nobody
               /\ at'[q] = "write" => file'[channel'[q]] = [by |-> q, written |-> FALSE]
    <3>1. CASE q = p
      BY <1>a, <1>b, <2>2, <3>1 DEF AloneOnChannel, Unit!Taking
    <3>2. CASE q # p
      <4>1. at'[q] = at[q] /\ channel'[q] = channel[q] /\ saw'[q] = saw[q] /\ ~raced
        BY <1>a, <1>b, <2>2, <3>2
      <4>2. at[q] \in Unit!Taking \ {"look"} => channel[q] # channel[p]
        BY <1>a, <2>2, <3>2, <4>1 DEF AloneOnChannel, Unit!Taking
      <4>3. /\ at[q] = "unlink" => file[channel[q]] = saw[q] \/ file[channel[q]].by = Unit!Nobody
            /\ at[q] = "create" => file[channel[q]].by = Unit!Nobody
            /\ at[q] = "write" => file[channel[q]] = [by |-> q, written |-> FALSE]
        BY <4>1 DEF AloneOnChannel
      <4> QED
        BY <1>b, <4>1, <4>2, <4>3 DEF Unit!Taking
    <3> QED
      BY <3>1, <3>2
  <2> QED
    BY <2>1, <2>2 DEF AloneOnChannel
<1>7. Unit!LocksNameTheirHolder'
  <2> SUFFICES ASSUME ~raced', NEW q \in Processes, NEW c \in locks'[q]
               PROVE  file'[c] = [by |-> q, written |-> TRUE]
    BY DEF Unit!LocksNameTheirHolder
  <2>1. c \in locks[q] /\ Unit!Live(q) /\ c \in 1..Channels /\ q # Unit!Nobody
    BY HolderLives
  <2>2. file[c] = [by |-> q, written |-> TRUE]
    BY <2>1 DEF Unit!LocksNameTheirHolder
  <2>3. CASE c = channel[p]
    <3>1. q # p
      BY <1>a, <2>1, <2>3, HolderLives DEF Unit!Taking
    <3>2. file[channel[p]].by = q /\ ~raced
      BY <2>2, <2>3
    <3>3. file[channel[p]] = saw[p] \/ file[channel[p]].by = Unit!Nobody
      BY <1>a, <3>2 DEF AloneOnChannel
    <3> QED
      BY <2>1, <2>2, <2>3, <3>1, <3>2, <3>3 DEF Unit!HeldBy
  <2> QED
    BY <1>b, <2>1, <2>2, <2>3
<1>8. FilesHaveMakers'
  <2> SUFFICES ASSUME NEW q \in Processes \ abrupt, NEW c \in 1..Channels, file'[c].by = q
               PROVE  c \in locks[q] \/ (at'[q] = "write" /\ c = channel[q])
    BY DEF FilesHaveMakers
  <2>1. c # channel[p] /\ file[c].by = q
    BY <1>b
  <2>2. c \in locks[q] \/ (at[q] = "write" /\ c = channel[q])
    BY <2>1 DEF FilesHaveMakers
  <2> QED
    BY <1>a, <2>2
<1>9. OrphansHaveACause'
  BY DEF OrphansHaveACause
<1> QED
  BY <1>1, <1>2, <1>3, <1>4, <1>5, <1>6, <1>7, <1>8, <1>9

\* A file is created where there is none, and so where nobody holds the channel.
LEMMA CreateUnit ==
  ASSUME UnitConstants, UnitInv, NEW p \in Processes, Unit!Create(p) PROVE UnitInv'
<1> USE DEF UnitConstants, UnitInv, LockTypes, StartTypes, Unit!Create, Unit!Go, Unit!lockState,
            Unit!serverState, Unit!deaths
<1>a. at[p] = "create" /\ at'[p] \in {"close", "write"} /\ \A q \in Processes \ {p} : at'[q] = at[q]
  OBVIOUS
<1>b. /\ file' \in [1..Channels -> LockFile]
      /\ \A c \in 1..Channels : c # channel[p] => file'[c] = file[c]
      /\ at'[p] = "write" => file'[channel[p]] = [by |-> p, written |-> FALSE]
  <2>1. CASE file[channel[p]].by # Unit!Nobody
    BY <2>1
  <2>2. CASE file[channel[p]].by = Unit!Nobody
    <3>1. file' = [file EXCEPT ![channel[p]] = [by |-> p, written |-> FALSE]]
      BY <2>2
    <3>2. [by |-> p, written |-> FALSE] \in LockFile
      BY DEF LockFile
    <3> QED
      BY <3>1, <3>2
  <2> QED
    BY <2>1, <2>2
<1>1. LockTypes'
  BY <1>b DEF Places
<1>2. StartTypes'
  OBVIOUS
<1>3. PortIsOwned'
  BY DEF PortIsOwned
<1>4. EndedIsClosed'
  BY DEF EndedIsClosed, Unit!Ending
<1>5. TakenInOrder'
  BY DEF TakenInOrder, Unit!Taking
<1>6. AloneOnChannel'
  <2>1. ASSUME NEW q \in Processes, NEW r \in Processes, q # r, channel'[q] = channel'[r],
               at'[q] \in Unit!Taking \ {"look"}, at'[r] \in Unit!Taking \ {"look"}
        PROVE  raced'
    <3>1. at[q] \in Unit!Taking \ {"look"} /\ at[r] \in Unit!Taking \ {"look"}
      BY <1>a, <2>1 DEF Unit!Taking
    <3>2. channel' = channel /\ raced' = raced
      OBVIOUS
    <3> QED
      BY <2>1, <3>1, <3>2 DEF AloneOnChannel
  <2>2. ASSUME ~raced', NEW q \in Processes
        PROVE  /\ at'[q] = "unlink" => file'[channel'[q]] = saw'[q] \/ file'[channel'[q]].by = Unit!Nobody
               /\ at'[q] = "create" => file'[channel'[q]].by = Unit!Nobody
               /\ at'[q] = "write" => file'[channel'[q]] = [by |-> q, written |-> FALSE]
    <3>1. CASE q = p
      BY <1>a, <1>b, <2>2, <3>1 DEF AloneOnChannel, Unit!Taking
    <3>2. CASE q # p
      <4>1. at'[q] = at[q] /\ channel'[q] = channel[q] /\ saw'[q] = saw[q] /\ ~raced
        BY <1>a, <1>b, <2>2, <3>2
      <4>2. at[q] \in Unit!Taking \ {"look"} => channel[q] # channel[p]
        BY <1>a, <2>2, <3>2, <4>1 DEF AloneOnChannel, Unit!Taking
      <4>3. /\ at[q] = "unlink" => file[channel[q]] = saw[q] \/ file[channel[q]].by = Unit!Nobody
            /\ at[q] = "create" => file[channel[q]].by = Unit!Nobody
            /\ at[q] = "write" => file[channel[q]] = [by |-> q, written |-> FALSE]
        BY <4>1 DEF AloneOnChannel
      <4> QED
        BY <1>b, <4>1, <4>2, <4>3 DEF Unit!Taking
    <3> QED
      BY <3>1, <3>2
  <2> QED
    BY <2>1, <2>2 DEF AloneOnChannel
<1>7. Unit!LocksNameTheirHolder'
  BY DEF Unit!LocksNameTheirHolder
<1>8. FilesHaveMakers'
  BY DEF FilesHaveMakers, EndedIsClosed
<1>9. OrphansHaveACause'
  BY DEF OrphansHaveACause
<1> QED
  BY <1>1, <1>2, <1>3, <1>4, <1>5, <1>6, <1>7, <1>8, <1>9

\* The starter has its lock.
LEMMA WriteUnit ==
  ASSUME UnitConstants, UnitInv, NEW p \in Processes, Unit!Write(p) PROVE UnitInv'
<1> USE DEF UnitConstants, UnitInv, LockTypes, StartTypes, Unit!Write, Unit!Go, Unit!lockState, Unit!serverState, Unit!deaths
<1>a. at[p] = "write" /\ at'[p] \in {"look", "servers"} /\ \A q \in Processes \ {p} : at'[q] = at[q]
  OBVIOUS
<1>b. /\ file' \in [1..Channels -> LockFile]
      /\ \A c \in 1..Channels : c # channel[p] => file'[c] = file[c]
      /\ file[channel[p]] = [by |-> p, written |-> FALSE]
           => file'[channel[p]] = [by |-> p, written |-> TRUE]
      /\ \A q \in Processes \ {p} : channel'[q] = channel[q]
  <2>1. channel[p] \in 1..Channels /\ file[channel[p]] \in LockFile
    OBVIOUS
  <2>2. CASE file[channel[p]].by = p
    <3>1. file' = [file EXCEPT ![channel[p]] = [by |-> p, written |-> TRUE]]
      BY <2>2
    <3>2. [by |-> p, written |-> TRUE] \in LockFile
      BY DEF LockFile
    <3> QED
      BY <2>1, <3>1, <3>2
  <2>3. CASE file[channel[p]].by # p
    BY <2>3
  <2> QED
    BY <2>2, <2>3
<1>1. LockTypes'
  <2>1. channel' \in [Processes -> 1..Channels] /\ locks' \in [Processes -> SUBSET (1..Channels)]
    <3>1. channel[p] < Channels => channel[p] + 1 \in 1..Channels
      OBVIOUS
    <3>2. locks[p] \cup {channel[p]} \in SUBSET (1..Channels)
      OBVIOUS
    <3>3. channel' \in [Processes -> 1..Channels]
      BY <3>1
    <3> QED
      BY <3>2, <3>3
  <2>2. at' \in [Processes -> Places]
    BY DEF Places
  <2> QED
    BY <1>b, <2>1, <2>2
<1>2. StartTypes'
  OBVIOUS
<1>3. PortIsOwned'
  BY DEF PortIsOwned
<1>4. EndedIsClosed'
  BY DEF EndedIsClosed, Unit!Ending
<1>5. TakenInOrder'
  BY DEF TakenInOrder, Unit!Taking
<1>6. AloneOnChannel'
  <2>1. ASSUME NEW q \in Processes, NEW r \in Processes, q # r, channel'[q] = channel'[r],
               at'[q] \in Unit!Taking \ {"look"}, at'[r] \in Unit!Taking \ {"look"}
        PROVE  raced'
    <3>1. /\ at[q] \in Unit!Taking \ {"look"} /\ at[r] \in Unit!Taking \ {"look"}
          /\ q # p /\ r # p
      BY <1>a, <2>1 DEF Unit!Taking
    <3>2. channel[q] = channel[r]
      BY <1>b, <2>1, <3>1
    <3> QED
      BY <2>1, <3>1, <3>2 DEF AloneOnChannel
  <2>2. ASSUME ~raced', NEW q \in Processes
        PROVE  /\ at'[q] = "unlink" => file'[channel'[q]] = saw'[q] \/ file'[channel'[q]].by = Unit!Nobody
               /\ at'[q] = "create" => file'[channel'[q]].by = Unit!Nobody
               /\ at'[q] = "write" => file'[channel'[q]] = [by |-> q, written |-> FALSE]
    <3>1. CASE q = p
      BY <1>a, <1>b, <2>2, <3>1 DEF AloneOnChannel, Unit!Taking
    <3>2. CASE q # p
      <4>1. at'[q] = at[q] /\ channel'[q] = channel[q] /\ saw'[q] = saw[q] /\ ~raced
        BY <1>a, <1>b, <2>2, <3>2
      <4>2. at[q] \in Unit!Taking \ {"look"} => channel[q] # channel[p]
        BY <1>a, <2>2, <3>2, <4>1 DEF AloneOnChannel, Unit!Taking
      <4>3. /\ at[q] = "unlink" => file[channel[q]] = saw[q] \/ file[channel[q]].by = Unit!Nobody
            /\ at[q] = "create" => file[channel[q]].by = Unit!Nobody
            /\ at[q] = "write" => file[channel[q]] = [by |-> q, written |-> FALSE]
        BY <4>1 DEF AloneOnChannel
      <4> QED
        BY <1>b, <4>1, <4>2, <4>3 DEF Unit!Taking
    <3> QED
      BY <3>1, <3>2
  <2> QED
    BY <2>1, <2>2 DEF AloneOnChannel
<1>7. Unit!LocksNameTheirHolder'
  <2> SUFFICES ASSUME ~raced', NEW q \in Processes, NEW c \in locks'[q]
               PROVE  file'[c] = [by |-> q, written |-> TRUE]
    BY DEF Unit!LocksNameTheirHolder
  <2>1. file[channel[p]] = [by |-> p, written |-> FALSE]
    BY <1>a DEF AloneOnChannel
  <2>2. CASE q = p /\ c = channel[p]
    BY <1>b, <2>1, <2>2
  <2>3. CASE ~(q = p /\ c = channel[p])
    <3>1. c \in locks[q] /\ c \in 1..Channels
      BY <2>3, HolderLives
    <3>2. file[c] = [by |-> q, written |-> TRUE]
      BY <3>1 DEF Unit!LocksNameTheirHolder
    <3>3. file[c].written /\ file[channel[p]].written = FALSE
      BY <2>1, <3>2
    <3>4. c # channel[p]
      BY <3>3
    <3> QED
      BY <1>b, <3>1, <3>2, <3>4
  <2> QED
    BY <2>2, <2>3
<1>8. FilesHaveMakers'
  BY DEF FilesHaveMakers, EndedIsClosed
<1>9. OrphansHaveACause'
  BY DEF OrphansHaveACause
<1> QED
  BY <1>1, <1>2, <1>3, <1>4, <1>5, <1>6, <1>7, <1>8, <1>9

\* Children are started, or a part of them and their handles lost.
LEMMA StartToolServersUnit ==
  ASSUME UnitConstants, UnitInv, NEW p \in Processes, Unit!StartToolServers(p) PROVE UnitInv'
<1> USE DEF UnitConstants, UnitInv, LockTypes, StartTypes, Unit!StartToolServers, Unit!Go, Unit!lockState,
            Unit!serverState, Unit!deaths, Unit!Trouble
<1>a. at[p] = "servers" /\ at'[p] \in {"await", "close"} /\ \A q \in Processes \ {p} : at'[q] = at[q]
  OBVIOUS
<1>b. \A q \in Processes : channel'[q] = channel[q] /\ saw'[q] = saw[q]
  OBVIOUS
<1>1. LockTypes'
  BY DEF Places, LockFile
<1>2. StartTypes'
  <2>1. children' \in [Processes -> SUBSET Servers] /\ kept' \in [Processes -> SUBSET Servers]
    OBVIOUS
  <2> QED
    BY <2>1
<1>3. PortIsOwned'
  BY DEF PortIsOwned
<1>4. EndedIsClosed'
  BY DEF EndedIsClosed, Unit!Ending
<1>5. TakenInOrder'
  BY DEF TakenInOrder, Unit!Taking
<1>6. AloneOnChannel'
  <2>1. ASSUME NEW q \in Processes, NEW r \in Processes, q # r, channel'[q] = channel'[r],
               at'[q] \in Unit!Taking \ {"look"}, at'[r] \in Unit!Taking \ {"look"}
        PROVE  raced'
    BY <1>a, <2>1 DEF AloneOnChannel, Unit!Taking
  <2>2. ASSUME ~raced', NEW q \in Processes
        PROVE  /\ at'[q] = "unlink" => file'[channel'[q]] = saw'[q] \/ file'[channel'[q]].by = Unit!Nobody
               /\ at'[q] = "create" => file'[channel'[q]].by = Unit!Nobody
               /\ at'[q] = "write" => file'[channel'[q]] = [by |-> q, written |-> FALSE]
    <3>1. CASE q = p
      BY <1>a, <1>b, <2>2, <3>1 DEF AloneOnChannel, Unit!Taking
    <3>2. CASE q # p
      <4>1. at'[q] = at[q] /\ channel'[q] = channel[q] /\ saw'[q] = saw[q] /\ ~raced
        BY <1>a, <1>b, <2>2, <3>2
      <4>2. at[q] \in Unit!Taking \ {"look"} => file' = file
        BY <1>a, <2>2, <3>2, <4>1 DEF AloneOnChannel, Unit!Taking
      <4>3. /\ at[q] = "unlink" => file[channel[q]] = saw[q] \/ file[channel[q]].by = Unit!Nobody
            /\ at[q] = "create" => file[channel[q]].by = Unit!Nobody
            /\ at[q] = "write" => file[channel[q]] = [by |-> q, written |-> FALSE]
        BY <4>1 DEF AloneOnChannel
      <4> QED
        BY <1>b, <4>1, <4>2, <4>3 DEF Unit!Taking
    <3> QED
      BY <3>1, <3>2
  <2> QED
    BY <2>1, <2>2 DEF AloneOnChannel
<1>7. Unit!LocksNameTheirHolder'
  BY DEF Unit!LocksNameTheirHolder
<1>8. FilesHaveMakers'
  BY DEF FilesHaveMakers, EndedIsClosed
<1>9. OrphansHaveACause'
  BY DEF OrphansHaveACause
<1> QED
  BY <1>1, <1>2, <1>3, <1>4, <1>5, <1>6, <1>7, <1>8, <1>9

\* The units are waited for.
LEMMA AwaitToolServersUnit ==
  ASSUME UnitConstants, UnitInv, NEW p \in Processes, Unit!AwaitToolServers(p) PROVE UnitInv'
<1> USE DEF UnitConstants, UnitInv, LockTypes, StartTypes, Unit!AwaitToolServers, Unit!Go, Unit!lockState,
            Unit!serverState, Unit!deaths
<1>1. LockTypes'
  BY DEF Places, LockFile
<1>2. StartTypes'
  OBVIOUS
<1>3. PortIsOwned'
  BY DEF PortIsOwned
<1>4. EndedIsClosed'
  BY DEF EndedIsClosed, Unit!Ending
<1>5. TakenInOrder'
  BY DEF TakenInOrder, Unit!Taking
<1>6. AloneOnChannel'
  <2>1. \A q \in Processes : at'[q] \in Unit!Taking => at'[q] = at[q]
    BY DEF Unit!Taking
  <2>2. UNCHANGED <<channel, file, saw, raced>>
    OBVIOUS
  <2>3. \A q \in Processes : at'[q] \in {"unlink", "create", "write"} => at'[q] = at[q]
    BY <2>1 DEF Unit!Taking
  <2> QED
    BY <2>1, <2>2, <2>3 DEF AloneOnChannel
<1>7. Unit!LocksNameTheirHolder'
  BY DEF Unit!LocksNameTheirHolder
<1>8. FilesHaveMakers'
  BY DEF FilesHaveMakers, EndedIsClosed
<1>9. OrphansHaveACause'
  BY DEF OrphansHaveACause
<1> QED
  BY <1>1, <1>2, <1>3, <1>4, <1>5, <1>6, <1>7, <1>8, <1>9

\* One listens on the port; another that finds it taken ends.
LEMMA ServeUnit ==
  ASSUME UnitConstants, UnitInv, NEW p \in Processes, Unit!Serve(p) PROVE UnitInv'
<1> USE DEF UnitConstants, UnitInv, LockTypes, StartTypes, Unit!Serve, Unit!Dies, Unit!Go, Unit!lockState, Unit!serverState, Unit!deaths
<1>a. at[p] = "serve" /\ at'[p] \in {"connect", "off"} /\ \A q \in Processes \ {p} : at'[q] = at[q]
  OBVIOUS
<1>b. \A q \in Processes : channel'[q] = channel[q] /\ saw'[q] = saw[q]
  OBVIOUS
<1>1. LockTypes'
  BY DEF Places, LockFile
<1>2. StartTypes'
  OBVIOUS
<1>3. PortIsOwned'
  BY DEF PortIsOwned
<1>4. EndedIsClosed'
  <2>1. CASE port = Unit!Nobody
    BY <1>a, <2>1 DEF EndedIsClosed, Unit!Ending
  <2>2. CASE port # Unit!Nobody
    BY <1>a, <2>2 DEF EndedIsClosed, Unit!Ending
  <2> QED
    BY <2>1, <2>2
<1>5. TakenInOrder'
  BY DEF TakenInOrder, Unit!Taking
<1>6. AloneOnChannel'
  <2>1. ASSUME NEW q \in Processes, NEW r \in Processes, q # r, channel'[q] = channel'[r],
               at'[q] \in Unit!Taking \ {"look"}, at'[r] \in Unit!Taking \ {"look"}
        PROVE  raced'
    BY <1>a, <2>1 DEF AloneOnChannel, Unit!Taking
  <2>2. ASSUME ~raced', NEW q \in Processes
        PROVE  /\ at'[q] = "unlink" => file'[channel'[q]] = saw'[q] \/ file'[channel'[q]].by = Unit!Nobody
               /\ at'[q] = "create" => file'[channel'[q]].by = Unit!Nobody
               /\ at'[q] = "write" => file'[channel'[q]] = [by |-> q, written |-> FALSE]
    <3>1. CASE q = p
      BY <1>a, <1>b, <2>2, <3>1 DEF AloneOnChannel, Unit!Taking
    <3>2. CASE q # p
      <4>1. at'[q] = at[q] /\ channel'[q] = channel[q] /\ saw'[q] = saw[q] /\ ~raced
        BY <1>a, <1>b, <2>2, <3>2
      <4>2. at[q] \in Unit!Taking \ {"look"} => file' = file
        BY <1>a, <2>2, <3>2, <4>1 DEF AloneOnChannel, Unit!Taking
      <4>3. /\ at[q] = "unlink" => file[channel[q]] = saw[q] \/ file[channel[q]].by = Unit!Nobody
            /\ at[q] = "create" => file[channel[q]].by = Unit!Nobody
            /\ at[q] = "write" => file[channel[q]] = [by |-> q, written |-> FALSE]
        BY <4>1 DEF AloneOnChannel
      <4> QED
        BY <1>b, <4>1, <4>2, <4>3 DEF Unit!Taking
    <3> QED
      BY <3>1, <3>2
  <2> QED
    BY <2>1, <2>2 DEF AloneOnChannel
<1>7. Unit!LocksNameTheirHolder'
  BY DEF Unit!LocksNameTheirHolder
<1>8. FilesHaveMakers'
  BY DEF FilesHaveMakers, EndedIsClosed
<1>9. OrphansHaveACause'
  BY DEF OrphansHaveACause
<1> QED
  BY <1>1, <1>2, <1>3, <1>4, <1>5, <1>6, <1>7, <1>8, <1>9

\* The app-server answers, or has died.
LEMMA ConnectUnit ==
  ASSUME UnitConstants, UnitInv, NEW p \in Processes, Unit!Connect(p) PROVE UnitInv'
<1> USE DEF UnitConstants, UnitInv, LockTypes, StartTypes, Unit!Connect, Unit!Go, Unit!lockState,
            Unit!serverState, Unit!deaths, Unit!Trouble
<1>1. LockTypes'
  BY DEF Places, LockFile
<1>2. StartTypes'
  OBVIOUS
<1>3. PortIsOwned'
  BY DEF PortIsOwned
<1>4. EndedIsClosed'
  BY DEF EndedIsClosed, Unit!Ending
<1>5. TakenInOrder'
  BY DEF TakenInOrder, Unit!Taking
<1>6. AloneOnChannel'
  <2>1. UNCHANGED <<file, channel, saw, raced>>
    OBVIOUS
  <2>2. \A q \in Processes : at'[q] \in Unit!Taking => at[q] = at'[q]
    BY DEF Unit!Taking
  <2> HIDE DEF Unit!Connect, Unit!Go, Unit!lockState, Unit!serverState, Unit!deaths, Unit!Trouble, LockTypes, StartTypes
  <2> QED
    BY <2>1, <2>2 DEF AloneOnChannel, Unit!Taking
<1>7. Unit!LocksNameTheirHolder'
  BY DEF Unit!LocksNameTheirHolder
<1>8. FilesHaveMakers'
  BY DEF FilesHaveMakers, EndedIsClosed
<1>9. OrphansHaveACause'
  BY DEF OrphansHaveACause
<1> QED
  BY <1>1, <1>2, <1>3, <1>4, <1>5, <1>6, <1>7, <1>8, <1>9

\* A stop is noted.
LEMMA StopSignalUnit ==
  ASSUME UnitConstants, UnitInv, NEW p \in Processes, Unit!StopSignal(p) PROVE UnitInv'
<1> USE DEF UnitConstants, UnitInv, LockTypes, StartTypes, Unit!StopSignal, Unit!Go, Unit!lockState,
            Unit!serverState, Unit!deaths, Unit!Trouble
<1>1. LockTypes'
  BY DEF Places, LockFile
<1>2. StartTypes'
  OBVIOUS
<1>3. PortIsOwned'
  BY DEF PortIsOwned
<1>4. EndedIsClosed'
  BY DEF EndedIsClosed, Unit!Ending
<1>5. TakenInOrder'
  BY DEF TakenInOrder, Unit!Taking
<1>6. AloneOnChannel'
  BY DEF AloneOnChannel, Unit!Taking
<1>7. Unit!LocksNameTheirHolder'
  BY DEF Unit!LocksNameTheirHolder
<1>8. FilesHaveMakers'
  BY DEF FilesHaveMakers, EndedIsClosed
<1>9. OrphansHaveACause'
  BY DEF OrphansHaveACause
<1> QED
  BY <1>1, <1>2, <1>3, <1>4, <1>5, <1>6, <1>7, <1>8, <1>9

\* The app-server dies.
LEMMA ChildExitsUnit ==
  ASSUME UnitConstants, UnitInv, NEW p \in Processes, Unit!ChildExits(p) PROVE UnitInv'
<1> USE DEF UnitConstants, UnitInv, LockTypes, StartTypes, Unit!ChildExits, Unit!Go, Unit!lockState,
            Unit!serverState, Unit!deaths, Unit!Trouble
<1>1. LockTypes'
  BY DEF Places, LockFile
<1>2. StartTypes'
  OBVIOUS
<1>3. PortIsOwned'
  BY DEF PortIsOwned
<1>4. EndedIsClosed'
  BY DEF EndedIsClosed, Unit!Ending
<1>5. TakenInOrder'
  BY DEF TakenInOrder, Unit!Taking
<1>6. AloneOnChannel'
  BY DEF AloneOnChannel, Unit!Taking
<1>7. Unit!LocksNameTheirHolder'
  BY DEF Unit!LocksNameTheirHolder
<1>8. FilesHaveMakers'
  BY DEF FilesHaveMakers, EndedIsClosed
<1>9. OrphansHaveACause'
  BY DEF OrphansHaveACause
<1> QED
  BY <1>1, <1>2, <1>3, <1>4, <1>5, <1>6, <1>7, <1>8, <1>9

\* A run that was told to stop ends.
LEMMA EndRunUnit ==
  ASSUME UnitConstants, UnitInv, NEW p \in Processes, Unit!EndRun(p) PROVE UnitInv'
<1> USE DEF UnitConstants, UnitInv, LockTypes, StartTypes, Unit!EndRun, Unit!Go, Unit!lockState,
            Unit!serverState, Unit!deaths
<1>1. LockTypes'
  BY DEF Places, LockFile
<1>2. StartTypes'
  OBVIOUS
<1>3. PortIsOwned'
  BY DEF PortIsOwned
<1>4. EndedIsClosed'
  BY DEF EndedIsClosed, Unit!Ending
<1>5. TakenInOrder'
  BY DEF TakenInOrder, Unit!Taking
<1>6. AloneOnChannel'
  BY DEF AloneOnChannel, Unit!Taking
<1>7. Unit!LocksNameTheirHolder'
  BY DEF Unit!LocksNameTheirHolder
<1>8. FilesHaveMakers'
  BY DEF FilesHaveMakers, EndedIsClosed
<1>9. OrphansHaveACause'
  BY DEF OrphansHaveACause
<1> QED
  BY <1>1, <1>2, <1>3, <1>4, <1>5, <1>6, <1>7, <1>8, <1>9

\* The port and the children are let go.
LEMMA CloseUnit ==
  ASSUME UnitConstants, UnitInv, NEW p \in Processes, Unit!Close(p) PROVE UnitInv'
<1> USE DEF UnitConstants, UnitInv, LockTypes, StartTypes, Unit!Close, Unit!Go, Unit!lockState, Unit!serverState, Unit!deaths
<1>1. LockTypes'
  BY DEF Places, LockFile
<1>2. StartTypes'
  OBVIOUS
<1>3. PortIsOwned'
  BY DEF PortIsOwned
<1>4. EndedIsClosed'
  BY DEF EndedIsClosed, Unit!Ending
<1>5. TakenInOrder'
  BY DEF TakenInOrder, Unit!Taking
<1>6. AloneOnChannel'
  BY DEF AloneOnChannel, Unit!Taking
<1>7. Unit!LocksNameTheirHolder'
  BY DEF Unit!LocksNameTheirHolder
<1>8. FilesHaveMakers'
  BY DEF FilesHaveMakers, EndedIsClosed
<1>9. OrphansHaveACause'
  BY DEF OrphansHaveACause
<1> QED
  BY <1>1, <1>2, <1>3, <1>4, <1>5, <1>6, <1>7, <1>8, <1>9

\* Every lock taken is let go, and no other.
LEMMA ReleaseUnit ==
  ASSUME UnitConstants, UnitInv, NEW p \in Processes, Unit!Release(p) PROVE UnitInv'
<1> USE DEF UnitConstants, UnitInv, LockTypes, StartTypes, Unit!Release, Unit!Go, Unit!lockState,
            Unit!serverState, Unit!deaths
<1>a. at[p] = "release" /\ at'[p] = "leave" /\ \A q \in Processes \ {p} : at'[q] = at[q]
  OBVIOUS
<1>b. /\ file' \in [1..Channels -> LockFile]
      /\ \A c \in 1..Channels : c \notin locks[p] => file'[c] = file[c]
      /\ \A c \in 1..Channels : c \in locks[p] => file'[c] = Unit!None
      /\ \A c \in locks[p] : c \in 1..Channels /\ (raced \/ file[c] = [by |-> p, written |-> TRUE])
  BY NoLock DEF Unit!LocksNameTheirHolder
<1>1. LockTypes'
  BY <1>b DEF Places
<1>2. StartTypes'
  OBVIOUS
<1>3. PortIsOwned'
  BY DEF PortIsOwned
<1>4. EndedIsClosed'
  BY DEF EndedIsClosed, Unit!Ending
<1>5. TakenInOrder'
  <2> SUFFICES ASSUME NEW q \in Processes, NEW c \in 1..Channels
               PROVE  /\ at'[q] \in Unit!Taking => (c \in locks'[q] <=> c < channel[q])
                      /\ at'[q] \in {"servers", "await", "serve", "connect", "run"} \/ port = q
                           => c \in locks'[q]
    BY DEF TakenInOrder
  <2>1. CASE q = p
    BY <1>a, <2>1 DEF PortIsOwned, Unit!Taking
  <2>2. CASE q # p
    <3>1. at'[q] = at[q] /\ locks'[q] = locks[q]
      BY <1>a, <2>2
    <3> QED
      BY <3>1 DEF TakenInOrder
  <2> QED
    BY <2>1, <2>2
<1>6. AloneOnChannel'
  <2>1. ASSUME NEW q \in Processes, NEW r \in Processes, q # r, channel'[q] = channel'[r],
               at'[q] \in Unit!Taking \ {"look"}, at'[r] \in Unit!Taking \ {"look"}
        PROVE  raced'
    BY <1>a, <2>1 DEF AloneOnChannel, Unit!Taking
  <2>2. ASSUME ~raced', NEW q \in Processes
        PROVE  /\ at'[q] = "unlink" => file'[channel'[q]] = saw'[q] \/ file'[channel'[q]].by = Unit!Nobody
               /\ at'[q] = "create" => file'[channel'[q]].by = Unit!Nobody
               /\ at'[q] = "write" => file'[channel'[q]] = [by |-> q, written |-> FALSE]
    <3>1. CASE q = p
      BY <1>a, <1>b, <2>2, <3>1, NoLock DEF AloneOnChannel, Unit!Taking
    <3>2. CASE q # p
      <4>1. at'[q] = at[q] /\ channel'[q] = channel[q] /\ saw'[q] = saw[q] /\ ~raced
        BY <1>a, <1>b, <2>2, <3>2
      <4>2. at[q] \in Unit!Taking \ {"look"} => channel[q] \in 1..Channels
        BY <1>a, <2>2, <3>2, <4>1 DEF AloneOnChannel, Unit!Taking
      <4>3. /\ at[q] = "unlink" => file[channel[q]] = saw[q] \/ file[channel[q]].by = Unit!Nobody
            /\ at[q] = "create" => file[channel[q]].by = Unit!Nobody
            /\ at[q] = "write" => file[channel[q]] = [by |-> q, written |-> FALSE]
        BY <4>1 DEF AloneOnChannel
      <4> QED
        BY <1>b, <4>1, <4>2, <4>3, NoLock DEF Unit!Taking
    <3> QED
      BY <3>1, <3>2
  <2> QED
    BY <2>1, <2>2 DEF AloneOnChannel
<1>7. Unit!LocksNameTheirHolder'
  <2> SUFFICES ASSUME ~raced', NEW q \in Processes, NEW c \in locks'[q]
               PROVE  file'[c] = [by |-> q, written |-> TRUE]
    BY DEF Unit!LocksNameTheirHolder
  <2>1. q # p /\ c \in locks[q] /\ c \in 1..Channels
    BY HolderLives
  <2>2. file[c] = [by |-> q, written |-> TRUE]
    BY <2>1 DEF Unit!LocksNameTheirHolder
  <2>3. c \notin locks[p]
    <3>1. file[c].by = q
      BY <2>2
    <3> QED
      BY <1>b, <2>1, <3>1
  <2> QED
    BY <1>b, <2>1, <2>2, <2>3
<1>8. FilesHaveMakers'
  <2> SUFFICES ASSUME NEW q \in Processes \ abrupt, NEW c \in 1..Channels, file'[c].by = q
               PROVE  c \in locks'[q] \/ (at'[q] = "write" /\ c = channel[q])
    BY DEF FilesHaveMakers
  <2>1. c \notin locks[p] /\ file[c].by = q
    BY <1>b, NoLock
  <2>2. c \in locks[q] \/ (at[q] = "write" /\ c = channel[q])
    BY <2>1 DEF FilesHaveMakers
  <2>3. q # p /\ locks'[q] = locks[q]
    BY <1>a, <2>1, <2>2
  <2> QED
    BY <1>a, <2>2, <2>3
<1>9. OrphansHaveACause'
  BY DEF OrphansHaveACause
<1> QED
  BY <1>1, <1>2, <1>3, <1>4, <1>5, <1>6, <1>7, <1>8, <1>9

\* The app-server is the last.
LEMMA LeaveUnit ==
  ASSUME UnitConstants, UnitInv, NEW p \in Processes, Unit!Leave(p) PROVE UnitInv'
<1> USE DEF UnitConstants, UnitInv, LockTypes, StartTypes, Unit!Leave, Unit!Go, Unit!lockState, Unit!serverState, Unit!deaths
<1>1. LockTypes'
  BY DEF Places, LockFile
<1>2. StartTypes'
  OBVIOUS
<1>3. PortIsOwned'
  BY DEF PortIsOwned
<1>4. EndedIsClosed'
  BY DEF EndedIsClosed, Unit!Ending
<1>5. TakenInOrder'
  BY DEF TakenInOrder, Unit!Taking
<1>6. AloneOnChannel'
  BY DEF AloneOnChannel, Unit!Taking
<1>7. Unit!LocksNameTheirHolder'
  BY DEF Unit!LocksNameTheirHolder
<1>8. FilesHaveMakers'
  BY DEF FilesHaveMakers, EndedIsClosed
<1>9. OrphansHaveACause'
  BY DEF OrphansHaveACause
<1> QED
  BY <1>1, <1>2, <1>3, <1>4, <1>5, <1>6, <1>7, <1>8, <1>9

\* A kill leaves the files and nothing else.
LEMMA KillUnit ==
  ASSUME UnitConstants, UnitInv, NEW p \in Processes, Unit!Kill(p) PROVE UnitInv'
<1> USE DEF UnitConstants, UnitInv, LockTypes, StartTypes, Unit!Kill, Unit!Dies, Unit!Go, Unit!lockState,
            Unit!serverState, Unit!deaths, Unit!Trouble, Unit!Live
<1>1. LockTypes'
  BY DEF Places, LockFile
<1>2. StartTypes'
  OBVIOUS
<1>3. PortIsOwned'
  BY DEF PortIsOwned
<1>4. EndedIsClosed'
  BY DEF EndedIsClosed, Unit!Ending
<1>5. TakenInOrder'
  BY DEF TakenInOrder, Unit!Taking
<1>6. AloneOnChannel'
  BY DEF AloneOnChannel, Unit!Taking
<1>7. Unit!LocksNameTheirHolder'
  BY DEF Unit!LocksNameTheirHolder
<1>8. FilesHaveMakers'
  BY DEF FilesHaveMakers, EndedIsClosed
<1>9. OrphansHaveACause'
  BY DEF OrphansHaveACause
<1> QED
  BY <1>1, <1>2, <1>3, <1>4, <1>5, <1>6, <1>7, <1>8, <1>9

-----------------------------------------------------------------------------
(* Every step, and what follows for every behaviour.                       *)

\* No lock, no port, no child at the beginning.
LEMMA InitUnit == ASSUME UnitConstants, Unit!Init PROVE UnitInv
<1> USE DEF UnitConstants, Unit!Init
<1>1. LockTypes /\ StartTypes
  <2>1. 1 \in 1..Channels
    OBVIOUS
  <2> QED
    BY <2>1, NoLock DEF LockTypes, StartTypes, Places
<1>2. /\ PortIsOwned /\ EndedIsClosed /\ TakenInOrder /\ Unit!LocksNameTheirHolder
      /\ FilesHaveMakers /\ OrphansHaveACause
  BY DEF FilesHaveMakers, OrphansHaveACause, Unit!None, PortIsOwned, EndedIsClosed, Unit!Ending, TakenInOrder, Unit!Taking, Unit!LocksNameTheirHolder
<1>3. AloneOnChannel
  BY DEF AloneOnChannel, Unit!Taking
<1> QED
  BY <1>1, <1>2, <1>3 DEF UnitInv

\* Every step keeps the invariant.
LEMMA StepUnit == ASSUME UnitConstants, UnitInv, [Unit!Next]_(Unit!vars) PROVE UnitInv'
<1>1. ASSUME NEW p \in Processes, Unit!TakeLock(p) PROVE UnitInv'
  BY <1>1, LookUnit, RefusedUnit, UnlinkUnit, CreateUnit, WriteUnit DEF Unit!TakeLock
<1>2. ASSUME NEW p \in Processes, Unit!Run(p) PROVE UnitInv'
  BY <1>1, <1>2, StartToolServersUnit, AwaitToolServersUnit, ServeUnit, ConnectUnit,
     EndRunUnit,
     CloseUnit, ReleaseUnit, LeaveUnit DEF Unit!Run
<1>3. CASE Unit!Next
  BY <1>2, <1>3, BeginUnit, StopSignalUnit, ChildExitsUnit, KillUnit DEF Unit!Next
<1>4. CASE UNCHANGED Unit!vars
  BY <1>4 DEF UnitInv, LockTypes, StartTypes, PortIsOwned, EndedIsClosed, TakenInOrder,
     AloneOnChannel, Unit!LocksNameTheirHolder, Unit!vars, Unit!lockState, Unit!serverState, Unit!deaths, FilesHaveMakers, OrphansHaveACause
<1> QED
  BY <1>3, <1>4

\* The invariant of the start and the stop holds in every reachable state.
THEOREM UnitInvariant == ASSUME UnitConstants PROVE Unit!Spec => []UnitInv
<1>1. Unit!Init => UnitInv
  BY InitUnit
<1>2. UnitInv /\ [Unit!Next]_(Unit!vars) => UnitInv'
  BY StepUnit
<1> QED
  BY <1>1, <1>2, PTL DEF Unit!Spec

\* lock.ts, "one adapter has one release loop": the process that is past its port is the
\* port's listener, so there is one at most, whatever the locks let through.
LEMMA OneListens == ASSUME UnitConstants, UnitInv PROVE Unit!OneRuns
<1>1. Unit!Running \subseteq {port}
  BY DEF UnitInv, PortIsOwned, Unit!Running
<1>2. IsFiniteSet({port}) /\ Cardinality({port}) = 1
  BY FS_Singleton
<1>3. IsFiniteSet(Unit!Running) /\ Cardinality(Unit!Running) <= Cardinality({port})
  BY <1>1, <1>2, FS_Subset
<1> QED
  BY <1>2, <1>3, Zenon DEF Unit!OneRuns, Unit!Cardinality, Cardinality

\* Whoever has every lock without a race finds the port free: its listener has them too.
LEMMA PortFree == ASSUME UnitConstants, UnitInv PROVE Unit!PortIsFree
<1> SUFFICES ASSUME ~raced, NEW p \in Processes, at[p] = "serve" PROVE port = Unit!Nobody
  BY DEF Unit!PortIsFree
<1>1. 1 \in 1..Channels
  BY DEF UnitConstants
<1>2. file[1].by = p
  <2>1. 1 \in locks[p]
    BY <1>1 DEF UnitInv, TakenInOrder
  <2>2. file[1] = [by |-> p, written |-> TRUE]
    BY <2>1 DEF UnitInv, Unit!LocksNameTheirHolder
  <2> QED
    BY <2>2
<1>3. ASSUME NEW q \in Processes, port = q PROVE FALSE
  <2>1. file[1].by = q
    <3>1. 1 \in locks[q]
      BY <1>1, <1>3 DEF UnitInv, TakenInOrder
    <3>2. file[1] = [by |-> q, written |-> TRUE]
      BY <3>1 DEF UnitInv, Unit!LocksNameTheirHolder
    <3> QED
      BY <3>2
  <2> QED
    BY <1>2, <1>3, <2>1 DEF UnitInv, PortIsOwned
<1> QED
  BY <1>3 DEF UnitInv, StartTypes

\* What a process that ended has let go.
LEMMA NothingIsLeft == ASSUME UnitConstants, UnitInv PROVE Unit!LeavesNothing
<1>1. Unit!Nobody \notin Processes
  BY DEF UnitConstants
<1>2. ASSUME NEW p \in Processes
      PROVE  /\ at[p] \in {"release", "leave", "off"} => port # p /\ children[p] \cap kept[p] = {}
             /\ at[p] \in {"leave", "off"} =>
                  locks[p] = {} /\ (p \notin abrupt => \A c \in 1..Channels : file[c].by # p)
             /\ at[p] = "off" => p \notin app /\ children[p] = {}
  <2>1. at[p] \in {"release", "leave", "off"} => port # p /\ children[p] \cap kept[p] = {}
    BY DEF UnitInv, PortIsOwned, EndedIsClosed
  <2>2. at[p] \in {"leave", "off"} =>
          locks[p] = {} /\ (p \notin abrupt => \A c \in 1..Channels : file[c].by # p)
    BY DEF UnitInv, FilesHaveMakers, EndedIsClosed
  <2>3. at[p] = "off" => p \notin app /\ children[p] = {}
    BY DEF UnitInv, EndedIsClosed, Unit!Ending
  <2> QED
    BY <2>1, <2>2, <2>3
<1> QED
  BY <1>2 DEF Unit!LeavesNothing, UnitInv, OrphansHaveACause

\* lock.ts and the ending of run(): one process at most holds the agent, a process past
\* its locks is named by their files unless two raced, and one that ended or failed has
\* left no port, app-server, lock file or child that it still knew of.
THEOREM OneHoldsTheAgent == ASSUME UnitConstants PROVE Unit!Spec => []Unit!OneHolder
<1>1. UnitInv => Unit!OneHolder
  BY OneListens, PortFree, NothingIsLeft DEF UnitInv, Unit!OneHolder
<1> QED
  BY <1>1, UnitInvariant, PTL

\* The same of the run's specification, where the start is one of three parts.
THEOREM OneHolderStands == ASSUME UnitConstants PROVE AllSpec => []OneHolder
<1>1. AllInit => Unit!Init
  BY DEF AllInit
<1>2. [AllNext]_<<vars, unitVars, sessionVars, part>> => [Unit!Next]_(Unit!vars)
  BY DEF AllNext, unitVars, Unit!vars, Unit!lockState, Unit!serverState, Unit!deaths
<1>3. UnitInv => OneHolder
  BY OneListens, PortFree, NothingIsLeft DEF UnitInv, OneHolder, Unit!OneHolder
<1>4. Unit!Init => UnitInv
  BY InitUnit
<1>5. UnitInv /\ [Unit!Next]_(Unit!vars) => UnitInv'
  BY StepUnit
<1> QED
  BY <1>1, <1>2, <1>3, <1>4, <1>5, PTL DEF AllSpec

-----------------------------------------------------------------------------
(* The session with its app-server, module Session: the inductive invariant. *)

\* An owner attaches once, late in connect, and is let go at the first close that
\* finds the child dead; the session is not over before.
OwnerFollowsChild ==
    /\ attached \in BOOLEAN /\ closing \in BOOLEAN
    /\ attached => stage \notin {"opening", "attaching", "failing"}
    /\ closing => child = "dead" /\ stage \in {"initializing", "ready", "stopping", "over"}
    /\ letGo = IF attached /\ closing THEN 1 ELSE 0
    /\ stage = "over" /\ attached => closing

\* A turn waits only while its completion is not among the events.
WaitsForNews == talk = "waiting" => ~finished

\* The session is asked to initialize only while connect waits for the answer.
AskedInConnect == "initialize" \in table => stage = "initializing"

SessionInv == Session!TypeOK /\ OwnerFollowsChild /\ WaitsForNews /\ AskedInConnect

LEMMA InitSession == ASSUME Session!Init PROVE SessionInv
  BY DEF Session!Init, SessionInv, Session!TypeOK, OwnerFollowsChild, WaitsForNews, AskedInConnect

\* The private route: the socket opens or not, the owner attaches or not.
LEMMA PrivateRoute ==
  ASSUME SessionInv,
         Session!SocketOpens \/ Session!SocketNeverOpens \/ Session!Attaches \/ Session!AttachFails
  PROVE  SessionInv'
<1>1. CASE Session!SocketOpens
  BY <1>1 DEF SessionInv, Session!TypeOK, OwnerFollowsChild, WaitsForNews, AskedInConnect, Session!SocketOpens, Session!talk
<1>2. CASE Session!SocketNeverOpens
  BY <1>2 DEF SessionInv, Session!TypeOK, OwnerFollowsChild, WaitsForNews, AskedInConnect, Session!SocketNeverOpens, Session!talk
<1>3. CASE Session!Attaches
  BY <1>3 DEF SessionInv, Session!TypeOK, OwnerFollowsChild, WaitsForNews, AskedInConnect, Session!Attaches
<1>4. CASE Session!AttachFails
  BY <1>4 DEF SessionInv, Session!TypeOK, OwnerFollowsChild, WaitsForNews, AskedInConnect, Session!AttachFails, Session!talk
<1> QED
  BY <1>1, <1>2, <1>3, <1>4

\* The end of the child, of the socket and of the pipe, and what is pending then.
LEMMA EndsOfTransport ==
  ASSUME SessionInv,
         Session!ChildDies \/ Session!SocketCloses \/ Session!PipeCloses \/ Session!OwnerFails
  PROVE  SessionInv'
<1>1. CASE Session!ChildDies
  BY <1>1 DEF SessionInv, Session!TypeOK, OwnerFollowsChild, WaitsForNews, AskedInConnect, Session!ChildDies, Session!talk
<1>2. CASE Session!SocketCloses
  <2>1. UNCHANGED <<child, attached, letGo, closing, finished>>
    BY <1>2 DEF Session!SocketCloses, Session!talk
  <2>2. /\ stage' = stage \/ (stage = "initializing" /\ stage' = "stopping")
        /\ talk' = talk \/ talk' = "refused"
        /\ \/ table' = table /\ stage' = stage
           \/ table' = {}
    BY <1>2 DEF Session!SocketCloses, Session!Fails, Session!talk
  <2> QED
    BY <2>1, <2>2 DEF SessionInv, Session!TypeOK, OwnerFollowsChild, WaitsForNews, AskedInConnect
<1>3. CASE Session!PipeCloses
  BY <1>3 DEF SessionInv, Session!TypeOK, OwnerFollowsChild, WaitsForNews, AskedInConnect, Session!PipeCloses,
     Session!Fails, Session!transport
<1>4. CASE Session!OwnerFails
  BY <1>4 DEF SessionInv, Session!TypeOK, OwnerFollowsChild, WaitsForNews, AskedInConnect, Session!OwnerFails, Session!talk
<1> QED
  BY <1>1, <1>2, <1>3, <1>4

\* The closes: whichever of the two is first lets the owner go.
LEMMA EndsOfSession ==
  ASSUME SessionInv,
         Session!StartFailed \/ Session!ExitSeen \/ Session!Stop \/ Session!Stopped
  PROVE  SessionInv'
<1>1. CASE Session!StartFailed
  BY <1>1 DEF SessionInv, Session!TypeOK, OwnerFollowsChild, WaitsForNews, AskedInConnect, Session!StartFailed,
     Session!transport, Session!talk
<1>2. CASE Session!ExitSeen
  <2>1. /\ child = "dead" /\ stage \in {"initializing", "ready", "stopping"} /\ closing' = TRUE
        /\ UNCHANGED <<child, stage, attached, table, finished>>
        /\ talk' = talk \/ talk' = "exited"
    BY <1>2 DEF Session!ExitSeen
  <2>2. letGo' = IF attached /\ ~closing THEN letGo + 1 ELSE letGo
    BY <1>2 DEF Session!ExitSeen, Session!PrivateClose
  <2>3. letGo' = IF attached THEN 1 ELSE 0
    BY <2>2 DEF SessionInv, OwnerFollowsChild
  <2> QED
    BY <2>1, <2>3 DEF SessionInv, Session!TypeOK, OwnerFollowsChild, WaitsForNews, AskedInConnect
<1>3. CASE Session!Stop
  BY <1>3 DEF SessionInv, Session!TypeOK, OwnerFollowsChild, WaitsForNews, AskedInConnect, Session!Stop, Session!talk
<1>4. CASE Session!Stopped
  <2>1. /\ child = "dead" /\ stage = "stopping" /\ stage' = "over" /\ closing' = TRUE
        /\ UNCHANGED <<child, attached, table, talk, finished>>
    BY <1>4 DEF Session!Stopped, Session!talk
  <2>2. letGo' = IF attached /\ ~closing THEN letGo + 1 ELSE letGo
    BY <1>4 DEF Session!Stopped, Session!PrivateClose
  <2>3. letGo' = IF attached THEN 1 ELSE 0
    BY <2>2 DEF SessionInv, OwnerFollowsChild
  <2> QED
    BY <2>1, <2>3 DEF SessionInv, Session!TypeOK, OwnerFollowsChild, WaitsForNews, AskedInConnect
<1> QED
  BY <1>1, <1>2, <1>3, <1>4

\* The talk: a request, its answer, the event of its end, and the wait for it.
LEMMA TalkOfTurn ==
  ASSUME SessionInv,
         Session!TurnStarts \/ Session!Native \/ Session!Reads \/ Session!Awaits \/ Session!TimesOut
  PROVE  SessionInv'
<1>1. CASE Session!TurnStarts
  <2>1. UNCHANGED <<child, stage, attached, letGo, closing, finished>>
    BY <1>1 DEF Session!TurnStarts, Session!transport
  <2>2. talk' \in {"refused", "asked"} /\ (table' = table \/ table' = table \cup {"turn"})
    BY <1>1 DEF Session!TurnStarts
  <2>3. Session!TypeOK'
    BY <2>1, <2>2 DEF SessionInv, Session!TypeOK
  <2> QED
    BY <2>1, <2>2, <2>3 DEF SessionInv, OwnerFollowsChild, WaitsForNews, AskedInConnect
<1>2. CASE Session!Native
  BY <1>2 DEF SessionInv, Session!TypeOK, OwnerFollowsChild, WaitsForNews, AskedInConnect, Session!Native, Session!transport
<1>3. CASE Session!Reads
  <2>1. UNCHANGED <<child, attached, letGo, closing>>
    BY <1>3 DEF Session!Reads
  <2>2. /\ stage' = stage \/ (stage' \in {"ready", "stopping"} /\ "initialize" \in table)
        /\ talk' = talk \/ talk' \in {"told", "refused", "completed"}
        /\ table' = {} \/ (table' = table /\ stage' = stage)
        /\ finished' = finished \/ talk' # "waiting"
    BY <1>3 DEF Session!Reads, Session!Kept
  <2>3. Session!TypeOK'
    BY <2>1, <2>2 DEF SessionInv, Session!TypeOK
  <2>4. OwnerFollowsChild'
    BY <2>1, <2>2 DEF SessionInv, OwnerFollowsChild, AskedInConnect
  <2> QED
    BY <2>2, <2>3, <2>4 DEF SessionInv, WaitsForNews, AskedInConnect
<1>4. CASE Session!Awaits
  BY <1>4 DEF SessionInv, Session!TypeOK, OwnerFollowsChild, WaitsForNews, AskedInConnect, Session!Awaits, Session!Looks,
     Session!transport
<1>5. CASE Session!TimesOut
  BY <1>5 DEF SessionInv, Session!TypeOK, OwnerFollowsChild, WaitsForNews, AskedInConnect, Session!TimesOut, Session!transport
<1> QED
  BY <1>1, <1>2, <1>3, <1>4, <1>5

LEMMA StepSession == ASSUME SessionInv, [Session!Next]_(Session!vars) PROVE SessionInv'
<1>1. CASE Session!Next
  BY <1>1, PrivateRoute, EndsOfTransport, EndsOfSession, TalkOfTurn DEF Session!Next, Session!Moves
<1>2. CASE UNCHANGED Session!vars
  BY <1>2 DEF SessionInv, Session!TypeOK, OwnerFollowsChild, WaitsForNews, AskedInConnect, Session!vars
<1> QED
  BY <1>1, <1>2

\* The owner is let go once, after the child's end and before the session is over.
LEMMA LetGoOnce == ASSUME SessionInv PROVE Session!TypeOK /\ Session!OwnerLetGoOnce
  BY DEF SessionInv, OwnerFollowsChild, Session!OwnerLetGoOnce

\* Only a turn that waits times out or is cut short.
LEMMA ToldWhenRead ==
  ASSUME SessionInv, [Session!Next]_(Session!vars), talk' # talk, talk' \in {"timed out", "exited"}
  PROVE  ~finished
<1>1. talk = "waiting"
  BY DEF Session!Next, Session!Moves, Session!SocketNeverOpens, Session!Attaches, Session!AttachFails,
     Session!StartFailed, Session!PipeCloses, Session!Fails, Session!ExitSeen, Session!Stopped,
     Session!Reads, Session!Awaits, Session!Looks, Session!TimesOut, Session!Native, Session!ChildDies,
     Session!SocketCloses, Session!SocketOpens, Session!OwnerFails, Session!Stop, Session!TurnStarts,
     Session!talk, Session!vars
<1> QED
  BY <1>1 DEF SessionInv, WaitsForNews

\* session.ts (attachPrivateLifecycle) and turn.ts (awaitCompletion): over any order of
\* answers, events, deaths and deadlines, the owner of a private endpoint is let go once
\* and only after its child has gone, and a completion that was read is told as one.
THEOREM SessionTells ==
  AllSpec => [](Session!TypeOK /\ Session!OwnerLetGoOnce) /\ Session!CompletionIsTold
<1>1. AllInit => SessionInv
  BY InitSession DEF AllInit
<1>2. [AllNext]_<<vars, unitVars, sessionVars, part>> => [Session!Next]_(Session!vars)
  BY DEF AllNext, sessionVars, Session!vars
<1>3. SessionInv /\ [Session!Next]_(Session!vars) => SessionInv'
  BY StepSession
<1>4. SessionInv => Session!TypeOK /\ Session!OwnerLetGoOnce
  BY LetGoOnce
<1>5. SessionInv /\ [Session!Next]_(Session!vars) =>
        [talk' # talk /\ talk' \in {"timed out", "exited"} => ~finished]_(Session!vars)
  BY ToldWhenRead
<1> QED
  BY <1>1, <1>2, <1>3, <1>4, <1>5, PTL DEF AllSpec, Session!CompletionIsTold
=============================================================================
