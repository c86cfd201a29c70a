-------------------------------- MODULE Unit --------------------------------
(***************************************************************************)
(* Starting and stopping the agent's process: the lock of each channel      *)
(* (runtime/lock.ts), the tool servers it starts and those it waits for     *)
(* (runtime/tool-servers.ts), the reply tool's port, the app-server it      *)
(* connects to, and the ending that closes them all (runtime/index.ts).     *)
(* Several processes of one command line start on one store: systemd's      *)
(* restarts, in a control group that dies with them, and a start by hand,   *)
(* which has neither a restart nor a control group.                         *)
(***************************************************************************)
EXTENDS Integers, FiniteSets

CONSTANTS Processes,   \* the processes, all of the same command line
          ByHand,      \* those of them a person starts
          Channels,    \* the channels, 1..Channels
          Servers,     \* the tool servers the process starts as its children
          Units,       \* how many tool servers have a unit of their own
          Window,      \* awaitToolServers.timeoutMs, in steps of the clock
          MaxTrouble   \* bound: kills, stops, faults of a start, starts by hand

Nobody == "nobody"

VARIABLES
    file,      \* per channel: the lock file, [by, written]; by Nobody: none
    at,        \* per process: where its run() is
    channel,   \* per process: the channel whose lock it is taking
    saw,       \* per process: the lock file as it read it
    locks,     \* per process: the channels whose lock it has taken
    kept,      \* per process: toolServers, the handles it would stop
    children,  \* per process: the tool servers that live as its children
    unit, clock, \* per process: the unit it waits for, and since when
    port,      \* who listens on the reply tool's port
    app,       \* the processes whose app-server lives
    signal,    \* the processes that were told to stop
    refused,   \* those that end with 75: another holds a lock
    orphans,   \* the tool servers that live although their process is gone
    abrupt,    \* history: the processes that died where no code of theirs answered
    raced,     \* history: two starters were between reading a lock and writing it
    trouble

lockState == <<file, channel, saw, locks, raced>>
serverState == <<kept, children, unit, clock>>
deaths == <<orphans, abrupt>>
vars == <<lockState, serverState, deaths, at, port, app, signal, refused, trouble>>

None == [by |-> Nobody, written |-> TRUE]
Taking == {"look", "unlink", "create", "write"}
Ending == {"close", "release", "leave"}
Live(p) == at[p] # "off"

Init ==
    /\ file = [c \in 1..Channels |-> None]
    /\ at = [p \in Processes |-> "off"]
    /\ channel = [p \in Processes |-> 1] /\ saw = [p \in Processes |-> None]
    /\ locks = [p \in Processes |-> {}]
    /\ kept = [p \in Processes |-> {}] /\ children = [p \in Processes |-> {}]
    /\ unit = [p \in Processes |-> 1] /\ clock = [p \in Processes |-> 0]
    /\ port = Nobody /\ app = {} /\ signal = {} /\ refused = {}
    /\ orphans = {} /\ abrupt = {} /\ raced = FALSE /\ trouble = 0

Go(p, there) == at' = [at EXCEPT ![p] = there]
Trouble == trouble < MaxTrouble /\ trouble' = trouble + 1

\* A death that no code of the process answers: its lock files stay, and the kernel
\* frees its port.  Its app-server reads the end of its input.  Its tool servers
\* die with the unit's control group, and live on where there is none.
Dies(p) ==
    /\ Go(p, "off")
    /\ locks' = [locks EXCEPT ![p] = {}]
    /\ children' = [children EXCEPT ![p] = {}]
    /\ orphans' = IF p \in ByHand THEN orphans \cup children[p] ELSE orphans
    /\ port' = IF port = p THEN Nobody ELSE port
    /\ app' = app \ {p}
    /\ refused' = refused \ {p} /\ abrupt' = abrupt \cup {p}

Begin(p) ==
    /\ at[p] = "off"
    /\ IF p \in ByHand THEN Trouble ELSE UNCHANGED trouble
    /\ Go(p, "look")
    /\ channel' = [channel EXCEPT ![p] = 1] /\ saw' = [saw EXCEPT ![p] = None]
    /\ kept' = [kept EXCEPT ![p] = {}]
    /\ unit' = [unit EXCEPT ![p] = 1] /\ clock' = [clock EXCEPT ![p] = 0]
    /\ signal' = signal \ {p} /\ refused' = refused \ {p}
    /\ UNCHANGED <<file, locks, raced, children, deaths, port, app>>

----------------------------------------------------------------------------
(* takeLock.  Reading the file, asking ps for its holder, unlinking,        *)
(* creating and writing are system calls of their own, and another          *)
(* starter's fall between them.                                             *)

Look(p) ==
    LET found == file[channel[p]] IN
    /\ at[p] = "look"
    /\ saw' = [saw EXCEPT ![p] = found]
    /\ Go(p, IF found.by = Nobody THEN "create" ELSE "unlink")
    /\ raced' = (raced \/ \E q \in Processes \ {p}:
                             at[q] \in Taking \ {"look"} /\ channel[q] = channel[p])
    /\ UNCHANGED <<file, channel, locks, serverState, deaths, port, app, signal, refused, trouble>>

HeldByTheDead(p) == saw[p].written /\ saw[p].by # p   \* a defect: ps is not asked
\* The holder lives and runs the same command line.  A file that was created and
\* not yet written does not parse, and names nobody.
HeldBy(p) == saw[p].written /\ saw[p].by # p /\ Live(saw[p].by)

Refused(p) ==
    /\ at[p] = "unlink" /\ HeldBy(p)
    /\ Go(p, "close")
    /\ refused' = refused \cup {p}
    /\ UNCHANGED <<lockState, serverState, deaths, port, app, signal, trouble>>

\* unlinkSync takes whatever is there by now, and throws when nothing is.
Unlink(p) ==
    /\ at[p] = "unlink" /\ ~HeldBy(p)
    /\ IF file[channel[p]].by = Nobody
       THEN Go(p, "close") /\ UNCHANGED file
       ELSE Go(p, "create") /\ file' = [file EXCEPT ![channel[p]] = None]
    /\ UNCHANGED <<channel, saw, locks, raced, serverState, deaths, port, app, signal, refused, trouble>>

Create(p) ==
    /\ at[p] = "create"
    /\ IF file[channel[p]].by # Nobody
       THEN Go(p, "close") /\ UNCHANGED file
       ELSE /\ Go(p, "write")
            /\ file' = [file EXCEPT ![channel[p]] = [by |-> p, written |-> FALSE]]
    /\ UNCHANGED <<channel, saw, locks, raced, serverState, deaths, port, app, signal, refused, trouble>>

\* The write goes to the file that was opened, which may be unlinked by now.
Write(p) ==
    LET c == channel[p] IN
    /\ at[p] = "write"
    /\ file' = IF file[c].by = p THEN [file EXCEPT ![c] = [by |-> p, written |-> TRUE]] ELSE file
    /\ locks' = [locks EXCEPT ![p] = @ \cup {c}]
    /\ IF c < Channels THEN Go(p, "look") /\ channel' = [channel EXCEPT ![p] = c + 1]
                       ELSE Go(p, "servers") /\ UNCHANGED channel
    /\ UNCHANGED <<saw, raced, serverState, deaths, port, app, signal, refused, trouble>>

----------------------------------------------------------------------------
(* The servers, the port, the app-server.                                   *)

\* Every server is looked at before a fault is thrown, and those that were
\* started are stopped with it.  A server whose environment cannot be built
\* throws in the middle of the loop, and the handles of those before it are lost.
StartToolServers(p) ==
    /\ at[p] = "servers"
    /\ \/ /\ kept' = [kept EXCEPT ![p] = Servers]
          /\ children' = [children EXCEPT ![p] = Servers]
          /\ Go(p, "await") /\ UNCHANGED trouble
       \/ Trouble /\ Go(p, "close") /\ UNCHANGED <<kept, children>>
       \/ /\ Trouble /\ Go(p, "close") /\ UNCHANGED kept
          /\ \E s \in SUBSET Servers: s # Servers /\ children' = [children EXCEPT ![p] = s]
    /\ UNCHANGED <<lockState, unit, clock, deaths, port, app, signal, refused>>

\* One probe of one unit's address: it answers at once, or is silent for a step of
\* the clock.  One deadline for them all, and each is probed once at least.
Deadline(p) == Window

AwaitToolServers(p) ==
    LET asked == clock[p] + 1 IN
    /\ at[p] = "await"
    /\ IF unit[p] > Units
       THEN Go(p, "serve") /\ UNCHANGED <<unit, clock>>
       ELSE /\ UNCHANGED at
            /\ \/ unit' = [unit EXCEPT ![p] = @ + 1] /\ UNCHANGED clock
               \/ /\ clock' = [clock EXCEPT ![p] = IF asked < Deadline(p) THEN asked + 1 ELSE asked]
                  /\ unit' = [unit EXCEPT ![p] = IF asked < Deadline(p) THEN @ ELSE @ + 1]
    /\ UNCHANGED <<lockState, kept, children, deaths, port, app, signal, refused, trouble>>

ServeUnchecked(p) ==     \* a defect: a port that is taken is shared
    /\ at[p] = "serve" /\ port' = p /\ Go(p, "connect") /\ app' = app \cup {p}
    /\ UNCHANGED <<lockState, serverState, deaths, signal, refused, trouble>>

\* A port that is taken raises an error event nobody listens for: the process dies
\* where it stands.
Serve(p) ==
    /\ at[p] = "serve"
    /\ IF port = Nobody
       THEN /\ port' = p /\ Go(p, "connect") /\ app' = app \cup {p}
            /\ UNCHANGED <<locks, children, deaths, refused>>
       ELSE Dies(p)
    /\ UNCHANGED <<file, channel, saw, raced, kept, unit, clock, signal, trouble>>

\* initialize is answered, or fails because the app-server died: connect stops it.
Connect(p) ==
    /\ at[p] = "connect"
    /\ \/ Go(p, "run") /\ UNCHANGED <<app, trouble>>
       \/ Trouble /\ app' = app \ {p} /\ Go(p, "close")
    /\ UNCHANGED <<lockState, serverState, deaths, port, signal, refused>>

\* A stop is noted wherever the start is, and obeyed when the loop is reached.
StopSignal(p) ==
    /\ Live(p) /\ p \notin signal /\ at[p] \notin Ending /\ Trouble
    /\ signal' = signal \cup {p}
    /\ UNCHANGED <<lockState, serverState, deaths, at, port, app, refused>>

ChildExits(p) ==
    /\ at[p] = "run" /\ p \in app /\ Trouble
    /\ app' = app \ {p}
    /\ UNCHANGED <<lockState, serverState, deaths, at, port, signal, refused>>

EndRun(p) ==
    /\ at[p] = "run" /\ (p \in signal \/ p \notin app)
    /\ Go(p, "close")
    /\ UNCHANGED <<lockState, serverState, deaths, port, app, signal, refused, trouble>>

----------------------------------------------------------------------------
(* stop(), which every ending of run() reaches but a kill.                  *)

Close(p) ==
    /\ at[p] = "close" /\ Go(p, "release")
    /\ port' = IF port = p THEN Nobody ELSE port
    /\ children' = [children EXCEPT ![p] = @ \ kept[p]]
    /\ UNCHANGED <<lockState, kept, unit, clock, deaths, app, signal, refused, trouble>>

\* releaseLock unlinks the file whoever's it is.
Release(p) ==
    /\ at[p] = "release" /\ Go(p, "leave")
    /\ file' = [c \in 1..Channels |-> IF c \in locks[p] THEN None ELSE file[c]]
    /\ locks' = [locks EXCEPT ![p] = {}]
    /\ UNCHANGED <<channel, saw, raced, serverState, deaths, port, app, signal, refused, trouble>>

\* run() has returned and nobody calls exit: a child whose handle was lost keeps
\* the process there.
Leave(p) ==
    /\ at[p] = "leave" /\ children[p] = {} /\ Go(p, "off")
    /\ app' = app \ {p}
    /\ UNCHANGED <<lockState, serverState, deaths, port, signal, refused, trouble>>

\* kill -9.
Kill(p) ==
    /\ Live(p) /\ Trouble
    /\ Dies(p)
    /\ UNCHANGED <<file, channel, saw, raced, kept, unit, clock, signal>>

TakeLock(p) == Look(p) \/ Refused(p) \/ Unlink(p) \/ Create(p) \/ Write(p)
Run(p) == \/ TakeLock(p) \/ StartToolServers(p) \/ AwaitToolServers(p) \/ Serve(p)
          \/ Connect(p) \/ EndRun(p) \/ Close(p) \/ Release(p) \/ Leave(p)

Next == \E p \in Processes: Begin(p) \/ Run(p) \/ StopSignal(p) \/ ChildExits(p) \/ Kill(p)

Spec == Init /\ [][Next]_vars
(* A process that can go on does, and an app-server that lives answers      *)
(* initialize.  systemd starts a unit again that failed, and neither one    *)
(* that was told to stop nor one that was refused a lock: either may still  *)
(* be started, by a person.                                                 *)
Restarts(p) == p \notin ByHand \cup signal \cup refused /\ Begin(p)
Fairness == \A p \in Processes : WF_vars(Run(p)) /\ WF_vars(Restarts(p))
FairSpec == Spec /\ Fairness

----------------------------------------------------------------------------
Running == {p \in Processes: at[p] \in {"connect", "run"}}

(* Two processes never serve one store at once: what the locks let through  *)
(* while a dead holder's file is being taken over, the reply tool's port    *)
(* stops (lock.ts: "one adapter has one release loop").                     *)
OneRuns == Cardinality(Running) <= 1

(* A process past its locks is named by each of their files until it        *)
(* releases them, so a later starter finds it: unless two starters were in  *)
(* takeLock on one channel at once, when one may unlink what the other has  *)
(* just created.                                                            *)
LocksNameTheirHolder ==
    raced \/ \A p \in Processes: \A c \in locks[p]: file[c] = [by |-> p, written |-> TRUE]

(* The ending closes before it releases: whoever gets every lock without a  *)
(* race finds the port free, so no start dies there but after a race.       *)
PortIsFree == raced \/ \A p \in Processes: at[p] = "serve" => port = Nobody

(* A process that ended by its own code, wherever it failed, has left no    *)
(* port, no app-server, no lock file and no tool server it had a handle of. *)
(* One that died otherwise leaves its lock files, and its tool servers only *)
(* if it was started by hand.                                               *)
LeavesNothing ==
    /\ \A p \in Processes:
         /\ at[p] \in {"release", "leave", "off"} => port # p /\ children[p] \cap kept[p] = {}
         /\ at[p] \in {"leave", "off"} =>
              locks[p] = {} /\ (p \notin abrupt => \A c \in 1..Channels: file[c].by # p)
         /\ at[p] = "off" => p \notin app /\ children[p] = {}
    /\ orphans # {} => abrupt \cap ByHand # {}

(* One process holds the agent, is named by its locks and finds its port    *)
(* free, and one that failed or ended leaves what no code could close.      *)
OneHolder == OneRuns /\ LocksNameTheirHolder /\ PortIsFree /\ LeavesNothing

(* A unit is refused only while another process of its command line lives.  *)
RefusedByTheLiving ==
    [][\A p \in refused' \ refused: \E q \in Processes \ {p}: Live(q)]_vars

(* What keeps a unit from running again: it was told to stop, it was        *)
(* refused, or it waits for a tool server of which it lost the handle.      *)
Rests(p) ==
    \/ at[p] = "off" /\ p \in signal \cup refused
    \/ at[p] = "leave" /\ children[p] # {}

(* After any kills, faults and refusals, with whatever files they left, the *)
(* agent runs again and stays running (lock.ts: "the restart after a        *)
(* kill -9 is exactly what this runtime is built to survive"), but for a    *)
(* unit that rests for one of those reasons until a person starts it.       *)
StaysRunning ==
    <>[](\/ \E p \in Processes: at[p] = "run"
         \/ \A p \in Processes \ ByHand: Rests(p))
=============================================================================
