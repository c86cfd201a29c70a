------------------------------- MODULE Account -------------------------------
(***************************************************************************)
(* The provider account recorder (runtime/provider-account.ts), the        *)
(* account read of the Codex session (harness/codex/session.ts, readAccount *)
(* and ask) and the connection's table of requests (harness/codex/          *)
(* protocol.ts).  An app-server answers two requests in any order, late, or *)
(* never, and sends notifications on the same stream; the recorder folds    *)
(* reads together, merges what the notifications say into the record, and   *)
(* one writer at a time takes the record to disk.                           *)
(*                                                                          *)
(* The limits of an account are the accounts whose figures are in them and  *)
(* the number of the newest figure.                                         *)
(***************************************************************************)
EXTENDS Integers, Sequences, FiniteSets

CONSTANTS Accounts, SignedOut,  \* the logins of the provider, and none
          MaxSwitches,          \* bound: changes of login
          MaxUses,              \* bound: changes of the figures
          MaxTurns,             \* bound: turns that end, each asking for a read
          MaxFaults,            \* bound: refusals, failed writes, deaths
          MaxInAll              \* bound: all of these together

ASSUME AccountsAssumption == SignedOut \notin Accounts /\ Accounts # {}
ASSUME BoundsAssumption == {MaxSwitches, MaxUses, MaxTurns, MaxFaults, MaxInAll} \subseteq Nat

Methods == {"account/read", "account/rateLimits/read"}
NoLimits == [of |-> {}, seen |-> 0]

VARIABLES
    signedIn, figure,   \* the app-server: who is signed in, its newest figure
    taken,              \* the requests the app-server has and has not answered
    wire,               \* what it has written and the connection not yet read
    up,                 \* the app-server lives
    pending,            \* Connection.pending: [id, method]
    nextId,             \* Connection.nextId
    outstanding,        \* the session's methods sent and unanswered
    answers,            \* the read that is out: what each method has come to
    running,            \* "idle", "asked" (its tick has not come) or "out"
    again,              \* a read is folded in behind the running one
    closed,             \* the recorder is closed
    sinceRead,          \* the updates received while a read is out, merged
    record,             \* the record in memory
    writing,            \* "no", "queued" or "out"
    dirty, copy,        \* unwritten changes; the write that is out carries the record
    disk, failed,       \* the file is the record as it stands; the last write failed
    spent               \* what the bounds have used up

server  == <<signedIn, figure, taken, up>>
request == <<pending, nextId, outstanding, answers>>
reader  == <<running, again, sinceRead>>
writer  == <<writing, copy, disk, failed>>
vars    == <<server, wire, request, reader, closed, record, writer, dirty, spent>>

Holders == Accounts \cup {SignedOut}

(* One request's outcome: waiting for an id, an answer, or an error of      *)
(* whatever code.                                                           *)
Waiting(id)  == [is |-> "waiting", id |-> id]
Answer(a, f) == [is |-> "answer", of |-> a, seen |-> f]
Error        == [is |-> "error"]
NoRead == [m \in Methods |-> Error]

Spend(what) ==
    /\ spent.switches + spent.uses + spent.turns + spent.faults < MaxInAll
    /\ spent' = [spent EXCEPT ![what] = @ + 1]

Init ==
    /\ signedIn = (CHOOSE a \in Accounts: TRUE) /\ figure = 0 /\ taken = {} /\ wire = <<>> /\ up = TRUE
    /\ pending = {} /\ nextId = 1 /\ outstanding = {} /\ answers = NoRead
    /\ running = "asked" /\ again = FALSE      \* request('connect')
    /\ closed = FALSE /\ sinceRead = NoLimits
    /\ record = [account |-> SignedOut, confirmed |-> FALSE, limits |-> NoLimits,
                 error |-> FALSE, turned |-> FALSE]
    /\ writing = "no" /\ dirty = FALSE /\ copy = TRUE /\ disk = TRUE /\ failed = FALSE
    /\ spent = [switches |-> 0, uses |-> 0, turns |-> 0, faults |-> 0]

----------------------------------------------------------------------------
(* The app-server.  What it says of itself once the recorder is closed is   *)
(* not read, and is left out.                                               *)

\* A login, a logout, another login: the server says so after it is so.
Switch ==
    /\ up /\ ~closed /\ spent.switches < MaxSwitches
    /\ \E a \in Holders \ {signedIn}: signedIn' = a
    /\ wire' = Append(wire, [is |-> "account.updated"])
    /\ Spend("switches")
    /\ UNCHANGED <<figure, taken, up, request, reader, closed, record, writer, dirty>>

\* A turn uses up the allowance: a sparse update of the figures.
Uses ==
    /\ up /\ ~closed /\ signedIn \in Accounts /\ spent.uses < MaxUses
    /\ figure' = figure + 1
    /\ wire' = Append(wire, [is |-> "account.rate_limits", of |-> {signedIn}, seen |-> figure'])
    /\ Spend("uses")
    /\ UNCHANGED <<signedIn, taken, up, request, reader, closed, record, writer, dirty>>

\* It takes the limits' request to the provider's backend: what it will answer is
\* what holds now, and the answer may be long under way.
Look(r) ==
    /\ up /\ r \in taken /\ r.outcome.is = "waiting" /\ r.method = "account/rateLimits/read"
    /\ taken' = (taken \ {r}) \cup {[r EXCEPT !.outcome =
                   IF signedIn = SignedOut THEN Error ELSE Answer(signedIn, figure)]}
    /\ UNCHANGED <<signedIn, figure, up, wire, request, reader, closed, record, writer, dirty, spent>>

\* The account is read where the app-server runs, and answered as it is then.
Answers(r) ==
    /\ up /\ r \in taken /\ (r.method = "account/read" \/ r.outcome.is # "waiting")
    /\ taken' = taken \ {r}
    /\ wire' = Append(wire, [is |-> "response", id |-> r.id, outcome |->
                   IF r.method = "account/read" THEN Answer(signedIn, figure) ELSE r.outcome])
    /\ UNCHANGED <<signedIn, figure, up, request, reader, closed, record, writer, dirty, spent>>

Refuses(r) ==
    /\ up /\ r \in taken /\ r.outcome.is = "waiting" /\ spent.faults < MaxFaults
    /\ taken' = taken \ {r}
    /\ wire' = Append(wire, [is |-> "response", id |-> r.id, outcome |-> Error])
    /\ Spend("faults")
    /\ UNCHANGED <<signedIn, figure, up, request, reader, closed, record, writer, dirty>>

Dies ==
    /\ up /\ ~closed /\ spent.faults < MaxFaults
    /\ up' = FALSE /\ taken' = {} /\ Spend("faults")
    /\ UNCHANGED <<signedIn, figure, wire, request, reader, closed, record, writer, dirty>>

----------------------------------------------------------------------------
(* The connection.  A request that is answered settles: its method is no    *)
(* longer outstanding, and the read that waits for it, if one still does,   *)
(* has its answer.  An answer nobody waits for is dropped.                  *)

Settled(m, id, outcome) ==
    IF answers[m] = Waiting(id) THEN [answers EXCEPT ![m] = outcome] ELSE answers

Response(id, outcome) ==
    LET waiter == {p \in pending: p.id = id} IN
    /\ pending' = pending \ waiter
    /\ outstanding' = outstanding \ {p.method: p \in waiter}
    /\ answers' = IF waiter = {} THEN answers
                  ELSE LET p == CHOOSE p \in waiter: TRUE IN Settled(p.method, id, outcome)
    /\ UNCHANGED nextId

\* The stream closes after what was written on it is read: every waiter fails.
Fail ==
    /\ ~up /\ wire = <<>> /\ pending # {}
    /\ pending' = {} /\ outstanding' = {}
    /\ answers' = [m \in Methods |-> IF answers[m].is = "waiting" THEN Error
                                     ELSE answers[m]]
    /\ UNCHANGED <<nextId, server, wire, reader, closed, record, writer, dirty, spent>>

----------------------------------------------------------------------------
(* The recorder.                                                            *)

MergeSparse(previous, update) ==
    IF update = NoLimits THEN previous
    ELSE [of |-> previous.of \cup update.of, seen |-> update.seen]

SetRecordUnqueued(r) ==    \* a defect: a change during a write waits for the next
    /\ record' = r
    /\ dirty' = (writing = "no")
    /\ writing' = IF writing = "no" THEN "queued" ELSE writing
    /\ copy' = FALSE /\ disk' = FALSE /\ UNCHANGED failed

SetRecord(r) ==
    /\ record' = r
    /\ dirty' = TRUE
    /\ writing' = IF writing = "no" THEN "queued" ELSE writing
    /\ copy' = FALSE /\ disk' = FALSE /\ UNCHANGED failed

Request ==
    /\ running' = IF running = "idle" /\ ~closed THEN "asked" ELSE running
    /\ again' = (again \/ (running # "idle" /\ ~closed))
    /\ UNCHANGED sinceRead

Accept(e) ==
    IF closed THEN UNCHANGED <<reader, record, writer, dirty>>
    ELSE IF e.is = "account.updated"
    THEN Request /\ UNCHANGED <<record, writer, dirty>>
    ELSE LET update == [of |-> e.of, seen |-> e.seen] IN
         /\ SetRecord([record EXCEPT !.limits = MergeSparse(@, update)])
         /\ sinceRead' = IF running = "out" THEN MergeSparse(sinceRead, update) ELSE sinceRead
         /\ UNCHANGED <<running, again>>

Deliver ==
    /\ wire # <<>>
    /\ wire' = Tail(wire)
    /\ LET e == Head(wire) IN
         \/ /\ e.is = "response" /\ Response(e.id, e.outcome)
            /\ UNCHANGED <<reader, record, writer, dirty>>
         \/ e.is # "response" /\ Accept(e) /\ UNCHANGED request
    /\ UNCHANGED <<server, closed, spent>>

TurnEnds ==
    /\ ~closed /\ spent.turns < MaxTurns
    /\ Request /\ Spend("turns")
    /\ UNCHANGED <<server, wire, request, closed, record, writer, dirty>>

\* What ask() does of one method: skipped while its last is unanswered, refused
\* by a connection that is closed, and else sent.
Asked(m, id) ==
    IF m \in outstanding THEN Error
    ELSE IF ~up /\ wire = <<>> THEN Error
    ELSE Waiting(id)

IdOf == [m \in Methods |-> IF m = "account/read" THEN nextId ELSE nextId + 1]

ReadAccount ==
    LET asked == [m \in Methods |-> Asked(m, IdOf[m])]
        sent  == {m \in Methods: asked[m].is = "waiting"} IN
    /\ answers' = asked
    /\ pending' = pending \cup {[id |-> IdOf[m], method |-> m]: m \in sent}
    /\ outstanding' = outstanding \cup sent
    /\ taken' = taken \cup
         {[id |-> IdOf[m], method |-> m, outcome |-> Waiting(IdOf[m])]: m \in IF up THEN sent ELSE {}}
    /\ nextId' = nextId + 2

\* The tick a read was put off to.
StartRead ==
    /\ running = "asked"
    /\ IF closed
       THEN /\ running' = "idle" /\ again' = FALSE
            /\ UNCHANGED <<request, taken, sinceRead>>
       ELSE /\ running' = "out" /\ sinceRead' = NoLimits
            /\ ReadAccount /\ UNCHANGED again
    /\ UNCHANGED <<signedIn, figure, up, wire, closed, record, writer, dirty, spent>>

\* The bound ends the wait and not the request.
TimesOut(m) ==
    /\ running = "out" /\ answers[m].is = "waiting"
    /\ answers' = [answers EXCEPT ![m] = Error]
    /\ UNCHANGED <<pending, nextId, outstanding, server, wire, reader, closed, record, writer, dirty, spent>>

MergedWhatCame ==     \* a defect: the read's snapshot replaces what came after it
    LET account == answers["account/read"]
        limits  == answers["account/rateLimits/read"]
        answered == account.is = "answer" IN
    [account   |-> IF answered THEN account.of ELSE record.account,
     confirmed |-> answered \/ record.confirmed,
     limits    |-> IF answered /\ limits.is = "answer"
                   THEN [of |-> {limits.of}, seen |-> limits.seen] ELSE record.limits,
     error     |-> ~answered \/ limits.is = "error",
     turned    |-> FALSE]

\* The record with one read's answers in it.
Merged ==
    LET account  == answers["account/read"]
        limits   == answers["account/rateLimits/read"]
        answered == account.is = "answer"
        turned   == answered /\ record.confirmed /\ account.of # record.account
        kept     == IF turned THEN NoLimits ELSE record.limits
        updates  == IF turned THEN NoLimits ELSE sinceRead IN
    [account   |-> IF answered THEN account.of ELSE record.account,
     confirmed |-> answered \/ record.confirmed,
     limits    |-> IF answered /\ limits.is = "answer"
                   THEN MergeSparse([of |-> {limits.of}, seen |-> limits.seen], updates)
                   ELSE kept,
     error     |-> ~answered \/ limits.is = "error",
     turned    |-> turned]

\* The read is over, and one that was folded in behind it is asked for.
RecordRead ==
    /\ running = "out" /\ \A m \in Methods: answers[m].is # "waiting"
    /\ IF closed THEN UNCHANGED <<record, dirty, writer>> ELSE SetRecord(Merged)
    /\ running' = IF again /\ ~closed THEN "asked" ELSE "idle"
    /\ again' = FALSE /\ sinceRead' = NoLimits /\ answers' = NoRead
    /\ UNCHANGED <<pending, nextId, outstanding, server, wire, closed, spent>>

\* The session is left: runtime/index.ts closes the recorder first.
Close ==
    /\ ~closed /\ closed' = TRUE
    /\ UNCHANGED <<server, wire, request, reader, record, writer, dirty, spent>>

\* One write at a time, of the record as it is when the write starts.
NextWrite ==
    IF dirty THEN writing' = "out" /\ dirty' = FALSE /\ copy' = TRUE
             ELSE writing' = "no" /\ UNCHANGED <<dirty, copy>>

WriteStarts ==
    /\ writing = "queued" /\ NextWrite
    /\ UNCHANGED <<disk, failed, server, wire, request, reader, closed, record, spent>>

WriteEnds ==
    /\ writing = "out" /\ NextWrite
    /\ \/ disk' = copy /\ failed' = FALSE /\ UNCHANGED spent
       \/ spent.faults < MaxFaults /\ failed' = TRUE /\ Spend("faults") /\ UNCHANGED disk
    /\ UNCHANGED <<server, wire, request, reader, closed, record>>

Server == Switch \/ Uses \/ Dies \/ \E r \in taken: Look(r) \/ Answers(r) \/ Refuses(r)
Recorder == Deliver \/ Fail \/ StartRead \/ (\E m \in Methods: TimesOut(m)) \/ RecordRead
Writer == WriteStarts \/ WriteEnds

Next == Server \/ Recorder \/ Writer \/ TurnEnds \/ Close

Spec == Init /\ [][Next]_vars
(* The event loop runs what is due: a line that was read, a tick, a timer,  *)
(* a write.  The app-server owes nothing.                                   *)
Fairness == WF_vars(Recorder) /\ WF_vars(Writer)
FairSpec == Spec /\ Fairness

----------------------------------------------------------------------------
Quiet == running = "idle" /\ wire = <<>>

(* Once no read is out and no notification is under way, a record whose     *)
(* last read had no error names the account that is signed in, its limits   *)
(* hold no figure of another account, and they are the newest: whatever the *)
(* order of logins, updates, late answers and folded reads                  *)
(* (provider-account.ts, "only a read says whether the account changed").   *)
QuietRecordIsTrue ==
    Quiet /\ up /\ ~closed /\ ~record.error =>
        /\ record.account = signedIn
        /\ record.limits.of \subseteq {signedIn}
        /\ record.turned \/ record.limits.seen = figure

(* However long the app-server is silent and however many turns ask, the    *)
(* connection holds at most one request of each kind, and the session knows *)
(* which (session.ts: "holds two entries in the connection, not one per     *)
(* turn").                                                                  *)
OneRequestOfEach ==
    /\ outstanding = {p.method: p \in pending}
    /\ Cardinality(pending) = Cardinality(outstanding)

(* The recorder comes to rest: no server that is silent or dead and no      *)
(* burst of requests keeps a read or a write out for ever, and what is at   *)
(* rest on disk is the record unless its last write failed.                 *)
ComesToRest ==
    <>[](running = "idle" /\ writing = "no" /\ (disk \/ failed))

(* The record tells of the account that is signed in, and is asked for with *)
(* one request of each kind.                                                *)
RecordIsTrue == QuietRecordIsTrue /\ OneRequestOfEach
=============================================================================
