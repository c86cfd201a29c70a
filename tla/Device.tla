------------------------------- MODULE Device -------------------------------
(***************************************************************************)
(* The linked device (adapters/whatsapp): the connection one poll opens and *)
(* the next finds open, the pictures that are fetched while later messages  *)
(* arrive, the buffer that is handed over whole on every pass, the albums   *)
(* that are held until they are quiet, the edits, the agent's own words     *)
(* coming back, and the latch.  One chat of one account.  A pass of the     *)
(* loop and a delivery take turns; the socket's events come at any time.    *)
(* A position is the server's second of the event, then a count of its      *)
(* connection, which begins again with the next one.                        *)
(***************************************************************************)
EXTENDS Integers, FiniteSets, Sequences, SequencesExt

CONSTANTS Pictures,  \* messages with media
          Members,   \* members of an album
          Edits,     \* edits of Original
          Original,
          Words,     \* what the operator writes on their own phone
          Alike,     \* those of them whose text is that of the agent's reply
          Parts,     \* for each attempt at the agent's reply, the ids of its parts
          Cases,     \* bound: what the server has to deliver, what the agent does, and
                     \* how many closes, removals and kills there are
          Retained,  \* bound: RETAINED
          LastSecond \* bound: how far the server's clock runs

VARIABLES
    link,      \* "none", "open"
    removed,   \* the server has removed the device
    latch,
    asked,     \* the connections asked for since the removal
    outside,   \* the events the server has still to deliver
    second, ordinal,
    fetching,  \* the items whose media is on its way: [of, pos]
    buffer,    \* entry.items
    fresh,     \* an album member came in within album_quiet_ms
    cursor,    \* [message, revision]
    records,   \* [of, key, rev, role]
    reply, attempt, part, ids,
    gone,      \* what was delivered and not written, each with what lost it
    strays,    \* the parts that went and whose ids no delivery wrote down
    came,      \* delivered
    spare,     \* the closes, removals and kills to come
    cuts       \* the closes and the kills since the removal

wire == <<link, removed, latch, asked>>
clock == <<second, ordinal>>
memory == <<fetching, buffer, fresh>>
disk == <<cursor, records>>
sending == <<reply, attempt, part, ids>>
history == <<gone, strays, came>>
bounds == <<spare, cuts>>
vars == <<wire, outside, clock, memory, disk, sending, history, bounds>>

Messages == Pictures \cup Members \cup Edits \cup Words
Position(s, n) == 100 * s + n
Media == Pictures \cup Members
KindOf(e) == IF e \in Edits THEN "revision" ELSE "message"
KeyOf(e) == IF e \in Edits THEN Original ELSE e
Echoes == UNION {ToSet(Parts[n]) : n \in DOMAIN Parts}
FromMe(e) == e \in Words \cup Echoes
Mishap == spare > 0 /\ spare' = spare - 1

Init ==
    /\ link = "none" /\ removed = FALSE /\ latch = FALSE /\ asked = 0
    /\ \E c \in Cases : outside = c[1] /\ reply = c[2] /\ spare = c[3]
    /\ second = 1 /\ ordinal = 0
    /\ fetching = {} /\ buffer = <<>> /\ fresh = FALSE
    /\ cursor = [message |-> 0, revision |-> 0] /\ records = {}
    /\ attempt = 1 /\ part = 1 /\ ids = {}
    /\ gone = {} /\ strays = {} /\ came = {}
    /\ cuts = 0

----------------------------------------------------------------------------
(* The connection.                                                          *)

Asks == IF removed /\ asked < 3 THEN asked + 1 ELSE asked

(* The next poll, or a send, opens; a latched channel is refused.  A        *)
(* connection counts its events from one, in openChannel's own variable; a  *)
(* send keeps to the connection it began on.                                *)
Open ==
    /\ link = "none" /\ reply # "sending"
    /\ ~latch /\ link' = "open" /\ ordinal' = 0 /\ asked' = Asks
    /\ UNCHANGED <<removed, latch, outside, second, memory, disk, sending, history, bounds>>

(* An ordinary close clears the socket and nothing else.                    *)
Close ==
    /\ link = "open" /\ Mishap /\ link' = "none" /\ cuts' = cuts + 1
    /\ UNCHANGED <<removed, latch, asked, outside, clock, memory, disk, sending, history>>

Unlink ==
    /\ ~removed /\ Mishap /\ removed' = TRUE /\ asked' = 0 /\ cuts' = 0
    /\ UNCHANGED <<link, latch, outside, clock, memory, disk, sending, history>>

(* 401 or 403: the latch is written.  The exit code that is set ends nothing. *)
TerminalClose ==
    /\ link = "open" /\ removed
    /\ link' = "none" /\ latch' = TRUE
    /\ UNCHANGED <<removed, asked, outside, clock, memory, disk, sending, history, bounds>>

----------------------------------------------------------------------------
(* What arrives.                                                            *)

Kept(s) == IF Len(s) > Retained THEN SubSeq(s, Len(s) - Retained + 1, Len(s)) ELSE s
Written == {r.of : r \in records}
Names(S) == {item.of : item \in S}

PastCursors(item) ==
    item.pos > cursor[KindOf(item.of)] \/ (item.of \in Edits /\ item.of \notin Written)

(* What falls out of the buffer unread.                                     *)
Dropped(s) == Names({item \in ToSet(buffer) \ ToSet(s) : PastCursors(item)})

(* The event's own second: no sooner than that of the event before it.      *)
Seconds == {second, second + 1} \cap 1..LastSecond

Lost(S, why) == S \X {why}

(* messages.upsert: media is fetched before the item is handed over, and    *)
(* the next upsert does not wait for it.                                    *)
Deliver(e) ==
    LET item == [of |-> e, pos |-> Position(second', ordinal')] IN
    /\ link = "open" /\ ~removed /\ e \in outside
    /\ outside' = outside \ {e}
    /\ second' \in Seconds /\ ordinal' = ordinal + 1
    /\ IF e \in Media THEN fetching' = fetching \cup {item} /\ UNCHANGED <<buffer, fresh>>
       ELSE buffer' = Kept(Append(buffer, item)) /\ UNCHANGED <<fetching, fresh>>
    /\ gone' = gone \cup Lost(Dropped(buffer'), "full")
                     \cup Lost({m \in {e} \ Edits : item.pos <= cursor.message}, "same second")
    /\ came' = came \cup {e}
    /\ UNCHANGED <<wire, disk, sending, strays, bounds>>

(* The download has come, or has failed: the item goes on either way.       *)
Fetched(item) ==
    /\ item \in fetching
    /\ fetching' = fetching \ {item}
    /\ buffer' = Kept(Append(buffer, item))
    /\ fresh' = (fresh \/ item.of \in Members)
    /\ gone' = gone \cup Lost(Dropped(buffer'), "full")
    /\ UNCHANGED <<wire, outside, clock, disk, sending, strays, came, bounds>>

Quiet ==
    /\ fresh /\ fresh' = FALSE
    /\ UNCHANGED <<wire, outside, clock, fetching, buffer, disk, sending, history, bounds>>

----------------------------------------------------------------------------
(* A pass of the loop.                                                      *)

IsPending(item) == PastCursors(item) /\ ~(item.of \in Members /\ fresh)

(* Its text is that of a whole reply which is on record, sent or not.       *)
SaysTheReply(e) == reply # "none" /\ (e \in Alike \/ (e \in Echoes /\ Len(Parts[1]) = 1))

(* From this account, and of an id that a delivery wrote back or of a text  *)
(* that is a reply's: neither captured nor held.                            *)
IsOwnSend(e) == FromMe(e) /\ (e \in ids \/ SaysTheReply(e))

Files(key) == {r \in records : r.key = key}

RevisionOf(batch, i) ==
    IF batch[i].of \in Edits
    THEN Cardinality(Files(Original)) + Cardinality({k \in 1..(i - 1) : batch[k].of \in Edits})
    ELSE 0

EntryOf(batch, i) == [of |-> batch[i].of, key |-> KeyOf(batch[i].of), rev |-> RevisionOf(batch, i),
                      role |-> IF FromMe(batch[i].of) THEN "operator" ELSE "contact"]

(* Store.capture: the first to come to a file keeps it.                     *)
Capture(entries) == FoldLeft(LAMBDA all, r :
    IF \E q \in all : q.key = r.key /\ q.rev = r.rev THEN all ELSE all \cup {r}, records, entries)

Furthest(kind, batch) ==
    FoldLeft(LAMBDA at, item : IF KindOf(item.of) = kind /\ item.pos > at THEN item.pos ELSE at,
             cursor[kind], batch)

(* What is still on its way, or held, behind the cursor that now moves.     *)
PassedBy(batch) == Names({item \in (fetching \cup ToSet(buffer)) \ ToSet(batch) :
    item.of \notin Edits \cup Written /\ item.pos <= Furthest("message", batch)})

(* A slip: what is handed over is forgotten.                                *)
Handed == buffer' = <<>>

(* arrivals hands over the buffer and keeps it.                             *)
Keeps == buffer' = buffer

Pass ==
    LET batch == SelectSeq(buffer, IsPending)
        heard == SelectSeq(batch, LAMBDA item : ~IsOwnSend(item.of))
        entries == [i \in DOMAIN heard |-> EntryOf(heard, i)] IN
    /\ link = "open" /\ reply # "sending" /\ batch # <<>>
    /\ records' = Capture(entries)
    /\ cursor' = [kind \in DOMAIN cursor |-> Furthest(kind, batch)]
    /\ gone' = gone \cup Lost(PassedBy(batch), "passed")
                     \cup Lost({r.of : r \in ToSet(entries) \ records'} \ Edits, "edit first")
    /\ Keeps
    /\ UNCHANGED <<wire, outside, clock, fetching, fresh, sending, strays, came, bounds>>

----------------------------------------------------------------------------
(* The reply, part after part on the connection the poll opened.            *)

BeginReply ==
    /\ reply = "pending" /\ attempt \in DOMAIN Parts /\ (link = "open" \/ latch)
    /\ reply' = "sending" /\ part' = 1
    /\ UNCHANGED <<wire, outside, clock, memory, disk, attempt, ids, history, bounds>>

Order == Parts[attempt]
Went == {Order[n] : n \in 1..(part - 1)}   \* the parts of this attempt that went

SendPart ==
    /\ reply = "sending" /\ part <= Len(Order) /\ link = "open" /\ ~removed
    /\ outside' = outside \cup {Order[part]} /\ part' = part + 1
    /\ UNCHANGED <<wire, clock, memory, disk, reply, attempt, ids, history, bounds>>

(* outcomeOf: failed when the connection was closed before anything went    *)
(* out, and unknown in every other case, when the part may have gone too.   *)
SendFails ==
    /\ reply = "sending" /\ part <= Len(Order)
    /\ link = "none" \/ removed
    /\ \E late \in SUBSET (IF removed THEN {} ELSE {Order[part]}) :
           /\ reply' \in IF part = 1 /\ late = {} THEN {"failed", "unknown"} ELSE {"unknown"}
           /\ outside' = outside \cup late /\ strays' = strays \cup Went \cup late
    /\ part' = 1
    /\ UNCHANGED <<wire, clock, memory, disk, attempt, ids, gone, came, bounds>>

MarkSent ==
    /\ reply = "sending" /\ part > Len(Order)
    /\ reply' = "sent" /\ ids' = ToSet(Order) /\ part' = 1
    /\ UNCHANGED <<wire, outside, clock, memory, disk, attempt, history, bounds>>

----------------------------------------------------------------------------
(* The process ends and starts: the buffer is its memory, and a reply that  *)
(* was being sent is pending and is sent again.                             *)
Restart ==
    /\ link' = "none"
    /\ fetching' = {} /\ buffer' = <<>> /\ fresh' = FALSE
    /\ gone' = gone \cup Lost(Names(fetching), "fetching")
                     \cup Lost(Names({item \in ToSet(buffer) : PastCursors(item)}), "restart")
    /\ IF reply = "sending"
       THEN reply' = "pending" /\ attempt' = attempt + 1 /\ strays' = strays \cup Went
       ELSE UNCHANGED <<reply, attempt, strays>>
    /\ UNCHANGED <<outside, clock, disk, part, ids, came>>

Kill ==
    /\ Mishap /\ cuts' = cuts + 1 /\ Restart
    /\ UNCHANGED <<removed, latch, asked>>

(* A person pairs the device again, and the install clears the latch.       *)
Pair ==
    /\ latch /\ removed' = FALSE /\ latch' = FALSE /\ asked' = 0
    /\ Restart /\ UNCHANGED bounds

Fetch == \E item \in fetching : Fetched(item)
Send == BeginReply \/ SendPart \/ SendFails \/ MarkSent

Next ==
    \/ Open \/ Close \/ Unlink \/ TerminalClose \/ Pair \/ Kill
    \/ \E e \in Messages \cup Echoes : Deliver(e)
    \/ Fetch \/ Quiet \/ Pass \/ Send

Spec == Init /\ [][Next]_vars

----------------------------------------------------------------------------
(* What the adapter promises.                                               *)

(* The buffer is handed over again on every pass, and an event still makes  *)
(* one record (index.ts:135 asks the store where the cursor cannot tell).   *)
OnceEach == \A r, q \in records : r.of = q.of => r = q

(* A hold is a person's: the agent's own words coming back set none         *)
(* (index.ts:191), but for the parts of a reply that was cut short.         *)
HoldIsAPersons == \A r \in records : r.role = "operator" => r.of \in Words \cup strays

(* A removed device asks the server once, and once more for each connection *)
(* that ended before the server had said so (latch.ts:5).                   *)
AsksOnce == removed => asked <= 1 + cuts

(* What is delivered is written, the agent's own, or still to be handled.   *)
(* An operator's words are dropped, with no record and no hold, when they   *)
(* are the reply's (index.ts:327).  What else is lost was passed by a later *)
(* message while it was fetched or held; came in the second of the cursor,  *)
(* on a connection that counts anew; fell out of the buffer; was being      *)
(* fetched, or was in the buffer, when the process ended; or gave its file  *)
(* to an edit that was read first.                                          *)
NothingSlipsBy == \A e \in came :
    \/ e \in Written
    \/ (e \in Echoes \cup Alike /\ IsOwnSend(e))
    \/ \E why \in {"passed", "same second", "full", "fetching", "restart", "edit first"} : <<e, why>> \in gone
    \/ \E item \in fetching \cup ToSet(buffer) : item.of = e /\ PastCursors(item)

(* What the linked device brings is written once and under its own name,    *)
(* and a device that was removed stays quiet.                               *)
ChatIsKept == OnceEach /\ HoldIsAPersons /\ AsksOnce /\ NothingSlipsBy

(* adapters/whatsapp/README.md, 7: a restart in the window an album is held *)
(* for loses nothing.                                                       *)
WindowSurvives == \A e \in Members : <<e, "restart">> \notin gone
=============================================================================
