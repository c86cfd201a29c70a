------------------------------ MODULE Mailbox -------------------------------
(***************************************************************************)
(* How mail becomes records (adapters/email/index.ts, curl.ts,              *)
(* agentmail-api.ts, and the capture of runtime/loop.ts).  Over IMAP each   *)
(* request is a connection of its own, and the mailbox changes between two  *)
(* of them: mail arrives, a person reads it, the server numbers it anew.    *)
(* Over the AgentMail API the mailbox is listed in pages and every message  *)
(* is fetched.  Any failure gives up the whole poll.  The uid of a mail is  *)
(* its place in the box, and its stamp over the API too.                    *)
(***************************************************************************)
EXTENDS Integers, FiniteSets, Sequences, SequencesExt

CONSTANTS Mails,       \* the mails that may arrive
          ConvOf,      \* mail |-> the root of its References
          Corrects,    \* mail |-> the mail its Supersedes names, or None
          Unreadable,  \* the mails the MIME reader cannot read
          None,
          Page,        \* agentmail_list_limit
          Flagged,     \* bound: the mails the person may read
          MaxMishaps   \* bound: failed requests, new UIDVALIDITYs and kills

VARIABLES
    Api,       \* the transport is the AgentMail API: it never changes
    box,       \* the mailbox, in order of uid
    validity,  \* its UIDVALIDITY
    seen,      \* the mails flagged \Seen
    readBy,    \* the mails the person read
    at,        \* where the pass is
    attempt,   \* the attempts at STATUS
    live,      \* UIDVALIDITY as STATUS gave it; 0 when no poll runs
    todo,      \* the uids or stamps still to fetch
    unread,    \* the uids UNSEEN gave
    items,     \* what was fetched: [mail, pos, uid]
    pending,   \* the items of this capture that are not yet written
    owed,      \* the items of this capture that are not yet consumed
    plan,      \* item |-> the revision it is written as
    records,   \* the store: [key, rev, of]
    cursor,    \* conversation |-> [message, revision]
    watermark,
    spoiled,   \* the mails fetched by a poll that did not end
    overtaken, \* the parked mails a later mail of their conversation passed
    twins,     \* the corrections planned beside another of the same mail
    mishaps

mailbox == <<Api, box, validity, seen, readBy>>
pollState == <<attempt, live, todo, unread, items>>
capture == <<pending, owed, plan>>
disk == <<records, cursor, watermark>>
history == <<spoiled, overtaken, twins>>
vars == <<mailbox, at, pollState, capture, disk, history, mishaps>>

Convs == {ConvOf[m] : m \in Mails}
Attempts == 3                       \* STATUS_ATTEMPTS
Position(v, uid) == 100 * v + uid   \* positionOf: the validity, then the uid
ValidityOf(pos) == pos \div 100
Arrived == ToSet(box)
Mishap == mishaps < MaxMishaps /\ mishaps' = mishaps + 1

Init ==
    /\ Api \in BOOLEAN
    /\ box = <<>> /\ validity = 1 /\ seen = {} /\ readBy = {}
    /\ at = "idle" /\ attempt = 1 /\ live = 0 /\ todo = {} /\ unread = {} /\ items = {}
    /\ pending = {} /\ owed = {} /\ plan = <<>>
    /\ records = {} /\ cursor = [c \in Convs |-> [message |-> 0, revision |-> 0]] /\ watermark = 0
    /\ spoiled = {} /\ overtaken = {} /\ twins = {}
    /\ mishaps = 0

----------------------------------------------------------------------------
(* The mailbox, and the person who reads it too.                            *)

Arrive(m) ==
    /\ m \notin Arrived /\ box' = Append(box, m)
    /\ UNCHANGED <<Api, validity, seen, readBy, at, pollState, capture, disk, history, mishaps>>

PersonReads(m) ==
    /\ ~Api /\ m \in (Flagged \cap Arrived) \ readBy
    /\ readBy' = readBy \cup {m} /\ seen' = seen \cup {m}
    /\ UNCHANGED <<Api, box, validity, at, pollState, capture, disk, history, mishaps>>

(* What a poll under way fetched it will not put back by these numbers.     *)
Renumber ==
    /\ ~Api /\ Mishap
    /\ validity' = validity + 1 /\ box' = Reverse(box)
    /\ spoiled' = spoiled \cup IF at = "idle" THEN {} ELSE Arrived
    /\ UNCHANGED <<Api, seen, readBy, at, pollState, capture, disk, overtaken, twins>>

----------------------------------------------------------------------------
(* The poll.                                                                *)

Go(there) == at' = there

(* The poll throws, and what it fetched keeps the flag the fetch gave it.   *)
GiveUp ==
    /\ Go("idle") /\ items' = {} /\ todo' = {} /\ unread' = {} /\ attempt' = 1 /\ live' = 0
    /\ spoiled' = spoiled \cup {i.mail : i \in items}
    /\ UNCHANGED <<mailbox, capture, disk, overtaken, twins>>

Status ==
    /\ at = "idle" /\ ~Api
    /\ live' = validity /\ attempt' = 1
    /\ Go("search")
    /\ UNCHANGED <<mailbox, todo, unread, items, capture, disk, history, mishaps>>

(* Only a timeout of this request is tried again.                           *)
StatusTimesOut ==
    /\ at = "idle" /\ ~Api /\ Mishap
    /\ attempt' = IF attempt < Attempts THEN attempt + 1 ELSE 1
    /\ UNCHANGED <<mailbox, at, live, todo, unread, items, capture, disk, history>>

(* A watermark of this validity is read past; of an older one, from uid 1.  *)
FromUid == IF ValidityOf(watermark) = live THEN (watermark % 100) + 1 ELSE 1

Search ==
    /\ at = "search"
    /\ todo' = {uid \in DOMAIN box : uid >= FromUid}
    /\ Go(IF todo' = {} THEN "idle" ELSE "unseen")
    /\ live' = IF todo' = {} THEN 0 ELSE live
    /\ UNCHANGED <<mailbox, attempt, unread, items, capture, disk, history, mishaps>>

(* A slip: what is unread is asked when the fetches are done.               *)
UnseenAfter ==
    /\ at = "unseen" /\ unread' = {} /\ Go("fetch")
    /\ UNCHANGED <<mailbox, attempt, live, todo, items, capture, disk, history, mishaps>>

Unseen ==
    /\ at = "unseen"
    /\ unread' = {uid \in DOMAIN box : box[uid] \notin seen}
    /\ Go("fetch")
    /\ UNCHANGED <<mailbox, attempt, live, todo, items, capture, disk, history, mishaps>>

Least(S) == CHOOSE x \in S : \A y \in S : x <= y

(* The URL form of FETCH marks the mail read.                               *)
Fetch ==
    /\ at = "fetch" /\ todo # {}
    /\ LET uid == Least(todo) IN
       /\ items' = items \cup {[mail |-> box[uid], uid |-> uid,
                                pos |-> IF Api THEN uid ELSE Position(live, uid)]}
       /\ seen' = IF Api THEN seen ELSE seen \cup {box[uid]}
       /\ todo' = todo \ {uid}
    /\ UNCHANGED <<Api, box, validity, readBy, at, attempt, live, unread, capture, disk, history, mishaps>>

(* UID STORE -FLAGS takes the flag off; a failure here is only reported.    *)
Restore ==
    /\ at = "fetch" /\ todo = {} /\ Go("taken")
    /\ \/ /\ seen' = seen \ {box[i.uid] : i \in {i \in items : i.uid \in unread}}
          /\ UNCHANGED <<spoiled, mishaps>>
       \/ ~Api /\ Mishap /\ spoiled' = spoiled \cup {i.mail : i \in items} /\ UNCHANGED seen
    /\ UNCHANGED <<Api, box, validity, readBy, pollState, capture, disk, overtaken, twins>>

PollFails == at \in {"search", "unseen", "list", "fetch"} /\ Mishap /\ GiveUp

(* The API: page after page of what is after the watermark, then each mail. *)
List ==
    /\ Api /\ at \in {"idle", "list"}
    /\ LET last == IF at = "idle" THEN watermark ELSE Cardinality(todo) + watermark
           page == {s \in DOMAIN box : s > last /\ s <= last + Page} IN
       /\ todo' = (IF at = "idle" THEN {} ELSE todo) \cup page
       /\ Go(IF Cardinality(page) = Page THEN "list" ELSE IF todo' = {} THEN "idle" ELSE "fetch")
    /\ UNCHANGED <<mailbox, attempt, live, unread, items, capture, disk, history, mishaps>>

----------------------------------------------------------------------------
(* readItem: a correction is a revision of the mail it supersedes, when the *)
(* store holds that; else it is a mail of its own.                          *)

FilesOf(conv, m) == {r \in records : r.key = <<conv, m>>}
IsRevision(m) == m \notin Unreadable /\ Corrects[m] # None /\ FilesOf(ConvOf[m], Corrects[m]) # {}
KeyOf(m) == <<ConvOf[m], IF IsRevision(m) THEN Corrects[m] ELSE m>>
Highest(S) == CHOOSE r \in S : \A q \in S : q.rev <= r.rev
RevisionOf(m) == IF IsRevision(m) THEN Highest(FilesOf(ConvOf[m], Corrects[m])).rev + 1 ELSE 0
KindOf(m) == IF IsRevision(m) THEN "revision" ELSE "message"

IsPending(i) == i.pos > cursor[ConvOf[i.mail]][KindOf(i.mail)]

(* listPending and payload read the store once for the whole batch.         *)
Take ==
    LET batch == {i \in items : IsPending(i)} IN
    /\ at = "taken"
    /\ pending' = batch /\ owed' = batch
    /\ plan' = [i \in batch |-> [key |-> KeyOf(i.mail), rev |-> RevisionOf(i.mail),
                                 kind |-> KindOf(i.mail), of |-> i.mail]]
    /\ twins' = twins \cup {i.mail : i \in {i \in batch : IsRevision(i.mail) /\ \E k \in batch :
                    k.mail # i.mail /\ IsRevision(k.mail) /\ KeyOf(i.mail) = KeyOf(k.mail)}}
    /\ items' = {} /\ unread' = {} /\ live' = 0
    /\ Go(IF batch = {} THEN "idle" ELSE "write")
    /\ UNCHANGED <<mailbox, attempt, todo, disk, spoiled, overtaken, mishaps>>

First(S) == CHOOSE i \in S : \A k \in S : i.pos <= k.pos
Readable(S) == {i \in S : i.mail \notin Unreadable}
NextOf(S) == IF Readable(S) = {} THEN First(S) ELSE First(Readable(S))

(* Store.capture: a file that is there is merged into and keeps its bytes.  *)
Write ==
    LET p == plan[NextOf(pending)] IN
    /\ at = "write"
    /\ records' = IF \E r \in records : r.key = p.key /\ r.rev = p.rev THEN records
                  ELSE records \cup {[key |-> p.key, rev |-> p.rev, of |-> p.of]}
    /\ Go("cursor")
    /\ UNCHANGED <<mailbox, pollState, capture, cursor, watermark, history, mishaps>>

Forward(conv, kind, pos) == [cursor EXCEPT ![conv][kind] = IF pos > @ THEN pos ELSE @]

Cursor ==
    LET i == NextOf(pending) IN
    /\ at = "cursor"
    /\ cursor' = Forward(ConvOf[i.mail], plan[i].kind, i.pos)
    /\ pending' = pending \ {i}
    /\ Go(IF pending' = {} THEN "consume" ELSE "write")
    /\ UNCHANGED <<mailbox, pollState, owed, plan, records, watermark, history, mishaps>>

(* consume reads the item again, and moves the conversation's cursor and    *)
(* the mailbox's mark.                                                      *)
Consume ==
    LET i == First(owed) IN
    /\ at = "consume"
    /\ cursor' = Forward(ConvOf[i.mail], KindOf(i.mail), i.pos)
    /\ watermark' = IF i.pos > watermark THEN i.pos ELSE watermark
    /\ owed' = owed \ {i}
    /\ Go(IF owed' = {} THEN "idle" ELSE "consume")
    /\ plan' = IF owed' = {} THEN <<>> ELSE plan
    /\ UNCHANGED <<mailbox, pollState, pending, records, history, mishaps>>

(* A kill; the next start polls from the marks.                             *)
Kill ==
    /\ at # "idle" /\ Mishap
    /\ Go("idle") /\ items' = {} /\ todo' = {} /\ unread' = {} /\ attempt' = 1 /\ live' = 0
    /\ pending' = {} /\ owed' = {} /\ plan' = <<>>
    /\ spoiled' = spoiled \cup IF at \in {"fetch", "taken"} THEN {i.mail : i \in items} ELSE {}
    /\ overtaken' = overtaken \cup {i.mail : i \in {i \in pending : ~IsPending(i)}}
    /\ UNCHANGED <<mailbox, disk, twins>>

Poll == Status \/ Search \/ Unseen \/ Fetch \/ Restore \/ List
Capture == Take \/ Write \/ Cursor \/ Consume

Next ==
    \/ \E m \in Mails : Arrive(m) \/ PersonReads(m)
    \/ Renumber
    \/ Poll \/ StatusTimesOut \/ PollFails
    \/ Capture \/ Kill

(* The loop polls and captures; the network mends.                          *)
Fairness == WF_vars(Poll) /\ WF_vars(Capture)

Spec == Init /\ [][Next]_vars /\ Fairness

----------------------------------------------------------------------------
(* What the adapter promises.                                               *)

Recorded(m) == \E r \in records : r.of = m

(* Mail behind the mailbox's mark is in the store (index.ts:433 moves the   *)
(* mark after the capture), over failed polls, kills and new numbers.  The  *)
(* exceptions: a correction that merges into its twin's file, and a mail    *)
(* that was to be parked and was passed by a later one before a kill.       *)
BehindTheMarkIsKept == \A uid \in DOMAIN box :
    (Api \/ ValidityOf(watermark) = validity) /\ (IF Api THEN uid ELSE Position(validity, uid)) <= watermark
        => Recorded(box[uid]) \/ box[uid] \in twins \cup overtaken

(* Reading a mailbox a person reads too leaves their unread mail unread     *)
(* (curl.ts:157): at rest only mail they read is flagged, but for the mail  *)
(* of a poll that did not reach its end.                                    *)
UnreadStaysUnread == at = "idle" => seen \subseteq readBy \cup spoiled

(* The mails that arrive are all recorded in the end, once mails stop       *)
(* coming and the network mends (listPending and poll lose none).           *)
EachIsRecorded == <>[](\A m \in Arrived : Recorded(m) \/ m \in twins \cup overtaken)

(* Mail is kept by the agent and left unread for the person.                *)
MailIsKept == BehindTheMarkIsKept /\ UnreadStaysUnread
=============================================================================
