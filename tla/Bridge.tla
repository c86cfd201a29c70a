------------------------------- MODULE Bridge -------------------------------
(***************************************************************************)
(* What a browser companion does with one ticket's conversation while the   *)
(* loop writes to it: consultants stage files and submit messages, the      *)
(* records change state, and a reader pages through them by cursor or waits *)
(* for news (runtime/browser.ts, browser-files.ts, browser-projection.ts).  *)
(* The store and its bridge are one process; a restart builds the cursors   *)
(* again from the index and the records.                                    *)
(***************************************************************************)
EXTENDS Naturals, FiniteSets

CONSTANTS Actors, Posts, Files,
          Limit,     \* rows of a page
          MaxSeq,    \* bound: ordinals given out
          MaxDeaths  \* bound: deaths of the process

Nobody == "nobody"

VARIABLES
  seqNo,     \* the store's ordinal
  post,      \* the record of a message: sender, files, capture and state ordinals
  index,     \* the ordinals index.jsonl gives the messages
  staged,    \* thread file: who staged a file, and the message it is bound to
  room,      \* the conversation's directory exists
  updates,   \* browserProjectionUpdates of this store object
  rows,      \* the projection's rows
  built,     \* the projection was constructed, and its state cursors read
  after,     \* the reader's cursor
  shown,     \* the ordinal of the state of each message the reader was last shown
  caughtUp,  \* the last page said there is no more, and nothing was written since
  watch,     \* a wait: "none", "waiting" or "roused"
  blind,     \* the wait was opened before the conversation had a directory
  seenBy,    \* who was let to read a file
  unlisted,  \* messages whose index line a death cut
  deaths
bridgeVars == <<seqNo, post, index, staged, room, updates, rows, built, after, shown,
                caughtUp, watch, blind, seenBy, unlisted, deaths>>

Absent == [by |-> Nobody, files |-> {}, cap |-> 0, state |-> 0]
NoRow  == [seq |-> 0, cursor |-> 0]
Max2(x, y) == IF x > y THEN x ELSE y

Init ==
  /\ seqNo = 0 /\ room = FALSE /\ built = FALSE /\ after = 0
  /\ post = [p \in Posts |-> Absent]
  /\ index = [p \in Posts |-> 0]
  /\ staged = [f \in Files |-> [by |-> Nobody, bound |-> Nobody]]
  /\ updates = [p \in Posts |-> NoRow] /\ rows = [p \in Posts |-> NoRow]
  /\ shown = [p \in Posts |-> 0] /\ caughtUp = FALSE
  /\ watch = "none" /\ blind = FALSE
  /\ seenBy = [f \in Files |-> {}] /\ unlisted = {} /\ deaths = 0

Captured(p) == post[p].by # Nobody
Latest(p)   == Max2(post[p].cap, post[p].state)
Roomy == seqNo < MaxSeq

\* A write under the conversation's directory rouses a wait that watches it; the
\* directory is watched only if it was there when the wait was opened.
HeardAbove(inRoom) == ~inRoom    \* a slip: only the two parents are watched
Heard(inRoom) == ~inRoom \/ ~blind
Rouses(inRoom) == watch' = IF watch = "waiting" /\ Heard(inRoom) THEN "roused" ELSE watch

(* ---- files ------------------------------------------------------------ *)

\* stageBrowserAttachment: the bytes under the conversation, then the thread file.
Stage(a, f) ==
  /\ staged[f].by = Nobody
  /\ staged' = [staged EXCEPT ![f].by = a]
  /\ room' = TRUE
  /\ Rouses(FALSE)
  /\ UNCHANGED <<seqNo, post, index, updates, rows, built, after, shown, caughtUp, blind, seenBy, unlisted, deaths>>

\* bindBrowserAttachments keeps a binding that is already there.
BindTo(p, files) == [f \in Files |->
  IF f \in files /\ staged[f].bound = Nobody THEN [staged[f] EXCEPT !.bound = p] ELSE staged[f]]

\* attachmentIn: the binding a death cut is made when the file is next looked for.
Carrier(f) == {p \in Posts : f \in post[p].files /\ post[p].by = staged[f].by}

MayRead(a, f) == staged[f].bound # Nobody \/ Carrier(f) # {} \/ staged[f].by = a

ReadFile(a, f) ==
  /\ staged[f].by # Nobody /\ MayRead(a, f)
  /\ \/ /\ staged[f].bound = Nobody
        /\ \E p \in Carrier(f) : staged' = BindTo(p, {f})
        /\ Rouses(FALSE)
     \/ /\ staged[f].bound # Nobody \/ Carrier(f) = {}
        /\ UNCHANGED <<staged, watch>>
  /\ seenBy' = [seenBy EXCEPT ![f] = @ \cup {a}]
  /\ UNCHANGED <<seqNo, post, index, room, updates, rows, built, after, shown, caughtUp, blind, unlisted, deaths>>

(* ---- submissions and changes ------------------------------------------ *)

Attachable(a, files) == \A f \in files : staged[f].by = a
Record(a, files) == [by |-> a, files |-> files, cap |-> seqNo + 1, state |-> 0]

\* capture writes the record and its index line and publishes it; then the bind.
Submit(a, p, files) ==
  /\ Roomy /\ ~Captured(p) /\ Attachable(a, files)
  /\ seqNo' = seqNo + 1
  /\ post' = [post EXCEPT ![p] = Record(a, files)]
  /\ index' = [index EXCEPT ![p] = seqNo + 1]
  /\ updates' = [updates EXCEPT ![p] = [seq |-> seqNo + 1, cursor |-> seqNo + 1]]
  /\ staged' = BindTo(p, files)
  /\ room' = TRUE /\ caughtUp' = FALSE
  /\ Rouses(room /\ files = {})
  /\ UNCHANGED <<rows, built, after, shown, blind, seenBy, unlisted, deaths>>

\* The retry of an accepted submission returns its record and binds its files.
Resubmit(a, p) ==
  /\ Captured(p) /\ post[p].by = a
  /\ \E f \in post[p].files : staged[f].bound = Nobody
  /\ staged' = BindTo(p, post[p].files)
  /\ Rouses(FALSE)
  /\ UNCHANGED <<seqNo, post, index, room, updates, rows, built, after, shown, caughtUp, blind, seenBy, unlisted, deaths>>

\* The memory of the process is gone; a wait is closed with its connection.
Forgotten ==
  /\ deaths < MaxDeaths /\ deaths' = deaths + 1
  /\ updates' = [p \in Posts |-> NoRow] /\ rows' = [p \in Posts |-> NoRow]
  /\ built' = FALSE /\ watch' = "none" /\ blind' = FALSE

\* A death inside submit: before the record, before its index line, before the bind.
SubmitCut(a, p, files, at) ==
  /\ Roomy /\ ~Captured(p) /\ Attachable(a, files) /\ Forgotten
  /\ seqNo' = seqNo + 1 /\ room' = TRUE /\ caughtUp' = FALSE
  /\ UNCHANGED staged
  /\ post' = IF at = "record" THEN post ELSE [post EXCEPT ![p] = Record(a, files)]
  /\ index' = IF at = "bind" THEN [index EXCEPT ![p] = seqNo + 1] ELSE index
  /\ unlisted' = IF at = "index" THEN unlisted \cup {p} ELSE unlisted
  /\ UNCHANGED <<after, shown, seenBy>>

Die ==
  /\ Forgotten
  /\ UNCHANGED <<seqNo, post, index, staged, room, after, shown, caughtUp, seenBy, unlisted>>

StateCursor(p, ordinal) == Max2(updates[p].seq, ordinal)

\* Any later write of the record, published with the ordinal it was given.
Change(p) ==
  /\ Roomy /\ Captured(p)
  /\ seqNo' = seqNo + 1
  /\ post' = [post EXCEPT ![p].state = seqNo + 1]
  /\ updates' = [updates EXCEPT ![p].cursor = StateCursor(p, seqNo + 1)]
  /\ caughtUp' = FALSE
  /\ Rouses(TRUE)
  /\ UNCHANGED <<index, staged, room, rows, built, after, shown, blind, seenBy, unlisted, deaths>>

(* ---- pages ------------------------------------------------------------ *)

Put(row, new) == [seq |-> IF new.seq # 0 THEN new.seq ELSE row.seq, cursor |-> Max2(row.cursor, new.cursor)]

\* The rows a page is cut from: the index's at first, then what was published,
\* and once for a conversation the state ordinals its records hold.
FromIndex(p) == IF built THEN rows[p] ELSE [seq |-> index[p], cursor |-> index[p]]
Projected(p) ==
  LET row == Put(FromIndex(p), updates[p])
  IN  IF built \/ row.cursor = 0 THEN row
      ELSE [row EXCEPT !.cursor = Max2(@, post[p].state)]

News == {p \in Posts : Projected(p).cursor > after}
Page == {p \in News : Cardinality({q \in News : Projected(q).cursor < Projected(p).cursor}) < Limit}
LastOf(page) == IF page = {} THEN after
                ELSE CHOOSE c \in 1..MaxSeq : /\ \E p \in page : Projected(p).cursor = c
                                              /\ \A p \in page : Projected(p).cursor <= c

Read ==
  /\ rows' = [p \in Posts |-> Projected(p)] /\ built' = TRUE
  /\ shown' = [p \in Posts |-> IF p \in Page THEN Latest(p) ELSE shown[p]]
  /\ after' = LastOf(Page)
  /\ caughtUp' = (Page = News)

ReadPage ==
  /\ watch = "none" /\ Read
  /\ UNCHANGED <<seqNo, post, index, staged, room, updates, watch, blind, seenBy, unlisted, deaths>>

\* watchBrowserChanges: the watchers, then a read; it waits only if that is empty.
Wait ==
  /\ watch = "none" /\ News = {}
  /\ watch' = "waiting" /\ blind' = ~room
  /\ rows' = [p \in Posts |-> Projected(p)] /\ built' = TRUE
  /\ UNCHANGED <<seqNo, post, index, staged, room, updates, after, shown, caughtUp, seenBy, unlisted, deaths>>

\* An event reads again, and an empty page goes on waiting.
WakeEmpty ==
  /\ watch = "roused" /\ News = {}
  /\ watch' = "waiting"
  /\ UNCHANGED <<seqNo, post, index, staged, room, updates, rows, built, after, shown, caughtUp, blind, seenBy, unlisted, deaths>>

WakeWithNews ==
  /\ watch = "roused" /\ News # {} /\ Read
  /\ watch' = "none" /\ blind' = FALSE
  /\ UNCHANGED <<seqNo, post, index, staged, room, updates, seenBy, unlisted, deaths>>

\* The timer, or the consumer's abort: the first reads whatever there is.
TimesOut ==
  /\ watch # "none" /\ Read
  /\ watch' = "none" /\ blind' = FALSE
  /\ UNCHANGED <<seqNo, post, index, staged, room, updates, seenBy, unlisted, deaths>>
Aborts ==
  /\ watch # "none"
  /\ watch' = "none" /\ blind' = FALSE
  /\ UNCHANGED <<seqNo, post, index, staged, room, updates, rows, built, after, shown, caughtUp, seenBy, unlisted, deaths>>

Next ==
  \/ \E a \in Actors, f \in Files : Stage(a, f) \/ ReadFile(a, f)
  \/ \E a \in Actors, p \in Posts : Resubmit(a, p)
  \/ \E a \in Actors, p \in Posts, files \in SUBSET Files :
       \/ Submit(a, p, files)
       \/ \E at \in {"record", "index", "bind"} : SubmitCut(a, p, files, at)
  \/ \E p \in Posts : Change(p)
  \/ ReadPage \/ Wait \/ WakeEmpty \/ WakeWithNews \/ TimesOut \/ Aborts \/ Die

Spec == Init /\ [][Next]_bridgeVars

(* ---- properties -------------------------------------------------------- *)

\* A reader told there is no more has been shown every message in its latest
\* state, over pages, changes and restarts.  A message whose index line a death
\* cut is the exception: its retry merges and no page lists it until it changes.
NothingSkipped ==
  caughtUp => \A p \in Posts \ unlisted : Captured(p) => shown[p] = Latest(p)

\* A wait with news for it has been roused and need not wait for its timer, but
\* for one opened before the conversation had a directory.
NewsRouses == watch = "waiting" /\ News # {} => blind

\* A file is bound to a captured message that carries it, and nobody but its
\* sender has read it before some message carried it.
FilesFollowTheirMessage ==
  \A f \in Files :
    /\ staged[f].bound # Nobody => f \in post[staged[f].bound].files
    /\ Carrier(f) = {} => seenBy[f] \subseteq {staged[f].by}

\* A reader of the conversation sees all of it, in time, and no file before it.
PagesAreTrue == NothingSkipped /\ NewsRouses /\ FilesFollowTheirMessage
=============================================================================
