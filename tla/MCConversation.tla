--------------------------- MODULE MCConversation ---------------------------
(* What a conversation is made of, in seven parts side by side: what the    *)
(* agent was taught in it, the browser's page of it, the chat of a linked   *)
(* device, the mail of a thread, the files prepared for it, the threads the *)
(* loop keeps for its units, and the typing signal.  One of them moves in a *)
(* behaviour and the others stand as they begin.                            *)
EXTENDS Teachings

CONSTANTS Actors, Posts, Uploads, Limit, MaxSeq, MaxDeaths
VARIABLES seqNo, post, index, staged, room, updates, rows, built, after, page, caughtUp, watch,
          blind, seenBy, unlisted, deaths
Bridge == INSTANCE Bridge WITH Files <- Uploads, shown <- page
bridgeVars == <<seqNo, post, index, staged, room, updates, rows, built, after, page, caughtUp,
                watch, blind, seenBy, unlisted, deaths>>

(* The device: a picture with one or two edits of it and a member of an     *)
(* album; a picture and a word of the operator's; or a reply in two parts,  *)
(* alone or beside a picture, a word, or a message of the operator's that   *)
(* says what the reply says.                                                *)
MCParts == <<<<"one", "two">>, <<"one again", "two again">>>>
MCCases == {<<{"picture", "album", "edit", "again"}, "none", 1>>, <<{"picture", "album", "edit"}, "none", 2>>,
            <<{"picture", "word"}, "none", 2>>, <<{"picture"}, "pending", 1>>,
            <<{"word"}, "pending", 1>>, <<{"yes"}, "pending", 1>>, <<{}, "pending", 2>>}
CONSTANTS Pictures, Album, Edits, Original, Words, Alike, Parts, Cases, Retained, LastSecond
VARIABLES link, removed, latch, linked, outside, arrived, ordinal, fetching, buffer, fresh, cursor,
          records, answer, attempt, part, ids, gone, strays, came, spare, cuts
Device == INSTANCE Device WITH Members <- Album, asked <- linked, second <- arrived,
                               reply <- answer
deviceVars == <<link, removed, latch, linked, outside, arrived, ordinal, fetching, buffer, fresh,
                cursor, records, answer, attempt, part, ids, gone, strays, came, spare, cuts>>

(* The mailbox: a thread with two corrections of its first mail and one     *)
(* mail the reader cannot read, which the thread's headers still place.     *)
MCMails == {"first", "better", "best", "broken"}
MCConvOf == [m \in MCMails |-> "thread"]
MCCorrects == [m \in MCMails |-> IF m \in {"better", "best"} THEN "first" ELSE "none"]
CONSTANTS Mails, ConvOf, Corrects, Unreadable, PageSize, Flagged, MaxFailures
VARIABLES Api, box, validity, flagged, readBy, at, status, live, todo, unread, items, waiting, due,
          revision, mails, mailCursor, watermark, spoiled, overtaken, twins, failures
Mailbox == INSTANCE Mailbox WITH Page <- PageSize, MaxMishaps <- MaxFailures, seen <- flagged,
                                 attempt <- status, pending <- waiting, owed <- due,
                                 plan <- revision, records <- mails, cursor <- mailCursor,
                                 mishaps <- failures
mailVars == <<Api, box, validity, flagged, readBy, at, status, live, todo, unread, items, waiting,
              due, revision, mails, mailCursor, watermark, spoiled, overtaken, twins, failures>>

(* The files: of two messages of one conversation, the first with an edit,  *)
(* and of one of another conversation.                                      *)
MCItems == {"a0", "a1", "b0", "c0"}
MCMessageOf == [a0 |-> "a", a1 |-> "a", b0 |-> "b", c0 |-> "c"]
MCConversationOf == [a0 |-> 1, a1 |-> 1, b0 |-> 1, c0 |-> 2]
CONSTANTS Items, MessageOf, ConversationOf, Tracked, MaxEnds
VARIABLES up, stopping, stopped, item, release, replies, sent, preparing, preparers, ready, jobs,
          prepared, turn, handlers, stray
Program == INSTANCE Program WITH ends <- stopped
programVars == <<up, stopping, stopped, item, release, replies, sent, preparing, preparers, ready,
                 jobs, prepared, turn, handlers, stray>>

MCRequired == <<"s", "t">>
CONSTANTS Units, Required, MaxThreads, MaxTurns, MaxChanges, MaxKills
VARIABLES connected, wire, rollouts, opened, fileOf, cached, stale, holdFor, step, unit, pages,
          resumes, settled, missed, turns, changes, ends
Threads == INSTANCE Threads WITH kills <- ends
threadVars == <<connected, wire, rollouts, opened, fileOf, cached, stale, holdFor, step, unit,
                pages, resumes, settled, missed, turns, changes, ends>>

CONSTANT MaxSignals
VARIABLES started, ended, inFlight, calls, signals, shown, refused
Typing == INSTANCE Typing WITH MaxCalls <- MaxSignals, made <- signals
typingVars == <<started, ended, inFlight, calls, signals, shown, refused>>

VARIABLE which

AllInit ==
    /\ which \in {"teachings", "bridge", "device", "mail", "files", "threads", "typing"}
    /\ Init /\ Bridge!Init /\ Device!Init /\ Mailbox!Init /\ Program!Init /\ Threads!Init
    /\ Typing!Init
    /\ which = "device" \/ <<outside, answer, spare>> = CHOOSE c \in Cases : TRUE
    /\ which = "mail" \/ Api

AllNext ==
    /\ UNCHANGED which
    /\ \/ which = "teachings" /\ Next
          /\ UNCHANGED <<bridgeVars, deviceVars, mailVars, programVars, threadVars, typingVars>>
       \/ which = "bridge" /\ Bridge!Next
          /\ UNCHANGED <<vars, deviceVars, mailVars, programVars, threadVars, typingVars>>
       \/ which = "device" /\ Device!Next
          /\ UNCHANGED <<vars, bridgeVars, mailVars, programVars, threadVars, typingVars>>
       \/ which = "mail" /\ Mailbox!Next
          /\ UNCHANGED <<vars, bridgeVars, deviceVars, programVars, threadVars, typingVars>>
       \/ which = "files" /\ Program!Next
          /\ UNCHANGED <<vars, bridgeVars, deviceVars, mailVars, threadVars, typingVars>>
       \/ which = "threads" /\ Threads!Next
          /\ UNCHANGED <<vars, bridgeVars, deviceVars, mailVars, programVars, typingVars>>
       \/ which = "typing" /\ Typing!Next
          /\ UNCHANGED <<vars, bridgeVars, deviceVars, mailVars, programVars, threadVars>>

AllSpec == AllInit /\ [][AllNext]_<<vars, bridgeVars, deviceVars, mailVars, programVars, threadVars, typingVars, which>>

\* The properties of the parts, of the behaviours in which the part moves.
PagesAreTrue == which = "bridge" => Bridge!PagesAreTrue
ChatIsKept == which = "device" => Device!ChatIsKept
WindowSurvives == which = "device" => Device!WindowSurvives
MailIsKept == which = "mail" => Mailbox!MailIsKept
NothingIsLeft == which = "files" => Program!NothingIsLeft
LoopKnowsItsHarness == which = "threads" => Threads!LoopKnowsItsHarness
EndsPaused == which = "typing" => Typing!EndsPaused
=============================================================================
