----------------------------- MODULE MCProviders ----------------------------
(* What is asked of the providers of messages, in three parts side by side: *)
(* the long poll of two updates to its end, the downloads of a batch, and a *)
(* mailbox.  One of them moves in a behaviour and the others stand as they  *)
(* begin.                                                                   *)
EXTENDS MCIntake

(* Downloads: a body longer than the provider said, one of unknown size     *)
(* that is over the limit, one that is known to be over it, and one more.   *)
MCUnsaid == 99
MCSaid == <<1, 1, MCUnsaid, 3>>
MCReal == <<2, 1, 3, 3>>
CONSTANTS Members, Said, Real, Unsaid, Limit, DOWNLOAD_CHAINS, SPECULATIVE_MEMBERS, SPECULATIVE_CHAINS
VARIABLES window, remembered, past, spec, abandoned, cache, chains, inflight, ended, free, queue,
          given, troubled
Downloads == INSTANCE Downloads WITH seen <- remembered, gone <- past
downloadVars == <<window, remembered, past, spec, abandoned, cache, chains, inflight, ended, free,
                  queue, given, troubled>>

(* The mailbox: a thread with a correction of its first mail and one mail   *)
(* the reader cannot read, which the thread's headers still place.          *)
MCMails == {"first", "better", "broken"}
MCConvOf == [m \in MCMails |-> "thread"]
MCCorrects == [m \in MCMails |-> IF m = "better" THEN "first" ELSE "none"]
CONSTANTS Mails, ConvOf, Corrects, Unreadable, NoMail, Page, Flagged, MaxMishaps
VARIABLES Api, box, validity, flagged, readBy, at, attempt, live, todo, unread, items, waiting, due,
          revision, mails, mailCursor, watermark, spoiled, overtaken, twins, mishaps
Mailbox == INSTANCE Mailbox WITH None <- NoMail, seen <- flagged, pending <- waiting, owed <- due,
                                 plan <- revision, records <- mails, cursor <- mailCursor
mailVars == <<Api, box, validity, flagged, readBy, at, attempt, live, todo, unread, items, waiting,
              due, revision, mails, mailCursor, watermark, spoiled, overtaken, twins, mishaps>>

VARIABLE part

AllInit ==
    /\ part \in {"poll", "downloads", "mailbox"}
    /\ Init /\ Downloads!Init /\ Mailbox!Init
    /\ part = "poll" \/ feed = CHOOSE f \in Feeds : TRUE
    /\ part = "mailbox" \/ Api

AllNext ==
    /\ UNCHANGED part
    /\ \/ part = "poll" /\ Next /\ UNCHANGED <<downloadVars, mailVars>>
       \/ part = "downloads" /\ Downloads!Next /\ UNCHANGED <<vars, mailVars>>
       \/ part = "mailbox" /\ Mailbox!Next /\ UNCHANGED <<vars, downloadVars>>

Polling == part = "poll"
AllFair ==
    /\ SF_vars(Polling /\ Ask) /\ SF_vars(Polling /\ (Answers \/ CallFails))
    /\ SF_vars(Polling /\ Retry) /\ SF_vars(Polling /\ HandOver)
    /\ WF_vars(Polling /\ Capture) /\ WF_vars(Polling /\ HearFault) /\ WF_vars(Polling /\ Start)
    /\ SF_vars(Polling /\ Answers) /\ SF_vars(Polling /\ ShowsMore)
    /\ WF_downloadVars(part = "downloads" /\ Downloads!Returns)
    /\ WF_downloadVars(part = "downloads" /\ Downloads!HandOver)
    /\ WF_mailVars(part = "mailbox" /\ Mailbox!Poll)
    /\ WF_mailVars(part = "mailbox" /\ Mailbox!Capture)

AllSpec == AllInit /\ [][AllNext]_<<vars, downloadVars, mailVars, part>> /\ AllFair

\* The properties of the parts, of the behaviours in which the part moves.
DownloadsAreBounded == Downloads!DownloadsAreBounded
EachArrives ==
    /\ ArrivedIsPassed /\ Downloads!BatchIsHanded
    /\ part = "mailbox" => Mailbox!EachIsRecorded
=============================================================================
