---------------------------- MODULE TorrentFeed ----------------------------
(***************************************************************************)
(* TorrentRSS (src/lib/torrentrss.cpp): one download of the torrent feed   *)
(* and its incremental parser.  The refresh that asked for it waits in a   *)
(* local event loop until done() (src/gui/torrentshelper.cpp).             *)
(*                                                                         *)
(* The feed is a sequence of tokens: the title of the channel and, for     *)
(* each item, its title and its description, whose text may be delivered   *)
(* in two parts.  The first part of a description holds "magnet:" and the  *)
(* second the end of the link.  A chunk of the network may end after any   *)
(* token.                                                                  *)
(***************************************************************************)
EXTENDS Integers, Sequences

CONSTANTS
    Items,        \* how many items the feed has
    MaxRedirects  \* bound: redirects on the way to the feed

ASSUME FeedAssumption == Items \in Nat /\ MaxRedirects \in Nat

VARIABLES
    reply,        \* what currentReply is: see Reply
    old,          \* replies that a redirect replaced and that still exist
    redirects,    \* redirects so far
    pos,          \* how many tokens have been given to the parser
    currentTag, titleString, linkString, titles, links,
    done,         \* done() was emitted
    returned,     \* the local event loop of the refresh has returned
    \* History variables: they guide no step.
    cut,          \* items inside which a chunk ended
    early         \* a replaced reply ended the wait

parserVars == <<pos, currentTag, titleString, linkString, titles, links>>
ghostVars == <<cut, early>>
vars == <<reply, old, redirects, parserVars, done, returned, ghostVars>>

(* "pending": its headers have not arrived.  "ok", "bad": they have, with a *)
(* status from 200 to 299 or another one.  "null": error() let go of it.    *)
Reply == {"pending", "ok", "bad", "null"}

Part == {"first", "second"}
PartOf(i, tag, part) == [item |-> i, tag |-> tag, part |-> part]
Text(i, tag) == {PartOf(i, tag, part) : part \in Part}
Starts(i, tag) == [type |-> "start", name |-> tag, item |-> i]
Says(i, tag, part) == [type |-> "text", item |-> i, text |-> PartOf(i, tag, part)]
Ends(i, tag) == [type |-> "end", name |-> tag, item |-> i]

\* The title of the channel is an element of no item.
Channel == << Starts(0, "title"), Says(0, "title", "first"),
              Says(0, "title", "second"), Ends(0, "title") >>
Item(i) ==
    << Starts(i, "item"),
       Starts(i, "title"), Says(i, "title", "first"),
       Says(i, "title", "second"), Ends(i, "title"),
       Starts(i, "description"), Says(i, "description", "first"),
       Says(i, "description", "second"), Ends(i, "description"),
       Ends(i, "item") >>

Size == 10   \* tokens of an item
Document ==
    [p \in 1..4 + Size * Items |->
        IF p <= 4 THEN Channel[p]
                  ELSE Item((p - 5) \div Size + 1)[((p - 5) % Size) + 1]]

Init ==
    /\ reply = "pending"
    /\ old = 0
    /\ redirects = 0
    /\ pos = 0
    /\ currentTag = ""
    /\ titleString = {} /\ linkString = {}
    /\ titles = <<>> /\ links = <<>>
    /\ done = FALSE /\ returned = FALSE
    /\ cut = {} /\ early = FALSE

-----------------------------------------------------------------------------
(* The parser: what one token does to its state.                            *)
StartElement(s, t) ==
    [s EXCEPT !.metItem = @ \/ t.name = "item", !.tag = t.name]

\* Slip: the strings are kept for the next item.
EndElementKeeps(s, t) ==
    IF t.name = "item"
    THEN [s EXCEPT !.titles = Append(@, s.title), !.links = Append(@, s.link),
                   !.metItem = FALSE, !.tag = ""]
    ELSE [s EXCEPT !.tag = ""]

EndElement(s, t) ==
    IF t.name = "item"
    THEN [s EXCEPT !.titles = Append(@, s.title), !.links = Append(@, s.link),
                   !.title = {}, !.link = {}, !.metItem = FALSE, !.tag = ""]
    ELSE [s EXCEPT !.tag = ""]

Characters(s, t) ==
    CASE s.metItem /\ s.tag = "title"       -> [s EXCEPT !.title = @ \cup {t.text}]
      [] s.metItem /\ s.tag = "description" -> [s EXCEPT !.link = @ \cup {t.text}]
      [] OTHER                              -> s

Token(s, t) ==
    CASE t.type = "start" -> StartElement(s, t)
      [] t.type = "end"   -> EndElement(s, t)
      [] t.type = "text"  -> Characters(s, t)

(* parseXml reads what has arrived.  metItem is a local variable: whether   *)
(* an item is being read is not known any more in the next chunk.           *)
parseXml(tokens) ==
    LET read[n \in 0..Len(tokens)] ==
            IF n = 0
            THEN [metItem |-> FALSE, tag |-> currentTag, title |-> titleString,
                  link |-> linkString, titles |-> titles, links |-> links]
            ELSE Token(read[n - 1], tokens[n])
    IN  read[Len(tokens)]

-----------------------------------------------------------------------------
(* metaDataChanged(): a redirect is followed by a new request; the reply it *)
(* replaces is disconnected and deleted later.                              *)
Redirect ==
    /\ reply = "pending"
    /\ redirects < MaxRedirects
    /\ reply' = "pending"
    /\ old' = old + 1
    /\ redirects' = redirects + 1
    /\ UNCHANGED <<parserVars, done, returned, ghostVars>>

HeadersArrive(status) ==
    /\ reply = "pending"
    /\ reply' = status
    /\ UNCHANGED <<old, redirects, parserVars, done, returned, ghostVars>>

(* readyRead() of a reply with a good status: n tokens have arrived.        *)
ReadyRead(n) ==
    LET s == parseXml(SubSeq(Document, pos + 1, pos + n))
        last == Document[pos + n]
    IN
    /\ reply = "ok"
    /\ pos' = pos + n
    /\ currentTag' = s.tag
    /\ titleString' = s.title
    /\ linkString' = s.link
    /\ titles' = s.titles
    /\ links' = s.links
    /\ cut' = IF last.item = 0 \/ (last.type = "end" /\ last.name = "item")
              THEN cut ELSE cut \cup {last.item}
    /\ UNCHANGED <<reply, old, redirects, done, returned, early>>

(* error(): the reply is let go of.  The manager reports its end all the    *)
(* same.                                                                    *)
Error ==
    /\ reply \in {"pending", "ok"}
    /\ reply' = "null"
    /\ UNCHANGED <<old, redirects, parserVars, done, returned, ghostVars>>

\* Slip: a download that failed is not reported.
FinishedWell ==
    /\ reply = "ok" /\ pos = Len(Document)
    /\ done' = TRUE
    /\ UNCHANGED <<reply, old, redirects, parserVars, returned, ghostVars>>

\* Slip: the reply may end before all of it was read.
FinishedSoon ==
    /\ reply \in {"ok", "bad", "null"}
    /\ done' = TRUE
    /\ UNCHANGED <<reply, old, redirects, parserVars, returned, ghostVars>>

(* finished(): the manager reports the end of the current reply.            *)
Finished ==
    /\ reply \in {"bad", "null"} \/ (reply = "ok" /\ pos = Len(Document))
    /\ ~done
    /\ done' = TRUE
    /\ UNCHANGED <<reply, old, redirects, parserVars, returned, ghostVars>>

(* The manager reports the end of any of its replies: one that a redirect   *)
(* replaced may end before the event loop gets to deleting it.              *)
OldFinished ==
    /\ old > 0
    /\ old' = old - 1
    /\ done' = TRUE
    /\ early' = TRUE
    /\ UNCHANGED <<reply, redirects, parserVars, returned, cut>>

OldDeleted ==
    /\ old > 0
    /\ old' = old - 1
    /\ UNCHANGED <<reply, redirects, parserVars, done, returned, ghostVars>>

(* The event loop returns; events that were already posted may come first.  *)
LoopReturns ==
    /\ done
    /\ returned' = TRUE
    /\ UNCHANGED <<reply, old, redirects, parserVars, done, ghostVars>>

Network ==
    \/ Redirect
    \/ \E status \in {"ok", "bad"} : HeadersArrive(status)
    \/ \E n \in 1..Len(Document) - pos : ReadyRead(n)
    \/ Error
    \/ Finished

Next ==
    /\ ~returned
    /\ Network \/ OldFinished \/ OldDeleted \/ LoopReturns

Spec == Init /\ [][Next]_vars

(* Every reply makes progress until it ends, with an error if need be, and  *)
(* the event loop of the caller returns once it was told to.                *)
FairSpec == Spec /\ WF_vars(~returned /\ Network) /\ WF_vars(~returned /\ LoopReturns)

-----------------------------------------------------------------------------
(* Properties.                                                              *)

(* The list has, in the order of the feed, the title and the link of each   *)
(* item and of no other element; parts of them are missing only in items    *)
(* inside which a chunk ended.                                              *)
ItemsAreTheFeeds ==
    \A i \in 1..Len(titles) :
        /\ titles[i] \subseteq Text(i, "title")
        /\ links[i] \subseteq Text(i, "description")
        /\ i \notin cut => /\ titles[i] = Text(i, "title")
                           /\ links[i] = Text(i, "description")

(* The refresh goes on with a part of the feed only if the request failed   *)
(* or a redirect's first reply ended the wait.                              *)
ReturnsWithTheFeed ==
    returned /\ ~early /\ reply = "ok" => Len(titles) = Items /\ Len(links) = Items

(* The refresh does not wait for ever, whatever happens to the request.     *)
FeedWaitEnds == <>returned

=============================================================================
