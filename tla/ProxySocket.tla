----------------------------- MODULE ProxySocket -----------------------------
(***************************************************************************)
(* The proxy protocol: "a web-socket like connection over HTTP requests".   *)
(* ProxySocket (browser/js/global.js) is the page's end; it opens a session *)
(* and then polls, and every request carries what the page has to send and  *)
(* is answered with what wsd has to send.  ProxyProtocolHandler             *)
(* (wsd/ProxyProtocol.cpp) is the other end.                                *)
(*                                                                          *)
(* HTTP requests overtake each other, and so do their answers; any of them  *)
(* may be lost or never be answered.  The poll interval is kept as a level: *)
(* how often it has been throttled since it was minPollMs.  The content of  *)
(* a message is its number; the framing is the sequence of messages.        *)
(***************************************************************************)
EXTENDS Integers, Sequences, SequencesExt, FiniteSets

CONSTANTS
    MaxInflight,   \* requests in flight before sending pauses (4 in the code)
    MaxLevel,      \* how often the poll interval is throttled to reach maxPollMs
    MaxUp,         \* bound: messages of the page
    MaxDown,       \* bound: messages of wsd
    MaxFaults      \* bound: lost requests, refused and ended sessions

ASSUME ProxyAssumption ==
    /\ {MaxLevel, MaxUp, MaxDown, MaxFaults} \subseteq Nat
    /\ MaxInflight \in Nat \ {0}

VARIABLES
    s,       \* the ProxySocket
    open,    \* its "open" request: none, delayed, sent, granted or refused
    writes,  \* its "write" requests, by slot
    closing, \* whether its "close" request is on its way
    srv,     \* the session at wsd with its ProxyProtocolHandler
    page,    \* the page that uses the socket: what it sent and got
    faults

vars == <<s, open, writes, closing, srv, page, faults>>

Slots == 1..MaxInflight
Free == [st |-> "free", up |-> <<>>, down |-> <<>>]
Outstanding == {i \in Slots : writes[i].st # "free"}

-----------------------------------------------------------------------------
(* ProxySocket *)

BugThrottleRounds(l) == l

BugThrottleUncapped(l) == l + 1

\* curPollMs grows by throttleFactor up to maxPollMs.
Throttle(l) == IF l < MaxLevel THEN l + 1 ELSE l

\* _signalErrorClose(): the counters start again although requests may be in flight; wsd is
\* not told.
SignalErrorClose(x) ==
    [x EXCEPT !.ready = 3, !.session = FALSE, !.inflight = 0, !.opens = 0, !.failed = TRUE]

\* send(): the poll is hastened unless too much is in flight.
SendMsg(x, m) ==
    LET hasten == (x.level > 0 \/ x.queue = <<>>) /\ x.inflight <= MaxInflight - 1
    IN  [x EXCEPT !.queue = Append(@, m), !.level = IF hasten THEN 0 ELSE @]

\* The page sends when the socket is open (Socket.sendMessage()).
Send ==
    /\ ~page.detached /\ s.ready = 1 /\ page.sent < MaxUp
    /\ s' = SendMsg(s, page.sent + 1)
    /\ page' = [page EXCEPT !.sent = @ + 1]
    /\ UNCHANGED <<open, writes, closing, srv, faults>>

\* The timer of getSessionId() fires: "avoid attempting to re-connect too quickly".
DelaySession ==
    /\ open = "delayed"
    /\ open' = "sent" /\ s' = [s EXCEPT !.opens = @ + 1]
    /\ UNCHANGED <<writes, closing, srv, page, faults>>

\* The answer to "open" (load, then loadend in getSessionId()). onopen() is still the page's
\* own handler if the page has closed the socket meanwhile.
OpenLoad ==
    /\ open \in {"granted", "refused"}
    /\ LET opened == [s EXCEPT !.session = TRUE, !.ready = 1]
           sends == open = "granted" /\ ~page.detached /\ page.sent < MaxUp
           x == IF open = "refused" THEN SignalErrorClose(s)
                ELSE IF sends THEN SendMsg(opened, page.sent + 1) ELSE opened
       IN  /\ s' = [x EXCEPT !.opens = @ - 1]
           /\ page' = [page EXCEPT !.sent = IF sends THEN @ + 1 ELSE @,
                                   !.revived = @ \/ (open = "granted" /\ s.ready = 3)]
    /\ open' = "none"
    /\ UNCHANGED <<writes, closing, srv, faults>>

\* The poll timer: doSend() sends a request with what is queued, when not too many are in
\* flight. The timer is set as long as the socket is open.
BugPollKeepsQueue(i) ==
    /\ s.ready = 1 /\ s.session /\ s.inflight < MaxInflight
    /\ writes[i].st = "free" /\ \A j \in 1..(i - 1) : writes[j].st # "free"
    /\ writes' = [writes EXCEPT ![i] = [Free EXCEPT !.st = "sent", !.up = s.queue]]
    /\ s' = [s EXCEPT !.inflight = @ + 1]
    /\ page' = [page EXCEPT !.crowded = @ \/ Outstanding # {}]
    /\ UNCHANGED <<open, closing, srv, faults>>

Poll(i) ==
    /\ s.ready = 1 /\ s.session /\ s.inflight < MaxInflight
    /\ writes[i].st = "free" /\ \A j \in 1..(i - 1) : writes[j].st # "free"
    /\ writes' = [writes EXCEPT ![i] = [Free EXCEPT !.st = "sent", !.up = s.queue]]
    /\ s' = [s EXCEPT !.queue = <<>>, !.inflight = @ + 1]
    /\ page' = [page EXCEPT !.crowded = @ \/ Outstanding # {}]
    /\ UNCHANGED <<open, closing, srv, faults>>

\* doSend() with too many in flight: throttle, and once the interval is maxPollMs and nothing
\* came for 30 seconds give up.
BugBackedUpDropsQueue ==
    /\ s.ready = 1 /\ s.session /\ s.inflight >= MaxInflight
    /\ s' = IF s.level < MaxLevel THEN [s EXCEPT !.level = Throttle(@), !.queue = <<>>]
            ELSE SignalErrorClose(s)
    /\ UNCHANGED <<open, writes, closing, srv, page, faults>>

BackedUp ==
    /\ s.ready = 1 /\ s.session /\ s.inflight >= MaxInflight
    /\ s' = IF s.level < MaxLevel THEN [s EXCEPT !.level = Throttle(@)] ELSE SignalErrorClose(s)
    /\ UNCHANGED <<open, writes, closing, srv, page, faults>>

\* loadend of a "write" request, whether or not it was answered.
LoadEnd(x) == [x EXCEPT !.inflight = @ - 1]

\* The answer to a "write" request: load and parseIncomingArray(), then loadend. Nothing asks
\* whether the socket is still open; only a page that closed it is not told.
WriteLoad(i) ==
    /\ writes[i].st \in {"answered", "refused"}
    /\ LET data == writes[i].down # <<>>
       IN  \E idle \in BOOLEAN :
             /\ s' = LoadEnd(IF writes[i].st = "refused" THEN SignalErrorClose(s)
                             ELSE IF data THEN [s EXCEPT !.level = 0]
                             ELSE IF idle THEN [s EXCEPT !.level = Throttle(@)] ELSE s)
             /\ idle => ~data /\ writes[i].st = "answered"
    /\ page' = IF page.detached THEN page ELSE [page EXCEPT !.got = @ \o writes[i].down]
    /\ writes' = [writes EXCEPT ![i] = Free]
    /\ UNCHANGED <<open, closing, srv, faults>>

BugXhrErrorKeepsCount(i) ==
    /\ faults < MaxFaults /\ faults' = faults + 1
    /\ writes[i].st \in {"sent", "answered", "refused"}
    /\ writes' = [writes EXCEPT ![i] = Free]
    /\ page' = [page EXCEPT !.lost = TRUE]
    /\ UNCHANGED <<s, open, closing, srv>>

\* A "write" request fails, on its way or on the way back: there is only a loadend, and what
\* it carried is gone.
XhrError(i) ==
    /\ faults < MaxFaults /\ faults' = faults + 1
    /\ writes[i].st \in {"sent", "answered", "refused"}
    /\ writes' = [writes EXCEPT ![i] = Free]
    /\ s' = LoadEnd(s)
    /\ page' = [page EXCEPT !.lost = TRUE]
    /\ UNCHANGED <<open, closing, srv>>

\* So does the "open" request: the socket goes on connecting, and nobody asks again.
OpenError ==
    /\ faults < MaxFaults /\ faults' = faults + 1
    /\ open \in {"sent", "granted", "refused"}
    /\ open' = "none" /\ s' = [s EXCEPT !.opens = @ - 1]
    /\ page' = [page EXCEPT !.lost = TRUE]
    /\ UNCHANGED <<writes, closing, srv>>

BugCloseTellsNobody ==
    /\ ~page.detached
    /\ page' = [page EXCEPT !.detached = TRUE]
    /\ s' = [s EXCEPT !.ready = 3, !.session = FALSE]
    /\ closing' = (s'.ready = 1)
    /\ open' = IF open = "delayed" THEN "none" ELSE open
    /\ UNCHANGED <<writes, srv, faults>>

\* Socket.close() takes the handlers away and calls close(): wsd is told only if the socket
\* was open.
Close ==
    /\ ~page.detached
    /\ page' = [page EXCEPT !.detached = TRUE]
    /\ s' = [s EXCEPT !.ready = 3, !.session = FALSE]
    /\ closing' = (s.ready = 1)
    /\ open' = IF open = "delayed" THEN "none" ELSE open
    /\ UNCHANGED <<writes, srv, faults>>

\* The "close" request is lost.
CloseError ==
    /\ faults < MaxFaults /\ faults' = faults + 1
    /\ closing /\ closing' = FALSE
    /\ page' = [page EXCEPT !.lost = TRUE]
    /\ UNCHANGED <<s, open, writes, srv>>

-----------------------------------------------------------------------------
(* DocumentBroker::handleProxyRequest() and ProxyProtocolHandler *)

\* The session is among the sessions of the DocumentBroker, though it may be about to leave.
Serving == srv.st \in {"open", "leaving"}

\* "open": a session, unless the request is refused.
HandleOpen ==
    /\ open = "sent"
    /\ \/ open' = "granted" /\ srv' = [srv EXCEPT !.st = "open"] /\ UNCHANGED faults
       \/ /\ faults < MaxFaults /\ faults' = faults + 1
          /\ open' = "refused" /\ UNCHANGED srv
    /\ UNCHANGED <<s, writes, closing, page>>

BugHandleWriteKeepsQueue(i) ==
    /\ writes[i].st = "sent" /\ Serving
    /\ srv' = [srv EXCEPT !.got = @ \o writes[i].up]
    /\ writes' = [writes EXCEPT ![i].st = "answered", ![i].down = srv.queue]
    /\ UNCHANGED <<s, open, closing, page, faults>>

\* "write": parseEmitIncoming(), then flushQueueTo() the same socket.
HandleWrite(i) ==
    /\ writes[i].st = "sent" /\ Serving
    /\ srv' = [srv EXCEPT !.got = @ \o writes[i].up, !.queue = <<>>]
    /\ writes' = [writes EXCEPT ![i].st = "answered", ![i].down = srv.queue]
    /\ UNCHANGED <<s, open, closing, page, faults>>

\* A request of a session that is not there any more: "invalid session id".
RefuseWrite(i) ==
    /\ writes[i].st = "sent" /\ ~Serving
    /\ writes' = [writes EXCEPT ![i].st = "refused"]
    /\ UNCHANGED <<s, open, closing, srv, page, faults>>

\* "close": notifyDisconnected() ends the session, which stays until the document is stored
\* and the Kit has said farewell.
HandleClose ==
    /\ closing /\ closing' = FALSE
    /\ srv' = IF Serving THEN [srv EXCEPT !.st = "leaving"] ELSE srv
    /\ UNCHANGED <<s, open, writes, page, faults>>

\* sendMessage(): nobody waits, so it is queued until the next request.
SendMessage ==
    /\ Serving /\ srv.sent < MaxDown
    /\ srv' = [srv EXCEPT !.queue = Append(@, srv.sent + 1), !.sent = @ + 1]
    /\ UNCHANGED <<s, open, writes, closing, page, faults>>

\* wsd ends the session; shutdown() sends nothing.
EndSession ==
    /\ faults < MaxFaults /\ faults' = faults + 1
    /\ srv.st = "open"
    /\ srv' = [srv EXCEPT !.st = "leaving"]
    /\ UNCHANGED <<s, open, writes, closing, page>>

\* finalRemoveSession(): what is queued is lost.
FinalRemoveSession ==
    /\ srv.st = "leaving"
    /\ srv' = [srv EXCEPT !.st = "gone", !.queue = <<>>]
    /\ UNCHANGED <<s, open, writes, closing, page, faults>>

-----------------------------------------------------------------------------
\* A socket is created: getSessionId() at once, or 250 ms after the last one.
Init ==
    /\ open \in {"delayed", "sent"}
    /\ s = [ready |-> 0, session |-> FALSE, inflight |-> 0,
            opens |-> IF open = "sent" THEN 1 ELSE 0, level |-> 0, queue |-> <<>>, failed |-> FALSE]
    /\ writes = [i \in Slots |-> Free]
    /\ closing = FALSE
    /\ srv = [st |-> "none", got |-> <<>>, queue |-> <<>>, sent |-> 0]
    /\ page = [detached |-> FALSE, sent |-> 0, got |-> <<>>, crowded |-> FALSE, lost |-> FALSE,
               revived |-> FALSE]
    /\ faults = 0

Next ==
    \/ Send \/ DelaySession \/ OpenLoad \/ BackedUp \/ Close
    \/ \E i \in Slots : Poll(i) \/ WriteLoad(i) \/ HandleWrite(i) \/ RefuseWrite(i) \/ XhrError(i)
    \/ HandleOpen \/ HandleClose \/ SendMessage \/ EndSession \/ FinalRemoveSession
    \/ OpenError \/ CloseError

Spec == Init /\ [][Next]_vars

\* The poll timer fires as long as it is set. Nothing is assumed of wsd or of the network: a
\* request need never be answered.
FairSpec == Spec /\ WF_vars(BackedUp) /\ \A i \in Slots : WF_vars(Poll(i))

-----------------------------------------------------------------------------
(* Properties *)

\* Every variable holds what its type allows.
TypeOK ==
    /\ s \in [ready : {0, 1, 3}, session : BOOLEAN, inflight : -MaxInflight..MaxInflight,
               opens : -1..1, level : 0..MaxLevel, queue : Seq(1..MaxUp), failed : BOOLEAN]
    /\ open \in {"none", "delayed", "sent", "granted", "refused"}
    /\ writes \in [Slots -> [st : {"free", "sent", "answered", "refused"}, up : Seq(1..MaxUp),
                             down : Seq(1..MaxDown)]]
    /\ closing \in BOOLEAN
    /\ srv \in [st : {"none", "open", "leaving", "gone"}, got : Seq(1..MaxUp), queue : Seq(1..MaxDown),
                 sent : 0..MaxDown]
    /\ page \in [detached : BOOLEAN, sent : 0..MaxUp, got : Seq(1..MaxDown), crowded : BOOLEAN,
                  lost : BOOLEAN, revived : BOOLEAN]
    /\ faults \in 0..MaxFaults

\* msgInflight is the number of requests in flight as long as the socket is open, so that
\* sending pauses neither too early nor too late (doSend(), its load and loadend handlers).
InflightCounts == s.ready = 1 => s.inflight = Cardinality(Outstanding)

Increasing(q) == \A i, j \in DOMAIN q : i < j => q[i] < q[j]

\* Both ends get the other's messages in order and none twice, as long as there is never more
\* than one request in flight: nobody acts on a "serial mismatch" (parseIncomingArray(),
\* ProxyProtocolHandler::parseEmitIncoming()).
OrderedUnlessCrowded == ~page.crowded => Increasing(srv.got) /\ Increasing(page.got)

\* However many are in flight and whatever is lost, no message is handled twice.
NeverTwice == IsInjective(srv.got) /\ IsInjective(page.got)

Carried(f) == UNION {Range(writes[i][f]) : i \in Slots}

\* As long as no request fails, an open socket loses nothing: what the page sent is queued, in
\* a request or at wsd, and what wsd sent likewise (doSend(), flushQueueTo()).
NothingLost ==
    s.ready = 1 /\ ~page.lost =>
        /\ 1..page.sent = Range(srv.got) \cup Range(s.queue) \cup Carried("up")
        /\ srv.st = "open" /\ ~page.detached =>
              1..srv.sent = Range(page.got) \cup Range(srv.queue) \cup Carried("down")

\* A socket that the page closed leaves no session behind at wsd, where nothing would ever
\* end it, and no poll: unless the socket had failed before, the close request was lost, or
\* the answer to its "open" came after it was closed and revived it (close(), getSessionId()).
ClosedForGood ==
    page.detached /\ ~closing /\ open = "none" /\ Outstanding = {} =>
        s.failed \/ page.lost \/ page.revived \/ (srv.st # "open" /\ s.ready = 3)

\* A wsd that answers nothing is noticed: sending does not pause for ever (doSend()).
SilenceEnds ==
    s.ready = 1 /\ s.inflight = MaxInflight ~> s.ready = 3 \/ s.inflight < MaxInflight
==============================================================================
