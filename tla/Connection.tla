----------------------------- MODULE Connection -----------------------------
(***************************************************************************)
(* The browser's connection to wsd: L.Socket (Socket.js) with its message   *)
(* slurping, IdleHandler and Map.loadDocument().  It decides when to        *)
(* connect again after the server was lost, closed the session or refused   *)
(* it, which messages it sends and which it keeps for later.                *)
(*                                                                          *)
(* c is everything the page keeps, with its current socket; a socket that   *)
(* close() has detached plays no part any more.  wsd and the network are    *)
(* the environment, modelled from what the page expects of them: a message  *)
(* the page sends on an open socket is handled at once, what wsd sends is   *)
(* received in order, and the close event comes after it.                   *)
(***************************************************************************)
EXTENDS Integers, Sequences, SequencesExt, FiniteSets

CONSTANTS
    MaxReconnects, \* how often an unloading document is asked for again (10 in the code)
    MaxFaults,     \* bound: refusals, drops and ended sessions
    MaxSends,      \* bound: commands of the user
    MaxViews,      \* bound: messages for the document layer
    MaxFocus,      \* bound: the tab gains or loses the focus
    Refusals,      \* how wsd may refuse a load: {"unloading", "failed", "limit", "password"}
    Endings,       \* how wsd may end a session: {"idle", "recycling", "reload", "drop"}
    Images,        \* whether dialog pictures are sent that take time to decode
    Blocking       \* whether wsd blocks the UI (during a rename)

ASSUME ConnectionAssumption ==
    /\ {MaxReconnects, MaxFaults, MaxSends, MaxViews, MaxFocus} \subseteq Nat
    /\ Refusals \subseteq {"unloading", "failed", "limit", "password"}
    /\ Endings \subseteq {"idle", "recycling", "reload", "drop"}
    /\ {Images, Blocking} \subseteq BOOLEAN

VARIABLES
    c,       \* the page: Socket, IdleHandler and what they use of Map
    wsd,     \* the session at the other end of the current socket
    used     \* how much of each bound is used

vars == <<c, wsd, used>>

Nobody == [state |-> "none", view |-> TRUE, wire |-> <<>>]

-----------------------------------------------------------------------------
(* Socket, Map and IdleHandler.  p is [c |-> page, wsd |-> session]. *)

\* close(): the handlers go, so nothing more comes from this socket.
Close(p) == [p EXCEPT !.c.sock = "closed", !.c.docLoaded = FALSE, !.wsd = Nobody]

\* Map.loadDocument() and connect().
LoadDocument(p) ==
    [Close(p) EXCEPT !.c.sock = "connecting", !.c.tried = TRUE,
                     !.c.stale = @ \/ p.c.slurp # <<>> \/ p.c.blocked]

\* _doSend() of what wsd acts on.
DoSend(p, m) ==
    CASE m.k = "cmd" -> [p EXCEPT !.c.log = Append(@, m.n)]
      [] m.k = "useractive" -> [p EXCEPT !.wsd.view = TRUE]
      [] m.k = "userinactive" -> [p EXCEPT !.wsd.view = FALSE]
      [] m.k = "load" -> [p EXCEPT !.wsd = [Nobody EXCEPT !.state = "loading"]]
      [] OTHER -> p

IsActivity(m) == m.k \in {"useractive", "userinactive"}

\* sendMessage(): the state of the socket is the one before it reconnects.
SendMessage(p, m) ==
    LET mute == \/ p.c.fatal
                \/ ~p.c.active /\ ~IsActivity(m)
                \/ p.c.blocked
        p1 == IF p.c.sock \in {"closing", "closed"} THEN LoadDocument(p) ELSE p
    IN  IF mute THEN p
        ELSE IF p.c.sock = "open" THEN DoSend(p, m)
        ELSE [p1 EXCEPT !.c.queue = Append(@, m)]

BugActivateUnconnected(p) ==
    LET p1 == SendMessage(p, [k |-> "useractive"])
    IN  IF p.c.recycling \/ p.c.idle \/ p.c.active THEN p
        ELSE [p1 EXCEPT !.c.active = TRUE]

BugActivateUntold(p) ==
    IF p.c.recycling \/ p.c.idle \/ p.c.active THEN p
    ELSE IF p.c.sock = "open" THEN [p EXCEPT !.c.active = TRUE]
    ELSE LoadDocument(p)

\* IdleHandler._activate()
Activate(p) ==
    LET p1 == SendMessage(p, [k |-> "useractive"])
    IN  IF p.c.recycling \/ p.c.idle \/ p.c.active THEN p
        ELSE IF p.c.sock = "open"
        THEN [p1 EXCEPT !.c.active = TRUE, !.c.muted = p.c.blocked \/ p.c.fatal]
        ELSE LoadDocument(p)

\* IdleHandler._deactivate() on a desktop, with or without a dialog open.
Deactivate(p, dialog) ==
    LET p1 == [p EXCEPT !.c.active = FALSE]
    IN  IF p.c.recycling \/ p.c.idle \/ ~p.c.docLoaded \/ (p.c.active /\ ~dialog) THEN p
        ELSE IF p.c.sock = "open"
        THEN [SendMessage(p1, [k |-> "userinactive"]) EXCEPT !.c.muted = p.c.blocked \/ p.c.fatal]
        ELSE p1

BugOpenKeepsQueue(p) ==
    LET p1 == DoSend([p EXCEPT !.c.recycling = FALSE, !.c.idle = FALSE], [k |-> "load"])
    IN  Activate(FoldLeft(DoSend, [p1 EXCEPT !.c.reconnecting = @ \/ p.c.docLayer], p.c.queue))

\* _onSocketOpen(): the load request, what was queued meanwhile, then activation.
OnSocketOpen(p) ==
    LET p1 == DoSend([p EXCEPT !.c.recycling = FALSE, !.c.idle = FALSE], [k |-> "load"])
        p2 == FoldLeft(DoSend, [p1 EXCEPT !.c.reconnecting = @ \/ p.c.docLayer], p.c.queue)
    IN  Activate([p2 EXCEPT !.c.queue = <<>>])

\* _onSocketClose(): with retries under way their timer is relied upon; otherwise one
\* attempt is made from a timer, after what has been slurped.
OnSocketClose(p) ==
    IF p.c.count > 0 THEN p
    ELSE [p EXCEPT !.c.active = FALSE, !.c.docLoaded = FALSE,
                   !.c.error = @ \/ (p.c.active /\ p.c.reconnecting),
                   !.c.hasty = @ \/ (p.c.active /\ p.c.reconnecting /\ ~p.c.tried),
                   !.c.timers = Append(@, "close")]

BugCloseTimerChecksActive(p) ==
    IF p.c.reconnecting \/ ~p.c.active THEN p ELSE Activate([p EXCEPT !.c.reconnecting = TRUE])

CloseTimer(p) ==
    IF p.c.reconnecting THEN p ELSE Activate([p EXCEPT !.c.reconnecting = TRUE])

\* this.timer, set by "close: recycling" or by what makes the page load again.
IntervalTick(p) ==
    IF p.c.interval = "activate" THEN Activate(p)
    ELSE IF p.c.sock = "open" THEN p ELSE LoadDocument(p)

-----------------------------------------------------------------------------
(* Messages from wsd *)

\* docLayer._onMessage() of a message that was delayed, or not.
Handle(p, m) == [p EXCEPT !.c.handled = Append(@, m)]

\* _handleDelayedMessages()
HandleDelayed(p) ==
    IF ~p.c.docLayer THEN [p EXCEPT !.c.delayTimer = TRUE]
    ELSE [FoldLeft(Handle, p, p.c.delayed) EXCEPT !.c.delayed = <<>>, !.c.delayTimer = FALSE]

BugLayerMessageOvertakes(p, m) ==
    IF p.c.docLayer THEN Handle(p, m)
    ELSE IF p.c.delayTimer THEN [p EXCEPT !.c.delayed = Append(@, m)]
    ELSE HandleDelayed([p EXCEPT !.c.delayed = Append(@, m)])

\* The end of _onMessage() for a message the document layer handles. _tryToDelayMessage()
\* delays a few kinds of them, of cursors, cells, windows and states (m.delays), while there is
\* no layer or others are delayed; the rest goes past them to the layer, or nowhere.
OnLayerMessage(p, m) ==
    LET p1 == [p EXCEPT !.c.delayed = Append(@, m)]
        tries == ~p.c.docLayer \/ p.c.delayed # <<>>
    IN  IF tries /\ m.delays THEN IF p.c.delayTimer THEN p1 ELSE HandleDelayed(p1)
        ELSE IF p.c.docLayer THEN Handle(p, m)
        ELSE p

\* _onStatusMsg() and the docloaded handler of Map: the first one makes the layer, the
\* first one of a new connection ends the reconnection.
OnStatusMsg(p) ==
    LET p1 == [p EXCEPT !.c.docLayer = TRUE, !.c.docLoaded = TRUE, !.c.tried = FALSE,
                        !.c.reconnecting = @ /\ ~p.c.docLayer,
                        !.c.leftover = p.c.reconnecting /\ ~p.c.docLayer]
    IN  Activate(SendMessage(p1, [k |-> "info"]))

\* "error: cmd=load kind=docunloading": tried again at growing intervals, then given up.
OnUnloading(p) ==
    LET p1 == [Close(p) EXCEPT !.c.active = FALSE, !.c.count = @ + 1]
    IN  IF p.c.count >= MaxReconnects
        THEN [p1 EXCEPT !.c.interval = "none", !.c.error = TRUE]
        ELSE [p1 EXCEPT !.c.interval = "activate"]

\* "error: cmd=load": the socket is closed first, whatever the reason.
OnLoadError(p, kind) ==
    CASE kind = "unloading" -> OnUnloading(p)
      [] kind = "failed" -> [Close(p) EXCEPT !.c.fatal = TRUE, !.c.error = TRUE]
      [] kind = "password" -> [Close(p) EXCEPT !.c.asking = TRUE]

\* Any other error: fatal before there is a document layer, and shown by it afterwards.
OnOtherError(p) ==
    IF p.c.docLayer THEN [p EXCEPT !.c.error = TRUE]
    ELSE [p EXCEPT !.c.fatal = TRUE, !.c.active = FALSE, !.c.error = TRUE]

\* "close: ..."; "reload" stands for what makes the page load the document again: a conflict,
\* a restored version, a rename.
OnCloseMsg(p, reason) ==
    CASE reason = "idle" -> [p EXCEPT !.c.idle = TRUE, !.c.active = FALSE, !.c.dimmed = TRUE]
      [] reason = "recycling" -> [p EXCEPT !.c.active = FALSE, !.c.recycling = TRUE,
                                           !.c.interval = "load"]
      [] reason = "reload" -> [Close(p) EXCEPT !.c.active = FALSE, !.c.interval = "activate"]

BugReadyKeepsTimer(p) == [p EXCEPT !.c.count = 0]

\* "statusindicator: ready": "We're connected: cancel timer and dialog."
OnReady(p) == [p EXCEPT !.c.count = 0, !.c.interval = "none"]

\* _renameOrSaveAsCallback() after "saveas:": the new document is loaded, with the commands
\* of sendInitUNOCommands() behind the load.
OnSaveAs(p) == SendMessage(LoadDocument(Close(p)), [k |-> "info"])

\* _onMessage()
OnMessage(p, m) ==
    CASE m.k = "ready" -> OnReady(p)
      [] m.k = "status" -> OnStatusMsg(p)
      [] m.k = "view" -> OnLayerMessage(p, m)
      [] m.k \in {"idle", "recycling", "reload"} -> OnCloseMsg(p, m.k)
      [] m.k \in {"unloading", "failed", "password"} -> OnLoadError(p, m.k)
      [] m.k = "limit" -> OnOtherError(p)
      [] m.k = "saveas" -> OnSaveAs(p)
      [] m.k = "block" -> [p EXCEPT !.c.blocked = TRUE]
      [] m.k = "unblock" -> [p EXCEPT !.c.blocked = FALSE]
      [] OTHER -> p

\* _queueSlurpEventEmission()
QueueSlurp(t) == IF Contains(t, "slurp") THEN t ELSE Append(t, "slurp")

\* _slurpMessage()
SlurpMessage(p, m) ==
    [p EXCEPT !.c.timers = IF p.c.slurp = <<>> THEN QueueSlurp(@) ELSE @,
              !.c.slurp = Append(@, m)]

Complete(m) == m.k # "image"

\* One turn of the loop; the message it handles does not wait any more.
EmitOne(p, m) == OnMessage([p EXCEPT !.c.slurp = Tail(@)], m)

\* _emitSlurpedEvents(): everything up to a picture that is not decoded yet.
EmitSlurped(p) ==
    LET q == p.c.slurp
        stops == {i \in DOMAIN q : ~Complete(q[i])}
        upto == IF stops = {} THEN q
                ELSE SubSeq(q, 1, (CHOOSE i \in stops : \A j \in stops : i <= j) - 1)
    IN  FoldLeft(EmitOne, p, upto)

-----------------------------------------------------------------------------
(* Steps of the page *)

Now == [c |-> c, wsd |-> wsd]
Become(p) == c' = p.c /\ wsd' = p.wsd
Spend(what, max) == used[what] < max /\ used' = [used EXCEPT ![what] = @ + 1]

\* The socket opens. The handshake takes longer than a timer of 1 ms.
Open ==
    /\ c.sock = "connecting" /\ c.timers = <<>>
    /\ Become(OnSocketOpen([Now EXCEPT !.c.sock = "open"]))
    /\ UNCHANGED used

\* It cannot be opened.
Fail ==
    /\ c.sock = "connecting" /\ c.timers = <<>>
    /\ Spend("faults", MaxFaults)
    /\ Become(OnSocketClose([Now EXCEPT !.c.sock = "closed"]))

Receive ==
    /\ c.sock = "open" /\ wsd.wire # <<>>
    /\ Become(SlurpMessage([Now EXCEPT !.wsd.wire = Tail(@)], Head(wsd.wire)))
    /\ UNCHANGED used

\* The closing handshake starts, and ends with the close event.
Closing ==
    /\ c.sock = "open" /\ wsd.state = "ended" /\ wsd.wire = <<>>
    /\ c' = [c EXCEPT !.sock = "closing"]
    /\ UNCHANGED <<wsd, used>>

Closed ==
    /\ c.sock = "closing"
    /\ Become(OnSocketClose([Now EXCEPT !.c.sock = "closed", !.wsd = Nobody]))
    /\ UNCHANGED used

\* The timers of 1 ms fire in the order they were set.
Timer ==
    /\ c.timers # <<>>
    /\ LET p == [Now EXCEPT !.c.timers = Tail(@)]
       IN  Become(IF Head(c.timers) = "slurp" THEN EmitSlurped(p) ELSE CloseTimer(p))
    /\ UNCHANGED used

Interval ==
    /\ c.interval # "none"
    /\ Become(IntervalTick(Now))
    /\ UNCHANGED used

\* The timer of _handleDelayedMessages().
DelayTimer ==
    /\ c.delayTimer
    /\ Become(HandleDelayed(Now))
    /\ UNCHANGED used

BugImageLoadUnqueued ==
    /\ \E i \in DOMAIN c.slurp :
          /\ c.slurp[i].k = "image"
          /\ c' = [c EXCEPT !.slurp[i].k = "decoded"]
    /\ UNCHANGED <<wsd, used>>

\* A dialog picture has been decoded, or cannot be.
ImageLoad ==
    /\ \E i \in DOMAIN c.slurp :
          /\ c.slurp[i].k = "image"
          /\ c' = [c EXCEPT !.slurp[i].k = "decoded", !.timers = QueueSlurp(@)]
    /\ UNCHANGED <<wsd, used>>

\* The user types: a command is sent.
Send ==
    /\ Spend("sends", MaxSends)
    /\ c.docLayer
    /\ Become(SendMessage(Now, [k |-> "cmd", n |-> used["sends"]]))

\* The tab gains the focus, or loses it, with or without a dialog open.
Focus ==
    /\ Spend("focus", MaxFocus)
    /\ Become(Activate(Now))

Blur ==
    /\ Spend("focus", MaxFocus)
    /\ \E dialog \in BOOLEAN : Become(Deactivate(Now, dialog))

\* The user clicks on the dimmed document (restartConnectionFn() of _dim()).
Wake ==
    /\ c.dimmed
    /\ LET p == [Now EXCEPT !.c.dimmed = FALSE]
       IN  Become(IF c.idle THEN Activate([p EXCEPT !.c.idle = FALSE]) ELSE p)
    /\ UNCHANGED used

\* The user enters the password, or cancels (_askForDocumentPassword()).
Answer ==
    /\ c.asking
    /\ \E given \in BOOLEAN :
          LET p == [Now EXCEPT !.c.asking = FALSE]
          IN  Become(IF given THEN LoadDocument(p) ELSE [p EXCEPT !.c.error = TRUE])
    /\ UNCHANGED used

-----------------------------------------------------------------------------
(* Steps of wsd, as far as the page depends on it *)

Say(ms, state) == wsd' = [wsd EXCEPT !.wire = @ \o ms, !.state = state]
Msg(k) == [k |-> k]

\* The document is being opened for the session.
WsdReady ==
    /\ wsd.state = "loading" /\ Say(<<Msg("ready")>>, "joined")
    /\ UNCHANGED <<c, used>>

WsdRefuse ==
    /\ wsd.state = "loading"
    /\ Spend("faults", MaxFaults)
    /\ \E k \in Refusals : Say(<<Msg(k)>>, "ended")
    /\ UNCHANGED c

WsdStatus ==
    /\ wsd.state = "joined" /\ Say(<<Msg("status")>>, "loaded")
    /\ UNCHANGED <<c, used>>

\* Messages of the Kit; the first may come before the status.
WsdView ==
    /\ wsd.state \in {"joined", "loaded"}
    /\ Spend("views", MaxViews)
    /\ \E delays \in BOOLEAN :
          Say(<<[k |-> "view", n |-> used["views"], delays |-> delays]>>, wsd.state)
    /\ UNCHANGED c

WsdImage ==
    /\ Images /\ wsd.state = "loaded"
    /\ Spend("views", MaxViews)
    /\ Say(<<Msg("image")>>, "loaded")
    /\ UNCHANGED c

\* The document was saved under another name.
WsdSaveAs ==
    /\ wsd.state = "loaded"
    /\ Spend("faults", MaxFaults)
    /\ Say(<<Msg("saveas")>>, "loaded")
    /\ UNCHANGED c

\* A rename by somebody else blocks the UI; when it fails the UI is unblocked.
WsdBlock ==
    /\ Blocking /\ wsd.state = "loaded"
    /\ Spend("faults", MaxFaults)
    /\ Say(<<Msg("block")>>, "blocking")
    /\ UNCHANGED c

WsdUnblock ==
    /\ wsd.state = "blocking"
    /\ Say(<<Msg("unblock")>>, "loaded")
    /\ UNCHANGED <<c, used>>

\* The session ends, with or without a word.
WsdEnd ==
    /\ wsd.state \in {"joined", "loaded"}
    /\ Spend("faults", MaxFaults)
    /\ \E k \in Endings :
          /\ k = "idle" => wsd.state = "loaded"
          /\ Say(IF k = "drop" THEN <<>> ELSE <<Msg(k)>>, "ended")
    /\ UNCHANGED c

-----------------------------------------------------------------------------
Init ==
    /\ c = [sock |-> "connecting", active |-> TRUE, recycling |-> FALSE, idle |-> FALSE,
            reconnecting |-> FALSE, count |-> 0, interval |-> "none", timers |-> <<>>,
            fatal |-> FALSE, docLayer |-> FALSE, docLoaded |-> FALSE, blocked |-> FALSE,
            asking |-> FALSE, dimmed |-> FALSE, error |-> FALSE, queue |-> <<>>, slurp |-> <<>>,
            delayed |-> <<>>, delayTimer |-> FALSE,
            log |-> <<>>, handled |-> <<>>, tried |-> FALSE, hasty |-> FALSE,
            muted |-> FALSE, leftover |-> FALSE, stale |-> FALSE]
    /\ wsd = Nobody
    /\ used = [faults |-> 0, sends |-> 0, views |-> 0, focus |-> 0]

Page == Open \/ Receive \/ Closing \/ Closed \/ Timer \/ Interval \/ DelayTimer \/ ImageLoad
User == Send \/ Focus \/ Blur \/ Wake \/ Answer
Server == WsdReady \/ WsdStatus \/ WsdView \/ WsdImage \/ WsdSaveAs \/ WsdBlock \/ WsdUnblock
Faults == Fail \/ WsdRefuse \/ WsdEnd

Next == Page \/ User \/ Server \/ Faults

Spec == Init /\ [][Next]_vars

\* The browser delivers events and timers, wsd answers a load, a decoded picture is
\* reported; an attempt to connect is not cut short by the interval for ever. Nothing is
\* assumed of the user, and nothing has to go wrong.
Handling == Receive \/ Closing \/ Closed \/ Timer \/ ImageLoad \/ WsdReady \/ WsdStatus \/ WsdUnblock
Fairness == WF_vars(Open) /\ WF_vars(Interval) /\ WF_vars(Handling)

FairSpec == Spec /\ Fairness

-----------------------------------------------------------------------------
(* Properties *)

Message == [k : {"ready", "status", "idle", "recycling", "reload", "unloading", "failed", "limit",
                 "password", "saveas", "block", "unblock", "image", "decoded"}]
           \cup [k : {"view"}, n : 0..MaxViews, delays : BOOLEAN]

\* Every field holds what its type allows; the retries of an unloading document are bounded.
TypeOK ==
    /\ c.sock \in {"connecting", "open", "closing", "closed"}
    /\ {c.active, c.recycling, c.idle, c.reconnecting, c.fatal, c.docLayer, c.docLoaded, c.blocked,
        c.asking, c.dimmed, c.error, c.delayTimer, c.tried, c.hasty, c.muted,
        c.leftover, c.stale}
          \subseteq BOOLEAN
    /\ c.count \in 0..(MaxFaults + 1) /\ c.interval \in {"none", "load", "activate"}
    /\ c.timers \in Seq({"slurp", "close"})
    /\ c.queue \in Seq([k : {"cmd"}, n : 0..MaxSends] \cup [k : {"info"}])
    /\ c.slurp \in Seq(Message) /\ c.delayed \in Seq(Message)
    /\ c.log \in Seq(0..MaxSends) /\ c.handled \in Seq(Message)
    /\ wsd.state \in {"none", "loading", "joined", "loaded", "blocking", "ended"}
    /\ wsd.view \in BOOLEAN /\ wsd.wire \in Seq(Message)

Increasing(q) == \A i, j \in DOMAIN q : i < j => q[i] < q[j]

\* wsd gets the user's commands in the order they were given and none of them twice, across
\* reconnections and whatever was queued while there was no connection (sendMessage(),
\* _onSocketOpen()).
CommandsInOrder == Increasing(c.log)

\* a is rightly handled before b: it was sent before, or overtook it while b was delayed.
MayPrecede(a, b) == a.n < b.n \/ (b.n < a.n /\ ~a.delays /\ b.delays)

\* The document layer gets no message twice, and it gets them in the order they were sent,
\* whether they were slurped, held up by a picture or delayed until there was a layer
\* (_emitSlurpedEvents(), _tryToDelayMessage()), but for one case: a message that is never
\* delayed may overtake ones that are. It never falls behind one, and neither the delayed ones
\* nor the others change places among themselves.
MessagesInOrder ==
    \A i, j \in DOMAIN c.handled : i < j => MayPrecede(c.handled[i], c.handled[j])

\* Nothing will happen unless the user or wsd does something.
Quiet == /\ c.timers = <<>> /\ c.interval = "none" /\ c.slurp = <<>>
         /\ c.sock \in {"open", "closed"} /\ wsd.wire = <<>> /\ wsd.state \in {"none", "loaded"}

\* A page that stays without a connection has tried to get one since the document was last
\* loaded, or has told the user why it does not (_onSocketClose(), _onMessage()). The
\* exceptions are a page that already had to reconnect before its first load, _reconnecting
\* being left over, and one that connected again before it had handled all that was slurped or
\* while the UI was blocked: sendMessage() then drops everything, and nobody unblocks it.
NeverStranded ==
    Quiet /\ c.sock = "closed" =>
        c.tried \/ c.error \/ c.asking \/ (c.idle /\ c.dimmed) \/ c.leftover \/ c.stale

\* The Kit does not take the user for inactive while the page takes itself for active: the
\* view would get no updates and nobody would tell the Kit (_activate(), _deactivate()). Only
\* a notice that sendMessage() swallowed, as the UI was blocked, breaks it.
ActivityAgrees ==
    Quiet /\ c.sock = "open" /\ c.active => wsd.view \/ c.muted

\* The retries end: the document is loaded, or they are given up (this.timer). A page that
\* connected again before it had handled all that was slurped may take an old "close: idle" or
\* "close: recycling" for one of the new connection, and then waits for ever.
\* The exception takes in the page that connected while the UI was blocked too, as in NeverStranded.
RetriesEnd == c.interval # "none" ~> c.interval = "none" \/ c.fatal \/ c.asking \/ c.error \/ c.stale

\* Whatever was slurped is handled in the end, even if pictures hold it up.
SlurpDrains == c.slurp # <<>> ~> c.slurp = <<>>

\* What the comment in _onSocketClose() (Socket.js:1473) says of the error it shows: "Don't
\* show this before first transparently trying to reconnect".
ErrorAfterRetry == ~c.hasty
=============================================================================
