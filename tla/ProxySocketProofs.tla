-------------------------- MODULE ProxySocketProofs --------------------------
(***************************************************************************)
(* Proofs about ProxySocket for every limit on the requests in flight and   *)
(* every bound on messages and faults.                                     *)
(*                                                                         *)
(* The inductive invariant says where a message can be (queued, in a        *)
(* request, handled), that these places are apart, and how far the "open"   *)
(* request has come.                                                       *)
(***************************************************************************)
EXTENDS ProxySocket, FiniteSetTheorems, SequenceTheorems, TLAPS

(* Every message of a comes before every message of b. *)
Before(a, b) == \A x \in Range(a), y \in Range(b) : x < y

Apart(a, b) == Range(a) \cap Range(b) = {}

(* The messages of the page and of wsd. *)
Ups == 1..MaxUp
Downs == 1..MaxDown

(* The types without the ranges of the counters, which Counting and Opens imply. *)
Sockets == [ready : {0, 1, 3}, session : BOOLEAN, inflight : Int, opens : Int, level : 0..MaxLevel,
            queue : Seq(Ups), failed : BOOLEAN]
Requests == [st : {"free", "sent", "answered", "refused"}, up : Seq(Ups), down : Seq(Downs)]
Servers == [st : {"none", "open", "leaving", "gone"}, got : Seq(Ups), queue : Seq(Downs),
            sent : 0..MaxDown]
Pages == [detached : BOOLEAN, sent : 0..MaxUp, got : Seq(Downs), crowded : BOOLEAN,
          lost : BOOLEAN, revived : BOOLEAN]

Types ==
    /\ s \in Sockets
    /\ open \in {"none", "delayed", "sent", "granted", "refused"}
    /\ writes \in [Slots -> Requests]
    /\ closing \in BOOLEAN
    /\ srv \in Servers
    /\ page \in Pages
    /\ faults \in 0..MaxFaults

(* msgInflight: behind by the requests that were in flight when the counters
   were started again, and by none as long as the socket is open. *)
Counting ==
    /\ s.inflight <= Cardinality(Outstanding)
    /\ Cardinality(Outstanding) - MaxInflight <= s.inflight
    /\ s.ready = 1 => s.inflight = Cardinality(Outstanding)

(* openInflight follows the "open" request, and is one short once it was refused. *)
Opens ==
    /\ open = "delayed" => s.opens = 0
    /\ open \in {"sent", "granted", "refused"} => s.opens = 1
    /\ open = "none" => s.opens \in {-1, 0}

(* A slot that is free, just sent or refused carries nothing it should not. *)
SlotsClean ==
    \A i \in Slots :
        /\ writes[i].st = "free" => writes[i].up = <<>>
        /\ writes[i].st # "answered" => writes[i].down = <<>>

(* Until the answer to "open" nothing was sent. *)
Opening ==
    /\ open # "none" => /\ s.ready # 1 /\ s.inflight = 0 /\ Outstanding = {}
                        /\ page.sent = 0 /\ s.queue = <<>> /\ srv.got = <<>> /\ page.got = <<>>
    /\ open \in {"delayed", "sent", "refused"} => srv.st = "none"
    /\ srv.st = "none" => srv.sent = 0 /\ srv.queue = <<>>
    /\ s.ready = 0 => ~page.detached /\ Outstanding = {} /\ s.inflight = 0
    /\ s.ready = 0 /\ ~page.lost => open # "none"
    /\ s.ready = 0 /\ ~page.lost /\ srv.st = "open" => open = "granted"
    /\ s.ready = 3 => s.failed \/ page.detached
    /\ s.ready = 1 => s.session

(* The messages of the page. *)
UpOnce ==
    /\ IsInjective(srv.got) /\ IsInjective(s.queue) /\ Apart(srv.got, s.queue)
    /\ Range(srv.got) \cup Range(s.queue) \subseteq 1..page.sent
    /\ \A i \in Slots :
          /\ IsInjective(writes[i].up) /\ Apart(writes[i].up, s.queue)
          /\ Range(writes[i].up) \subseteq 1..page.sent
          /\ writes[i].st = "sent" => Apart(writes[i].up, srv.got)
          /\ writes[i].st = "answered" => Range(writes[i].up) \subseteq Range(srv.got)
    /\ \A i, j \in Slots : i # j => Apart(writes[i].up, writes[j].up)

(* The messages of wsd. *)
DownOnce ==
    /\ IsInjective(page.got) /\ IsInjective(srv.queue) /\ Apart(page.got, srv.queue)
    /\ Range(page.got) \cup Range(srv.queue) \subseteq 1..srv.sent
    /\ \A i \in Slots :
          /\ IsInjective(writes[i].down) /\ Apart(writes[i].down, srv.queue)
          /\ Range(writes[i].down) \subseteq 1..srv.sent
          /\ Apart(writes[i].down, page.got)
    /\ \A i, j \in Slots : i # j => Apart(writes[i].down, writes[j].down)

(* One request at a time keeps both directions in order. *)
InOrder ==
    ~page.crowded =>
        /\ \A i, j \in Outstanding : i = j
        /\ Increasing(srv.got) /\ Increasing(s.queue) /\ Before(srv.got, s.queue)
        /\ Increasing(page.got) /\ Increasing(srv.queue) /\ Before(page.got, srv.queue)
        /\ \A i \in Slots :
              /\ Increasing(writes[i].up) /\ Before(writes[i].up, s.queue)
              /\ writes[i].st = "sent" => Before(srv.got, writes[i].up)
              /\ Increasing(writes[i].down) /\ Before(writes[i].down, srv.queue)
              /\ Before(page.got, writes[i].down)

Messages == UpOnce /\ DownOnce /\ InOrder

UpThere == Range(srv.got) \cup Range(s.queue) \cup Carried("up")
DownThere == Range(page.got) \cup Range(srv.queue) \cup Carried("down")

(* Nothing is lost, from the start of the session on. *)
Kept ==
    /\ s.ready = 1 /\ ~page.lost => 1..page.sent \subseteq UpThere
    /\ (s.ready = 1 \/ open = "granted") /\ ~page.lost /\ srv.st = "open" /\ ~page.detached =>
          1..srv.sent \subseteq DownThere

(* wsd was told of a closed socket, is about to be, or its session is about to
   revive the socket. *)
Closed ==
    page.detached /\ ~s.failed /\ ~page.lost /\ ~page.revived =>
        s.ready = 3 /\ (srv.st = "open" => closing \/ open = "granted")

ProxyInv ==
    Types /\ Counting /\ Opens /\ SlotsClean /\ Opening /\ Messages /\ Kept /\ Closed
-----------------------------------------------------------------------------
(* Sequences of messages. *)

(* Nothing is in an empty queue. *)
LEMMA EmptyRange == Range(<<>>) = {} /\ IsInjective(<<>>) /\ Increasing(<<>>)
BY DEF Range, IsInjective, Increasing

(* send(): a queued message joins the others. *)
LEMMA AppendRange ==
    ASSUME NEW S, NEW q \in Seq(S), NEW e \in S
    PROVE  Append(q, e) \in Seq(S) /\ Range(Append(q, e)) = Range(q) \cup {e}
<1>1. Append(q, e) \in Seq(S) /\ Len(Append(q, e)) = Len(q) + 1
  BY AppendProperties
<1>2. \A i \in 1..Len(q) : Append(q, e)[i] = q[i]
  BY AppendProperties
<1>3. Append(q, e)[Len(q) + 1] = e
  BY AppendProperties
<1>4. Range(q) = {q[i] : i \in 1..Len(q)}
  BY RangeEquality
<1>5. Range(Append(q, e)) = {Append(q, e)[i] : i \in 1..Len(Append(q, e))}
  BY <1>1, RangeEquality
<1>6. Len(q) \in Nat
  BY LenProperties
<1> QED  BY <1>1, <1>2, <1>3, <1>4, <1>5, <1>6

(* A new message is queued once. *)
LEMMA AppendNoRepeat ==
    ASSUME NEW S, NEW q \in Seq(S), NEW e \in S, IsInjective(q), e \notin Range(q)
    PROVE  IsInjective(Append(q, e))
<1>1. Append(q, e) \in Seq(S) /\ Len(Append(q, e)) = Len(q) + 1
  BY AppendProperties
<1>2. \A i \in 1..Len(q) : Append(q, e)[i] = q[i] /\ q[i] # e
  BY AppendProperties, RangeEquality
<1>3. Append(q, e)[Len(q) + 1] = e
  BY AppendProperties
<1>4. DOMAIN q = 1..Len(q) /\ DOMAIN Append(q, e) = 1..(Len(q) + 1) /\ Len(q) \in Nat
  BY <1>1, LenProperties
<1>5. ASSUME NEW i \in DOMAIN Append(q, e), NEW j \in DOMAIN Append(q, e),
             Append(q, e)[i] = Append(q, e)[j]
      PROVE  i = j
  <2>1. \A k \in DOMAIN Append(q, e) : k \in 1..Len(q) \/ k = Len(q) + 1
    BY <1>4
  <2>2. CASE i \in 1..Len(q) /\ j \in 1..Len(q)
    BY <1>2, <1>4, <1>5, <2>2 DEF IsInjective
  <2>3. CASE i = Len(q) + 1 \/ j = Len(q) + 1
    BY <1>2, <1>3, <1>5, <2>1, <2>3
  <2> QED  BY <2>1, <2>2, <2>3
<1> QED  BY <1>5 DEF IsInjective

(* A message later than all that are queued keeps the queue in order. *)
LEMMA AppendIncreasing ==
    ASSUME NEW S, S \subseteq Nat, NEW q \in Seq(S), NEW e \in S, Increasing(q),
           \A x \in Range(q) : x < e
    PROVE  Increasing(Append(q, e))
<1>1. Append(q, e) \in Seq(S) /\ Len(Append(q, e)) = Len(q) + 1
  BY AppendProperties
<1>2. \A i \in 1..Len(q) : Append(q, e)[i] = q[i] /\ q[i] < e
  BY AppendProperties, RangeEquality
<1>3. Append(q, e)[Len(q) + 1] = e
  BY AppendProperties
<1>4. DOMAIN q = 1..Len(q) /\ DOMAIN Append(q, e) = 1..(Len(q) + 1) /\ Len(q) \in Nat
  BY <1>1, LenProperties
<1> QED  BY <1>2, <1>3, <1>4 DEF Increasing

(* What a request carries is handled after what was handled before: the elements of the
   two sequences keep their places. *)
LEMMA ConcatPlaces ==
    ASSUME NEW S, NEW a \in Seq(S), NEW b \in Seq(S)
    PROVE  /\ a \o b \in Seq(S)
           /\ DOMAIN (a \o b) = 1..(Len(a) + Len(b)) /\ Len(a) \in Nat /\ Len(b) \in Nat
           /\ DOMAIN a = 1..Len(a) /\ DOMAIN b = 1..Len(b)
           /\ \A i \in DOMAIN (a \o b) :
                 \/ i \in 1..Len(a) /\ (a \o b)[i] = a[i] /\ a[i] \in Range(a)
                 \/ /\ i - Len(a) \in 1..Len(b) /\ (a \o b)[i] = b[i - Len(a)]
                    /\ b[i - Len(a)] \in Range(b)
<1>1. a \o b \in Seq(S) /\ Len(a \o b) = Len(a) + Len(b)
  BY ConcatProperties
<1>2. Len(a) \in Nat /\ Len(b) \in Nat /\ DOMAIN a = 1..Len(a) /\ DOMAIN b = 1..Len(b)
  BY LenProperties
<1>3. DOMAIN (a \o b) = 1..(Len(a) + Len(b))
  BY <1>1, LenProperties
<1>4. ASSUME NEW i \in DOMAIN (a \o b)
      PROVE  \/ i \in 1..Len(a) /\ (a \o b)[i] = a[i] /\ a[i] \in Range(a)
             \/ /\ i - Len(a) \in 1..Len(b) /\ (a \o b)[i] = b[i - Len(a)]
                /\ b[i - Len(a)] \in Range(b)
  <2>1. (a \o b)[i] = IF i <= Len(a) THEN a[i] ELSE b[i - Len(a)]
    BY <1>3, ConcatProperties
  <2>2. CASE i <= Len(a)
    <3>1. i \in 1..Len(a)
      BY <1>2, <1>3, <2>2
    <3> QED  BY <1>2, <2>1, <2>2, <3>1 DEF Range
  <2>3. CASE ~(i <= Len(a))
    <3>1. i - Len(a) \in 1..Len(b)
      BY <1>2, <1>3, <2>3
    <3> QED  BY <1>2, <2>1, <2>3, <3>1 DEF Range
  <2> QED  BY <2>2, <2>3
<1> QED  BY <1>1, <1>2, <1>3, <1>4

(* Sequences without repetition and without a common message do not repeat one either. *)
LEMMA ConcatNoRepeat ==
    ASSUME NEW S, NEW a \in Seq(S), NEW b \in Seq(S), IsInjective(a), IsInjective(b), Apart(a, b)
    PROVE  IsInjective(a \o b)
<1> SUFFICES ASSUME NEW i \in DOMAIN (a \o b), NEW j \in DOMAIN (a \o b),
                    (a \o b)[i] = (a \o b)[j]
             PROVE  i = j
  BY DEF IsInjective
<1>1. i \in Int /\ j \in Int /\ Len(a) \in Int
  BY ConcatPlaces
<1>2. CASE i \in 1..Len(a) /\ (a \o b)[i] = a[i] /\ a[i] \in Range(a)
  <2>1. CASE j \in 1..Len(a) /\ (a \o b)[j] = a[j]
    <3>1. i \in DOMAIN a /\ j \in DOMAIN a /\ a[i] = a[j]
      BY <1>2, <2>1, ConcatPlaces
    <3> QED  BY <3>1 DEF IsInjective
  <2>2. CASE (a \o b)[j] = b[j - Len(a)] /\ b[j - Len(a)] \in Range(b)
    BY <1>2, <2>2 DEF Apart
  <2> QED  BY <2>1, <2>2, ConcatPlaces
<1>3. CASE i - Len(a) \in 1..Len(b) /\ (a \o b)[i] = b[i - Len(a)] /\ b[i - Len(a)] \in Range(b)
  <2>1. CASE j \in 1..Len(a) /\ (a \o b)[j] = a[j] /\ a[j] \in Range(a)
    BY <1>3, <2>1 DEF Apart
  <2>2. CASE j - Len(a) \in 1..Len(b) /\ (a \o b)[j] = b[j - Len(a)]
    <3>1. i - Len(a) \in DOMAIN b /\ j - Len(a) \in DOMAIN b /\ b[i - Len(a)] = b[j - Len(a)]
      BY <1>3, <2>2, ConcatPlaces
    <3>2. i - Len(a) = j - Len(a)
      BY <3>1 DEF IsInjective
    <3> QED  BY <1>1, <3>2
  <2> QED  BY <2>1, <2>2, ConcatPlaces
<1> QED  BY <1>2, <1>3, ConcatPlaces

(* Sequences in order, one before the other, are in order together. *)
LEMMA ConcatIncreasing ==
    ASSUME NEW S, S \subseteq Nat, NEW a \in Seq(S), NEW b \in Seq(S), Increasing(a), Increasing(b),
           Before(a, b)
    PROVE  Increasing(a \o b)
<1> SUFFICES ASSUME NEW i \in DOMAIN (a \o b), NEW j \in DOMAIN (a \o b), i < j
             PROVE  (a \o b)[i] < (a \o b)[j]
  BY DEF Increasing
<1>1. i \in Int /\ j \in Int /\ Len(a) \in Int
  BY ConcatPlaces
<1>2. CASE i \in 1..Len(a) /\ (a \o b)[i] = a[i] /\ a[i] \in Range(a)
  <2>1. CASE j \in 1..Len(a) /\ (a \o b)[j] = a[j]
    BY <1>2, <2>1, ConcatPlaces DEF Increasing
  <2>2. CASE (a \o b)[j] = b[j - Len(a)] /\ b[j - Len(a)] \in Range(b)
    BY <1>2, <2>2 DEF Before
  <2> QED  BY <2>1, <2>2, ConcatPlaces
<1>3. CASE i - Len(a) \in 1..Len(b) /\ (a \o b)[i] = b[i - Len(a)] /\ b[i - Len(a)] \in Range(b)
  <2>1. j \notin 1..Len(a) /\ i - Len(a) < j - Len(a)
    BY <1>1, <1>3
  <2>2. j - Len(a) \in 1..Len(b) /\ (a \o b)[j] = b[j - Len(a)]
    BY <2>1, ConcatPlaces
  <2> QED  BY <1>3, <2>1, <2>2, ConcatPlaces DEF Increasing
<1> QED  BY <1>2, <1>3, ConcatPlaces
-----------------------------------------------------------------------------
(* Requests in flight. *)

(* There are finitely many slots, at most as many outstanding. *)
LEMMA OutstandingFinite ==
    /\ IsFiniteSet(Outstanding)
    /\ Cardinality(Outstanding) \in 0..MaxInflight
<1>1. MaxInflight \in Nat
  BY ProxyAssumption
<1>2. IsFiniteSet(Slots) /\ Cardinality(Slots) = MaxInflight
  <2>1. IsFiniteSet(1..MaxInflight) /\ Cardinality(1..MaxInflight) = MaxInflight
    BY <1>1, FS_Interval
  <2> QED  BY <2>1 DEF Slots
<1>3. Outstanding \subseteq Slots
  BY DEF Outstanding
<1>4. IsFiniteSet(Outstanding) /\ Cardinality(Outstanding) <= Cardinality(Slots)
  BY <1>2, <1>3, FS_Subset
<1>5. Cardinality(Outstanding) \in Nat
  BY <1>4, FS_CardinalityType
<1> QED  BY <1>1, <1>2, <1>4, <1>5

(* A slot is taken: one more in flight. *)
LEMMA SlotTaken ==
    ASSUME Types, NEW i \in Slots, writes[i].st = "free",
           NEW w, w.st # "free", writes' = [writes EXCEPT ![i] = w]
    PROVE  /\ Outstanding' = Outstanding \cup {i}
           /\ Cardinality(Outstanding') = Cardinality(Outstanding) + 1
<1>1. i \notin Outstanding
  BY DEF Outstanding
<1>2. Outstanding' = Outstanding \cup {i}
  BY DEF Outstanding, Types
<1>3. Cardinality(Outstanding \cup {i}) = Cardinality(Outstanding) + 1
  BY <1>1, OutstandingFinite, FS_AddElement
<1> QED  BY <1>2, <1>3

(* A slot is freed: one less in flight. *)
LEMMA SlotFreed ==
    ASSUME Types, NEW i \in Slots, writes[i].st # "free", writes' = [writes EXCEPT ![i] = Free]
    PROVE  /\ Outstanding' = Outstanding \ {i}
           /\ Cardinality(Outstanding') = Cardinality(Outstanding) - 1
           /\ Outstanding # {}
<1>1. i \in Outstanding
  BY DEF Outstanding
<1>2. Outstanding' = Outstanding \ {i}
  BY DEF Outstanding, Types, Free
<1>3. Cardinality(Outstanding \ {i}) = Cardinality(Outstanding) - 1
  BY <1>1, OutstandingFinite, FS_RemoveElement
<1> QED  BY <1>1, <1>2, <1>3

(* An answer changes no slot's being taken. *)
LEMMA SlotKept ==
    ASSUME Types, NEW i \in Slots, writes[i].st # "free",
           NEW w, w.st # "free", writes' = [writes EXCEPT ![i] = w]
    PROVE  Outstanding' = Outstanding
BY DEF Outstanding, Types

(* What throttling makes of the poll interval. *)
LEMMA ThrottleType ==
    ASSUME NEW l \in 0..MaxLevel
    PROVE  Throttle(l) \in 0..MaxLevel
BY ProxyAssumption DEF Throttle

(* send() queues the message and leaves the counters alone. *)
LEMMA SendMsgEffect ==
    ASSUME NEW x \in Sockets, NEW m \in Ups
    PROVE  /\ SendMsg(x, m) \in Sockets
           /\ SendMsg(x, m).queue = Append(x.queue, m)
           /\ SendMsg(x, m).ready = x.ready
           /\ SendMsg(x, m).session = x.session
           /\ SendMsg(x, m).inflight = x.inflight
           /\ SendMsg(x, m).opens = x.opens
           /\ SendMsg(x, m).failed = x.failed
<1>1. Append(x.queue, m) \in Seq(Ups)
  BY AppendProperties DEF Sockets
<1>2. 0 \in 0..MaxLevel
  BY ProxyAssumption
<1> QED  BY <1>1, <1>2 DEF SendMsg, Sockets

(* _signalErrorClose() starts the counters again and keeps what is queued. *)
LEMMA ErrorCloseEffect ==
    ASSUME NEW x \in Sockets
    PROVE  /\ SignalErrorClose(x) \in Sockets
           /\ SignalErrorClose(x).ready = 3 /\ SignalErrorClose(x).session = FALSE
           /\ SignalErrorClose(x).inflight = 0 /\ SignalErrorClose(x).opens = 0
           /\ SignalErrorClose(x).failed = TRUE /\ SignalErrorClose(x).queue = x.queue
<1>0. SignalErrorClose(x).ready = 3
  BY DEF SignalErrorClose, Sockets
<1>1. /\ SignalErrorClose(x).inflight = 0 /\ SignalErrorClose(x).opens = 0
      /\ SignalErrorClose(x).queue = x.queue
  BY DEF SignalErrorClose, Sockets
<1>2. SignalErrorClose(x).session = FALSE /\ SignalErrorClose(x).failed = TRUE
  BY Zenon DEF SignalErrorClose, Sockets
<1>3. ASSUME NEW r \in {0, 1, 3}, NEW c \in BOOLEAN, NEW k \in Int, NEW l \in Int, NEW d \in BOOLEAN
      PROVE  [x EXCEPT !.ready = r, !.session = c, !.inflight = k, !.opens = l, !.failed = d]
                 \in Sockets
  BY DEF Sockets
<1>4. 3 \in {0, 1, 3} /\ 0 \in Int
  OBVIOUS
<1>5. SignalErrorClose(x) \in Sockets
  BY <1>3, <1>4, Zenon DEF SignalErrorClose
<1> QED  BY <1>0, <1>1, <1>2, <1>5, Zenon

(* The loadend of a "write" request only counts. *)
LEMMA LoadEndEffect ==
    ASSUME NEW x \in Sockets
    PROVE  /\ LoadEnd(x) \in Sockets
           /\ LoadEnd(x).inflight = x.inflight - 1
           /\ LoadEnd(x).ready = x.ready /\ LoadEnd(x).session = x.session
           /\ LoadEnd(x).opens = x.opens /\ LoadEnd(x).failed = x.failed
           /\ LoadEnd(x).queue = x.queue
BY DEF LoadEnd, Sockets
-----------------------------------------------------------------------------
(* What the actions do to the messages. *)

(* A step that moves no message. *)
LEMMA MessagesStay ==
    ASSUME Messages, writes' = writes, s'.queue = s.queue,
           srv'.got = srv.got, srv'.queue = srv.queue, srv'.sent = srv.sent,
           page'.sent = page.sent, page'.got = page.got, page'.crowded = page.crowded
    PROVE  Messages'
<1>1. UpOnce'
  BY DEF Messages, UpOnce
<1>2. DownOnce'
  BY DEF Messages, DownOnce
<1>3. Outstanding' = Outstanding
  BY DEF Outstanding
<1>4. InOrder'
  BY <1>3 DEF Messages, InOrder
<1> QED  BY <1>1, <1>2, <1>4 DEF Messages

(* send() queues the next message of the page. *)
LEMMA MessageOfPage ==
    ASSUME Types, Messages, writes' = writes, srv' = srv, NEW m \in Ups, m = page.sent + 1,
           s'.queue = Append(s.queue, m), page'.sent = m, page'.got = page.got,
           page'.crowded = page.crowded
    PROVE  Messages' /\ Range(s'.queue) = Range(s.queue) \cup {m} /\ 1..m = 1..page.sent \cup {m}
<1>1. page.sent \in Nat /\ s.queue \in Seq(Ups) /\ Ups \subseteq Nat
  BY ProxyAssumption DEF Types, Pages, Sockets, Ups
<1>2. m \notin 1..page.sent /\ 1..page.sent \subseteq 1..m /\ m \in 1..m
      /\ 1..m = 1..page.sent \cup {m} /\ \A x \in 1..page.sent : x < m
  BY <1>1
<1>3. UpOnce /\ DownOnce /\ InOrder /\ Outstanding' = Outstanding
  BY DEF Messages, Outstanding
<1>4. Range(s'.queue) = Range(s.queue) \cup {m}
  BY <1>1, AppendRange
<1>5. IsInjective(s'.queue)
  <2>1. m \notin Range(s.queue) /\ IsInjective(s.queue)
    BY <1>2, <1>3 DEF UpOnce
  <2> QED  BY <1>1, <2>1, AppendNoRepeat
<1>6. UpOnce'
  <2>1. IsInjective(srv'.got) /\ Apart(srv'.got, s'.queue)
    BY <1>2, <1>3, <1>4 DEF UpOnce, Apart
  <2>2. Range(srv'.got) \cup Range(s'.queue) \subseteq 1..page'.sent
    BY <1>2, <1>3, <1>4 DEF UpOnce
  <2>3. ASSUME NEW i \in Slots
        PROVE  /\ IsInjective(writes'[i].up) /\ Apart(writes'[i].up, s'.queue)
               /\ Range(writes'[i].up) \subseteq 1..page'.sent
               /\ writes'[i].st = "sent" => Apart(writes'[i].up, srv'.got)
               /\ writes'[i].st = "answered" => Range(writes'[i].up) \subseteq Range(srv'.got)
    BY <1>2, <1>3, <1>4 DEF UpOnce, Apart
  <2> QED  BY <1>3, <1>5, <2>1, <2>2, <2>3 DEF UpOnce
<1>7. DownOnce'
  BY <1>3 DEF DownOnce
<1>8. InOrder'
  <2>1. CASE page.crowded
    BY <2>1 DEF InOrder
  <2>2. CASE ~page.crowded
    <3>1. Increasing(s.queue) /\ \A x \in Range(s.queue) : x < m
      BY <1>2, <1>3, <2>2 DEF InOrder, UpOnce
    <3>2. Increasing(s'.queue)
      BY <1>1, <3>1, AppendIncreasing
    <3>3. Before(srv'.got, s'.queue)
      BY <1>2, <1>3, <1>4, <2>2 DEF InOrder, Before, UpOnce
    <3>4. \A i \in Slots : Before(writes'[i].up, s'.queue)
      BY <1>2, <1>3, <1>4, <2>2 DEF InOrder, Before, UpOnce
    <3> QED  BY <1>3, <2>2, <3>2, <3>3, <3>4 DEF InOrder
  <2> QED  BY <2>1, <2>2
<1> QED  BY <1>2, <1>4, <1>6, <1>7, <1>8 DEF Messages

(* sendMessage() queues the next message of wsd. *)
LEMMA MessageOfServer ==
    ASSUME Types, Messages, writes' = writes, s' = s, page' = page,
           NEW m \in Downs, m = srv.sent + 1,
           srv'.queue = Append(srv.queue, m), srv'.sent = m, srv'.got = srv.got
    PROVE  Messages' /\ Range(srv'.queue) = Range(srv.queue) \cup {m} /\ 1..m = 1..srv.sent \cup {m}
<1>1. srv.sent \in Nat /\ srv.queue \in Seq(Downs) /\ Downs \subseteq Nat
  BY ProxyAssumption DEF Types, Servers, Downs
<1>2. m \notin 1..srv.sent /\ 1..srv.sent \subseteq 1..m /\ m \in 1..m
      /\ 1..m = 1..srv.sent \cup {m} /\ \A x \in 1..srv.sent : x < m
  BY <1>1
<1>3. UpOnce /\ DownOnce /\ InOrder /\ Outstanding' = Outstanding
  BY DEF Messages, Outstanding
<1>4. Range(srv'.queue) = Range(srv.queue) \cup {m}
  BY <1>1, AppendRange
<1>5. IsInjective(srv'.queue)
  <2>1. m \notin Range(srv.queue) /\ IsInjective(srv.queue)
    BY <1>2, <1>3 DEF DownOnce
  <2> QED  BY <1>1, <2>1, AppendNoRepeat
<1>6. DownOnce'
  <2>1. IsInjective(page'.got) /\ Apart(page'.got, srv'.queue)
    BY <1>2, <1>3, <1>4 DEF DownOnce, Apart
  <2>2. Range(page'.got) \cup Range(srv'.queue) \subseteq 1..srv'.sent
    BY <1>2, <1>3, <1>4 DEF DownOnce
  <2>3. ASSUME NEW i \in Slots
        PROVE  /\ IsInjective(writes'[i].down) /\ Apart(writes'[i].down, srv'.queue)
               /\ Range(writes'[i].down) \subseteq 1..srv'.sent
               /\ Apart(writes'[i].down, page'.got)
    BY <1>2, <1>3, <1>4 DEF DownOnce, Apart
  <2> QED  BY <1>3, <1>5, <2>1, <2>2, <2>3 DEF DownOnce
<1>7. UpOnce'
  BY <1>3 DEF UpOnce
<1>8. InOrder'
  <2>1. CASE page.crowded
    BY <2>1 DEF InOrder
  <2>2. CASE ~page.crowded
    <3>1. Increasing(srv.queue) /\ \A x \in Range(srv.queue) : x < m
      BY <1>2, <1>3, <2>2 DEF InOrder, DownOnce
    <3>2. Increasing(srv'.queue)
      BY <1>1, <3>1, AppendIncreasing
    <3>3. Before(page'.got, srv'.queue)
      BY <1>2, <1>3, <1>4, <2>2 DEF InOrder, Before, DownOnce
    <3>4. \A i \in Slots : Before(writes'[i].down, srv'.queue)
      BY <1>2, <1>3, <1>4, <2>2 DEF InOrder, Before, DownOnce
    <3> QED  BY <1>3, <2>2, <3>2, <3>3, <3>4 DEF InOrder
  <2> QED  BY <2>1, <2>2
<1> QED  BY <1>2, <1>4, <1>6, <1>7, <1>8 DEF Messages

(* The session ends: what wsd had queued is dropped. *)
LEMMA QueueDropped ==
    ASSUME Messages, writes' = writes, s' = s, page' = page,
           srv'.queue = <<>>, srv'.sent = srv.sent, srv'.got = srv.got
    PROVE  Messages'
<1>1. UpOnce'
  BY DEF Messages, UpOnce
<1>2. Range(srv'.queue) = {} /\ IsInjective(srv'.queue) /\ Increasing(srv'.queue)
  BY EmptyRange
<1>3. DownOnce'
  BY <1>2 DEF Messages, DownOnce, Apart
<1>4. Outstanding' = Outstanding
  BY DEF Outstanding
<1>5. InOrder'
  BY <1>2, <1>4 DEF Messages, InOrder, Before
<1> QED  BY <1>1, <1>3, <1>5 DEF Messages

(* doSend(): what is queued goes into a request. *)
LEMMA RequestSent ==
    ASSUME Types, SlotsClean, Messages, NEW i \in Slots, writes[i].st = "free",
           NEW w, w.st = "sent", w.up = s.queue, w.down = <<>>, writes' = [writes EXCEPT ![i] = w],
           s'.queue = <<>>, srv' = srv, page'.sent = page.sent, page'.got = page.got,
           page'.crowded = (page.crowded \/ Outstanding # {})
    PROVE  Messages'
<1>1. writes'[i] = w /\ \A j \in Slots \ {i} : writes'[j] = writes[j]
  BY DEF Types
<1>2. UpOnce /\ DownOnce /\ InOrder
  BY DEF Messages
<1>3. Range(<<>>) = {} /\ IsInjective(<<>>) /\ Increasing(<<>>)
  BY EmptyRange
<1>4. writes[i].up = <<>> /\ writes[i].down = <<>>
  BY DEF SlotsClean
<1>5. UpOnce'
  <2>1. IsInjective(srv'.got) /\ IsInjective(s'.queue) /\ Apart(srv'.got, s'.queue)
    BY <1>2, <1>3 DEF UpOnce, Apart
  <2>2. Range(srv'.got) \cup Range(s'.queue) \subseteq 1..page'.sent
    BY <1>2, <1>3 DEF UpOnce
  <2>3. ASSUME NEW j \in Slots
        PROVE  /\ IsInjective(writes'[j].up) /\ Apart(writes'[j].up, s'.queue)
               /\ Range(writes'[j].up) \subseteq 1..page'.sent
               /\ writes'[j].st = "sent" => Apart(writes'[j].up, srv'.got)
               /\ writes'[j].st = "answered" => Range(writes'[j].up) \subseteq Range(srv'.got)
    <3>1. CASE j = i
      BY <1>1, <1>2, <1>3, <3>1 DEF UpOnce, Apart
    <3>2. CASE j # i
      BY <1>1, <1>2, <1>3, <3>2 DEF UpOnce, Apart
    <3> QED  BY <3>1, <3>2
  <2>4. ASSUME NEW j \in Slots, NEW k \in Slots, j # k
        PROVE  Apart(writes'[j].up, writes'[k].up)
    <3>1. CASE j = i
      BY <1>1, <1>2, <2>4, <3>1 DEF UpOnce, Apart
    <3>2. CASE k = i
      BY <1>1, <1>2, <2>4, <3>2 DEF UpOnce, Apart
    <3>3. CASE j # i /\ k # i
      BY <1>1, <1>2, <2>4, <3>3 DEF UpOnce
    <3> QED  BY <3>1, <3>2, <3>3
  <2> QED  BY <2>1, <2>2, <2>3, <2>4 DEF UpOnce
<1>6. DownOnce'
  <2>1. \A j \in Slots : writes'[j].down = writes[j].down
    BY <1>1, <1>4
  <2> QED  BY <1>2, <2>1 DEF DownOnce
<1>7. InOrder'
  <2>1. CASE page.crowded \/ Outstanding # {}
    BY <2>1 DEF InOrder
  <2>2. CASE ~page.crowded /\ Outstanding = {}
    <3>1. Outstanding' = {i}
      BY <1>1, <2>2 DEF Outstanding
    <3>2. \A j \in Slots : writes'[j].down = writes[j].down
      BY <1>1, <1>4
    <3>3. \A j \in Slots \ {i} : writes'[j].up = <<>>
      BY <1>1, <2>2 DEF Outstanding, SlotsClean
    <3>4. Increasing(s'.queue) /\ Before(srv'.got, s'.queue)
      BY <1>3 DEF Before
    <3>5. ASSUME NEW j \in Slots
          PROVE  /\ Increasing(writes'[j].up) /\ Before(writes'[j].up, s'.queue)
                 /\ writes'[j].st = "sent" => Before(srv'.got, writes'[j].up)
      <4>1. CASE j = i
        BY <1>1, <1>2, <1>3, <2>2, <4>1 DEF InOrder, Before
      <4>2. CASE j # i
        BY <1>3, <3>3, <4>2 DEF Before
      <4> QED  BY <4>1, <4>2
    <3> QED  BY <1>2, <2>2, <3>1, <3>2, <3>4, <3>5 DEF InOrder
  <2> QED  BY <2>1, <2>2
<1> QED  BY <1>5, <1>6, <1>7 DEF Messages

(* "write" at wsd: the messages of the request are handled, the queued ones go back with the
   answer. *)
LEMMA RequestHandled ==
    ASSUME Types, SlotsClean, Messages, NEW i \in Slots, writes[i].st = "sent",
           NEW w, w.st = "answered", w.up = writes[i].up, w.down = srv.queue,
           writes' = [writes EXCEPT ![i] = w], s' = s, page' = page,
           srv'.got = srv.got \o writes[i].up, srv'.queue = <<>>, srv'.sent = srv.sent
    PROVE  Messages' /\ Range(srv'.got) = Range(srv.got) \cup Range(writes[i].up)
<1>1. writes'[i] = w /\ \A j \in Slots \ {i} : writes'[j] = writes[j]
  BY DEF Types
<1>2. UpOnce /\ DownOnce /\ InOrder
  BY DEF Messages
<1>3. Range(<<>>) = {} /\ IsInjective(<<>>) /\ Increasing(<<>>)
  BY EmptyRange
<1>4. writes[i].down = <<>> /\ srv.got \in Seq(Ups) /\ writes[i].up \in Seq(Ups)
  BY DEF SlotsClean, Types, Servers, Requests
<1>5. Range(srv'.got) = Range(srv.got) \cup Range(writes[i].up)
  BY <1>4, RangeConcatenation
<1>6. IsInjective(srv'.got)
  <2>1. IsInjective(srv.got) /\ IsInjective(writes[i].up) /\ Apart(srv.got, writes[i].up)
    BY <1>2 DEF UpOnce, Apart
  <2> QED  BY <1>4, <2>1, ConcatNoRepeat
<1>7. \A j \in Slots : writes'[j].up = writes[j].up
  BY <1>1
<1>8. UpOnce'
  <2>1. IsInjective(s'.queue) /\ Apart(srv'.got, s'.queue)
    BY <1>2, <1>5 DEF UpOnce, Apart
  <2>2. Range(srv'.got) \cup Range(s'.queue) \subseteq 1..page'.sent
    BY <1>2, <1>5 DEF UpOnce
  <2>3. ASSUME NEW j \in Slots
        PROVE  /\ IsInjective(writes'[j].up) /\ Apart(writes'[j].up, s'.queue)
               /\ Range(writes'[j].up) \subseteq 1..page'.sent
               /\ writes'[j].st = "sent" => Apart(writes'[j].up, srv'.got)
               /\ writes'[j].st = "answered" => Range(writes'[j].up) \subseteq Range(srv'.got)
    <3>1. CASE j = i
      BY <1>1, <1>2, <1>5, <1>7, <3>1 DEF UpOnce, Apart
    <3>2. CASE j # i
      BY <1>1, <1>2, <1>5, <1>7, <3>2 DEF UpOnce, Apart
    <3> QED  BY <3>1, <3>2
  <2> QED  BY <1>2, <1>6, <1>7, <2>1, <2>2, <2>3 DEF UpOnce
<1>9. DownOnce'
  <2>1. IsInjective(page'.got) /\ IsInjective(srv'.queue) /\ Apart(page'.got, srv'.queue)
    BY <1>2, <1>3 DEF DownOnce, Apart
  <2>2. Range(page'.got) \cup Range(srv'.queue) \subseteq 1..srv'.sent
    BY <1>2, <1>3 DEF DownOnce
  <2>3. ASSUME NEW j \in Slots
        PROVE  /\ IsInjective(writes'[j].down) /\ Apart(writes'[j].down, srv'.queue)
               /\ Range(writes'[j].down) \subseteq 1..srv'.sent
               /\ Apart(writes'[j].down, page'.got)
    <3>1. CASE j = i
      BY <1>1, <1>2, <1>3, <3>1 DEF DownOnce, Apart
    <3>2. CASE j # i
      BY <1>1, <1>2, <1>3, <3>2 DEF DownOnce, Apart
    <3> QED  BY <3>1, <3>2
  <2>4. ASSUME NEW j \in Slots, NEW k \in Slots, j # k
        PROVE  Apart(writes'[j].down, writes'[k].down)
    BY <1>1, <1>2, <2>4 DEF DownOnce, Apart
  <2> QED  BY <2>1, <2>2, <2>3, <2>4 DEF DownOnce
<1>10. InOrder'
  <2>1. CASE page.crowded
    BY <2>1 DEF InOrder
  <2>2. CASE ~page.crowded
    <3>1. Outstanding' = Outstanding /\ i \in Outstanding
      BY <1>1 DEF Outstanding
    <3>2. \A j \in Slots \ {i} : /\ writes[j].st = "free" /\ writes[j].up = <<>>
                                 /\ writes[j].down = <<>>
      BY <1>2, <2>2, <3>1 DEF InOrder, Outstanding, SlotsClean
    <3>3. Increasing(srv'.got)
      <4>1. Increasing(srv.got) /\ Increasing(writes[i].up) /\ Before(srv.got, writes[i].up)
        BY <1>2, <2>2 DEF InOrder
      <4>2. Ups \subseteq Nat
        BY ProxyAssumption DEF Ups
      <4> QED  BY <1>4, <4>1, <4>2, ConcatIncreasing
    <3>4. Before(srv'.got, s'.queue)
      BY <1>2, <1>5, <2>2 DEF InOrder, Before
    <3>5. Increasing(srv'.queue) /\ Before(page'.got, srv'.queue)
      BY <1>3 DEF Before
    <3>6. ASSUME NEW j \in Slots
          PROVE  /\ Increasing(writes'[j].up) /\ Before(writes'[j].up, s'.queue)
                 /\ writes'[j].st = "sent" => Before(srv'.got, writes'[j].up)
                 /\ Increasing(writes'[j].down) /\ Before(writes'[j].down, srv'.queue)
                 /\ Before(page'.got, writes'[j].down)
      <4>1. CASE j = i
        BY <1>1, <1>2, <1>3, <2>2, <4>1 DEF InOrder, Before
      <4>2. CASE j # i
        BY <1>1, <1>2, <1>3, <3>2, <4>2 DEF Before
      <4> QED  BY <4>1, <4>2
    <3> QED  BY <1>2, <2>2, <3>1, <3>3, <3>4, <3>5, <3>6 DEF InOrder
  <2> QED  BY <2>1, <2>2
<1> QED  BY <1>5, <1>8, <1>9, <1>10 DEF Messages

(* "invalid session id": nothing of the request is handled. *)
LEMMA RequestRefused ==
    ASSUME Types, Messages, NEW i \in Slots, writes[i].st = "sent",
           NEW w, w.st = "refused", w.up = writes[i].up, w.down = writes[i].down,
           writes' = [writes EXCEPT ![i] = w], s' = s, page' = page, srv' = srv
    PROVE  Messages'
<1>1. writes'[i] = w /\ \A j \in Slots \ {i} : writes'[j] = writes[j]
  BY DEF Types
<1>2. UpOnce /\ DownOnce /\ InOrder
  BY DEF Messages
<1>3. \A j \in Slots : /\ writes'[j].up = writes[j].up /\ writes'[j].down = writes[j].down
                       /\ writes'[j].st # "refused" => writes'[j].st = writes[j].st
  BY <1>1
<1>4. Outstanding' = Outstanding
  BY <1>1 DEF Outstanding
<1>5. UpOnce'
  BY <1>2, <1>3 DEF UpOnce
<1>6. DownOnce'
  BY <1>2, <1>3 DEF DownOnce
<1>7. InOrder'
  BY <1>2, <1>3, <1>4 DEF InOrder
<1> QED  BY <1>5, <1>6, <1>7 DEF Messages

(* loadend: the request is gone, and the page has got what it brought, or not. *)
LEMMA RequestEnded ==
    ASSUME Types, SlotsClean, Messages, NEW i \in Slots, writes[i].st # "free",
           writes' = [writes EXCEPT ![i] = Free], s'.queue = s.queue, srv' = srv,
           page'.sent = page.sent, page'.crowded = page.crowded,
           page'.got = page.got \/ page'.got = page.got \o writes[i].down
    PROVE  Messages'
<1>1. writes'[i].st = "free" /\ writes'[i].up = <<>> /\ writes'[i].down = <<>>
      /\ \A j \in Slots \ {i} : writes'[j] = writes[j]
  BY DEF Types, Free
<1>2. UpOnce /\ DownOnce /\ InOrder
  BY DEF Messages
<1>3. Range(<<>>) = {} /\ IsInjective(<<>>) /\ Increasing(<<>>)
  BY EmptyRange
<1>4. page.got \in Seq(Downs) /\ writes[i].down \in Seq(Downs)
  BY DEF Types, Pages, Requests
<1>5. Range(page'.got) \subseteq Range(page.got) \cup Range(writes[i].down)
  <2>1. Range(page.got \o writes[i].down) = Range(page.got) \cup Range(writes[i].down)
    BY <1>4, RangeConcatenation
  <2> QED  BY <2>1
<1>6. IsInjective(page'.got)
  <2>1. IsInjective(page.got) /\ IsInjective(writes[i].down) /\ Apart(page.got, writes[i].down)
    BY <1>2 DEF DownOnce, Apart
  <2> QED  BY <1>4, <2>1, ConcatNoRepeat
<1>7. UpOnce'
  <2>1. ASSUME NEW j \in Slots
        PROVE  /\ IsInjective(writes'[j].up) /\ Apart(writes'[j].up, s'.queue)
               /\ Range(writes'[j].up) \subseteq 1..page'.sent
               /\ writes'[j].st = "sent" => Apart(writes'[j].up, srv'.got)
               /\ writes'[j].st = "answered" => Range(writes'[j].up) \subseteq Range(srv'.got)
    <3>1. CASE j = i
      BY <1>1, <1>3, <3>1 DEF Apart
    <3>2. CASE j # i
      BY <1>1, <1>2, <3>2 DEF UpOnce
    <3> QED  BY <3>1, <3>2
  <2>2. ASSUME NEW j \in Slots, NEW k \in Slots, j # k
        PROVE  Apart(writes'[j].up, writes'[k].up)
    BY <1>1, <1>2, <1>3, <2>2 DEF UpOnce, Apart
  <2> QED  BY <1>2, <2>1, <2>2 DEF UpOnce
<1>8. DownOnce'
  <2>1. IsInjective(srv'.queue) /\ Apart(page'.got, srv'.queue)
    BY <1>2, <1>5 DEF DownOnce, Apart
  <2>2. Range(page'.got) \cup Range(srv'.queue) \subseteq 1..srv'.sent
    BY <1>2, <1>5 DEF DownOnce
  <2>3. ASSUME NEW j \in Slots
        PROVE  /\ IsInjective(writes'[j].down) /\ Apart(writes'[j].down, srv'.queue)
               /\ Range(writes'[j].down) \subseteq 1..srv'.sent
               /\ Apart(writes'[j].down, page'.got)
    <3>1. CASE j = i
      BY <1>1, <1>3, <3>1 DEF Apart
    <3>2. CASE j # i
      BY <1>1, <1>2, <1>5, <3>2 DEF DownOnce, Apart
    <3> QED  BY <3>1, <3>2
  <2>4. ASSUME NEW j \in Slots, NEW k \in Slots, j # k
        PROVE  Apart(writes'[j].down, writes'[k].down)
    BY <1>1, <1>2, <1>3, <2>4 DEF DownOnce, Apart
  <2> QED  BY <1>6, <2>1, <2>2, <2>3, <2>4 DEF DownOnce
<1>9. InOrder'
  <2>1. CASE page.crowded
    BY <2>1 DEF InOrder
  <2>2. CASE ~page.crowded
    <3>1. Outstanding' \subseteq Outstanding
      BY <1>1 DEF Outstanding
    <3>2. Increasing(page'.got)
      <4>1. Increasing(page.got) /\ Increasing(writes[i].down) /\ Before(page.got, writes[i].down)
        BY <1>2, <2>2 DEF InOrder
      <4>2. Downs \subseteq Nat
        BY ProxyAssumption DEF Downs
      <4> QED  BY <1>4, <4>1, <4>2, ConcatIncreasing
    <3>3. Before(page'.got, srv'.queue)
      BY <1>2, <1>5, <2>2 DEF InOrder, Before
    <3>4. Outstanding' = {}
      BY <1>1, <1>2, <2>2 DEF InOrder, Outstanding
    <3>5. ASSUME NEW j \in Slots
          PROVE  /\ Increasing(writes'[j].up) /\ Before(writes'[j].up, s'.queue)
                 /\ writes'[j].st = "sent" => Before(srv'.got, writes'[j].up)
                 /\ Increasing(writes'[j].down) /\ Before(writes'[j].down, srv'.queue)
                 /\ Before(page'.got, writes'[j].down)
      <4>1. CASE j = i
        BY <1>1, <1>3, <4>1 DEF Before
      <4>2. CASE j # i
        <5>1. writes'[j].up = <<>> /\ writes'[j].down = <<>> /\ writes'[j].st # "sent"
          BY <1>1, <3>4, <4>2 DEF Outstanding, SlotsClean
        <5> QED  BY <1>3, <5>1 DEF Before
      <4> QED  BY <4>1, <4>2
    <3> QED  BY <1>2, <2>2, <3>1, <3>2, <3>3, <3>5 DEF InOrder
  <2> QED  BY <2>1, <2>2
<1> QED  BY <1>7, <1>8, <1>9 DEF Messages
-----------------------------------------------------------------------------
(* The actions of ProxySocket. *)

(* The messages a request carries. *)
LEMMA CarriedBy ==
    /\ \A x : x \in Carried("up") <=> \E i \in Slots : x \in Range(writes[i].up)
    /\ \A x : x \in Carried("down") <=> \E i \in Slots : x \in Range(writes[i].down)
BY DEF Carried

(* send() by the page. *)
LEMMA SendKeeps == ProxyInv /\ Send => ProxyInv'
<1> SUFFICES ASSUME ProxyInv, Send PROVE ProxyInv'
  OBVIOUS
<1> USE DEF ProxyInv
<1>1. PICK m \in Ups : m = page.sent + 1
  BY ProxyAssumption DEF Types, Pages, Send, Ups
<1>2. /\ s' \in Sockets /\ s'.queue = Append(s.queue, m) /\ s'.ready = 1 /\ s.ready = 1
      /\ s'.session = s.session /\ s'.inflight = s.inflight /\ s'.opens = s.opens
      /\ s'.failed = s.failed
  BY <1>1, SendMsgEffect DEF Types, Send
<1>3. /\ page' \in Pages /\ page'.sent = m /\ page'.detached = page.detached /\ page'.got = page.got
      /\ page'.crowded = page.crowded /\ page'.lost = page.lost /\ page'.revived = page.revived
  BY <1>1, ProxyAssumption DEF Types, Pages, Send, Ups
<1>4. /\ open' = open /\ writes' = writes /\ closing' = closing /\ srv' = srv /\ faults' = faults
      /\ Outstanding' = Outstanding /\ Carried("up")' = Carried("up")
      /\ Carried("down")' = Carried("down")
  BY DEF Send, Outstanding, Carried
<1>5. Messages' /\ Range(s'.queue) = Range(s.queue) \cup {m} /\ 1..m = 1..page.sent \cup {m}
  BY <1>1, <1>2, <1>3, <1>4, MessageOfPage
<1>6. Types'
  BY <1>2, <1>3, <1>4 DEF Types
<1>7. Counting'
  BY <1>2, <1>4 DEF Counting
<1>8. Opens'
  BY <1>2, <1>4 DEF Opens
<1>9. SlotsClean'
  BY <1>4 DEF SlotsClean
<1>10. Opening'
  BY <1>2, <1>3, <1>4 DEF Opening
<1>11. Kept'
  BY <1>2, <1>3, <1>4, <1>5 DEF Kept, UpThere, DownThere
<1>12. Closed'
  BY <1>2, <1>3, <1>4 DEF Closed
<1> QED  BY <1>5, <1>6, <1>7, <1>8, <1>9, <1>10, <1>11, <1>12

(* The "open" request is sent. *)
LEMMA DelaySessionKeeps == ProxyInv /\ DelaySession => ProxyInv'
<1> SUFFICES ASSUME ProxyInv, DelaySession PROVE ProxyInv'
  OBVIOUS
<1> USE DEF ProxyInv
<1>1. /\ s' \in Sockets /\ s'.queue = s.queue /\ s'.ready = s.ready /\ s'.session = s.session
      /\ s'.inflight = s.inflight /\ s'.opens = s.opens + 1 /\ s'.failed = s.failed
  BY DEF Types, Sockets, DelaySession
<1>2. /\ open = "delayed" /\ open' = "sent" /\ writes' = writes /\ closing' = closing
      /\ srv' = srv /\ page' = page /\ faults' = faults
      /\ Outstanding' = Outstanding /\ Carried("up")' = Carried("up")
      /\ Carried("down")' = Carried("down")
  BY DEF DelaySession, Outstanding, Carried
<1>3. Messages'
  BY <1>1, <1>2, MessagesStay
<1>4. Types'
  BY <1>1, <1>2 DEF Types
<1>5. Counting'
  BY <1>1, <1>2 DEF Counting
<1>6. Opens'
  BY <1>1, <1>2 DEF Opens
<1>7. SlotsClean'
  BY <1>2 DEF SlotsClean
<1>8. Opening'
  BY <1>1, <1>2 DEF Opening
<1>9. Kept'
  BY <1>1, <1>2 DEF Kept, UpThere, DownThere, Opening
<1>10. Closed'
  BY <1>1, <1>2 DEF Closed, Opening
<1> QED  BY <1>3, <1>4, <1>5, <1>6, <1>7, <1>8, <1>9, <1>10

(* doSend() has too many requests in flight. *)
LEMMA BackedUpKeeps == ProxyInv /\ BackedUp => ProxyInv'
<1> SUFFICES ASSUME ProxyInv, BackedUp PROVE ProxyInv'
  OBVIOUS
<1> USE DEF ProxyInv
<1>1. /\ open' = open /\ writes' = writes /\ closing' = closing
      /\ srv' = srv /\ page' = page /\ faults' = faults /\ s.ready = 1
      /\ Outstanding' = Outstanding /\ Carried("up")' = Carried("up")
      /\ Carried("down")' = Carried("down")
  BY DEF BackedUp, Outstanding, Carried
<1>2. /\ s' \in Sockets /\ s'.queue = s.queue
      /\ \/ /\ s'.ready = s.ready /\ s'.session = s.session /\ s'.inflight = s.inflight
            /\ s'.opens = s.opens /\ s'.failed = s.failed
         \/ /\ s'.ready = 3 /\ ~s'.session /\ s'.inflight = 0 /\ s'.opens = 0 /\ s'.failed
  <2>1. CASE s.level < MaxLevel
    <3>1. s' = [s EXCEPT !.level = Throttle(@)] /\ Throttle(s.level) \in 0..MaxLevel
      BY <2>1, ThrottleType DEF BackedUp, Types, Sockets
    <3> QED  BY <3>1 DEF Types, Sockets
  <2>2. CASE ~(s.level < MaxLevel)
    <3>1. s' = SignalErrorClose(s)
      BY <2>2 DEF BackedUp
    <3> QED  BY <3>1, ErrorCloseEffect DEF Types
  <2> QED  BY <2>1, <2>2
<1>3. Messages'
  BY <1>1, <1>2, MessagesStay
<1>4. Types'
  BY <1>1, <1>2 DEF Types
<1>5. Counting'
  BY <1>1, <1>2, OutstandingFinite, ProxyAssumption DEF Counting
<1>6. Opens'
  BY <1>1, <1>2 DEF Opens, Opening
<1>7. SlotsClean'
  BY <1>1 DEF SlotsClean
<1>8. Opening'
  BY <1>1, <1>2 DEF Opening
<1>9. Kept'
  BY <1>1, <1>2 DEF Kept, UpThere, DownThere
<1>10. Closed'
  BY <1>1, <1>2 DEF Closed
<1> QED  BY <1>3, <1>4, <1>5, <1>6, <1>7, <1>8, <1>9, <1>10

(* close() by the page. *)
LEMMA CloseKeeps == ProxyInv /\ Close => ProxyInv'
<1> SUFFICES ASSUME ProxyInv, Close PROVE ProxyInv'
  OBVIOUS
<1> USE DEF ProxyInv
<1>1. /\ writes' = writes /\ srv' = srv /\ faults' = faults /\ closing' = (s.ready = 1)
      /\ Outstanding' = Outstanding /\ Carried("up")' = Carried("up")
      /\ Carried("down")' = Carried("down")
  BY DEF Close, Outstanding, Carried
<1>2. /\ s' \in Sockets /\ s'.queue = s.queue /\ s'.ready = 3 /\ ~s'.session
      /\ s'.inflight = s.inflight /\ s'.opens = s.opens /\ s'.failed = s.failed
  BY DEF Types, Sockets, Close
<1>3. /\ page' \in Pages /\ page'.sent = page.sent /\ page'.detached /\ page'.got = page.got
      /\ page'.crowded = page.crowded /\ page'.lost = page.lost /\ page'.revived = page.revived
      /\ ~page.detached
  BY DEF Types, Pages, Close
<1>4. open' = open \/ (open = "delayed" /\ open' = "none")
  BY DEF Close
<1>5. Messages'
  BY <1>1, <1>2, <1>3, MessagesStay
<1>6. Types'
  BY <1>1, <1>2, <1>3, <1>4 DEF Types
<1>7. Counting'
  BY <1>1, <1>2, OutstandingFinite, ProxyAssumption DEF Counting
<1>8. Opens'
  BY <1>2, <1>4 DEF Opens
<1>9. SlotsClean'
  BY <1>1 DEF SlotsClean
<1>10. Opening'
  BY <1>1, <1>2, <1>3, <1>4 DEF Opening
<1>11. Kept'
  BY <1>2, <1>3 DEF Kept
<1>12. Closed'
  BY <1>1, <1>2, <1>3, <1>4 DEF Closed, Opening, Types, Sockets
<1> QED  BY <1>5, <1>6, <1>7, <1>8, <1>9, <1>10, <1>11, <1>12

(* The answer to "open". *)
LEMMA OpenLoadKeeps == ProxyInv /\ OpenLoad => ProxyInv'
<1> SUFFICES ASSUME ProxyInv, OpenLoad PROVE ProxyInv'
  OBVIOUS
<1> USE DEF ProxyInv
<1> DEFINE opened == [s EXCEPT !.session = TRUE, !.ready = 1]
           sends == open = "granted" /\ ~page.detached /\ page.sent < MaxUp
           x == IF open = "refused" THEN SignalErrorClose(s)
                ELSE IF sends THEN SendMsg(opened, page.sent + 1) ELSE opened
<1>1. /\ open \in {"granted", "refused"} /\ open' = "none" /\ writes' = writes /\ closing' = closing
      /\ srv' = srv /\ faults' = faults
      /\ Outstanding' = Outstanding /\ Carried("up")' = Carried("up")
      /\ Carried("down")' = Carried("down")
  BY DEF OpenLoad, Outstanding, Carried
<1>2. /\ s.ready # 1 /\ s.inflight = 0 /\ Outstanding = {} /\ page.sent = 0 /\ s.opens = 1
      /\ s.queue = <<>>
  BY <1>1 DEF Opening, Opens
<1>3. /\ s' = [x EXCEPT !.opens = @ - 1]
      /\ page' = [page EXCEPT !.sent = IF sends THEN @ + 1 ELSE @,
                              !.revived = @ \/ (open = "granted" /\ s.ready = 3)]
  BY DEF OpenLoad
<1>4. /\ opened \in Sockets /\ opened.ready = 1 /\ opened.session /\ opened.inflight = s.inflight
      /\ opened.opens = s.opens /\ opened.failed = s.failed /\ opened.queue = s.queue
  BY DEF Types, Sockets
<1>5. CASE open = "refused"
  <2>1. /\ x = SignalErrorClose(s) /\ ~sends
    BY <1>5
  <2>2. /\ s' \in Sockets /\ s'.ready = 3 /\ ~s'.session /\ s'.inflight = 0 /\ s'.opens = -1
        /\ s'.failed /\ s'.queue = s.queue
    <3>1. /\ x \in Sockets /\ x.ready = 3 /\ ~x.session /\ x.inflight = 0 /\ x.opens = 0
          /\ x.failed /\ x.queue = s.queue
      BY <2>1, ErrorCloseEffect DEF Types
    <3> HIDE DEF x
    <3> QED  BY <1>3, <3>1 DEF Sockets
  <2>3. /\ page' \in Pages /\ page'.sent = page.sent /\ page'.detached = page.detached
        /\ page'.got = page.got /\ page'.crowded = page.crowded /\ page'.lost = page.lost
        /\ page'.revived = page.revived
    BY <1>3, <1>5, <2>1 DEF Types, Pages
  <2> HIDE DEF opened, sends, x
  <2>4. Messages'
    BY <1>1, <2>2, <2>3, MessagesStay
  <2>5. Types'
    BY <1>1, <2>2, <2>3 DEF Types
  <2>6. Counting'
    BY <1>1, <2>2, OutstandingFinite, ProxyAssumption DEF Counting
  <2>7. Opens' /\ SlotsClean'
    BY <1>1, <2>2 DEF Opens, SlotsClean
  <2>8. Opening'
    BY <1>1, <1>2, <2>2, <2>3 DEF Opening
  <2>9. Kept' /\ Closed'
    BY <1>1, <2>2 DEF Kept, Closed
  <2> QED  BY <2>4, <2>5, <2>6, <2>7, <2>8, <2>9
<1>6. CASE open = "granted" /\ ~sends
  <2>1. x = opened
    BY <1>6
  <2>2. /\ s' \in Sockets /\ s'.ready = 1 /\ s'.session /\ s'.inflight = 0 /\ s'.opens = 0
        /\ s'.failed = s.failed /\ s'.queue = s.queue
    <3> HIDE DEF opened
    <3> QED  BY <1>2, <1>3, <1>4, <2>1 DEF Sockets
  <2>3. /\ page' \in Pages /\ page'.sent = page.sent /\ page'.detached = page.detached
        /\ page'.got = page.got /\ page'.crowded = page.crowded /\ page'.lost = page.lost
        /\ page'.revived = (page.revived \/ s.ready = 3)
    BY <1>3, <1>6 DEF Types, Pages
  <2> HIDE DEF opened, sends, x
  <2>4. Messages'
    BY <1>1, <2>2, <2>3, MessagesStay
  <2>5. Types'
    BY <1>1, <2>2, <2>3 DEF Types
  <2>6. Counting'
    BY <1>1, <1>2, <2>2, FS_EmptySet, ProxyAssumption DEF Counting
  <2>7. Opens' /\ SlotsClean'
    BY <1>1, <2>2 DEF Opens, SlotsClean
  <2>8. Opening'
    BY <1>1, <1>2, <2>2, <2>3 DEF Opening
  <2>9. Kept'
    BY <1>1, <1>2, <1>6, <2>2, <2>3 DEF Kept, DownThere
  <2>10. Closed'
    BY <1>1, <1>2, <1>6, <2>2, <2>3 DEF Closed, Opening, Types, Sockets
  <2> QED  BY <2>4, <2>5, <2>6, <2>7, <2>8, <2>9, <2>10
<1>7. CASE open = "granted" /\ sends
  <2>1. PICK m \in Ups : m = page.sent + 1
    BY <1>7, ProxyAssumption DEF Types, Pages, Ups
  <2>2. x = SendMsg(opened, m)
    BY <1>7, <2>1
  <2>3. /\ s' \in Sockets /\ s'.ready = 1 /\ s'.session /\ s'.inflight = 0 /\ s'.opens = 0
        /\ s'.failed = s.failed /\ s'.queue = Append(s.queue, m)
    <3> HIDE DEF opened
    <3>1. /\ x \in Sockets /\ x.queue = Append(s.queue, m) /\ x.ready = 1 /\ x.session
          /\ x.inflight = 0 /\ x.opens = 1 /\ x.failed = s.failed
      BY <1>2, <1>4, <2>2, SendMsgEffect
    <3> HIDE DEF x
    <3> QED  BY <1>3, <3>1 DEF Sockets
  <2>4. /\ page' \in Pages /\ page'.sent = m /\ page'.detached = page.detached
        /\ page'.got = page.got /\ page'.crowded = page.crowded /\ page'.lost = page.lost
        /\ page'.revived = (page.revived \/ s.ready = 3) /\ ~page.detached
    <3>1. m \in 0..MaxUp
      BY <2>1 DEF Ups
    <3>2. page' = [page EXCEPT !.sent = m, !.revived = @ \/ s.ready = 3] /\ ~page.detached
      BY <1>3, <1>7, <2>1
    <3> QED  BY <3>1, <3>2 DEF Types, Pages
  <2> HIDE DEF opened, sends, x
  <2>5. Messages' /\ Range(s'.queue) = Range(s.queue) \cup {m} /\ 1..m = 1..page.sent \cup {m}
    BY <1>1, <2>1, <2>3, <2>4, MessageOfPage
  <2>6. Types'
    BY <1>1, <2>3, <2>4 DEF Types
  <2>7. Counting'
    BY <1>1, <1>2, <2>3, FS_EmptySet, ProxyAssumption DEF Counting
  <2>8. Opens' /\ SlotsClean'
    BY <1>1, <2>3 DEF Opens, SlotsClean
  <2>9. Opening'
    BY <1>1, <1>2, <2>3, <2>4 DEF Opening
  <2>10. Kept'
    <3>1. 1..page.sent = {}
      BY <1>2
    <3> QED  BY <1>1, <1>7, <2>3, <2>4, <2>5, <3>1 DEF Kept, UpThere, DownThere
  <2>11. Closed'
    BY <2>4 DEF Closed
  <2> QED  BY <2>5, <2>6, <2>7, <2>8, <2>9, <2>10, <2>11
<1> QED  BY <1>1, <1>5, <1>6, <1>7

(* doSend() sends a request. *)
LEMMA PollKeeps == ASSUME NEW i \in Slots PROVE ProxyInv /\ Poll(i) => ProxyInv'
<1> SUFFICES ASSUME ProxyInv, Poll(i) PROVE ProxyInv'
  OBVIOUS
<1> USE DEF ProxyInv
<1> DEFINE w == [Free EXCEPT !.st = "sent", !.up = s.queue]
<1>1. /\ s' \in Sockets /\ s'.queue = <<>> /\ s'.ready = 1 /\ s.ready = 1 /\ s'.session = s.session
      /\ s'.inflight = s.inflight + 1 /\ s'.opens = s.opens /\ s'.failed = s.failed
      /\ s.inflight < MaxInflight
  <2>1. <<>> \in Seq(Ups) /\ s.inflight + 1 \in Int
    BY EmptySeq DEF Types, Sockets
  <2>2. ASSUME NEW q \in Seq(Ups), NEW k \in Int
        PROVE  [s EXCEPT !.queue = q, !.inflight = k] \in Sockets
    BY DEF Types, Sockets
  <2>3. s' = [s EXCEPT !.queue = <<>>, !.inflight = s.inflight + 1]
    BY DEF Poll
  <2>4. s' \in Sockets
    BY <2>1, <2>2, <2>3
  <2> QED  BY <2>3, <2>4 DEF Types, Sockets, Poll
<1>2. /\ open' = open /\ closing' = closing /\ srv' = srv /\ faults' = faults
      /\ writes[i].st = "free" /\ writes' = [writes EXCEPT ![i] = w]
  BY DEF Poll
<1>3. /\ page' \in Pages /\ page'.sent = page.sent /\ page'.detached = page.detached
      /\ page'.got = page.got /\ page'.crowded = (page.crowded \/ Outstanding # {})
      /\ page'.lost = page.lost /\ page'.revived = page.revived
  BY DEF Types, Pages, Poll
<1>4. w \in Requests /\ w.st = "sent" /\ w.up = s.queue /\ w.down = <<>>
  BY EmptySeq DEF Free, Types, Sockets, Requests
<1> HIDE DEF w
<1>5. Cardinality(Outstanding') = Cardinality(Outstanding) + 1 /\ Outstanding' # {}
  BY <1>2, <1>4, SlotTaken
<1>6. writes'[i] = w /\ (\A j \in Slots \ {i} : writes'[j] = writes[j]) /\ writes' \in [Slots -> Requests]
  BY <1>2, <1>4 DEF Types
<1>7. Messages'
  BY <1>1, <1>2, <1>3, <1>4, RequestSent
<1>8. Types'
  BY <1>1, <1>2, <1>3, <1>6 DEF Types
<1>9. Counting'
  <2>1. Cardinality(Outstanding) \in Nat
    BY OutstandingFinite
  <2> QED  BY <1>1, <1>5, <2>1, ProxyAssumption DEF Counting, Types, Sockets
<1>10. Opens'
  BY <1>1, <1>2 DEF Opens
<1>11. SlotsClean'
  BY <1>4, <1>6 DEF SlotsClean
<1>12. Opening'
  BY <1>1, <1>2, <1>3 DEF Opening
<1>13. Kept'
  <2>1. writes[i].up = <<>> /\ writes[i].down = <<>> /\ Range(<<>>) = {}
    BY <1>2, EmptyRange DEF SlotsClean
  <2>2. Carried("up")' = Carried("up") \cup Range(s.queue)
    BY <1>4, <1>6, <2>1 DEF Carried
  <2>3. Carried("down")' = Carried("down")
    BY <1>4, <1>6, <2>1 DEF Carried
  <2> QED  BY <1>1, <1>2, <1>3, <2>1, <2>2, <2>3 DEF Kept, UpThere, DownThere
<1>14. Closed'
  BY <1>1, <1>2, <1>3 DEF Closed
<1> QED  BY <1>7, <1>8, <1>9, <1>10, <1>11, <1>12, <1>13, <1>14

(* The answer to a "write" request. *)
LEMMA WriteLoadKeeps == ASSUME NEW i \in Slots PROVE ProxyInv /\ WriteLoad(i) => ProxyInv'
<1> SUFFICES ASSUME ProxyInv, WriteLoad(i) PROVE ProxyInv'
  OBVIOUS
<1> USE DEF ProxyInv
<1>1. /\ open' = open /\ closing' = closing /\ srv' = srv /\ faults' = faults
      /\ writes' = [writes EXCEPT ![i] = Free] /\ writes[i].st \in {"answered", "refused"}
      /\ writes[i].st # "free"
  BY DEF WriteLoad
<1>2. /\ s' \in Sockets /\ s'.queue = s.queue
      /\ \/ /\ writes[i].st = "answered" /\ s'.ready = s.ready /\ s'.session = s.session
            /\ s'.inflight = s.inflight - 1 /\ s'.opens = s.opens /\ s'.failed = s.failed
         \/ /\ s'.ready = 3 /\ ~s'.session /\ s'.inflight = -1 /\ s'.opens = 0 /\ s'.failed
  <2>1. CASE writes[i].st = "refused"
    <3>1. s' = LoadEnd(SignalErrorClose(s))
      BY <2>1 DEF WriteLoad
    <3>2. /\ SignalErrorClose(s) \in Sockets /\ SignalErrorClose(s).ready = 3
          /\ SignalErrorClose(s).session = FALSE /\ SignalErrorClose(s).inflight = 0
          /\ SignalErrorClose(s).opens = 0 /\ SignalErrorClose(s).failed = TRUE
          /\ SignalErrorClose(s).queue = s.queue
      BY ErrorCloseEffect DEF Types
    <3> QED  BY <3>1, <3>2, LoadEndEffect
  <2>2. CASE writes[i].st # "refused"
    <3>1. \E l \in 0..MaxLevel : s' = LoadEnd([s EXCEPT !.level = l]) \/ s' = LoadEnd(s)
      <4>1. 0 \in 0..MaxLevel /\ s.level \in 0..MaxLevel /\ Throttle(s.level) \in 0..MaxLevel
        BY ThrottleType, ProxyAssumption DEF Types, Sockets
      <4> QED  BY <2>2, <4>1 DEF WriteLoad
    <3>2. PICK l \in 0..MaxLevel : s' = LoadEnd([s EXCEPT !.level = l]) \/ s' = LoadEnd(s)
      BY <3>1
    <3>3. [s EXCEPT !.level = l] \in Sockets
      BY DEF Types, Sockets
    <3>4. s' \in Sockets /\ s'.queue = s.queue /\ s'.ready = s.ready /\ s'.session = s.session
          /\ s'.inflight = s.inflight - 1 /\ s'.opens = s.opens /\ s'.failed = s.failed
      BY <3>2, <3>3, LoadEndEffect DEF Types, Sockets
    <3> QED  BY <1>1, <2>2, <3>4
  <2> QED  BY <2>1, <2>2
<1>3. /\ page' \in Pages /\ page'.sent = page.sent /\ page'.detached = page.detached
      /\ page'.crowded = page.crowded /\ page'.lost = page.lost /\ page'.revived = page.revived
      /\ page'.got = IF page.detached THEN page.got ELSE page.got \o writes[i].down
  <2>1. page.got \o writes[i].down \in Seq(Downs)
    <3>1. page.got \in Seq(Downs) /\ writes[i].down \in Seq(Downs)
      BY DEF Types, Pages, Requests
    <3> QED  BY <3>1, ConcatProperties
  <2>2. page' = IF page.detached THEN page ELSE [page EXCEPT !.got = page.got \o writes[i].down]
    BY DEF WriteLoad
  <2> QED  BY <2>1, <2>2 DEF Types, Pages
<1>4. Cardinality(Outstanding') = Cardinality(Outstanding) - 1 /\ Outstanding # {}
  BY <1>1, SlotFreed
<1>5. /\ writes'[i] = Free /\ (\A j \in Slots \ {i} : writes'[j] = writes[j])
      /\ writes' \in [Slots -> Requests]
      /\ Free.st = "free" /\ Free.up = <<>> /\ Free.down = <<>>
  BY <1>1, EmptySeq DEF Types, Free, Requests
<1>6. Messages'
  BY <1>1, <1>2, <1>3, RequestEnded
<1>7. Types'
  BY <1>1, <1>2, <1>3, <1>5 DEF Types
<1>8. open = "none" /\ s.ready # 0
  BY <1>4 DEF Opening
<1>9. Counting'
  <2>1. Cardinality(Outstanding) \in 0..MaxInflight
    BY OutstandingFinite
  <2>2. s.inflight \in Int /\ MaxInflight \in Nat
    BY ProxyAssumption DEF Types, Sockets
  <2>3. CASE s'.ready = s.ready /\ s'.inflight = s.inflight - 1
    BY <1>4, <2>1, <2>2, <2>3 DEF Counting
  <2>4. CASE s'.ready = 3 /\ s'.inflight = -1
    BY <1>4, <2>1, <2>2, <2>4 DEF Counting
  <2> QED  BY <1>2, <2>3, <2>4
<1>10. Opens'
  BY <1>1, <1>2, <1>8 DEF Opens
<1>11. SlotsClean'
  BY <1>5 DEF SlotsClean
<1>12. Opening'
  BY <1>1, <1>2, <1>3, <1>8 DEF Opening
<1>13. Kept'
  <2>1. CASE s'.ready = 3
    BY <1>1, <1>8, <2>1 DEF Kept
  <2>2. CASE writes[i].st = "answered"
    <3>1. Range(writes[i].up) \subseteq Range(srv.got)
      BY <2>2 DEF Messages, UpOnce
    <3>2. Carried("up") \subseteq Carried("up")' \cup Range(writes[i].up)
      BY <1>5 DEF Carried
    <3>3. Carried("down") \subseteq Carried("down")' \cup Range(writes[i].down)
      BY <1>5 DEF Carried
    <3>4. Range(page.got \o writes[i].down) = Range(page.got) \cup Range(writes[i].down)
      <4>1. page.got \in Seq(Downs) /\ writes[i].down \in Seq(Downs)
        BY DEF Types, Pages, Requests
      <4> QED  BY <4>1, RangeConcatenation
    <3>5. s'.ready = 1 => s.ready = 1
      BY <1>2
    <3>6. s'.ready = 1 /\ ~page'.lost => 1..page'.sent \subseteq UpThere'
      BY <1>1, <1>2, <1>3, <3>1, <3>2, <3>5 DEF Kept, UpThere
    <3>7. s'.ready = 1 /\ ~page'.lost /\ srv'.st = "open" /\ ~page'.detached =>
              1..srv'.sent \subseteq DownThere'
      BY <1>1, <1>3, <3>3, <3>4, <3>5 DEF Kept, DownThere
    <3> QED  BY <1>1, <1>8, <3>6, <3>7 DEF Kept
  <2> QED  BY <1>2, <2>1, <2>2
<1>14. Closed'
  BY <1>1, <1>2, <1>3 DEF Closed
<1> QED  BY <1>6, <1>7, <1>9, <1>10, <1>11, <1>12, <1>13, <1>14

(* A "write" request fails. *)
LEMMA XhrErrorKeeps == ASSUME NEW i \in Slots PROVE ProxyInv /\ XhrError(i) => ProxyInv'
<1> SUFFICES ASSUME ProxyInv, XhrError(i) PROVE ProxyInv'
  OBVIOUS
<1> USE DEF ProxyInv
<1>1. /\ open' = open /\ closing' = closing /\ srv' = srv /\ faults' \in 0..MaxFaults
      /\ writes' = [writes EXCEPT ![i] = Free] /\ writes[i].st # "free"
  BY ProxyAssumption DEF XhrError, Types
<1>2. /\ s' \in Sockets /\ s'.queue = s.queue /\ s'.ready = s.ready /\ s'.session = s.session
      /\ s'.inflight = s.inflight - 1 /\ s'.opens = s.opens /\ s'.failed = s.failed
  BY LoadEndEffect DEF XhrError, Types
<1>3. /\ page' \in Pages /\ page'.sent = page.sent /\ page'.detached = page.detached
      /\ page'.crowded = page.crowded /\ page'.lost /\ page'.revived = page.revived
      /\ page'.got = page.got
  BY DEF XhrError, Types, Pages
<1>4. Cardinality(Outstanding') = Cardinality(Outstanding) - 1 /\ Outstanding # {}
  BY <1>1, SlotFreed
<1>5. /\ writes'[i] = Free /\ (\A j \in Slots \ {i} : writes'[j] = writes[j])
      /\ writes' \in [Slots -> Requests]
      /\ Free.st = "free" /\ Free.up = <<>> /\ Free.down = <<>>
  BY <1>1, EmptySeq DEF Types, Free, Requests
<1>6. Messages'
  BY <1>1, <1>2, <1>3, RequestEnded
<1>7. Types'
  BY <1>1, <1>2, <1>3, <1>5 DEF Types
<1>8. open = "none" /\ s.ready # 0
  BY <1>4 DEF Opening
<1>9. Counting'
  <2>1. Cardinality(Outstanding) \in 0..MaxInflight
    BY OutstandingFinite
  <2> QED  BY <1>2, <1>4, <2>1, ProxyAssumption DEF Counting, Types, Sockets
<1>10. Opens'
  BY <1>1, <1>2, <1>8 DEF Opens
<1>11. SlotsClean'
  BY <1>5 DEF SlotsClean
<1>12. Opening'
  BY <1>1, <1>2, <1>3, <1>8 DEF Opening
<1>13. Kept' /\ Closed'
  BY <1>3 DEF Kept, Closed
<1> QED  BY <1>6, <1>7, <1>9, <1>10, <1>11, <1>12, <1>13

(* The "open" request fails. *)
LEMMA OpenErrorKeeps == ProxyInv /\ OpenError => ProxyInv'
<1> SUFFICES ASSUME ProxyInv, OpenError PROVE ProxyInv'
  OBVIOUS
<1> USE DEF ProxyInv
<1>1. /\ open \in {"sent", "granted", "refused"} /\ open' = "none" /\ writes' = writes
      /\ closing' = closing /\ srv' = srv /\ faults' \in 0..MaxFaults
      /\ Outstanding' = Outstanding
  BY ProxyAssumption DEF OpenError, Types, Outstanding
<1>2. /\ s' \in Sockets /\ s'.queue = s.queue /\ s'.ready = s.ready /\ s'.session = s.session
      /\ s'.inflight = s.inflight /\ s'.opens = s.opens - 1 /\ s'.failed = s.failed
  <2>1. s' = [s EXCEPT !.opens = s.opens - 1]
    BY DEF OpenError
  <2>2. s \in Sockets
    BY DEF Types
  <2>3. ASSUME NEW n \in Int
        PROVE  [s EXCEPT !.opens = n] \in Sockets
    BY <2>2 DEF Sockets
  <2>4. s.opens - 1 \in Int
    BY <2>2 DEF Sockets
  <2>5. s' \in Sockets
    BY <2>1, <2>3, <2>4
  <2> QED  BY <2>1, <2>2, <2>5 DEF Sockets
<1>3. /\ page' \in Pages /\ page'.sent = page.sent /\ page'.detached = page.detached
      /\ page'.crowded = page.crowded /\ page'.lost /\ page'.revived = page.revived
      /\ page'.got = page.got
  BY DEF OpenError, Types, Pages
<1>4. Messages'
  BY <1>1, <1>2, <1>3, MessagesStay
<1>5. Types'
  BY <1>1, <1>2, <1>3 DEF Types
<1>6. Counting'
  BY <1>1, <1>2 DEF Counting
<1>7. Opens'
  BY <1>1, <1>2 DEF Opens
<1>8. SlotsClean'
  BY <1>1 DEF SlotsClean
<1>9. Opening'
  BY <1>1, <1>2, <1>3 DEF Opening
<1>10. Kept' /\ Closed'
  BY <1>3 DEF Kept, Closed
<1> QED  BY <1>4, <1>5, <1>6, <1>7, <1>8, <1>9, <1>10

(* The "close" request fails. *)
LEMMA CloseErrorKeeps == ProxyInv /\ CloseError => ProxyInv'
<1> SUFFICES ASSUME ProxyInv, CloseError PROVE ProxyInv'
  OBVIOUS
<1> USE DEF ProxyInv
<1>1. /\ open' = open /\ writes' = writes /\ closing' = FALSE /\ srv' = srv /\ s' = s
      /\ faults' \in 0..MaxFaults /\ Outstanding' = Outstanding
  BY ProxyAssumption DEF CloseError, Types, Outstanding
<1>2. /\ page' \in Pages /\ page'.sent = page.sent /\ page'.detached = page.detached
      /\ page'.crowded = page.crowded /\ page'.lost /\ page'.revived = page.revived
      /\ page'.got = page.got
  BY DEF CloseError, Types, Pages
<1>3. Messages'
  BY <1>1, <1>2, MessagesStay
<1>4. Types' /\ Counting' /\ Opens' /\ SlotsClean'
  BY <1>1, <1>2 DEF Types, Counting, Opens, SlotsClean
<1>5. Opening'
  BY <1>1, <1>2 DEF Opening
<1>6. Kept' /\ Closed'
  BY <1>2 DEF Kept, Closed
<1> QED  BY <1>3, <1>4, <1>5, <1>6
-----------------------------------------------------------------------------
(* The actions of wsd. *)

(* "open" at wsd. *)
LEMMA HandleOpenKeeps == ProxyInv /\ HandleOpen => ProxyInv'
<1> SUFFICES ASSUME ProxyInv, HandleOpen PROVE ProxyInv'
  OBVIOUS
<1> USE DEF ProxyInv
<1>1. /\ open = "sent" /\ writes' = writes /\ closing' = closing /\ s' = s /\ page' = page
      /\ faults' \in 0..MaxFaults /\ Outstanding' = Outstanding
      /\ Carried("down")' = Carried("down")
  BY ProxyAssumption DEF HandleOpen, Types, Outstanding, Carried
<1>2. /\ srv' \in Servers /\ srv'.got = srv.got /\ srv'.queue = srv.queue /\ srv'.sent = srv.sent
      /\ \/ open' = "granted" /\ srv'.st = "open"
         \/ open' = "refused" /\ srv'.st = srv.st
  BY DEF HandleOpen, Types, Servers
<1>3. Messages'
  BY <1>1, <1>2, MessagesStay
<1>4. Types' /\ Counting' /\ Opens' /\ SlotsClean'
  BY <1>1, <1>2 DEF Types, Counting, Opens, SlotsClean
<1>5. srv.st = "none" /\ srv.sent = 0 /\ s.ready # 1
  BY <1>1 DEF Opening
<1>6. Opening'
  BY <1>1, <1>2, <1>5 DEF Opening
<1>7. Kept'
  <2>1. 1..srv'.sent = {}
    BY <1>2, <1>5
  <2> QED  BY <1>1, <1>5, <2>1 DEF Kept
<1>8. Closed'
  BY <1>1, <1>2, <1>5 DEF Closed
<1> QED  BY <1>3, <1>4, <1>6, <1>7, <1>8

(* "write" at wsd, in a session. *)
LEMMA HandleWriteKeeps == ASSUME NEW i \in Slots PROVE ProxyInv /\ HandleWrite(i) => ProxyInv'
<1> SUFFICES ASSUME ProxyInv, HandleWrite(i) PROVE ProxyInv'
  OBVIOUS
<1> USE DEF ProxyInv
<1> DEFINE w == [writes[i] EXCEPT !.st = "answered", !.down = srv.queue]
<1>1. /\ open' = open /\ closing' = closing /\ s' = s /\ page' = page /\ faults' = faults
      /\ writes[i].st = "sent" /\ Serving /\ writes' = [writes EXCEPT ![i] = w]
  BY DEF HandleWrite, Types, Requests
<1>2. w \in Requests /\ w.st = "answered" /\ w.up = writes[i].up /\ w.down = srv.queue
  BY DEF Types, Requests, Servers
<1> HIDE DEF w
<1>3. /\ srv' \in Servers /\ srv'.st = srv.st /\ srv'.got = srv.got \o writes[i].up
      /\ srv'.queue = <<>> /\ srv'.sent = srv.sent
  <2>1. srv.got \o writes[i].up \in Seq(Ups) /\ <<>> \in Seq(Downs)
    <3>1. srv.got \in Seq(Ups) /\ writes[i].up \in Seq(Ups)
      BY DEF Types, Servers, Requests
    <3> QED  BY <3>1, ConcatProperties, EmptySeq
  <2>2. ASSUME NEW g \in Seq(Ups), NEW q \in Seq(Downs)
        PROVE  [srv EXCEPT !.got = g, !.queue = q] \in Servers
    BY DEF Types, Servers
  <2>3. srv' = [srv EXCEPT !.got = srv.got \o writes[i].up, !.queue = <<>>]
    BY DEF HandleWrite
  <2>4. srv' \in Servers
    BY <2>1, <2>2, <2>3
  <2> QED  BY <2>3, <2>4 DEF Types, Servers
<1>4. writes'[i] = w /\ (\A j \in Slots \ {i} : writes'[j] = writes[j]) /\ writes' \in [Slots -> Requests]
  BY <1>1, <1>2 DEF Types
<1>5. Outstanding' = Outstanding
  BY <1>1, <1>2, SlotKept
<1>6. Messages' /\ Range(srv'.got) = Range(srv.got) \cup Range(writes[i].up)
  BY <1>1, <1>2, <1>3, RequestHandled
<1>7. Types' /\ Counting' /\ Opens' /\ SlotsClean'
  BY <1>1, <1>2, <1>3, <1>4, <1>5 DEF Types, Counting, Opens, SlotsClean
<1>8. i \in Outstanding /\ Outstanding # {}
  BY <1>1 DEF Outstanding
<1>9. Opening'
  BY <1>1, <1>3, <1>5, <1>8 DEF Opening
<1>10. Kept'
  <2>1. Carried("up")' = Carried("up")
    BY <1>2, <1>4 DEF Carried
  <2>2. writes[i].down = <<>> /\ Range(<<>>) = {}
    BY <1>1, EmptyRange DEF SlotsClean
  <2>3. Carried("down")' = Carried("down") \cup Range(srv.queue)
    BY <1>2, <1>4, <2>2 DEF Carried
  <2> QED  BY <1>1, <1>3, <1>6, <2>1, <2>2, <2>3 DEF Kept, UpThere, DownThere
<1>11. Closed'
  BY <1>1, <1>3 DEF Closed
<1> QED  BY <1>6, <1>7, <1>9, <1>10, <1>11

(* "write" at wsd, without a session. *)
LEMMA RefuseWriteKeeps == ASSUME NEW i \in Slots PROVE ProxyInv /\ RefuseWrite(i) => ProxyInv'
<1> SUFFICES ASSUME ProxyInv, RefuseWrite(i) PROVE ProxyInv'
  OBVIOUS
<1> USE DEF ProxyInv
<1> DEFINE w == [writes[i] EXCEPT !.st = "refused"]
<1>1. /\ open' = open /\ closing' = closing /\ s' = s /\ page' = page /\ faults' = faults
      /\ srv' = srv /\ writes[i].st = "sent" /\ writes' = [writes EXCEPT ![i] = w]
  BY DEF RefuseWrite, Types, Requests
<1>2. w \in Requests /\ w.st = "refused" /\ w.up = writes[i].up /\ w.down = writes[i].down
  BY DEF Types, Requests
<1> HIDE DEF w
<1>3. writes'[i] = w /\ (\A j \in Slots \ {i} : writes'[j] = writes[j]) /\ writes' \in [Slots -> Requests]
  BY <1>1, <1>2 DEF Types
<1>4. Outstanding' = Outstanding
  BY <1>1, <1>2, SlotKept
<1>5. Messages'
  BY <1>1, <1>2, RequestRefused
<1>6. Types' /\ Counting' /\ Opens' /\ SlotsClean'
  BY <1>1, <1>2, <1>3, <1>4 DEF Types, Counting, Opens, SlotsClean
<1>7. Opening'
  BY <1>1, <1>4 DEF Opening
<1>8. Carried("up")' = Carried("up") /\ Carried("down")' = Carried("down")
  BY <1>2, <1>3 DEF Carried
<1>9. Kept' /\ Closed'
  BY <1>1, <1>8 DEF Kept, UpThere, DownThere, Closed
<1> QED  BY <1>5, <1>6, <1>7, <1>9

(* sendMessage() at wsd. *)
LEMMA SendMessageKeeps == ProxyInv /\ SendMessage => ProxyInv'
<1> SUFFICES ASSUME ProxyInv, SendMessage PROVE ProxyInv'
  OBVIOUS
<1> USE DEF ProxyInv
<1>1. /\ open' = open /\ writes' = writes /\ closing' = closing /\ s' = s /\ page' = page
      /\ faults' = faults /\ Outstanding' = Outstanding /\ Carried("up")' = Carried("up")
      /\ Carried("down")' = Carried("down")
  BY DEF SendMessage, Outstanding, Carried
<1>2. PICK m \in Downs : m = srv.sent + 1
  BY ProxyAssumption DEF Types, Servers, SendMessage, Downs
<1>3. /\ srv' \in Servers /\ srv'.st = srv.st /\ Serving /\ srv'.got = srv.got
      /\ srv'.queue = Append(srv.queue, m) /\ srv'.sent = m
  <2>1. Append(srv.queue, m) \in Seq(Downs)
    BY AppendProperties DEF Types, Servers
  <2>2. m \in 0..MaxDown
    BY DEF Downs
  <2>3. ASSUME NEW q \in Seq(Downs), NEW k \in 0..MaxDown
        PROVE  [srv EXCEPT !.queue = q, !.sent = k] \in Servers
    BY DEF Types, Servers
  <2>4. srv' = [srv EXCEPT !.queue = Append(srv.queue, m), !.sent = m]
    BY <1>2 DEF SendMessage
  <2>5. srv' \in Servers
    BY <2>1, <2>2, <2>3, <2>4
  <2> QED  BY <2>4, <2>5 DEF Types, Servers, SendMessage
<1>4. Messages' /\ Range(srv'.queue) = Range(srv.queue) \cup {m} /\ 1..m = 1..srv.sent \cup {m}
  BY <1>1, <1>2, <1>3, MessageOfServer
<1>5. Types' /\ Counting' /\ Opens' /\ SlotsClean'
  BY <1>1, <1>3 DEF Types, Counting, Opens, SlotsClean
<1>6. Opening'
  BY <1>1, <1>3 DEF Opening, Serving
<1>7. Kept'
  BY <1>1, <1>3, <1>4 DEF Kept, UpThere, DownThere
<1>8. Closed'
  BY <1>1, <1>3 DEF Closed
<1> QED  BY <1>4, <1>5, <1>6, <1>7, <1>8

(* The session is about to leave, or leaves with what is queued for the page. *)
LEMMA SessionOver ==
    ASSUME ProxyInv, Serving, open' = open, writes' = writes, s' = s, page' = page,
           faults' \in 0..MaxFaults, closing' \in BOOLEAN,
           NEW st \in {"leaving", "gone"}, NEW queue \in {srv.queue, <<>>},
           srv' = [srv EXCEPT !.st = st, !.queue = queue]
    PROVE  ProxyInv'
<1> USE DEF ProxyInv
<1>1. /\ srv' \in Servers /\ srv'.st = st /\ srv'.got = srv.got /\ srv'.queue = queue
      /\ srv'.sent = srv.sent
  <2>1. queue \in Seq(Downs)
    BY EmptySeq DEF Types, Servers
  <2>2. ASSUME NEW q \in Seq(Downs), NEW k \in {"none", "open", "leaving", "gone"}
        PROVE  [srv EXCEPT !.st = k, !.queue = q] \in Servers
    BY DEF Types, Servers
  <2>3. srv' \in Servers
    BY <2>1, <2>2
  <2> QED  BY <2>3 DEF Types, Servers
<1>2. Outstanding' = Outstanding /\ Carried("up")' = Carried("up")
  BY DEF Outstanding, Carried
<1>3. Messages'
  <2>1. CASE queue = srv.queue
    BY <1>1, <2>1, MessagesStay
  <2>2. CASE queue = <<>>
    BY <1>1, <2>2, QueueDropped
  <2> QED  BY <2>1, <2>2
<1>4. Types' /\ Counting' /\ Opens' /\ SlotsClean'
  BY <1>1, <1>2 DEF Types, Counting, Opens, SlotsClean
<1>5. Kept'
  BY <1>1, <1>2 DEF Kept, UpThere
<1>6. Closed'
  BY <1>1 DEF Closed
<1>7. Opening'
  BY <1>1, <1>2 DEF Opening, Serving
<1> QED  BY <1>3, <1>4, <1>5, <1>6, <1>7

(* "close" at wsd. *)
LEMMA HandleCloseKeeps == ProxyInv /\ HandleClose => ProxyInv'
<1> SUFFICES ASSUME ProxyInv, HandleClose PROVE ProxyInv'
  OBVIOUS
<1>1. /\ open' = open /\ writes' = writes /\ closing' = FALSE /\ s' = s /\ page' = page
      /\ faults' = faults /\ faults \in 0..MaxFaults
  BY DEF HandleClose, ProxyInv, Types
<1>2. CASE Serving
  <2>1. srv' = [srv EXCEPT !.st = "leaving", !.queue = srv.queue]
    BY <1>2 DEF HandleClose, ProxyInv, Types, Servers
  <2> QED  BY <1>1, <1>2, <2>1, SessionOver
<1>3. CASE ~Serving
  <2>1. srv' = srv
    BY <1>3 DEF HandleClose
  <2>2. Outstanding' = Outstanding /\ Carried("up")' = Carried("up")
        /\ Carried("down")' = Carried("down")
    BY <1>1 DEF Outstanding, Carried
  <2>3. Messages'
    BY <1>1, <2>1, MessagesStay DEF ProxyInv
  <2>4. Types' /\ Counting' /\ Opens' /\ SlotsClean'
    BY <1>1, <2>1, <2>2 DEF ProxyInv, Types, Counting, Opens, SlotsClean
  <2>5. Opening' /\ Kept'
    BY <1>1, <2>1, <2>2 DEF ProxyInv, Opening, Kept, UpThere, DownThere
  <2>6. Closed'
    BY <1>1, <1>3, <2>1 DEF ProxyInv, Closed, Serving
  <2> QED  BY <2>3, <2>4, <2>5, <2>6 DEF ProxyInv
<1> QED  BY <1>2, <1>3

(* wsd ends the session. *)
LEMMA EndSessionKeeps == ProxyInv /\ EndSession => ProxyInv'
<1> SUFFICES ASSUME ProxyInv, EndSession PROVE ProxyInv'
  OBVIOUS
<1>1. faults' \in 0..MaxFaults /\ closing' \in BOOLEAN
  BY ProxyAssumption DEF EndSession, ProxyInv, Types
<1>2. Serving /\ srv' = [srv EXCEPT !.st = "leaving", !.queue = srv.queue]
  BY DEF EndSession, Serving, ProxyInv, Types, Servers
<1> QED  BY <1>1, <1>2, SessionOver DEF EndSession

(* The session leaves. *)
LEMMA FinalRemoveSessionKeeps == ProxyInv /\ FinalRemoveSession => ProxyInv'
<1> SUFFICES ASSUME ProxyInv, FinalRemoveSession PROVE ProxyInv'
  OBVIOUS
<1>1. faults' \in 0..MaxFaults /\ closing' \in BOOLEAN
  BY DEF FinalRemoveSession, ProxyInv, Types
<1>2. Serving
  BY DEF FinalRemoveSession, Serving
<1> QED  BY <1>1, <1>2, SessionOver DEF FinalRemoveSession
-----------------------------------------------------------------------------
(* The theorems. *)

(* A socket that is created is in no state the invariant forbids. *)
LEMMA ProxyInit == Init => ProxyInv
<1> SUFFICES ASSUME Init PROVE ProxyInv
  OBVIOUS
<1>1. Range(<<>>) = {} /\ IsInjective(<<>>) /\ Increasing(<<>>)
  BY EmptyRange
<1>2. <<>> \in Seq(Ups) /\ <<>> \in Seq(Downs)
  BY EmptySeq
<1>3. /\ s.ready = 0 /\ s.inflight = 0 /\ s.queue = <<>> /\ s.level = 0
      /\ s.opens = IF open = "sent" THEN 1 ELSE 0
  BY DEF Init
<1>4. /\ srv.st = "none" /\ srv.got = <<>> /\ srv.queue = <<>> /\ srv.sent = 0
  BY DEF Init
<1>5. /\ ~page.detached /\ page.sent = 0 /\ page.got = <<>> /\ ~page.lost
  BY DEF Init
<1>6. \A i \in Slots : writes[i].st = "free" /\ writes[i].up = <<>> /\ writes[i].down = <<>>
  BY DEF Init, Free
<1>7. Outstanding = {} /\ Cardinality(Outstanding) = 0
  BY <1>6, FS_EmptySet DEF Outstanding
<1>8. Types
  <2>1. s \in Sockets
    BY <1>2, ProxyAssumption DEF Init, Sockets
  <2>2. writes \in [Slots -> Requests]
    BY <1>2 DEF Init, Free, Requests
  <2>3. srv \in Servers
    BY <1>2, ProxyAssumption DEF Init, Servers
  <2>4. page \in Pages
    BY <1>2, ProxyAssumption DEF Init, Pages
  <2>5. /\ open \in {"none", "delayed", "sent", "granted", "refused"} /\ faults \in 0..MaxFaults
    BY ProxyAssumption DEF Init
  <2>6. closing \in BOOLEAN
    BY DEF Init
  <2> QED  BY <2>1, <2>2, <2>3, <2>4, <2>5, <2>6 DEF Types
<1>9. Counting
  BY <1>3, <1>7, ProxyAssumption DEF Counting
<1>10. Opens
  BY <1>3 DEF Init, Opens
<1>11. SlotsClean
  BY <1>6 DEF SlotsClean
<1>12. Opening
  BY <1>3, <1>4, <1>5, <1>7 DEF Opening, Init
<1>13. UpOnce
  BY <1>1, <1>3, <1>4, <1>6 DEF UpOnce, Apart
<1>14. DownOnce
  BY <1>1, <1>4, <1>5, <1>6 DEF DownOnce, Apart
<1>15. InOrder
  BY <1>1, <1>3, <1>4, <1>5, <1>6, <1>7 DEF InOrder, Before
<1>16. Kept
  BY <1>3, <1>4 DEF Kept, Init
<1>17. Closed
  BY <1>5 DEF Closed
<1> QED  BY <1>8, <1>9, <1>10, <1>11, <1>12, <1>13, <1>14, <1>15, <1>16, <1>17 DEF ProxyInv, Messages

(* Every step keeps the invariant. *)
LEMMA ProxyStep == ProxyInv /\ [Next]_vars => ProxyInv'
<1> SUFFICES ASSUME ProxyInv, [Next]_vars PROVE ProxyInv'
  OBVIOUS
<1>1. CASE UNCHANGED vars
  <2>1. /\ s' = s /\ open' = open /\ writes' = writes /\ closing' = closing /\ srv' = srv
        /\ page' = page /\ faults' = faults
    BY <1>1 DEF vars
  <2>2. Outstanding' = Outstanding /\ Carried("up")' = Carried("up")
        /\ Carried("down")' = Carried("down")
    BY <2>1 DEF Outstanding, Carried
  <2>3. Messages'
    BY <2>1, MessagesStay DEF ProxyInv
  <2>4. Types' /\ Counting' /\ Opens' /\ SlotsClean'
    BY <2>1, <2>2 DEF ProxyInv, Types, Counting, Opens, SlotsClean
  <2>5. Opening' /\ Kept' /\ Closed'
    BY <2>1, <2>2 DEF ProxyInv, Opening, Kept, UpThere, DownThere, Closed
  <2> QED  BY <2>3, <2>4, <2>5 DEF ProxyInv
<1>2. CASE Next
  <2>1. ASSUME NEW i \in Slots,
               Poll(i) \/ WriteLoad(i) \/ HandleWrite(i) \/ RefuseWrite(i) \/ XhrError(i)
        PROVE  ProxyInv'
    BY <2>1, PollKeeps, WriteLoadKeeps, HandleWriteKeeps, RefuseWriteKeeps, XhrErrorKeeps
  <2> QED
    BY <1>2, <2>1, SendKeeps, DelaySessionKeeps, OpenLoadKeeps, BackedUpKeeps, CloseKeeps,
       HandleOpenKeeps, HandleCloseKeeps, SendMessageKeeps, EndSessionKeeps,
       FinalRemoveSessionKeeps, OpenErrorKeeps, CloseErrorKeeps DEF Next
<1> QED  BY <1>1, <1>2

(* The invariant holds throughout. *)
LEMMA ProxyAlways == Spec => []ProxyInv
<1>1. Init => ProxyInv
  BY ProxyInit
<1>2. ProxyInv /\ [Next]_vars => ProxyInv'
  BY ProxyStep
<1> QED  BY <1>1, <1>2, PTL DEF Spec

(* Every variable keeps its type; msgInflight never leaves the range the code's own tests
   compare it with, however often its counters were started again with requests in flight. *)
THEOREM SocketTypes == Spec => []TypeOK
<1>1. ProxyInv => TypeOK
  <2> SUFFICES ASSUME ProxyInv PROVE TypeOK
    OBVIOUS
  <2>1. Types
    BY DEF ProxyInv
  <2>2. s.inflight \in -MaxInflight..MaxInflight
    BY <2>1, OutstandingFinite, ProxyAssumption DEF ProxyInv, Counting, Types, Sockets
  <2>3. s.opens \in -1..1
    BY <2>1 DEF ProxyInv, Opens, Types
  <2> QED  BY <2>1, <2>2, <2>3 DEF TypeOK, Types, Sockets, Requests, Servers, Pages, Ups, Downs
<1> QED  BY <1>1, ProxyAlways, PTL

(* doSend() counts its requests right, for every limit on them: as long as the socket is open
   msgInflight is the number of "write" requests without a loadend. *)
THEOREM InflightIsExact == Spec => []InflightCounts
<1>1. ProxyInv => InflightCounts
  BY DEF ProxyInv, Counting, InflightCounts
<1> QED  BY <1>1, ProxyAlways, PTL

(* Whatever overtakes, is lost, is refused or ends, neither end handles a message twice. *)
THEOREM HandledOnce == Spec => []NeverTwice
<1>1. ProxyInv => NeverTwice
  BY DEF ProxyInv, Messages, UpOnce, DownOnce, NeverTwice
<1> QED  BY <1>1, ProxyAlways, PTL

(* Order is kept by one thing only: that there was never a second request in flight. *)
THEOREM OneRequestKeepsOrder == Spec => []OrderedUnlessCrowded
<1>1. ProxyInv => OrderedUnlessCrowded
  BY DEF ProxyInv, Messages, InOrder, OrderedUnlessCrowded
<1> QED  BY <1>1, ProxyAlways, PTL

(* As long as no request failed, an open socket knows where every message is, at both ends. *)
THEOREM OpenSocketLosesNothing == Spec => []NothingLost
<1>1. ProxyInv => NothingLost
  <2> SUFFICES ASSUME ProxyInv, s.ready = 1, ~page.lost
               PROVE  /\ 1..page.sent = UpThere
                      /\ srv.st = "open" /\ ~page.detached => 1..srv.sent = DownThere
    BY DEF NothingLost, UpThere, DownThere
  <2>1. UpThere \subseteq 1..page.sent
    BY CarriedBy DEF ProxyInv, Messages, UpOnce, UpThere
  <2>2. DownThere \subseteq 1..srv.sent
    BY CarriedBy DEF ProxyInv, Messages, DownOnce, DownThere
  <2> QED  BY <2>1, <2>2 DEF ProxyInv, Kept
<1> QED  BY <1>1, ProxyAlways, PTL

(* A socket that the page closed leaves nothing behind at wsd, unless it had failed, a request
   was lost, or the answer to "open" came late. *)
THEOREM CloseEndsSession == Spec => []ClosedForGood
<1>1. ProxyInv => ClosedForGood
  BY DEF ProxyInv, Closed, ClosedForGood
<1> QED  BY <1>1, ProxyAlways, PTL
==============================================================================
