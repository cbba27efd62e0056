-------------------------- MODULE ConnectionProofs --------------------------
(***************************************************************************)
(* Proofs about the connection of the page (module Connection), for every   *)
(* bound on commands, messages, faults and changes of focus.                *)
(*                                                                         *)
(* The inductive invariant says where every command and every message can   *)
(* be: a command was sent or waits in the queue, behind all that was sent;  *)
(* a message for the layer was handled, is delayed, is slurped or is on the *)
(* wire; what is slurped and on the wire holds growing numbers, after all   *)
(* that was handled or is delayed, and what is delayed comes after all that *)
(* was handled and may be delayed.                                          *)
(* It is carried through the loops of the code (_onSocketOpen(),            *)
(* _emitSlurpedEvents(), _handleDelayedMessages()), which are folds, one    *)
(* message at a time: FoldProofs gives the results in between.              *)
(*                                                                         *)
(* That the page is never left without a connection and without a retry     *)
(* needs a second invariant: what wsd said and the page has not handled     *)
(* follows a script, and from it and the flags of the page one sees which   *)
(* timer, dialog or overlay is left when the connection goes (Retry).       *)
(***************************************************************************)
EXTENDS Connection, SeqLemmas

(* The loops: sending what was queued, handling what was delayed, and       *)
(* handling what was slurped.                                               *)
Sending == INSTANCE FoldProofs WITH Op <- DoSend
Delaying == INSTANCE FoldProofs WITH Op <- Handle
Emitting == INSTANCE FoldProofs WITH Op <- EmitOne

Commands == 0..MaxSends
Queued == [k : {"cmd"}, n : Commands] \cup [k : {"info"}]
Timers == {"slurp", "close"}

PageFields ==
    {"sock", "active", "recycling", "idle", "reconnecting", "count", "interval", "timers",
     "fatal", "docLayer", "docLoaded", "blocked", "asking", "dimmed", "error", "queue", "slurp",
     "delayed", "delayTimer", "log", "handled", "tried", "hasty", "muted", "leftover", "stale"}

(* The fields that are not sequences. *)
Flags(x) ==
    /\ x.sock \in {"connecting", "open", "closing", "closed"}
    /\ x.active \in BOOLEAN /\ x.recycling \in BOOLEAN /\ x.idle \in BOOLEAN
    /\ x.reconnecting \in BOOLEAN /\ x.fatal \in BOOLEAN /\ x.docLayer \in BOOLEAN
    /\ x.docLoaded \in BOOLEAN /\ x.blocked \in BOOLEAN /\ x.asking \in BOOLEAN
    /\ x.dimmed \in BOOLEAN /\ x.error \in BOOLEAN /\ x.delayTimer \in BOOLEAN
    /\ x.tried \in BOOLEAN /\ x.hasty \in BOOLEAN /\ x.muted \in BOOLEAN
    /\ x.leftover \in BOOLEAN /\ x.stale \in BOOLEAN
    /\ x.count \in Nat /\ x.interval \in {"none", "load", "activate"}

Queues(x) ==
    /\ x.timers \in Seq(Timers) /\ x.queue \in Seq(Queued)
    /\ x.slurp \in Seq(Message) /\ x.delayed \in Seq(Message)
    /\ x.log \in Seq(Commands) /\ x.handled \in Seq(Message)

Session(w) ==
    /\ DOMAIN w = {"state", "view", "wire"}
    /\ w.state \in {"none", "loading", "joined", "loaded", "blocking", "ended"}
    /\ w.view \in BOOLEAN /\ w.wire \in Seq(Message)

Formed(p) ==
    /\ DOMAIN p = {"c", "wsd"} /\ DOMAIN p.c = PageFields
    /\ Flags(p.c) /\ Queues(p.c) /\ Session(p.wsd)

(* The numbers in q grow and stay below hi. *)
Below(q, hi) == Increasing(q) /\ \A i \in DOMAIN q : q[i] < hi

(* The numbers of the messages of this kind in q grow, from lo to below hi. *)
Band(kind, q, lo, hi) ==
    /\ \A i \in DOMAIN q : q[i].k = kind => lo <= q[i].n /\ q[i].n < hi
    /\ \A i, j \in DOMAIN q : i < j /\ q[i].k = kind /\ q[j].k = kind => q[i].n < q[j].n

CmdOK(log, queue, n) == \E x \in Nat : Below(log, x) /\ x <= n /\ Band("cmd", queue, x, n)

OnlyViews(q) == \A i \in DOMAIN q : q[i].k = "view"

(* h was handled and d is delayed, rightly so, and all of it is below y. *)
Settled(h, d, y) ==
    /\ \A i \in DOMAIN h : h[i].k = "view" /\ h[i].n < y
    /\ \A i, j \in DOMAIN h : i < j => MayPrecede(h[i], h[j])
    /\ \A i \in DOMAIN d : d[i].k = "view" /\ d[i].delays /\ d[i].n < y
    /\ \A i, j \in DOMAIN d : i < j => d[i].n < d[j].n
    /\ \A i \in DOMAIN h, j \in DOMAIN d : MayPrecede(h[i], d[j])

LayerOK(h, d, s, w, n) ==
    \E y, z \in Nat :
        /\ y <= z /\ z <= n
        /\ Settled(h, d, y) /\ Band("view", s, y, z) /\ Band("view", w, z, n)

Refused(q) == Cardinality({i \in DOMAIN q : q[i].k = "unloading"})
CountOK(count, s, w, n) == count + Refused(s) + Refused(w) <= n

(* What every operation keeps; s is what is slurped and not handled yet. *)
Sound(p, s, u) ==
    /\ Formed(p)
    /\ CmdOK(p.c.log, p.c.queue, u["sends"])
    /\ OnlyViews(p.c.delayed)
    /\ LayerOK(p.c.handled, p.c.delayed, s, p.wsd.wire, u["views"])
    /\ CountOK(p.c.count, s, p.wsd.wire, u["faults"])
    /\ p.c.sock = "open" => p.c.queue = <<>>
    /\ p.c.active => p.wsd.view \/ p.c.muted

Bounds(u) ==
    /\ DOMAIN u = {"faults", "sends", "views", "focus"}
    /\ u["faults"] \in 0..MaxFaults /\ u["sends"] \in 0..MaxSends
    /\ u["views"] \in 0..MaxViews /\ u["focus"] \in 0..MaxFocus

Inv == Sound(Now, c.slurp, used) /\ Bounds(used)
-----------------------------------------------------------------------------
(* Sequences of numbers and of numbered messages. *)

(* A higher bound is a bound too. *)
LEMMA BelowMore ==
    ASSUME NEW S, S \subseteq Nat, NEW q \in Seq(S), NEW x \in Nat, NEW y \in Nat, x <= y, Below(q, x)
    PROVE  Below(q, y)
<1>1. \A i \in DOMAIN q : q[i] \in Nat
  BY LenProperties, ElementOfSeq
<1> QED  BY <1>1 DEF Below

(* Appending a number that is not below the bound keeps the order. *)
LEMMA BelowAppend ==
    ASSUME NEW S, S \subseteq Nat, NEW q \in Seq(S), NEW n \in S, Below(q, n)
    PROVE  Below(Append(q, n), n + 1)
<1>1. \A i \in DOMAIN q : q[i] \in Nat
  BY LenProperties, ElementOfSeq
<1>2. n \in Nat
  OBVIOUS
<1> DEFINE a == Append(q, n)
<1>3. /\ Len(q) \in Nat /\ DOMAIN q = 1..Len(q) /\ DOMAIN a = 1..Len(q)+1
      /\ \A i \in DOMAIN q : a[i] = q[i]
      /\ a[Len(q) + 1] = n
  BY AppendParts
<1>4. \A i \in DOMAIN q : q[i] < n
  BY DEF Below
<1>5. \A i, j \in DOMAIN q : i < j => q[i] < q[j]
  BY DEF Below, Increasing
<1> HIDE DEF a
<1>6. \A i \in DOMAIN a : a[i] < n + 1
  <2> SUFFICES ASSUME NEW i \in DOMAIN a PROVE a[i] < n + 1
    OBVIOUS
  <2>1. CASE i \in DOMAIN q
    BY <2>1, <1>1, <1>2, <1>3, <1>4
  <2>2. CASE i = Len(q) + 1
    BY <2>2, <1>2, <1>3
  <2> QED  BY <2>1, <2>2, <1>3
<1>7. \A i, j \in DOMAIN a : i < j => a[i] < a[j]
  <2> SUFFICES ASSUME NEW i \in DOMAIN a, NEW j \in DOMAIN a, i < j PROVE a[i] < a[j]
    OBVIOUS
  <2>1. i \in DOMAIN q
    BY <1>3
  <2>2. CASE j \in DOMAIN q
    BY <2>1, <2>2, <1>3, <1>5
  <2>3. CASE j = Len(q) + 1
    BY <2>1, <2>3, <1>3, <1>4
  <2> QED  BY <2>2, <2>3, <1>3
<1> QED  BY <1>6, <1>7 DEF Below, Increasing, a

(* Nothing is in any order. *)
LEMMA BandEmpty == ASSUME NEW kind, NEW lo, NEW hi PROVE Band(kind, <<>>, lo, hi)
BY DEF Band

(* Every message is of another kind or has a number. *)
Numbered(kind, m) == m.k = kind => m.n \in Nat

(* Taking the first message away raises the lower bound past its number. *)
LEMMA BandTail ==
    ASSUME NEW S, NEW kind, NEW q \in Seq(S), q # <<>>, NEW lo \in Nat, NEW hi \in Nat,
           \A m \in S : Numbered(kind, m), Band(kind, q, lo, hi)
    PROVE  /\ Band(kind, Tail(q), lo, hi)
           /\ Head(q).k = kind => /\ Head(q).n \in Nat /\ lo <= Head(q).n /\ Head(q).n < hi
                                  /\ Band(kind, Tail(q), Head(q).n + 1, hi)
<1> DEFINE t == Tail(q)
<1>1. /\ Head(q) = q[1] /\ Head(q) \in S /\ 1 \in DOMAIN q
      /\ DOMAIN t = 1..Len(q)-1 /\ DOMAIN q = 1..Len(q) /\ Len(q) \in Nat \ {0}
      /\ \A i \in DOMAIN t : i + 1 \in DOMAIN q /\ t[i] = q[i + 1]
  BY TailParts
<1>2. \A i \in DOMAIN q : q[i] \in S /\ Numbered(kind, q[i])
  BY LenProperties, ElementOfSeq
<1> HIDE DEF t
<1>3. ASSUME NEW i \in DOMAIN t, t[i].k = kind
      PROVE  /\ lo <= t[i].n /\ t[i].n < hi
             /\ Head(q).k = kind => Head(q).n + 1 <= t[i].n
  <2>1. i + 1 \in DOMAIN q /\ t[i] = q[i + 1] /\ 1 < i + 1
    BY <1>1
  <2>2. lo <= t[i].n /\ t[i].n < hi
    BY <2>1, <1>3 DEF Band
  <2>3. Head(q).k = kind => Head(q).n < t[i].n
    BY <2>1, <1>1, <1>3 DEF Band
  <2>4. t[i].n \in Nat /\ (Head(q).k = kind => Head(q).n \in Nat)
    BY <2>1, <1>1, <1>2, <1>3 DEF Numbered
  <2> QED  BY <2>2, <2>3, <2>4
<1>4. \A i, j \in DOMAIN t : i < j /\ t[i].k = kind /\ t[j].k = kind => t[i].n < t[j].n
  <2> SUFFICES ASSUME NEW i \in DOMAIN t, NEW j \in DOMAIN t, i < j, t[i].k = kind, t[j].k = kind
               PROVE  t[i].n < t[j].n
    OBVIOUS
  <2>1. /\ i + 1 \in DOMAIN q /\ t[i] = q[i + 1] /\ j + 1 \in DOMAIN q /\ t[j] = q[j + 1]
        /\ i + 1 < j + 1
    BY <1>1
  <2> QED  BY <2>1 DEF Band
<1>5. Head(q).k = kind => Head(q).n \in Nat /\ lo <= Head(q).n /\ Head(q).n < hi
  BY <1>1, <1>2 DEF Band, Numbered
<1> QED  BY <1>3, <1>4, <1>5 DEF Band, t

(* Appending a message raises the upper bound past its number. *)
LEMMA BandAppend ==
    ASSUME NEW S, NEW kind, NEW q \in Seq(S), NEW m \in S, NEW lo \in Nat, NEW hi \in Nat, lo <= hi,
           \A e \in S : Numbered(kind, e), Band(kind, q, lo, hi)
    PROVE  /\ m.k # kind => Band(kind, Append(q, m), lo, hi)
           /\ m.k = kind /\ hi <= m.n => m.n \in Nat /\ Band(kind, Append(q, m), lo, m.n + 1)
<1> DEFINE a == Append(q, m)
<1>1. /\ Len(q) \in Nat /\ DOMAIN q = 1..Len(q) /\ DOMAIN a = 1..Len(q)+1
      /\ \A i \in DOMAIN q : a[i] = q[i]
      /\ a[Len(q) + 1] = m
  BY AppendParts
<1>2. \A i \in DOMAIN q : q[i] \in S /\ Numbered(kind, q[i])
  BY LenProperties, ElementOfSeq
<1>3. m.k = kind => m.n \in Nat
  BY DEF Numbered
<1>4. \A i \in DOMAIN q : q[i].k = kind => q[i].n \in Nat /\ lo <= q[i].n /\ q[i].n < hi
  BY <1>2 DEF Band, Numbered
<1>5. \A i, j \in DOMAIN q : i < j /\ q[i].k = kind /\ q[j].k = kind => q[i].n < q[j].n
  BY DEF Band
<1> HIDE DEF a
<1>6. ASSUME m.k # kind PROVE Band(kind, a, lo, hi)
  <2>1. \A i \in DOMAIN a : a[i].k = kind => i \in DOMAIN q
    BY <1>1, <1>6
  <2> QED  BY <2>1, <1>1, <1>4, <1>5 DEF Band
<1>7. ASSUME m.k = kind, hi <= m.n PROVE Band(kind, a, lo, m.n + 1)
  <2>1. ASSUME NEW i \in DOMAIN a, a[i].k = kind PROVE lo <= a[i].n /\ a[i].n < m.n + 1
    <3>1. CASE i \in DOMAIN q
      BY <3>1, <2>1, <1>1, <1>3, <1>4, <1>7
    <3>2. CASE i = Len(q) + 1
      BY <3>2, <1>1, <1>3, <1>7
    <3> QED  BY <3>1, <3>2, <1>1
  <2>2. ASSUME NEW i \in DOMAIN a, NEW j \in DOMAIN a, i < j, a[i].k = kind, a[j].k = kind
        PROVE  a[i].n < a[j].n
    <3>1. i \in DOMAIN q
      BY <2>2, <1>1
    <3>2. CASE j \in DOMAIN q
      BY <3>1, <3>2, <2>2, <1>1, <1>5
    <3>3. CASE j = Len(q) + 1
      BY <3>1, <3>3, <2>2, <1>1, <1>3, <1>4, <1>7
    <3> QED  BY <3>2, <3>3, <1>1
  <2> QED  BY <2>1, <2>2 DEF Band
<1> QED  BY <1>3, <1>6, <1>7 DEF a

(* A higher upper bound is a bound too. *)
LEMMA BandMore ==
    ASSUME NEW S, NEW kind, NEW q \in Seq(S), NEW lo \in Nat, NEW hi \in Nat, NEW top \in Nat,
           hi <= top, \A m \in S : Numbered(kind, m), Band(kind, q, lo, hi)
    PROVE  Band(kind, q, lo, top)
<1>1. \A i \in DOMAIN q : Numbered(kind, q[i])
  BY LenProperties, ElementOfSeq
<1>2. \A i \in DOMAIN q : q[i].k = kind => q[i].n \in Nat /\ lo <= q[i].n /\ q[i].n < hi
  BY <1>1 DEF Band, Numbered
<1> QED  BY <1>2 DEF Band
-----------------------------------------------------------------------------
(* Commands: what was sent, and what waits for a connection. *)

(* A command that waits has its number. *)
LEMMA QueuedNumbered == \A m \in Queued : Numbered("cmd", m)
BY ConnectionAssumption DEF Queued, Numbered, Commands

(* The numbers of commands are natural numbers. *)
LEMMA CommandNumbers == Commands \subseteq Nat
BY ConnectionAssumption DEF Commands

(* Numbering one command more leaves the ones there in order. *)
LEMMA CmdMore ==
    ASSUME NEW log \in Seq(Commands), NEW q \in Seq(Queued), NEW n \in Nat, CmdOK(log, q, n)
    PROVE  CmdOK(log, q, n + 1)
<1>1. PICK x \in Nat : Below(log, x) /\ x <= n /\ Band("cmd", q, x, n)
  BY DEF CmdOK
<1>2. Band("cmd", q, x, n + 1) /\ x <= n + 1
  BY <1>1, BandMore, QueuedNumbered
<1> QED  BY <1>1, <1>2 DEF CmdOK

(* With nothing queued, a command sent at once is the last in order. *)
LEMMA CmdSent ==
    ASSUME NEW log \in Seq(Commands), NEW n \in Commands, CmdOK(log, <<>>, n)
    PROVE  CmdOK(Append(log, n), <<>>, n + 1)
<1>1. PICK x \in Nat : Below(log, x) /\ x <= n
  BY DEF CmdOK
<1>2. n \in Nat /\ n + 1 \in Nat
  BY CommandNumbers
<1>3. Below(log, n)
  BY <1>1, <1>2, BelowMore, CommandNumbers
<1>4. Below(Append(log, n), n + 1)
  BY <1>3, BelowAppend, CommandNumbers
<1> QED  BY <1>2, <1>4, BandEmpty DEF CmdOK

(* A command that is queued is the last in order. *)
LEMMA CmdWaits ==
    ASSUME NEW log \in Seq(Commands), NEW q \in Seq(Queued), NEW n \in Nat, NEW m \in Queued,
           CmdOK(log, q, n)
    PROVE  /\ m.k # "cmd" => CmdOK(log, Append(q, m), n)
           /\ m.k = "cmd" /\ m.n = n => CmdOK(log, Append(q, m), n + 1)
<1>1. PICK x \in Nat : Below(log, x) /\ x <= n /\ Band("cmd", q, x, n)
  BY DEF CmdOK
<1>2. /\ m.k # "cmd" => Band("cmd", Append(q, m), x, n)
      /\ m.k = "cmd" /\ n <= m.n => Band("cmd", Append(q, m), x, m.n + 1)
  BY <1>1, BandAppend, QueuedNumbered
<1> QED  BY <1>1, <1>2 DEF CmdOK

(* Sending the whole queue in its order leaves what wsd got in order. *)
LEMMA CmdFlushed ==
    ASSUME NEW log \in Seq(Commands), NEW q \in Seq(Queued), q # <<>>, NEW n \in Nat,
           CmdOK(log, q, n)
    PROVE  /\ CmdOK(log, Tail(q), n)
           /\ Head(q).k = "cmd" => /\ Head(q).n \in Commands
                                   /\ CmdOK(Append(log, Head(q).n), Tail(q), n)
<1>1. PICK x \in Nat : Below(log, x) /\ x <= n /\ Band("cmd", q, x, n)
  BY DEF CmdOK
<1>2. /\ Band("cmd", Tail(q), x, n)
      /\ Head(q).k = "cmd" => /\ Head(q).n \in Nat /\ x <= Head(q).n /\ Head(q).n < n
                              /\ Band("cmd", Tail(q), Head(q).n + 1, n)
  BY <1>1, BandTail, QueuedNumbered
<1>3. CmdOK(log, Tail(q), n)
  BY <1>1, <1>2 DEF CmdOK
<1>4. ASSUME Head(q).k = "cmd"
      PROVE  Head(q).n \in Commands /\ CmdOK(Append(log, Head(q).n), Tail(q), n)
  <2>1. Head(q) \in Queued
    BY TailParts
  <2>2. Head(q).n \in Commands
    BY <2>1, <1>4 DEF Queued
  <2>3. PICK h \in Commands : h = Head(q).n
    BY <2>2
  <2>4. h \in Nat /\ h + 1 \in Nat /\ x <= h /\ h < n /\ h + 1 <= n
    BY <2>3, <1>2, <1>4
  <2>5. Below(log, h)
    BY <1>1, <2>4, BelowMore, CommandNumbers
  <2>6. Below(Append(log, h), h + 1)
    BY <2>5, BelowAppend, CommandNumbers
  <2>7. Band("cmd", Tail(q), h + 1, n)
    BY <1>2, <1>4, <2>3
  <2>8. CmdOK(Append(log, h), Tail(q), n)
    BY <2>4, <2>6, <2>7 DEF CmdOK
  <2> QED  BY <2>2, <2>3, <2>8
<1> QED  BY <1>3, <1>4
-----------------------------------------------------------------------------
(* Messages for the document layer: handled, delayed, slurped, under way. *)

(* A message for the layer has its number. *)
LEMMA MessageNumbered == \A m \in Message : Numbered("view", m)
<1> SUFFICES ASSUME NEW m \in Message, m.k = "view" PROVE m.n \in Nat
  BY DEF Numbered
<1>1. m \in [k : {"view"}, n : 0..MaxViews, delays : BOOLEAN]
  BY DEF Message
<1> QED  BY <1>1, ConnectionAssumption

(* All that was handled or is delayed has its number. *)
LEMMA SettledNumbers ==
    ASSUME NEW h \in Seq(Message), NEW d \in Seq(Message), NEW y, Settled(h, d, y)
    PROVE  (\A i \in DOMAIN h : h[i].n \in Nat) /\ (\A i \in DOMAIN d : d[i].n \in Nat)
<1>1. (\A i \in DOMAIN h : h[i] \in Message) /\ (\A i \in DOMAIN d : d[i] \in Message)
  BY LenProperties, ElementOfSeq
<1> QED  BY <1>1, MessageNumbered DEF Settled, Numbered

(* A message that is after all the others and not behind a delayed one is handled in order. *)
LEMMA SettledHandled ==
    ASSUME NEW h \in Seq(Message), NEW d \in Seq(Message), NEW y \in Nat, Settled(h, d, y),
           NEW m \in Message, m.k = "view", y <= m.n, d = <<>> \/ ~m.delays
    PROVE  Settled(Append(h, m), d, m.n + 1)
<1>1. m.n \in Nat
  BY MessageNumbered DEF Numbered
<1>2. (\A i \in DOMAIN h : h[i].n \in Nat) /\ (\A i \in DOMAIN d : d[i].n \in Nat)
  BY SettledNumbers
<1> DEFINE a == Append(h, m)
<1>3. /\ Len(h) \in Nat /\ DOMAIN h = 1..Len(h) /\ DOMAIN a = 1..Len(h)+1
      /\ \A i \in DOMAIN h : a[i] = h[i]
      /\ a[Len(h) + 1] = m
  BY AppendParts
<1> HIDE DEF a
<1>4. \A i \in DOMAIN a : i \in DOMAIN h \/ i = Len(h) + 1
  BY <1>3
<1>5. ASSUME NEW i \in DOMAIN a PROVE a[i].k = "view" /\ a[i].n < m.n + 1
  <2>1. CASE i \in DOMAIN h
    BY <1>1, <1>2, <1>3, <2>1 DEF Settled
  <2>2. CASE i = Len(h) + 1
    BY <1>1, <1>3, <2>2
  <2> QED  BY <1>4, <2>1, <2>2
<1>6. ASSUME NEW i \in DOMAIN a, NEW j \in DOMAIN a, i < j PROVE MayPrecede(a[i], a[j])
  <2>1. i \in DOMAIN h
    BY <1>3, <1>6
  <2>2. CASE j \in DOMAIN h
    BY <1>3, <1>6, <2>1, <2>2 DEF Settled
  <2>3. CASE j = Len(h) + 1
    BY <1>1, <1>2, <1>3, <2>1, <2>3 DEF Settled, MayPrecede
  <2> QED  BY <1>4, <2>2, <2>3
<1>7. ASSUME NEW i \in DOMAIN a, NEW j \in DOMAIN d PROVE MayPrecede(a[i], d[j])
  <2>1. CASE i \in DOMAIN h
    BY <1>3, <2>1 DEF Settled
  <2>2. CASE i = Len(h) + 1
    <3>1. ~m.delays
      OBVIOUS
    <3> QED  BY <1>1, <1>2, <1>3, <2>2, <3>1 DEF Settled, MayPrecede
  <2> QED  BY <1>4, <2>1, <2>2
<1>8. \A i \in DOMAIN d : d[i].n < m.n + 1
  BY <1>1, <1>2 DEF Settled
<1> QED  BY <1>5, <1>6, <1>7, <1>8 DEF Settled, a

(* A delayed message is after the ones delayed before it. *)
LEMMA SettledDelayed ==
    ASSUME NEW h \in Seq(Message), NEW d \in Seq(Message), NEW y \in Nat, Settled(h, d, y),
           NEW m \in Message, m.k = "view", m.delays, y <= m.n
    PROVE  Settled(h, Append(d, m), m.n + 1)
<1>1. m.n \in Nat
  BY MessageNumbered DEF Numbered
<1>2. (\A i \in DOMAIN h : h[i].n \in Nat) /\ (\A i \in DOMAIN d : d[i].n \in Nat)
  BY SettledNumbers
<1> DEFINE a == Append(d, m)
<1>3. /\ Len(d) \in Nat /\ DOMAIN d = 1..Len(d) /\ DOMAIN a = 1..Len(d)+1
      /\ \A i \in DOMAIN d : a[i] = d[i]
      /\ a[Len(d) + 1] = m
  BY AppendParts
<1> HIDE DEF a
<1>4. \A i \in DOMAIN a : i \in DOMAIN d \/ i = Len(d) + 1
  BY <1>3
<1>5. ASSUME NEW i \in DOMAIN a PROVE a[i].k = "view" /\ a[i].delays /\ a[i].n < m.n + 1
  <2>1. CASE i \in DOMAIN d
    BY <1>1, <1>2, <1>3, <2>1 DEF Settled
  <2>2. CASE i = Len(d) + 1
    BY <1>1, <1>3, <2>2
  <2> QED  BY <1>4, <2>1, <2>2
<1>6. ASSUME NEW i \in DOMAIN a, NEW j \in DOMAIN a, i < j PROVE a[i].n < a[j].n
  <2>1. i \in DOMAIN d
    BY <1>3, <1>6
  <2>2. CASE j \in DOMAIN d
    BY <1>3, <1>6, <2>1, <2>2 DEF Settled
  <2>3. CASE j = Len(d) + 1
    BY <1>1, <1>2, <1>3, <2>1, <2>3 DEF Settled
  <2> QED  BY <1>4, <2>2, <2>3
<1>7. ASSUME NEW i \in DOMAIN h, NEW j \in DOMAIN a PROVE MayPrecede(h[i], a[j])
  <2>1. CASE j \in DOMAIN d
    BY <1>3, <2>1 DEF Settled
  <2>2. CASE j = Len(d) + 1
    BY <1>1, <1>2, <1>3, <2>2 DEF Settled, MayPrecede
  <2> QED  BY <1>4, <2>1, <2>2
<1>8. \A i \in DOMAIN h : h[i].n < m.n + 1
  BY <1>1, <1>2 DEF Settled
<1> QED  BY <1>5, <1>6, <1>7, <1>8 DEF Settled, a

(* The first delayed message may be handled. *)
LEMMA SettledDrained ==
    ASSUME NEW h \in Seq(Message), NEW d \in Seq(Message), d # <<>>, NEW y \in Nat, Settled(h, d, y)
    PROVE  Settled(Append(h, Head(d)), Tail(d), y)
<1>1. PICK m \in Message : m = Head(d)
  BY TailParts
<1> DEFINE a == Append(h, m)
           t == Tail(d)
<1>2. /\ m = d[1] /\ 1 \in DOMAIN d
      /\ \A i \in DOMAIN t : i + 1 \in DOMAIN d /\ t[i] = d[i + 1] /\ i \in Nat /\ 1 < i + 1
  <2>1. DOMAIN t = 1..Len(d)-1 /\ Len(d) \in Nat \ {0}
    BY TailParts
  <2> QED  BY <1>1, <2>1, TailParts
<1>3. /\ Len(h) \in Nat /\ DOMAIN h = 1..Len(h) /\ DOMAIN a = 1..Len(h)+1
      /\ \A i \in DOMAIN h : a[i] = h[i]
      /\ a[Len(h) + 1] = m
  BY AppendParts
<1> HIDE DEF a, t
<1>4. \A i \in DOMAIN a : i \in DOMAIN h \/ i = Len(h) + 1
  BY <1>3
<1>5. m.k = "view" /\ m.delays /\ m.n < y
  BY <1>2 DEF Settled
<1>6. ASSUME NEW i \in DOMAIN a PROVE a[i].k = "view" /\ a[i].n < y
  BY <1>3, <1>4, <1>5 DEF Settled
<1>7. ASSUME NEW i \in DOMAIN a, NEW j \in DOMAIN a, i < j PROVE MayPrecede(a[i], a[j])
  <2>1. i \in DOMAIN h
    BY <1>3, <1>7
  <2>2. CASE j \in DOMAIN h
    BY <1>3, <1>7, <2>1, <2>2 DEF Settled
  <2>3. CASE j = Len(h) + 1
    BY <1>2, <1>3, <2>1, <2>3 DEF Settled
  <2> QED  BY <1>4, <2>2, <2>3
<1>8. ASSUME NEW i \in DOMAIN t PROVE t[i].k = "view" /\ t[i].delays /\ t[i].n < y
  BY <1>2 DEF Settled
<1>9. ASSUME NEW i \in DOMAIN t, NEW j \in DOMAIN t, i < j PROVE t[i].n < t[j].n
  <2>1. i + 1 < j + 1
    BY <1>2, <1>9
  <2> QED  BY <1>2, <2>1 DEF Settled
<1>10. ASSUME NEW i \in DOMAIN a, NEW j \in DOMAIN t PROVE MayPrecede(a[i], t[j])
  <2>1. CASE i \in DOMAIN h
    BY <1>2, <1>3, <2>1 DEF Settled
  <2>2. CASE i = Len(h) + 1
    BY <1>2, <1>3, <2>2 DEF Settled, MayPrecede
  <2> QED  BY <1>4, <2>1, <2>2
<1>11. Settled(a, t, y)
  BY <1>6, <1>7, <1>8, <1>9, <1>10 DEF Settled
<1> QED  BY <1>1, <1>11 DEF a, t

(* Losing the wire loses messages and not the order. *)
LEMMA LayerClosed ==
    ASSUME NEW h, NEW d, NEW s, NEW w, NEW n \in Nat, LayerOK(h, d, s, w, n)
    PROVE  LayerOK(h, d, s, <<>>, n)
BY BandEmpty DEF LayerOK

(* A message that wsd says is after all the others. *)
LEMMA LayerSays ==
    ASSUME NEW h, NEW d, NEW s, NEW w \in Seq(Message), NEW m \in Message, NEW n \in Nat,
           LayerOK(h, d, s, w, n)
    PROVE  /\ m.k # "view" => LayerOK(h, d, s, Append(w, m), n)
           /\ m.k = "view" /\ m.n = n => LayerOK(h, d, s, Append(w, m), n + 1)
<1>1. PICK y, z \in Nat :
        /\ y <= z /\ z <= n
        /\ Settled(h, d, y) /\ Band("view", s, y, z) /\ Band("view", w, z, n)
  BY DEF LayerOK
<1>2. /\ m.k # "view" => Band("view", Append(w, m), z, n)
      /\ m.k = "view" /\ n <= m.n => Band("view", Append(w, m), z, m.n + 1)
  BY <1>1, BandAppend, MessageNumbered
<1>3. ASSUME m.k # "view" PROVE LayerOK(h, d, s, Append(w, m), n)
  BY <1>1, <1>2, <1>3 DEF LayerOK
<1>4. ASSUME m.k = "view", m.n = n PROVE LayerOK(h, d, s, Append(w, m), n + 1)
  <2>1. Band("view", Append(w, m), z, n + 1) /\ z <= n + 1
    BY <1>1, <1>2, <1>4
  <2> QED  BY <1>1, <2>1 DEF LayerOK
<1> QED  BY <1>3, <1>4

(* Numbering one message more leaves the ones there in order. *)
LEMMA LayerSpent ==
    ASSUME NEW h, NEW d, NEW s, NEW w \in Seq(Message), NEW n \in Nat, LayerOK(h, d, s, w, n)
    PROVE  LayerOK(h, d, s, w, n + 1)
<1>1. PICK y, z \in Nat :
        /\ y <= z /\ z <= n
        /\ Settled(h, d, y) /\ Band("view", s, y, z) /\ Band("view", w, z, n)
  BY DEF LayerOK
<1>2. Band("view", w, z, n + 1) /\ z <= n + 1
  BY <1>1, BandMore, MessageNumbered
<1> QED  BY <1>1, <1>2 DEF LayerOK

(* A message from the wire is after all that is slurped. *)
LEMMA LayerReceived ==
    ASSUME NEW h, NEW d, NEW s \in Seq(Message), NEW w \in Seq(Message), w # <<>>, NEW n \in Nat,
           LayerOK(h, d, s, w, n)
    PROVE  LayerOK(h, d, Append(s, Head(w)), Tail(w), n)
<1>1. PICK y, z \in Nat :
        /\ y <= z /\ z <= n
        /\ Settled(h, d, y) /\ Band("view", s, y, z) /\ Band("view", w, z, n)
  BY DEF LayerOK
<1>2. PICK m \in Message : m = Head(w)
  BY TailParts
<1>3. /\ Band("view", Tail(w), z, n)
      /\ m.k = "view" => /\ m.n \in Nat /\ z <= m.n /\ m.n < n
                         /\ Band("view", Tail(w), m.n + 1, n)
  BY <1>1, <1>2, BandTail, MessageNumbered
<1>4. /\ m.k # "view" => Band("view", Append(s, m), y, z)
      /\ m.k = "view" /\ z <= m.n => Band("view", Append(s, m), y, m.n + 1)
  BY <1>1, BandAppend, MessageNumbered
<1>5. CASE m.k # "view"
  BY <1>1, <1>2, <1>3, <1>4, <1>5 DEF LayerOK
<1>6. CASE m.k = "view"
  <2>1. PICK v \in Nat : v = m.n + 1
    BY <1>3, <1>6
  <2>2. y <= v /\ v <= n /\ Band("view", Append(s, m), y, v) /\ Band("view", Tail(w), v, n)
    BY <1>1, <1>3, <1>4, <1>6, <2>1
  <2> QED  BY <1>1, <1>2, <2>2 DEF LayerOK
<1> QED  BY <1>5, <1>6

(* A message that is no message for the layer leaves the order, and so does a lost one. *)
LEMMA LayerTaken ==
    ASSUME NEW h, NEW d, NEW s \in Seq(Message), s # <<>>, NEW w, NEW n \in Nat,
           LayerOK(h, d, s, w, n)
    PROVE  LayerOK(h, d, Tail(s), w, n)
BY BandTail, MessageNumbered DEF LayerOK

(* What becomes of the first slurped message. *)
LEMMA LayerFirst ==
    ASSUME NEW h, NEW d, NEW s \in Seq(Message), s # <<>>, Head(s).k = "view", NEW w, NEW n \in Nat,
           LayerOK(h, d, s, w, n), NEW g, NEW e,
           \A y \in Nat : Settled(h, d, y) /\ y <= Head(s).n => Settled(g, e, Head(s).n + 1)
    PROVE  LayerOK(g, e, Tail(s), w, n)
<1>1. PICK y, z \in Nat :
        /\ y <= z /\ z <= n
        /\ Settled(h, d, y) /\ Band("view", s, y, z) /\ Band("view", w, z, n)
  BY DEF LayerOK
<1>2. PICK m \in Message : m = Head(s)
  BY TailParts
<1>3. m.n \in Nat /\ y <= m.n /\ m.n < z /\ Band("view", Tail(s), m.n + 1, z)
  BY <1>1, <1>2, BandTail, MessageNumbered
<1>4. PICK v \in Nat : v = m.n + 1
  BY <1>3
<1>5. Settled(g, e, v) /\ v <= z /\ Band("view", Tail(s), v, z)
  BY <1>1, <1>2, <1>3, <1>4
<1> QED  BY <1>1, <1>5 DEF LayerOK

(* With nothing delayed, or if it may overtake, the first slurped message may be handled. *)
LEMMA LayerHandled ==
    ASSUME NEW h \in Seq(Message), NEW d \in Seq(Message), NEW s \in Seq(Message), s # <<>>,
           Head(s).k = "view", d = <<>> \/ ~Head(s).delays, NEW w, NEW n \in Nat, LayerOK(h, d, s, w, n)
    PROVE  LayerOK(Append(h, Head(s)), d, Tail(s), w, n)
<1>1. Head(s) \in Message
  BY TailParts
<1>2. \A y \in Nat : Settled(h, d, y) /\ y <= Head(s).n => Settled(Append(h, Head(s)), d, Head(s).n + 1)
  BY <1>1, SettledHandled
<1> QED  BY <1>2, LayerFirst

(* A message that may be delayed goes behind the others. *)
LEMMA LayerDelayed ==
    ASSUME NEW h \in Seq(Message), NEW d \in Seq(Message), NEW s \in Seq(Message), s # <<>>,
           Head(s).k = "view", Head(s).delays, NEW w, NEW n \in Nat, LayerOK(h, d, s, w, n)
    PROVE  LayerOK(h, Append(d, Head(s)), Tail(s), w, n)
<1>1. Head(s) \in Message
  BY TailParts
<1>2. \A y \in Nat : Settled(h, d, y) /\ y <= Head(s).n => Settled(h, Append(d, Head(s)), Head(s).n + 1)
  BY <1>1, SettledDelayed
<1> QED  BY <1>2, LayerFirst

(* Handling all that was delayed leaves the order. *)
LEMMA LayerDrained ==
    ASSUME NEW h \in Seq(Message), NEW d \in Seq(Message), d # <<>>,
           NEW s, NEW w, NEW n \in Nat, LayerOK(h, d, s, w, n)
    PROVE  LayerOK(Append(h, Head(d)), Tail(d), s, w, n)
BY SettledDrained DEF LayerOK
-----------------------------------------------------------------------------
(* Refusals that have not been handled. *)

(* The refusals in a sequence are finitely many. *)
LEMMA RefusedFinite ==
    ASSUME NEW S, NEW q \in Seq(S)
    PROVE  /\ IsFiniteSet({i \in DOMAIN q : q[i].k = "unloading"})
           /\ Refused(q) \in Nat
<1>1. DOMAIN q = 1..Len(q) /\ Len(q) \in Nat
  BY LenProperties
<1>2. IsFiniteSet(1..Len(q))
  BY <1>1, FS_Interval
<1>3. {i \in DOMAIN q : q[i].k = "unloading"} \subseteq 1..Len(q)
  BY <1>1
<1>4. IsFiniteSet({i \in DOMAIN q : q[i].k = "unloading"})
  BY <1>2, <1>3, FS_Subset
<1> QED  BY <1>4, FS_CardinalityType DEF Refused

(* No message is a refusal in the empty sequence. *)
LEMMA RefusedEmpty == Refused(<<>>) = 0
<1>1. {i \in DOMAIN <<>> : <<>>[i].k = "unloading"} = {}
  OBVIOUS
<1> QED  BY <1>1, FS_EmptySet DEF Refused

(* Appending a message counts it when it is a refusal. *)
LEMMA RefusedAppend ==
    ASSUME NEW S, NEW q \in Seq(S), NEW m \in S
    PROVE  Refused(Append(q, m)) = Refused(q) + IF m.k = "unloading" THEN 1 ELSE 0
<1> DEFINE a == Append(q, m)
           A == {i \in DOMAIN a : a[i].k = "unloading"}
           B == {i \in DOMAIN q : q[i].k = "unloading"}
<1>1. /\ Len(q) \in Nat /\ DOMAIN q = 1..Len(q) /\ DOMAIN a = 1..Len(q)+1
      /\ \A i \in DOMAIN q : a[i] = q[i]
      /\ a[Len(q) + 1] = m
  BY AppendParts
<1>2. IsFiniteSet(B) /\ Cardinality(B) \in Nat
  BY RefusedFinite DEF Refused
<1> HIDE DEF a
<1>3. CASE m.k = "unloading"
  <2>1. A = B \cup {Len(q) + 1} /\ Len(q) + 1 \notin B
    BY <1>1, <1>3
  <2> HIDE DEF A, B
  <2>2. Cardinality(A) = Cardinality(B) + 1
    BY <1>2, <2>1, FS_AddElement
  <2> QED  BY <2>2, <1>3 DEF Refused, A, B, a
<1>4. CASE m.k # "unloading"
  <2>1. A = B
    BY <1>1, <1>4
  <2>2. Cardinality(A) = Cardinality(B) + 0
    <3> HIDE DEF A, B
    <3> QED  BY <1>2, <2>1
  <2> QED  BY <2>2, <1>4 DEF Refused, a
<1> QED  BY <1>3, <1>4

(* Taking the first message away counts it no more. *)
LEMMA RefusedTail ==
    ASSUME NEW S, NEW q \in Seq(S), q # <<>>
    PROVE  Refused(q) = Refused(Tail(q)) + IF Head(q).k = "unloading" THEN 1 ELSE 0
<1> DEFINE t == Tail(q)
           A == {i \in DOMAIN t : t[i].k = "unloading"}
           B == {i \in DOMAIN q : q[i].k = "unloading"}
           C == B \ {1}
           f == [i \in A |-> i + 1]
<1>1. /\ Tail(q) \in Seq(S) /\ Head(q) = q[1] /\ Head(q) \in S /\ 1 \in DOMAIN q
      /\ DOMAIN t = 1..Len(q)-1 /\ DOMAIN q = 1..Len(q) /\ Len(q) \in Nat \ {0}
      /\ \A i \in DOMAIN t : i + 1 \in DOMAIN q /\ t[i] = q[i + 1]
  BY TailParts
<1>2. IsFiniteSet(A) /\ Cardinality(A) \in Nat /\ IsFiniteSet(B) /\ Cardinality(B) \in Nat
  BY <1>1, RefusedFinite DEF Refused
<1> HIDE DEF t
<1>3. ExistsBijection(A, C)
  <2>1. f \in [A -> C]
    BY <1>1
  <2>2. \A i, j \in A : f[i] = f[j] => i = j
    BY <1>1
  <2>3. \A k \in C : \E i \in A : f[i] = k
    <3> SUFFICES ASSUME NEW k \in C PROVE \E i \in A : f[i] = k
      OBVIOUS
    <3>1. k - 1 \in DOMAIN t /\ (k - 1) + 1 = k
      BY <1>1
    <3>2. t[k - 1] = q[k]
      BY <1>1, <3>1
    <3>3. k - 1 \in A
      BY <3>1, <3>2
    <3> QED  BY <3>1, <3>3
  <2> HIDE DEF f, A, C
  <2>4. f \in Bijection(A, C)
    BY <2>1, <2>2, <2>3 DEF Bijection, Injection, Surjection, IsInjective
  <2> QED  BY <2>4 DEF ExistsBijection
<1>4. Cardinality(C) = Cardinality(A)
  <2> HIDE DEF A, C
  <2> QED  BY <1>2, <1>3, FS_Bijection
<1>5. Refused(q) = Cardinality(B) /\ Refused(Tail(q)) = Cardinality(A)
  BY DEF Refused, t
<1>6. CASE Head(q).k = "unloading"
  <2>1. 1 \in B
    BY <1>1, <1>6
  <2> HIDE DEF B
  <2>2. Cardinality(C) = Cardinality(B) - 1
    BY <1>2, <2>1, FS_RemoveElement
  <2> HIDE DEF A, C
  <2> QED  BY <1>2, <1>4, <1>5, <1>6, <2>2
<1>7. CASE Head(q).k # "unloading"
  <2>1. C = B
    BY <1>1, <1>7
  <2> HIDE DEF A, B, C
  <2> QED  BY <1>2, <1>4, <1>5, <1>7, <2>1
<1> QED  BY <1>6, <1>7

(* Losing the wire loses the refusals on it. *)
LEMMA CountClosed ==
    ASSUME NEW k \in Nat, NEW s \in Seq(Message), NEW w \in Seq(Message), NEW n \in Nat,
           CountOK(k, s, w, n)
    PROVE  CountOK(k, s, <<>>, n) /\ CountOK(0, s, w, n) /\ k <= n
<1>1. Refused(s) \in Nat /\ Refused(w) \in Nat /\ Refused(<<>>) = 0
  BY RefusedFinite, RefusedEmpty
<1> QED  BY <1>1 DEF CountOK

(* A refusal costs a fault when wsd says it. *)
LEMMA CountSays ==
    ASSUME NEW k \in Nat, NEW s \in Seq(Message), NEW w \in Seq(Message), NEW m \in Message,
           NEW n \in Nat, CountOK(k, s, w, n)
    PROVE  /\ m.k # "unloading" => CountOK(k, s, Append(w, m), n)
           /\ CountOK(k, s, Append(w, m), n + 1) /\ CountOK(k, s, w, n + 1)
<1>1. Refused(s) \in Nat /\ Refused(w) \in Nat
  BY RefusedFinite
<1>2. Refused(Append(w, m)) = Refused(w) + IF m.k = "unloading" THEN 1 ELSE 0
  BY RefusedAppend
<1> QED  BY <1>1, <1>2 DEF CountOK

(* A refusal that is received is still one refusal. *)
LEMMA CountReceived ==
    ASSUME NEW k \in Nat, NEW s \in Seq(Message), NEW w \in Seq(Message), w # <<>>, NEW n \in Nat,
           CountOK(k, s, w, n)
    PROVE  CountOK(k, Append(s, Head(w)), Tail(w), n)
<1>1. Tail(w) \in Seq(Message) /\ Head(w) \in Message
  BY TailParts
<1>2. PICK m \in Message : m = Head(w)
  BY <1>1
<1>3. Refused(s) \in Nat /\ Refused(w) \in Nat /\ Refused(Tail(w)) \in Nat
  BY <1>1, RefusedFinite
<1>4. Refused(w) = Refused(Tail(w)) + IF m.k = "unloading" THEN 1 ELSE 0
  BY <1>2, RefusedTail
<1>5. Refused(Append(s, m)) = Refused(s) + IF m.k = "unloading" THEN 1 ELSE 0
  BY RefusedAppend
<1> QED  BY <1>2, <1>3, <1>4, <1>5 DEF CountOK

(* A refusal that is handled is counted by the page at most once. *)
LEMMA CountTaken ==
    ASSUME NEW k \in Nat, NEW s \in Seq(Message), s # <<>>, NEW w \in Seq(Message), NEW n \in Nat,
           CountOK(k, s, w, n)
    PROVE  /\ CountOK(k, Tail(s), w, n)
           /\ Head(s).k = "unloading" => CountOK(k + 1, Tail(s), w, n)
<1>1. Refused(s) \in Nat /\ Refused(w) \in Nat /\ Refused(Tail(s)) \in Nat
  BY TailParts, RefusedFinite
<1>2. Refused(s) = Refused(Tail(s)) + IF Head(s).k = "unloading" THEN 1 ELSE 0
  BY RefusedTail
<1> QED  BY <1>1, <1>2 DEF CountOK
-----------------------------------------------------------------------------
(* The operations of the page.  The record is expanded in the elementary ones only. *)

(* The budgets are natural numbers within their bounds. *)
LEMMA BoundsNat ==
    ASSUME NEW u, Bounds(u)
    PROVE  u["faults"] \in Nat /\ u["sends"] \in Nat /\ u["views"] \in Nat
BY ConnectionAssumption DEF Bounds

(* Nothing on the wire: no message out of order, no refusal. *)
LEMMA EmptyWire ==
    ASSUME NEW p, NEW s \in Seq(Message), NEW u, Bounds(u), Sound(p, s, u)
    PROVE  /\ LayerOK(p.c.handled, p.c.delayed, s, <<>>, u["views"])
           /\ CountOK(p.c.count, s, <<>>, u["faults"])
<1>1. p.c.count \in Nat /\ p.wsd.wire \in Seq(Message)
  BY DEF Sound, Formed, Flags, Session
<1> QED  BY <1>1, BoundsNat, LayerClosed, CountClosed DEF Sound

(* The state of wsd without the page is well formed. *)
LEMMA NobodySession == Session(Nobody) /\ Nobody.wire = <<>> /\ Nobody.view = TRUE
<1>1. <<>> \in Seq(Message)
  BY EmptySeq
<1> QED  BY <1>1 DEF Session, Nobody

(* Closing the socket (Socket.close) keeps everything. *)
LEMMA CloseSound ==
    ASSUME NEW p, NEW s \in Seq(Message), NEW u, Bounds(u), Sound(p, s, u)
    PROVE  /\ Sound(Close(p), s, u)
           /\ Close(p).c.count = p.c.count
<1>1. /\ LayerOK(p.c.handled, p.c.delayed, s, <<>>, u["views"])
      /\ CountOK(p.c.count, s, <<>>, u["faults"])
  BY EmptyWire
<1> QED  BY <1>1, NobodySession DEF Close, Sound, Formed, Flags, Queues, PageFields

(* The data that commands and messages are in. *)
Same(q, p) ==
    /\ q.c.log = p.c.log /\ q.c.queue = p.c.queue /\ q.c.delayed = p.c.delayed
    /\ q.c.handled = p.c.handled /\ q.c.count = p.c.count /\ q.wsd.wire = p.wsd.wire

(* An operation that touches neither commands nor messages keeps their order. *)
LEMMA FrameSound ==
    ASSUME NEW p, NEW q, NEW s, NEW u, Sound(p, s, u), Formed(q), Same(q, p),
           q.c.sock = "open" => q.c.queue = <<>>,
           q.c.active => q.wsd.view \/ q.c.muted
    PROVE  Sound(q, s, u)
BY DEF Sound, Same

(* Setting the flag of Map._activate() changes nothing else. *)
LEMMA ActiveSet ==
    ASSUME NEW p, NEW s, NEW u, Sound(p, s, u), NEW a \in BOOLEAN, NEW m \in BOOLEAN,
           a => p.wsd.view \/ m
    PROVE  Sound([p EXCEPT !.c.active = a, !.c.muted = m], s, u)
<1> DEFINE q == [p EXCEPT !.c.active = a, !.c.muted = m]
<1>1. Formed(q) /\ Same(q, p)
  BY DEF Sound, Formed, Flags, Queues, Session, PageFields, Same
<1>2. q.wsd = p.wsd /\ q.c.sock = p.c.sock /\ q.c.active = a /\ q.c.muted = m
  BY DEF Sound, Formed, PageFields
<1>3. q.c.sock = "open" => q.c.queue = <<>>
  BY <1>1, <1>2 DEF Sound, Same
<1> HIDE DEF q
<1>4. Sound(q, s, u)
  BY <1>1, <1>2, <1>3, FrameSound
<1> QED  BY <1>4 DEF q

(* Map.loadDocument() keeps everything. *)
LEMMA LoadDocumentSound ==
    ASSUME NEW p, NEW s \in Seq(Message), NEW u, Bounds(u), Sound(p, s, u)
    PROVE  /\ Sound(LoadDocument(p), s, u)
           /\ LoadDocument(p).c.sock = "connecting" /\ LoadDocument(p).c.log = p.c.log
           /\ LoadDocument(p).c.queue = p.c.queue
<1> DEFINE b == p.c.stale \/ p.c.slurp # <<>> \/ p.c.blocked
           k == Close(p)
           q == [k EXCEPT !.c.sock = "connecting", !.c.tried = TRUE, !.c.stale = b]
<1>1. b \in BOOLEAN
  BY DEF Sound, Formed, Flags
<1>2. Sound(k, s, u) /\ k.c.log = p.c.log /\ k.c.queue = p.c.queue /\ k.wsd.view = TRUE
      /\ k.c.stale = p.c.stale
  BY CloseSound, NobodySession DEF Close, Sound, Formed, PageFields
<1>3. LoadDocument(p) = q
  BY <1>2 DEF LoadDocument, Sound, Formed, PageFields
<1> HIDE DEF b, k
<1>4. Formed(q)
  BY <1>1, <1>2 DEF Sound, Formed, Flags, Queues, Session, PageFields
<1>5. Same(q, k) /\ q.c.sock = "connecting" /\ q.wsd = k.wsd
  BY <1>2 DEF Sound, Formed, PageFields, Same
<1> HIDE DEF q
<1>6. Sound(q, s, u)
  BY <1>2, <1>4, <1>5, FrameSound
<1> QED  BY <1>2, <1>3, <1>5, <1>6 DEF Same

(* A notice of activity on an open socket reaches wsd unless it is swallowed. *)
LEMMA NoticeSent ==
    ASSUME NEW p, NEW s \in Seq(Message), NEW u, Bounds(u), Formed(p), p.c.sock = "open",
           NEW k \in {"useractive", "userinactive"}
    PROVE  SendMessage(p, [k |-> k]) =
             IF p.c.fatal \/ p.c.blocked THEN p ELSE [p EXCEPT !.wsd.view = (k = "useractive")]
<1> DEFINE m == [k |-> k]
<1>1. m.k = k /\ IsActivity(m)
  BY DEF IsActivity
<1> HIDE DEF m
<1>2. DoSend(p, m) = [p EXCEPT !.wsd.view = (k = "useractive")]
  BY <1>1 DEF DoSend
<1>3. SendMessage(p, m) = IF p.c.fatal \/ p.c.blocked THEN p ELSE DoSend(p, m)
  BY <1>1 DEF SendMessage
<1> QED  BY <1>2, <1>3 DEF m

(* Map._activate() keeps everything. *)
LEMMA ActivateSound ==
    ASSUME NEW p, NEW s \in Seq(Message), NEW u, Bounds(u), Sound(p, s, u)
    PROVE  Sound(Activate(p), s, u)
<1> DEFINE p1 == SendMessage(p, [k |-> "useractive"])
<1>1. CASE p.c.recycling \/ p.c.idle \/ p.c.active
  BY <1>1 DEF Activate
<1>2. CASE ~(p.c.recycling \/ p.c.idle \/ p.c.active) /\ p.c.sock # "open"
  BY <1>2, LoadDocumentSound DEF Activate
<1>3. CASE ~(p.c.recycling \/ p.c.idle \/ p.c.active) /\ p.c.sock = "open"
  <2>1. Formed(p) /\ p.c.blocked \in BOOLEAN /\ p.c.fatal \in BOOLEAN
    BY DEF Sound, Formed, Flags
  <2>2. p1 = IF p.c.fatal \/ p.c.blocked THEN p ELSE [p EXCEPT !.wsd.view = ("useractive" = "useractive")]
    BY <1>3, <2>1, NoticeSent
  <2>3. Activate(p) = [p1 EXCEPT !.c.active = TRUE, !.c.muted = p.c.blocked \/ p.c.fatal]
    BY <1>3 DEF Activate
  <2> HIDE DEF p1
  <2>4. CASE p.c.fatal \/ p.c.blocked
    <3>1. Activate(p) = [p EXCEPT !.c.active = TRUE, !.c.muted = TRUE]
      BY <2>2, <2>3, <2>4
    <3>2. Sound([p EXCEPT !.c.active = TRUE, !.c.muted = TRUE], s, u)
      BY ActiveSet, Zenon
    <3> QED  BY <3>1, <3>2
  <2>5. CASE ~(p.c.fatal \/ p.c.blocked)
    <3>1. p1 = [p EXCEPT !.wsd.view = TRUE]
      BY <2>2, <2>5
    <3>2. Activate(p) = [p1 EXCEPT !.c.active = TRUE, !.c.muted = FALSE]
      BY <2>3, <2>5, <2>1
    <3>3. Sound(p1, s, u) /\ p1.wsd.view = TRUE
      BY <3>1 DEF Sound, Formed, Flags, Queues, Session, PageFields
    <3>4. Sound([p1 EXCEPT !.c.active = TRUE, !.c.muted = FALSE], s, u)
      BY <3>3, ActiveSet, Zenon
    <3> QED  BY <3>2, <3>4
  <2> QED  BY <2>4, <2>5
<1> QED  BY <1>1, <1>2, <1>3

(* Map._deactivate() keeps everything. *)
LEMMA DeactivateSound ==
    ASSUME NEW p, NEW s \in Seq(Message), NEW u, Bounds(u), Sound(p, s, u), NEW dialog \in BOOLEAN
    PROVE  Sound(Deactivate(p, dialog), s, u)
<1> DEFINE p1 == [p EXCEPT !.c.active = FALSE]
           p2 == SendMessage(p1, [k |-> "userinactive"])
           b == p.c.blocked \/ p.c.fatal
<1>0. b \in BOOLEAN
  BY DEF Sound, Formed, Flags
<1>1. Sound(p1, s, u) /\ p1.c.active = FALSE /\ p1.c.sock = p.c.sock
  BY DEF Sound, Formed, Flags, Queues, Session, PageFields
<1>2. CASE p.c.sock = "open"
  <2>1. p2 = IF p1.c.fatal \/ p1.c.blocked THEN p1 ELSE [p1 EXCEPT !.wsd.view = ("userinactive" = "useractive")]
    <3>1. Formed(p1)
      BY <1>1 DEF Sound
    <3> HIDE DEF p1
    <3> QED  BY <1>1, <1>2, <3>1, NoticeSent
  <2> HIDE DEF p1, p2
  <2>2. p2 = p1 \/ p2 = [p1 EXCEPT !.wsd.view = FALSE]
    BY <2>1
  <2>3. Sound(p2, s, u) /\ p2.c.active = FALSE
    <3>1. CASE p2 = p1
      BY <1>1, <3>1
    <3>2. CASE p2 = [p1 EXCEPT !.wsd.view = FALSE]
      <4>1. Formed(p2) /\ Same(p2, p1)
        BY <1>1, <3>2 DEF Sound, Formed, Flags, Queues, Session, PageFields, Same
      <4>2. p2.c = p1.c
        BY <1>1, <3>2 DEF Sound, Formed
      <4>3. p2.c.sock = "open" => p2.c.queue = <<>>
        BY <1>1, <4>2 DEF Sound
      <4> QED  BY <1>1, <4>1, <4>2, <4>3, FrameSound
    <3> QED  BY <2>2, <3>1, <3>2
  <2> HIDE DEF b
  <2>4. Sound([p2 EXCEPT !.c.muted = b], s, u)
    BY <1>0, <2>3 DEF Sound, Formed, Flags, Queues, Session, PageFields
  <2> QED  BY <1>2, <2>4 DEF Deactivate, p1, p2, b
<1>3. CASE p.c.sock # "open"
  <2> HIDE DEF b, p2
  <2> QED  BY <1>1, <1>3 DEF Deactivate
<1> QED  BY <1>2, <1>3

(* Writing down what wsd got changes nothing else. *)
LEMMA LogSet ==
    ASSUME NEW p, NEW s, NEW u, NEW v, Sound(p, s, u), NEW l \in Seq(Commands),
           v["views"] = u["views"], v["faults"] = u["faults"], CmdOK(l, p.c.queue, v["sends"])
    PROVE  Sound([p EXCEPT !.c.log = l], s, v)
<1> DEFINE q == [p EXCEPT !.c.log = l]
<1>1. Formed(q)
  BY DEF Sound, Formed, Flags, Queues, Session, PageFields
<1>2. /\ q.wsd = p.wsd /\ q.c.log = l /\ q.c.queue = p.c.queue /\ q.c.delayed = p.c.delayed
      /\ q.c.handled = p.c.handled /\ q.c.count = p.c.count /\ q.c.sock = p.c.sock
      /\ q.c.active = p.c.active /\ q.c.muted = p.c.muted
  BY DEF Sound, Formed, PageFields
<1> HIDE DEF q
<1>3. Sound(q, s, v)
  BY <1>1, <1>2 DEF Sound
<1> QED  BY <1>3 DEF q

(* Filling the message queue changes nothing else. *)
LEMMA QueueSet ==
    ASSUME NEW p, NEW s, NEW u, NEW v, Sound(p, s, u), NEW l \in Seq(Queued), p.c.sock # "open",
           v["views"] = u["views"], v["faults"] = u["faults"], CmdOK(p.c.log, l, v["sends"])
    PROVE  Sound([p EXCEPT !.c.queue = l], s, v)
<1> DEFINE q == [p EXCEPT !.c.queue = l]
<1>1. Formed(q)
  BY DEF Sound, Formed, Flags, Queues, Session, PageFields
<1>2. /\ q.wsd = p.wsd /\ q.c.log = p.c.log /\ q.c.queue = l /\ q.c.delayed = p.c.delayed
      /\ q.c.handled = p.c.handled /\ q.c.count = p.c.count /\ q.c.sock = p.c.sock
      /\ q.c.active = p.c.active /\ q.c.muted = p.c.muted
  BY DEF Sound, Formed, PageFields
<1> HIDE DEF q
<1>3. Sound(q, s, v)
  BY <1>1, <1>2 DEF Sound
<1> QED  BY <1>3 DEF q

(* The message is a command with the next number, or not a command. *)
Due(m, u, v) ==
    /\ v["views"] = u["views"] /\ v["faults"] = u["faults"]
    /\ \/ m.k = "info" /\ v["sends"] = u["sends"]
       \/ m.k = "cmd" /\ m.n = u["sends"] /\ v["sends"] = u["sends"] + 1

(* Socket.sendMessage() keeps the order of commands: sent, queued or dropped. *)
LEMMA SendMessageSound ==
    ASSUME NEW p, NEW s \in Seq(Message), NEW u, Bounds(u), Sound(p, s, u),
           NEW v, NEW m \in Queued, Due(m, u, v)
    PROVE  Sound(SendMessage(p, m), s, v)
<1>0. /\ u["sends"] \in Nat /\ p.c.log \in Seq(Commands) /\ p.c.queue \in Seq(Queued)
      /\ CmdOK(p.c.log, p.c.queue, u["sends"]) /\ m.k \in {"cmd", "info"}
  BY BoundsNat DEF Sound, Formed, Queues, Queued
<1>1. Sound(p, s, v)
  <2>1. CmdOK(p.c.log, p.c.queue, v["sends"])
    BY <1>0, CmdMore DEF Due
  <2> QED  BY <2>1 DEF Sound, Due
<1>2. CASE p.c.sock = "open"
  <2>1. p.c.queue = <<>>
    BY <1>2 DEF Sound
  <2>2. Sound(DoSend(p, m), s, v)
    <3>1. CASE m.k = "cmd"
      <4>1. m.n \in Commands
        BY <3>1 DEF Queued
      <4>2. PICK n \in Commands : n = m.n
        BY <4>1
      <4>3. n = u["sends"] /\ v["sends"] = n + 1
        BY <3>1, <4>2 DEF Due
      <4>4. Append(p.c.log, n) \in Seq(Commands) /\ CmdOK(Append(p.c.log, n), p.c.queue, v["sends"])
        BY <1>0, <2>1, <4>3, CmdSent, AppendParts
      <4>5. PICK l \in Seq(Commands) : l = Append(p.c.log, n)
        BY <4>4
      <4>6. Sound([p EXCEPT !.c.log = l], s, v)
        BY <4>4, <4>5, LogSet DEF Due
      <4> QED  BY <3>1, <4>2, <4>5, <4>6 DEF DoSend
    <3>2. CASE m.k = "info"
      BY <1>1, <3>2 DEF DoSend
    <3> QED  BY <1>0, <3>1, <3>2
  <2> QED  BY <1>1, <1>2, <2>2 DEF SendMessage
<1>3. CASE p.c.sock # "open"
  <2> DEFINE p1 == IF p.c.sock \in {"closing", "closed"} THEN LoadDocument(p) ELSE p
  <2>1. /\ Sound(p1, s, u) /\ p1.c.sock # "open" /\ p1.c.log = p.c.log
        /\ p1.c.queue = p.c.queue
    BY <1>3, LoadDocumentSound
  <2>2. Append(p.c.queue, m) \in Seq(Queued)
    BY <1>0, AppendParts
  <2>3. CmdOK(p.c.log, Append(p.c.queue, m), v["sends"])
    BY <1>0, CmdWaits DEF Due
  <2>4. PICK l \in Seq(Queued) : l = Append(p.c.queue, m)
    BY <2>2
  <2>5. SendMessage(p, m) = p \/ SendMessage(p, m) = [p1 EXCEPT !.c.queue = l]
    <3>1. Append(p1.c.queue, m) = l
      BY <2>1, <2>4
    <3> QED  BY <1>3, <3>1 DEF SendMessage
  <2> HIDE DEF p1
  <2>6. Sound([p1 EXCEPT !.c.queue = l], s, v)
    BY <2>1, <2>3, <2>4, QueueSet DEF Due
  <2> QED  BY <1>1, <2>5, <2>6
<1> QED  BY <1>2, <1>3

(* A message that is not a command may be queued. *)
LEMMA InfoQueued == [k |-> "info"] \in Queued /\ [k |-> "info"].k = "info"
BY DEF Queued

(* Sending a message that is not a command keeps everything. *)
LEMMA InfoSound ==
    ASSUME NEW p, NEW s \in Seq(Message), NEW u, Bounds(u), Sound(p, s, u)
    PROVE  Sound(SendMessage(p, [k |-> "info"]), s, u)
<1>1. PICK m \in Queued : m = [k |-> "info"] /\ m.k = "info"
  BY InfoQueued
<1>2. Due(m, u, u)
  BY <1>1 DEF Due
<1>3. Sound(SendMessage(p, m), s, u)
  BY <1>2, SendMessageSound
<1> QED  BY <1>1, <1>3

(* p with another log. *)
Logged(q, p, l) == (q = p /\ l = p.c.log) \/ q = [p EXCEPT !.c.log = l]

(* Sending what was queued adds its commands to what wsd got, and nothing else. *)
LEMMA QueueFlushed ==
    ASSUME NEW p, Formed(p), NEW n \in Nat, NEW q \in Seq(Queued), CmdOK(p.c.log, q, n)
    PROVE  \E l \in Seq(Commands) : Logged(FoldLeft(DoSend, p, q), p, l) /\ CmdOK(l, <<>>, n)
<1>1. FoldLeft(DoSend, p, q) = Sending!Fold(p, q)
  BY DEF FoldLeft, MapThenFoldSet, Max, Sending!Max, Sending!Fold
<1>2. PICK r : Sending!IsRun(r, p, q) /\ FoldLeft(DoSend, p, q) = r[Len(q)]
  BY <1>1, Sending!FoldRuns
<1>3. r[0] = p /\ \A i \in 1..Len(q) : r[i] = DoSend(r[i - 1], q[i])
  BY <1>2 DEF Sending!IsRun
<1> DEFINE Good(i) == \E l \in Seq(Commands) : Logged(r[i], p, l) /\ CmdOK(l, Rest(q, i), n)
           T == {i \in Nat : Good(i)}
<1>4. Len(q) \in Nat
  BY LenProperties
<1>5. Good(0)
  <2>1. p.c.log \in Seq(Commands) /\ Logged(p, p, p.c.log)
    BY DEF Formed, Queues, PageFields, Logged
  <2> QED  BY <1>3, <2>1, RestParts
<1>6. ASSUME NEW i \in Nat, i + 1 <= Len(q), Good(i) PROVE Good(i + 1)
  <2>1. i + 1 \in 1..Len(q) /\ (i + 1) - 1 = i
    BY <1>4, <1>6
  <2>2. PICK l \in Seq(Commands) : Logged(r[i], p, l) /\ CmdOK(l, Rest(q, i), n)
    BY <1>6
  <2>3. /\ Rest(q, i) \in Seq(Queued) /\ Rest(q, i) # <<>> /\ Head(Rest(q, i)) = q[i + 1]
        /\ Tail(Rest(q, i)) = Rest(q, i + 1)
    BY <2>1, RestParts
  <2>4. PICK m \in Queued : m = q[i + 1]
    BY <2>1, ElementOfSeq
  <2>5. r[i + 1] = DoSend(r[i], m)
    BY <1>3, <2>1, <2>4
  <2>6. /\ CmdOK(l, Rest(q, i + 1), n)
        /\ m.k = "cmd" => m.n \in Commands /\ CmdOK(Append(l, m.n), Rest(q, i + 1), n)
    BY <2>2, <2>3, <2>4, CmdFlushed
  <2>7. CASE m.k = "cmd"
    <3>1. PICK l2 \in Seq(Commands) : l2 = Append(l, m.n)
      BY <2>6, <2>7, AppendParts
    <3>2. r[i + 1] = [r[i] EXCEPT !.c.log = Append(r[i].c.log, m.n)]
      BY <2>5, <2>7 DEF DoSend
    <3>3. r[i].c.log = l
      BY <2>2 DEF Formed, PageFields, Logged
    <3>4. r[i + 1] = [r[i] EXCEPT !.c.log = l2]
      BY <3>1, <3>2, <3>3
    <3>5. r[i + 1] = [p EXCEPT !.c.log = l2]
      BY <2>2, <3>4 DEF Formed, PageFields, Logged
    <3>6. Logged(r[i + 1], p, l2)
      BY <3>5 DEF Logged
    <3> QED  BY <2>6, <2>7, <3>1, <3>6
  <2>8. CASE m.k = "info"
    <3>1. r[i + 1] = r[i]
      BY <2>5, <2>8 DEF DoSend
    <3> QED  BY <2>2, <2>6, <3>1
  <2>9. m.k \in {"cmd", "info"}
    BY DEF Queued
  <2> QED  BY <2>7, <2>8, <2>9
<1>7. Good(Len(q))
  <2> HIDE DEF Good
  <2>1. 0 \in T
    BY <1>5
  <2>2. \A i \in Nat : i + 1 <= Len(q) /\ i \in T => i + 1 \in T
    BY <1>6
  <2>3. Len(q) \in T
    <3> HIDE DEF T
    <3> QED  BY <1>4, <2>1, <2>2, StepsTo
  <2> QED  BY <2>3
<1>8. Rest(q, Len(q)) = <<>>
  BY RestParts
<1> QED  BY <1>2, <1>7, <1>8

(* _onSocketOpen() keeps everything; the queue is sent there. *)
LEMMA OnSocketOpenSound ==
    ASSUME NEW p, NEW s \in Seq(Message), NEW u, Bounds(u), Sound(p, s, u),
           NEW o, o = [p EXCEPT !.c.sock = "open"]
    PROVE  Sound(OnSocketOpen(o), s, u)
<1> DEFINE o1 == [o EXCEPT !.c.recycling = FALSE, !.c.idle = FALSE]
           w == [Nobody EXCEPT !.state = "loading"]
           rec == p.c.reconnecting \/ p.c.docLayer
           b == [[o1 EXCEPT !.wsd = w] EXCEPT !.c.reconnecting = rec]
           q == p.c.queue
<1>1. DoSend(o1, [k |-> "load"]) = [o1 EXCEPT !.wsd = w]
  BY DEF DoSend
<1>2. rec \in BOOLEAN
  BY DEF Sound, Formed, Flags
<1>3. Formed(o) /\ Same(o, p) /\ o.c.slurp = p.c.slurp /\ o.c.reconnecting = p.c.reconnecting
      /\ o.c.docLayer = p.c.docLayer
  BY DEF Sound, Formed, Flags, Queues, Session, PageFields, Same
<1>4. Session(w) /\ w.wire = <<>> /\ w.view = TRUE
  BY NobodySession DEF Session, Nobody
<1>5. Formed(o1) /\ Same(o1, p) /\ o1.c.reconnecting = p.c.reconnecting
  <2>1. ASSUME NEW x \in BOOLEAN, NEW y \in BOOLEAN
        PROVE  Formed([o EXCEPT !.c.recycling = x, !.c.idle = y])
    <3>1. DOMAIN o = {"c", "wsd"} /\ DOMAIN o.c = PageFields /\ Flags(o.c) /\ Queues(o.c) /\ Session(o.wsd)
      BY <1>3 DEF Formed
    <3>2. PICK z : z = [o.c EXCEPT !.recycling = x, !.idle = y]
      OBVIOUS
    <3>3. DOMAIN z = PageFields /\ Flags(z) /\ Queues(z)
      BY <3>1, <3>2 DEF Flags, Queues, PageFields
    <3>4. Formed([o EXCEPT !.c = z])
      BY <3>1, <3>3 DEF Formed
    <3>5. [o EXCEPT !.c.recycling = x, !.c.idle = y] = [o EXCEPT !.c = z]
      BY <3>1, <3>2
    <3> QED  BY <3>4, <3>5
  <2>2. Formed(o1)
    BY <2>1, Zenon
  <2> QED  BY <1>3, <2>2 DEF Formed, PageFields, Same
<1> HIDE DEF o1, w, rec
<1>6. /\ Formed(b) /\ b.wsd = w /\ b.c.log = p.c.log /\ b.c.queue = q
      /\ b.c.delayed = p.c.delayed /\ b.c.handled = p.c.handled /\ b.c.count = p.c.count
  BY <1>2, <1>4, <1>5 DEF Formed, Flags, Queues, PageFields, Same
<1>7. OnSocketOpen(o) = Activate([FoldLeft(DoSend, b, q) EXCEPT !.c.queue = <<>>])
  <2>1. o.c.queue = q
    BY <1>3 DEF Same
  <2>2. [[o1 EXCEPT !.wsd = w] EXCEPT !.c.reconnecting = @ \/ o.c.docLayer] = b
    <3>1. [o1 EXCEPT !.wsd = w].c.reconnecting = p.c.reconnecting
      BY <1>5 DEF Formed
    <3> QED  BY <1>3, <3>1 DEF rec
  <2> QED  BY <1>1, <2>1, <2>2 DEF OnSocketOpen, o1
<1>8. u["sends"] \in Nat /\ q \in Seq(Queued) /\ CmdOK(b.c.log, q, u["sends"])
  BY <1>6, BoundsNat DEF Sound, Formed, Queues
<1> HIDE DEF b, q
<1>9. PICK l \in Seq(Commands) :
         Logged(FoldLeft(DoSend, b, q), b, l) /\ CmdOK(l, <<>>, u["sends"])
  BY <1>6, <1>8, QueueFlushed
<1>10. PICK f : f = FoldLeft(DoSend, b, q)
  OBVIOUS
<1>11. /\ Formed(f) /\ f.wsd = w /\ f.c.log = l /\ f.c.delayed = p.c.delayed
       /\ f.c.handled = p.c.handled /\ f.c.count = p.c.count
  <2>1. CASE f = b /\ l = b.c.log
    BY <1>6, <2>1
  <2>2. CASE f = [b EXCEPT !.c.log = l]
    BY <1>6, <2>2 DEF Formed, Flags, Queues, PageFields
  <2> QED  BY <1>9, <1>10, <2>1, <2>2 DEF Logged
<1> DEFINE e == [f EXCEPT !.c.queue = <<>>]
<1>12. /\ Formed(e) /\ e.wsd = w /\ e.c.log = l /\ e.c.delayed = p.c.delayed /\ e.c.queue = <<>>
       /\ e.c.handled = p.c.handled /\ e.c.count = p.c.count
  <2>1. <<>> \in Seq(Queued)
    BY EmptySeq
  <2> QED  BY <1>11, <2>1 DEF Formed, Flags, Queues, PageFields
<1>13. /\ LayerOK(p.c.handled, p.c.delayed, s, <<>>, u["views"])
       /\ CountOK(p.c.count, s, <<>>, u["faults"]) /\ OnlyViews(p.c.delayed)
  BY EmptyWire DEF Sound
<1> HIDE DEF e
<1>14. Sound(e, s, u)
  BY <1>4, <1>9, <1>12, <1>13 DEF Sound
<1> QED  BY <1>7, <1>10, <1>14, ActivateSound DEF e

(* _onSocketClose() keeps everything. *)
LEMMA OnSocketCloseSound ==
    ASSUME NEW p, NEW s \in Seq(Message), NEW u, Bounds(u), Sound(p, s, u)
    PROVE  Sound(OnSocketClose(p), s, u)
<1> DEFINE e == p.c.error \/ (p.c.active /\ p.c.reconnecting)
           h == p.c.hasty \/ (p.c.active /\ p.c.reconnecting /\ ~p.c.tried)
           t == Append(p.c.timers, "close")
           q == [p EXCEPT !.c.active = FALSE, !.c.docLoaded = FALSE, !.c.error = e,
                          !.c.hasty = h, !.c.timers = t]
<1>1. e \in BOOLEAN /\ h \in BOOLEAN
  BY DEF Sound, Formed, Flags
<1>2. t \in Seq(Timers)
  <2>1. p.c.timers \in Seq(Timers) /\ "close" \in Timers
    BY DEF Sound, Formed, Queues, Timers
  <2> QED  BY <2>1, AppendParts
<1>3. OnSocketClose(p) = p \/ OnSocketClose(p) = q
  BY DEF OnSocketClose
<1> HIDE DEF e, h, t
<1>4. Formed(q)
  <2>1. ASSUME NEW x \in BOOLEAN, NEW y \in BOOLEAN
        PROVE  Formed([p EXCEPT !.c.active = x, !.c.docLoaded = y, !.c.error = e,
                                !.c.hasty = h, !.c.timers = t])
    BY <1>1, <1>2 DEF Sound, Formed, Flags, Queues, Session, PageFields
  <2> QED  BY <2>1, Zenon
<1>5. Same(q, p) /\ q.c.active = FALSE /\ q.c.sock = p.c.sock
  BY DEF Sound, Formed, PageFields, Same
<1>6. q.c.sock = "open" => q.c.queue = <<>>
  BY <1>5 DEF Sound, Same
<1> HIDE DEF q
<1>7. Sound(q, s, u)
  BY <1>4, <1>5, <1>6, FrameSound
<1> QED  BY <1>3, <1>7

(* The delayed half of _onSocketClose() keeps everything. *)
LEMMA CloseTimerSound ==
    ASSUME NEW p, NEW s \in Seq(Message), NEW u, Bounds(u), Sound(p, s, u)
    PROVE  Sound(CloseTimer(p), s, u)
<1> DEFINE q == [p EXCEPT !.c.reconnecting = TRUE]
<1>1. Sound(q, s, u)
  BY DEF Sound, Formed, Flags, Queues, Session, PageFields
<1> HIDE DEF q
<1>2. Sound(Activate(q), s, u)
  BY <1>1, ActivateSound
<1> QED  BY <1>2 DEF CloseTimer, q

(* A tick of the reconnection interval keeps everything. *)
LEMMA IntervalTickSound ==
    ASSUME NEW p, NEW s \in Seq(Message), NEW u, Bounds(u), Sound(p, s, u)
    PROVE  Sound(IntervalTick(p), s, u)
BY ActivateSound, LoadDocumentSound DEF IntervalTick
-----------------------------------------------------------------------------
(* Messages for the document layer. *)

(* Writing down what the layer handled twice leaves the second. *)
LEMMA HandledAgain ==
    ASSUME NEW p, Formed(p), NEW g, NEW h
    PROVE  [[p EXCEPT !.c.handled = g] EXCEPT !.c.handled = h] = [p EXCEPT !.c.handled = h]
<1>1. [p EXCEPT !.c.handled = g].c = [p.c EXCEPT !.handled = g]
  BY DEF Formed
<1>2. [[p.c EXCEPT !.handled = g] EXCEPT !.handled = h] = [p.c EXCEPT !.handled = h]
  BY DEF Formed, PageFields
<1>3. \A x : [[p EXCEPT !.c = x] EXCEPT !.c = [p.c EXCEPT !.handled = h]] = [p EXCEPT !.c = [p.c EXCEPT !.handled = h]]
  BY DEF Formed
<1> QED  BY <1>1, <1>2, <1>3

(* p with other messages handled. *)
Shown(q, p, h) == (q = p /\ h = p.c.handled) \/ q = [p EXCEPT !.c.handled = h]

(* Handling what was delayed adds it to what was handled, in its order. *)
LEMMA DelayedHandled ==
    ASSUME NEW p, Formed(p), NEW s, NEW w, NEW n \in Nat, NEW q \in Seq(Message), OnlyViews(q),
           LayerOK(p.c.handled, q, s, w, n)
    PROVE  \E h \in Seq(Message) : Shown(FoldLeft(Handle, p, q), p, h) /\ LayerOK(h, <<>>, s, w, n)
<1>1. FoldLeft(Handle, p, q) = Delaying!Fold(p, q)
  BY DEF FoldLeft, MapThenFoldSet, Max, Delaying!Max, Delaying!Fold
<1>2. PICK r : Delaying!IsRun(r, p, q) /\ FoldLeft(Handle, p, q) = r[Len(q)]
  BY <1>1, Delaying!FoldRuns
<1>3. r[0] = p /\ \A i \in 1..Len(q) : r[i] = Handle(r[i - 1], q[i])
  BY <1>2 DEF Delaying!IsRun
<1> DEFINE Good(i) == \E h \in Seq(Message) : Shown(r[i], p, h) /\ LayerOK(h, Rest(q, i), s, w, n)
           T == {i \in Nat : Good(i)}
<1>4. Len(q) \in Nat /\ DOMAIN q = 1..Len(q)
  BY LenProperties
<1>5. Good(0)
  <2>1. p.c.handled \in Seq(Message) /\ Shown(p, p, p.c.handled)
    BY DEF Formed, Queues, PageFields, Shown
  <2> QED  BY <1>3, <2>1, RestParts
<1>6. ASSUME NEW i \in Nat, i + 1 <= Len(q), Good(i) PROVE Good(i + 1)
  <2>1. i + 1 \in 1..Len(q) /\ (i + 1) - 1 = i
    BY <1>4, <1>6
  <2>2. PICK h \in Seq(Message) : Shown(r[i], p, h) /\ LayerOK(h, Rest(q, i), s, w, n)
    BY <1>6
  <2>3. /\ Rest(q, i) \in Seq(Message) /\ Rest(q, i) # <<>> /\ Head(Rest(q, i)) = q[i + 1]
        /\ Tail(Rest(q, i)) = Rest(q, i + 1)
    BY <2>1, RestParts
  <2>4. PICK m \in Message : m = q[i + 1]
    BY <2>1, ElementOfSeq
  <2>6. LayerOK(Append(h, m), Rest(q, i + 1), s, w, n)
    BY <2>2, <2>3, <2>4, LayerDrained
  <2>7. PICK g \in Seq(Message) : g = Append(h, m)
    BY AppendParts
  <2>8. r[i + 1] = [r[i] EXCEPT !.c.handled = Append(r[i].c.handled, m)]
    BY <1>3, <2>1, <2>4 DEF Handle
  <2>9. r[i].c.handled = h
    BY <2>2 DEF Formed, PageFields, Shown
  <2>10. r[i + 1] = [r[i] EXCEPT !.c.handled = g]
    BY <2>7, <2>8, <2>9
  <2>11. r[i + 1] = [p EXCEPT !.c.handled = g]
    <3>1. CASE r[i] = p
      BY <2>10, <3>1
    <3>2. CASE r[i] = [p EXCEPT !.c.handled = h]
      <4>1. r[i + 1] = [[p EXCEPT !.c.handled = h] EXCEPT !.c.handled = g]
        BY <2>10, <3>2
      <4>2. [[p EXCEPT !.c.handled = h] EXCEPT !.c.handled = g] = [p EXCEPT !.c.handled = g]
        BY HandledAgain
      <4> QED  BY <4>1, <4>2
    <3> QED  BY <2>2, <3>1, <3>2 DEF Shown
  <2>12. Shown(r[i + 1], p, g)
    BY <2>11 DEF Shown
  <2> QED  BY <2>6, <2>7, <2>12
<1>7. Good(Len(q))
  <2> HIDE DEF Good
  <2>1. 0 \in T
    BY <1>5
  <2>2. \A i \in Nat : i + 1 <= Len(q) /\ i \in T => i + 1 \in T
    BY <1>6
  <2>3. Len(q) \in T
    <3> HIDE DEF T
    <3> QED  BY <1>4, <2>1, <2>2, StepsTo
  <2> QED  BY <2>3
<1>8. Rest(q, Len(q)) = <<>>
  BY RestParts
<1> QED  BY <1>2, <1>7, <1>8

(* _handleDelayedMessages() keeps the order of messages. *)
LEMMA HandleDelayedSound ==
    ASSUME NEW p, NEW s \in Seq(Message), NEW u, Bounds(u), Sound(p, s, u)
    PROVE  Sound(HandleDelayed(p), s, u)
<1>1. CASE ~p.c.docLayer
  <2> DEFINE q == [p EXCEPT !.c.delayTimer = TRUE]
  <2>1. Sound(q, s, u)
    BY DEF Sound, Formed, Flags, Queues, Session, PageFields
  <2> QED  BY <1>1, <2>1 DEF HandleDelayed
<1>2. CASE p.c.docLayer
  <2>1. /\ Formed(p) /\ p.c.delayed \in Seq(Message) /\ OnlyViews(p.c.delayed) /\ u["views"] \in Nat
        /\ LayerOK(p.c.handled, p.c.delayed, s, p.wsd.wire, u["views"])
    BY BoundsNat DEF Sound, Formed, Queues
  <2>2. PICK h \in Seq(Message) :
           /\ Shown(FoldLeft(Handle, p, p.c.delayed), p, h)
           /\ LayerOK(h, <<>>, s, p.wsd.wire, u["views"])
    BY <2>1, DelayedHandled
  <2>3. PICK f : f = FoldLeft(Handle, p, p.c.delayed)
    OBVIOUS
  <2>4. /\ Formed(f) /\ f.wsd = p.wsd /\ f.c.log = p.c.log /\ f.c.queue = p.c.queue
        /\ f.c.handled = h /\ f.c.count = p.c.count /\ f.c.sock = p.c.sock
        /\ f.c.active = p.c.active /\ f.c.muted = p.c.muted
    <3>1. CASE f = p /\ h = p.c.handled
      BY <2>1, <3>1
    <3>2. CASE f = [p EXCEPT !.c.handled = h]
      BY <2>1, <3>2 DEF Formed, Flags, Queues, PageFields
    <3> QED  BY <2>2, <2>3, <3>1, <3>2 DEF Shown
  <2> DEFINE e == [f EXCEPT !.c.delayed = <<>>, !.c.delayTimer = FALSE]
  <2>5. Formed(e)
    <3>1. ASSUME NEW d \in Seq(Message), NEW b \in BOOLEAN
          PROVE  Formed([f EXCEPT !.c.delayed = d, !.c.delayTimer = b])
      BY <2>4 DEF Formed, Flags, Queues, PageFields
    <3>2. <<>> \in Seq(Message)
      BY EmptySeq
    <3> QED  BY <3>1, <3>2, Zenon
  <2>6. /\ e.wsd = p.wsd /\ e.c.log = p.c.log /\ e.c.queue = p.c.queue /\ e.c.delayed = <<>>
        /\ e.c.handled = h /\ e.c.count = p.c.count /\ e.c.sock = p.c.sock
        /\ e.c.active = p.c.active /\ e.c.muted = p.c.muted
    BY <2>4 DEF Formed, PageFields
  <2>7. HandleDelayed(p) = e
    BY <1>2, <2>3 DEF HandleDelayed
  <2>8. OnlyViews(<<>>)
    BY DEF OnlyViews
  <2> HIDE DEF e
  <2>9. Sound(e, s, u)
    BY <2>2, <2>5, <2>6, <2>8 DEF Sound
  <2> QED  BY <2>7, <2>9
<1> QED  BY <1>1, <1>2

(* A message without effect on the page may be taken away. *)
LEMMA TakenSound ==
    ASSUME NEW p, NEW s \in Seq(Message), s # <<>>, NEW u, Bounds(u), Sound(p, s, u)
    PROVE  Sound(p, Tail(s), u)
<1>1. p.c.count \in Nat /\ p.wsd.wire \in Seq(Message)
  BY DEF Sound, Formed, Flags, Session
<1>2. /\ LayerOK(p.c.handled, p.c.delayed, Tail(s), p.wsd.wire, u["views"])
      /\ CountOK(p.c.count, Tail(s), p.wsd.wire, u["faults"])
  BY <1>1, BoundsNat, LayerTaken, CountTaken DEF Sound
<1> QED  BY <1>2 DEF Sound

(* A message for the layer is handled or delayed in its order, or lost. *)
LEMMA OnLayerMessageSound ==
    ASSUME NEW p, NEW s \in Seq(Message), s # <<>>, Head(s).k = "view", NEW u, Bounds(u), Sound(p, s, u)
    PROVE  Sound(OnLayerMessage(p, Head(s)), Tail(s), u)
<1>1. PICK m \in Message : m = Head(s)
  BY TailParts
<1>2. /\ Formed(p) /\ p.c.delayed \in Seq(Message) /\ p.c.handled \in Seq(Message)
      /\ p.c.count \in Nat /\ p.wsd.wire \in Seq(Message)
      /\ u["views"] \in Nat /\ u["faults"] \in Nat /\ p.c.delayTimer \in BOOLEAN
      /\ OnlyViews(p.c.delayed) /\ Tail(s) \in Seq(Message)
  BY BoundsNat, TailParts DEF Sound, Formed, Flags, Queues, Session
<1>3. CountOK(p.c.count, Tail(s), p.wsd.wire, u["faults"])
  BY <1>2, CountTaken DEF Sound
<1> DEFINE tries == ~p.c.docLayer \/ p.c.delayed # <<>>
<1>4. CASE ~(tries /\ m.delays) /\ p.c.docLayer
  <2>1. LayerOK(Append(p.c.handled, m), p.c.delayed, Tail(s), p.wsd.wire, u["views"])
    BY <1>1, <1>2, <1>4, LayerHandled DEF Sound
  <2>2. PICK h \in Seq(Message) : h = Append(p.c.handled, m)
    BY <1>2, AppendParts
  <2> DEFINE q == [p EXCEPT !.c.handled = h]
  <2>3. OnLayerMessage(p, m) = q
    BY <1>4, <2>2 DEF OnLayerMessage, Handle
  <2>4. Formed(q)
    BY <1>2 DEF Formed, Flags, Queues, PageFields
  <2>5. /\ q.wsd = p.wsd /\ q.c.log = p.c.log /\ q.c.queue = p.c.queue /\ q.c.delayed = p.c.delayed
        /\ q.c.handled = h /\ q.c.count = p.c.count /\ q.c.sock = p.c.sock
        /\ q.c.active = p.c.active /\ q.c.muted = p.c.muted
    BY <1>2, <1>4 DEF Formed, PageFields
  <2> HIDE DEF q
  <2>6. Sound(q, Tail(s), u)
    BY <1>2, <1>3, <1>4, <2>1, <2>2, <2>4, <2>5 DEF Sound
  <2> QED  BY <1>1, <2>3, <2>6
<1>5. CASE tries /\ m.delays
  <2>1. LayerOK(p.c.handled, Append(p.c.delayed, m), Tail(s), p.wsd.wire, u["views"])
    BY <1>1, <1>2, <1>5, LayerDelayed DEF Sound
  <2>2. PICK d \in Seq(Message) : d = Append(p.c.delayed, m)
    BY <1>2, AppendParts
  <2>3. OnlyViews(d)
    <3>1. /\ Len(p.c.delayed) \in Nat
          /\ DOMAIN p.c.delayed = 1..Len(p.c.delayed) /\ DOMAIN d = 1..Len(p.c.delayed)+1
          /\ \A i \in DOMAIN p.c.delayed : d[i] = p.c.delayed[i]
          /\ d[Len(p.c.delayed) + 1] = m
      BY <1>2, <2>2, AppendParts
    <3>2. \A i \in DOMAIN p.c.delayed : p.c.delayed[i].k = "view"
      BY <1>2 DEF OnlyViews
    <3> QED  BY <1>1, <3>1, <3>2 DEF OnlyViews
  <2> DEFINE p1 == [p EXCEPT !.c.delayed = d]
  <2>4. Formed(p1)
    BY <1>2 DEF Formed, Flags, Queues, PageFields
  <2>5. /\ p1.wsd = p.wsd /\ p1.c.log = p.c.log /\ p1.c.queue = p.c.queue /\ p1.c.delayed = d
        /\ p1.c.handled = p.c.handled /\ p1.c.count = p.c.count /\ p1.c.sock = p.c.sock
        /\ p1.c.active = p.c.active /\ p1.c.muted = p.c.muted
    BY <1>2 DEF Formed, PageFields
  <2>6. OnLayerMessage(p, m) = p1 \/ OnLayerMessage(p, m) = HandleDelayed(p1)
    BY <1>5, <2>2 DEF OnLayerMessage
  <2> HIDE DEF p1
  <2>7. Sound(p1, Tail(s), u)
    BY <1>3, <2>1, <2>2, <2>3, <2>4, <2>5 DEF Sound
  <2>8. Sound(HandleDelayed(p1), Tail(s), u)
    BY <1>2, <2>7, HandleDelayedSound
  <2> QED  BY <1>1, <2>6, <2>7, <2>8
<1>6. CASE ~(tries /\ m.delays) /\ ~p.c.docLayer
  <2>1. OnLayerMessage(p, m) = p
    BY <1>6 DEF OnLayerMessage
  <2> QED  BY <1>1, <2>1, TakenSound
<1> QED  BY <1>4, <1>5, <1>6
-----------------------------------------------------------------------------
(* The other messages from wsd. *)

(* The first status message, that makes the layer, keeps everything. *)
LEMMA OnStatusMsgSound ==
    ASSUME NEW p, NEW s \in Seq(Message), NEW u, Bounds(u), Sound(p, s, u)
    PROVE  Sound(OnStatusMsg(p), s, u)
<1> DEFINE r == p.c.reconnecting /\ ~p.c.docLayer
           q == [p EXCEPT !.c.docLayer = TRUE, !.c.docLoaded = TRUE, !.c.tried = FALSE,
                          !.c.reconnecting = r, !.c.leftover = r]
<1>1. r \in BOOLEAN
  BY DEF Sound, Formed, Flags
<1>2. OnStatusMsg(p) = Activate(SendMessage(q, [k |-> "info"]))
  BY DEF OnStatusMsg
<1> HIDE DEF r
<1>3. Formed(q)
  <2>1. ASSUME NEW x \in BOOLEAN, NEW y \in BOOLEAN, NEW z \in BOOLEAN
        PROVE  Formed([p EXCEPT !.c.docLayer = x, !.c.docLoaded = y, !.c.tried = z,
                                !.c.reconnecting = r, !.c.leftover = r])
    BY <1>1 DEF Sound, Formed, Flags, Queues, PageFields
  <2> QED  BY <2>1, Zenon
<1>4. /\ Same(q, p) /\ q.c.active = p.c.active /\ q.wsd = p.wsd
      /\ q.c.muted = p.c.muted /\ q.c.sock = p.c.sock
  BY DEF Sound, Formed, PageFields, Same
<1> HIDE DEF q
<1>5. Sound(q, s, u)
  BY <1>3, <1>4 DEF Sound, Same
<1> QED  BY <1>2, <1>5, InfoSound, ActivateSound

(* The refusal while the document unloads keeps everything and is counted. *)
LEMMA OnUnloadingSound ==
    ASSUME NEW p, NEW s \in Seq(Message), s # <<>>, Head(s).k = "unloading", NEW u, Bounds(u),
           Sound(p, s, u)
    PROVE  Sound(OnUnloading(p), Tail(s), u)
<1>0. PICK k : k = Close(p)
  OBVIOUS
<1>1. /\ Sound(k, s, u) /\ k.c.count = p.c.count /\ k.c.count \in Nat /\ k.wsd.wire \in Seq(Message)
      /\ u["faults"] \in Nat /\ Tail(s) \in Seq(Message)
  BY <1>0, CloseSound, BoundsNat, TailParts DEF Sound, Formed, Flags, Session
<1>2. Sound(k, Tail(s), u)
  BY <1>1, TakenSound
<1>3. CountOK(k.c.count + 1, Tail(s), k.wsd.wire, u["faults"])
  BY <1>1, CountTaken DEF Sound
<1>4. PICK n \in Nat : n = k.c.count + 1
  BY <1>1
<1>5. DOMAIN k = {"c", "wsd"} /\ DOMAIN k.c = PageFields
  BY <1>1 DEF Sound, Formed
<1> DEFINE p1 == [k EXCEPT !.c.active = FALSE, !.c.count = n]
<1>6. Sound(p1, Tail(s), u)
  <2>1. ASSUME NEW a \in BOOLEAN
        PROVE  Formed([k EXCEPT !.c.active = a, !.c.count = n])
    BY <1>2 DEF Sound, Formed, Flags, Queues, PageFields
  <2>2. Formed(p1)
    BY <2>1, Zenon
  <2>3. /\ p1.wsd = k.wsd /\ p1.c.log = k.c.log /\ p1.c.queue = k.c.queue /\ p1.c.delayed = k.c.delayed
        /\ p1.c.handled = k.c.handled /\ p1.c.count = n /\ p1.c.sock = k.c.sock
        /\ p1.c.active = FALSE
    BY <1>5 DEF PageFields
  <2> HIDE DEF p1
  <2> QED  BY <1>2, <1>3, <1>4, <2>2, <2>3 DEF Sound
<1>7. OnUnloading(p) \in {[p1 EXCEPT !.c.interval = "none", !.c.error = TRUE], [p1 EXCEPT !.c.interval = "activate"]}
  BY <1>0, <1>4 DEF OnUnloading
<1> HIDE DEF p1
<1>8. Sound([p1 EXCEPT !.c.interval = "activate"], Tail(s), u)
  <2> DEFINE q == [p1 EXCEPT !.c.interval = "activate"]
  <2>1. Formed(q)
    BY <1>6 DEF Sound, Formed, Flags, Queues, PageFields
  <2>2. Same(q, p1) /\ q.wsd = p1.wsd /\ q.c.sock = p1.c.sock /\ q.c.active = p1.c.active
        /\ q.c.muted = p1.c.muted
    BY <1>6 DEF Sound, Formed, PageFields, Same
  <2> HIDE DEF q
  <2>3. Sound(q, Tail(s), u)
    BY <1>6, <2>1, <2>2 DEF Sound, Same
  <2> QED  BY <2>3 DEF q
<1>9. Sound([p1 EXCEPT !.c.interval = "none", !.c.error = TRUE], Tail(s), u)
  <2> DEFINE q == [p1 EXCEPT !.c.interval = "none", !.c.error = TRUE]
  <2>1. ASSUME NEW e \in BOOLEAN
        PROVE  Formed([p1 EXCEPT !.c.interval = "none", !.c.error = e])
    BY <1>6 DEF Sound, Formed, Flags, Queues, PageFields
  <2>2. Same(q, p1) /\ q.wsd = p1.wsd /\ q.c.sock = p1.c.sock /\ q.c.active = p1.c.active
        /\ q.c.muted = p1.c.muted
    BY <1>6 DEF Sound, Formed, PageFields, Same
  <2>3. Formed(q)
    BY <2>1, Zenon
  <2> HIDE DEF q
  <2>4. Sound(q, Tail(s), u)
    BY <1>6, <2>2, <2>3 DEF Sound, Same
  <2> QED  BY <2>4 DEF q
<1> QED  BY <1>7, <1>8, <1>9

(* A load error keeps everything. *)
LEMMA OnLoadErrorSound ==
    ASSUME NEW p, NEW s \in Seq(Message), NEW u, Bounds(u), Sound(p, s, u),
           NEW kind \in {"failed", "password"}
    PROVE  Sound(OnLoadError(p, kind), s, u)
<1>0. PICK k : k = Close(p)
  OBVIOUS
<1>1. Sound(k, s, u)
  BY <1>0, CloseSound
<1>2. CASE kind = "failed"
  <2> DEFINE q == [k EXCEPT !.c.fatal = TRUE, !.c.error = TRUE]
  <2>1. ASSUME NEW x \in BOOLEAN, NEW y \in BOOLEAN
        PROVE  Formed([k EXCEPT !.c.fatal = x, !.c.error = y])
    BY <1>1 DEF Sound, Formed, Flags, Queues, PageFields
  <2>2. Formed(q)
    BY <2>1, Zenon
  <2>3. Same(q, k) /\ q.wsd = k.wsd /\ q.c.sock = k.c.sock /\ q.c.active = k.c.active
        /\ q.c.muted = k.c.muted
    BY <1>1 DEF Sound, Formed, PageFields, Same
  <2>4. OnLoadError(p, kind) = q
    BY <1>0, <1>2 DEF OnLoadError
  <2> HIDE DEF q
  <2> QED  BY <1>1, <2>2, <2>3, <2>4 DEF Sound, Same
<1>3. CASE kind = "password"
  <2> DEFINE q == [k EXCEPT !.c.asking = TRUE]
  <2>1. Formed(q)
    BY <1>1 DEF Sound, Formed, Flags, Queues, PageFields
  <2>2. Same(q, k) /\ q.wsd = k.wsd /\ q.c.sock = k.c.sock /\ q.c.active = k.c.active
        /\ q.c.muted = k.c.muted
    BY <1>1 DEF Sound, Formed, PageFields, Same
  <2>3. OnLoadError(p, kind) = q
    BY <1>0, <1>3 DEF OnLoadError
  <2> HIDE DEF q
  <2> QED  BY <1>1, <2>1, <2>2, <2>3 DEF Sound, Same
<1> QED  BY <1>2, <1>3

(* Another error message keeps everything. *)
LEMMA OnOtherErrorSound ==
    ASSUME NEW p, NEW s \in Seq(Message), NEW u, Bounds(u), Sound(p, s, u)
    PROVE  Sound(OnOtherError(p), s, u)
<1> DEFINE q == [p EXCEPT !.c.error = TRUE]
           r == [p EXCEPT !.c.fatal = TRUE, !.c.active = FALSE, !.c.error = TRUE]
<1>1. Sound(q, s, u)
  <2>1. Formed(q)
    BY DEF Sound, Formed, Flags, Queues, PageFields
  <2>2. Same(q, p) /\ q.wsd = p.wsd /\ q.c.sock = p.c.sock /\ q.c.active = p.c.active
        /\ q.c.muted = p.c.muted
    BY DEF Sound, Formed, PageFields, Same
  <2> HIDE DEF q
  <2> QED  BY <2>1, <2>2 DEF Sound, Same
<1>2. Sound(r, s, u)
  <2>1. ASSUME NEW x \in BOOLEAN, NEW y \in BOOLEAN, NEW z \in BOOLEAN
        PROVE  Formed([p EXCEPT !.c.fatal = x, !.c.active = y, !.c.error = z])
    BY DEF Sound, Formed, Flags, Queues, PageFields
  <2>2. Formed(r)
    BY <2>1, Zenon
  <2>3. Same(r, p) /\ r.wsd = p.wsd /\ r.c.sock = p.c.sock /\ r.c.active = FALSE
    BY DEF Sound, Formed, PageFields, Same
  <2> HIDE DEF r
  <2> QED  BY <2>2, <2>3 DEF Sound, Same
<1> QED  BY <1>1, <1>2 DEF OnOtherError

(* A close message keeps everything. *)
LEMMA OnCloseMsgSound ==
    ASSUME NEW p, NEW s \in Seq(Message), NEW u, Bounds(u), Sound(p, s, u),
           NEW reason \in {"idle", "recycling", "reload"}
    PROVE  Sound(OnCloseMsg(p, reason), s, u)
<1>1. CASE reason = "idle"
  <2> DEFINE q == [p EXCEPT !.c.idle = TRUE, !.c.active = FALSE, !.c.dimmed = TRUE]
  <2>1. ASSUME NEW x \in BOOLEAN, NEW y \in BOOLEAN, NEW z \in BOOLEAN
        PROVE  Formed([p EXCEPT !.c.idle = x, !.c.active = y, !.c.dimmed = z])
    BY DEF Sound, Formed, Flags, Queues, PageFields
  <2>2. Formed(q)
    BY <2>1, Zenon
  <2>3. Same(q, p) /\ q.wsd = p.wsd /\ q.c.sock = p.c.sock /\ q.c.active = FALSE
    BY DEF Sound, Formed, PageFields, Same
  <2>4. OnCloseMsg(p, reason) = q
    BY <1>1 DEF OnCloseMsg
  <2> HIDE DEF q
  <2> QED  BY <2>2, <2>3, <2>4 DEF Sound, Same
<1>2. CASE reason = "recycling"
  <2> DEFINE q == [p EXCEPT !.c.active = FALSE, !.c.recycling = TRUE, !.c.interval = "load"]
  <2>1. ASSUME NEW x \in BOOLEAN, NEW y \in BOOLEAN
        PROVE  Formed([p EXCEPT !.c.active = x, !.c.recycling = y, !.c.interval = "load"])
    BY DEF Sound, Formed, Flags, Queues, PageFields
  <2>2. Formed(q)
    BY <2>1, Zenon
  <2>3. Same(q, p) /\ q.wsd = p.wsd /\ q.c.sock = p.c.sock /\ q.c.active = FALSE
    BY DEF Sound, Formed, PageFields, Same
  <2>4. OnCloseMsg(p, reason) = q
    BY <1>2 DEF OnCloseMsg
  <2> HIDE DEF q
  <2> QED  BY <2>2, <2>3, <2>4 DEF Sound, Same
<1>3. CASE reason = "reload"
  <2>0. PICK k : k = Close(p)
    OBVIOUS
  <2>1. Sound(k, s, u)
    BY <2>0, CloseSound
  <2> DEFINE q == [k EXCEPT !.c.active = FALSE, !.c.interval = "activate"]
  <2>2. ASSUME NEW x \in BOOLEAN
        PROVE  Formed([k EXCEPT !.c.active = x, !.c.interval = "activate"])
    BY <2>1 DEF Sound, Formed, Flags, Queues, PageFields
  <2>3. Formed(q)
    BY <2>2, Zenon
  <2>4. Same(q, k) /\ q.wsd = k.wsd /\ q.c.sock = k.c.sock /\ q.c.active = FALSE
    BY <2>1 DEF Sound, Formed, PageFields, Same
  <2>5. OnCloseMsg(p, reason) = q
    BY <1>3, <2>0 DEF OnCloseMsg
  <2> HIDE DEF q
  <2> QED  BY <2>1, <2>3, <2>4, <2>5 DEF Sound, Same
<1> QED  BY <1>1, <1>2, <1>3

(* The answer to the page's first words keeps everything. *)
LEMMA OnReadySound ==
    ASSUME NEW p, NEW s \in Seq(Message), NEW u, Bounds(u), Sound(p, s, u)
    PROVE  Sound(OnReady(p), s, u)
<1> DEFINE q == [p EXCEPT !.c.count = 0, !.c.interval = "none"]
<1>1. \A n \in Nat : Formed([p EXCEPT !.c.count = n, !.c.interval = "none"])
  BY DEF Sound, Formed, Flags, Queues, PageFields
<1>2. Formed(q)
  <2>1. 0 \in Nat
    OBVIOUS
  <2> QED  BY <1>1, <2>1
<1>3. /\ q.wsd = p.wsd /\ q.c.log = p.c.log /\ q.c.queue = p.c.queue /\ q.c.delayed = p.c.delayed
      /\ q.c.handled = p.c.handled /\ q.c.count = 0 /\ q.c.sock = p.c.sock
      /\ q.c.active = p.c.active /\ q.c.muted = p.c.muted
  BY DEF Sound, Formed, PageFields
<1>4. CountOK(0, s, p.wsd.wire, u["faults"])
  <2>1. p.c.count \in Nat /\ p.wsd.wire \in Seq(Message)
    BY DEF Sound, Formed, Flags, Session
  <2> QED  BY <2>1, BoundsNat, CountClosed DEF Sound
<1> HIDE DEF q
<1>5. Sound(q, s, u)
  BY <1>2, <1>3, <1>4 DEF Sound
<1> QED  BY <1>5 DEF OnReady, q

(* The answer to a save-as keeps everything. *)
LEMMA OnSaveAsSound ==
    ASSUME NEW p, NEW s \in Seq(Message), NEW u, Bounds(u), Sound(p, s, u)
    PROVE  Sound(OnSaveAs(p), s, u)
<1>1. Sound(LoadDocument(Close(p)), s, u)
  BY CloseSound, LoadDocumentSound
<1> QED  BY <1>1, InfoSound DEF OnSaveAs

(* Blocking and unblocking the page keep everything. *)
LEMMA BlockedSound ==
    ASSUME NEW p, NEW s, NEW u, Sound(p, s, u), NEW b \in BOOLEAN
    PROVE  Sound([p EXCEPT !.c.blocked = b], s, u)
<1> DEFINE q == [p EXCEPT !.c.blocked = b]
<1>1. Formed(q)
  BY DEF Sound, Formed, Flags, Queues, PageFields
<1>2. Same(q, p) /\ q.wsd = p.wsd /\ q.c.sock = p.c.sock /\ q.c.active = p.c.active
      /\ q.c.muted = p.c.muted
  BY DEF Sound, Formed, PageFields, Same
<1> HIDE DEF q
<1>3. Sound(q, s, u)
  BY <1>1, <1>2 DEF Sound, Same
<1> QED  BY <1>3 DEF q

(* Handling the first message of s leaves the rest of it. *)
LEMMA OnMessageSound ==
    ASSUME NEW p, NEW s \in Seq(Message), s # <<>>, NEW u, Bounds(u), Sound(p, s, u)
    PROVE  Sound(OnMessage(p, Head(s)), Tail(s), u)
<1>1. PICK m \in Message : m = Head(s)
  BY TailParts
<1>2. Sound(p, Tail(s), u) /\ Tail(s) \in Seq(Message)
  BY TakenSound, TailParts
<1>3. CASE m.k = "ready"
  BY <1>1, <1>2, <1>3, OnReadySound DEF OnMessage
<1>4. CASE m.k = "status"
  BY <1>1, <1>2, <1>4, OnStatusMsgSound DEF OnMessage
<1>5. CASE m.k = "view"
  BY <1>1, <1>5, OnLayerMessageSound DEF OnMessage
<1>6. CASE m.k \in {"idle", "recycling", "reload"}
  <2>1. OnMessage(p, m) = OnCloseMsg(p, m.k)
    BY <1>6 DEF OnMessage
  <2> QED  BY <1>1, <1>2, <1>6, <2>1, OnCloseMsgSound
<1>7. CASE m.k = "unloading"
  <2>1. OnMessage(p, m) = OnUnloading(p)
    BY <1>7 DEF OnMessage, OnLoadError
  <2> QED  BY <1>1, <1>7, <2>1, OnUnloadingSound
<1>8. CASE m.k \in {"failed", "password"}
  <2>1. OnMessage(p, m) = OnLoadError(p, m.k)
    BY <1>8 DEF OnMessage
  <2> QED  BY <1>1, <1>2, <1>8, <2>1, OnLoadErrorSound
<1>9. CASE m.k = "limit"
  BY <1>1, <1>2, <1>9, OnOtherErrorSound DEF OnMessage
<1>10. CASE m.k = "saveas"
  BY <1>1, <1>2, <1>10, OnSaveAsSound DEF OnMessage
<1>11. CASE m.k \in {"block", "unblock"}
  <2>1. PICK b \in BOOLEAN : OnMessage(p, m) = [p EXCEPT !.c.blocked = b]
    BY <1>11 DEF OnMessage
  <2> QED  BY <1>1, <1>2, <2>1, BlockedSound
<1>12. CASE m.k \in {"image", "decoded"}
  <2>1. OnMessage(p, m) = p
    BY <1>12 DEF OnMessage
  <2> QED  BY <1>1, <1>2, <2>1
<1>13. m.k \in {"ready", "status", "idle", "recycling", "reload", "unloading", "failed", "limit",
                "password", "saveas", "block", "unblock", "image", "decoded", "view"}
  BY DEF Message
<1> QED  BY <1>3, <1>4, <1>5, <1>6, <1>7, <1>8, <1>9, <1>10, <1>11, <1>12, <1>13

-----------------------------------------------------------------------------
(* The steps. *)

(* The page and wsd of a state make a well formed pair. *)
LEMMA NowFormed ==
    ASSUME NEW p, Become(p), Formed(p)
    PROVE  /\ Formed(Now') /\ Now'.c = p.c /\ Now'.wsd = p.wsd
           /\ DOMAIN Now' = {"c", "wsd"}
BY DEF Become, Now, Formed

(* An action that assigns a pair makes it the next state. *)
LEMMA Becomes ==
    ASSUME NEW p, NEW u, Sound(p, p.c.slurp, u), Become(p), used' = u
    PROVE  Sound(Now', c'.slurp, used')
<1>1. Formed(p) /\ c' = p.c /\ Now'.c = p.c /\ Now'.wsd = p.wsd /\ Formed(Now')
  BY NowFormed DEF Sound, Become
<1> QED  BY <1>1 DEF Sound

(* q is a page too, with the same messages slurped. *)
Shape(q, p) == DOMAIN q = {"c", "wsd"} /\ DOMAIN q.c = PageFields /\ q.c.slurp = p.c.slurp

(* Map.loadDocument() does not touch what was slurped. *)
LEMMA ShapeLoad ==
    ASSUME NEW p, Shape(p, p) PROVE Shape(LoadDocument(p), p)
<1>1. PICK k : k = Close(p)
  OBVIOUS
<1>2. Shape(k, p)
  BY <1>1 DEF Close, Shape, PageFields
<1>3. \A b : Shape([k EXCEPT !.c.sock = "connecting", !.c.tried = TRUE, !.c.stale = b], k)
  BY <1>2 DEF Shape, PageFields
<1> QED  BY <1>1, <1>2, <1>3 DEF LoadDocument, Shape

(* Socket.sendMessage() does not touch what was slurped. *)
LEMMA ShapeSend ==
    ASSUME NEW p, Shape(p, p), NEW m PROVE Shape(DoSend(p, m), p) /\ Shape(SendMessage(p, m), p)
<1>1. Shape(DoSend(p, m), p)
  BY DEF DoSend, Shape, PageFields
<1> DEFINE p1 == IF p.c.sock \in {"closing", "closed"} THEN LoadDocument(p) ELSE p
<1>2. Shape(p1, p)
  BY ShapeLoad
<1> HIDE DEF p1
<1>3. \A l : Shape([p1 EXCEPT !.c.queue = l], p)
  BY <1>2 DEF Shape, PageFields
<1> QED  BY <1>1, <1>3 DEF SendMessage, p1

(* Map._activate() does not touch what was slurped. *)
LEMMA ShapeActivate ==
    ASSUME NEW p, Shape(p, p) PROVE Shape(Activate(p), p)
<1>1. PICK q : q = SendMessage(p, [k |-> "useractive"]) /\ Shape(q, p)
  BY ShapeSend
<1>2. \A b : Shape([q EXCEPT !.c.active = TRUE, !.c.muted = b], p)
  BY <1>1 DEF Shape, PageFields
<1> QED  BY <1>1, <1>2, ShapeLoad DEF Activate

(* Map._deactivate() does not touch what was slurped. *)
LEMMA ShapeDeactivate ==
    ASSUME NEW p, Shape(p, p), NEW dialog PROVE Shape(Deactivate(p, dialog), p)
<1>1. PICK o : o = [p EXCEPT !.c.active = FALSE]
  OBVIOUS
<1>2. Shape(o, p) /\ Shape(o, o)
  BY <1>1 DEF Shape, PageFields
<1>3. PICK q : q = SendMessage(o, [k |-> "userinactive"]) /\ Shape(q, o)
  BY <1>2, ShapeSend
<1>4. \A b : Shape([q EXCEPT !.c.muted = b], p)
  BY <1>2, <1>3 DEF Shape, PageFields
<1> QED  BY <1>1, <1>2, <1>3, <1>4 DEF Deactivate

(* _onSocketClose() does not touch what was slurped. *)
LEMMA ShapeClose ==
    ASSUME NEW p, Shape(p, p)
    PROVE  Shape(OnSocketClose(p), p) /\ Shape(CloseTimer(p), p) /\ Shape(IntervalTick(p), p)
<1>1. Shape(OnSocketClose(p), p)
  BY DEF OnSocketClose, Shape, PageFields
<1>2. Shape(CloseTimer(p), p)
  <2>1. PICK o : o = [p EXCEPT !.c.reconnecting = TRUE]
    OBVIOUS
  <2>2. Shape(o, p) /\ Shape(o, o)
    BY <2>1 DEF Shape, PageFields
  <2>3. Shape(Activate(o), p)
    BY <2>2, ShapeActivate DEF Shape
  <2> QED  BY <2>1, <2>3 DEF CloseTimer
<1>3. Shape(IntervalTick(p), p)
  BY ShapeActivate, ShapeLoad DEF IntervalTick
<1> QED  BY <1>1, <1>2, <1>3

(* Sending the queue and handling what was delayed do not touch what was slurped. *)
LEMMA ShapeFolds ==
    ASSUME NEW p, Formed(p), NEW s, NEW w, NEW n \in Nat, OnlyViews(p.c.delayed),
           LayerOK(p.c.handled, p.c.delayed, s, w, n)
    PROVE  Shape(HandleDelayed(p), p)
<1>1. p.c.delayed \in Seq(Message)
  BY DEF Formed, Queues
<1>2. PICK h : Shown(FoldLeft(Handle, p, p.c.delayed), p, h)
  BY <1>1, DelayedHandled
<1>3. PICK f : f = FoldLeft(Handle, p, p.c.delayed)
  OBVIOUS
<1>4. Shape(f, p)
  <2>1. CASE f = p
    BY <2>1 DEF Shape, Formed
  <2>2. CASE f = [p EXCEPT !.c.handled = h]
    BY <2>2 DEF Shape, Formed, PageFields
  <2> QED  BY <1>2, <1>3, <2>1, <2>2 DEF Shown
<1>5. Shape([f EXCEPT !.c.delayed = <<>>, !.c.delayTimer = FALSE], p)
  BY <1>4 DEF Shape, PageFields
<1>6. Shape([p EXCEPT !.c.delayTimer = TRUE], p)
  BY DEF Formed, Shape, PageFields
<1> QED  BY <1>3, <1>5, <1>6 DEF HandleDelayed

(* _onSocketOpen() does not touch what was slurped. *)
LEMMA ShapeOpen ==
    ASSUME NEW p, Formed(p), NEW n \in Nat, CmdOK(p.c.log, p.c.queue, n)
    PROVE  Shape(OnSocketOpen(p), p)
<1> DEFINE o1 == [p EXCEPT !.c.recycling = FALSE, !.c.idle = FALSE]
           w == [Nobody EXCEPT !.state = "loading"]
           rec == p.c.reconnecting \/ p.c.docLayer
           b == [[o1 EXCEPT !.wsd = w] EXCEPT !.c.reconnecting = rec]
           q == p.c.queue
<1>1. DoSend(o1, [k |-> "load"]) = [o1 EXCEPT !.wsd = w]
  BY DEF DoSend
<1>2. rec \in BOOLEAN
  BY DEF Formed, Flags
<1>3. Session(w)
  BY NobodySession DEF Session, Nobody
<1>4. Formed(o1) /\ Shape(o1, p) /\ o1.c.reconnecting = p.c.reconnecting /\ o1.c.log = p.c.log
  <2>1. ASSUME NEW x \in BOOLEAN, NEW y \in BOOLEAN
        PROVE  Formed([p EXCEPT !.c.recycling = x, !.c.idle = y])
    BY DEF Formed, Flags, Queues, PageFields
  <2>2. Formed(o1)
    BY <2>1, Zenon
  <2> QED  BY <2>2 DEF Formed, Shape, PageFields
<1> HIDE DEF o1, w, rec
<1>5. Formed(b) /\ Shape(b, p) /\ b.c.log = p.c.log
  BY <1>2, <1>3, <1>4 DEF Formed, Flags, Queues, Shape, PageFields
<1>6. OnSocketOpen(p) = Activate([FoldLeft(DoSend, b, q) EXCEPT !.c.queue = <<>>])
  <2>1. [[o1 EXCEPT !.wsd = w] EXCEPT !.c.reconnecting = @ \/ p.c.docLayer] = b
    <3>1. [o1 EXCEPT !.wsd = w].c.reconnecting = p.c.reconnecting
      BY <1>4 DEF Formed
    <3> QED  BY <3>1 DEF rec
  <2> QED  BY <1>1, <2>1 DEF OnSocketOpen, o1
<1>7. q \in Seq(Queued) /\ CmdOK(b.c.log, q, n)
  BY <1>5 DEF Formed, Queues
<1> HIDE DEF b, q
<1>8. PICK l : Logged(FoldLeft(DoSend, b, q), b, l)
  BY <1>5, <1>7, QueueFlushed
<1>9. PICK f : f = FoldLeft(DoSend, b, q)
  OBVIOUS
<1>10. Shape(f, p)
  <2>1. CASE f = b
    BY <1>5, <2>1
  <2>2. CASE f = [b EXCEPT !.c.log = l]
    BY <1>5, <2>2 DEF Shape, PageFields
  <2> QED  BY <1>8, <1>9, <2>1, <2>2 DEF Logged
<1>11. PICK e : e = [f EXCEPT !.c.queue = <<>>]
  OBVIOUS
<1>12. Shape(e, p) /\ Shape(e, e)
  BY <1>10, <1>11 DEF Shape, PageFields
<1>13. Shape(Activate(e), p)
  BY <1>12, ShapeActivate DEF Shape
<1> QED  BY <1>6, <1>9, <1>11, <1>13

(* q has the fields of p that decide about a new connection. *)
Alike(q, p) ==
    /\ q.c.sock = p.c.sock /\ q.c.active = p.c.active /\ q.c.recycling = p.c.recycling
    /\ q.c.idle = p.c.idle /\ q.c.reconnecting = p.c.reconnecting /\ q.c.count = p.c.count
    /\ q.c.interval = p.c.interval /\ q.c.timers = p.c.timers /\ q.c.fatal = p.c.fatal
    /\ q.c.docLayer = p.c.docLayer /\ q.c.blocked = p.c.blocked /\ q.c.asking = p.c.asking
    /\ q.c.dimmed = p.c.dimmed /\ q.c.error = p.c.error /\ q.c.slurp = p.c.slurp
    /\ q.c.tried = p.c.tried /\ q.c.leftover = p.c.leftover /\ q.c.stale = p.c.stale
    /\ q.wsd.state = p.wsd.state /\ q.wsd.wire = p.wsd.wire

(* _handleDelayedMessages() is only about the layer. *)
LEMMA HandleDelayedAlike ==
    ASSUME NEW p, NEW s, NEW u, Bounds(u), Sound(p, s, u)
    PROVE  Alike(HandleDelayed(p), p)
<1>1. /\ Formed(p) /\ p.c.delayed \in Seq(Message) /\ OnlyViews(p.c.delayed) /\ u["views"] \in Nat
      /\ LayerOK(p.c.handled, p.c.delayed, s, p.wsd.wire, u["views"])
  BY BoundsNat DEF Sound, Formed, Queues
<1>2. PICK h : Shown(FoldLeft(Handle, p, p.c.delayed), p, h)
  BY <1>1, DelayedHandled
<1>3. PICK f : f = FoldLeft(Handle, p, p.c.delayed)
  OBVIOUS
<1>4. Alike(f, p) /\ Shape(f, p)
  <2>1. CASE f = p
    BY <1>1, <2>1 DEF Alike, Shape, Formed
  <2>2. CASE f = [p EXCEPT !.c.handled = h]
    BY <1>1, <2>2 DEF Alike, Shape, Formed, PageFields
  <2> QED  BY <1>2, <1>3, <2>1, <2>2 DEF Shown
<1>5. PICK e : e = [f EXCEPT !.c.delayed = <<>>, !.c.delayTimer = FALSE]
  OBVIOUS
<1>6. Alike(e, f)
  BY <1>4, <1>5 DEF Alike, Shape, PageFields
<1>7. Alike(e, p)
  BY <1>4, <1>6 DEF Alike
<1>8. Alike([p EXCEPT !.c.delayTimer = TRUE], p)
  BY <1>1 DEF Formed, Alike, PageFields
<1> QED  BY <1>3, <1>5, <1>7, <1>8 DEF HandleDelayed

(* So is a message for the layer. *)
LEMMA OnLayerMessageAlike ==
    ASSUME NEW p, NEW s \in Seq(Message), s # <<>>, Head(s).k = "view", NEW u, Bounds(u), Sound(p, s, u)
    PROVE  Alike(OnLayerMessage(p, Head(s)), p)
<1>0. Formed(p)
  BY DEF Sound
<1>1. PICK m \in Message : m = Head(s) /\ m.k = "view"
  BY TailParts
<1>2. \A h : Alike([p EXCEPT !.c.handled = h], p)
  BY <1>0 DEF Alike, Formed, PageFields
<1>3. PICK p1 : p1 = [p EXCEPT !.c.delayed = Append(p.c.delayed, m)]
  OBVIOUS
<1>4. Alike(p1, p)
  BY <1>0, <1>3 DEF Alike, Formed, PageFields
<1>5. \/ OnLayerMessage(p, m) \in {p, Handle(p, m)}
      \/ m.delays /\ OnLayerMessage(p, m) \in {p1, HandleDelayed(p1)}
  BY <1>3 DEF OnLayerMessage
<1>6. Alike(Handle(p, m), p)
  BY <1>2 DEF Handle
<1>7. ASSUME m.delays PROVE Alike(HandleDelayed(p1), p1)
  <2>1. /\ p.c.delayed \in Seq(Message) /\ u["views"] \in Nat /\ p1.c.handled = p.c.handled
        /\ LayerOK(p.c.handled, Append(p.c.delayed, m), Tail(s), p.wsd.wire, u["views"])
        /\ CountOK(p.c.count, Tail(s), p.wsd.wire, u["faults"])
    <3>1. /\ p.c.delayed \in Seq(Message) /\ u["views"] \in Nat /\ u["faults"] \in Nat
          /\ p.c.count \in Nat /\ p.wsd.wire \in Seq(Message) /\ p.c.handled \in Seq(Message)
      BY <1>0, BoundsNat DEF Formed, Flags, Queues, Session
    <3> QED  BY <1>0, <1>1, <1>3, <1>7, <3>1, LayerDelayed, CountTaken DEF Sound, Formed, PageFields
  <2>2. PICK d \in Seq(Message) : d = Append(p.c.delayed, m)
    BY <2>1, AppendParts
  <2>3. OnlyViews(d)
    <3>1. /\ Len(p.c.delayed) \in Nat
          /\ DOMAIN p.c.delayed = 1..Len(p.c.delayed) /\ DOMAIN d = 1..Len(p.c.delayed)+1
          /\ \A i \in DOMAIN p.c.delayed : d[i] = p.c.delayed[i]
          /\ d[Len(p.c.delayed) + 1] = m
      BY <2>1, <2>2, AppendParts
    <3>2. \A i \in DOMAIN p.c.delayed : p.c.delayed[i].k = "view"
      BY DEF OnlyViews, Sound
    <3> QED  BY <1>1, <3>1, <3>2 DEF OnlyViews
  <2>4. Formed(p1)
    BY <1>0, <1>3, <2>2 DEF Formed, Flags, Queues, PageFields
  <2>5. /\ p1.wsd = p.wsd /\ p1.c.log = p.c.log /\ p1.c.queue = p.c.queue /\ p1.c.delayed = d
        /\ p1.c.count = p.c.count /\ p1.c.sock = p.c.sock
        /\ p1.c.active = p.c.active /\ p1.c.muted = p.c.muted
    BY <1>0, <1>3, <2>2 DEF Formed, PageFields
  <2>6. Sound(p1, Tail(s), u)
    BY <2>1, <2>2, <2>3, <2>4, <2>5 DEF Sound
  <2> QED  BY <2>6, HandleDelayedAlike
<1>8. ASSUME m.delays PROVE Alike(HandleDelayed(p1), p)
  BY <1>4, <1>7, <1>8 DEF Alike
<1>9. Alike(p, p)
  BY DEF Alike
<1> QED  BY <1>1, <1>4, <1>5, <1>6, <1>8, <1>9

(* Handling a message does not touch what is slurped. *)
LEMMA OnMessageKeepsSlurp ==
    ASSUME NEW p, NEW s \in Seq(Message), s # <<>>, NEW u, Bounds(u), Sound(p, s, u)
    PROVE  OnMessage(p, Head(s)).c.slurp = p.c.slurp
<1>0. Formed(p)
  BY DEF Sound
<1>1. PICK m \in Message : m = Head(s)
  BY TailParts
<1>2. Shape(p, p)
  BY <1>0 DEF Shape, Formed
<1>3. CASE m.k = "ready"
  BY <1>0, <1>1, <1>3 DEF OnMessage, OnReady, Formed, PageFields
<1>4. CASE m.k = "status"
  <2>2. OnStatusMsg(p).c.slurp = p.c.slurp
    <3>1. PICK n : n = [p EXCEPT !.c.docLayer = TRUE, !.c.docLoaded = TRUE, !.c.tried = FALSE,
                                 !.c.reconnecting = @ /\ ~p.c.docLayer,
                                 !.c.leftover = p.c.reconnecting /\ ~p.c.docLayer]
      OBVIOUS
    <3>2. Shape(n, p) /\ Shape(n, n)
      BY <1>2, <3>1 DEF Shape, PageFields
    <3>3. PICK z : z = SendMessage(n, [k |-> "info"])
      OBVIOUS
    <3>4. Shape(z, n) /\ Shape(z, z)
      BY <3>2, <3>3, ShapeSend DEF Shape
    <3>5. Shape(Activate(z), z)
      BY <3>4, ShapeActivate
    <3>6. OnStatusMsg(p) = Activate(z)
      BY <3>1, <3>3 DEF OnStatusMsg
    <3> QED  BY <3>2, <3>4, <3>5, <3>6 DEF Shape
  <2> QED  BY <1>1, <1>4, <2>2 DEF OnMessage
<1>5. CASE m.k = "view"
  BY <1>1, <1>5, OnLayerMessageAlike DEF OnMessage, Alike
<1>6. CASE m.k \in {"idle", "recycling", "reload"}
  <2>1. OnMessage(p, m) = OnCloseMsg(p, m.k)
    BY <1>6 DEF OnMessage
  <2>2. OnCloseMsg(p, m.k).c.slurp = p.c.slurp
    <3>1. PICK d : d = Close(p)
      OBVIOUS
    <3>2. Shape(d, p)
      BY <1>2, <3>1 DEF Close, Shape, PageFields
    <3>3. [d EXCEPT !.c.active = FALSE, !.c.interval = "activate"].c.slurp = p.c.slurp
      BY <3>2 DEF Shape, PageFields
    <3> QED  BY <1>2, <1>6, <3>1, <3>3 DEF OnCloseMsg, Shape, PageFields
  <2> QED  BY <1>1, <2>1, <2>2
<1>7. CASE m.k \in {"unloading", "failed", "password"}
  <2>1. OnMessage(p, m) = OnLoadError(p, m.k)
    BY <1>7 DEF OnMessage
  <2>2. OnLoadError(p, m.k).c.slurp = p.c.slurp
    <3>1. PICK d : d = Close(p)
      OBVIOUS
    <3>2. Shape(d, p)
      BY <1>2, <3>1 DEF Close, Shape, PageFields
    <3>3. PICK e : e = [d EXCEPT !.c.active = FALSE, !.c.count = @ + 1]
      OBVIOUS
    <3>4. Shape(e, p)
      BY <3>2, <3>3 DEF Shape, PageFields
    <3>5. OnUnloading(p).c.slurp = p.c.slurp
      <4>1. [e EXCEPT !.c.interval = "none", !.c.error = TRUE].c.slurp = p.c.slurp
        BY <3>4 DEF Shape, PageFields
      <4>2. [e EXCEPT !.c.interval = "activate"].c.slurp = p.c.slurp
        BY <3>4 DEF Shape, PageFields
      <4> QED  BY <3>1, <3>3, <4>1, <4>2 DEF OnUnloading
    <3>6. [d EXCEPT !.c.fatal = TRUE, !.c.error = TRUE].c.slurp = p.c.slurp
      BY <3>2 DEF Shape, PageFields
    <3>7. [d EXCEPT !.c.asking = TRUE].c.slurp = p.c.slurp
      BY <3>2 DEF Shape, PageFields
    <3> QED  BY <1>7, <3>1, <3>5, <3>6, <3>7 DEF OnLoadError
  <2> QED  BY <1>1, <2>1, <2>2
<1>8. CASE m.k = "limit"
  <2>1. OnMessage(p, m) = OnOtherError(p)
    BY <1>8 DEF OnMessage
  <2>2. OnOtherError(p).c.slurp = p.c.slurp
    BY <1>2 DEF OnOtherError, Shape, PageFields
  <2> QED  BY <1>1, <2>1, <2>2
<1>9. CASE m.k = "saveas"
  <2>1. OnMessage(p, m) = OnSaveAs(p)
    BY <1>9 DEF OnMessage
  <2>5. OnSaveAs(p).c.slurp = p.c.slurp
    <3>1. PICK d : d = Close(p)
      OBVIOUS
    <3>2. Shape(d, p) /\ Shape(d, d)
      BY <1>2, <3>1 DEF Close, Shape, PageFields
    <3>3. PICK e : e = LoadDocument(d)
      OBVIOUS
    <3>4. Shape(e, d) /\ Shape(e, e)
      BY <3>2, <3>3, ShapeLoad DEF Shape
    <3>5. Shape(SendMessage(e, [k |-> "info"]), e)
      BY <3>4, ShapeSend
    <3> QED  BY <3>1, <3>2, <3>3, <3>4, <3>5 DEF OnSaveAs, Shape
  <2> QED  BY <1>1, <2>1, <2>5
<1>10. CASE m.k \in {"block", "unblock"}
  <2>1. PICK b \in BOOLEAN : OnMessage(p, m) = [p EXCEPT !.c.blocked = b]
    BY <1>10 DEF OnMessage
  <2>2. [p EXCEPT !.c.blocked = b].c.slurp = p.c.slurp
    BY <1>2 DEF Shape, PageFields
  <2> QED  BY <1>1, <2>1, <2>2
<1>11. CASE m.k \in {"image", "decoded"}
  BY <1>1, <1>11 DEF OnMessage
<1>12. m.k \in {"ready", "status", "idle", "recycling", "reload", "unloading", "failed", "limit",
                "password", "saveas", "block", "unblock", "image", "decoded", "view"}
  BY DEF Message
<1> QED  BY <1>3, <1>4, <1>5, <1>6, <1>7, <1>8, <1>9, <1>10, <1>11, <1>12

(* Other slurped messages change nothing else. *)
LEMMA SlurpSet ==
    ASSUME NEW p, NEW s, NEW t \in Seq(Message), NEW u, Sound(p, s, u)
    PROVE  Sound([p EXCEPT !.c.slurp = t], s, u) /\ [p EXCEPT !.c.slurp = t].c.slurp = t
<1> DEFINE q == [p EXCEPT !.c.slurp = t]
<1>1. Formed(q)
  BY DEF Sound, Formed, Flags, Queues, PageFields
<1>2. Same(q, p) /\ q.wsd = p.wsd /\ q.c.sock = p.c.sock /\ q.c.active = p.c.active
      /\ q.c.muted = p.c.muted /\ q.c.slurp = t
  BY DEF Sound, Formed, PageFields, Same
<1> HIDE DEF q
<1>3. Sound(q, s, u)
  BY <1>1, <1>2 DEF Sound, Same
<1> QED  BY <1>2, <1>3 DEF q

(* One turn of the loop takes the first message of what is slurped and handles it. *)
LEMMA EmitOneSound ==
    ASSUME NEW p, NEW u, Bounds(u), Sound(p, p.c.slurp, u), p.c.slurp # <<>>
    PROVE  /\ Sound(EmitOne(p, Head(p.c.slurp)), Tail(p.c.slurp), u)
           /\ EmitOne(p, Head(p.c.slurp)).c.slurp = Tail(p.c.slurp)
<1>1. PICK s \in Seq(Message) : s = p.c.slurp
  BY DEF Sound, Formed, Queues
<1>2. PICK t \in Seq(Message) : t = Tail(s)
  BY <1>1, TailParts
<1>3. PICK q : q = [p EXCEPT !.c.slurp = t]
  OBVIOUS
<1>4. Sound(q, s, u) /\ q.c.slurp = t
  BY <1>1, <1>3, SlurpSet
<1>5. EmitOne(p, Head(s)) = OnMessage(q, Head(s))
  BY <1>1, <1>2, <1>3 DEF EmitOne
<1>6. Sound(OnMessage(q, Head(s)), t, u)
  BY <1>1, <1>2, <1>4, OnMessageSound
<1>7. OnMessage(q, Head(s)).c.slurp = q.c.slurp
  BY <1>1, <1>4, OnMessageKeepsSlurp DEF Sound
<1> QED  BY <1>1, <1>2, <1>4, <1>5, <1>6, <1>7

(* Handling the messages of q, that are slurped before rest. *)
LEMMA EmittedSound ==
    ASSUME NEW p, NEW q \in Seq(Message), NEW rest \in Seq(Message), NEW u, Bounds(u),
           Sound(p, q \o rest, u), p.c.slurp = q \o rest
    PROVE  Sound(FoldLeft(EmitOne, p, q), rest, u) /\ FoldLeft(EmitOne, p, q).c.slurp = rest
<1>1. FoldLeft(EmitOne, p, q) = Emitting!Fold(p, q)
  BY DEF FoldLeft, MapThenFoldSet, Max, Emitting!Max, Emitting!Fold
<1>2. PICK r : Emitting!IsRun(r, p, q) /\ FoldLeft(EmitOne, p, q) = r[Len(q)]
  BY <1>1, Emitting!FoldRuns
<1>3. r[0] = p /\ \A i \in 1..Len(q) : r[i] = EmitOne(r[i - 1], q[i])
  BY <1>2 DEF Emitting!IsRun
<1> DEFINE Good(i) == Sound(r[i], Rest(q, i) \o rest, u) /\ r[i].c.slurp = Rest(q, i) \o rest
           T == {i \in Nat : Good(i)}
<1>4. Len(q) \in Nat
  BY LenProperties
<1>5. Good(0)
  BY <1>3, RestParts
<1>6. ASSUME NEW i \in Nat, i + 1 <= Len(q), Good(i) PROVE Good(i + 1)
  <2>1. i + 1 \in 1..Len(q) /\ (i + 1) - 1 = i
    BY <1>4, <1>6
  <2>2. PICK t \in Seq(Message) : t = Rest(q, i) /\ t # <<>> /\ Head(t) = q[i + 1] /\ Tail(t) = Rest(q, i + 1)
    BY <2>1, RestParts
  <2>3. PICK a \in Seq(Message) : a = t \o rest /\ a # <<>> /\ Head(a) = Head(t) /\ Tail(a) = Tail(t) \o rest
    BY <2>2, ConcatTail
  <2>4. r[i + 1] = EmitOne(r[i], q[i + 1])
    BY <1>3, <2>1
  <2>5. PICK x : x = r[i]
    OBVIOUS
  <2>6. Sound(x, a, u) /\ x.c.slurp = a
    BY <1>6, <2>2, <2>3, <2>5
  <2>7. Sound(EmitOne(x, Head(a)), Tail(a), u) /\ EmitOne(x, Head(a)).c.slurp = Tail(a)
    BY <2>3, <2>6, EmitOneSound
  <2> QED  BY <2>2, <2>3, <2>4, <2>5, <2>7
<1>7. Good(Len(q))
  <2> HIDE DEF Good
  <2>1. 0 \in T
    BY <1>5
  <2>2. \A i \in Nat : i + 1 <= Len(q) /\ i \in T => i + 1 \in T
    BY <1>6
  <2>3. Len(q) \in T
    <3> HIDE DEF T
    <3> QED  BY <1>4, <2>1, <2>2, StepsTo
  <2> QED  BY <2>3
<1>8. Rest(q, Len(q)) \o rest = rest
  BY RestParts, ConcatEmptySeq
<1> QED  BY <1>2, <1>7, <1>8

(* What _emitSlurpedEvents() handles, and what it leaves. *)
LEMMA EmitSlurpedParts ==
    ASSUME NEW p, Formed(p)
    PROVE  \E upto, rest \in Seq(Message) :
              upto \o rest = p.c.slurp /\ EmitSlurped(p) = FoldLeft(EmitOne, p, upto)
<1> DEFINE q == p.c.slurp
           stops == {i \in DOMAIN q : ~Complete(q[i])}
           n == CHOOSE i \in stops : \A j \in stops : i <= j
           upto == IF stops = {} THEN q ELSE SubSeq(q, 1, n - 1)
           rest == IF stops = {} THEN <<>> ELSE SubSeq(q, n, Len(q))
<1>1. q \in Seq(Message) /\ Len(q) \in Nat /\ DOMAIN q = 1..Len(q)
  <2>1. q \in Seq(Message)
    BY DEF Formed, Queues
  <2> QED  BY <2>1, LenProperties
<1>2. upto \in Seq(Message) /\ rest \in Seq(Message) /\ upto \o rest = q
  <2>1. CASE stops = {}
    BY <1>1, <2>1, EmptySeq, ConcatEmptySeq
  <2>2. CASE stops # {}
    <3>1. stops \subseteq Nat /\ stops \subseteq DOMAIN q
      BY <1>1
    <3>2. \E i \in stops : \A j \in stops : i <= j
      <4> HIDE DEF stops
      <4> QED  BY <2>2, <3>1, LeastOf
    <3>3. n \in stops
      BY <3>2
    <3>4. n \in 1..Len(q)
      BY <1>1, <3>1, <3>3
    <3>5. upto = SubSeq(q, 1, n - 1) /\ rest = SubSeq(q, n, Len(q))
      BY <2>2
    <3> HIDE DEF n, upto, rest, stops
    <3> QED  BY <1>1, <3>4, <3>5, SplitAt
  <2> QED  BY <2>1, <2>2
<1>3. EmitSlurped(p) = FoldLeft(EmitOne, p, upto)
  BY DEF EmitSlurped
<1> HIDE DEF upto, rest
<1> QED  BY <1>2, <1>3

(* _emitSlurpedEvents() keeps everything. *)
LEMMA EmitSlurpedSound ==
    ASSUME NEW p, NEW u, Bounds(u), Sound(p, p.c.slurp, u)
    PROVE  Sound(EmitSlurped(p), EmitSlurped(p).c.slurp, u)
<1>1. PICK upto \in Seq(Message), rest \in Seq(Message) :
         upto \o rest = p.c.slurp /\ EmitSlurped(p) = FoldLeft(EmitOne, p, upto)
  BY EmitSlurpedParts DEF Sound
<1>2. Sound(p, upto \o rest, u) /\ p.c.slurp = upto \o rest
  BY <1>1
<1>3. PICK e : e = FoldLeft(EmitOne, p, upto)
  OBVIOUS
<1>4. Sound(e, rest, u) /\ e.c.slurp = rest
  BY <1>2, <1>3, EmittedSound
<1> QED  BY <1>1, <1>3, <1>4

(* Spending a budget keeps everything. *)
LEMMA SpentSound ==
    ASSUME NEW p, NEW s \in Seq(Message), NEW u, Bounds(u), Sound(p, s, u), NEW v,
           v["sends"] \in {u["sends"], u["sends"] + 1},
           v["views"] \in {u["views"], u["views"] + 1},
           v["faults"] \in {u["faults"], u["faults"] + 1}
    PROVE  Sound(p, s, v)
<1>1. /\ p.c.count \in Nat /\ p.wsd.wire \in Seq(Message) /\ p.c.log \in Seq(Commands)
      /\ p.c.queue \in Seq(Queued)
      /\ u["faults"] \in Nat /\ u["sends"] \in Nat /\ u["views"] \in Nat
  BY BoundsNat DEF Sound, Formed, Flags, Queues, Session
<1>2. CmdOK(p.c.log, p.c.queue, v["sends"])
  BY <1>1, CmdMore DEF Sound
<1>3. LayerOK(p.c.handled, p.c.delayed, s, p.wsd.wire, v["views"])
  BY <1>1, LayerSpent DEF Sound
<1>4. CountOK(p.c.count, s, p.wsd.wire, v["faults"])
  <2>1. PICK m \in Message : m.k = "ready"
    <3>1. [k |-> "ready"] \in Message
      BY DEF Message
    <3> QED  BY <3>1
  <2> QED  BY <1>1, <2>1, CountSays DEF Sound
<1> QED  BY <1>2, <1>3, <1>4 DEF Sound

(* Spending a budget stays within its bound. *)
LEMMA SpendBounds ==
    ASSUME Bounds(used),
           \/ Spend("faults", MaxFaults) \/ Spend("sends", MaxSends)
           \/ Spend("views", MaxViews) \/ Spend("focus", MaxFocus)
    PROVE  /\ Bounds(used')
           /\ used'["sends"] \in {used["sends"], used["sends"] + 1}
           /\ used'["views"] \in {used["views"], used["views"] + 1}
           /\ used'["faults"] \in {used["faults"], used["faults"] + 1}
<1>1. CASE Spend("faults", MaxFaults)
  BY <1>1, ConnectionAssumption DEF Bounds, Spend
<1>2. CASE Spend("sends", MaxSends)
  BY <1>2, ConnectionAssumption DEF Bounds, Spend
<1>3. CASE Spend("views", MaxViews)
  BY <1>3, ConnectionAssumption DEF Bounds, Spend
<1>4. CASE Spend("focus", MaxFocus)
  BY <1>4, ConnectionAssumption DEF Bounds, Spend
<1> QED  BY <1>1, <1>2, <1>3, <1>4

(* Changing the state of the socket to one that is not open changes nothing else. *)
LEMMA SockSet ==
    ASSUME NEW p, NEW s, NEW u, Sound(p, s, u), NEW k \in {"closing", "closed"}
    PROVE  Sound([p EXCEPT !.c.sock = k], s, u) /\ Shape([p EXCEPT !.c.sock = k], p)
<1> DEFINE q == [p EXCEPT !.c.sock = k]
<1>1. Formed(q)
  BY DEF Sound, Formed, Flags, Queues, PageFields
<1>2. /\ Same(q, p) /\ q.wsd = p.wsd /\ q.c.sock = k /\ q.c.active = p.c.active
      /\ q.c.muted = p.c.muted /\ Shape(q, p)
  BY DEF Sound, Formed, PageFields, Same, Shape
<1> HIDE DEF q
<1>3. Sound(q, s, u)
  BY <1>1, <1>2 DEF Sound, Same
<1> QED  BY <1>2, <1>3 DEF q

(* Setting or clearing timers changes nothing else. *)
LEMMA TimersSet ==
    ASSUME NEW p, NEW s, NEW u, Sound(p, s, u), NEW t \in Seq(Timers)
    PROVE  Sound([p EXCEPT !.c.timers = t], s, u) /\ Shape([p EXCEPT !.c.timers = t], p)
<1> DEFINE q == [p EXCEPT !.c.timers = t]
<1>1. Formed(q)
  BY DEF Sound, Formed, Flags, Queues, PageFields
<1>2. /\ Same(q, p) /\ q.wsd = p.wsd /\ q.c.sock = p.c.sock /\ q.c.active = p.c.active
      /\ q.c.muted = p.c.muted /\ Shape(q, p)
  BY DEF Sound, Formed, PageFields, Same, Shape
<1> HIDE DEF q
<1>3. Sound(q, s, u)
  BY <1>1, <1>2 DEF Sound, Same
<1> QED  BY <1>2, <1>3 DEF q

(* Where the page stands before a step. *)
LEMMA Standing ==
    ASSUME Inv
    PROVE  /\ Sound(Now, Now.c.slurp, used) /\ Bounds(used) /\ Now.c = c /\ Now.wsd = wsd
           /\ c.slurp \in Seq(Message) /\ wsd.wire \in Seq(Message) /\ Shape(Now, Now)
           /\ Formed(Now) /\ c.timers \in Seq(Timers) /\ c.count \in Nat
<1>1. Now.c = c /\ Now.wsd = wsd
  BY DEF Now
<1> QED  BY <1>1 DEF Inv, Sound, Formed, Flags, Queues, Session, Shape

(* The result of an operation that leaves what was slurped. *)
LEMMA Arrives ==
    ASSUME NEW p, NEW o, NEW u, Sound(p, o.c.slurp, u), Shape(p, o), Become(p), used' = u, Bounds(u)
    PROVE  Inv'
<1>1. Sound(p, p.c.slurp, u)
  BY DEF Shape
<1>2. Sound(Now', c'.slurp, used')
  BY <1>1, Becomes
<1> QED  BY <1>2 DEF Inv

(* The socket opens. *)
LEMMA OpenInv == ASSUME Inv, Open PROVE Inv'
<1>1. PICK o : o = [Now EXCEPT !.c.sock = "open"]
  OBVIOUS
<1>2. Sound(OnSocketOpen(o), Now.c.slurp, used)
  BY <1>1, Standing, OnSocketOpenSound
<1>3. Formed(o) /\ Shape(o, Now) /\ o.c.log = c.log /\ o.c.queue = c.queue
  BY <1>1, Standing DEF Formed, Flags, Queues, PageFields, Shape
<1>4. Shape(OnSocketOpen(o), o)
  <2>1. CmdOK(c.log, c.queue, used["sends"]) /\ used["sends"] \in Nat
    BY Standing, BoundsNat DEF Sound
  <2> QED  BY <1>3, <2>1, ShapeOpen
<1>5. Become(OnSocketOpen(o)) /\ used' = used
  BY <1>1 DEF Open
<1>6. Shape(OnSocketOpen(o), Now)
  BY <1>3, <1>4 DEF Shape
<1> QED  BY <1>2, <1>5, <1>6, Standing, Arrives

(* An attempt to connect fails. *)
LEMMA FailInv == ASSUME Inv, Fail PROVE Inv'
<1>1. PICK o : o = [Now EXCEPT !.c.sock = "closed"]
  OBVIOUS
<1>2. Sound(o, Now.c.slurp, used) /\ Shape(o, Now) /\ Shape(o, o)
  BY <1>1, Standing, SockSet DEF Shape
<1>3. Spend("faults", MaxFaults) /\ Become(OnSocketClose(o))
  BY <1>1 DEF Fail
<1>4. Bounds(used') /\ Sound(o, Now.c.slurp, used')
  BY <1>2, <1>3, Standing, SpendBounds, SpentSound
<1>5. Sound(OnSocketClose(o), Now.c.slurp, used')
  BY <1>4, Standing, OnSocketCloseSound
<1>6. Shape(OnSocketClose(o), Now)
  BY <1>2, ShapeClose DEF Shape
<1> QED  BY <1>3, <1>4, <1>5, <1>6, Arrives

(* The closing handshake starts. *)
LEMMA ClosingInv == ASSUME Inv, Closing PROVE Inv'
<1>1. PICK o : o = [Now EXCEPT !.c.sock = "closing"]
  OBVIOUS
<1>2. Sound(o, Now.c.slurp, used) /\ Shape(o, Now)
  BY <1>1, Standing, SockSet DEF Shape
<1>3. Become(o) /\ used' = used
  BY <1>1 DEF Closing, Become, Now
<1> QED  BY <1>2, <1>3, Standing, Arrives

(* The close event arrives. *)
LEMMA ClosedInv == ASSUME Inv, Closed PROVE Inv'
<1>1. PICK k : k = [Now EXCEPT !.c.sock = "closed"]
  OBVIOUS
<1>2. Sound(k, Now.c.slurp, used) /\ Shape(k, Now) /\ Formed(k)
  BY <1>1, Standing, SockSet DEF Sound
<1> DEFINE o == [k EXCEPT !.wsd = Nobody]
<1>3. Formed(o) /\ Shape(o, Now) /\ Shape(o, o) /\ o.c = k.c /\ o.wsd = Nobody
  BY <1>2, NobodySession DEF Formed, Shape
<1>4. Become(OnSocketClose(o)) /\ used' = used
  <2>1. [Now EXCEPT !.c.sock = "closed", !.wsd = Nobody] = o
    BY <1>1
  <2> QED  BY <2>1 DEF Closed
<1> HIDE DEF o
<1>5. Sound(o, Now.c.slurp, used)
  <2>1. /\ LayerOK(k.c.handled, k.c.delayed, Now.c.slurp, <<>>, used["views"])
        /\ CountOK(k.c.count, Now.c.slurp, <<>>, used["faults"])
    BY <1>2, Standing, EmptyWire
  <2> QED  BY <1>2, <1>3, <2>1, NobodySession DEF Sound
<1>6. Sound(OnSocketClose(o), Now.c.slurp, used)
  BY <1>5, Standing, OnSocketCloseSound
<1>7. Shape(OnSocketClose(o), Now)
  BY <1>3, ShapeClose DEF Shape
<1> QED  BY <1>4, <1>6, <1>7, Standing, Arrives

(* A message that is slurped makes a sequence of messages. *)
LEMMA QueueSlurpType ==
    ASSUME NEW t \in Seq(Timers) PROVE QueueSlurp(t) \in Seq(Timers)
<1>1. "slurp" \in Timers
  BY DEF Timers
<1>2. Append(t, "slurp") \in Seq(Timers)
  BY <1>1, AppendParts
<1> QED  BY <1>2 DEF QueueSlurp

(* A message arrives and is slurped. *)
LEMMA ReceiveInv == ASSUME Inv, Receive PROVE Inv'
<1>1. PICK m \in Message, w \in Seq(Message) : m = Head(wsd.wire) /\ w = Tail(wsd.wire)
  BY Standing, TailParts DEF Receive
<1>2. PICK t \in Seq(Timers) : t = IF c.slurp = <<>> THEN QueueSlurp(c.timers) ELSE c.timers
  BY Standing, QueueSlurpType
<1>3. PICK s \in Seq(Message) : s = Append(c.slurp, m)
  BY Standing, AppendParts
<1>4. PICK o : o = [Now EXCEPT !.wsd.wire = w]
  OBVIOUS
<1>5. /\ Formed(o) /\ o.c = c /\ o.wsd.wire = w /\ o.wsd.view = wsd.view
  BY <1>4, Standing DEF Formed, Session
<1> DEFINE p == [o EXCEPT !.c.timers = t, !.c.slurp = s]
<1>6. Formed(p)
  BY <1>5 DEF Formed, Flags, Queues, PageFields
<1>7. /\ p.wsd = o.wsd /\ p.c.log = c.log /\ p.c.queue = c.queue /\ p.c.delayed = c.delayed
      /\ p.c.handled = c.handled /\ p.c.count = c.count /\ p.c.sock = c.sock
      /\ p.c.active = c.active /\ p.c.muted = c.muted /\ p.c.slurp = s
  BY <1>5 DEF Formed, PageFields
<1>8. /\ LayerOK(c.handled, c.delayed, s, w, used["views"])
      /\ CountOK(c.count, s, w, used["faults"])
  <2>1. /\ LayerOK(c.handled, c.delayed, c.slurp, wsd.wire, used["views"])
        /\ CountOK(c.count, c.slurp, wsd.wire, used["faults"]) /\ wsd.wire # <<>>
        /\ used["views"] \in Nat /\ used["faults"] \in Nat
    BY Standing, BoundsNat DEF Sound, Receive
  <2> QED  BY <1>1, <1>3, <2>1, Standing, LayerReceived, CountReceived
<1>9. Become(p) /\ used' = used
  <2>1. [Now EXCEPT !.wsd.wire = Tail(@)] = o
    BY <1>1, <1>4, Standing
  <2>2. SlurpMessage(o, m) = p
    BY <1>2, <1>3, <1>5 DEF SlurpMessage
  <2> QED  BY <1>1, <2>1, <2>2 DEF Receive
<1> HIDE DEF p
<1>10. Sound(p, p.c.slurp, used)
  BY <1>5, <1>6, <1>7, <1>8, Standing DEF Sound
<1>11. Shape(p, p)
  BY <1>10 DEF Shape, Sound, Formed
<1> QED  BY <1>9, <1>10, <1>11, Standing, Arrives

(* A timer fires: the slurped messages are emitted, or the close is handled. *)
LEMMA TimerInv == ASSUME Inv, Timer PROVE Inv'
<1>1. PICK t \in Seq(Timers) : t = Tail(c.timers)
  BY Standing, TailParts DEF Timer
<1>2. PICK p : p = [Now EXCEPT !.c.timers = t]
  OBVIOUS
<1>3. Sound(p, p.c.slurp, used) /\ Shape(p, p)
  BY <1>2, Standing, TimersSet DEF Shape
<1>4. [Now EXCEPT !.c.timers = Tail(@)] = p
  BY <1>1, <1>2, Standing
<1>5. used' = used /\ (Become(EmitSlurped(p)) \/ Become(CloseTimer(p)))
  BY <1>4 DEF Timer
<1>6. CASE Become(EmitSlurped(p))
  <2>1. Sound(EmitSlurped(p), EmitSlurped(p).c.slurp, used)
    BY <1>3, Standing, EmitSlurpedSound
  <2>2. Shape(EmitSlurped(p), EmitSlurped(p))
    BY <2>1 DEF Shape, Sound, Formed
  <2> QED  BY <1>5, <1>6, <2>1, <2>2, Standing, Arrives
<1>7. CASE Become(CloseTimer(p))
  <2>1. Sound(CloseTimer(p), p.c.slurp, used) /\ Shape(CloseTimer(p), p)
    <3>1. p.c.slurp \in Seq(Message)
      BY <1>3 DEF Sound, Formed, Queues
    <3> QED  BY <1>3, <3>1, Standing, CloseTimerSound, ShapeClose
  <2> QED  BY <1>5, <1>7, <2>1, Standing, Arrives
<1> QED  BY <1>5, <1>6, <1>7

(* The reconnection interval ticks. *)
LEMMA IntervalInv == ASSUME Inv, Interval PROVE Inv'
<1>1. Become(IntervalTick(Now)) /\ used' = used
  BY DEF Interval
<1>2. Sound(IntervalTick(Now), Now.c.slurp, used) /\ Shape(IntervalTick(Now), Now)
  BY Standing, IntervalTickSound, ShapeClose
<1> QED  BY <1>1, <1>2, Standing, Arrives

(* The timer for delayed messages fires. *)
LEMMA DelayTimerInv == ASSUME Inv, DelayTimer PROVE Inv'
<1>1. Become(HandleDelayed(Now)) /\ used' = used
  BY DEF DelayTimer
<1>2. Sound(HandleDelayed(Now), Now.c.slurp, used)
  BY Standing, HandleDelayedSound
<1>3. Shape(HandleDelayed(Now), Now)
  <2>1. /\ OnlyViews(Now.c.delayed) /\ used["views"] \in Nat
        /\ LayerOK(Now.c.handled, Now.c.delayed, Now.c.slurp, Now.wsd.wire, used["views"])
    BY Standing, BoundsNat DEF Sound
  <2> QED  BY <2>1, Standing, ShapeFolds
<1> QED  BY <1>1, <1>2, <1>3, Standing, Arrives

(* Decoding a picture changes neither a number nor a refusal. *)
LEMMA Decoded ==
    ASSUME NEW s \in Seq(Message), NEW i \in DOMAIN s, s[i].k = "image",
           NEW t, DOMAIN t = DOMAIN s, t[i].k = "decoded", \A j \in DOMAIN s : j # i => t[j] = s[j]
    PROVE  /\ \A lo, hi \in Nat : Band("view", s, lo, hi) => Band("view", t, lo, hi)
           /\ Refused(t) = Refused(s)
<1>1. ASSUME NEW lo \in Nat, NEW hi \in Nat, Band("view", s, lo, hi) PROVE Band("view", t, lo, hi)
  <2>1. \A j \in DOMAIN t : t[j].k = "view" => t[j] = s[j] /\ j \in DOMAIN s
    OBVIOUS
  <2> QED  BY <1>1, <2>1 DEF Band
<1>2. {j \in DOMAIN t : t[j].k = "unloading"} = {j \in DOMAIN s : s[j].k = "unloading"}
  OBVIOUS
<1> QED  BY <1>1, <1>2 DEF Refused

(* A picture of the slurped messages is decoded. *)
LEMMA ImageLoadInv == ASSUME Inv, ImageLoad PROVE Inv'
<1>1. PICK i \in DOMAIN c.slurp :
        /\ c.slurp[i].k = "image"
        /\ c' = [c EXCEPT !.slurp[i].k = "decoded", !.timers = QueueSlurp(@)]
  BY DEF ImageLoad
<1>2. PICK s : s = [c.slurp EXCEPT ![i].k = "decoded"]
  OBVIOUS
<1>3. PICK t \in Seq(Timers) : t = QueueSlurp(c.timers)
  BY Standing, QueueSlurpType
<1>4. /\ s \in Seq(Message) /\ Refused(s) = Refused(c.slurp)
      /\ \A lo, hi \in Nat : Band("view", c.slurp, lo, hi) => Band("view", s, lo, hi)
  <2>1. PICK z \in Seq(Message) : z = c.slurp
    BY Standing
  <2>2. DOMAIN z = 1..Len(z) /\ \A j \in 1..Len(z) : z[j] \in Message
    BY LenProperties, ElementOfSeq
  <2>3. PICK d : d = [z[i] EXCEPT !.k = "decoded"]
    OBVIOUS
  <2>4. d \in Message /\ d.k = "decoded"
    <3>1. z[i] \in Message /\ z[i].k = "image"
      BY <1>1, <2>1, <2>2
    <3>2. DOMAIN z[i] = {"k"} /\ z[i] = [k |-> "image"]
      BY <3>1 DEF Message
    <3>3. d = [k |-> "decoded"]
      BY <2>3, <3>2
    <3> QED  BY <3>3 DEF Message
  <2>5. s = [z EXCEPT ![i] = d]
    BY <1>2, <2>1, <2>3
  <2>6. /\ s \in Seq(Message) /\ DOMAIN s = DOMAIN z /\ s[i].k = "decoded"
        /\ \A j \in DOMAIN z : j # i => s[j] = z[j]
    BY <1>1, <2>1, <2>2, <2>4, <2>5
  <2> QED  BY <1>1, <2>1, <2>6, Decoded
<1>5. DOMAIN c = PageFields
  BY Standing DEF Formed
<1>6. c' = [c EXCEPT !.slurp = s, !.timers = t]
  BY <1>1, <1>2, <1>3, <1>5 DEF PageFields
<1> DEFINE p == [Now EXCEPT !.c.slurp = s, !.c.timers = t]
<1>7. Formed(p)
  BY <1>4, Standing DEF Formed, Flags, Queues, PageFields
<1>8. /\ p.wsd = wsd /\ p.c.log = c.log /\ p.c.queue = c.queue /\ p.c.delayed = c.delayed
      /\ p.c.handled = c.handled /\ p.c.count = c.count /\ p.c.sock = c.sock
      /\ p.c.active = c.active /\ p.c.muted = c.muted /\ p.c.slurp = s
  BY Standing DEF Formed, PageFields
<1>9. Become(p) /\ used' = used
  <2>1. p.c = [c EXCEPT !.slurp = s, !.timers = t]
    BY Standing DEF Formed, PageFields
  <2> QED  BY <1>6, <1>8, <2>1 DEF ImageLoad, Become
<1>10. /\ LayerOK(c.handled, c.delayed, s, wsd.wire, used["views"])
       /\ CountOK(c.count, s, wsd.wire, used["faults"])
  <2>1. /\ LayerOK(c.handled, c.delayed, c.slurp, wsd.wire, used["views"])
        /\ CountOK(c.count, c.slurp, wsd.wire, used["faults"])
    BY Standing DEF Sound
  <2>2. CountOK(c.count, s, wsd.wire, used["faults"])
    BY <1>4, <2>1 DEF CountOK
  <2> QED  BY <1>4, <2>1, <2>2 DEF LayerOK
<1> HIDE DEF p
<1>11. Sound(p, p.c.slurp, used)
  BY <1>7, <1>8, <1>10, Standing DEF Sound
<1>12. Shape(p, p)
  BY <1>11 DEF Shape, Sound, Formed
<1> QED  BY <1>9, <1>11, <1>12, Standing, Arrives
-----------------------------------------------------------------------------
(* Steps of the user. *)

(* The user sends a command. *)
LEMMA SendInv == ASSUME Inv, Send PROVE Inv'
<1>1. /\ Spend("sends", MaxSends) /\ Become(SendMessage(Now, [k |-> "cmd", n |-> used["sends"]]))
  BY DEF Send
<1>2. used["sends"] \in Commands /\ Bounds(used')
  BY <1>1, Standing, SpendBounds DEF Bounds, Commands
<1>3. PICK m \in Queued : m = [k |-> "cmd", n |-> used["sends"]]
  BY <1>2 DEF Queued
<1>4. Due(m, used, used')
  <2>1. /\ used'["views"] = used["views"] /\ used'["faults"] = used["faults"]
        /\ used'["sends"] = used["sends"] + 1
    BY <1>1, Standing DEF Spend, Bounds
  <2>2. m.k = "cmd" /\ m.n = used["sends"]
    BY <1>3
  <2> QED  BY <2>1, <2>2 DEF Due
<1>5. Sound(SendMessage(Now, m), Now.c.slurp, used')
  BY <1>4, Standing, SendMessageSound
<1>6. Shape(SendMessage(Now, m), Now)
  BY Standing, ShapeSend
<1> QED  BY <1>1, <1>2, <1>3, <1>5, <1>6, Arrives

(* The window gets the focus. *)
LEMMA FocusInv == ASSUME Inv, Focus PROVE Inv'
<1>1. Spend("focus", MaxFocus) /\ Become(Activate(Now))
  BY DEF Focus
<1>2. Bounds(used') /\ Sound(Now, Now.c.slurp, used')
  BY <1>1, Standing, SpendBounds, SpentSound
<1>3. Sound(Activate(Now), Now.c.slurp, used') /\ Shape(Activate(Now), Now)
  BY <1>2, Standing, ActivateSound, ShapeActivate
<1> QED  BY <1>1, <1>2, <1>3, Arrives

(* The window loses the focus. *)
LEMMA BlurInv == ASSUME Inv, Blur PROVE Inv'
<1>1. PICK dialog \in BOOLEAN : Spend("focus", MaxFocus) /\ Become(Deactivate(Now, dialog))
  BY DEF Blur
<1>2. Bounds(used') /\ Sound(Now, Now.c.slurp, used')
  BY <1>1, Standing, SpendBounds, SpentSound
<1>3. Sound(Deactivate(Now, dialog), Now.c.slurp, used') /\ Shape(Deactivate(Now, dialog), Now)
  BY <1>2, Standing, DeactivateSound, ShapeDeactivate
<1> QED  BY <1>1, <1>2, <1>3, Arrives

(* Flags that commands and messages do not depend on. *)
LEMMA WokenSound ==
    ASSUME NEW p, NEW s, NEW u, Sound(p, s, u)
    PROVE  /\ \A b \in BOOLEAN : LET q == [p EXCEPT !.c.dimmed = b] IN Sound(q, s, u) /\ Shape(q, p)
           /\ \A b \in BOOLEAN : LET q == [p EXCEPT !.c.idle = b] IN Sound(q, s, u) /\ Shape(q, p)
           /\ \A b \in BOOLEAN : LET q == [p EXCEPT !.c.asking = b] IN Sound(q, s, u) /\ Shape(q, p)
           /\ \A b \in BOOLEAN : LET q == [p EXCEPT !.c.error = b] IN Sound(q, s, u) /\ Shape(q, p)
<1>1. ASSUME NEW f \in {"dimmed", "idle", "asking", "error"}, NEW b \in BOOLEAN,
             NEW q, q = [p EXCEPT !.c[f] = b]
      PROVE  Sound(q, s, u) /\ Shape(q, p)
  <2>1. Formed(q)
    BY <1>1 DEF Sound, Formed, Flags, Queues, PageFields
  <2>2. /\ Same(q, p) /\ q.wsd = p.wsd /\ q.c.sock = p.c.sock /\ q.c.active = p.c.active
        /\ q.c.muted = p.c.muted /\ Shape(q, p)
    BY <1>1 DEF Sound, Formed, PageFields, Same, Shape
  <2> QED  BY <2>1, <2>2 DEF Sound, Same
<1> QED  BY <1>1

(* The user clicks on the dimmed document. *)
LEMMA WakeInv == ASSUME Inv, Wake PROVE Inv'
<1>1. PICK p : p = [Now EXCEPT !.c.dimmed = FALSE]
  OBVIOUS
<1>2. Sound(p, Now.c.slurp, used) /\ Shape(p, Now)
  BY <1>1, Standing, WokenSound, Zenon
<1>3. PICK q : q = [p EXCEPT !.c.idle = FALSE]
  OBVIOUS
<1>4. Sound(q, Now.c.slurp, used) /\ Shape(q, p)
  BY <1>2, <1>3, WokenSound, Zenon
<1>5. Shape(q, q) /\ Shape(q, Now)
  BY <1>2, <1>4 DEF Shape
<1>6. Sound(Activate(q), Now.c.slurp, used) /\ Shape(Activate(q), Now)
  <2>1. Shape(Activate(q), q)
    BY <1>5, ShapeActivate
  <2>2. Shape(Activate(q), Now)
    BY <1>5, <2>1 DEF Shape
  <2> QED  BY <1>4, <2>2, Standing, ActivateSound
<1>7. used' = used /\ (Become(Activate(q)) \/ Become(p))
  BY <1>1, <1>3 DEF Wake
<1> QED  BY <1>2, <1>6, <1>7, Standing, Arrives

(* The user enters the password or cancels. *)
LEMMA AnswerInv == ASSUME Inv, Answer PROVE Inv'
<1>1. PICK p : p = [Now EXCEPT !.c.asking = FALSE]
  OBVIOUS
<1>2. Sound(p, Now.c.slurp, used) /\ Shape(p, Now)
  BY <1>1, Standing, WokenSound, Zenon
<1>3. PICK q : q = [p EXCEPT !.c.error = TRUE]
  OBVIOUS
<1>4. Sound(q, Now.c.slurp, used) /\ Shape(q, p)
  BY <1>2, <1>3, WokenSound, Zenon
<1>5. Shape(q, Now) /\ Shape(p, p)
  BY <1>2, <1>4 DEF Shape
<1>6. Sound(LoadDocument(p), Now.c.slurp, used) /\ Shape(LoadDocument(p), Now)
  <2>1. Shape(LoadDocument(p), p)
    BY <1>5, ShapeLoad
  <2>2. Shape(LoadDocument(p), Now)
    BY <1>2, <2>1 DEF Shape
  <2> QED  BY <1>2, <2>2, Standing, LoadDocumentSound
<1>7. used' = used /\ (Become(LoadDocument(p)) \/ Become(q))
  BY <1>1, <1>3 DEF Answer
<1> QED  BY <1>4, <1>5, <1>6, <1>7, Standing, Arrives
-----------------------------------------------------------------------------
(* Steps of wsd. *)

States == {"none", "loading", "joined", "loaded", "blocking", "ended"}

(* wsd says w more and is in another state. *)
LEMMA SaidInv ==
    ASSUME Inv, NEW w \in Seq(Message), NEW state \in States, c' = c,
           wsd' = [wsd EXCEPT !.wire = w, !.state = state], Bounds(used'),
           used'["sends"] \in {used["sends"], used["sends"] + 1},
           LayerOK(c.handled, c.delayed, c.slurp, w, used'["views"]),
           CountOK(c.count, c.slurp, w, used'["faults"])
    PROVE  Inv'
<1>1. PICK p : p = [c |-> c, wsd |-> wsd']
  OBVIOUS
<1>2. p.c = c /\ p.wsd = wsd' /\ DOMAIN p = {"c", "wsd"}
  BY <1>1
<1>3. Session(wsd') /\ wsd'.wire = w /\ wsd'.view = wsd.view
  <2>1. Session(wsd)
    BY Standing DEF Formed
  <2> QED  BY <2>1 DEF Session, States
<1>4. Formed(p)
  BY <1>2, <1>3, Standing DEF Formed
<1>5. CmdOK(c.log, c.queue, used'["sends"])
  <2>1. CmdOK(c.log, c.queue, used["sends"]) /\ used["sends"] \in Nat
        /\ c.log \in Seq(Commands) /\ c.queue \in Seq(Queued)
    BY Standing, BoundsNat DEF Sound, Formed, Queues
  <2> QED  BY <2>1, CmdMore
<1>6. Sound(p, p.c.slurp, used')
  BY <1>2, <1>3, <1>4, <1>5, Standing DEF Sound
<1>7. Become(p) /\ Shape(p, p)
  BY <1>2, <1>4 DEF Become, Shape, Formed
<1> QED  BY <1>6, <1>7, Arrives

(* wsd says words that are not for the layer. *)
LEMMA SayInv ==
    ASSUME Inv, NEW m \in Message, NEW state \in States, Say(<<m>>, state), c' = c, Bounds(used'),
           used'["sends"] \in {used["sends"], used["sends"] + 1},
           used'["faults"] \in {used["faults"], used["faults"] + 1},
           used'["views"] \in {used["views"], used["views"] + 1},
           m.k = "unloading" => used'["faults"] = used["faults"] + 1,
           m.k = "view" => m.n = used["views"] /\ used'["views"] = used["views"] + 1
    PROVE  Inv'
<1>1. PICK w \in Seq(Message) : w = Append(wsd.wire, m) /\ w = wsd.wire \o <<m>>
  BY Standing, AppendParts, AppendIsConcat
<1>2. /\ LayerOK(c.handled, c.delayed, c.slurp, wsd.wire, used["views"])
      /\ CountOK(c.count, c.slurp, wsd.wire, used["faults"])
      /\ used["views"] \in Nat /\ used["faults"] \in Nat
  BY Standing, BoundsNat DEF Sound
<1>3. LayerOK(c.handled, c.delayed, c.slurp, w, used'["views"])
  <2>1. CASE m.k = "view"
    BY <1>1, <1>2, <2>1, Standing, LayerSays
  <2>2. CASE m.k # "view"
    <3>1. LayerOK(c.handled, c.delayed, c.slurp, w, used["views"])
      BY <1>1, <1>2, <2>2, Standing, LayerSays
    <3> QED  BY <1>2, <3>1, Standing, LayerSpent
  <2> QED  BY <2>1, <2>2
<1>4. CountOK(c.count, c.slurp, w, used'["faults"])
  <2>1. /\ m.k # "unloading" => CountOK(c.count, c.slurp, w, used["faults"])
        /\ CountOK(c.count, c.slurp, w, used["faults"] + 1)
    BY <1>1, <1>2, Standing, CountSays
  <2> QED  BY <2>1
<1>5. wsd' = [wsd EXCEPT !.wire = w, !.state = state]
  BY <1>1 DEF Say
<1> QED  BY <1>3, <1>4, <1>5, SaidInv

(* What wsd says is made of messages. *)
LEMMA Words ==
    \A k \in {"ready", "status", "idle", "recycling", "reload", "unloading", "failed", "limit",
              "password", "saveas", "block", "unblock", "image"} : Msg(k) \in Message /\ Msg(k).k = k
BY DEF Msg, Message

(* wsd goes on. *)
LEMMA ServerInv ==
    ASSUME Inv, Server PROVE Inv'
<1>1. CASE WsdReady \/ WsdStatus \/ WsdUnblock
  <2>1. /\ c' = c /\ used' = used
        /\ \E k \in {"ready", "status", "unblock"}, state \in States : Say(<<Msg(k)>>, state)
    BY <1>1 DEF WsdReady, WsdStatus, WsdUnblock, States
  <2>2. PICK k \in {"ready", "status", "unblock"}, state \in States : Say(<<Msg(k)>>, state)
    BY <2>1
  <2>3. PICK m \in Message : m = Msg(k) /\ m.k = k
    BY Words
  <2> QED  BY <2>1, <2>2, <2>3, Standing, SayInv
<1>2. CASE WsdImage \/ WsdSaveAs \/ WsdBlock
  <2>1. /\ c' = c /\ (Spend("views", MaxViews) \/ Spend("faults", MaxFaults))
        /\ \E k \in {"image", "saveas", "block"}, state \in States : Say(<<Msg(k)>>, state)
    BY <1>2 DEF WsdImage, WsdSaveAs, WsdBlock, States
  <2>2. PICK k \in {"image", "saveas", "block"}, state \in States : Say(<<Msg(k)>>, state)
    BY <2>1
  <2>3. PICK m \in Message : m = Msg(k) /\ m.k = k
    BY Words
  <2>4. /\ Bounds(used')
        /\ used'["sends"] \in {used["sends"], used["sends"] + 1}
        /\ used'["views"] \in {used["views"], used["views"] + 1}
        /\ used'["faults"] \in {used["faults"], used["faults"] + 1}
    BY <2>1, Standing, SpendBounds
  <2> QED  BY <2>1, <2>2, <2>3, <2>4, SayInv
<1>3. CASE WsdView
  <2>1. /\ c' = c /\ Spend("views", MaxViews) /\ wsd.state \in States
    BY <1>3, Standing DEF WsdView, States
  <2> PICK b \in BOOLEAN : Say(<<[k |-> "view", n |-> used["views"], delays |-> b]>>, wsd.state)
    BY <1>3 DEF WsdView
  <2>2. used["views"] \in 0..MaxViews
    BY Standing DEF Bounds
  <2>3. PICK m \in Message : m = [k |-> "view", n |-> used["views"], delays |-> b] /\ m.k = "view" /\ m.n = used["views"]
    <3>1. ASSUME NEW v \in 0..MaxViews PROVE [k |-> "view", n |-> v, delays |-> b] \in Message
      BY DEF Message
    <3> QED  BY <2>2, <3>1
  <2>4. /\ Bounds(used')
        /\ used'["sends"] \in {used["sends"], used["sends"] + 1}
        /\ used'["views"] \in {used["views"], used["views"] + 1}
        /\ used'["faults"] \in {used["faults"], used["faults"] + 1}
    BY <2>1, Standing, SpendBounds
  <2>5. used'["views"] = used["views"] + 1
    BY <2>1, Standing DEF Spend, Bounds
  <2> QED  BY <2>1, <2>3, <2>4, <2>5, SayInv
<1> QED  BY <1>1, <1>2, <1>3 DEF Server

(* wsd refuses, ends or loses the session. *)
LEMMA WsdFaultInv ==
    ASSUME Inv, WsdRefuse \/ WsdEnd PROVE Inv'
<1>1. c' = c /\ Spend("faults", MaxFaults)
  BY DEF WsdRefuse, WsdEnd
<1>2. /\ Bounds(used')
      /\ used'["sends"] \in {used["sends"], used["sends"] + 1}
      /\ used'["views"] \in {used["views"], used["views"] + 1}
      /\ used'["faults"] \in {used["faults"], used["faults"] + 1}
  BY <1>1, Standing, SpendBounds
<1>3. used'["faults"] = used["faults"] + 1
  BY <1>1, Standing DEF Spend, Bounds
<1>4. CASE WsdRefuse
  <2>1. PICK k \in Refusals : Say(<<Msg(k)>>, "ended")
    BY <1>4 DEF WsdRefuse
  <2>2. k \in {"unloading", "failed", "limit", "password"}
    BY <2>1, ConnectionAssumption
  <2>3. PICK m \in Message : m = Msg(k) /\ m.k = k
    BY <2>2, Words
  <2>4. PICK state \in States : state = "ended"
    BY DEF States
  <2> QED  BY <1>1, <1>2, <1>3, <2>1, <2>2, <2>3, <2>4, SayInv
<1>5. CASE WsdEnd
  <2>1. PICK k \in Endings : Say(IF k = "drop" THEN <<>> ELSE <<Msg(k)>>, "ended")
    BY <1>5 DEF WsdEnd
  <2>2. k \in {"idle", "recycling", "reload", "drop"}
    BY <2>1, ConnectionAssumption
  <2>3. PICK state \in States : state = "ended"
    BY DEF States
  <2>4. CASE k # "drop"
    <3>1. PICK m \in Message : m = Msg(k) /\ m.k = k
      BY <2>2, <2>4, Words
    <3>2. Say(<<m>>, state)
      BY <2>1, <2>3, <2>4, <3>1
    <3> QED  BY <1>1, <1>2, <2>2, <2>4, <3>1, <3>2, SayInv
  <2>5. CASE k = "drop"
    <3>1. Say(<<>>, state)
      BY <2>1, <2>3, <2>5
    <3>2. PICK w \in Seq(Message) : w = wsd.wire /\ wsd.wire \o <<>> = w
      BY Standing, ConcatEmptySeq
    <3>3. wsd' = [wsd EXCEPT !.wire = w, !.state = state]
      BY <3>1, <3>2 DEF Say
    <3>4. Sound(Now, Now.c.slurp, used')
      BY <1>2, Standing, SpentSound
    <3>5. /\ LayerOK(c.handled, c.delayed, c.slurp, w, used'["views"])
          /\ CountOK(c.count, c.slurp, w, used'["faults"])
      BY <3>2, <3>4, Standing DEF Sound
    <3> QED  BY <1>1, <1>2, <3>3, <3>5, SaidInv
  <2> QED  BY <2>4, <2>5
<1> QED  BY <1>4, <1>5
-----------------------------------------------------------------------------
(* The page starts with nothing sent and nothing received. *)
LEMMA InvInit == Init => Inv
<1> SUFFICES ASSUME Init PROVE Inv
  OBVIOUS
<1>1. /\ c.sock = "connecting" /\ c.active = TRUE /\ c.recycling = FALSE /\ c.idle = FALSE
      /\ c.reconnecting = FALSE /\ c.count = 0 /\ c.interval = "none" /\ c.timers = <<>>
      /\ c.fatal = FALSE /\ c.docLayer = FALSE /\ c.docLoaded = FALSE /\ c.blocked = FALSE
      /\ c.asking = FALSE /\ c.dimmed = FALSE /\ c.error = FALSE /\ c.queue = <<>> /\ c.slurp = <<>>
      /\ c.delayed = <<>> /\ c.delayTimer = FALSE /\ c.log = <<>> /\ c.handled = <<>>
      /\ c.tried = FALSE /\ c.hasty = FALSE /\ c.muted = FALSE /\ c.leftover = FALSE
      /\ c.stale = FALSE /\ DOMAIN c = PageFields
  BY DEF Init, PageFields
<1>2. Flags(c)
  <2>1. 0 \in Nat /\ TRUE \in BOOLEAN /\ FALSE \in BOOLEAN
    OBVIOUS
  <2> QED  BY <1>1, <2>1, Zenon DEF Flags
<1>3. Queues(c)
  <2>1. /\ <<>> \in Seq(Timers) /\ <<>> \in Seq(Queued) /\ <<>> \in Seq(Message)
        /\ <<>> \in Seq(Commands) /\ <<>> \in Seq(Message)
    BY EmptySeq
  <2> QED  BY <1>1, <2>1 DEF Queues
<1>4. wsd = Nobody /\ Session(wsd)
  BY NobodySession DEF Init
<1>5. Now.c = c /\ Now.wsd = wsd /\ DOMAIN Now = {"c", "wsd"}
  BY DEF Now
<1>6. Formed(Now)
  BY <1>1, <1>2, <1>3, <1>4, <1>5 DEF Formed
<1>7. used["faults"] = 0 /\ used["sends"] = 0 /\ used["views"] = 0 /\ Bounds(used)
  BY ConnectionAssumption DEF Init, Bounds
<1>8. Below(<<>>, 0)
  BY DEF Below, Increasing
<1>9. CmdOK(<<>>, <<>>, 0) /\ LayerOK(<<>>, <<>>, <<>>, <<>>, 0)
  BY <1>8, BandEmpty DEF CmdOK, LayerOK, Settled
<1>10. CountOK(0, <<>>, <<>>, 0) /\ OnlyViews(<<>>)
  BY RefusedEmpty DEF CountOK, OnlyViews
<1>11. Sound(Now, c.slurp, used)
  BY <1>1, <1>4, <1>5, <1>6, <1>7, <1>9, <1>10, NobodySession DEF Sound
<1> QED  BY <1>7, <1>11 DEF Inv

(* Every step keeps the invariant. *)
LEMMA InvNext == Inv /\ [Next]_vars => Inv'
<1> SUFFICES ASSUME Inv, [Next]_vars PROVE Inv'
  OBVIOUS
<1>1. CASE Page
  BY <1>1, OpenInv, ReceiveInv, ClosingInv, ClosedInv, TimerInv, IntervalInv, DelayTimerInv,
     ImageLoadInv DEF Page
<1>2. CASE User
  BY <1>2, SendInv, FocusInv, BlurInv, WakeInv, AnswerInv DEF User
<1>3. CASE Server
  BY <1>3, ServerInv
<1>4. CASE Faults
  BY <1>4, FailInv, WsdFaultInv DEF Faults
<1>5. CASE UNCHANGED vars
  BY <1>5 DEF vars, Inv, Now
<1> QED  BY <1>1, <1>2, <1>3, <1>4, <1>5 DEF Next

(* The inductive invariant holds in every state. *)
LEMMA InvAlways == Spec => []Inv
BY InvInit, InvNext, PTL DEF Spec

(* The fields of the page, of its queues and of the session at wsd keep     *)
(* their types; refusals while the document unloads are counted no more     *)
(* often than wsd refused (TypeOK: Socket.js, Map.js).                      *)
THEOREM PageTypes == Spec => []TypeOK
<1>1. Inv => TypeOK
  <2> SUFFICES ASSUME Inv PROVE TypeOK
    OBVIOUS
  <2>1. Formed(Now) /\ Now.c = c /\ Now.wsd = wsd
    BY Standing
  <2>2. Flags(c) /\ Queues(c) /\ Session(wsd)
    BY <2>1 DEF Formed
  <2>3. c.count \in 0..(MaxFaults + 1)
    <3>1. CountOK(c.count, c.slurp, wsd.wire, used["faults"]) /\ used["faults"] \in 0..MaxFaults
      BY Standing DEF Sound, Bounds
    <3>2. c.count <= used["faults"] /\ c.count \in Nat
      BY <3>1, Standing, CountClosed, BoundsNat
    <3> QED  BY <3>1, <3>2, ConnectionAssumption
  <2> QED  BY <2>2, <2>3 DEF TypeOK, Flags, Queues, Session, Queued, Commands, Timers
<1> QED  BY <1>1, InvAlways, PTL

(* Commands reach wsd in the order the user gave them, over reconnections:  *)
(* what sendMessage() queues while there is no connection is sent by        *)
(* _onSocketOpen() before anything else.                                    *)
THEOREM CommandsKeepOrder == Spec => []CommandsInOrder
<1>1. Inv => CommandsInOrder
  BY Standing DEF Sound, CmdOK, Below, CommandsInOrder
<1> QED  BY <1>1, InvAlways, PTL

(* The document layer handles messages in the order wsd sent them, although *)
(* some are slurped, some wait for pictures and some are delayed until the  *)
(* layer exists.                                                            *)
THEOREM MessagesKeepOrder == Spec => []MessagesInOrder
<1>1. Inv => MessagesInOrder
  BY Standing DEF Sound, LayerOK, Settled, MessagesInOrder
<1> QED  BY <1>1, InvAlways, PTL

(* A page that takes itself for active is active for wsd too, unless the    *)
(* notice was swallowed (Map._activate(), _deactivate(), _onSocketOpen()).  *)
THEOREM KitKnowsActivity == Spec => []ActivityAgrees
<1>1. Inv => ActivityAgrees
  BY Standing DEF Sound, ActivityAgrees
<1> QED  BY <1>1, InvAlways, PTL
-----------------------------------------------------------------------------
(* A page does not stay without a connection.                               *)
(*                                                                         *)
(* q is what wsd has said and the page has not handled yet: slurped, then   *)
(* on the wire.  It follows a script, so that a word of the last load is    *)
(* not handled after one that ended the session.                            *)

LastWords == {"idle", "recycling", "reload", "unloading", "failed", "limit", "password"}

Has(q, k) == \E i \in DOMAIN q : q[i].k = k

(* b is not said after a. *)
NeverAfter(a, b) ==
    \/ a \in LastWords
    \/ a = "ready" /\ b = "ready"
    \/ a \in {"status", "block"} /\ b \in {"ready", "status"}

(* What wsd may have said, being in the state st. *)
Word(k, st) ==
    /\ k \in LastWords => st \in {"none", "ended"}
    /\ k \in {"status", "block"} => st \notin {"loading", "joined"}
    /\ k = "ready" => st # "loading"

Script(q, st) ==
    /\ \A i, j \in DOMAIN q : i < j => ~NeverAfter(q[i].k, q[j].k)
    /\ \A i \in DOMAIN q : Word(q[i].k, st)
    /\ \A i \in DOMAIN q :
          q[i].k = "block" => st = "blocking" \/ \E j \in DOMAIN q : i < j /\ q[j].k = "unblock"

(* The load that was asked for is not done yet. *)
Loading(x, st, q) ==
    x.sock = "connecting" \/ st \in {"loading", "joined"} \/ Has(q, "ready") \/ Has(q, "status")

Closes(t) == \E i \in DOMAIN t : t[i] = "close"

(* What holds of every page x with the session w. *)
Steady(x, w) ==
    /\ x.idle => x.dimmed /\ ~x.active
    /\ x.recycling => ~x.active
    /\ x.count > 0 => x.interval # "none" \/ x.error
    /\ x.fatal => x.error
    /\ Closes(x.timers) => x.sock \in {"closed", "connecting"} /\ ~x.active
    /\ x.sock # "open" => w.state \in {"none", "ended"} /\ w.wire = <<>>

(* A page without a connection goes on trying, or the user knows. *)
Excused(x) ==
    \/ x.tried \/ x.error \/ x.asking \/ (x.idle /\ x.dimmed) \/ x.leftover
    \/ x.interval # "none" \/ Closes(x.timers)

(* What holds of a page x that never connected again too early. *)
Ordinary(x, st, q) ==
    /\ Script(q, st)
    /\ x.recycling \/ x.idle => q = <<>> /\ st \in {"none", "ended"}
    /\ x.sock = "connecting" => q = <<>>
    /\ Loading(x, st, q) =>
          \/ x.tried
          \/ /\ ~x.docLayer /\ x.interval = "none" /\ x.count = 0 /\ ~x.reconnecting
             /\ ~x.recycling /\ ~x.idle
    /\ x.blocked => /\ ~Has(q, "status") /\ ~Has(q, "ready") /\ st \notin {"loading", "joined"}
                    /\ st = "blocking" \/ Has(q, "unblock")
    /\ x.reconnecting => x.tried \/ x.leftover \/ ((x.recycling \/ x.idle) /\ x.sock # "open")
    /\ x.recycling => x.interval # "none"
    /\ x.sock = "closed" => Excused(x)

(* s is what is slurped and not handled yet. *)
Retry(p, s) ==
    /\ Steady(p.c, p.wsd)
    /\ p.c.stale \/ Ordinary(p.c, p.wsd.state, s \o p.wsd.wire)
-----------------------------------------------------------------------------
(* Nothing said is a script. *)
LEMMA ScriptEmpty == ASSUME NEW st PROVE Script(<<>>, st) /\ ~Has(<<>>, "ready") /\ ~Has(<<>>, "status")
BY DEF Script, Has

(* A script without its first word is a script. *)
LEMMA ScriptTail ==
    ASSUME NEW q \in Seq(Message), q # <<>>, NEW st, Script(q, st)
    PROVE  /\ Script(Tail(q), st)
           /\ \A k \in {"ready", "status"} : Has(Tail(q), k) => Has(q, k) /\ ~NeverAfter(Head(q).k, k)
           /\ Has(q, Head(q).k) /\ Word(Head(q).k, st)
           /\ \A k : Has(q, k) /\ Head(q).k # k => Has(Tail(q), k)
           /\ Head(q).k \in LastWords => Tail(q) = <<>>
           /\ Head(q).k = "block" => st = "blocking" \/ Has(Tail(q), "unblock")
<1> DEFINE t == Tail(q)
<1>1. /\ t \in Seq(Message) /\ Head(q) = q[1] /\ 1 \in DOMAIN q
      /\ DOMAIN t = 1..Len(q)-1 /\ DOMAIN q = 1..Len(q) /\ Len(q) \in Nat \ {0}
      /\ \A i \in DOMAIN t : i + 1 \in DOMAIN q /\ t[i] = q[i + 1]
  BY TailParts
<1>2. \A i \in DOMAIN q : i # 1 => i - 1 \in DOMAIN t /\ t[i - 1] = q[i]
  BY <1>1
<1> HIDE DEF t
<1>3. \A i \in DOMAIN t : ~NeverAfter(Head(q).k, t[i].k)
  <2> SUFFICES ASSUME NEW i \in DOMAIN t PROVE ~NeverAfter(Head(q).k, t[i].k)
    OBVIOUS
  <2>1. i + 1 \in DOMAIN q /\ t[i] = q[i + 1] /\ 1 < i + 1
    BY <1>1
  <2> QED  BY <1>1, <2>1 DEF Script
<1>4. Script(t, st)
  <2>1. ASSUME NEW i \in DOMAIN t, NEW j \in DOMAIN t, i < j PROVE ~NeverAfter(t[i].k, t[j].k)
    <3>1. i + 1 \in DOMAIN q /\ j + 1 \in DOMAIN q /\ i + 1 < j + 1
      BY <1>1, <2>1
    <3> QED  BY <1>1, <3>1 DEF Script
  <2>2. ASSUME NEW i \in DOMAIN t PROVE Word(t[i].k, st)
    BY <1>1 DEF Script
  <2>3. ASSUME NEW i \in DOMAIN t, t[i].k = "block", st # "blocking"
        PROVE  \E j \in DOMAIN t : i < j /\ t[j].k = "unblock"
    <3>1. i + 1 \in DOMAIN q /\ q[i + 1].k = "block"
      BY <1>1, <2>3
    <3>2. PICK j \in DOMAIN q : i + 1 < j /\ q[j].k = "unblock"
      BY <2>3, <3>1 DEF Script
    <3>3. j - 1 \in DOMAIN t /\ t[j - 1].k = "unblock" /\ i < j - 1
      BY <1>1, <1>2, <3>2
    <3> QED  BY <3>3
  <2> QED  BY <2>1, <2>2, <2>3 DEF Script
<1>5. \A k \in {"ready", "status"} : Has(t, k) => Has(q, k) /\ ~NeverAfter(Head(q).k, k)
  BY <1>1, <1>3 DEF Has
<1>6. Has(q, Head(q).k) /\ Word(Head(q).k, st)
  BY <1>1 DEF Has, Script
<1>7. \A k : Has(q, k) /\ Head(q).k # k => Has(t, k)
  BY <1>1, <1>2 DEF Has
<1>8. Head(q).k \in LastWords => t = <<>>
  <2>1. ASSUME Head(q).k \in LastWords PROVE DOMAIN t = {}
    BY <1>3, <2>1 DEF NeverAfter
  <2>2. DOMAIN t = {} => Len(t) = 0
    BY <1>1, LenProperties
  <2> QED  BY <1>1, <2>1, <2>2, EmptySeq
<1>9. Head(q).k = "block" => st = "blocking" \/ Has(t, "unblock")
  <2>1. ASSUME Head(q).k = "block", st # "blocking" PROVE Has(t, "unblock")
    <3>1. PICK j \in DOMAIN q : 1 < j /\ q[j].k = "unblock"
      BY <1>1, <2>1 DEF Script
    <3> QED  BY <1>2, <3>1, <1>1 DEF Has
  <2> QED  BY <2>1
<1> QED  BY <1>4, <1>5, <1>6, <1>7, <1>8, <1>9 DEF t

(* One word more makes a script if it may follow. *)
LEMMA ScriptAppend ==
    ASSUME NEW q \in Seq(Message), NEW m \in Message, NEW st, NEW new, Script(q, st),
           \A i \in DOMAIN q : ~NeverAfter(q[i].k, m.k) /\ Word(q[i].k, new),
           Word(m.k, new),
           m.k = "block" => new = "blocking",
           st = "blocking" => new = "blocking" \/ m.k = "unblock"
    PROVE  /\ Script(Append(q, m), new)
           /\ \A k : Has(Append(q, m), k) <=> Has(q, k) \/ k = m.k
<1> DEFINE a == Append(q, m)
<1>1. /\ Len(q) \in Nat /\ DOMAIN q = 1..Len(q) /\ DOMAIN a = 1..Len(q)+1
      /\ \A i \in DOMAIN q : a[i] = q[i]
      /\ a[Len(q) + 1] = m
  BY AppendParts
<1> HIDE DEF a
<1>2. DOMAIN a = DOMAIN q \cup {Len(q) + 1} /\ \A i \in DOMAIN q : i < Len(q) + 1 /\ i \in Nat
  BY <1>1
<1>3. \A k : Has(a, k) <=> Has(q, k) \/ k = m.k
  BY <1>1, <1>2 DEF Has
<1>4. ASSUME NEW i \in DOMAIN a, NEW j \in DOMAIN a, i < j PROVE ~NeverAfter(a[i].k, a[j].k)
  <2>1. i \in DOMAIN q
    BY <1>1, <1>4
  <2>2. CASE j \in DOMAIN q
    BY <1>1, <1>4, <2>1, <2>2 DEF Script
  <2>3. CASE j = Len(q) + 1
    BY <1>1, <2>1, <2>3
  <2> QED  BY <1>2, <2>2, <2>3
<1>5. ASSUME NEW i \in DOMAIN a PROVE Word(a[i].k, new)
  BY <1>1, <1>2
<1>6. ASSUME NEW i \in DOMAIN a, a[i].k = "block", new # "blocking"
      PROVE  \E j \in DOMAIN a : i < j /\ a[j].k = "unblock"
  <2>1. i \in DOMAIN q /\ q[i].k = "block"
    BY <1>1, <1>2, <1>6
  <2>2. CASE st = "blocking"
    <3>1. m.k = "unblock"
      BY <1>6, <2>2
    <3> QED  BY <1>1, <1>2, <2>1, <3>1
  <2>3. CASE st # "blocking"
    <3>1. PICK j \in DOMAIN q : i < j /\ q[j].k = "unblock"
      BY <2>1, <2>3 DEF Script
    <3> QED  BY <1>1, <1>2, <3>1
  <2> QED  BY <2>2, <2>3
<1> QED  BY <1>3, <1>4, <1>5, <1>6 DEF Script, a

(* Only the kinds of the words count. *)
LEMMA ScriptDecoded ==
    ASSUME NEW q, NEW r, DOMAIN q = DOMAIN r, NEW st, Script(q, st),
           \A i \in DOMAIN q : r[i].k = q[i].k \/ (q[i].k = "image" /\ r[i].k = "decoded")
    PROVE  /\ Script(r, st)
           /\ \A k \in {"ready", "status", "unblock"} : Has(r, k) <=> Has(q, k)
<1>1. \A k \in {"ready", "status", "unblock"} : Has(r, k) <=> Has(q, k)
  BY DEF Has
<1>2. ASSUME NEW i \in DOMAIN r, NEW j \in DOMAIN r, i < j PROVE ~NeverAfter(r[i].k, r[j].k)
  <2>1. ~NeverAfter(q[i].k, q[j].k)
    BY <1>2 DEF Script
  <2> QED  BY <2>1 DEF NeverAfter, LastWords
<1>3. ASSUME NEW i \in DOMAIN r PROVE Word(r[i].k, st)
  <2>1. Word(q[i].k, st)
    BY DEF Script
  <2> QED  BY <2>1 DEF Word, LastWords
<1>4. ASSUME NEW i \in DOMAIN r, r[i].k = "block", st # "blocking"
      PROVE  \E j \in DOMAIN r : i < j /\ r[j].k = "unblock"
  <2>1. PICK j \in DOMAIN q : i < j /\ q[j].k = "unblock"
    BY <1>4 DEF Script
  <2> QED  BY <2>1
<1> QED  BY <1>1, <1>2, <1>3, <1>4 DEF Script
-----------------------------------------------------------------------------
(* The operations of the page. *)

(* Nothing else matters. *)
LEMMA AlikeRetry ==
    ASSUME NEW p, NEW q, Alike(q, p), NEW s
    PROVE  Retry(p, s) <=> Retry(q, s)
BY DEF Alike, Retry, Steady, Ordinary, Loading, Excused

(* Map.loadDocument() starts over, and is marked if it came too early. *)
LEMMA LoadRetry ==
    ASSUME NEW p, Formed(p), Steady(p.c, p.wsd), NEW s, p.c.slurp # <<>> \/ s = <<>>,
           p.c.stale \/ (p.c.recycling => p.c.interval # "none")
    PROVE  /\ Retry(LoadDocument(p), s)
           /\ p.c.slurp # <<>> => LoadDocument(p).c.stale
           /\ LoadDocument(p).c.sock = "connecting"
<1> DEFINE q == LoadDocument(p)
<1>1. PICK k : k = Close(p)
  OBVIOUS
<1>2. /\ DOMAIN k = {"c", "wsd"} /\ DOMAIN k.c = PageFields /\ k.wsd = Nobody
      /\ k.c.active = p.c.active /\ k.c.recycling = p.c.recycling
      /\ k.c.idle = p.c.idle /\ k.c.count = p.c.count
      /\ k.c.interval = p.c.interval /\ k.c.timers = p.c.timers /\ k.c.fatal = p.c.fatal
      /\ k.c.blocked = p.c.blocked /\ k.c.dimmed = p.c.dimmed /\ k.c.error = p.c.error
      /\ k.c.stale = p.c.stale
  BY <1>1 DEF Formed, PageFields, Close
<1> DEFINE b == p.c.stale \/ p.c.slurp # <<>> \/ p.c.blocked
<1>3. q = [k EXCEPT !.c.sock = "connecting", !.c.tried = TRUE, !.c.stale = b]
  BY <1>1, <1>2 DEF LoadDocument, PageFields
<1>4. b \in BOOLEAN
  BY DEF Formed, Flags
<1>5. b => p.c.stale \/ p.c.slurp # <<>> \/ p.c.blocked
  OBVIOUS
<1>6. p.c.slurp # <<>> \/ p.c.blocked \/ p.c.stale => b
  OBVIOUS
<1> HIDE DEF b, q
<1>7. /\ q.wsd = Nobody /\ q.c.sock = "connecting" /\ q.c.tried = TRUE /\ q.c.stale = b
      /\ q.c.active = p.c.active /\ q.c.recycling = p.c.recycling
      /\ q.c.idle = p.c.idle /\ q.c.count = p.c.count
      /\ q.c.interval = p.c.interval /\ q.c.timers = p.c.timers /\ q.c.fatal = p.c.fatal
      /\ q.c.blocked = p.c.blocked /\ q.c.dimmed = p.c.dimmed /\ q.c.error = p.c.error
  BY <1>2, <1>3 DEF PageFields
<1>8. Nobody.wire = <<>> /\ Nobody.state = "none"
  BY DEF Nobody
<1>9. Steady(q.c, q.wsd)
  BY <1>7, <1>8 DEF Steady
<1>10. ASSUME ~b PROVE s = <<>> /\ ~q.c.blocked /\ (q.c.recycling => q.c.interval # "none")
  BY <1>6, <1>7, <1>10
<1>11. ASSUME ~b PROVE \E r : r = s \o q.wsd.wire /\ r = <<>>
  BY <1>7, <1>8, <1>10, <1>11, ConcatEmptySeq, EmptySeq
<1>12. ASSUME ~b PROVE Ordinary(q.c, q.wsd.state, <<>>)
  <2>1. \A i : Script(<<>>, i)
    BY ScriptEmpty
  <2> QED  BY <1>7, <1>8, <1>10, <1>12, <2>1, ScriptEmpty DEF Ordinary, Steady
<1> QED  BY <1>4, <1>6, <1>7, <1>9, <1>11, <1>12 DEF Retry, q

(* Setting the flag of activity on an open connection. *)
LEMMA ActiveRetry ==
    ASSUME NEW p, Formed(p), NEW s, Retry(p, s), NEW q, NEW a \in BOOLEAN, NEW b \in BOOLEAN,
           q = [p EXCEPT !.c.active = a, !.c.muted = b],
           a => p.c.sock = "open" /\ ~p.c.recycling /\ ~p.c.idle
    PROVE  Retry(q, s) /\ Formed(q) /\ q.c.slurp = p.c.slurp
<1>1. /\ q.c.sock = p.c.sock /\ q.c.active = a /\ q.c.recycling = p.c.recycling
      /\ q.c.idle = p.c.idle /\ q.c.reconnecting = p.c.reconnecting /\ q.c.count = p.c.count
      /\ q.c.interval = p.c.interval /\ q.c.timers = p.c.timers /\ q.c.fatal = p.c.fatal
      /\ q.c.docLayer = p.c.docLayer /\ q.c.blocked = p.c.blocked /\ q.c.asking = p.c.asking
      /\ q.c.dimmed = p.c.dimmed /\ q.c.error = p.c.error /\ q.c.slurp = p.c.slurp
      /\ q.c.tried = p.c.tried /\ q.c.leftover = p.c.leftover /\ q.c.stale = p.c.stale
      /\ q.wsd = p.wsd
  BY DEF Formed, PageFields
<1>2. Formed(q)
  BY DEF Formed, Flags, Queues, PageFields
<1>3. Steady(q.c, q.wsd)
  BY <1>1 DEF Retry, Steady
<1>4. q.c.stale \/ Ordinary(q.c, q.wsd.state, s \o q.wsd.wire)
  BY <1>1 DEF Retry, Ordinary, Loading, Excused
<1> QED  BY <1>1, <1>2, <1>3, <1>4 DEF Retry

(* _doSend() does not touch what matters, but for the load request. *)
LEMMA DoSendAlike ==
    ASSUME NEW p, Formed(p), NEW m, m.k # "load"
    PROVE  Alike(DoSend(p, m), p)
<1>1. Session(p.wsd) /\ DOMAIN p.wsd = {"state", "view", "wire"}
  BY DEF Formed, Session
<1>2. CASE m.k = "cmd"
  BY <1>2 DEF DoSend, Alike, Formed, PageFields
<1>3. CASE m.k = "useractive"
  BY <1>1, <1>3 DEF DoSend, Alike, Formed
<1>4. CASE m.k = "userinactive"
  BY <1>1, <1>4 DEF DoSend, Alike, Formed
<1>5. CASE m.k \notin {"cmd", "useractive", "userinactive", "load"}
  BY <1>5 DEF DoSend, Alike
<1> QED  BY <1>2, <1>3, <1>4, <1>5

(* Socket.sendMessage() connects if there is no connection, or drops the message. *)
LEMMA SendRetry ==
    ASSUME NEW p, Formed(p), NEW s, Retry(p, s), p.c.slurp # <<>> \/ s = <<>> \/ s = p.c.slurp,
           NEW m, m.k # "load"
    PROVE  Retry(SendMessage(p, m), s)
<1>1. CASE p.c.sock = "open"
  <2>1. Alike(DoSend(p, m), p)
    BY DoSendAlike
  <2>2. SendMessage(p, m) \in {p, DoSend(p, m)}
    BY <1>1 DEF SendMessage
  <2> QED  BY <2>1, <2>2, AlikeRetry
<1>2. CASE p.c.sock # "open"
  <2>1. PICK p1 : p1 = IF p.c.sock \in {"closing", "closed"} THEN LoadDocument(p) ELSE p
    OBVIOUS
  <2>2. p.c.slurp # <<>> \/ s = <<>>
    OBVIOUS
  <2>3. Retry(p1, s)
    BY <2>1, <2>2, LoadRetry DEF Retry, Ordinary
  <2>4. DOMAIN p1 = {"c", "wsd"} /\ DOMAIN p1.c = PageFields
    <3>1. Shape(p, p)
      BY DEF Shape, Formed
    <3>2. Shape(LoadDocument(p), p)
      BY <3>1, ShapeLoad
    <3> QED  BY <2>1, <3>1, <3>2 DEF Shape
  <2>5. PICK q : q = [p1 EXCEPT !.c.queue = Append(p1.c.queue, m)]
    OBVIOUS
  <2>6. Alike(q, p1)
    BY <2>4, <2>5 DEF Alike, PageFields
  <2>7. Retry(q, s)
    BY <2>3, <2>6, AlikeRetry
  <2>8. SendMessage(p, m) \in {p, q}
    BY <1>2, <2>1, <2>5 DEF SendMessage
  <2> QED  BY <2>7, <2>8
<1> QED  BY <1>1, <1>2

(* Map._activate() connects if there is no connection. *)
LEMMA ActivateRetry ==
    ASSUME NEW p, Formed(p), NEW s, Retry(p, s), p.c.slurp # <<>> \/ s = <<>>
    PROVE  Retry(Activate(p), s)
<1>1. CASE p.c.recycling \/ p.c.idle \/ p.c.active
  BY <1>1 DEF Activate
<1>2. CASE ~(p.c.recycling \/ p.c.idle \/ p.c.active) /\ p.c.sock # "open"
  BY <1>2, LoadRetry DEF Activate, Retry, Ordinary
<1>3. CASE ~(p.c.recycling \/ p.c.idle \/ p.c.active) /\ p.c.sock = "open"
  <2>1. PICK p1 : p1 = SendMessage(p, [k |-> "useractive"])
    OBVIOUS
  <2>2. p1 = p \/ p1 = [p EXCEPT !.wsd.view = ("useractive" = "useractive")]
    <3>1. PICK z \in Seq(Message) : z = p.c.slurp
      BY DEF Formed, Queues
    <3>2. SendMessage(p, [k |-> "useractive"]) =
             IF p.c.fatal \/ p.c.blocked THEN p ELSE [p EXCEPT !.wsd.view = ("useractive" = "useractive")]
      <4> DEFINE m == [k |-> "useractive"]
      <4>1. m.k = "useractive" /\ IsActivity(m)
        BY DEF IsActivity
      <4> HIDE DEF m
      <4>2. DoSend(p, m) = [p EXCEPT !.wsd.view = ("useractive" = "useractive")]
        BY <4>1 DEF DoSend
      <4>3. SendMessage(p, m) = IF p.c.fatal \/ p.c.blocked THEN p ELSE DoSend(p, m)
        BY <1>3, <4>1 DEF SendMessage
      <4> QED  BY <4>2, <4>3 DEF m
    <3> QED  BY <2>1, <3>2
  <2>3. Formed(p1) /\ Alike(p1, p)
    <3>1. CASE p1 = p
      BY <3>1 DEF Alike
    <3>2. CASE p1 = [p EXCEPT !.wsd.view = ("useractive" = "useractive")]
      <4>1. p1 = [p EXCEPT !.wsd = [p.wsd EXCEPT !.view = TRUE]]
        BY <3>2 DEF Formed
      <4>2. PICK w : w = [p.wsd EXCEPT !.view = TRUE]
        OBVIOUS
      <4>3. Session(w) /\ w.state = p.wsd.state /\ w.wire = p.wsd.wire
        BY <4>2 DEF Formed, Session
      <4>4. p1.c = p.c /\ p1.wsd = w /\ DOMAIN p1 = {"c", "wsd"}
        BY <4>1, <4>2 DEF Formed
      <4> QED  BY <4>3, <4>4 DEF Formed, Alike
    <3> QED  BY <2>2, <3>1, <3>2
  <2>4. PICK b \in BOOLEAN : b = (p.c.blocked \/ p.c.fatal)
    BY DEF Formed, Flags
  <2>5. Activate(p) = [p1 EXCEPT !.c.active = TRUE, !.c.muted = b]
    BY <1>3, <2>1, <2>4 DEF Activate
  <2>6. PICK a \in BOOLEAN : a = TRUE
    OBVIOUS
  <2>9. PICK q : q = [p1 EXCEPT !.c.active = a, !.c.muted = b]
    OBVIOUS
  <2>7. Retry(p1, s) /\ p1.c.sock = "open" /\ ~p1.c.recycling /\ ~p1.c.idle
    <3>1. Retry(p1, s)
      BY <2>3, AlikeRetry
    <3> QED  BY <1>3, <2>3, <3>1 DEF Alike
  <2>8. Retry(q, s)
    BY <2>3, <2>7, <2>9, ActiveRetry
  <2> QED  BY <2>5, <2>6, <2>8, <2>9
<1> QED  BY <1>1, <1>2, <1>3

(* Map._deactivate() leaves the connection as it is. *)
LEMMA DeactivateRetry ==
    ASSUME NEW p, Formed(p), NEW s, Retry(p, s), NEW dialog \in BOOLEAN
    PROVE  Retry(Deactivate(p, dialog), s)
<1>1. PICK p1 : p1 = [p EXCEPT !.c.active = FALSE]
  OBVIOUS
<1>2. Formed(p1) /\ Retry(p1, s) /\ p1.c.sock = p.c.sock
  <2>1. PICK a \in BOOLEAN, b \in BOOLEAN : a = FALSE /\ b = p.c.muted
    BY DEF Formed, Flags
  <2>2. PICK q : q = [p EXCEPT !.c.active = a, !.c.muted = b]
    OBVIOUS
  <2>3. q = p1
    BY <1>1, <2>1, <2>2 DEF Formed, PageFields
  <2>4. Retry(q, s) /\ Formed(q)
    BY <2>1, <2>2, ActiveRetry
  <2> QED  BY <1>1, <2>3, <2>4 DEF Formed, PageFields
<1>3. CASE p.c.sock = "open"
  <2>1. PICK p2 : p2 = SendMessage(p1, [k |-> "userinactive"])
    OBVIOUS
  <2>2. p2 \in {p1, DoSend(p1, [k |-> "userinactive"])}
    BY <1>2, <1>3, <2>1 DEF SendMessage
  <2>3. Alike(p2, p1) /\ Shape(p2, p1)
    <3>1. [k |-> "userinactive"].k # "load" /\ Shape(p1, p1)
      BY <1>2 DEF Shape, Formed
    <3>2. Alike(p1, p1)
      BY DEF Alike
    <3> QED  BY <1>2, <2>2, <3>1, <3>2, DoSendAlike, ShapeSend
  <2>4. \A b : Alike([p2 EXCEPT !.c.muted = b], p2)
    BY <2>3 DEF Shape, PageFields, Alike
  <2>5. \A b : Retry([p2 EXCEPT !.c.muted = b], s)
    BY <1>2, <2>3, <2>4, AlikeRetry
  <2> QED  BY <1>1, <1>3, <2>1, <2>5 DEF Deactivate
<1>4. CASE p.c.sock # "open"
  BY <1>1, <1>2, <1>4 DEF Deactivate
<1> QED  BY <1>3, <1>4

(* _onSocketOpen() asks for the document on the new connection. *)
LEMMA OpenRetry ==
    ASSUME NEW p, NEW u, Bounds(u), Sound(p, p.c.slurp, u), Retry(p, p.c.slurp),
           p.c.sock = "connecting", p.c.timers = <<>>, NEW o, o = [p EXCEPT !.c.sock = "open"]
    PROVE  Retry(OnSocketOpen(o), p.c.slurp)
<1> DEFINE o1 == [o EXCEPT !.c.recycling = FALSE, !.c.idle = FALSE]
           w == [Nobody EXCEPT !.state = "loading"]
           rec == p.c.reconnecting \/ p.c.docLayer
           b == [[o1 EXCEPT !.wsd = w] EXCEPT !.c.reconnecting = rec]
           q == p.c.queue
           s == p.c.slurp
<1>0. Formed(p)
  BY DEF Sound
<1>1. DoSend(o1, [k |-> "load"]) = [o1 EXCEPT !.wsd = w]
  BY DEF DoSend
<1>2. rec \in BOOLEAN
  BY <1>0 DEF Formed, Flags
<1>3. Session(w) /\ w.wire = <<>> /\ w.state = "loading"
  BY NobodySession DEF Session, Nobody
<1>4. /\ Formed(o) /\ o.c.reconnecting = p.c.reconnecting /\ o.c.docLayer = p.c.docLayer
      /\ o.c.queue = q /\ o.c.log = p.c.log /\ o.c.sock = "open" /\ o.c.active = p.c.active
      /\ o.c.count = p.c.count /\ o.c.interval = p.c.interval /\ o.c.timers = p.c.timers
      /\ o.c.fatal = p.c.fatal /\ o.c.blocked = p.c.blocked /\ o.c.asking = p.c.asking
      /\ o.c.dimmed = p.c.dimmed /\ o.c.error = p.c.error /\ o.c.slurp = s
      /\ o.c.tried = p.c.tried /\ o.c.leftover = p.c.leftover /\ o.c.stale = p.c.stale
  BY <1>0 DEF Formed, Flags, Queues, PageFields
<1>5. Formed(o1)
  <2>1. ASSUME NEW x \in BOOLEAN, NEW y \in BOOLEAN
        PROVE  Formed([o EXCEPT !.c.recycling = x, !.c.idle = y])
    <3>1. DOMAIN o = {"c", "wsd"} /\ DOMAIN o.c = PageFields /\ Flags(o.c) /\ Queues(o.c) /\ Session(o.wsd)
      BY <1>4 DEF Formed
    <3>2. PICK z : z = [o.c EXCEPT !.recycling = x, !.idle = y]
      OBVIOUS
    <3>3. DOMAIN z = PageFields /\ Flags(z) /\ Queues(z)
      BY <3>1, <3>2 DEF Flags, Queues, PageFields
    <3>4. Formed([o EXCEPT !.c = z])
      BY <3>1, <3>3 DEF Formed
    <3>5. [o EXCEPT !.c.recycling = x, !.c.idle = y] = [o EXCEPT !.c = z]
      BY <3>1, <3>2
    <3> QED  BY <3>4, <3>5
  <2> QED  BY <2>1, Zenon
<1>6. /\ o1.c.recycling = FALSE /\ o1.c.idle = FALSE /\ o1.c.reconnecting = p.c.reconnecting
      /\ o1.c.docLayer = p.c.docLayer
      /\ o1.c.queue = q /\ o1.c.log = p.c.log /\ o1.c.sock = "open" /\ o1.c.active = p.c.active
      /\ o1.c.count = p.c.count /\ o1.c.interval = p.c.interval /\ o1.c.timers = p.c.timers
      /\ o1.c.fatal = p.c.fatal /\ o1.c.blocked = p.c.blocked /\ o1.c.asking = p.c.asking
      /\ o1.c.dimmed = p.c.dimmed /\ o1.c.error = p.c.error /\ o1.c.slurp = s
      /\ o1.c.tried = p.c.tried /\ o1.c.leftover = p.c.leftover /\ o1.c.stale = p.c.stale
  BY <1>4 DEF Formed, PageFields
<1> HIDE DEF o1, w, rec
<1>7. /\ Formed(b) /\ b.wsd = w
      /\ b.c.recycling = FALSE /\ b.c.idle = FALSE /\ b.c.reconnecting = rec
      /\ b.c.docLayer = p.c.docLayer
      /\ b.c.queue = q /\ b.c.log = p.c.log /\ b.c.sock = "open" /\ b.c.active = p.c.active
      /\ b.c.count = p.c.count /\ b.c.interval = p.c.interval /\ b.c.timers = p.c.timers
      /\ b.c.fatal = p.c.fatal /\ b.c.blocked = p.c.blocked /\ b.c.asking = p.c.asking
      /\ b.c.dimmed = p.c.dimmed /\ b.c.error = p.c.error /\ b.c.slurp = s
      /\ b.c.tried = p.c.tried /\ b.c.leftover = p.c.leftover /\ b.c.stale = p.c.stale
  <2>1. Formed(b)
    BY <1>2, <1>3, <1>5 DEF Formed, Flags, Queues, PageFields
  <2> QED  BY <1>5, <1>6, <2>1 DEF Formed, PageFields
<1>8. OnSocketOpen(o) = Activate([FoldLeft(DoSend, b, q) EXCEPT !.c.queue = <<>>])
  <2>1. [[o1 EXCEPT !.wsd = w] EXCEPT !.c.reconnecting = @ \/ o.c.docLayer] = b
    <3>1. [o1 EXCEPT !.wsd = w].c.reconnecting = p.c.reconnecting
      BY <1>5, <1>6 DEF Formed
    <3> QED  BY <1>4, <3>1 DEF rec
  <2>2. o.c.queue = q
    BY <1>4
  <2> QED  BY <1>1, <2>1, <2>2 DEF OnSocketOpen, o1
<1>9. u["sends"] \in Nat /\ q \in Seq(Queued) /\ CmdOK(b.c.log, q, u["sends"])
  BY <1>7, BoundsNat DEF Sound, Formed, Queues
<1>10. Retry(b, s)
  <2>1. ~Closes(b.c.timers)
    BY <1>7 DEF Closes
  <2>2. Steady(b.c, b.wsd)
    BY <1>7, <2>1 DEF Retry, Steady
  <2>3. ASSUME ~p.c.stale PROVE s = <<>> /\ Ordinary(b.c, b.wsd.state, <<>>)
    <3>1. Ordinary(p.c, p.wsd.state, s \o p.wsd.wire) /\ p.wsd.wire = <<>> /\ p.wsd.state \in {"none", "ended"}
      BY <2>3 DEF Retry, Steady
    <3>2. s \o p.wsd.wire = <<>>
      BY <3>1 DEF Ordinary
    <3>3. s \in Seq(Message) /\ s \o <<>> = s
      BY <1>0, ConcatEmptySeq DEF Formed, Queues
    <3>4. s = <<>>
      BY <3>1, <3>2, <3>3
    <3>5. Ordinary(p.c, p.wsd.state, <<>>)
      BY <3>1, <3>2
    <3>6. ~p.c.blocked
      BY <3>1, <3>5 DEF Ordinary, Has
    <3>7. rec => p.c.tried
      BY <3>5 DEF Ordinary, Loading, rec
    <3> HIDE DEF b
    <3>8. Ordinary(b.c, "loading", <<>>)
      BY <1>7, <3>5, <3>6, <3>7, ScriptEmpty DEF Ordinary, Loading, rec
    <3> QED  BY <1>3, <1>7, <3>4, <3>8
  <2>4. ASSUME ~p.c.stale PROVE Ordinary(b.c, b.wsd.state, s \o b.wsd.wire)
    <3>1. s \o b.wsd.wire = <<>>
      BY <1>3, <1>7, <2>3, <2>4, ConcatEmptySeq, EmptySeq
    <3> QED  BY <2>3, <2>4, <3>1
  <2> QED  BY <1>7, <2>2, <2>4 DEF Retry
<1> HIDE DEF b, q
<1>11. PICK l \in Seq(Commands) : Logged(FoldLeft(DoSend, b, q), b, l)
  BY <1>7, <1>9, QueueFlushed
<1>12. PICK f : f = FoldLeft(DoSend, b, q)
  OBVIOUS
<1>13. Formed(f) /\ Alike(f, b)
  <2>1. CASE f = b
    BY <1>7, <2>1 DEF Alike
  <2>2. CASE f = [b EXCEPT !.c.log = l]
    BY <1>7, <2>2 DEF Formed, Flags, Queues, PageFields, Alike
  <2> QED  BY <1>11, <1>12, <2>1, <2>2 DEF Logged
<1>14. PICK e : e = [f EXCEPT !.c.queue = <<>>]
  OBVIOUS
<1>15. Formed(e) /\ Alike(e, f)
  <2>1. <<>> \in Seq(Queued)
    BY EmptySeq
  <2> QED  BY <1>13, <1>14, <2>1 DEF Formed, Flags, Queues, PageFields, Alike
<1>16. Retry(e, s)
  BY <1>10, <1>13, <1>15, AlikeRetry
<1>17. e.c.slurp # <<>> \/ s = <<>>
  BY <1>7, <1>13, <1>15 DEF Alike
<1>18. Retry(Activate(e), s)
  BY <1>15, <1>16, <1>17, ActivateRetry
<1> QED  BY <1>8, <1>12, <1>14, <1>18

(* A timer was set for the close event. *)
LEMMA ClosesAppend ==
    ASSUME NEW t \in Seq(Timers), NEW k \in Timers
    PROVE  Closes(Append(t, k)) <=> Closes(t) \/ k = "close"
<1>1. /\ Len(t) \in Nat /\ DOMAIN t = 1..Len(t) /\ DOMAIN Append(t, k) = 1..Len(t)+1
      /\ \A i \in DOMAIN t : Append(t, k)[i] = t[i]
      /\ Append(t, k)[Len(t) + 1] = k
  BY AppendParts
<1> QED  BY <1>1 DEF Closes

(* The timers after the first one. *)
LEMMA ClosesTail ==
    ASSUME NEW t \in Seq(Timers), t # <<>>
    PROVE  Closes(t) <=> Head(t) = "close" \/ Closes(Tail(t))
<1>1. /\ Head(t) = t[1] /\ 1 \in DOMAIN t
      /\ DOMAIN Tail(t) = 1..Len(t)-1 /\ DOMAIN t = 1..Len(t) /\ Len(t) \in Nat \ {0}
      /\ \A i \in DOMAIN Tail(t) : i + 1 \in DOMAIN t /\ Tail(t)[i] = t[i + 1]
  BY TailParts
<1>2. \A i \in DOMAIN t : i # 1 => i - 1 \in DOMAIN Tail(t) /\ Tail(t)[i - 1] = t[i]
  BY <1>1
<1> QED  BY <1>1, <1>2 DEF Closes

(* _onSocketClose(): the retries under way are relied upon, or a timer is set. *)
LEMMA OnSocketCloseRetry ==
    ASSUME NEW p, Formed(p), NEW s \in Seq(Message), Retry(p, s), p.c.sock \in {"connecting", "closing"},
           NEW o, Formed(o), o.c = [p.c EXCEPT !.sock = "closed"], o.wsd \in {p.wsd, Nobody}
    PROVE  Retry(OnSocketClose(o), s)
<1>1. /\ o.c.sock = "closed" /\ o.c.active = p.c.active /\ o.c.recycling = p.c.recycling
      /\ o.c.idle = p.c.idle /\ o.c.reconnecting = p.c.reconnecting /\ o.c.count = p.c.count
      /\ o.c.interval = p.c.interval /\ o.c.timers = p.c.timers /\ o.c.fatal = p.c.fatal
      /\ o.c.docLayer = p.c.docLayer /\ o.c.blocked = p.c.blocked /\ o.c.asking = p.c.asking
      /\ o.c.dimmed = p.c.dimmed /\ o.c.error = p.c.error /\ o.c.slurp = p.c.slurp
      /\ o.c.tried = p.c.tried /\ o.c.leftover = p.c.leftover /\ o.c.stale = p.c.stale
  BY DEF Formed, PageFields
<1>2. /\ p.wsd.state \in {"none", "ended"} /\ p.wsd.wire = <<>>
      /\ o.wsd.state \in {"none", "ended"} /\ o.wsd.wire = <<>>
  BY DEF Retry, Steady, Nobody
<1>3. ASSUME NEW x, NEW y \in {"none", "ended"}, NEW z \in {"none", "ended"}, NEW r, Script(r, y)
      PROVE  Script(r, z)
  <2>1. \A k : Word(k, y) => Word(k, z)
    BY DEF Word
  <2> QED  BY <1>3, <2>1 DEF Script
<1>4. PICK r : r = s \o <<>>
  OBVIOUS
<1>5. \/ p.c.stale
      \/ /\ Ordinary(p.c, p.wsd.state, r) /\ Script(r, o.wsd.state)
  BY <1>2, <1>3, <1>4 DEF Retry, Ordinary
<1>6. CASE o.c.count > 0
  <2>1. OnSocketClose(o) = o
    BY <1>6 DEF OnSocketClose
  <2>2. Steady(o.c, o.wsd) /\ Excused(o.c)
    BY <1>1, <1>2, <1>6 DEF Retry, Steady, Excused
  <2>3. o.c.stale \/ Ordinary(o.c, o.wsd.state, r)
    BY <1>1, <1>2, <1>5, <2>2 DEF Ordinary, Loading
  <2> QED  BY <1>2, <1>4, <2>1, <2>2, <2>3 DEF Retry
<1>7. CASE ~(o.c.count > 0)
  <2>1. PICK e : e = (o.c.error \/ (o.c.active /\ o.c.reconnecting))
    OBVIOUS
  <2>2. PICK h : h = (o.c.hasty \/ (o.c.active /\ o.c.reconnecting /\ ~o.c.tried))
    OBVIOUS
  <2>3. PICK t \in Seq(Timers) : t = Append(o.c.timers, "close") /\ Closes(t)
    <3>1. o.c.timers \in Seq(Timers) /\ "close" \in Timers
      BY DEF Formed, Queues, Timers
    <3>2. Append(o.c.timers, "close") \in Seq(Timers) /\ Closes(Append(o.c.timers, "close"))
      BY <3>1, AppendParts, ClosesAppend
    <3> QED  BY <3>2
  <2>4. PICK q : q = [o EXCEPT !.c.active = FALSE, !.c.docLoaded = FALSE, !.c.error = e,
                               !.c.hasty = h, !.c.timers = t]
    OBVIOUS
  <2>5. OnSocketClose(o) = q
    BY <1>7, <2>1, <2>2, <2>3, <2>4 DEF OnSocketClose
  <2>6. /\ q.c.sock = "closed" /\ q.c.active = FALSE /\ q.c.recycling = o.c.recycling
        /\ q.c.idle = o.c.idle /\ q.c.reconnecting = o.c.reconnecting /\ q.c.count = o.c.count
        /\ q.c.interval = o.c.interval /\ q.c.timers = t /\ q.c.fatal = o.c.fatal
        /\ q.c.docLayer = o.c.docLayer /\ q.c.blocked = o.c.blocked /\ q.c.asking = o.c.asking
        /\ q.c.dimmed = o.c.dimmed /\ q.c.error = e /\ q.c.slurp = o.c.slurp
        /\ q.c.tried = o.c.tried /\ q.c.leftover = o.c.leftover /\ q.c.stale = o.c.stale
        /\ q.wsd = o.wsd
    BY <1>1, <2>4 DEF Formed, PageFields
  <2>7. o.c.error => e
    BY <2>1
  <2>8. Steady(q.c, q.wsd) /\ Excused(q.c)
    BY <1>1, <1>2, <2>3, <2>6, <2>7 DEF Retry, Steady, Excused
  <2>9. q.c.stale \/ Ordinary(q.c, q.wsd.state, r)
    BY <1>1, <1>2, <1>5, <2>6, <2>8 DEF Ordinary, Loading
  <2> QED  BY <1>2, <1>4, <2>5, <2>6, <2>8, <2>9 DEF Retry
<1> QED  BY <1>6, <1>7

(* The delayed half of _onSocketClose() connects again, or somebody else will. *)
LEMMA CloseTimerRetry ==
    ASSUME NEW p, Formed(p), Retry(p, p.c.slurp), p.c.timers # <<>>, Head(p.c.timers) = "close",
           NEW o, o = [p EXCEPT !.c.timers = Tail(p.c.timers)]
    PROVE  Retry(CloseTimer(o), p.c.slurp)
<1> DEFINE s == p.c.slurp
<1>1. p.c.timers \in Seq(Timers) /\ Tail(p.c.timers) \in Seq(Timers) /\ Closes(p.c.timers)
  <2>1. p.c.timers \in Seq(Timers)
    BY DEF Formed, Queues
  <2> QED  BY <2>1, TailParts, ClosesTail
<1>2. Closes(Tail(p.c.timers)) => Closes(p.c.timers)
  BY <1>1
<1>3. /\ Formed(o) /\ o.c.timers = Tail(p.c.timers)
      /\ o.c.sock = p.c.sock /\ o.c.active = p.c.active /\ o.c.recycling = p.c.recycling
      /\ o.c.idle = p.c.idle /\ o.c.reconnecting = p.c.reconnecting /\ o.c.count = p.c.count
      /\ o.c.interval = p.c.interval /\ o.c.fatal = p.c.fatal
      /\ o.c.docLayer = p.c.docLayer /\ o.c.blocked = p.c.blocked /\ o.c.asking = p.c.asking
      /\ o.c.dimmed = p.c.dimmed /\ o.c.error = p.c.error /\ o.c.slurp = p.c.slurp
      /\ o.c.tried = p.c.tried /\ o.c.leftover = p.c.leftover /\ o.c.stale = p.c.stale
      /\ o.wsd = p.wsd
  BY <1>1 DEF Formed, Flags, Queues, PageFields
<1>4. o.c.sock \in {"closed", "connecting"} /\ ~o.c.active
  BY <1>1, <1>3 DEF Retry, Steady
<1>5. Steady(o.c, o.wsd)
  BY <1>1, <1>3 DEF Retry, Steady
<1>6. CASE o.c.reconnecting
  <2>1. CloseTimer(o) = o
    BY <1>6 DEF CloseTimer
  <2>2. ASSUME ~o.c.stale PROVE Ordinary(o.c, o.wsd.state, s \o o.wsd.wire)
    <3>1. Ordinary(p.c, p.wsd.state, s \o p.wsd.wire)
      BY <1>3, <2>2 DEF Retry
    <3>2. Excused(o.c)
      BY <1>3, <1>5, <1>6, <3>1 DEF Ordinary, Excused, Steady
    <3> QED  BY <1>3, <3>1, <3>2 DEF Ordinary, Loading
  <2> QED  BY <1>5, <2>1, <2>2 DEF Retry
<1>7. CASE ~o.c.reconnecting
  <2>1. PICK n : n = [o EXCEPT !.c.reconnecting = TRUE]
    OBVIOUS
  <2>2. /\ Formed(n) /\ n.c.reconnecting = TRUE /\ n.c.timers = o.c.timers
        /\ n.c.sock = o.c.sock /\ n.c.active = o.c.active /\ n.c.recycling = o.c.recycling
        /\ n.c.idle = o.c.idle /\ n.c.count = o.c.count
        /\ n.c.interval = o.c.interval /\ n.c.fatal = o.c.fatal
        /\ n.c.docLayer = o.c.docLayer /\ n.c.blocked = o.c.blocked /\ n.c.asking = o.c.asking
        /\ n.c.dimmed = o.c.dimmed /\ n.c.error = o.c.error /\ n.c.slurp = o.c.slurp
        /\ n.c.tried = o.c.tried /\ n.c.leftover = o.c.leftover /\ n.c.stale = o.c.stale
        /\ n.wsd = o.wsd
    <3>1. ASSUME NEW x \in BOOLEAN PROVE Formed([o EXCEPT !.c.reconnecting = x])
      BY <1>3 DEF Formed, Flags, Queues, PageFields
    <3>2. Formed(n)
      BY <2>1, <3>1, Zenon
    <3> QED  BY <1>3, <2>1, <3>2 DEF Formed, PageFields
  <2>3. Steady(n.c, n.wsd)
    BY <1>5, <2>2 DEF Steady
  <2>4. CloseTimer(o) = Activate(n)
    BY <1>7, <2>1 DEF CloseTimer
  <2>5. CASE n.c.recycling \/ n.c.idle
    <3>1. CloseTimer(o) = n
      BY <2>4, <2>5 DEF Activate
    <3>2. ASSUME ~n.c.stale PROVE Ordinary(n.c, n.wsd.state, s \o n.wsd.wire)
      <4>1. Ordinary(p.c, p.wsd.state, s \o p.wsd.wire)
        BY <1>3, <2>2, <3>2 DEF Retry
      <4>2. Excused(n.c)
        BY <1>3, <2>2, <2>3, <2>5, <4>1 DEF Ordinary, Excused, Steady
      <4> QED  BY <1>3, <1>4, <2>2, <2>5, <4>1, <4>2 DEF Ordinary, Loading
    <3> QED  BY <2>3, <3>1, <3>2 DEF Retry
  <2>6. CASE ~(n.c.recycling \/ n.c.idle)
    <3>1. CloseTimer(o) = LoadDocument(n)
      BY <1>4, <2>2, <2>4, <2>6 DEF Activate
    <3>2. n.c.slurp # <<>> \/ s = <<>>
      BY <1>3, <2>2
    <3> QED  BY <2>2, <2>3, <2>6, <3>1, <3>2, LoadRetry
  <2> QED  BY <2>5, <2>6
<1> QED  BY <1>6, <1>7

(* A tick of the interval connects again if there is no connection. *)
LEMMA IntervalTickRetry ==
    ASSUME NEW p, Formed(p), Retry(p, p.c.slurp)
    PROVE  Retry(IntervalTick(p), p.c.slurp)
<1>1. p.c.stale \/ (p.c.recycling => p.c.interval # "none")
  BY DEF Retry, Ordinary
<1>2. Retry(LoadDocument(p), p.c.slurp)
  BY <1>1, LoadRetry DEF Retry
<1> QED  BY <1>2, ActivateRetry DEF IntervalTick

-----------------------------------------------------------------------------
(* Messages from wsd. *)

(* q is what is said to a page that handles the first word of s, and t the rest of it. *)
Hearing(p, s, q, t) ==
    /\ q = s \o p.wsd.wire /\ t = Tail(s) \o p.wsd.wire
    /\ Ordinary(p.c, p.wsd.state, q) /\ Script(t, p.wsd.state)
    /\ \A k \in {"ready", "status"} : Has(t, k) => Has(q, k) /\ ~NeverAfter(Head(s).k, k)
    /\ Has(q, Head(s).k) /\ Word(Head(s).k, p.wsd.state)
    /\ \A k : Has(q, k) /\ Head(s).k # k => Has(t, k)
    /\ Head(s).k \in LastWords => t = <<>> /\ Tail(s) = <<>> /\ p.wsd.wire = <<>>
    /\ Head(s).k = "block" => p.wsd.state = "blocking" \/ Has(t, "unblock")
    /\ ~p.c.recycling /\ ~p.c.idle /\ p.c.sock # "connecting"

(* What the page hears follows the script. *)
LEMMA Heard ==
    ASSUME NEW p, Formed(p), NEW s \in Seq(Message), s # <<>>, Retry(p, s), ~p.c.stale
    PROVE  \E q, t : Hearing(p, s, q, t)
<1>1. p.wsd.wire \in Seq(Message)
  BY DEF Formed, Session
<1>2. PICK q \in Seq(Message) : q = s \o p.wsd.wire /\ q # <<>> /\ Head(q) = Head(s) /\ Tail(q) = Tail(s) \o p.wsd.wire
  BY <1>1, ConcatTail
<1>3. PICK t : t = Tail(q)
  OBVIOUS
<1>4. Ordinary(p.c, p.wsd.state, q)
  BY <1>2 DEF Retry
<1>5. Script(q, p.wsd.state) /\ ~p.c.recycling /\ ~p.c.idle /\ p.c.sock # "connecting"
  BY <1>2, <1>4 DEF Ordinary
<1>6. /\ Script(Tail(q), p.wsd.state)
      /\ \A k \in {"ready", "status"} : Has(Tail(q), k) => Has(q, k) /\ ~NeverAfter(Head(q).k, k)
      /\ Has(q, Head(q).k) /\ Word(Head(q).k, p.wsd.state)
      /\ \A k : Has(q, k) /\ Head(q).k # k => Has(Tail(q), k)
      /\ Head(q).k \in LastWords => Tail(q) = <<>>
      /\ Head(q).k = "block" => p.wsd.state = "blocking" \/ Has(Tail(q), "unblock")
  BY <1>2, <1>5, ScriptTail
<1>7. ASSUME t = <<>> PROVE Tail(s) = <<>> /\ p.wsd.wire = <<>>
  <2>1. Tail(s) \in Seq(Message) /\ Tail(s) \o p.wsd.wire = <<>>
    BY <1>2, <1>3, <1>7, TailParts
  <2>2. Len(Tail(s)) \in Nat /\ Len(p.wsd.wire) \in Nat /\ Len(Tail(s)) + Len(p.wsd.wire) = 0
    <3>1. PICK a \in Seq(Message), b \in Seq(Message) : a = Tail(s) /\ b = p.wsd.wire
      BY <1>1, <2>1
    <3>2. Len(a \o b) = Len(a) + Len(b)
      BY ConcatProperties
    <3>3. Len(a) \in Nat /\ Len(b) \in Nat
      BY LenProperties
    <3>4. a \o b = <<>> /\ Len(<<>>) = 0
      BY <2>1, <3>1, EmptySeq
    <3> QED  BY <3>1, <3>2, <3>3, <3>4
  <2>3. Len(Tail(s)) = 0 /\ Len(p.wsd.wire) = 0
    <3>1. \A a, b \in Nat : a + b = 0 => a = 0 /\ b = 0
      OBVIOUS
    <3> QED  BY ONLY <2>2, <3>1
  <2>4. \A x \in Seq(Message) : Len(x) = 0 => x = <<>>
    BY EmptySeq
  <2> QED  BY <1>1, <2>1, <2>3, <2>4
<1>8. Hearing(p, s, q, t)
  BY <1>2, <1>3, <1>4, <1>5, <1>6, <1>7 DEF Hearing
<1> QED  BY <1>8

(* A word without effect. *)
LEMMA WordTaken ==
    ASSUME NEW p, Formed(p), NEW s \in Seq(Message), s # <<>>, Retry(p, s), Head(s).k \notin LastWords,
           Head(s).k \notin {"ready", "status", "block", "unblock"}
    PROVE  Retry(p, Tail(s))
<1>1. CASE p.c.stale
  BY <1>1 DEF Retry
<1>2. CASE ~p.c.stale
  <2>0. PICK q, t : Hearing(p, s, q, t)
    BY <1>2, Heard
  <2>1. /\ t = Tail(s) \o p.wsd.wire
        /\ Ordinary(p.c, p.wsd.state, q) /\ Script(t, p.wsd.state)
        /\ \A k \in {"ready", "status"} : Has(t, k) => Has(q, k)
        /\ \A k : Has(q, k) /\ Head(s).k # k => Has(t, k)
        /\ ~p.c.recycling /\ ~p.c.idle /\ p.c.sock # "connecting"
    BY <2>0 DEF Hearing
  <2>2. Ordinary(p.c, p.wsd.state, t)
    BY <2>1 DEF Ordinary, Loading
  <2> QED  BY <2>1, <2>2 DEF Retry
<1> QED  BY <1>1, <1>2

(* "ready" ends the retries; the load that it belongs to was asked for by the page. *)
LEMMA OnReadyRetry ==
    ASSUME NEW p, Formed(p), NEW s \in Seq(Message), s # <<>>, Retry(p, s), Head(s).k = "ready"
    PROVE  Retry(OnReady(p), Tail(s))
<1>1. PICK n : n = OnReady(p)
  OBVIOUS
<1>2. /\ n.c.count = 0 /\ n.c.interval = "none" /\ n.c.timers = p.c.timers
      /\ n.c.sock = p.c.sock /\ n.c.active = p.c.active /\ n.c.recycling = p.c.recycling
      /\ n.c.idle = p.c.idle /\ n.c.reconnecting = p.c.reconnecting /\ n.c.fatal = p.c.fatal
      /\ n.c.docLayer = p.c.docLayer /\ n.c.blocked = p.c.blocked /\ n.c.asking = p.c.asking
      /\ n.c.dimmed = p.c.dimmed /\ n.c.error = p.c.error
      /\ n.c.tried = p.c.tried /\ n.c.leftover = p.c.leftover /\ n.c.stale = p.c.stale
      /\ n.wsd = p.wsd
  BY <1>1 DEF OnReady, Formed, PageFields
<1>3. Steady(n.c, n.wsd)
  BY <1>2 DEF Retry, Steady
<1>4. ASSUME ~p.c.stale PROVE Ordinary(n.c, n.wsd.state, Tail(s) \o n.wsd.wire)
  <2>0. PICK q, t : Hearing(p, s, q, t)
    BY <1>4, Heard
  <2>1. /\ t = Tail(s) \o p.wsd.wire
        /\ Ordinary(p.c, p.wsd.state, q) /\ Script(t, p.wsd.state)
        /\ \A k \in {"ready", "status"} : Has(t, k) => Has(q, k)
        /\ Has(q, "ready")
        /\ ~p.c.recycling /\ ~p.c.idle /\ p.c.sock # "connecting"
    BY <2>0 DEF Hearing
  <2>2. ~p.c.blocked /\ (p.c.tried \/ (~p.c.docLayer /\ p.c.interval = "none" /\ p.c.count = 0 /\ ~p.c.reconnecting))
    BY <2>1 DEF Ordinary, Loading
  <2>3. n.c.sock = "closed" => Excused(n.c)
    BY <1>2, <2>1, <2>2 DEF Ordinary, Excused
  <2>4. n.c.reconnecting => n.c.tried
    BY <1>2, <2>2
  <2>5. Ordinary(n.c, p.wsd.state, t)
    BY <1>2, <2>1, <2>2, <2>3, <2>4 DEF Ordinary, Loading
  <2> QED  BY <1>2, <2>1, <2>5
<1> QED  BY <1>1, <1>2, <1>3, <1>4 DEF Retry

(* After the last word of a session there is nothing to hear. *)
LEMMA LastHeard ==
    ASSUME NEW p, Formed(p), NEW s \in Seq(Message), s # <<>>, Retry(p, s), ~p.c.stale,
           Head(s).k \in LastWords
    PROVE  /\ p.wsd.state \in {"none", "ended"} /\ p.wsd.wire = <<>> /\ Tail(s) = <<>>
           /\ ~p.c.recycling /\ ~p.c.idle /\ p.c.sock # "connecting" /\ ~p.c.blocked
           /\ p.c.reconnecting => p.c.tried \/ p.c.leftover
           /\ p.c.sock = "closed" => Excused(p.c)
           /\ Tail(s) \o <<>> = <<>>
<1>0. PICK q, t : Hearing(p, s, q, t)
  BY Heard
<1>1. /\ Ordinary(p.c, p.wsd.state, q) /\ t = <<>>
      /\ Word(Head(s).k, p.wsd.state)
      /\ \A k : Has(q, k) /\ Head(s).k # k => Has(t, k)
      /\ Tail(s) = <<>> /\ p.wsd.wire = <<>>
      /\ ~p.c.recycling /\ ~p.c.idle /\ p.c.sock # "connecting"
  BY <1>0 DEF LastWords, Hearing
<1>2. p.wsd.state \in {"none", "ended"}
  BY <1>1 DEF Word, LastWords
<1>3. ~Has(q, "unblock")
  <2>1. Head(s).k # "unblock"
    BY DEF LastWords
  <2>2. ~Has(t, "unblock")
    BY <1>1 DEF Has
  <2> QED  BY <1>1, <2>1, <2>2
<1>4. ~p.c.blocked
  BY <1>1, <1>2, <1>3 DEF Ordinary
<1>5. <<>> \o <<>> = <<>>
  BY ConcatEmptySeq, EmptySeq
<1> QED  BY <1>1, <1>2, <1>4, <1>5 DEF Ordinary

(* The last words of a session: the page is left with nothing to hear. *)
LEMMA OnCloseMsgRetry ==
    ASSUME NEW p, Formed(p), NEW s \in Seq(Message), s # <<>>, Retry(p, s),
           Head(s).k \in {"idle", "recycling", "reload"}
    PROVE  Retry(OnCloseMsg(p, Head(s).k), Tail(s))
<1>0. ASSUME ~p.c.stale
      PROVE  /\ p.wsd.state \in {"none", "ended"} /\ p.wsd.wire = <<>> /\ Tail(s) = <<>>
             /\ ~p.c.recycling /\ ~p.c.idle /\ p.c.sock # "connecting" /\ ~p.c.blocked
             /\ p.c.reconnecting => p.c.tried \/ p.c.leftover
             /\ p.c.sock = "closed" => Excused(p.c)
             /\ Tail(s) \o <<>> = <<>>
  <2>1. Head(s).k \in LastWords
    BY DEF LastWords
  <2> QED  BY <1>0, <2>1, LastHeard
<1>1. CASE Head(s).k = "idle"
  <2>1. PICK n : n = OnCloseMsg(p, "idle")
    OBVIOUS
  <2>2. /\ n.c.idle = TRUE /\ n.c.active = FALSE /\ n.c.dimmed = TRUE /\ n.c.timers = p.c.timers
        /\ n.c.sock = p.c.sock /\ n.c.recycling = p.c.recycling /\ n.c.count = p.c.count
        /\ n.c.reconnecting = p.c.reconnecting /\ n.c.fatal = p.c.fatal
        /\ n.c.interval = p.c.interval
        /\ n.c.docLayer = p.c.docLayer /\ n.c.blocked = p.c.blocked /\ n.c.asking = p.c.asking
        /\ n.c.error = p.c.error /\ n.wsd = p.wsd
        /\ n.c.tried = p.c.tried /\ n.c.leftover = p.c.leftover /\ n.c.stale = p.c.stale
    BY <2>1 DEF OnCloseMsg, Formed, PageFields
  <2>3. Steady(n.c, n.wsd)
    BY <2>2 DEF Retry, Steady
  <2>4. ASSUME ~p.c.stale PROVE Ordinary(n.c, n.wsd.state, Tail(s) \o n.wsd.wire)
    <3>1. Ordinary(n.c, n.wsd.state, <<>>)
      BY <1>0, <2>2, <2>4, ScriptEmpty DEF Ordinary, Loading, Excused
    <3> QED  BY <1>0, <2>2, <2>4, <3>1
  <2> QED  BY <1>1, <2>1, <2>2, <2>3, <2>4 DEF Retry
<1>2. CASE Head(s).k = "recycling"
  <2>1. PICK n : n = OnCloseMsg(p, "recycling")
    OBVIOUS
  <2>2. /\ n.c.idle = p.c.idle /\ n.c.active = FALSE /\ n.c.dimmed = p.c.dimmed
        /\ n.c.timers = p.c.timers
        /\ n.c.sock = p.c.sock /\ n.c.recycling = TRUE /\ n.c.count = p.c.count
        /\ n.c.reconnecting = p.c.reconnecting /\ n.c.fatal = p.c.fatal
        /\ n.c.interval = "load"
        /\ n.c.docLayer = p.c.docLayer /\ n.c.blocked = p.c.blocked /\ n.c.asking = p.c.asking
        /\ n.c.error = p.c.error /\ n.wsd = p.wsd
        /\ n.c.tried = p.c.tried /\ n.c.leftover = p.c.leftover /\ n.c.stale = p.c.stale
    BY <2>1 DEF OnCloseMsg, Formed, PageFields
  <2>3. Steady(n.c, n.wsd)
    BY <2>2 DEF Retry, Steady
  <2>4. ASSUME ~p.c.stale PROVE Ordinary(n.c, n.wsd.state, Tail(s) \o n.wsd.wire)
    <3>1. Ordinary(n.c, n.wsd.state, <<>>)
      BY <1>0, <2>2, <2>4, ScriptEmpty DEF Ordinary, Loading, Excused
    <3> QED  BY <1>0, <2>2, <2>4, <3>1
  <2> QED  BY <1>2, <2>1, <2>2, <2>3, <2>4 DEF Retry
<1>3. CASE Head(s).k = "reload"
  <2>1. PICK n : n = OnCloseMsg(p, "reload")
    OBVIOUS
  <2>2. /\ n.c.idle = p.c.idle /\ n.c.active = FALSE /\ n.c.dimmed = p.c.dimmed
        /\ n.c.timers = p.c.timers
        /\ n.c.sock = "closed" /\ n.c.recycling = p.c.recycling /\ n.c.count = p.c.count
        /\ n.c.reconnecting = p.c.reconnecting /\ n.c.fatal = p.c.fatal
        /\ n.c.interval = "activate"
        /\ n.c.docLayer = p.c.docLayer /\ n.c.blocked = p.c.blocked /\ n.c.asking = p.c.asking
        /\ n.c.error = p.c.error /\ n.wsd = Nobody
        /\ n.c.tried = p.c.tried /\ n.c.leftover = p.c.leftover /\ n.c.stale = p.c.stale
    BY <2>1 DEF OnCloseMsg, Close, Formed, PageFields
  <2>3. Nobody.wire = <<>> /\ Nobody.state = "none"
    BY DEF Nobody
  <2>4. Steady(n.c, n.wsd)
    BY <2>2, <2>3 DEF Retry, Steady
  <2>5. ASSUME ~p.c.stale PROVE Ordinary(n.c, n.wsd.state, Tail(s) \o n.wsd.wire)
    <3>1. Ordinary(n.c, "none", <<>>)
      BY <1>0, <2>2, <2>5, ScriptEmpty DEF Ordinary, Loading, Excused
    <3> QED  BY <1>0, <2>2, <2>3, <2>5, <3>1
  <2> QED  BY <1>3, <2>1, <2>2, <2>4, <2>5 DEF Retry
<1> QED  BY <1>1, <1>2, <1>3

(* A closed page with nothing to hear. *)
LEMMA ClosedRetry ==
    ASSUME NEW p, Formed(p), NEW s \in Seq(Message), s # <<>>, Retry(p, s), Head(s).k \in LastWords,
           NEW n, n.wsd = Nobody, n.c.sock = "closed", n.c.recycling = p.c.recycling,
           n.c.idle = p.c.idle, n.c.reconnecting = p.c.reconnecting, n.c.docLayer = p.c.docLayer,
           n.c.blocked = p.c.blocked, n.c.dimmed = p.c.dimmed, n.c.timers = p.c.timers,
           n.c.tried = p.c.tried, n.c.leftover = p.c.leftover, n.c.stale = p.c.stale,
           n.c.active => p.c.active,
           n.c.count > 0 => n.c.interval # "none" \/ n.c.error,
           n.c.fatal => n.c.error,
           n.c.interval # "none" \/ n.c.error \/ n.c.asking
    PROVE  Retry(n, Tail(s))
<1>1. Nobody.wire = <<>> /\ Nobody.state = "none"
  BY DEF Nobody
<1>2. Steady(n.c, n.wsd)
  BY <1>1 DEF Retry, Steady
<1>3. Excused(n.c)
  BY DEF Excused
<1>4. ASSUME ~p.c.stale PROVE Ordinary(n.c, n.wsd.state, Tail(s) \o n.wsd.wire)
  <2>1. /\ ~p.c.recycling /\ ~p.c.idle /\ ~p.c.blocked
        /\ p.c.reconnecting => p.c.tried \/ p.c.leftover
        /\ Tail(s) \o <<>> = <<>>
    BY <1>4, LastHeard
  <2>2. Ordinary(n.c, "none", <<>>)
    BY <1>3, <2>1, ScriptEmpty DEF Ordinary, Loading
  <2> QED  BY <1>1, <2>1, <2>2
<1> QED  BY <1>2, <1>4 DEF Retry

(* Refusals: the page tries again from a timer, shows the error or asks the user. *)
LEMMA OnLoadErrorRetry ==
    ASSUME NEW p, Formed(p), NEW s \in Seq(Message), s # <<>>, Retry(p, s),
           Head(s).k \in {"unloading", "failed", "password"}
    PROVE  Retry(OnLoadError(p, Head(s).k), Tail(s))
<1>0. Head(s).k \in LastWords /\ p.c.count \in Nat
  BY DEF LastWords, Formed, Flags
<1>1. PICK k : k = Close(p)
  OBVIOUS
<1>2. /\ DOMAIN k = {"c", "wsd"} /\ DOMAIN k.c = PageFields /\ k.wsd = Nobody
      /\ k.c.sock = "closed" /\ k.c.active = p.c.active /\ k.c.recycling = p.c.recycling
      /\ k.c.idle = p.c.idle /\ k.c.reconnecting = p.c.reconnecting /\ k.c.count = p.c.count
      /\ k.c.interval = p.c.interval /\ k.c.timers = p.c.timers /\ k.c.fatal = p.c.fatal
      /\ k.c.docLayer = p.c.docLayer /\ k.c.blocked = p.c.blocked /\ k.c.asking = p.c.asking
      /\ k.c.dimmed = p.c.dimmed /\ k.c.error = p.c.error
      /\ k.c.tried = p.c.tried /\ k.c.leftover = p.c.leftover /\ k.c.stale = p.c.stale
  BY <1>1 DEF Formed, PageFields, Close
<1>3. /\ p.c.count > 0 => p.c.interval # "none" \/ p.c.error
      /\ p.c.fatal => p.c.error
  BY DEF Retry, Steady
<1>4. CASE Head(s).k = "unloading"
  <2>1. PICK d : d = [k EXCEPT !.c.active = FALSE, !.c.count = p.c.count + 1]
    OBVIOUS
  <2>2. /\ DOMAIN d = {"c", "wsd"} /\ DOMAIN d.c = PageFields /\ d.wsd = Nobody
        /\ d.c.sock = "closed" /\ d.c.active = FALSE /\ d.c.recycling = p.c.recycling
        /\ d.c.idle = p.c.idle /\ d.c.reconnecting = p.c.reconnecting
        /\ d.c.timers = p.c.timers /\ d.c.fatal = p.c.fatal
        /\ d.c.docLayer = p.c.docLayer /\ d.c.blocked = p.c.blocked /\ d.c.asking = p.c.asking
        /\ d.c.dimmed = p.c.dimmed /\ d.c.error = p.c.error
        /\ d.c.tried = p.c.tried /\ d.c.leftover = p.c.leftover /\ d.c.stale = p.c.stale
    BY <1>2, <2>1 DEF PageFields
  <2>3. PICK a : a = [d EXCEPT !.c.interval = "none", !.c.error = TRUE]
    OBVIOUS
  <2>4. PICK b : b = [d EXCEPT !.c.interval = "activate"]
    OBVIOUS
  <2>5. OnLoadError(p, Head(s).k) \in {a, b}
    BY <1>1, <1>2, <1>4, <2>1, <2>3, <2>4 DEF OnLoadError, OnUnloading
  <2>6. /\ a.wsd = Nobody /\ a.c.interval = "none" /\ a.c.error = TRUE
        /\ a.c.sock = "closed" /\ a.c.active = FALSE /\ a.c.recycling = p.c.recycling
        /\ a.c.idle = p.c.idle /\ a.c.reconnecting = p.c.reconnecting
        /\ a.c.timers = p.c.timers
        /\ a.c.docLayer = p.c.docLayer /\ a.c.blocked = p.c.blocked
        /\ a.c.dimmed = p.c.dimmed
        /\ a.c.tried = p.c.tried /\ a.c.leftover = p.c.leftover /\ a.c.stale = p.c.stale
    BY <2>2, <2>3 DEF PageFields
  <2>7. /\ b.wsd = Nobody /\ b.c.interval = "activate" /\ b.c.error = p.c.error
        /\ b.c.sock = "closed" /\ b.c.active = FALSE /\ b.c.recycling = p.c.recycling
        /\ b.c.idle = p.c.idle /\ b.c.reconnecting = p.c.reconnecting
        /\ b.c.timers = p.c.timers /\ b.c.fatal = p.c.fatal
        /\ b.c.docLayer = p.c.docLayer /\ b.c.blocked = p.c.blocked
        /\ b.c.dimmed = p.c.dimmed
        /\ b.c.tried = p.c.tried /\ b.c.leftover = p.c.leftover /\ b.c.stale = p.c.stale
    BY <2>2, <2>4 DEF PageFields
  <2>8. Retry(a, Tail(s))
    BY <1>0, <2>6, ClosedRetry
  <2>9. Retry(b, Tail(s))
    BY <1>0, <1>3, <2>7, ClosedRetry
  <2> QED  BY <2>5, <2>8, <2>9
<1>5. CASE Head(s).k = "failed"
  <2>1. PICK a : a = [k EXCEPT !.c.fatal = TRUE, !.c.error = TRUE]
    OBVIOUS
  <2>2. /\ a.wsd = Nobody /\ a.c.error = TRUE
        /\ a.c.sock = "closed" /\ a.c.active = p.c.active /\ a.c.recycling = p.c.recycling
        /\ a.c.idle = p.c.idle /\ a.c.reconnecting = p.c.reconnecting
        /\ a.c.timers = p.c.timers
        /\ a.c.docLayer = p.c.docLayer /\ a.c.blocked = p.c.blocked
        /\ a.c.dimmed = p.c.dimmed
        /\ a.c.tried = p.c.tried /\ a.c.leftover = p.c.leftover /\ a.c.stale = p.c.stale
    BY <1>2, <2>1 DEF PageFields
  <2>3. OnLoadError(p, Head(s).k) = a
    BY <1>1, <1>5, <2>1 DEF OnLoadError
  <2>4. Retry(a, Tail(s))
    BY <1>0, <2>2, ClosedRetry
  <2> QED  BY <2>3, <2>4
<1>6. CASE Head(s).k = "password"
  <2>1. PICK a : a = [k EXCEPT !.c.asking = TRUE]
    OBVIOUS
  <2>2. /\ a.wsd = Nobody /\ a.c.error = p.c.error /\ a.c.asking = TRUE
        /\ a.c.count = p.c.count /\ a.c.interval = p.c.interval /\ a.c.fatal = p.c.fatal
        /\ a.c.sock = "closed" /\ a.c.active = p.c.active /\ a.c.recycling = p.c.recycling
        /\ a.c.idle = p.c.idle /\ a.c.reconnecting = p.c.reconnecting
        /\ a.c.timers = p.c.timers
        /\ a.c.docLayer = p.c.docLayer /\ a.c.blocked = p.c.blocked
        /\ a.c.dimmed = p.c.dimmed
        /\ a.c.tried = p.c.tried /\ a.c.leftover = p.c.leftover /\ a.c.stale = p.c.stale
    BY <1>2, <2>1 DEF PageFields
  <2>3. OnLoadError(p, Head(s).k) = a
    BY <1>1, <1>6, <2>1 DEF OnLoadError
  <2>4. Retry(a, Tail(s))
    BY <1>0, <1>3, <2>2, ClosedRetry
  <2> QED  BY <2>3, <2>4
<1> QED  BY <1>4, <1>5, <1>6

(* Any other error is shown. *)
LEMMA OnOtherErrorRetry ==
    ASSUME NEW p, Formed(p), NEW s \in Seq(Message), s # <<>>, Retry(p, s), Head(s).k = "limit"
    PROVE  Retry(OnOtherError(p), Tail(s))
<1>0. Head(s).k \in LastWords
  BY DEF LastWords
<1>1. PICK n : n = OnOtherError(p)
  OBVIOUS
<1>2. /\ n.c.error = TRUE /\ (n.c.active = p.c.active \/ n.c.active = FALSE)
      /\ n.c.sock = p.c.sock /\ n.c.recycling = p.c.recycling /\ n.c.count = p.c.count
      /\ n.c.idle = p.c.idle /\ n.c.reconnecting = p.c.reconnecting
      /\ n.c.interval = p.c.interval /\ n.c.timers = p.c.timers
      /\ n.c.docLayer = p.c.docLayer /\ n.c.blocked = p.c.blocked
      /\ n.c.dimmed = p.c.dimmed /\ n.wsd = p.wsd
      /\ n.c.tried = p.c.tried /\ n.c.leftover = p.c.leftover /\ n.c.stale = p.c.stale
  <2>1. CASE p.c.docLayer
    BY <1>1, <2>1 DEF OnOtherError, Formed, PageFields
  <2>2. CASE ~p.c.docLayer
    BY <1>1, <2>2 DEF OnOtherError, Formed, PageFields
  <2> QED  BY <2>1, <2>2
<1>3. Steady(n.c, n.wsd)
  BY <1>2 DEF Retry, Steady
<1>4. ASSUME ~p.c.stale PROVE Ordinary(n.c, n.wsd.state, Tail(s) \o n.wsd.wire)
  <2>1. /\ p.wsd.state \in {"none", "ended"} /\ p.wsd.wire = <<>>
        /\ ~p.c.recycling /\ ~p.c.idle /\ p.c.sock # "connecting" /\ ~p.c.blocked
        /\ p.c.reconnecting => p.c.tried \/ p.c.leftover
        /\ Tail(s) \o <<>> = <<>>
    BY <1>0, <1>4, LastHeard
  <2>2. Ordinary(n.c, n.wsd.state, <<>>)
    BY <1>2, <2>1, ScriptEmpty DEF Ordinary, Loading, Excused
  <2> QED  BY <1>2, <2>1, <2>2
<1> QED  BY <1>1, <1>2, <1>3, <1>4 DEF Retry

(* After "saveas:" the page connects again at once, too early if more is slurped. *)
LEMMA OnSaveAsRetry ==
    ASSUME NEW p, Formed(p), NEW s \in Seq(Message), Retry(p, s), p.c.slurp # <<>> \/ s = <<>>
    PROVE  Retry(OnSaveAs(p), s)
<1>1. PICK k : k = Close(p)
  OBVIOUS
<1>2. /\ k.wsd = Nobody /\ DOMAIN k = {"c", "wsd"} /\ DOMAIN k.c = PageFields
      /\ k.c.sock = "closed" /\ k.c.active = p.c.active /\ k.c.recycling = p.c.recycling
      /\ k.c.idle = p.c.idle /\ k.c.count = p.c.count
      /\ k.c.interval = p.c.interval /\ k.c.timers = p.c.timers /\ k.c.fatal = p.c.fatal
      /\ k.c.dimmed = p.c.dimmed /\ k.c.error = p.c.error /\ k.c.slurp = p.c.slurp
      /\ k.c.stale = p.c.stale
  BY <1>1 DEF Formed, PageFields, Close
<1>3. Formed(k)
  <2>1. ASSUME NEW b \in BOOLEAN PROVE Formed([p EXCEPT !.c.sock = "closed", !.c.docLoaded = b, !.wsd = Nobody])
    BY NobodySession DEF Formed, Flags, Queues, PageFields
  <2>2. k = [p EXCEPT !.c.sock = "closed", !.c.docLoaded = FALSE, !.wsd = Nobody]
    BY <1>1 DEF Close
  <2> QED  BY <2>1, <2>2, Zenon
<1>4. Steady(k.c, k.wsd)
  BY <1>2 DEF Retry, Steady, Nobody
<1>5. k.c.stale \/ (k.c.recycling => k.c.interval # "none")
  BY <1>2 DEF Retry, Ordinary
<1>6. PICK d : d = LoadDocument(k)
  OBVIOUS
<1>7. Retry(d, s) /\ d.c.sock = "connecting" /\ Shape(d, k)
  <2>1. Shape(k, k)
    BY <1>2 DEF Shape
  <2> QED  BY <1>2, <1>3, <1>4, <1>5, <1>6, <2>1, LoadRetry, ShapeLoad
<1>8. PICK q : q = [d EXCEPT !.c.queue = Append(d.c.queue, [k |-> "info"])]
  OBVIOUS
<1>9. Alike(q, d)
  BY <1>7, <1>8 DEF Alike, Shape, PageFields
<1>10. OnSaveAs(p) \in {d, q}
  BY <1>1, <1>6, <1>7, <1>8 DEF OnSaveAs, SendMessage
<1> QED  BY <1>7, <1>9, <1>10, AlikeRetry

(* Blocking and unblocking the UI. *)
LEMMA BlockRetry ==
    ASSUME NEW p, Formed(p), NEW s \in Seq(Message), s # <<>>, Retry(p, s),
           NEW b \in BOOLEAN, b => Head(s).k = "block", Head(s).k \in {"block", "unblock"}
    PROVE  Retry([p EXCEPT !.c.blocked = b], Tail(s))
<1>1. PICK n : n = [p EXCEPT !.c.blocked = b]
  OBVIOUS
<1>2. /\ n.c.blocked = b /\ n.c.active = p.c.active /\ n.c.fatal = p.c.fatal
      /\ n.c.sock = p.c.sock /\ n.c.recycling = p.c.recycling /\ n.c.count = p.c.count
      /\ n.c.idle = p.c.idle /\ n.c.reconnecting = p.c.reconnecting
      /\ n.c.interval = p.c.interval /\ n.c.timers = p.c.timers /\ n.c.asking = p.c.asking
      /\ n.c.docLayer = p.c.docLayer /\ n.c.error = p.c.error
      /\ n.c.dimmed = p.c.dimmed /\ n.wsd = p.wsd
      /\ n.c.tried = p.c.tried /\ n.c.leftover = p.c.leftover /\ n.c.stale = p.c.stale
  BY <1>1 DEF Formed, PageFields
<1>3. Steady(n.c, n.wsd)
  BY <1>2 DEF Retry, Steady
<1>4. ASSUME ~p.c.stale PROVE Ordinary(n.c, n.wsd.state, Tail(s) \o n.wsd.wire)
  <2>0. PICK q, t : Hearing(p, s, q, t)
    BY <1>4, Heard
  <2>1. /\ t = Tail(s) \o p.wsd.wire
        /\ Ordinary(p.c, p.wsd.state, q) /\ Script(t, p.wsd.state)
        /\ \A k \in {"ready", "status"} : Has(t, k) => Has(q, k) /\ ~NeverAfter(Head(s).k, k)
        /\ ~p.c.recycling /\ ~p.c.idle /\ p.c.sock # "connecting"
        /\ Word(Head(s).k, p.wsd.state)
        /\ Head(s).k = "block" => p.wsd.state = "blocking" \/ Has(t, "unblock")
    BY <2>0 DEF Hearing
  <2>2. ASSUME b PROVE /\ ~Has(t, "status") /\ ~Has(t, "ready") /\ p.wsd.state \notin {"loading", "joined"}
                       /\ p.wsd.state = "blocking" \/ Has(t, "unblock")
    <3>1. Head(s).k = "block"
      BY <2>2
    <3>2. NeverAfter("block", "status") /\ NeverAfter("block", "ready")
      BY DEF NeverAfter
    <3> QED  BY <2>1, <3>1, <3>2 DEF Word
  <2>3. Excused(p.c) => Excused(n.c)
    BY <1>2 DEF Excused
  <2>4. Ordinary(n.c, p.wsd.state, t)
    BY <1>2, <2>1, <2>2, <2>3 DEF Ordinary, Loading
  <2> QED  BY <1>2, <2>1, <2>4
<1> QED  BY <1>1, <1>2, <1>3, <1>4 DEF Retry

(* The status ends the load; a page that lost its connection meanwhile connects again, too
   early for what is slurped. *)
LEMMA OnStatusMsgRetry ==
    ASSUME NEW p, Formed(p), NEW s \in Seq(Message), s # <<>>, Retry(p, s), Head(s).k = "status",
           p.c.slurp # <<>> \/ Tail(s) = <<>>, NEW u, Bounds(u), Sound(p, s, u)
    PROVE  Retry(OnStatusMsg(p), Tail(s))
<1> DEFINE r == p.c.reconnecting /\ ~p.c.docLayer
<1>1. r \in BOOLEAN /\ (r <=> p.c.reconnecting /\ ~p.c.docLayer)
  BY DEF Formed, Flags
<1>2. PICK n : n = [p EXCEPT !.c.docLayer = TRUE, !.c.docLoaded = TRUE, !.c.tried = FALSE,
                             !.c.reconnecting = r, !.c.leftover = r]
  OBVIOUS
<1>3. OnStatusMsg(p) = Activate(SendMessage(n, [k |-> "info"]))
  BY <1>2 DEF OnStatusMsg
<1> HIDE DEF r
<1>4. Formed(n)
  <2>1. ASSUME NEW x \in BOOLEAN, NEW y \in BOOLEAN, NEW z \in BOOLEAN
        PROVE  Formed([p EXCEPT !.c.docLayer = x, !.c.docLoaded = y, !.c.tried = z,
                                !.c.reconnecting = r, !.c.leftover = r])
    <3>1. Formed(p)
      OBVIOUS
    <3> QED  BY ONLY <1>1, <3>1 DEF Formed, Flags, Queues, PageFields
  <2> QED  BY <1>2, <2>1, Zenon
<1>5. /\ n.c.docLayer = TRUE /\ n.c.tried = FALSE /\ n.c.reconnecting = r /\ n.c.leftover = r
      /\ n.c.sock = p.c.sock /\ n.c.active = p.c.active /\ n.c.recycling = p.c.recycling
      /\ n.c.idle = p.c.idle /\ n.c.count = p.c.count /\ n.c.interval = p.c.interval
      /\ n.c.timers = p.c.timers /\ n.c.fatal = p.c.fatal /\ n.c.blocked = p.c.blocked
      /\ n.c.asking = p.c.asking /\ n.c.dimmed = p.c.dimmed /\ n.c.error = p.c.error
      /\ n.c.slurp = p.c.slurp /\ n.c.stale = p.c.stale /\ n.wsd = p.wsd
  BY <1>2 DEF Formed, PageFields
<1>6. Steady(n.c, n.wsd)
  BY <1>5 DEF Retry, Steady
<1>7. ASSUME ~p.c.stale
      PROVE  /\ p.c.sock # "closed" \/ Excused(n.c) => Ordinary(n.c, n.wsd.state, Tail(s) \o n.wsd.wire)
             /\ ~p.c.blocked /\ ~p.c.recycling /\ ~p.c.idle
  <2>0. PICK q, t : Hearing(p, s, q, t)
    BY <1>7, Heard
  <2>1. /\ t = Tail(s) \o p.wsd.wire
        /\ Ordinary(p.c, p.wsd.state, q) /\ Script(t, p.wsd.state)
        /\ \A k \in {"ready", "status"} : Has(t, k) => ~NeverAfter("status", k)
        /\ Has(q, "status") /\ Word("status", p.wsd.state)
        /\ ~p.c.recycling /\ ~p.c.idle /\ p.c.sock # "connecting"
    BY <2>0 DEF Hearing
  <2>2. ~Has(t, "ready") /\ ~Has(t, "status") /\ p.wsd.state \notin {"loading", "joined"}
    BY <2>1 DEF NeverAfter, Word
  <2>3. ~p.c.blocked
    BY <2>1 DEF Ordinary
  <2>4. ASSUME p.c.sock # "closed" \/ Excused(n.c) PROVE Ordinary(n.c, p.wsd.state, t)
    BY <1>5, <2>1, <2>2, <2>3, <2>4 DEF Ordinary, Loading
  <2> QED  BY <1>5, <2>1, <2>3, <2>4
<1>8. PICK z : z = SendMessage(n, [k |-> "info"])
  OBVIOUS
<1>9. (n.c.slurp # <<>> \/ Tail(s) = <<>>) /\ Shape(n, n) /\ n.c.sock \in {"connecting", "open", "closing", "closed"}
  BY <1>4, <1>5 DEF Formed, Shape, Flags
<1>10. CASE Retry(n, Tail(s))
  <2>1. Retry(z, Tail(s))
    BY <1>4, <1>8, <1>9, <1>10, SendRetry
  <2>2. Formed(z) /\ (z.c.slurp # <<>> \/ Tail(s) = <<>>)
    <3>1. Same(n, p) /\ n.c.muted = p.c.muted
      BY <1>2 DEF Formed, PageFields, Same
    <3>2. Sound(n, s, u)
      BY <1>4, <1>5, <3>1 DEF Sound, Same
    <3>3. Sound(z, s, u)
      BY <1>8, <3>2, InfoSound
    <3> QED  BY <1>8, <1>9, <3>3, ShapeSend DEF Shape, Sound
  <2> QED  BY <1>3, <1>8, <2>1, <2>2, ActivateRetry
<1>11. CASE ~Retry(n, Tail(s))
  <2>1. n.c.sock = "closed" /\ ~p.c.stale /\ ~Excused(n.c) /\ ~n.c.blocked /\ ~n.c.recycling /\ ~n.c.idle
    BY <1>5, <1>6, <1>7, <1>11 DEF Retry
  <2>2. ~n.c.fatal
    BY <1>6, <2>1 DEF Steady, Excused
  <2>3. PICK d : d = LoadDocument(n)
    OBVIOUS
  <2>4. Retry(d, Tail(s)) /\ d.c.sock = "connecting"
    BY <1>4, <1>6, <1>9, <2>1, <2>3, LoadRetry
  <2>5. CASE n.c.active
    <3>1. PICK y : y = [d EXCEPT !.c.queue = Append(d.c.queue, [k |-> "info"])]
      OBVIOUS
    <3>2. Shape(d, n)
      BY <1>9, <2>3, ShapeLoad
    <3>3. Alike(y, d) /\ y.c.active = d.c.active
      BY <3>1, <3>2 DEF Alike, Shape, PageFields
    <3>4. z = y
      BY <1>8, <2>1, <2>2, <2>3, <2>5, <3>1 DEF SendMessage
    <3>5. d.c.active
      <4>1. PICK k : k = Close(n)
        OBVIOUS
      <4>2. DOMAIN k = {"c", "wsd"} /\ DOMAIN k.c = PageFields /\ k.c.active = n.c.active
        BY <4>1, <1>4 DEF Close, Formed, PageFields
      <4>3. \A b : [k EXCEPT !.c.sock = "connecting", !.c.tried = TRUE, !.c.stale = b].c.active = n.c.active
        BY <4>2 DEF PageFields
      <4> QED  BY <2>3, <2>5, <4>1, <4>3 DEF LoadDocument
    <3>6. Activate(z) = z
      BY <3>3, <3>4, <3>5 DEF Activate
    <3>7. Retry(y, Tail(s))
      BY <2>4, <3>3, AlikeRetry
    <3> QED  BY <1>3, <1>8, <3>4, <3>6, <3>7
  <2>6. CASE ~n.c.active
    <3>1. IsActivity([k |-> "info"]) = FALSE
      BY DEF IsActivity
    <3>2. z = n
      BY <1>8, <2>6, <3>1 DEF SendMessage
    <3>3. Activate(n) = d
      BY <2>1, <2>3, <2>6 DEF Activate
    <3> QED  BY <1>3, <1>8, <2>4, <3>2, <3>3
  <2> QED  BY <2>5, <2>6
<1> QED  BY <1>10, <1>11

(* Handling the first word of s leaves the rest of it. *)
LEMMA OnMessageRetry ==
    ASSUME NEW p, Formed(p), NEW s \in Seq(Message), s # <<>>, Retry(p, s),
           p.c.slurp # <<>> \/ Tail(s) = <<>>, NEW u, Bounds(u), Sound(p, s, u)
    PROVE  Retry(OnMessage(p, Head(s)), Tail(s))
<1>1. PICK m \in Message : m = Head(s)
  BY TailParts
<1>2. Tail(s) \in Seq(Message)
  BY TailParts
<1>3. CASE m.k = "ready"
  BY <1>1, <1>3, OnReadyRetry DEF OnMessage
<1>4. CASE m.k = "status"
  <2>1. Retry(OnStatusMsg(p), Tail(s))
    BY <1>1, <1>4, OnStatusMsgRetry
  <2> QED  BY <1>1, <1>4, <2>1 DEF OnMessage
<1>5. CASE m.k = "view"
  <2>1. Alike(OnLayerMessage(p, m), p)
    BY <1>1, <1>5, OnLayerMessageAlike
  <2>2. m.k \notin LastWords /\ m.k \notin {"ready", "status", "block", "unblock"}
    BY <1>5 DEF LastWords
  <2>3. Retry(p, Tail(s))
    BY <1>1, <2>2, WordTaken
  <2>4. OnMessage(p, m) = OnLayerMessage(p, m)
    BY <1>5 DEF OnMessage
  <2> QED  BY <1>1, <2>1, <2>3, <2>4, AlikeRetry
<1>6. CASE m.k \in {"idle", "recycling", "reload"}
  <2>1. OnMessage(p, m) = OnCloseMsg(p, m.k)
    BY <1>6 DEF OnMessage
  <2> QED  BY <1>1, <1>6, <2>1, OnCloseMsgRetry
<1>7. CASE m.k \in {"unloading", "failed", "password"}
  <2>1. OnMessage(p, m) = OnLoadError(p, m.k)
    BY <1>7 DEF OnMessage
  <2> QED  BY <1>1, <1>7, <2>1, OnLoadErrorRetry
<1>8. CASE m.k = "limit"
  <2>1. OnMessage(p, m) = OnOtherError(p)
    BY <1>8 DEF OnMessage
  <2> QED  BY <1>1, <1>8, <2>1, OnOtherErrorRetry
<1>9. CASE m.k = "saveas"
  <2>1. OnMessage(p, m) = OnSaveAs(p)
    BY <1>9 DEF OnMessage
  <2>2. m.k \notin LastWords /\ m.k \notin {"ready", "status", "block", "unblock"}
    BY <1>9 DEF LastWords
  <2>3. Retry(p, Tail(s))
    BY <1>1, <2>2, WordTaken
  <2>4. Retry(OnSaveAs(p), Tail(s))
    BY <1>2, <2>3, OnSaveAsRetry
  <2> QED  BY <1>1, <2>1, <2>4
<1>10. CASE m.k \in {"block", "unblock"}
  <2>1. PICK b \in BOOLEAN : OnMessage(p, m) = [p EXCEPT !.c.blocked = b] /\ (b => m.k = "block")
    BY <1>10 DEF OnMessage
  <2>3. Retry([p EXCEPT !.c.blocked = b], Tail(s))
    BY <1>1, <1>10, <2>1, BlockRetry
  <2> QED  BY <1>1, <2>1, <2>3
<1>11. CASE m.k \in {"image", "decoded"}
  <2>1. OnMessage(p, m) = p
    BY <1>11 DEF OnMessage
  <2>2. m.k \notin LastWords /\ m.k \notin {"ready", "status", "block", "unblock"}
    BY <1>11 DEF LastWords
  <2> QED  BY <1>1, <2>1, <2>2, WordTaken
<1>12. m.k \in {"ready", "status", "idle", "recycling", "reload", "unloading", "failed", "limit",
                "password", "saveas", "block", "unblock", "image", "decoded", "view"}
  BY DEF Message
<1> QED  BY <1>3, <1>4, <1>5, <1>6, <1>7, <1>8, <1>9, <1>10, <1>11, <1>12

(* Taking what is slurped off the queue. *)
LEMMA SlurpRetry ==
    ASSUME NEW p, Formed(p), NEW t, NEW s, Retry(p, s)
    PROVE  Retry([p EXCEPT !.c.slurp = t], s)
<1>1. PICK g : g = [p EXCEPT !.c.slurp = t]
  OBVIOUS
<1>2. /\ g.c.sock = p.c.sock /\ g.c.active = p.c.active /\ g.c.recycling = p.c.recycling
      /\ g.c.idle = p.c.idle /\ g.c.reconnecting = p.c.reconnecting /\ g.c.count = p.c.count
      /\ g.c.interval = p.c.interval /\ g.c.timers = p.c.timers /\ g.c.fatal = p.c.fatal
      /\ g.c.docLayer = p.c.docLayer /\ g.c.blocked = p.c.blocked /\ g.c.asking = p.c.asking
      /\ g.c.dimmed = p.c.dimmed /\ g.c.error = p.c.error
      /\ g.c.tried = p.c.tried /\ g.c.leftover = p.c.leftover /\ g.c.stale = p.c.stale
      /\ g.wsd = p.wsd
  BY <1>1 DEF Formed, PageFields
<1>3. Retry(g, s)
  BY <1>2 DEF Retry, Steady, Ordinary, Loading, Excused
<1> QED  BY <1>1, <1>3

(* One turn of the loop. *)
LEMMA EmitOneRetry ==
    ASSUME NEW p, NEW u, Bounds(u), Sound(p, p.c.slurp, u), p.c.slurp # <<>>, Retry(p, p.c.slurp)
    PROVE  Retry(EmitOne(p, Head(p.c.slurp)), Tail(p.c.slurp))
<1>1. PICK s \in Seq(Message) : s = p.c.slurp
  BY DEF Sound, Formed, Queues
<1>2. PICK t \in Seq(Message) : t = Tail(s)
  BY <1>1, TailParts
<1>3. PICK q : q = [p EXCEPT !.c.slurp = t]
  OBVIOUS
<1>4. Sound(q, s, u) /\ q.c.slurp = t
  BY <1>1, <1>3, SlurpSet
<1>5. Retry(q, s)
  BY <1>1, <1>3, SlurpRetry DEF Sound
<1>6. EmitOne(p, Head(s)) = OnMessage(q, Head(s))
  BY <1>1, <1>2, <1>3 DEF EmitOne
<1>7. Formed(q) /\ (q.c.slurp # <<>> \/ Tail(s) = <<>>) /\ s # <<>>
  BY <1>1, <1>2, <1>4 DEF Sound
<1>8. Retry(OnMessage(q, Head(s)), Tail(s))
  BY <1>4, <1>5, <1>7, OnMessageRetry
<1> QED  BY <1>1, <1>6, <1>8

(* Handling the messages of q, that are slurped before rest. *)
LEMMA EmittedRetry ==
    ASSUME NEW p, NEW q \in Seq(Message), NEW rest \in Seq(Message), NEW u, Bounds(u),
           Sound(p, q \o rest, u), Retry(p, q \o rest), p.c.slurp = q \o rest
    PROVE  Retry(FoldLeft(EmitOne, p, q), rest) /\ FoldLeft(EmitOne, p, q).c.slurp = rest
<1>1. FoldLeft(EmitOne, p, q) = Emitting!Fold(p, q)
  BY DEF FoldLeft, MapThenFoldSet, Max, Emitting!Max, Emitting!Fold
<1>2. PICK r : Emitting!IsRun(r, p, q) /\ FoldLeft(EmitOne, p, q) = r[Len(q)]
  BY <1>1, Emitting!FoldRuns
<1>3. r[0] = p /\ \A i \in 1..Len(q) : r[i] = EmitOne(r[i - 1], q[i])
  BY <1>2 DEF Emitting!IsRun
<1> DEFINE Good(i) == /\ Sound(r[i], Rest(q, i) \o rest, u) /\ Retry(r[i], Rest(q, i) \o rest)
                      /\ r[i].c.slurp = Rest(q, i) \o rest
           T == {i \in Nat : Good(i)}
<1>4. Len(q) \in Nat
  BY LenProperties
<1>5. Good(0)
  BY <1>3, RestParts
<1>6. ASSUME NEW i \in Nat, i + 1 <= Len(q), Good(i) PROVE Good(i + 1)
  <2>1. i + 1 \in 1..Len(q) /\ (i + 1) - 1 = i
    BY <1>4, <1>6
  <2>2. PICK t \in Seq(Message) : t = Rest(q, i) /\ t # <<>> /\ Head(t) = q[i + 1] /\ Tail(t) = Rest(q, i + 1)
    BY <2>1, RestParts
  <2>3. PICK a \in Seq(Message) : a = t \o rest /\ a # <<>> /\ Head(a) = Head(t) /\ Tail(a) = Tail(t) \o rest
    BY <2>2, ConcatTail
  <2>4. r[i + 1] = EmitOne(r[i], q[i + 1])
    BY <1>3, <2>1
  <2>5. PICK x : x = r[i]
    OBVIOUS
  <2>6. Sound(x, a, u) /\ Retry(x, a) /\ x.c.slurp = a
    BY <1>6, <2>2, <2>3, <2>5
  <2>7. /\ Sound(EmitOne(x, Head(a)), Tail(a), u) /\ Retry(EmitOne(x, Head(a)), Tail(a))
        /\ EmitOne(x, Head(a)).c.slurp = Tail(a)
    BY <2>3, <2>6, EmitOneSound, EmitOneRetry
  <2> QED  BY <2>2, <2>3, <2>4, <2>5, <2>7
<1>7. Good(Len(q))
  <2> HIDE DEF Good
  <2>1. 0 \in T
    BY <1>5
  <2>2. \A i \in Nat : i + 1 <= Len(q) /\ i \in T => i + 1 \in T
    BY <1>6
  <2>3. Len(q) \in T
    <3> HIDE DEF T
    <3> QED  BY <1>4, <2>1, <2>2, StepsTo
  <2> QED  BY <2>3
<1>8. Rest(q, Len(q)) \o rest = rest
  BY RestParts, ConcatEmptySeq
<1> QED  BY <1>2, <1>7, <1>8

(* _emitSlurpedEvents() *)
LEMMA EmitSlurpedRetry ==
    ASSUME NEW p, NEW u, Bounds(u), Sound(p, p.c.slurp, u), Retry(p, p.c.slurp)
    PROVE  Retry(EmitSlurped(p), EmitSlurped(p).c.slurp)
<1>1. PICK upto \in Seq(Message), rest \in Seq(Message) :
         upto \o rest = p.c.slurp /\ EmitSlurped(p) = FoldLeft(EmitOne, p, upto)
  BY EmitSlurpedParts DEF Sound
<1> QED  BY <1>1, EmittedRetry
-----------------------------------------------------------------------------
(* The steps. *)

(* The next state is the page an action makes. *)
LEMMA BecomesRetry ==
    ASSUME NEW p, NEW s, Become(p), Retry(p, s), s = p.c.slurp
    PROVE  Retry(Now, c.slurp)'
<1>1. Now'.c = p.c /\ Now'.wsd = p.wsd /\ c' = p.c
  BY DEF Become, Now
<1>2. Retry(Now', s)
  BY <1>1 DEF Retry
<1> QED  BY <1>1, <1>2

(* The socket opens. *)
LEMMA OpenKeeps == ASSUME Inv, Retry(Now, c.slurp), Open PROVE Retry(Now, c.slurp)'
<1>1. PICK o : o = [Now EXCEPT !.c.sock = "open"]
  OBVIOUS
<1>2. Retry(OnSocketOpen(o), Now.c.slurp)
  BY <1>1, Standing, OpenRetry DEF Open
<1>3. Formed(o) /\ Shape(o, Now) /\ o.c.log = c.log /\ o.c.queue = c.queue
  BY <1>1, Standing DEF Formed, Flags, Queues, PageFields, Shape
<1>4. Shape(OnSocketOpen(o), o)
  <2>1. CmdOK(c.log, c.queue, used["sends"]) /\ used["sends"] \in Nat
    BY Standing, BoundsNat DEF Sound
  <2> QED  BY <1>3, <2>1, ShapeOpen
<1>5. Become(OnSocketOpen(o))
  BY <1>1 DEF Open
<1> QED  BY <1>2, <1>3, <1>4, <1>5, BecomesRetry DEF Shape

(* An attempt to connect fails, or the connection is closed. *)
LEMMA CloseKeeps == ASSUME Inv, Retry(Now, c.slurp), Fail \/ Closed PROVE Retry(Now, c.slurp)'
<1>1. PICK x : x = [c EXCEPT !.sock = "closed"]
  OBVIOUS
<1>2. PICK w, o : w \in {wsd, Nobody} /\ o = [c |-> x, wsd |-> w] /\ Become(OnSocketClose(o))
  <2>1. CASE Fail
    <3>1. [Now EXCEPT !.c.sock = "closed"] = [c |-> x, wsd |-> wsd]
      BY <1>1 DEF Now
    <3> QED  BY <2>1, <3>1 DEF Fail
  <2>2. CASE Closed
    <3>1. [Now EXCEPT !.c.sock = "closed", !.wsd = Nobody] = [c |-> x, wsd |-> Nobody]
      <4>1. PICK k : k = [Now EXCEPT !.c.sock = "closed"]
        OBVIOUS
      <4>2. k = [c |-> x, wsd |-> wsd]
        BY <1>1, <4>1 DEF Now
      <4>3. [k EXCEPT !.wsd = Nobody] = [c |-> x, wsd |-> Nobody]
        BY <4>2
      <4> QED  BY <4>1, <4>3
    <3> QED  BY <2>2, <3>1 DEF Closed
  <2> QED  BY <2>1, <2>2
<1>3. o.c = x /\ o.wsd = w /\ DOMAIN o = {"c", "wsd"}
  BY <1>2
<1>4. Flags(x) /\ Queues(x) /\ DOMAIN x = PageFields /\ x.slurp = c.slurp
  BY <1>1, Standing DEF Formed, Flags, Queues, PageFields
<1>5. Session(w)
  BY <1>2, Standing, NobodySession DEF Formed
<1>6. Formed(o) /\ Shape(o, o)
  BY <1>3, <1>4, <1>5 DEF Formed, Shape
<1>7. Retry(OnSocketClose(o), c.slurp)
  <2>1. Now.c.sock \in {"connecting", "closing"}
    BY Standing DEF Fail, Closed
  <2>2. o.c = [Now.c EXCEPT !.sock = "closed"] /\ o.wsd \in {Now.wsd, Nobody}
    BY <1>1, <1>2, <1>3, Standing
  <2> QED  BY <1>6, <2>1, <2>2, Standing, OnSocketCloseRetry
<1>8. OnSocketClose(o).c.slurp = c.slurp
  BY <1>3, <1>4, <1>6, ShapeClose DEF Shape
<1> QED  BY <1>2, <1>7, <1>8, BecomesRetry

(* The closing handshake starts. *)
LEMMA ClosingKeeps == ASSUME Inv, Retry(Now, c.slurp), Closing PROVE Retry(Now, c.slurp)'
<1>1. c' = [c EXCEPT !.sock = "closing"] /\ wsd' = wsd /\ c.sock = "open" /\ wsd.state = "ended"
      /\ wsd.wire = <<>>
  BY DEF Closing
<1>2. /\ c'.sock = "closing" /\ c'.active = c.active /\ c'.recycling = c.recycling
      /\ c'.idle = c.idle /\ c'.reconnecting = c.reconnecting /\ c'.count = c.count
      /\ c'.interval = c.interval /\ c'.timers = c.timers /\ c'.fatal = c.fatal
      /\ c'.docLayer = c.docLayer /\ c'.blocked = c.blocked /\ c'.asking = c.asking
      /\ c'.dimmed = c.dimmed /\ c'.error = c.error /\ c'.slurp = c.slurp
      /\ c'.tried = c.tried /\ c'.leftover = c.leftover /\ c'.stale = c.stale
  BY <1>1, Standing DEF Formed, PageFields
<1>3. PICK n : n = [c |-> c', wsd |-> wsd]
  OBVIOUS
<1>4. n.c = c' /\ n.wsd = wsd
  BY <1>3
<1>5. Steady(c, wsd) /\ (c.stale \/ Ordinary(c, wsd.state, c.slurp \o wsd.wire))
  BY Standing DEF Retry
<1>6. Steady(c', wsd)
  BY <1>1, <1>2, <1>5 DEF Steady
<1>7. c.stale \/ Ordinary(c', wsd.state, c.slurp \o wsd.wire)
  BY <1>1, <1>2, <1>5 DEF Ordinary, Loading
<1>8. Retry(n, c.slurp)
  BY <1>2, <1>4, <1>6, <1>7 DEF Retry
<1> QED  BY <1>1, <1>2, <1>4, <1>8, BecomesRetry DEF Become

(* The timers to come, and whether one of them reconnects. *)
LEMMA QueueSlurpCloses ==
    ASSUME NEW t \in Seq(Timers) PROVE Closes(QueueSlurp(t)) <=> Closes(t)
<1>1. "slurp" \in Timers
  BY DEF Timers
<1>2. Closes(Append(t, "slurp")) <=> Closes(t)
  BY <1>1, ClosesAppend
<1> QED  BY <1>2 DEF QueueSlurp

(* n differs from p in what is slurped, on the wire and handled later, and that only. *)
Moved(n, p) ==
    /\ n.c.sock = p.c.sock /\ n.c.active = p.c.active /\ n.c.recycling = p.c.recycling
    /\ n.c.idle = p.c.idle /\ n.c.reconnecting = p.c.reconnecting /\ n.c.count = p.c.count
    /\ n.c.interval = p.c.interval /\ (Closes(n.c.timers) <=> Closes(p.c.timers))
    /\ n.c.fatal = p.c.fatal /\ n.c.docLayer = p.c.docLayer /\ n.c.blocked = p.c.blocked
    /\ n.c.asking = p.c.asking /\ n.c.dimmed = p.c.dimmed /\ n.c.error = p.c.error
    /\ n.c.tried = p.c.tried /\ n.c.leftover = p.c.leftover /\ n.c.stale = p.c.stale
    /\ n.wsd.state = p.wsd.state /\ (n.c.sock = "open" \/ n.wsd.wire = p.wsd.wire)

(* r says what q says. *)
Tells(r, q, st) ==
    /\ Script(q, st) => Script(r, st)
    /\ q = <<>> => r = <<>>
    /\ \A k \in {"ready", "status", "unblock"} : Has(r, k) <=> Has(q, k)

(* Moving words from the wire to the slurped ones changes nothing; nor does decoding one. *)
LEMMA MovedRetry ==
    ASSUME NEW p, NEW s, Retry(p, s), NEW n, NEW v, Moved(n, p),
           Tells(v \o n.wsd.wire, s \o p.wsd.wire, p.wsd.state)
    PROVE  Retry(n, v)
<1> DEFINE q == s \o p.wsd.wire
           r == v \o n.wsd.wire
<1> HIDE DEF q, r
<1>0. Tells(r, q, p.wsd.state)
  BY DEF q, r
<1>1. Steady(n.c, n.wsd)
  BY DEF Retry, Steady, Moved
<1>2. n.c.stale \/ Ordinary(n.c, n.wsd.state, r)
  <2>1. p.c.stale \/ Ordinary(p.c, p.wsd.state, q)
    BY DEF Retry, q
  <2> QED  BY <1>0, <2>1 DEF Ordinary, Loading, Excused, Moved, Tells
<1> QED  BY <1>1, <1>2 DEF Retry, r

(* The first word of the wire becomes the last slurped one. *)
LEMMA WordMoves ==
    ASSUME NEW a \in Seq(Message), NEW b \in Seq(Message), b # <<>>
    PROVE  Append(a, Head(b)) \o Tail(b) = a \o b
<1>1. PICK m \in Message, t \in Seq(Message) : m = Head(b) /\ t = Tail(b)
  BY TailParts
<1>2. /\ m = b[1] /\ Len(b) \in Nat \ {0} /\ Len(t) = Len(b) - 1
      /\ \A i \in 1..Len(b)-1 : t[i] = b[i + 1]
  <2>1. DOMAIN t = 1..Len(t) /\ Len(t) \in Nat
    BY LenProperties
  <2>2. DOMAIN t = 1..Len(b)-1 /\ Len(b) \in Nat \ {0} /\ m = b[1] /\ \A i \in DOMAIN t : t[i] = b[i + 1]
    BY <1>1, TailParts
  <2>3. \A x \in Nat, y \in Nat \ {0} : 1..x = 1..y-1 => x = y - 1
    <3> SUFFICES ASSUME NEW x \in Nat, NEW y \in Nat \ {0}, 1..x = 1..y-1 PROVE x = y - 1
      OBVIOUS
    <3>1. (x \in 1..x <=> x \in 1..y-1) /\ (y - 1 \in 1..x <=> y - 1 \in 1..y-1)
      OBVIOUS
    <3> QED  BY <3>1
  <2> QED  BY <2>1, <2>2, <2>3
<1>3. PICK s \in Seq(Message) : s = Append(a, m)
  BY AppendParts
<1>4. /\ Len(a) \in Nat /\ Len(s) = Len(a) + 1
      /\ \A i \in 1..Len(a) : s[i] = a[i]
      /\ s[Len(a) + 1] = m
  BY <1>3, AppendProperties, LenProperties
<1>5. /\ s \o t \in Seq(Message) /\ Len(s \o t) = Len(s) + Len(t)
      /\ \A i \in 1..Len(s)+Len(t) : (s \o t)[i] = IF i <= Len(s) THEN s[i] ELSE t[i - Len(s)]
  BY ConcatProperties
<1>6. /\ a \o b \in Seq(Message) /\ Len(a \o b) = Len(a) + Len(b)
      /\ \A i \in 1..Len(a)+Len(b) : (a \o b)[i] = IF i <= Len(a) THEN a[i] ELSE b[i - Len(a)]
  BY ConcatProperties
<1>7. Len(s \o t) = Len(a \o b)
  BY <1>2, <1>4, <1>5, <1>6
<1>8. ASSUME NEW i \in 1..Len(s \o t) PROVE (s \o t)[i] = (a \o b)[i]
  <2>1. i \in 1..Len(s)+Len(t) /\ i \in 1..Len(a)+Len(b) /\ i \in Nat
    BY <1>2, <1>4, <1>5
  <2>2. CASE i <= Len(a)
    <3>1. (s \o t)[i] = s[i] /\ s[i] = a[i] /\ (a \o b)[i] = a[i]
      BY <1>4, <1>5, <1>6, <2>1, <2>2
    <3> QED  BY <3>1
  <2>3. CASE i = Len(a) + 1
    <3>1. (s \o t)[i] = s[i] /\ s[i] = m /\ (a \o b)[i] = b[i - Len(a)] /\ i - Len(a) = 1
      BY <1>4, <1>5, <1>6, <2>1, <2>3
    <3> QED  BY <1>2, <3>1
  <2>4. CASE i > Len(a) + 1
    <3>1. (s \o t)[i] = t[i - Len(s)] /\ (a \o b)[i] = b[i - Len(a)]
      BY <1>4, <1>5, <1>6, <2>1, <2>4
    <3>2. i - Len(s) \in 1..Len(b)-1 /\ (i - Len(s)) + 1 = i - Len(a)
      BY <1>2, <1>4, <2>1, <2>4
    <3>3. t[i - Len(s)] = b[(i - Len(s)) + 1]
      BY <1>2, <3>2
    <3> QED  BY <3>1, <3>2, <3>3
  <2> QED  BY <1>4, <2>1, <2>2, <2>3, <2>4
<1> QED  BY <1>1, <1>3, <1>5, <1>6, <1>7, <1>8, SeqEqual

(* A message arrives and is slurped. *)
LEMMA ReceiveKeeps == ASSUME Inv, Retry(Now, c.slurp), Receive PROVE Retry(Now, c.slurp)'
<1>1. PICK m \in Message, w \in Seq(Message) : m = Head(wsd.wire) /\ w = Tail(wsd.wire)
  BY Standing, TailParts DEF Receive
<1>2. PICK t \in Seq(Timers) : t = IF c.slurp = <<>> THEN QueueSlurp(c.timers) ELSE c.timers
  BY Standing, QueueSlurpType
<1>3. PICK s \in Seq(Message) : s = Append(c.slurp, m)
  BY Standing, AppendParts
<1>4. PICK o : o = [Now EXCEPT !.wsd.wire = w]
  OBVIOUS
<1>5. /\ DOMAIN o = {"c", "wsd"} /\ o.c = c /\ o.wsd.wire = w /\ o.wsd.state = wsd.state
      /\ DOMAIN c = PageFields
  BY <1>4, Standing DEF Formed, Session
<1>6. PICK p : p = [o EXCEPT !.c.timers = t, !.c.slurp = s]
  OBVIOUS
<1>7. /\ p.c.sock = c.sock /\ p.c.active = c.active /\ p.c.recycling = c.recycling
      /\ p.c.idle = c.idle /\ p.c.reconnecting = c.reconnecting /\ p.c.count = c.count
      /\ p.c.interval = c.interval /\ p.c.timers = t /\ p.c.fatal = c.fatal
      /\ p.c.docLayer = c.docLayer /\ p.c.blocked = c.blocked /\ p.c.asking = c.asking
      /\ p.c.dimmed = c.dimmed /\ p.c.error = c.error /\ p.c.slurp = s
      /\ p.c.tried = c.tried /\ p.c.leftover = c.leftover /\ p.c.stale = c.stale
      /\ p.wsd = o.wsd
  BY <1>5, <1>6 DEF PageFields
<1>8. Become(p) /\ c.sock = "open"
  <2>1. [Now EXCEPT !.wsd.wire = Tail(@)] = o
    BY <1>1, <1>4, Standing
  <2>2. SlurpMessage(o, m) = p
    BY <1>2, <1>3, <1>5, <1>6 DEF SlurpMessage
  <2> QED  BY <1>1, <2>1, <2>2 DEF Receive
<1>9. Closes(t) <=> Closes(c.timers)
  BY <1>2, Standing, QueueSlurpCloses
<1>10. PICK q : q = c.slurp \o wsd.wire
  OBVIOUS
<1>11. s \o w = q
  BY <1>1, <1>3, <1>10, Standing, WordMoves DEF Receive
<1>12. Retry(p, s)
  <2>1. p.wsd.state = Now.wsd.state /\ p.wsd.wire = w /\ Now.c = c /\ Now.wsd = wsd
    BY <1>5, <1>7, Standing
  <2>2. q = c.slurp \o Now.wsd.wire /\ q = s \o p.wsd.wire
    BY <1>10, <1>11, <2>1
  <2>3. Moved(p, Now)
    BY <1>7, <1>8, <1>9, <2>1 DEF Moved
  <2>4. Tells(q, q, wsd.state)
    BY DEF Tells
  <2> QED  BY <2>1, <2>2, <2>3, <2>4, MovedRetry
<1> QED  BY <1>7, <1>8, <1>12, BecomesRetry

(* A timer fires. *)
LEMMA TimerKeeps == ASSUME Inv, Retry(Now, c.slurp), Timer PROVE Retry(Now, c.slurp)'
<1>1. PICK t \in Seq(Timers) : t = Tail(c.timers)
  BY Standing, TailParts DEF Timer
<1>2. PICK p : p = [Now EXCEPT !.c.timers = t]
  OBVIOUS
<1>3. Sound(p, p.c.slurp, used) /\ Shape(p, p) /\ p.c.slurp = c.slurp
  <2>1. Sound(p, Now.c.slurp, used) /\ Shape(p, Now)
    BY <1>2, Standing, TimersSet
  <2> QED  BY <2>1, Standing DEF Shape
<1>4. [Now EXCEPT !.c.timers = Tail(@)] = p
  BY <1>1, <1>2, Standing
<1>5. CASE Head(c.timers) = "slurp"
  <2>1. Become(EmitSlurped(p))
    BY <1>4, <1>5 DEF Timer
  <2>2. Closes(t) <=> Closes(c.timers)
    BY <1>1, <1>5, Standing, ClosesTail DEF Timer
  <2>3. Retry(p, p.c.slurp)
    <3>1. /\ p.c.sock = c.sock /\ p.c.active = c.active /\ p.c.recycling = c.recycling
          /\ p.c.idle = c.idle /\ p.c.reconnecting = c.reconnecting /\ p.c.count = c.count
          /\ p.c.interval = c.interval /\ p.c.timers = t /\ p.c.fatal = c.fatal
          /\ p.c.docLayer = c.docLayer /\ p.c.blocked = c.blocked /\ p.c.asking = c.asking
          /\ p.c.dimmed = c.dimmed /\ p.c.error = c.error
          /\ p.c.tried = c.tried /\ p.c.leftover = c.leftover /\ p.c.stale = c.stale
          /\ p.wsd = wsd
      BY <1>2, Standing DEF Formed, PageFields
    <3>2. PICK q : q = c.slurp \o wsd.wire
      OBVIOUS
    <3>3. Now.c = c /\ Now.wsd = wsd
      BY Standing
    <3>4. q = c.slurp \o Now.wsd.wire /\ q = p.c.slurp \o p.wsd.wire
      BY <1>3, <3>1, <3>2, <3>3
    <3>5. Moved(p, Now)
      BY <2>2, <3>1, <3>3 DEF Moved
    <3>6. Tells(q, q, wsd.state)
      BY DEF Tells
    <3> QED  BY <3>3, <3>4, <3>5, <3>6, MovedRetry
  <2>4. Retry(EmitSlurped(p), EmitSlurped(p).c.slurp)
    BY <1>3, <2>3, Standing, EmitSlurpedRetry
  <2> QED  BY <2>1, <2>4, BecomesRetry
<1>6. CASE Head(c.timers) # "slurp"
  <2>1. Become(CloseTimer(p))
    BY <1>4, <1>6 DEF Timer
  <2>2. Head(c.timers) = "close"
    BY <1>6, Standing, TailParts DEF Timer, Timers
  <2>3. Retry(CloseTimer(p), c.slurp)
    <3>1. p = [Now EXCEPT !.c.timers = Tail(Now.c.timers)] /\ Now.c = c
      BY <1>1, <1>2, Standing
    <3> QED  BY <2>2, <3>1, Standing, CloseTimerRetry DEF Timer
  <2>4. Shape(CloseTimer(p), p)
    BY <1>3, ShapeClose
  <2> QED  BY <1>3, <2>1, <2>3, <2>4, BecomesRetry DEF Shape
<1> QED  BY <1>5, <1>6

(* this.timer and the timer of the delayed messages. *)
LEMMA IntervalKeeps == ASSUME Inv, Retry(Now, c.slurp), Interval \/ DelayTimer PROVE Retry(Now, c.slurp)'
<1>1. CASE Interval
  <2>1. Become(IntervalTick(Now))
    BY <1>1 DEF Interval
  <2>2. Retry(IntervalTick(Now), Now.c.slurp) /\ Shape(IntervalTick(Now), Now)
    BY Standing, IntervalTickRetry, ShapeClose
  <2> QED  BY <2>1, <2>2, BecomesRetry DEF Shape
<1>2. CASE DelayTimer
  <2>1. Become(HandleDelayed(Now))
    BY <1>2 DEF DelayTimer
  <2>2. Alike(HandleDelayed(Now), Now)
    BY Standing, HandleDelayedAlike
  <2>3. Retry(HandleDelayed(Now), Now.c.slurp)
    BY <2>2, Standing, AlikeRetry
  <2> QED  BY <2>1, <2>2, <2>3, BecomesRetry DEF Alike
<1> QED  BY <1>1, <1>2

(* A picture has been decoded. *)
LEMMA ImageKeeps == ASSUME Inv, Retry(Now, c.slurp), ImageLoad PROVE Retry(Now, c.slurp)'
<1>1. PICK i \in DOMAIN c.slurp :
        /\ c.slurp[i].k = "image"
        /\ c' = [c EXCEPT !.slurp[i].k = "decoded", !.timers = QueueSlurp(@)]
  BY DEF ImageLoad
<1>2. PICK s : s = [c.slurp EXCEPT ![i].k = "decoded"]
  OBVIOUS
<1>3. PICK t \in Seq(Timers) : t = QueueSlurp(c.timers)
  BY Standing, QueueSlurpType
<1>4. /\ s \in Seq(Message) /\ DOMAIN s = DOMAIN c.slurp /\ Len(s) = Len(c.slurp) /\ s[i].k = "decoded"
      /\ \A j \in DOMAIN s : j # i => s[j] = c.slurp[j]
  <2>1. PICK z \in Seq(Message) : z = c.slurp
    BY Standing
  <2>2. DOMAIN z = 1..Len(z) /\ \A j \in 1..Len(z) : z[j] \in Message
    BY LenProperties, ElementOfSeq
  <2>3. PICK d : d = [z[i] EXCEPT !.k = "decoded"]
    OBVIOUS
  <2>4. d \in Message /\ d.k = "decoded"
    <3>1. z[i] \in Message /\ z[i].k = "image"
      BY <1>1, <2>1, <2>2
    <3>2. DOMAIN z[i] = {"k"} /\ z[i] = [k |-> "image"]
      BY <3>1 DEF Message
    <3>3. d = [k |-> "decoded"]
      BY <2>3, <3>2
    <3> QED  BY <3>3 DEF Message
  <2>5. s = [z EXCEPT ![i] = d]
    BY <1>2, <2>1, <2>3
  <2>6. Len(s) = Len(z)
    BY <1>1, <2>1, <2>2, <2>4, <2>5, ExceptSeq
  <2> QED  BY <1>1, <2>1, <2>2, <2>4, <2>5, <2>6
<1>5. DOMAIN c = PageFields
  BY Standing DEF Formed
<1>6. c' = [c EXCEPT !.slurp = s, !.timers = t] /\ wsd' = wsd
  BY <1>1, <1>2, <1>3, <1>5 DEF PageFields, ImageLoad
<1>7. /\ c'.sock = c.sock /\ c'.active = c.active /\ c'.recycling = c.recycling
      /\ c'.idle = c.idle /\ c'.reconnecting = c.reconnecting /\ c'.count = c.count
      /\ c'.interval = c.interval /\ c'.timers = t /\ c'.fatal = c.fatal
      /\ c'.docLayer = c.docLayer /\ c'.blocked = c.blocked /\ c'.asking = c.asking
      /\ c'.dimmed = c.dimmed /\ c'.error = c.error /\ c'.slurp = s
      /\ c'.tried = c.tried /\ c'.leftover = c.leftover /\ c'.stale = c.stale
  BY <1>5, <1>6 DEF PageFields
<1>8. Closes(t) <=> Closes(c.timers)
  BY <1>3, Standing, QueueSlurpCloses
<1>9. PICK q : q = c.slurp \o wsd.wire
  OBVIOUS
<1>10. PICK r : r = s \o wsd.wire
  OBVIOUS
<1>11. /\ DOMAIN q = DOMAIN r
       /\ \A j \in DOMAIN q : r[j].k = q[j].k \/ (q[j].k = "image" /\ r[j].k = "decoded")
       /\ q # <<>>
  <2>1. PICK a \in Seq(Message), b \in Seq(Message) : a = c.slurp /\ b = wsd.wire
    BY Standing
  <2>2. Len(a) = Len(s) /\ Len(a) \in Nat /\ Len(b) \in Nat /\ DOMAIN a = 1..Len(a)
    <3>1. Len(a) \in Nat /\ Len(b) \in Nat /\ DOMAIN a = 1..Len(a)
      BY LenProperties
    <3> QED  BY <1>4, <2>1, <3>1
  <2>3. /\ DOMAIN q = 1..Len(a)+Len(b) /\ DOMAIN r = 1..Len(a)+Len(b)
        /\ \A j \in 1..Len(a)+Len(b) : q[j] = IF j <= Len(a) THEN a[j] ELSE b[j - Len(a)]
        /\ \A j \in 1..Len(a)+Len(b) : r[j] = IF j <= Len(a) THEN s[j] ELSE b[j - Len(a)]
    <3>1. ASSUME NEW x \in Seq(Message), NEW y \in Seq(Message)
          PROVE  /\ DOMAIN (x \o y) = 1..Len(x)+Len(y)
                 /\ \A j \in 1..Len(x)+Len(y) : (x \o y)[j] = IF j <= Len(x) THEN x[j] ELSE y[j - Len(x)]
      <4>1. /\ x \o y \in Seq(Message) /\ Len(x \o y) = Len(x) + Len(y)
            /\ \A j \in 1..Len(x)+Len(y) : (x \o y)[j] = IF j <= Len(x) THEN x[j] ELSE y[j - Len(x)]
        BY ConcatProperties
      <4>2. DOMAIN (x \o y) = 1..Len(x \o y)
        BY <4>1, LenProperties
      <4> QED  BY <4>1, <4>2
    <3>2. q = a \o b /\ r = s \o b /\ s \in Seq(Message)
      BY <1>4, <1>9, <1>10, <2>1
    <3>3. /\ DOMAIN q = 1..Len(a)+Len(b)
          /\ \A j \in 1..Len(a)+Len(b) : q[j] = IF j <= Len(a) THEN a[j] ELSE b[j - Len(a)]
      BY <3>1, <3>2
    <3>4. /\ DOMAIN r = 1..Len(s)+Len(b)
          /\ \A j \in 1..Len(s)+Len(b) : r[j] = IF j <= Len(s) THEN s[j] ELSE b[j - Len(s)]
      BY <3>1, <3>2
    <3> QED  BY <2>2, <3>3, <3>4
  <2>4. i \in 1..Len(a)
    BY <1>1, <2>1, <2>2
  <2>5. q # <<>>
    BY <2>2, <2>3, <2>4
  <2>6. ASSUME NEW j \in DOMAIN q
        PROVE  r[j].k = q[j].k \/ (q[j].k = "image" /\ r[j].k = "decoded")
    <3>1. CASE j <= Len(a)
      <4>1. j \in 1..Len(a)+Len(b) /\ j \in 1..Len(a)
        BY <2>2, <2>3, <3>1
      <4>2. q[j] = a[j] /\ r[j] = s[j]
        BY <2>3, <3>1, <4>1
      <4>3. CASE j = i
        BY <1>1, <1>4, <2>1, <4>2, <4>3
      <4>4. CASE j # i
        BY <1>4, <2>1, <2>2, <4>1, <4>2, <4>4
      <4> QED  BY <4>3, <4>4
    <3>2. CASE ~(j <= Len(a))
      BY <2>3, <3>2
    <3> QED  BY <3>1, <3>2
  <2> QED  BY <2>3, <2>5, <2>6
<1>12. PICK n : n = [c |-> c', wsd |-> wsd]
  OBVIOUS
<1>13. n.c = c' /\ n.wsd = wsd /\ Now.c = c /\ Now.wsd = wsd
  BY <1>12, Standing
<1>14. Retry(n, s)
  <2>1. Script(q, wsd.state) => /\ Script(r, wsd.state)
                                /\ \A k \in {"ready", "status", "unblock"} : Has(r, k) <=> Has(q, k)
    BY <1>11, ScriptDecoded
  <2>2. \A k \in {"ready", "status", "unblock"} : Has(r, k) <=> Has(q, k)
    BY <1>11 DEF Has
  <2>3. q = c.slurp \o Now.wsd.wire /\ r = s \o n.wsd.wire
    BY <1>9, <1>10, <1>13
  <2>4. Moved(n, Now)
    BY <1>7, <1>8, <1>13 DEF Moved
  <2>5. Tells(r, q, Now.wsd.state)
    BY <1>11, <1>13, <2>1, <2>2 DEF Tells
  <2> QED  BY <2>3, <2>4, <2>5, MovedRetry
<1> QED  BY <1>6, <1>7, <1>13, <1>14, BecomesRetry DEF Become

(* The user types, or the tab gains or loses the focus. *)
LEMMA UserKeeps ==
    ASSUME Inv, Retry(Now, c.slurp), Send \/ Focus \/ Blur PROVE Retry(Now, c.slurp)'
<1>1. Formed(Now) /\ Shape(Now, Now) /\ Now.c = c /\ (Now.c.slurp # <<>> \/ c.slurp = <<>>)
  BY Standing
<1>2. CASE Send
  <2>1. PICK m : m = [k |-> "cmd", n |-> used["sends"]] /\ Become(SendMessage(Now, m))
    BY <1>2 DEF Send
  <2>2. m.k # "load"
    BY <2>1
  <2>3. Retry(SendMessage(Now, m), c.slurp) /\ Shape(SendMessage(Now, m), Now)
    BY <1>1, <2>2, SendRetry, ShapeSend
  <2> QED  BY <1>1, <2>1, <2>3, BecomesRetry DEF Shape
<1>3. CASE Focus
  <2>1. Become(Activate(Now))
    BY <1>3 DEF Focus
  <2>2. Retry(Activate(Now), c.slurp) /\ Shape(Activate(Now), Now)
    BY <1>1, ActivateRetry, ShapeActivate
  <2> QED  BY <1>1, <2>1, <2>2, BecomesRetry DEF Shape
<1>4. CASE Blur
  <2>1. PICK dialog \in BOOLEAN : Become(Deactivate(Now, dialog))
    BY <1>4 DEF Blur
  <2>2. Retry(Deactivate(Now, dialog), c.slurp) /\ Shape(Deactivate(Now, dialog), Now)
    BY <1>1, DeactivateRetry, ShapeDeactivate
  <2> QED  BY <1>1, <2>1, <2>2, BecomesRetry DEF Shape
<1> QED  BY <1>2, <1>3, <1>4

(* The fields of a page that has been touched by the user: idle, dimmed, asking and error. *)
Touched(n, p) ==
    /\ n.c.sock = p.c.sock /\ n.c.active = p.c.active /\ n.c.recycling = p.c.recycling
    /\ n.c.reconnecting = p.c.reconnecting /\ n.c.count = p.c.count
    /\ n.c.interval = p.c.interval /\ n.c.timers = p.c.timers /\ n.c.fatal = p.c.fatal
    /\ n.c.docLayer = p.c.docLayer /\ n.c.blocked = p.c.blocked /\ n.c.slurp = p.c.slurp
    /\ n.c.tried = p.c.tried /\ n.c.leftover = p.c.leftover /\ n.c.stale = p.c.stale
    /\ n.wsd = p.wsd

(* The user clicks on the dimmed document. *)
LEMMA WakeKeeps == ASSUME Inv, Retry(Now, c.slurp), Wake PROVE Retry(Now, c.slurp)'
<1>0. Now.c = c /\ Now.wsd = wsd /\ Formed(Now) /\ Shape(Now, Now)
  BY Standing
<1>1. PICK p : p = [Now EXCEPT !.c.dimmed = FALSE]
  OBVIOUS
<1>2. Sound(p, Now.c.slurp, used) /\ Shape(p, Now)
  BY <1>1, Standing, WokenSound, Zenon
<1>3. PICK q : q = [p EXCEPT !.c.idle = FALSE]
  OBVIOUS
<1>4. Sound(q, Now.c.slurp, used) /\ Shape(q, p)
  BY <1>2, <1>3, WokenSound, Zenon
<1>5. Touched(p, Now) /\ p.c.idle = c.idle /\ p.c.asking = c.asking /\ p.c.error = c.error
  BY <1>0, <1>1 DEF Formed, PageFields, Touched
<1>6. Touched(q, Now) /\ q.c.idle = FALSE /\ q.c.asking = c.asking /\ q.c.error = c.error
  <2>1. Touched(q, p) /\ q.c.idle = FALSE /\ q.c.asking = p.c.asking /\ q.c.error = p.c.error
    BY <1>2, <1>3 DEF Shape, PageFields, Touched
  <2> QED  BY <1>5, <2>1 DEF Touched
<1>7. Steady(c, wsd) /\ (c.stale \/ Ordinary(c, wsd.state, c.slurp \o wsd.wire))
  BY <1>0 DEF Retry
<1>8. Formed(p) /\ Formed(q) /\ Shape(q, q)
  BY <1>2, <1>4 DEF Sound, Shape
<1>9. CASE ~c.idle
  <2>1. Become(p)
    BY <1>1, <1>9 DEF Wake
  <2>2. Steady(p.c, p.wsd)
    BY <1>0, <1>5, <1>7, <1>9 DEF Touched, Steady
  <2>3. p.c.stale \/ Ordinary(p.c, wsd.state, c.slurp \o wsd.wire)
    BY <1>0, <1>5, <1>7, <1>9 DEF Touched, Ordinary, Loading, Excused
  <2>4. p.wsd = wsd /\ p.c.slurp = c.slurp
    BY <1>0, <1>5 DEF Touched
  <2>5. Retry(p, c.slurp)
    BY <2>2, <2>3, <2>4 DEF Retry
  <2> QED  BY <2>1, <2>4, <2>5, BecomesRetry
<1>10. CASE c.idle
  <2>1. Become(Activate(q))
    BY <1>1, <1>3, <1>10 DEF Wake
  <2>2. Steady(q.c, q.wsd) /\ ~c.active
    BY <1>0, <1>6, <1>7, <1>10 DEF Touched, Steady
  <2>3. q.wsd = wsd /\ q.c.slurp = c.slurp /\ (q.c.slurp # <<>> \/ c.slurp = <<>>)
    BY <1>0, <1>6 DEF Touched
  <2>4. Retry(Activate(q), c.slurp)
    <3>1. CASE c.sock = "open" \/ c.recycling
      <4>1. q.c.stale \/ Ordinary(q.c, wsd.state, c.slurp \o wsd.wire)
        BY <1>0, <1>6, <1>7, <1>10, <3>1 DEF Touched, Ordinary, Loading, Excused
      <4>2. Retry(q, c.slurp)
        BY <2>2, <2>3, <4>1 DEF Retry
      <4> QED  BY <1>8, <2>3, <4>2, ActivateRetry
    <3>2. CASE c.sock # "open" /\ ~c.recycling
      <4>1. Activate(q) = LoadDocument(q)
        BY <1>0, <1>6, <2>2, <3>2 DEF Touched, Activate
      <4>2. ~q.c.recycling
        BY <1>0, <1>6, <3>2 DEF Touched
      <4> QED  BY <1>8, <2>2, <2>3, <4>1, <4>2, LoadRetry
    <3> QED  BY <3>1, <3>2
  <2>5. Shape(Activate(q), q)
    BY <1>8, ShapeActivate
  <2> QED  BY <2>1, <2>3, <2>4, <2>5, BecomesRetry DEF Shape
<1> QED  BY <1>9, <1>10

(* The user enters the password or cancels. *)
LEMMA AnswerKeeps == ASSUME Inv, Retry(Now, c.slurp), Answer PROVE Retry(Now, c.slurp)'
<1>0. Now.c = c /\ Now.wsd = wsd /\ Formed(Now) /\ Shape(Now, Now)
  BY Standing
<1>1. PICK p : p = [Now EXCEPT !.c.asking = FALSE]
  OBVIOUS
<1>2. Sound(p, Now.c.slurp, used) /\ Shape(p, Now)
  BY <1>1, Standing, WokenSound, Zenon
<1>3. PICK q : q = [p EXCEPT !.c.error = TRUE]
  OBVIOUS
<1>4. Sound(q, Now.c.slurp, used) /\ Shape(q, p)
  BY <1>2, <1>3, WokenSound, Zenon
<1>5. Touched(p, Now) /\ p.c.idle = c.idle /\ p.c.dimmed = c.dimmed /\ p.c.error = c.error
  BY <1>0, <1>1 DEF Formed, PageFields, Touched
<1>6. Touched(q, Now) /\ q.c.idle = c.idle /\ q.c.dimmed = c.dimmed /\ q.c.error = TRUE
  <2>1. Touched(q, p) /\ q.c.idle = p.c.idle /\ q.c.dimmed = p.c.dimmed /\ q.c.error = TRUE
    BY <1>2, <1>3 DEF Shape, PageFields, Touched
  <2> QED  BY <1>5, <2>1 DEF Touched
<1>7. Steady(c, wsd) /\ (c.stale \/ Ordinary(c, wsd.state, c.slurp \o wsd.wire))
  BY <1>0 DEF Retry
<1>8. Formed(p) /\ Shape(p, p)
  BY <1>2 DEF Sound, Shape
<1>9. CASE Become(LoadDocument(p))
  <2>1. Steady(p.c, p.wsd) /\ p.c.slurp = c.slurp
    BY <1>0, <1>5, <1>7 DEF Touched, Steady
  <2>2. p.c.stale \/ (p.c.recycling => p.c.interval # "none")
    BY <1>0, <1>5, <1>7 DEF Touched, Ordinary
  <2>3. Retry(LoadDocument(p), c.slurp)
    BY <1>8, <2>1, <2>2, LoadRetry
  <2>4. Shape(LoadDocument(p), p)
    BY <1>8, ShapeLoad
  <2> QED  BY <1>9, <2>1, <2>3, <2>4, BecomesRetry DEF Shape
<1>10. CASE Become(q)
  <2>1. Steady(q.c, q.wsd)
    BY <1>0, <1>6, <1>7 DEF Touched, Steady
  <2>2. Excused(q.c)
    BY <1>6 DEF Excused
  <2>3. q.c.stale \/ Ordinary(q.c, wsd.state, c.slurp \o wsd.wire)
    BY <1>0, <1>6, <1>7, <2>2 DEF Touched, Ordinary, Loading
  <2>4. q.wsd = wsd /\ q.c.slurp = c.slurp
    BY <1>0, <1>6 DEF Touched
  <2>5. Retry(q, c.slurp)
    BY <2>1, <2>3, <2>4 DEF Retry
  <2> QED  BY <1>10, <2>4, <2>5, BecomesRetry
<1>11. Become(LoadDocument(p)) \/ Become(q)
  BY <1>1, <1>3 DEF Answer
<1> QED  BY <1>9, <1>10, <1>11

(* What wsd says in the state st, and its next state. *)
Speaks(st, k, new) ==
    \/ st = "loading" /\ k = "ready" /\ new = "joined"
    \/ st = "loading" /\ k \in {"unloading", "failed", "limit", "password"} /\ new = "ended"
    \/ st = "joined" /\ k = "status" /\ new = "loaded"
    \/ st \in {"joined", "loaded"} /\ k = "view" /\ new = st
    \/ st = "loaded" /\ k \in {"image", "saveas"} /\ new = "loaded"
    \/ st = "loaded" /\ k = "block" /\ new = "blocking"
    \/ st = "blocking" /\ k = "unblock" /\ new = "loaded"
    \/ st \in {"joined", "loaded"} /\ k \in {"idle", "recycling", "reload"} /\ new = "ended"

(* wsd says one word more. *)
LEMMA SpeaksKeeps ==
    ASSUME Inv, Retry(Now, c.slurp), NEW m \in Message, NEW new, Say(<<m>>, new), c' = c,
           Speaks(wsd.state, m.k, new)
    PROVE  Retry(Now, c.slurp)'
<1>0. Now.c = c /\ Now.wsd = wsd /\ Session(wsd) /\ c.slurp \in Seq(Message) /\ wsd.wire \in Seq(Message)
  BY Standing DEF Formed
<1>1. Steady(c, wsd) /\ (c.stale \/ Ordinary(c, wsd.state, c.slurp \o wsd.wire))
  BY <1>0 DEF Retry
<1>2. wsd.state \notin {"none", "ended"} /\ c.sock = "open"
  <2>1. wsd.state \notin {"none", "ended"}
    BY DEF Speaks
  <2> QED  BY <1>1, <2>1 DEF Steady
<1>3. PICK w \in Seq(Message) : w = Append(wsd.wire, m) /\ wsd.wire \o <<m>> = w
  BY <1>0, AppendParts, AppendIsConcat
<1>4. wsd'.wire = w /\ wsd'.state = new
  BY <1>0, <1>3 DEF Say, Session
<1>5. PICK q \in Seq(Message) : q = c.slurp \o wsd.wire
  BY <1>0, ConcatProperties
<1>6. c.slurp \o w = Append(q, m)
  <2>1. PICK x \in Seq(Message), y \in Seq(Message), z \in Seq(Message) : x = c.slurp /\ y = wsd.wire /\ z = <<m>>
    <3>1. <<m>> \in Seq(Message)
      OBVIOUS
    <3> QED  BY ONLY <1>0, <3>1, Zenon
  <2>2. (x \o y) \o z = x \o (y \o z)
    BY ConcatAssociative
  <2>3. Append(q, m) = q \o z /\ w = y \o z /\ q = x \o y
    BY <1>3, <1>5, <2>1, AppendIsConcat
  <2> QED  BY <2>1, <2>2, <2>3
<1>7. Steady(c, wsd')
  BY <1>1, <1>2 DEF Steady
<1>8. ASSUME ~c.stale PROVE Ordinary(c, new, Append(q, m))
  <2>1. Ordinary(c, wsd.state, q)
    BY <1>1, <1>5, <1>8
  <2>2. ~c.recycling /\ ~c.idle /\ Script(q, wsd.state)
    BY <1>2, <2>1 DEF Ordinary
  <2>3. ASSUME NEW i \in DOMAIN q PROVE ~NeverAfter(q[i].k, m.k) /\ Word(q[i].k, new)
    <3>1. Word(q[i].k, wsd.state)
      BY <2>2 DEF Script
    <3>2. PICK a : a = q[i].k
      OBVIOUS
    <3>3. a \notin LastWords
      BY <1>2, <3>1, <3>2 DEF Word
    <3>4. ~NeverAfter(a, m.k)
      BY <3>1, <3>2, <3>3 DEF Word, NeverAfter, Speaks
    <3>5. Word(a, new)
      BY <3>1, <3>2, <3>3 DEF Word, Speaks
    <3> QED  BY <3>2, <3>4, <3>5
  <2>4. /\ Word(m.k, new) /\ (m.k = "block" => new = "blocking")
        /\ wsd.state = "blocking" => new = "blocking" \/ m.k = "unblock"
    BY DEF Speaks, Word, LastWords
  <2>5. /\ Script(Append(q, m), new)
        /\ \A k : Has(Append(q, m), k) <=> Has(q, k) \/ k = m.k
    BY <2>2, <2>3, <2>4, ScriptAppend
  <2>6. Loading(c, new, Append(q, m)) => Loading(c, wsd.state, q)
    BY <1>2, <2>5 DEF Loading, Speaks
  <2>7. ASSUME c.blocked
        PROVE  /\ ~Has(Append(q, m), "status") /\ ~Has(Append(q, m), "ready")
               /\ new \notin {"loading", "joined"}
               /\ new = "blocking" \/ Has(Append(q, m), "unblock")
    <3>1. /\ ~Has(q, "status") /\ ~Has(q, "ready") /\ wsd.state \notin {"loading", "joined"}
          /\ wsd.state = "blocking" \/ Has(q, "unblock")
      BY <2>1, <2>7 DEF Ordinary
    <3> QED  BY <2>5, <3>1 DEF Speaks
  <2> QED  BY <1>2, <2>1, <2>2, <2>5, <2>6, <2>7 DEF Ordinary
<1>9. PICK n : n = [c |-> c, wsd |-> wsd']
  OBVIOUS
<1>10. n.c = c /\ n.wsd = wsd'
  BY <1>9
<1>11. Retry(n, c.slurp)
  BY <1>4, <1>6, <1>7, <1>8, <1>10 DEF Retry
<1> QED  BY <1>10, <1>11, BecomesRetry DEF Become

(* wsd drops the connection without a word. *)
LEMMA DropKeeps ==
    ASSUME Inv, Retry(Now, c.slurp), Say(<<>>, "ended"), c' = c, wsd.state \in {"joined", "loaded"}
    PROVE  Retry(Now, c.slurp)'
<1>0. Now.c = c /\ Now.wsd = wsd /\ Session(wsd) /\ wsd.wire \in Seq(Message)
  BY Standing DEF Formed
<1>1. Steady(c, wsd) /\ (c.stale \/ Ordinary(c, wsd.state, c.slurp \o wsd.wire))
  BY <1>0 DEF Retry
<1>2. wsd'.wire = wsd.wire /\ wsd'.state = "ended"
  <2>1. wsd.wire \o <<>> = wsd.wire
    BY <1>0, ConcatEmptySeq
  <2> QED  BY <1>0, <2>1 DEF Say, Session
<1>3. c.sock = "open"
  BY <1>1 DEF Steady
<1>4. Steady(c, wsd')
  BY <1>1, <1>2, <1>3 DEF Steady
<1>5. PICK q : q = c.slurp \o wsd.wire
  OBVIOUS
<1>6. ASSUME Ordinary(c, wsd.state, q) PROVE Ordinary(c, "ended", q)
  <2>1. Script(q, wsd.state)
    BY <1>6 DEF Ordinary
  <2>2. Script(q, "ended")
    BY <2>1 DEF Script, Word
  <2> QED  BY <1>3, <1>6, <2>2 DEF Ordinary, Loading
<1>7. PICK n : n = [c |-> c, wsd |-> wsd']
  OBVIOUS
<1>8. n.c = c /\ n.wsd = wsd'
  BY <1>7
<1>9. Retry(n, c.slurp)
  BY <1>1, <1>2, <1>4, <1>5, <1>6, <1>8 DEF Retry
<1> QED  BY <1>8, <1>9, BecomesRetry DEF Become

(* Steps of wsd. *)
LEMMA WsdKeeps ==
    ASSUME Inv, Retry(Now, c.slurp), Server \/ WsdRefuse \/ WsdEnd
    PROVE  Retry(Now, c.slurp)'
<1>1. CASE Server /\ ~WsdView
  <2>1. /\ c' = c
        /\ \E k \in {"ready", "status", "image", "saveas", "block", "unblock"}, new \in States :
              Say(<<Msg(k)>>, new) /\ Speaks(wsd.state, k, new)
    BY <1>1 DEF Server, WsdReady, WsdStatus, WsdImage, WsdSaveAs, WsdBlock, WsdUnblock, Speaks, States
  <2>2. PICK k \in {"ready", "status", "image", "saveas", "block", "unblock"}, new \in States :
              Say(<<Msg(k)>>, new) /\ Speaks(wsd.state, k, new)
    BY <2>1
  <2>3. PICK m \in Message : m = Msg(k) /\ m.k = k
    BY Words
  <2> QED  BY <2>1, <2>2, <2>3, SpeaksKeeps
<1>2. CASE WsdView
  <2> PICK b \in BOOLEAN : Say(<<[k |-> "view", n |-> used["views"], delays |-> b]>>, wsd.state)
    BY <1>2 DEF WsdView
  <2>1. c' = c /\ wsd.state \in {"joined", "loaded"}
    BY <1>2 DEF WsdView
  <2>2. used["views"] \in 0..MaxViews
    BY Standing DEF Bounds
  <2>3. PICK m \in Message : m = [k |-> "view", n |-> used["views"], delays |-> b] /\ m.k = "view"
    <3>1. ASSUME NEW v \in 0..MaxViews PROVE [k |-> "view", n |-> v, delays |-> b] \in Message
      BY DEF Message
    <3> QED  BY <2>2, <3>1
  <2>4. Speaks(wsd.state, m.k, wsd.state)
    BY <2>1, <2>3 DEF Speaks
  <2> QED  BY <2>1, <2>3, <2>4, SpeaksKeeps
<1>3. CASE WsdRefuse
  <2>1. PICK k \in Refusals : Say(<<Msg(k)>>, "ended") /\ wsd.state = "loading" /\ c' = c
    BY <1>3 DEF WsdRefuse
  <2>2. k \in {"unloading", "failed", "limit", "password"}
    BY <2>1, ConnectionAssumption
  <2>3. PICK m \in Message : m = Msg(k) /\ m.k = k
    BY <2>2, Words
  <2>4. Speaks(wsd.state, m.k, "ended")
    BY <2>1, <2>2, <2>3 DEF Speaks
  <2> QED  BY <2>1, <2>3, <2>4, SpeaksKeeps
<1>4. CASE WsdEnd
  <2>1. PICK k \in Endings : Say(IF k = "drop" THEN <<>> ELSE <<Msg(k)>>, "ended")
    BY <1>4 DEF WsdEnd
  <2>2. k \in {"idle", "recycling", "reload", "drop"} /\ c' = c /\ wsd.state \in {"joined", "loaded"}
    BY <1>4, <2>1, ConnectionAssumption DEF WsdEnd
  <2>3. CASE k = "drop"
    BY <2>1, <2>2, <2>3, DropKeeps
  <2>4. CASE k # "drop"
    <3>1. PICK m \in Message : m = Msg(k) /\ m.k = k
      BY <2>2, <2>4, Words
    <3>2. Speaks(wsd.state, m.k, "ended") /\ Say(<<m>>, "ended")
      BY <2>1, <2>2, <2>4, <3>1 DEF Speaks
    <3> QED  BY <2>2, <3>1, <3>2, SpeaksKeeps
  <2> QED  BY <2>3, <2>4
<1> QED  BY <1>1, <1>2, <1>3, <1>4

(* The page, with the retries. *)
RetryInv == Inv /\ Retry(Now, c.slurp)

(* The page starts with its first attempt to connect. *)
LEMMA RetryInit == Init => RetryInv
<1> SUFFICES ASSUME Init PROVE RetryInv
  OBVIOUS
<1>1. /\ c.sock = "connecting" /\ c.active = TRUE /\ c.recycling = FALSE /\ c.idle = FALSE
      /\ c.reconnecting = FALSE /\ c.count = 0 /\ c.interval = "none" /\ c.timers = <<>>
      /\ c.fatal = FALSE /\ c.docLayer = FALSE /\ c.blocked = FALSE
      /\ c.slurp = <<>> /\ wsd = Nobody
  BY DEF Init
<1>2. Now.c = c /\ Now.wsd = wsd /\ Nobody.wire = <<>> /\ Nobody.state = "none"
  BY DEF Now, Nobody
<1>3. ~Closes(<<>>) /\ <<>> \o <<>> = <<>>
  <2>1. <<>> \o <<>> = <<>>
    BY ConcatEmptySeq, EmptySeq
  <2> QED  BY <2>1 DEF Closes
<1>4. Steady(c, wsd)
  BY <1>1, <1>2, <1>3 DEF Steady
<1>5. Ordinary(c, "none", <<>>)
  BY <1>1, ScriptEmpty DEF Ordinary
<1>6. Retry(Now, c.slurp)
  BY <1>1, <1>2, <1>3, <1>4, <1>5 DEF Retry
<1> QED  BY <1>6, InvInit DEF RetryInv

(* Every step keeps the invariant. *)
LEMMA RetryNext == RetryInv /\ [Next]_vars => RetryInv'
<1>1. ASSUME Inv, [Next]_vars PROVE Inv'
  BY <1>1, InvNext
<1>2. ASSUME Inv, Retry(Now, c.slurp), Page PROVE Retry(Now, c.slurp)'
  BY <1>2, OpenKeeps, ReceiveKeeps, ClosingKeeps, CloseKeeps, TimerKeeps, IntervalKeeps, ImageKeeps DEF Page
<1>3. ASSUME Inv, Retry(Now, c.slurp), User PROVE Retry(Now, c.slurp)'
  BY <1>3, UserKeeps, WakeKeeps, AnswerKeeps DEF User
<1>4. ASSUME Inv, Retry(Now, c.slurp), Server \/ Faults PROVE Retry(Now, c.slurp)'
  BY <1>4, CloseKeeps, WsdKeeps DEF Faults
<1>5. ASSUME Retry(Now, c.slurp), UNCHANGED vars PROVE Retry(Now, c.slurp)'
  BY <1>5 DEF vars, Now
<1> QED  BY <1>1, <1>2, <1>3, <1>4, <1>5 DEF Next, RetryInv

(* A page that stays without a connection has tried to get one since the    *)
(* document was last loaded, or has told the user why it does not; the      *)
(* exceptions are the two that the property names (_onSocketClose(),        *)
(* _onMessage(), sendMessage(), _onStatusMsg()).                            *)
THEOREM PageNotStranded == Spec => []NeverStranded
<1>1. RetryInv => NeverStranded
  <2> SUFFICES ASSUME RetryInv, Quiet, c.sock = "closed",
                      ~(c.tried \/ c.error \/ c.asking \/ (c.idle /\ c.dimmed) \/ c.leftover \/ c.stale)
               PROVE  FALSE
    BY DEF NeverStranded
  <2>1. Now.c = c /\ Now.wsd = wsd
    BY DEF Now
  <2>2. Ordinary(c, wsd.state, c.slurp \o wsd.wire)
    BY <2>1 DEF RetryInv, Retry
  <2>3. ~Closes(c.timers)
    BY DEF Quiet, Closes
  <2> QED  BY <2>2, <2>3 DEF Ordinary, Excused, Quiet
<1>2. Spec => []RetryInv
  BY RetryInit, RetryNext, PTL DEF Spec
<1> QED  BY <1>1, <1>2, PTL
==============================================================================
