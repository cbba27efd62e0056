------------------------ MODULE DocumentBrokerProofs ------------------------
(***************************************************************************)
(* Proofs about DocumentBroker for every number of sessions, every choice  *)
(* of writers, owners and configuration flags, every set of events and     *)
(* timers and every bound.                                                 *)
(*                                                                         *)
(* The handlers of the broker are operators on its record, so the proofs   *)
(* follow the call graph: for each operator one lemma that says that it    *)
(* keeps the record well formed (IsBroker), the activity backed by the     *)
(* operation it stands for and an upload by its session (Sound).  The      *)
(* theorems then only look at what each action applies.                    *)
(***************************************************************************)
EXTENDS DocumentBroker, WellFoundedInduction, TLAPS

SaveBacked(b) == b.activity = "Save" => b.saving
RenameBacked(b) == b.activity = "Rename" => b.renameSession # 0
FlightBacked(b) == IsAsyncUploading(b) => b.request.sess \in Sessions

(* What every handler preserves, and what holds even between the result of a
   save and the end of Activity::Save. *)
Held(b) == IsBroker(b) /\ RenameBacked(b) /\ FlightBacked(b)
Sound(b) == Held(b) /\ SaveBacked(b)
-----------------------------------------------------------------------------
(* The least and the greatest session of a set. *)

LEMMA LeastExists ==
    ASSUME NEW S, S \subseteq Nat, S # {}
    PROVE  \E s \in S : \A r \in S : s <= r
<1> DEFINE R == {p \in Nat \X Nat : p[1] < p[2]}
<1>1. OpToRel(<, Nat) = R
  BY DEF OpToRel
<1>2. IsWellFoundedOn(R, Nat)
  BY <1>1, NatLessThanWellFounded
<1>3. \E x \in S : \A y \in S : ~(<<y, x>> \in R)
  BY <1>2, WFMin, Zenon
<1>4. PICK x \in S : \A y \in S : ~(<<y, x>> \in R)
  BY <1>3
<1>5. ASSUME NEW y \in S PROVE x <= y
  <2>1. <<y, x>> \notin R
    BY <1>4
  <2>2. y \in Nat /\ x \in Nat
    BY <1>4
  <2>3. <<y, x>> \in Nat \X Nat /\ <<y, x>>[1] = y /\ <<y, x>>[2] = x
    BY <2>2
  <2>4. ~(y < x)
    BY <2>1, <2>3
  <2> QED  BY <2>2, <2>4
<1> QED  BY <1>5

LEMMA GreatestExists ==
    ASSUME NEW N \in Nat, NEW S, S \subseteq 0..N, S # {}
    PROVE  \E s \in S : \A r \in S : r <= s
<1> DEFINE T == {N - s : s \in S}
<1>1. T \subseteq Nat /\ T # {}
  <2>1. PICK s \in S : TRUE
    OBVIOUS
  <2>2. N - s \in T
    BY <2>1
  <2>3. ASSUME NEW k \in S PROVE N - k \in Nat
    <3>1. k \in 0..N
      OBVIOUS
    <3> QED  BY <3>1
  <2> QED  BY <2>2, <2>3
<1>2. PICK m \in T : \A k \in T : m <= k
  <2> HIDE DEF T
  <2> QED  BY <1>1, LeastExists
<1>3. PICK s \in S : m = N - s
  BY <1>2
<1>4. ASSUME NEW r \in S PROVE r <= s
  <2>1. N - s <= N - r
    BY <1>2, <1>3
  <2> QED  BY <2>1
<1> QED  BY <1>4

LEMMA FirstIsMember ==
    ASSUME NEW S, S \subseteq Sessions, S # {}
    PROVE  First(S) \in S
<1>1. S \subseteq Nat
  BY NSessionsAssumption DEF Sessions
<1>2. \E s \in S : \A r \in S : s <= r
  BY <1>1, LeastExists
<1> QED  BY <1>2 DEF First

LEMMA LastIsMember ==
    ASSUME NEW S, S \subseteq Sessions, S # {}
    PROVE  Last(S) \in S
<1>1. S \subseteq 0..NSessions /\ NSessions \in Nat
  BY NSessionsAssumption DEF Sessions
<1>2. \E s \in S : \A r \in S : r <= s
  BY <1>1, GreatestExists
<1> QED  BY <1>2 DEF Last

LEMMA SessionNumbers ==
    /\ Sessions \subseteq 0..NSessions
    /\ 0 \in 0..NSessions
    /\ 0 \notin Sessions
BY NSessionsAssumption DEF Sessions

LEMMA InMapSessions == ASSUME NEW b PROVE InMap(b) \subseteq Sessions
BY DEF InMap

LEMMA GetWriteableSessionType ==
    ASSUME NEW b
    PROVE  /\ GetWriteableSession(b) \in InMap(b) \cup {0}
           /\ InMap(b) # {} => GetWriteableSession(b) \in InMap(b)
<1> DEFINE owned == InMap(b) \cap Owners
           able  == {s \in InMap(b) \cap b.writable : b.sess[s] = "LIVE" /\ s \notin b.expired}
<1>1. owned # {} => First(owned) \in owned
  BY InMapSessions, FirstIsMember
<1>2. able # {} => Last(able) \in able
  <2>1. able \subseteq Sessions
    BY InMapSessions
  <2> QED  BY <2>1, LastIsMember
<1>3. InMap(b) # {} => First(InMap(b)) \in InMap(b)
  BY InMapSessions, FirstIsMember
<1> QED  BY <1>1, <1>2, <1>3 DEF GetWriteableSession
-----------------------------------------------------------------------------
(* Elementary steps.  The definition of the record is expanded here only. *)

USE DEF IsBroker, Fields, DocumentState, SaveManager, StorageManager,
        ClientSessions, PollThread, Sound, Held, SaveBacked, RenameBacked, FlightBacked,
        IsAsyncUploading

LEMMA StopSound == ASSUME NEW b, Sound(b) PROVE Sound(Stop(b))
BY DEF Stop

LEMMA MarkToDestroySound == ASSUME NEW b, Sound(b) PROVE Sound(MarkToDestroy(b))
BY DEF MarkToDestroy, Statuses

LEMMA AppendRequest ==
    ASSUME NEW q \in Seq(KitRequest), NEW m \in KitRequest
    PROVE  Append(q, m) \in Seq(KitRequest)
OBVIOUS

LEMMA RequestType ==
    ASSUME NEW s \in Sessions, NEW dsiu \in BOOLEAN,
           NEW type \in {"session", "load", "edit", "save", "disconnect"}
    PROVE  [type |-> type, sess |-> s, dsiu |-> dsiu] \in KitRequest
BY DEF KitRequest

LEMMA ForwardToChildSound ==
    ASSUME NEW b, Sound(b), NEW type, NEW s, NEW dsiu,
           [type |-> type, sess |-> s, dsiu |-> dsiu] \in KitRequest
    PROVE  Sound(ForwardToChild(b, type, s, dsiu))
<1> DEFINE m == [type |-> type, sess |-> s, dsiu |-> dsiu]
           q == Append(b.toKit, m)
<1>1. m \in KitRequest
  OBVIOUS
<1>2. q \in Seq(KitRequest)
  BY <1>1, AppendRequest
<1>3. Sound([b EXCEPT !.toKit = q])
  <2> HIDE DEF q
  <2> QED  BY <1>2
<1> QED  BY <1>3 DEF ForwardToChild

LEMMA CappedCount ==
    ASSUME NEW n \in Nat
    PROVE  Min2(n + 1, LimStoreFailures) \in Nat /\ 0 \in Nat
BY LimitAssumption DEF Min2

(* The result of a save: the request is closed, so that Activity::Save, if it
   is still set, has lost its backing until the caller ends it. *)
LEMMA SetLastSaveResultHeld ==
    ASSUME NEW b, Held(b), NEW ok \in BOOLEAN
    PROVE  Held(SetLastSaveResult(b, ok))
<1> DEFINE n == IF ok THEN 0 ELSE Min2(b.saveFailures + 1, LimStoreFailures)
<1>1. n \in Nat
  BY CappedCount
<1>2. SetLastSaveResult(b, ok) = [b EXCEPT !.saving = FALSE, !.saveFailures = n]
  BY DEF SetLastSaveResult
<1> HIDE DEF n
<1> QED  BY <1>1, <1>2

LEMMA SetLastUploadResultSound ==
    ASSUME NEW b, Sound(b), NEW ok \in BOOLEAN
    PROVE  Sound(SetLastUploadResult(b, ok))
<1> DEFINE n == IF ok THEN 0 ELSE Min2(b.uploadFailures + 1, LimStoreFailures)
<1>1. n \in Nat
  BY CappedCount
<1>2. SetLastUploadResult(b, ok) = [b EXCEPT !.uploadActive = FALSE, !.uploadFailures = n]
  BY DEF SetLastUploadResult
<1> HIDE DEF n
<1> QED  BY <1>1, <1>2

LEMMA EndRenameFileCommandSound ==
    ASSUME NEW b, Held(b) PROVE Sound(EndRenameFileCommand(b))
BY SessionNumbers DEF EndRenameFileCommand, Activities

LEMMA SendUnoSaveSound ==
    ASSUME NEW b, Sound(b), NEW s \in Sessions, NEW dsiu \in BOOLEAN
    PROVE  Sound(SendUnoSave(b, s, dsiu))
<1> DEFINE c == ForwardToChild(b, "save", s, dsiu)
<1>1. Sound(c)
  <2> HIDE DEF Sound
  <2> QED  BY RequestType, ForwardToChildSound
<1>2. b.modified \/ b.modifyAfter \in BOOLEAN
  OBVIOUS
<1> HIDE DEF c
<1>3. Sound([c EXCEPT !.lastModified = 0, !.next = b.modified \/ b.modifyAfter,
                      !.saving = TRUE, !.activityAfter = FALSE, !.modifyAfter = FALSE,
                      !.activity = IF @ = "None" THEN "Save" ELSE @])
  BY <1>1, <1>2 DEF Activities
<1> QED  BY <1>3 DEF SendUnoSave, c

LEMMA FinalRemoveSessionSound ==
    ASSUME NEW b, Sound(b), NEW s PROVE Sound(FinalRemoveSession(b, s))
BY DEF FinalRemoveSession, SessionStates

LEMMA WaitDisconnectSound ==
    ASSUME NEW b, Sound(b), NEW s PROVE Sound([b EXCEPT !.sess[s] = "WAIT_DISCONNECT"])
BY DEF SessionStates

LEMMA TerminateChildSound ==
    ASSUME NEW b, Sound(b) PROVE Sound(TerminateChild(b))
BY DEF TerminateChild

LEMMA UnloadRequestSound ==
    ASSUME NEW b, Sound(b) PROVE Sound([b EXCEPT !.unloadRequested = TRUE])
OBVIOUS

(* An upload is started: the record that uploadToStorageInternal() leaves for
   the asynchronous request, and the request itself. *)
LEMMA RequestSound ==
    ASSUME NEW b, Sound(b), NEW s \in Sessions, NEW force \in BOOLEAN,
           NEW kind \in {"put", "rename"}, NEW notes \in SUBSET Notes
    PROVE  Sound([b EXCEPT !.request = [kind |-> kind, t |-> b.uploading.t, sess |-> s],
                           !.last = [um |-> b.cur.um, forced |-> b.cur.forced \/ force],
                           !.cur = NoAttrs,
                           !.next = FALSE,
                           !.uploadActive = TRUE,
                           !.seen = @ \cup notes])
<1> DEFINE r == [kind |-> kind, t |-> b.uploading.t, sess |-> s]
           a == [um |-> b.cur.um, forced |-> b.cur.forced \/ force]
<1>1. r \in Request /\ r.sess \in Sessions
  BY SessionNumbers DEF Request, File
<1>2. a \in Attributes /\ NoAttrs \in Attributes
  BY DEF Attributes, NoAttrs
<1> HIDE DEF r, a
<1>3. Sound([b EXCEPT !.request = r, !.last = a, !.cur = NoAttrs, !.next = FALSE,
                      !.uploadActive = TRUE, !.seen = @ \cup notes])
  BY <1>1, <1>2
<1> QED  BY <1>3 DEF r, a

LEMMA FlightSound ==
    ASSUME NEW b, Sound(b), b.request.sess \in Sessions,
           NEW kind \in {"put", "rename"}, NEW answered \in BOOLEAN
    PROVE  Sound([b EXCEPT !.flight = [kind |-> kind, t |-> b.uploading.t,
                                       v |-> b.uploading.v, forced |-> b.last.forced,
                                       answered |-> answered]])
<1> DEFINE f == [kind |-> kind, t |-> b.uploading.t, v |-> b.uploading.v,
                 forced |-> b.last.forced, answered |-> answered]
<1>1. f \in Flight
  BY DEF Flight, File, Attributes
<1> HIDE DEF f
<1>2. Sound([b EXCEPT !.flight = f])
  BY <1>1
<1> QED  BY <1>2 DEF f

LEMMA LandedSound ==
    ASSUME NEW b, Sound(b) PROVE Sound([b EXCEPT !.flight = NoFlight])
<1>1. NoFlight \in Flight /\ NoFlight.kind = "none"
  BY DEF NoFlight, Flight
<1> QED  BY <1>1

LEMMA MarkUploadedSound ==
    ASSUME NEW b, Sound(b) PROVE Sound(MarkUploaded(b))
<1>1. NoAttrs \in Attributes /\ b.request.t \in Nat
  BY DEF NoAttrs, Attributes, Request
<1> QED  BY <1>1 DEF MarkUploaded

LEMMA MergeType ==
    ASSUME NEW a \in Attributes, NEW lhs \in Attributes
    PROVE  Merge(a, lhs) \in Attributes
BY DEF Merge, Attributes

(* The answers of the host that change what may be uploaded next. *)
LEMMA ReadOnlySound ==
    ASSUME NEW b, Sound(b), NEW S PROVE Sound([b EXCEPT !.writable = @ \ S])
OBVIOUS

LEMMA ExpiredSound ==
    ASSUME NEW b, Sound(b), NEW s \in Sessions PROVE Sound([b EXCEPT !.expired = @ \cup {s}])
OBVIOUS

LEMMA ChangedInStorageSound ==
    ASSUME NEW b, Sound(b), NEW notes \in SUBSET Notes
    PROVE  Sound([b EXCEPT !.docChanged = TRUE, !.seen = @ \cup notes])
OBVIOUS

LEMMA AttrsBackSound ==
    ASSUME NEW b, Sound(b) PROVE Sound([b EXCEPT !.cur = Merge(@, b.last), !.last = NoAttrs])
<1>1. Merge(b.cur, b.last) \in Attributes
  BY MergeType
<1>2. NoAttrs \in Attributes
  BY DEF NoAttrs, Attributes
<1> QED  BY <1>1, <1>2

(* A save is answered: its attributes, then the file in .upload. *)
LEMMA SavedAttrsHeld ==
    ASSUME NEW b, Held(b), NEW um \in BOOLEAN
    PROVE  Held([b EXCEPT !.cur = Merge(@, [um |-> um, forced |-> FALSE]), !.next = FALSE])
<1>1. [um |-> um, forced |-> FALSE] \in Attributes
  BY DEF Attributes
<1>2. Merge(b.cur, [um |-> um, forced |-> FALSE]) \in Attributes
  BY <1>1, MergeType
<1> QED  BY <1>2

LEMMA TakeUploadHeld ==
    ASSUME NEW b, Held(b) PROVE Held([b EXCEPT !.uploading = b.upload, !.upload = NoFile])
<1>1. NoFile \in File
  BY DEF NoFile, File
<1> QED  BY <1>1

LEMMA QuarantineHeld ==
    ASSUME NEW b, Held(b) PROVE Held([b EXCEPT !.quarantine = @ \cup {b.uploading.v}])
<1>1. b.uploading.v \in Nat
  BY DEF File
<1> QED  BY <1>1

LEMMA EndSaveSound ==
    ASSUME NEW b, Held(b)
    PROVE  /\ Sound([b EXCEPT !.activity = "None"])
           /\ b.activity # "Save" => Sound(b)
BY DEF Activities

LEMMA GiveUpSavingSound ==
    ASSUME NEW b, Held(b) PROVE Sound(GiveUpSaving(b))
<1>1. Held(SetLastSaveResult(b, FALSE))
  <2> HIDE DEF Held
  <2> QED  BY SetLastSaveResultHeld
<1> QED
  <2> HIDE DEF Held, Sound
  <2> QED  BY <1>1, EndSaveSound DEF GiveUpSaving

(* Closing, activity and loading. *)
LEMMA CloseRequestedSound ==
    ASSUME NEW b, Sound(b)
    PROVE  Sound([b EXCEPT !.closeRequested = TRUE, !.closeReason = TRUE])
OBVIOUS

LEMMA KitGoneSound ==
    ASSUME NEW b, Sound(b) PROVE Sound([b EXCEPT !.disconnected = TRUE])
OBVIOUS

LEMMA UserActivitySound ==
    ASSUME NEW b, Sound(b), NEW s \in Sessions PROVE Sound(UserActivity(b, s))
BY SessionNumbers DEF UserActivity

LEMMA DiscardingSound ==
    ASSUME NEW b, Sound(b) PROVE Sound(Discarding(b))
BY DEF Discarding, Notes

LEMMA RenameRequestedSound ==
    ASSUME NEW b, Sound(b), NEW s \in Sessions
    PROVE  /\ Sound([b EXCEPT !.renameSession = s])
           /\ [b EXCEPT !.renameSession = s].renameSession = s
BY SessionNumbers

LEMMA RenameStartedSound ==
    ASSUME NEW b, Sound(b), b.renameSession # 0 PROVE Sound([b EXCEPT !.activity = "Rename"])
BY DEF Activities

LEMMA ViewLoadedSound ==
    ASSUME NEW b, Sound(b), NEW s PROVE Sound(ViewLoaded(b, s))
<1> DEFINE c == [b EXCEPT !.interactive = FALSE,
                          !.sess[s] = IF @ = "WAIT_DISCONNECT" THEN @ ELSE "LIVE"]
           f == [b.sess EXCEPT ![s] = IF @ = "WAIT_DISCONNECT" THEN @ ELSE "LIVE"]
<1>1. f \in [Sessions -> SessionStates]
  BY DEF SessionStates
<1>2. c = [b EXCEPT !.interactive = FALSE, !.sess = f]
  OBVIOUS
<1> HIDE DEF f, c
<1>3. Sound(c)
  <2>1. Sound([b EXCEPT !.interactive = FALSE, !.sess = f])
    BY <1>1
  <2> QED  BY <1>2, <2>1
<1>4. Sound([c EXCEPT !.loaded = TRUE, !.status = "Live"])
  BY <1>3 DEF Statuses
<1> QED
  <2> HIDE DEF Sound
  <2> QED  BY <1>3, <1>4 DEF ViewLoaded, c

LEMMA InteractiveSound ==
    ASSUME NEW b, Sound(b) PROVE Sound([b EXCEPT !.interactive = TRUE])
OBVIOUS

LEMMA ModifiedSound ==
    ASSUME NEW b, Sound(b), NEW flag \in BOOLEAN PROVE Sound([b EXCEPT !.modified = flag])
OBVIOUS

LEMMA SessionStateSound ==
    ASSUME NEW b, Sound(b), NEW s, NEW state \in SessionStates
    PROVE  Sound([b EXCEPT !.sess[s] = state])
OBVIOUS

LEMMA DownloadedSound ==
    ASSUME NEW b, Sound(b)
    PROVE  Sound([b EXCEPT !.status = "Loading", !.lastModified = 1, !.lastUploaded = 1])
BY DEF Statuses

LEMMA LoadRequestedSound ==
    ASSUME NEW b, Sound(b), NEW s \in Sessions
    PROVE  Sound([b EXCEPT !.docUrl = @ \cup {s}, !.activityAfter = TRUE])
OBVIOUS

LEMMA ModifyActivitySound ==
    ASSUME NEW b, Sound(b) PROVE Sound([b EXCEPT !.modifyAfter = TRUE])
OBVIOUS

LEMMA SocketClosedSound ==
    ASSUME NEW b, Sound(b), NEW s \in Sessions PROVE Sound([b EXCEPT !.closed = @ \cup {s}])
OBVIOUS

(* What the Kit, signals and the end of the thread change. *)
LEMMA RequestTakenSound ==
    ASSUME NEW b, Sound(b), b.toKit # <<>> PROVE Sound([b EXCEPT !.toKit = Tail(@)])
<1>1. Tail(b.toKit) \in Seq(KitRequest)
  OBVIOUS
<1> QED  BY <1>1

LEMMA FileLeftSound ==
    ASSUME NEW b, Sound(b), b.toKit # <<>>, NEW file \in File
    PROVE  Sound([b EXCEPT !.toKit = Tail(@), !.upload = IF Exists(file) THEN file ELSE @])
<1>1. Tail(b.toKit) \in Seq(KitRequest)
  OBVIOUS
<1> QED  BY <1>1

LEMMA KitLeftSound ==
    ASSUME NEW b, Sound(b), b.toKit # <<>>, NEW up \in BOOLEAN
    PROVE  Sound([b EXCEPT !.toKit = IF ~up THEN <<>> ELSE Tail(@), !.kitUp = up])
<1>1. Tail(b.toKit) \in Seq(KitRequest)
  OBVIOUS
<1> QED  BY <1>1

LEMMA SignalSound ==
    ASSUME NEW b, Sound(b)
    PROVE  Sound([b EXCEPT !.shutdown = TRUE]) /\ Sound([b EXCEPT !.terminate = TRUE])
OBVIOUS

LEMMA NotedSound ==
    ASSUME NEW b, Sound(b), NEW note \in Notes PROVE Sound([b EXCEPT !.seen = @ \cup {note}])
OBVIOUS

LEMMA LeftLoopSound ==
    ASSUME NEW b, Sound(b), NEW loss \in BOOLEAN
    PROVE  Sound([b EXCEPT !.phase = "flushing", !.dataLoss = loss])
BY DEF Phases

LEMMA FlushedSound ==
    ASSUME NEW b, Sound(b), NEW S \in SUBSET Sessions
    PROVE  Sound([b EXCEPT !.phase = "terminating", !.toShut = S])
BY DEF Phases

LEMMA ClientTakenSound ==
    ASSUME NEW b, Sound(b), NEW s PROVE Sound([b EXCEPT !.toShut = @ \ {s}])
OBVIOUS

LEMMA FinishedSound ==
    ASSUME NEW b, Sound(b), NEW q \in SUBSET Nat
    PROVE  Sound([b EXCEPT !.phase = "done", !.quarantine = q])
BY DEF Phases

HIDE DEF IsBroker, Fields, DocumentState, SaveManager, StorageManager,
         ClientSessions, PollThread, Sound, Held, SaveBacked, RenameBacked, FlightBacked,
        IsAsyncUploading
-----------------------------------------------------------------------------
(* The handlers, in the order of the calls. *)

LEMMA AutoSaveSound ==
    ASSUME NEW b, Sound(b), NEW force \in BOOLEAN, NEW dsiu \in BOOLEAN, NEW timers
    PROVE  Sound(AutoSave(b, force, dsiu, timers).b)
<1> DEFINE s == IF /\ b.lastEditing \in InMap(b) \cap b.writable
                   /\ b.sess[b.lastEditing] = "LIVE"
                THEN b.lastEditing
                ELSE GetWriteableSession(b)
<1>1. CanSaveToDisk(b) => s \in Sessions
  BY InMapSessions, GetWriteableSessionType DEF CanSaveToDisk
<1>2. CanSaveToDisk(b) => /\ Sound(SendUnoSave(b, s, dsiu))
                          /\ Sound(SendUnoSave(b, s, TRUE))
  <2> HIDE DEF s
  <2> QED  BY <1>1, SendUnoSaveSound
<1> QED  BY <1>2 DEF AutoSave

LEMMA DisconnectSessionInternalSound ==
    ASSUME NEW b, Sound(b), NEW s \in Sessions
    PROVE  Sound(DisconnectSessionInternal(b, s))
<1> DEFINE c == IF b.unloadRequested THEN MarkToDestroy(b) ELSE b
           d == IF ~c.loaded /\ InMap(c) = {} THEN TerminateChild(c) ELSE c
           w == [c EXCEPT !.sess[s] = "WAIT_DISCONNECT"]
<1>1. Sound(c)
  BY MarkToDestroySound
<1>2. Sound(d)
  <2> HIDE DEF c
  <2> QED  BY <1>1, TerminateChildSound
<1>3. Sound(w)
  <2> HIDE DEF c
  <2> QED  BY <1>1, WaitDisconnectSound
<1>4. Sound(ForwardToChild(w, "disconnect", s, FALSE))
  <2> HIDE DEF w
  <2> QED  BY <1>3, RequestType, ForwardToChildSound
<1>5. Sound(FinalRemoveSession(d, s))
  <2> HIDE DEF d
  <2> QED  BY <1>2, FinalRemoveSessionSound
<1> QED  BY <1>4, <1>5 DEF DisconnectSessionInternal

LEMMA AfterLastViewSound ==
    ASSUME NEW b, Sound(b), NEW active PROVE Sound(AfterLastView(b, active))
BY UnloadRequestSound, MarkToDestroySound DEF AfterLastView

LEMMA RemoveSessionSound ==
    ASSUME NEW b, Sound(b), NEW s \in Sessions PROVE Sound(RemoveSession(b, s))
<1> DEFINE save == AutoSave(b, IsPossiblyModified(b), ~AlwaysSaveOnExit, {})
           c == IF ~(s \in b.writable /\ ~HaveAnotherEditableSession(b, s))
                THEN DisconnectSessionInternal(b, s)
                ELSE IF b.saving THEN b
                ELSE IF save.sent THEN save.b
                ELSE DisconnectSessionInternal(save.b, s)
<1>1. IsPossiblyModified(b) \in BOOLEAN
  BY DEF IsPossiblyModified
<1>2. Sound(save.b)
  BY <1>1, FlagsAssumption, AutoSaveSound
<1>3. Sound(c)
  <2> HIDE DEF save
  <2> QED  BY <1>2, DisconnectSessionInternalSound
<1> HIDE DEF c
<1>4. Sound(AfterLastView(c, CountActiveSessions(b)))
  BY <1>3, AfterLastViewSound
<1> QED  BY <1>4 DEF RemoveSession, c

LEMMA AsyncUploadErrorSound ==
    ASSUME NEW b, Sound(b) PROVE Sound(AsyncUploadError(b))
<1> DEFINE c == SetLastUploadResult(b, FALSE)
<1>1. Sound(c)
  BY SetLastUploadResultSound
<1> HIDE DEF c
<1>2. Sound(EndRenameFileCommand(c))
  BY <1>1, EndRenameFileCommandSound DEF Sound
<1> QED  BY <1>1, <1>2 DEF AsyncUploadError, c

LEMMA UploadLocalFileToStorageAsyncSound ==
    ASSUME NEW b, Sound(b), b.request.sess \in Sessions,
           NEW kind \in {"put", "rename"}, NEW timers
    PROVE  Sound(UploadLocalFileToStorageAsync(b, kind, timers))
<1> DEFINE f == [kind |-> kind, t |-> b.uploading.t, v |-> b.uploading.v,
                 forced |-> b.last.forced,
                 answered |-> timers \cap {"noConnect", "httpThrown"} = {}]
           sent == [b EXCEPT !.flight = f]
<1>1. (timers \cap {"noConnect", "httpThrown"} = {}) \in BOOLEAN
  OBVIOUS
<1>2. Sound(sent)
  BY <1>1, FlightSound
<1>3. UploadLocalFileToStorageAsync(b, kind, timers) \in
        {AsyncUploadError(b), AsyncUploadError(sent), sent}
  BY DEF UploadLocalFileToStorageAsync
<1> HIDE DEF sent
<1> QED  BY <1>2, <1>3, AsyncUploadErrorSound

LEMMA WritableSessions ==
    ASSUME NEW b, Sound(b) PROVE b.writable \subseteq Sessions
BY DEF Sound, Held, IsBroker, ClientSessions

LEMMA UploadToStorageInternalSound ==
    ASSUME NEW b, Sound(b), NEW s, NEW kind \in {"put", "rename"},
           NEW force \in BOOLEAN, NEW timers
    PROVE  Sound(UploadToStorageInternal(b, s, kind, force, timers))
<1> DEFINE notes == IF IsAsyncUploading(b) THEN {"overlap"} ELSE {}
           c == [b EXCEPT !.request = [kind |-> kind, t |-> b.uploading.t, sess |-> s],
                          !.last = [um |-> b.cur.um, forced |-> b.cur.forced \/ force],
                          !.cur = NoAttrs,
                          !.next = FALSE,
                          !.uploadActive = TRUE,
                          !.seen = @ \cup notes]
<1>1. CASE s \in b.writable
  <2>1. s \in Sessions
    BY <1>1, WritableSessions
  <2>2. notes \in SUBSET Notes
    BY DEF Notes
  <2>3. Sound(c)
    <3> HIDE DEF notes
    <3> QED  BY <2>1, <2>2, RequestSound
  <2>4. c.request.sess \in Sessions
    BY <2>1 DEF Sound, Held, IsBroker, Fields
  <2>5. Sound(UploadLocalFileToStorageAsync(c, kind, timers))
    <3> HIDE DEF c
    <3> QED  BY <2>3, <2>4, UploadLocalFileToStorageAsyncSound
  <2> QED  BY <2>5 DEF UploadToStorageInternal
<1>2. CASE s \notin b.writable
  BY <1>2 DEF UploadToStorageInternal
<1> QED  BY <1>1, <1>2

LEMMA UploadToStorageSound ==
    ASSUME NEW b, Sound(b), NEW s, NEW force \in BOOLEAN, NEW timers
    PROVE  Sound(UploadToStorage(b, s, force, timers))
BY UploadToStorageInternalSound DEF UploadToStorage

LEMMA RenameInStorageSound ==
    ASSUME NEW b, Sound(b), NEW timers PROVE Sound(RenameInStorage(b, timers))
<1>1. Sound(UploadToStorageInternal(b, b.renameSession, "rename", FALSE, timers))
  BY UploadToStorageInternalSound
<1>2. Sound(EndRenameFileCommand(b))
  BY EndRenameFileCommandSound DEF Sound
<1> QED  BY <1>1, <1>2 DEF RenameInStorage

LEMMA StopAfterSavingSound ==
    ASSUME NEW b, Sound(b), NEW s \in Sessions PROVE Sound(StopAfterSaving(b, s))
<1> DEFINE c == IF IsMarkedToDestroy(b) \/ s \in b.closed
                THEN DisconnectSessionInternal(b, s) ELSE b
<1>1. Sound(c)
  BY DisconnectSessionInternalSound
<1> HIDE DEF c
<1>2. Sound(Stop(c))
  BY <1>1, StopSound
<1> QED  BY <1>1, <1>2 DEF StopAfterSaving, c

(* Activity::Save ends here, which is why its backing is not assumed. *)
LEMMA CheckAndUploadToStorageSound ==
    ASSUME NEW b, Held(b), NEW s \in Sessions, NEW timers
    PROVE  Sound(CheckAndUploadToStorage(b, s, timers))
<1> DEFINE need == NeedToUploadToStorage(b)
           c == IF b.activity = "Save" THEN [b EXCEPT !.activity = "None"] ELSE b
           d == IF need THEN UploadToStorage(c, s, FALSE, timers) ELSE c
<1>1. Sound(c)
  BY EndSaveSound
<1>2. b.activity = "Rename" => Sound(RenameInStorage(b, timers))
  BY EndSaveSound, RenameInStorageSound
<1> HIDE DEF c
<1>3. Sound(d)
  <2> HIDE DEF need
  <2> QED  BY <1>1, UploadToStorageSound
<1> HIDE DEF d
<1>4. Sound(StopAfterSaving(d, s))
  BY <1>3, StopAfterSavingSound
<1> QED  BY <1>1, <1>2, <1>3, <1>4 DEF CheckAndUploadToStorage, c, d

LEMMA HandleSaveResponseSound ==
    ASSUME NEW b, Held(b), NEW s \in Sessions, NEW result,
           NEW wasModified, NEW timers
    PROVE  Sound(HandleSaveResponse(b, s, result, wasModified, timers))
<1> DEFINE um == IF wasModified = "absent" THEN b.next ELSE wasModified = "true"
           a == [b EXCEPT !.cur = Merge(@, [um |-> um, forced |-> FALSE]), !.next = FALSE]
           c == SetLastSaveResult(a, result # "failed")
           d == IF Exists(c.upload)
                THEN [c EXCEPT !.uploading = c.upload, !.upload = NoFile] ELSE c
           e == IF Exists(d.uploading)
                THEN [d EXCEPT !.quarantine = @ \cup {d.uploading.v}] ELSE d
<1>1. um \in BOOLEAN
  BY DEF Held, IsBroker, StorageManager
<1>2. Held(a)
  <2> HIDE DEF um
  <2> QED  BY <1>1, SavedAttrsHeld
<1>3. Held(c)
  <2> HIDE DEF a
  <2>1. (result # "failed") \in BOOLEAN
    OBVIOUS
  <2> QED  BY <1>2, <2>1, SetLastSaveResultHeld
<1>4. Held(d)
  <2> HIDE DEF c
  <2> QED  BY <1>3, TakeUploadHeld
<1>5. Held(e)
  <2> HIDE DEF d
  <2> QED  BY <1>4, QuarantineHeld
<1> HIDE DEF e
<1>6. Sound(CheckAndUploadToStorage(e, s, timers))
  BY <1>5, CheckAndUploadToStorageSound
<1> QED  BY <1>6 DEF HandleSaveResponse, e

LEMMA UploadedToStorageSound ==
    ASSUME NEW b, Sound(b), NEW timers PROVE Sound(UploadedToStorage(b, timers))
<1> DEFINE put == MarkUploaded(b)
           c == IF b.request.kind = "rename" THEN EndRenameFileCommand(b)
                ELSE IF put.activity = "Rename" THEN RenameInStorage(put, timers)
                ELSE put
           d == IF c.unloadRequested THEN MarkToDestroy(c) ELSE c
<1>1. Sound(put)
  BY MarkUploadedSound
<1>2. Sound(EndRenameFileCommand(b))
  BY EndRenameFileCommandSound DEF Sound
<1> HIDE DEF put
<1>3. Sound(c)
  BY <1>1, <1>2, RenameInStorageSound
<1> HIDE DEF c
<1>4. Sound(d)
  BY <1>3, MarkToDestroySound
<1> HIDE DEF d
<1>5. Sound(Stop(d))
  BY <1>4, StopSound
<1> QED  BY <1>4, <1>5 DEF UploadedToStorage, put, c, d

LEMMA ConflictInStorageSound ==
    ASSUME NEW b, Sound(b) PROVE Sound(ConflictInStorage(b))
<1> DEFINE keep == b.last.um \/ b.cur.um \/ IsPossiblyModified(b)
           told == InMap(b) \ b.closed
           notes == IF ~keep /\ told # {} THEN {"reload"} ELSE {}
           c == [b EXCEPT !.docChanged = TRUE, !.seen = @ \cup notes]
<1>1. notes \in SUBSET Notes
  BY DEF Notes
<1>2. Sound(c)
  <2> HIDE DEF notes
  <2> QED  BY <1>1, ChangedInStorageSound
<1>3. Sound(Stop(c))
  <2> HIDE DEF c
  <2> QED  BY <1>2, StopSound
<1> QED  BY <1>2, <1>3 DEF ConflictInStorage

LEMMA FailedToUploadSound ==
    ASSUME NEW b, Sound(b), b.request.sess \in Sessions, NEW result
    PROVE  Sound(FailedToUpload(b, result))
<1> DEFINE c == IF result \in {"TOO_LARGE", "DISKFULL"}
                THEN [b EXCEPT !.writable = @ \ InMap(b)]
                ELSE IF result = "UNAUTHORIZED"
                THEN [b EXCEPT !.expired = @ \cup {b.request.sess}]
                ELSE IF result \in {"DOC_CHANGED", "CONFLICT"} THEN ConflictInStorage(b)
                ELSE b
<1>1. Sound(c)
  BY ReadOnlySound, ExpiredSound, ConflictInStorageSound
<1> HIDE DEF c
<1>2. Sound([c EXCEPT !.cur = Merge(@, c.last), !.last = NoAttrs])
  BY <1>1, AttrsBackSound
<1> QED  BY <1>2 DEF FailedToUpload, c

LEMMA HandleUploadToStorageResponseSound ==
    ASSUME NEW b, Sound(b), IsAsyncUploading(b), NEW result, NEW timers
    PROVE  Sound(HandleUploadToStorageResponse(b, result, timers))
<1> DEFINE a == [b EXCEPT !.flight = NoFlight]
           c == SetLastUploadResult(a, result = "OK")
<1>1. Sound(a)
  BY LandedSound
<1>2. Sound(c)
  <2> HIDE DEF a
  <2>1. (result = "OK") \in BOOLEAN
    OBVIOUS
  <2> QED  BY <1>1, <2>1, SetLastUploadResultSound
<1>3. c.request.sess \in Sessions
  BY DEF Sound, Held, IsBroker, Fields, FlightBacked, SetLastUploadResult
<1> HIDE DEF c
<1>4. Sound(UploadedToStorage(c, timers)) /\ Sound(FailedToUpload(c, result))
  BY <1>2, <1>3, UploadedToStorageSound, FailedToUploadSound
<1> QED  BY <1>4 DEF HandleUploadToStorageResponse, c

LEMMA StartRenameFileCommandSound ==
    ASSUME NEW b, Sound(b), b.renameSession # 0
    PROVE  Sound(StartRenameFileCommand(b))
<1> DEFINE c == [b EXCEPT !.activity = "Rename"]
<1>1. Sound(c)
  BY RenameStartedSound
<1> HIDE DEF c
<1>2. c.renameSession \in InMap(c) => Sound(SendUnoSave(c, c.renameSession, TRUE))
  BY <1>1, InMapSessions, SessionNumbers, SendUnoSaveSound
<1>3. Sound(EndRenameFileCommand(c))
  BY <1>1, EndRenameFileCommandSound DEF Sound
<1> QED  BY <1>2, <1>3 DEF StartRenameFileCommand, c

LEMMA CloseDocumentSound ==
    ASSUME NEW b, Sound(b) PROVE Sound(CloseDocument(b))
<1> DEFINE c == [b EXCEPT !.closeRequested = TRUE, !.closeReason = TRUE]
<1>1. Sound(c)
  BY CloseRequestedSound
<1> HIDE DEF c
<1> QED  BY <1>1, StopSound DEF CloseDocument, c

LEMMA DisconnectedFromKitSound ==
    ASSUME NEW b, Sound(b) PROVE Sound(DisconnectedFromKit(b))
<1> DEFINE c == [b EXCEPT !.disconnected = TRUE]
<1>1. Sound(c)
  BY KitGoneSound
<1> HIDE DEF c
<1> QED  BY <1>1, CloseDocumentSound DEF DisconnectedFromKit, c

LEMMA SaveBeforeStoppingSound ==
    ASSUME NEW b, Sound(b), NEW timers PROVE Sound(SaveBeforeStopping(b, timers))
<1> DEFINE save == AutoSave(b, IsPossiblyModified(b), TRUE, timers)
           s == GetWriteableSession(save.b)
<1>1. IsPossiblyModified(b) \in BOOLEAN
  BY DEF IsPossiblyModified
<1>2. Sound(save.b)
  BY <1>1, AutoSaveSound
<1> HIDE DEF save
<1>3. s # 0 => s \in Sessions
  BY GetWriteableSessionType, InMapSessions
<1>4. s # 0 => Sound(CheckAndUploadToStorage(save.b, s, timers))
  <2> HIDE DEF s
  <2> QED  BY <1>2, <1>3, CheckAndUploadToStorageSound DEF Sound
<1>5. Sound(Stop(save.b))
  BY <1>2, StopSound
<1> QED  BY <1>2, <1>4, <1>5 DEF SaveBeforeStopping, save

LEMMA AutoSaveAndStopSound ==
    ASSUME NEW b, Sound(b), NEW timers PROVE Sound(AutoSaveAndStop(b, timers))
BY StopSound, SaveBeforeStoppingSound DEF AutoSaveAndStop

LEMMA AddedSessionSound ==
    ASSUME NEW b, Sound(b), NEW s \in Sessions PROVE Sound(AddedSession(b, s))
<1> DEFINE c == IF HasStorage(b) THEN b
                ELSE [b EXCEPT !.status = "Loading", !.lastModified = 1, !.lastUploaded = 1]
           d == [c EXCEPT !.sess[s] = "LOADING"]
<1>1. Sound(c)
  BY DownloadedSound
<1> HIDE DEF c
<1>2. Sound(d)
  <2>1. "LOADING" \in SessionStates
    BY DEF SessionStates
  <2> QED  BY <1>1, <2>1, SessionStateSound
<1> HIDE DEF d
<1>3. Sound(ForwardToChild(d, "session", s, FALSE))
  BY <1>2, SessionNumbers, RequestType, ForwardToChildSound
<1> QED  BY <1>3 DEF AddedSession, c, d

LEMMA HandleKitToClientMessageSound ==
    ASSUME NEW b, Sound(b), NEW m \in KitAnswer, NEW timers
    PROVE  Sound(HandleKitToClientMessage(b, m, timers))
<1>1. m.type # "modified" => m.sess \in Sessions
  BY DEF KitAnswer
<1>2. Sound(ViewLoaded(b, m.sess))
  BY ViewLoadedSound
<1>3. Sound([b EXCEPT !.interactive = TRUE])
  BY InteractiveSound
<1>4. Sound([b EXCEPT !.modified = (m.flag = "true")])
  <2>1. (m.flag = "true") \in BOOLEAN
    OBVIOUS
  <2> QED  BY <2>1, ModifiedSound
<1>5. m.type = "saved" => Sound(HandleSaveResponse(b, m.sess, m.result, m.flag, timers))
  BY <1>1, HandleSaveResponseSound DEF Sound
<1>6. Sound(FinalRemoveSession(b, m.sess))
  BY FinalRemoveSessionSound
<1>7. m.type \in {"status", "jsdialog", "modified", "saved", "disconnected"}
  BY DEF KitAnswer
<1> QED  BY <1>2, <1>3, <1>4, <1>5, <1>6, <1>7 DEF HandleKitToClientMessage

LEMMA EndIterationSound ==
    ASSUME NEW b, Sound(b), NEW timers PROVE Sound(EndIteration(b, timers))
BY FinalRemoveSessionSound DEF EndIteration
-----------------------------------------------------------------------------
(* The inductive invariant: the type of the state, with a sound broker. *)

Inv == Sound(wsd) /\ TypeOK

LEMMA InvInit == Init => Inv
<1> SUFFICES ASSUME Init PROVE Inv
  OBVIOUS
<1>1. Sound(InitBroker)
  <2>1. NoAttrs \in Attributes /\ NoRequest \in Request /\ NoFlight \in Flight /\ NoFile \in File
    BY SessionNumbers DEF NoAttrs, Attributes, NoRequest, Request, NoFlight, Flight, NoFile, File
  <2>2. [s \in Sessions |-> "DETACHED"] \in [Sessions -> SessionStates]
    BY DEF SessionStates
  <2>3. 0 \in Nat
    OBVIOUS
  <2>4. NoFlight.kind = "none"
    BY DEF NoFlight
  <2> QED  BY <2>1, <2>2, <2>3, <2>4, SessionNumbers, WritersAssumption
           DEF Sound, Held, IsBroker, Fields, DocumentState, SaveManager, StorageManager,
               ClientSessions, PollThread, SaveBacked, RenameBacked, FlightBacked,
               IsAsyncUploading, InitBroker, Statuses, Activities, Phases
<1>2. kit \in KitState /\ toWsd \in Seq(KitAnswer) /\ storage \in StorageState
  BY DEF Init, KitState, File, StorageState
<1>3. budget \in 0..Budget
  BY BoundAssumption DEF Init
<1> QED  BY <1>1, <1>2, <1>3 DEF Init, Inv, TypeOK, Sound, Held

LEMMA SpendType ==
    ASSUME budget \in 0..Budget, NEW event, Spend(event) PROVE budget' \in 0..Budget
BY BoundAssumption DEF Spend

(* Sessions and commands: no action of a client touches Kit or host. *)
LEMMA ClientStepSound ==
    ASSUME Sound(wsd), NEW s \in Sessions,
           \/ CreateNewClientSession(s) \/ AddSession(s) \/ AddSessionFails(s)
           \/ LoadDocument(s) \/ Edit(s) \/ OtherActivity(s) \/ ManualSave(s)
           \/ SaveToStorage(s) \/ RenameFile(s) \/ CloseDocumentCommand(s)
           \/ VersionRestore(s) \/ ClientDisconnect(s)
    PROVE  Sound(wsd')
<1>0. s \in 0..NSessions /\ s # 0
  BY SessionNumbers
<1>1. CASE CreateNewClientSession(s)
  <2>1. "CREATED" \in SessionStates
    BY DEF SessionStates
  <2> QED  BY <1>1, <2>1, SessionStateSound DEF CreateNewClientSession
<1>2. CASE AddSession(s)
  BY <1>2, AddedSessionSound DEF AddSession
<1>3. CASE AddSessionFails(s)
  <2> DEFINE c == [wsd EXCEPT !.sess[s] = "REJECTED"]
  <2>1. Sound(c)
    <3>1. "REJECTED" \in SessionStates
      BY DEF SessionStates
    <3> QED  BY <3>1, SessionStateSound
  <2> HIDE DEF c
  <2>2. wsd' = IF InMap(c) = {} THEN MarkToDestroy(c) ELSE c
    BY <1>3 DEF AddSessionFails, c
  <2> QED  BY <2>1, <2>2, MarkToDestroySound
<1>4. CASE LoadDocument(s)
  <2> DEFINE c == [wsd EXCEPT !.docUrl = @ \cup {s}, !.activityAfter = TRUE]
  <2>1. Sound(c)
    BY LoadRequestedSound
  <2> HIDE DEF c
  <2> QED  BY <1>0, <1>4, <2>1, RequestType, ForwardToChildSound DEF LoadDocument, c
<1> DEFINE u == UserActivity(wsd, s)
<1>5. Sound(u)
  BY UserActivitySound
<1>6. CASE Edit(s)
  <2> DEFINE c == [u EXCEPT !.modifyAfter = TRUE]
  <2>1. Sound(c)
    <3> HIDE DEF u
    <3> QED  BY <1>5, ModifyActivitySound
  <2> HIDE DEF c
  <2> QED  BY <1>0, <1>6, <2>1, RequestType, ForwardToChildSound DEF Edit, c
<1>7. CASE OtherActivity(s)
  BY <1>5, <1>7 DEF OtherActivity
<1> HIDE DEF u
<1>8. CASE ManualSave(s)
  BY <1>0, <1>5, <1>8, SendUnoSaveSound DEF ManualSave, u
<1>9. CASE SaveToStorage(s)
  BY <1>5, <1>9, UploadToStorageSound DEF SaveToStorage, u
<1>10. CASE RenameFile(s)
  <2> DEFINE c == [u EXCEPT !.renameSession = s]
  <2>1. Sound(c) /\ c.renameSession = s
    BY <1>5, RenameRequestedSound
  <2> HIDE DEF c
  <2>2. Sound(StartRenameFileCommand(c))
    BY <1>0, <2>1, StartRenameFileCommandSound
  <2>3. wsd' \in {u, c, StartRenameFileCommand(c)}
    BY <1>10 DEF RenameFile, u, c
  <2> QED  BY <1>5, <2>1, <2>2, <2>3
<1> DEFINE k == Discarding(u)
<1>11. Sound(k)
  BY <1>5, DiscardingSound
<1> HIDE DEF k
<1>12. CASE CloseDocumentCommand(s)
  <2>1. wsd' \in {CloseDocument(k), Stop(k), k}
    BY <1>12 DEF CloseDocumentCommand, u, k
  <2> QED  BY <1>11, <2>1, CloseDocumentSound, StopSound
<1>13. CASE VersionRestore(s)
  BY <1>11, <1>13, CloseDocumentSound DEF VersionRestore, u, k
<1>14. CASE ClientDisconnect(s)
  <2> DEFINE r == RemoveSession(wsd, s)
  <2>1. Sound(r)
    BY <1>0, RemoveSessionSound
  <2> HIDE DEF r
  <2> QED  BY <1>14, <2>1, SocketClosedSound DEF ClientDisconnect, r
<1> QED  BY <1>1, <1>2, <1>3, <1>4, <1>6, <1>7, <1>8, <1>9, <1>10, <1>12, <1>13, <1>14

LEMMA AnswerType ==
    ASSUME toWsd \in Seq(KitAnswer), NEW type, NEW to, NEW s, NEW result, NEW flag,
           [type |-> type, to |-> to, sess |-> s, result |-> result, flag |-> flag] \in KitAnswer,
           Answer(type, to, s, result, flag)
    PROVE  toWsd' \in Seq(KitAnswer)
<1> DEFINE m == [type |-> type, to |-> to, sess |-> s, result |-> result, flag |-> flag]
<1>1. m \in KitAnswer
  OBVIOUS
<1>2. toWsd' = Append(toWsd, m)
  BY DEF Answer
<1> HIDE DEF m
<1> QED  BY <1>1, <1>2

(* The requests that name a session come from a session. *)
LEMMA KitReadsType ==
    ASSUME Sound(wsd), NEW type, KitReads(type)
    PROVE  /\ wsd.toKit # <<>>
           /\ type # "exit" => Head(wsd.toKit).sess \in Sessions
<1>1. wsd.toKit \in Seq(KitRequest) /\ wsd.toKit # <<>>
  BY DEF Sound, Held, IsBroker, PollThread, KitReads
<1>2. Head(wsd.toKit) \in KitRequest
  BY <1>1
<1> QED  BY <1>1, <1>2 DEF KitRequest, KitReads

(* The Kit: what it reads, and what it sends back. *)
LEMMA KitStepSound ==
    ASSUME Sound(wsd), kit \in KitState, toWsd \in Seq(KitAnswer),
           KitStep \/ KitDialog \/ KitStatus \/ KitNotifyModified \/ KitCrash
    PROVE  Sound(wsd') /\ kit' \in KitState /\ toWsd' \in Seq(KitAnswer)
<1> DEFINE s == Head(wsd.toKit).sess
           taken == [wsd EXCEPT !.toKit = Tail(@)]
<1>1. CASE KitSession
  <2>1. wsd.toKit # <<>> /\ s \in Sessions
    BY <1>1, KitReadsType DEF KitSession
  <2>2. Sound(taken)
    BY <2>1, RequestTakenSound
  <2>3. kit' \in KitState
    BY <1>1, <2>1 DEF KitSession, KitState
  <2> QED  BY <1>1, <2>2, <2>3 DEF KitSession
<1>2. CASE KitLoad
  <2>1. wsd.toKit # <<>> /\ s \in Sessions
    BY <1>2, KitReadsType DEF KitLoad
  <2>2. Sound(taken)
    BY <2>1, RequestTakenSound
  <2>3. kit' \in KitState
    BY <1>2, <2>1 DEF KitLoad, KitState
  <2>4. [type |-> "status", to |-> {s}, sess |-> s, result |-> "ok", flag |-> "absent"]
          \in KitAnswer
    BY <2>1 DEF KitAnswer, SaveResults
  <2>5. toWsd' \in Seq(KitAnswer)
    <3>1. Answer("status", {s}, s, "ok", "absent")
      BY <1>2 DEF KitLoad
    <3> HIDE DEF s
    <3> QED  BY <2>4, <3>1, AnswerType
  <2> QED  BY <1>2, <2>2, <2>3, <2>5 DEF KitLoad
<1>3. CASE KitDialog
  <2>1. wsd.toKit # <<>> /\ s \in Sessions
    BY <1>3, KitReadsType DEF KitDialog
  <2>2. [type |-> "jsdialog", to |-> {s}, sess |-> s, result |-> "ok", flag |-> "absent"]
          \in KitAnswer
    BY <2>1 DEF KitAnswer, SaveResults
  <2>3. toWsd' \in Seq(KitAnswer)
    <3>1. Answer("jsdialog", {s}, s, "ok", "absent")
      BY <1>3 DEF KitDialog
    <3> HIDE DEF s
    <3> QED  BY <2>2, <3>1, AnswerType
  <2> QED  BY <1>3, <2>3 DEF KitDialog
<1>4. CASE KitEdit
  <2>1. wsd.toKit # <<>>
    BY <1>4, KitReadsType DEF KitEdit
  <2>2. Sound(taken)
    BY <2>1, RequestTakenSound
  <2>3. kit' \in KitState
    <3>1. kit.ver + 1 \in Nat
      BY DEF KitState
    <3>2. [kit EXCEPT !.ver = kit.ver + 1, !.modified = TRUE] \in KitState
      BY <3>1 DEF KitState
    <3> QED  BY <1>4, <3>2 DEF KitEdit
  <2> QED  BY <1>4, <2>2, <2>3 DEF KitEdit
<1>5. CASE KitCannotSave
  <2>1. wsd.toKit # <<>>
    BY <1>5, KitReadsType DEF KitCannotSave
  <2>2. Sound(taken)
    BY <2>1, RequestTakenSound
  <2> QED  BY <1>5, <2>2 DEF KitCannotSave
<1>6. ASSUME NEW result \in SaveResults, KitSave(result)
      PROVE  Sound(wsd') /\ kit' \in KitState /\ toWsd' \in Seq(KitAnswer)
  <2> DEFINE file == IF result = "ok" THEN [t |-> kit.clock + 1, v |-> kit.ver] ELSE kit.local
             was == IF ReportsWasModified
                    THEN IF kit.modified THEN "true" ELSE "false" ELSE "absent"
             m == [type |-> "saved", to |-> {s}, sess |-> s, result |-> result, flag |-> was]
  <2>1. wsd.toKit # <<>> /\ s \in Sessions
    BY <1>6, KitReadsType DEF KitSave
  <2>2. file \in File
    BY DEF KitState, File
  <2>3. wsd' = [wsd EXCEPT !.toKit = Tail(@), !.upload = IF Exists(file) THEN file ELSE @]
    BY <1>6 DEF KitSave
  <2>4. Sound(wsd')
    <3> HIDE DEF file
    <3> QED  BY <2>1, <2>2, <2>3, FileLeftSound
  <2>5. kit' \in KitState
    <3>1. NoFile \in File
      BY DEF NoFile, File
    <3>2. kit' = [kit EXCEPT !.local = NoFile,
                             !.clock = IF result = "ok" THEN @ + 1 ELSE @,
                             !.modified = @ /\ result # "ok"]
      BY <1>6 DEF KitSave
    <3> DEFINE clock == IF result = "ok" THEN kit.clock + 1 ELSE kit.clock
               modified == kit.modified /\ result # "ok"
    <3>3. clock \in Nat /\ modified \in BOOLEAN
      BY DEF KitState
    <3>4. kit' = [kit EXCEPT !.local = NoFile, !.clock = clock, !.modified = modified]
      BY <3>2
    <3> HIDE DEF clock, modified
    <3> QED  BY <3>1, <3>3, <3>4 DEF KitState
  <2>6. m \in KitAnswer
    BY <2>1 DEF KitAnswer
  <2>7. Answer("saved", {s}, s, result, was)
    BY <1>6 DEF KitSave
  <2>8. toWsd' \in Seq(KitAnswer)
    <3> HIDE DEF s, was
    <3> QED  BY <2>6, <2>7, AnswerType
  <2> QED  BY <2>4, <2>5, <2>8
<1>7. CASE KitDisconnect
  <2> DEFINE up == kit.sessions \ {s} # {}
  <2>1. wsd.toKit # <<>> /\ s \in Sessions
    BY <1>7, KitReadsType DEF KitDisconnect
  <2>2. wsd' = [wsd EXCEPT !.toKit = IF ~up THEN <<>> ELSE Tail(@), !.kitUp = up]
    BY <1>7 DEF KitDisconnect
  <2>3. Sound(wsd')
    <3>1. up \in BOOLEAN
      OBVIOUS
    <3> HIDE DEF up
    <3> QED  BY <2>1, <2>2, <3>1, KitLeftSound
  <2>4. kit' \in KitState
    BY <1>7 DEF KitDisconnect, KitState
  <2>5. [type |-> "disconnected", to |-> {s}, sess |-> s, result |-> "ok", flag |-> "absent"]
          \in KitAnswer
    BY <2>1 DEF KitAnswer, SaveResults
  <2>6. toWsd' \in Seq(KitAnswer)
    <3>1. Answer("disconnected", {s}, s, "ok", "absent")
      BY <1>7 DEF KitDisconnect
    <3> HIDE DEF s
    <3> QED  BY <2>5, <3>1, AnswerType
  <2> QED  BY <2>3, <2>4, <2>6
<1>8. CASE KitExit \/ KitCrash
  BY <1>8, TerminateChildSound DEF KitExit, KitCrash
<1>9. CASE KitNotifyModified
  <2> DEFINE flag == IF kit.modified THEN "true" ELSE "false"
  <2>1. [type |-> "modified", to |-> kit.views, sess |-> 0, result |-> "ok", flag |-> flag]
          \in KitAnswer
    BY DEF KitAnswer, SaveResults, KitState
  <2>2. Answer("modified", kit.views, 0, "ok", flag)
    BY <1>9 DEF KitNotifyModified
  <2>3. toWsd' \in Seq(KitAnswer)
    <3> HIDE DEF flag
    <3> QED  BY <2>1, <2>2, AnswerType
  <2>4. kit' \in KitState
    BY <1>9 DEF KitNotifyModified, KitState
  <2> QED  BY <1>9, <2>3, <2>4 DEF KitNotifyModified
<1>10. CASE KitStatus
  <2>1. PICK r \in kit.views : Answer("status", {r}, r, "ok", "absent")
    BY <1>10 DEF KitStatus
  <2>2. r \in Sessions
    BY DEF KitState
  <2>3. [type |-> "status", to |-> {r}, sess |-> r, result |-> "ok", flag |-> "absent"]
          \in KitAnswer
    BY <2>2 DEF KitAnswer, SaveResults
  <2>4. toWsd' \in Seq(KitAnswer)
    BY <2>1, <2>3, AnswerType
  <2> QED  BY <1>10, <2>4 DEF KitStatus
<1> HIDE DEF s, taken
<1> QED  BY <1>1, <1>2, <1>3, <1>4, <1>5, <1>6, <1>7, <1>8, <1>9, <1>10 DEF KitStep

(* One iteration of the polling loop. *)
LEMMA PollSound ==
    ASSUME Sound(wsd), NEW timers, Poll(timers) PROVE Sound(wsd')
<1>1. CASE PollInteractive
  <2>1. Sound([Stop(wsd) EXCEPT !.seen = @ \cup {"dialog"}])
    BY StopSound, NotedSound DEF Notes
  <2> QED  BY <1>1, <2>1 DEF PollInteractive
<1>2. CASE PollLoadTimeout(timers)
  <2>1. Sound(Stop(TerminateChild(wsd)))
    BY TerminateChildSound, StopSound
  <2> QED  BY <1>2, <2>1 DEF PollLoadTimeout
<1>3. CASE PollRename(timers)
  BY <1>3, StartRenameFileCommandSound DEF PollRename
<1>4. CASE PollIdle(timers)
  BY <1>4, AutoSaveAndStopSound, EndIterationSound DEF PollIdle
<1>5. CASE PollDead(timers)
  <2> DEFINE b == IF wsd.loaded THEN wsd ELSE Stop(wsd)
  <2>1. Sound(b)
    BY StopSound
  <2> HIDE DEF b
  <2>2. Sound(EndIteration(AutoSaveAndStop(b, timers), timers))
    BY <2>1, AutoSaveAndStopSound, EndIterationSound
  <2> QED  BY <1>5, <2>2 DEF PollDead, b
<1>6. CASE PollLeaving(timers)
  <2>1. Sound([Stop(wsd) EXCEPT !.seen = @ \cup {"giveup"}])
    BY StopSound, NotedSound DEF Notes
  <2>2. Sound(EndIteration(AutoSaveAndStop(wsd, timers), timers))
    BY AutoSaveAndStopSound, EndIterationSound
  <2> QED  BY <1>6, <2>1, <2>2 DEF PollLeaving
<1>7. CASE PollAutoSave(timers)
  BY <1>7, AutoSaveSound, EndIterationSound DEF PollAutoSave
<1>8. CASE PollRetryUpload(timers)
  <2> DEFINE s == GetWriteableSession(wsd)
  <2>1. s \in Sessions
    BY <1>8, GetWriteableSessionType, InMapSessions DEF PollRetryUpload, RetryUpload
  <2>2. Sound(CheckAndUploadToStorage(wsd, s, timers))
    <3> HIDE DEF s
    <3> QED  BY <2>1, CheckAndUploadToStorageSound DEF Sound
  <2> QED  BY <1>8, <2>2, EndIterationSound DEF PollRetryUpload
<1>9. CASE PollSaving(timers)
  <2>1. Sound(GiveUpSaving(wsd))
    BY GiveUpSavingSound DEF Sound
  <2> QED  BY <1>9, <2>1, EndIterationSound DEF PollSaving
<1>10. CASE PollNothing(timers)
  BY <1>10, EndIterationSound DEF PollNothing
<1> QED  BY <1>1, <1>2, <1>3, <1>4, <1>5, <1>6, <1>7, <1>8, <1>9, <1>10 DEF Poll

(* After the loop. *)
LEMMA ExitSound ==
    ASSUME Sound(wsd), kit \in KitState, PollExit \/ FlushEnds \/ ShutdownClient \/ Finish
    PROVE  Sound(wsd')
<1>1. CASE PollExit
  <2> DEFINE b == IF InMap(wsd) = {} THEN ForwardToChild(wsd, "exit", 0, FALSE) ELSE wsd
             loss == /\ b.modified \/ IsStorageOutdated(b)
                     /\ ~(b.closeRequested /\ b.docChanged)
  <2>1. [type |-> "exit", sess |-> 0, dsiu |-> FALSE] \in KitRequest
    BY DEF KitRequest
  <2>2. Sound(b)
    BY <2>1, ForwardToChildSound
  <2>3. loss \in BOOLEAN
    OBVIOUS
  <2>4. wsd' = [b EXCEPT !.phase = "flushing", !.dataLoss = loss]
    BY <1>1 DEF PollExit
  <2> HIDE DEF b, loss
  <2> QED  BY <2>2, <2>3, <2>4, LeftLoopSound
<1>2. CASE FlushEnds
  <2>1. InMap(wsd) \in SUBSET Sessions
    BY InMapSessions
  <2> QED  BY <1>2, <2>1, FlushedSound DEF FlushEnds
<1>3. CASE ShutdownClient
  <2> DEFINE s == First(wsd.toShut)
             b == [wsd EXCEPT !.toShut = @ \ {s}]
  <2>1. s \in Sessions
    <3>1. wsd.toShut \subseteq Sessions /\ wsd.toShut # {}
      BY <1>3 DEF ShutdownClient, Sound, Held, IsBroker, PollThread
    <3> QED  BY <3>1, FirstIsMember
  <2>2. Sound(b)
    BY ClientTakenSound
  <2>3. wsd' = IF b.sess[s] = "WAIT_DISCONNECT" THEN FinalRemoveSession(b, s)
               ELSE RemoveSession(b, s)
    BY <1>3 DEF ShutdownClient
  <2> HIDE DEF s, b
  <2> QED  BY <2>1, <2>2, <2>3, FinalRemoveSessionSound, RemoveSessionSound
<1>4. CASE Finish
  <2> DEFINE b == Stop(TerminateChild(wsd))
             q == IF wsd.dataLoss THEN QuarantineLastCopy(wsd, kit.local) ELSE {}
  <2>1. Sound(b)
    BY TerminateChildSound, StopSound
  <2>2. q \in SUBSET Nat
    <3>1. wsd.quarantine \subseteq Nat /\ wsd.uploading \in File /\ wsd.upload \in File
      BY DEF Sound, Held, IsBroker, PollThread, StorageManager
    <3>2. kit.local \in File
      BY DEF KitState
    <3> QED  BY <3>1, <3>2 DEF QuarantineLastCopy, File
  <2>3. wsd' = [b EXCEPT !.phase = "done", !.quarantine = q]
    BY <1>4 DEF Finish
  <2> HIDE DEF b, q
  <2> QED  BY <2>1, <2>2, <2>3, FinishedSound
<1> QED  BY <1>1, <1>2, <1>3, <1>4

LEMMA InvNext == Inv /\ [Next]_vars => Inv'
<1> SUFFICES ASSUME Inv, [Next]_vars PROVE Inv'
  OBVIOUS
<1>1. /\ Sound(wsd) /\ kit \in KitState /\ toWsd \in Seq(KitAnswer)
      /\ storage \in StorageState /\ budget \in 0..Budget
  BY DEF Inv, TypeOK
<1>2. SUFFICES /\ Sound(wsd') /\ kit' \in KitState /\ toWsd' \in Seq(KitAnswer)
               /\ storage' \in StorageState /\ budget' \in 0..Budget
  BY DEF Inv, TypeOK, Sound, Held
<1>3. ASSUME NEW s \in Sessions,
             \/ CreateNewClientSession(s) \/ AddSession(s) \/ AddSessionFails(s)
             \/ LoadDocument(s) \/ Edit(s) \/ OtherActivity(s) \/ ManualSave(s)
             \/ SaveToStorage(s) \/ RenameFile(s) \/ CloseDocumentCommand(s)
             \/ VersionRestore(s) \/ ClientDisconnect(s)
      PROVE  /\ Sound(wsd') /\ kit' \in KitState /\ toWsd' \in Seq(KitAnswer)
             /\ storage' \in StorageState /\ budget' \in 0..Budget
  <2>1. Sound(wsd')
    BY <1>1, <1>3, ClientStepSound
  <2>2. UNCHANGED <<kit, toWsd, storage>>
    BY <1>3 DEF CreateNewClientSession, AddSession, AddSessionFails, LoadDocument, Edit,
                OtherActivity, ManualSave, SaveToStorage, RenameFile, CloseDocumentCommand,
                VersionRestore, ClientDisconnect
  <2>3. UNCHANGED budget \/ \E event \in AllEvents : Spend(event)
    BY <1>3 DEF CreateNewClientSession, AddSession, AddSessionFails, LoadDocument, Edit,
                OtherActivity, ManualSave, SaveToStorage, RenameFile, CloseDocumentCommand,
                VersionRestore, ClientDisconnect, AllEvents
  <2> QED  BY <1>1, <2>1, <2>2, <2>3, SpendType
<1>4. CASE KitStep \/ KitDialog \/ KitStatus \/ KitNotifyModified \/ KitCrash
  <2>1. Sound(wsd') /\ kit' \in KitState /\ toWsd' \in Seq(KitAnswer)
    BY <1>1, <1>4, KitStepSound
  <2>2. UNCHANGED storage
    BY <1>4 DEF KitStep, KitDialog, KitStatus, KitNotifyModified, KitCrash, KitSession, KitLoad, KitEdit,
                KitCannotSave, KitSave, KitDisconnect, KitExit
  <2>3. UNCHANGED budget \/ \E event \in AllEvents : Spend(event)
    BY <1>4 DEF KitStep, KitDialog, KitStatus, KitNotifyModified, KitCrash, KitSession, KitLoad, KitEdit,
                KitCannotSave, KitSave, KitDisconnect, KitExit, AllEvents
  <2> QED  BY <1>1, <2>1, <2>2, <2>3, SpendType
<1>5. CASE ForwardToClient
  <2>1. Head(toWsd) \in KitAnswer /\ Tail(toWsd) \in Seq(KitAnswer)
    BY <1>1, <1>5 DEF ForwardToClient
  <2> QED  BY <1>1, <1>5, <2>1, HandleKitToClientMessageSound DEF ForwardToClient
<1>6. CASE KitDisconnected
  BY <1>1, <1>6, DisconnectedFromKitSound DEF KitDisconnected
<1>7. ASSUME NEW result \in UploadResults, NEW applied \in BOOLEAN,
             UploadAnswered(result, applied)
      PROVE  /\ Sound(wsd') /\ kit' \in KitState /\ toWsd' \in Seq(KitAnswer)
             /\ storage' \in StorageState /\ budget' \in 0..Budget
  <2>1. IsAsyncUploading(wsd)
    BY <1>7 DEF UploadAnswered, IsAsyncUploading
  <2>2. Sound(wsd')
    BY <1>1, <1>7, <2>1, HandleUploadToStorageResponseSound DEF UploadAnswered
  <2>3. wsd.flight \in Flight
    BY <1>1 DEF Sound, Held, IsBroker, StorageManager
  <2>4. storage' \in StorageState
    BY <1>1, <1>7, <2>3 DEF UploadAnswered, Flight, StorageState
  <2> QED  BY <1>1, <1>7, <2>2, <2>4 DEF UploadAnswered
<1>8. CASE ChangedByOthers
  <2>1. storage' \in StorageState
    BY <1>1, <1>8 DEF ChangedByOthers, StorageState
  <2> QED  BY <1>1, <1>8, <2>1, SpendType DEF ChangedByOthers
<1>9. CASE ShutdownRequested \/ TerminationFlagged
  BY <1>1, <1>9, SignalSound, SpendType DEF ShutdownRequested, TerminationFlagged
<1>10. ASSUME NEW timers \in Clock(PollTimers(wsd)), Poll(timers)
       PROVE  /\ Sound(wsd') /\ kit' \in KitState /\ toWsd' \in Seq(KitAnswer)
              /\ storage' \in StorageState /\ budget' \in 0..Budget
  <2>1. Sound(wsd')
    BY <1>1, <1>10, PollSound
  <2> QED  BY <1>1, <1>10, <2>1 DEF Poll
<1>11. CASE PollExit \/ FlushEnds \/ ShutdownClient \/ Finish
  <2>1. Sound(wsd')
    BY <1>1, <1>11, ExitSound
  <2> QED  BY <1>1, <1>11, <2>1 DEF PollExit, FlushEnds, ShutdownClient, Finish
<1>12. CASE UNCHANGED vars
  BY <1>1, <1>12 DEF vars
<1> QED  BY <1>3, <1>4, <1>5, <1>6, <1>7, <1>8, <1>9, <1>10, <1>11, <1>12 DEF Next, Finished
-----------------------------------------------------------------------------
(* The state is always well formed, whatever the clients, the Kit, the host
   and the clock do.  In particular every request to the Kit but `exit' is made
   for a session: saving and leaving never act for the nullptr that
   getWriteableSession() returns when no session is left (autoSave(),
   sendUnoSave()), and every answer of the Kit names one. *)
THEOREM TypeCorrect == Spec => []TypeOK
<1>1. Inv => TypeOK
  BY DEF Inv
<1> QED  BY InvInit, InvNext, <1>1, PTL DEF Spec

(* An activity that suspends the review of the document in pollThread() always
   has the operation that will end it: startActivity() and endActivity() stay
   paired with the save requests and the rename commands. *)
THEOREM ActivityIsBacked == Spec => []ActivityBacked
<1>1. Inv => ActivityBacked
  BY DEF Inv, Sound, Held, SaveBacked, RenameBacked, ActivityBacked
<1> QED  BY InvInit, InvNext, <1>1, PTL DEF Spec
=============================================================================
