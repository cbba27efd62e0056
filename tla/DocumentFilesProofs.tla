------------------------- MODULE DocumentFilesProofs -------------------------
(***************************************************************************)
(* Proofs about what the broker of a document knows of the others: which    *)
(* version is at the WOPI host, that a session that waits for the Kit will  *)
(* hear from it, and that the status of the document only moves forward.    *)
(* As in DocumentBrokerProofs they hold for every number of sessions, every *)
(* configuration, every set of timers and every bound; the first two for    *)
(* every set of events, the last for those without commands of sessions     *)
(* that are still loading.                                                  *)
(*                                                                         *)
(* Most handlers neither touch a file nor a session; what the others may do *)
(* is one relation between the record before and after (Steps), which is    *)
(* transitive, so that it is carried along the calls.  The invariants then  *)
(* only look at that relation and at the few places that move a file.       *)
(* The status needs in addition what cannot have happened before the first  *)
(* view is loaded (Opening).                                                *)
(***************************************************************************)
EXTENDS DocumentBrokerProofs, SequenceTheorems

HIDE DEF IsBroker, Fields, DocumentState, SaveManager, StorageManager,
         ClientSessions, PollThread, Sound, Held, SaveBacked, RenameBacked, FlightBacked,
         IsAsyncUploading

(* What is needed of the record to follow its fields. *)
IsQueue(q) == \E S : q \in Seq(S)
Shaped(b) == DOMAIN b = Fields /\ DOMAIN b.sess = Sessions /\ IsQueue(b.toKit)

(* The Kit is asked to let go of the session. *)
Asked(q, s) == \E i \in 1..Len(q) : q[i].type = "disconnect" /\ q[i].sess = s

(* A session begins to wait only with a request to a Kit that is there, and
   no request is lost while the Kit is there. *)
Waits(b, c) ==
    /\ \A s \in Sessions : c.sess[s] = "WAIT_DISCONNECT" =>
          b.sess[s] = "WAIT_DISCONNECT" \/ Asked(c.toKit, s) \/ ~c.kitUp
    /\ c.kitUp => b.kitUp
    /\ \A s \in Sessions : Asked(b.toKit, s) => Asked(c.toKit, s) \/ ~c.kitUp

(* The request describes the upload in progress, and both the file. *)
Describes(request, flight, file) ==
    /\ request.kind = flight.kind /\ request.t = flight.t
    /\ Exists(file) /\ flight.t = file.t /\ flight.v = file.v

(* No file changes.  An upload may begin, with .uploading as it is, when none
   is in progress; otherwise the overlap is noted. *)
Sends(b, c) ==
    /\ b.seen \subseteq c.seen
    /\ c.upload = b.upload /\ c.uploading = b.uploading /\ c.lastUploaded = b.lastUploaded
    /\ \/ c.flight = b.flight /\ c.request = b.request
       \/ "overlap" \in c.seen
       \/ b.flight.kind = "none" /\ c.flight.kind = "none"
       \/ b.flight.kind = "none" /\ Describes(c.request, c.flight, b.uploading)

(* The document is loaded as before; its status stays, unless it is marked to
   be destroyed. *)
Onward(b, c) == c.loaded = b.loaded /\ c.status \in {b.status, "Destroying"}

Steps(b, c) == Shaped(c) /\ Waits(b, c) /\ Sends(b, c) /\ Onward(b, c)

(* The same without the status. *)
Passes(b, c) == Shaped(c) /\ Waits(b, c) /\ Sends(b, c)

(* Neither files nor sessions nor the Kit's queue are touched. *)
Quiet(b, c) ==
    /\ DOMAIN c = Fields
    /\ c.sess = b.sess /\ c.toKit = b.toKit /\ c.kitUp = b.kitUp
    /\ c.upload = b.upload /\ c.uploading = b.uploading /\ c.lastUploaded = b.lastUploaded
    /\ c.flight = b.flight /\ c.request = b.request /\ b.seen \subseteq c.seen
    /\ Onward(b, c)

USE DEF Onward
-----------------------------------------------------------------------------
(* A step that touches neither files nor sessions is a step. *)
LEMMA QuietSteps == ASSUME NEW b, Shaped(b), NEW c, Quiet(b, c) PROVE Steps(b, c)
BY DEF Shaped, Quiet, Steps, Waits, Sends

(* Doing nothing is a step. *)
LEMMA StepsSame == ASSUME NEW b, Shaped(b) PROVE Steps(b, b)
BY DEF Steps, Waits, Sends

(* Two steps make a step. *)
LEMMA StepsTwice == ASSUME NEW a, NEW b, NEW c, Steps(a, b), Steps(b, c) PROVE Steps(a, c)
<1>1. Waits(a, c)
  BY DEF Steps, Waits
<1>2. Sends(a, c)
  BY DEF Steps, Sends
<1> QED  BY <1>1, <1>2 DEF Steps

(* A quiet step after another one. *)
LEMMA ThenQuiet == ASSUME NEW a, NEW b, Steps(a, b), NEW c, Quiet(b, c) PROVE Steps(a, c)
BY QuietSteps, StepsTwice DEF Steps

-----------------------------------------------------------------------------
(* Elementary steps. *)

USE DEF Fields

(* stop() touches neither files nor sessions. *)
LEMMA StopQuiet == ASSUME NEW b, Shaped(b) PROVE Quiet(b, Stop(b))
BY DEF Shaped, Quiet, Stop

(* markToDestroy() touches neither files nor sessions. *)
LEMMA MarkToDestroyQuiet == ASSUME NEW b, Shaped(b) PROVE Quiet(b, MarkToDestroy(b))
BY DEF Shaped, Quiet, MarkToDestroy

(* Booking the result of a save moves no file. *)
LEMMA SetLastSaveResultQuiet ==
    ASSUME NEW b, Shaped(b), NEW ok PROVE Quiet(b, SetLastSaveResult(b, ok))
BY DEF Shaped, Quiet, SetLastSaveResult

(* Booking the result of an upload moves no file. *)
LEMMA SetLastUploadResultQuiet ==
    ASSUME NEW b, Shaped(b), NEW ok PROVE Quiet(b, SetLastUploadResult(b, ok))
BY DEF Shaped, Quiet, SetLastUploadResult

(* The end of a rename touches neither files nor sessions. *)
LEMMA EndRenameFileCommandQuiet ==
    ASSUME NEW b, Shaped(b) PROVE Quiet(b, EndRenameFileCommand(b))
BY DEF Shaped, Quiet, EndRenameFileCommand

(* A request to unload touches neither files nor sessions. *)
LEMMA UnloadRequestQuiet ==
    ASSUME NEW b, Shaped(b) PROVE Quiet(b, [b EXCEPT !.unloadRequested = TRUE])
BY DEF Shaped, Quiet

(* A message to the Kit is added behind the others. *)
LEMMA QueueAppend ==
    ASSUME NEW q, IsQueue(q), NEW m
    PROVE  /\ IsQueue(Append(q, m))
           /\ \A s : Asked(q, s) => Asked(Append(q, m), s)
           /\ m.type = "disconnect" => Asked(Append(q, m), m.sess)
<1>1. PICK S : q \in Seq(S)
  BY DEF IsQueue
<1>2. q \in Seq(S \cup {m}) /\ m \in S \cup {m}
  BY <1>1
<1>3. /\ Append(q, m) \in Seq(S \cup {m}) /\ Len(Append(q, m)) = Len(q) + 1 /\ Len(q) \in Nat
      /\ \A i \in 1..Len(q) : Append(q, m)[i] = q[i]
      /\ Append(q, m)[Len(q) + 1] = m
  BY <1>2
<1>4. 1..Len(q) \subseteq 1..Len(Append(q, m)) /\ Len(q) + 1 \in 1..Len(Append(q, m))
  BY <1>3
<1> QED  BY <1>3, <1>4 DEF IsQueue, Asked

(* forwardToChild() loses no request to a Kit that is there. *)
LEMMA ForwardToChildSteps ==
    ASSUME NEW b, Shaped(b), NEW type, NEW s, NEW dsiu
    PROVE  Steps(b, ForwardToChild(b, type, s, dsiu))
<1> DEFINE m == [type |-> type, sess |-> s, dsiu |-> dsiu]
           q == Append(b.toKit, m)
           c == [b EXCEPT !.toKit = q]
<1>1. IsQueue(q) /\ \A r : Asked(b.toKit, r) => Asked(q, r)
  BY QueueAppend DEF Shaped
<1>2. /\ DOMAIN c = Fields /\ c.toKit = q /\ c.sess = b.sess /\ c.kitUp = b.kitUp
      /\ c.upload = b.upload /\ c.uploading = b.uploading /\ c.lastUploaded = b.lastUploaded
      /\ c.flight = b.flight /\ c.request = b.request /\ c.seen = b.seen
      /\ c.loaded = b.loaded /\ c.status = b.status
  BY DEF Shaped
<1> HIDE DEF q, c
<1>3. Steps(b, c)
  BY <1>1, <1>2 DEF Shaped, Steps, Waits, Sends
<1> QED  BY <1>3, StepsSame DEF ForwardToChild, c, q

(* sendUnoSave() only adds a request. *)
LEMMA SendUnoSaveSteps ==
    ASSUME NEW b, Shaped(b), NEW s, NEW dsiu PROVE Steps(b, SendUnoSave(b, s, dsiu))
<1> DEFINE c == ForwardToChild(b, "save", s, dsiu)
           d == [c EXCEPT !.lastModified = 0,
                          !.next = b.modified \/ b.modifyAfter,
                          !.saving = TRUE,
                          !.activityAfter = FALSE,
                          !.modifyAfter = FALSE,
                          !.activity = IF @ = "None" THEN "Save" ELSE @]
<1>1. Steps(b, c)
  BY ForwardToChildSteps
<1> HIDE DEF c
<1>2. Quiet(c, d)
  BY <1>1 DEF Steps, Shaped, Quiet
<1>3. Steps(b, d)
  BY <1>1, <1>2, ThenQuiet
<1> QED  BY <1>3 DEF SendUnoSave, c

(* autoSave() only adds a request. *)
LEMMA AutoSaveSteps ==
    ASSUME NEW b, Shaped(b), NEW force, NEW dsiu, NEW timers
    PROVE  Steps(b, AutoSave(b, force, dsiu, timers).b)
BY SendUnoSaveSteps, StepsSame DEF AutoSave

(* A session that is removed waits no more. *)
LEMMA FinalRemoveSessionSteps ==
    ASSUME NEW b, Shaped(b), NEW s
    PROVE  /\ Steps(b, FinalRemoveSession(b, s))
           /\ s \in Sessions => FinalRemoveSession(b, s).sess[s] # "WAIT_DISCONNECT"
<1> DEFINE c == FinalRemoveSession(b, s)
<1>1. /\ DOMAIN c = Fields /\ c.toKit = b.toKit /\ c.kitUp = b.kitUp
      /\ c.sess = [b.sess EXCEPT ![s] = "GONE"]
      /\ c.upload = b.upload /\ c.uploading = b.uploading /\ c.lastUploaded = b.lastUploaded
      /\ c.flight = b.flight /\ c.request = b.request /\ c.seen = b.seen
      /\ c.loaded = b.loaded /\ c.status = b.status
  BY DEF Shaped, FinalRemoveSession
<1>2. /\ DOMAIN c.sess = Sessions
      /\ \A r \in Sessions : c.sess[r] = IF r = s THEN "GONE" ELSE b.sess[r]
  BY <1>1 DEF Shaped
<1> HIDE DEF c
<1>3. Steps(b, c)
  BY <1>1, <1>2 DEF Shaped, Steps, Waits, Sends
<1> QED  BY <1>2, <1>3 DEF c

(* With the Kit its requests are gone, and everybody knows. *)
LEMMA TerminateChildSteps == ASSUME NEW b, Shaped(b) PROVE Steps(b, TerminateChild(b))
<1> DEFINE c == TerminateChild(b)
<1>1. /\ DOMAIN c = Fields /\ c.toKit = <<>> /\ c.kitUp = FALSE /\ c.sess = b.sess
      /\ c.upload = b.upload /\ c.uploading = b.uploading /\ c.lastUploaded = b.lastUploaded
      /\ c.flight = b.flight /\ c.request = b.request /\ c.seen = b.seen
      /\ c.loaded = b.loaded /\ c.status = b.status
  BY DEF Shaped, TerminateChild
<1>2. IsQueue(<<>>)
  BY EmptySeq DEF IsQueue
<1> HIDE DEF c
<1>3. Steps(b, c)
  BY <1>1, <1>2 DEF Shaped, Steps, Waits, Sends
<1> QED  BY <1>3 DEF c
-----------------------------------------------------------------------------
(* Sessions leaving. *)

(* Whoever is made to wait has a request under way. *)
LEMMA DisconnectSessionInternalSteps ==
    ASSUME NEW b, Shaped(b), NEW s PROVE Steps(b, DisconnectSessionInternal(b, s))
<1> DEFINE c == IF b.unloadRequested THEN MarkToDestroy(b) ELSE b
           d == IF ~c.loaded /\ InMap(c) = {} THEN TerminateChild(c) ELSE c
           e == [c EXCEPT !.sess[s] = "WAIT_DISCONNECT"]
           f == ForwardToChild(e, "disconnect", s, FALSE)
<1>1. Steps(b, c)
  BY MarkToDestroyQuiet, QuietSteps, StepsSame
<1>2. Shaped(c)
  BY <1>1 DEF Steps
<1> HIDE DEF c
<1>3. Steps(c, d)
  BY <1>2, TerminateChildSteps, StepsSame
<1>4. Shaped(d)
  BY <1>3 DEF Steps
<1>5. Steps(d, FinalRemoveSession(d, s))
  <2> HIDE DEF d
  <2> QED  BY <1>4, FinalRemoveSessionSteps
<1>6. Steps(b, FinalRemoveSession(d, s))
  BY <1>1, <1>3, <1>5, StepsTwice
<1>7. /\ DOMAIN e = Fields /\ e.toKit = c.toKit /\ e.kitUp = c.kitUp
      /\ e.sess = [c.sess EXCEPT ![s] = "WAIT_DISCONNECT"]
      /\ e.upload = c.upload /\ e.uploading = c.uploading /\ e.lastUploaded = c.lastUploaded
      /\ e.flight = c.flight /\ e.request = c.request /\ e.seen = c.seen
      /\ e.loaded = c.loaded /\ e.status = c.status
  BY <1>2 DEF Shaped
<1>8. /\ Shaped(e) /\ Sends(c, e)
      /\ \A r \in Sessions : r # s => e.sess[r] = c.sess[r]
  BY <1>2, <1>7 DEF Shaped, Sends
<1> HIDE DEF e
<1>9. Steps(e, f)
  BY <1>8, ForwardToChildSteps
<1>10. f.kitUp => Asked(f.toKit, s)
  <2> DEFINE m == [type |-> "disconnect", sess |-> s, dsiu |-> FALSE]
  <2>1. CASE e.kitUp
    <3>1. f = [e EXCEPT !.toKit = Append(e.toKit, m)]
      BY <2>1 DEF ForwardToChild
    <3>2. f.toKit = Append(e.toKit, m)
      BY <1>8, <3>1 DEF Shaped
    <3>3. m.type = "disconnect" /\ m.sess = s
      OBVIOUS
    <3>4. Asked(Append(e.toKit, m), m.sess)
      <4> HIDE DEF m
      <4>1. IsQueue(e.toKit)
        BY <1>8 DEF Shaped
      <4> QED  BY <4>1, <3>3, QueueAppend
    <3>5. Asked(f.toKit, s)
      <4> HIDE DEF f, m
      <4> QED  BY <3>2, <3>3, <3>4
    <3> QED  BY <3>5
  <2>2. CASE ~e.kitUp
    BY <2>2 DEF ForwardToChild
  <2> QED  BY <2>1, <2>2
<1> HIDE DEF f
<1>11. Steps(c, f)
  <2>1. Waits(c, f)
    BY <1>7, <1>8, <1>9, <1>10 DEF Steps, Waits
  <2>2. Sends(c, f)
    BY <1>7, <1>9 DEF Steps, Sends
  <2>3. Onward(c, f)
    BY <1>7, <1>9 DEF Steps
  <2> QED  BY <1>9, <2>1, <2>2, <2>3 DEF Steps
<1>12. Steps(b, f)
  BY <1>1, <1>11, StepsTwice
<1> QED  BY <1>6, <1>12 DEF DisconnectSessionInternal, c, d, e, f

(* The last view going away moves no file. *)
LEMMA AfterLastViewSteps ==
    ASSUME NEW b, Shaped(b), NEW active PROVE Steps(b, AfterLastView(b, active))
BY UnloadRequestQuiet, MarkToDestroyQuiet, QuietSteps, StepsSame DEF AfterLastView

(* removeSession() keeps files and requests. *)
LEMMA RemoveSessionSteps ==
    ASSUME NEW b, Shaped(b), NEW s PROVE Steps(b, RemoveSession(b, s))
<1> DEFINE lastEditable == s \in b.writable /\ ~HaveAnotherEditableSession(b, s)
           save == AutoSave(b, IsPossiblyModified(b), ~AlwaysSaveOnExit, {})
           c == IF ~lastEditable THEN DisconnectSessionInternal(b, s)
                ELSE IF b.saving THEN b
                ELSE IF save.sent THEN save.b
                ELSE DisconnectSessionInternal(save.b, s)
           active == CountActiveSessions(b)
<1>1. Steps(b, save.b)
  BY AutoSaveSteps
<1>2. Shaped(save.b)
  BY <1>1 DEF Steps
<1> HIDE DEF save
<1>3. Steps(save.b, DisconnectSessionInternal(save.b, s))
  BY <1>2, DisconnectSessionInternalSteps
<1>4. Steps(b, DisconnectSessionInternal(save.b, s))
  BY <1>1, <1>3, StepsTwice
<1>5. Steps(b, c)
  <2> HIDE DEF lastEditable
  <2> QED  BY <1>1, <1>4, DisconnectSessionInternalSteps, StepsSame
<1> HIDE DEF c, active
<1>6. Steps(c, AfterLastView(c, active))
  BY <1>5, AfterLastViewSteps DEF Steps
<1>7. Steps(b, AfterLastView(c, active))
  BY <1>5, <1>6, StepsTwice
<1> QED  BY <1>7 DEF RemoveSession, c, save, active
-----------------------------------------------------------------------------
(* Uploading. *)

(* An upload that cannot be started moves no file. *)
LEMMA AsyncUploadErrorQuiet ==
    ASSUME NEW b, Shaped(b) PROVE Steps(b, AsyncUploadError(b))
<1> DEFINE c == SetLastUploadResult(b, FALSE)
<1>1. Steps(b, c)
  BY SetLastUploadResultQuiet, QuietSteps
<1> HIDE DEF c
<1>2. Shaped(c)
  BY <1>1 DEF Steps
<1>3. Steps(b, EndRenameFileCommand(c))
  BY <1>1, <1>2, EndRenameFileCommandQuiet, ThenQuiet
<1> QED  BY <1>1, <1>3 DEF AsyncUploadError, c

(* Either the overlap is noted, or nothing is sent, or what is sent is the
   file .uploading, described by the request. *)
LEMMA UploadToStorageInternalSteps ==
    ASSUME NEW b, Shaped(b), NEW s, NEW kind, NEW force, NEW timers
    PROVE  Steps(b, UploadToStorageInternal(b, s, kind, force, timers))
<1> DEFINE r == [kind |-> kind, t |-> b.uploading.t, sess |-> s]
           c == [b EXCEPT !.request = r,
                      !.last = [um |-> b.cur.um, forced |-> b.cur.forced \/ force],
                      !.cur = NoAttrs,
                      !.next = FALSE,
                      !.uploadActive = TRUE,
                      !.seen = @ \cup (IF IsAsyncUploading(b) THEN {"overlap"} ELSE {})]
           f == [kind |-> kind, t |-> c.uploading.t, v |-> c.uploading.v,
                 forced |-> c.last.forced,
                 answered |-> timers \cap {"noConnect", "httpThrown"} = {}]
           d == [c EXCEPT !.flight = f]
<1>1. /\ DOMAIN c = Fields /\ c.sess = b.sess /\ c.toKit = b.toKit /\ c.kitUp = b.kitUp
      /\ c.upload = b.upload /\ c.uploading = b.uploading /\ c.lastUploaded = b.lastUploaded
      /\ c.flight = b.flight /\ c.request = r /\ b.seen \subseteq c.seen
      /\ c.loaded = b.loaded /\ c.status = b.status
      /\ IsAsyncUploading(b) => "overlap" \in c.seen
  BY DEF Shaped
<1>2. r.kind = kind /\ r.t = b.uploading.t
  OBVIOUS
<1> HIDE DEF c, r
<1>3. Shaped(c) /\ Steps(b, c)
  BY <1>1 DEF Shaped, Steps, Waits, Sends, IsAsyncUploading
<1>4. Steps(b, AsyncUploadError(c))
  BY <1>3, AsyncUploadErrorQuiet, StepsTwice
<1>5. ASSUME ~IsAsyncUploading(c), Exists(c.uploading) PROVE Steps(b, d)
  <2>1. /\ DOMAIN d = Fields /\ d.sess = c.sess /\ d.toKit = c.toKit /\ d.kitUp = c.kitUp
        /\ d.upload = c.upload /\ d.uploading = c.uploading /\ d.lastUploaded = c.lastUploaded
        /\ d.flight = f /\ d.request = c.request /\ d.seen = c.seen
        /\ d.loaded = c.loaded /\ d.status = c.status
    BY <1>1
  <2>2. f.kind = kind /\ f.t = c.uploading.t /\ f.v = c.uploading.v
    OBVIOUS
  <2> HIDE DEF d, f
  <2>3. Describes(d.request, d.flight, b.uploading)
    BY <1>1, <1>2, <1>5, <2>1, <2>2 DEF Describes
  <2>4. Sends(b, d)
    BY <1>1, <1>5, <2>1, <2>3 DEF Sends, IsAsyncUploading
  <2>5. Shaped(d) /\ Waits(b, d)
    BY <1>1, <2>1 DEF Shaped, Waits
  <2> QED  BY <1>1, <2>1, <2>4, <2>5 DEF Steps
<1>6. Steps(b, UploadLocalFileToStorageAsync(c, kind, timers))
  <2>1. \/ UploadLocalFileToStorageAsync(c, kind, timers) = AsyncUploadError(c)
        \/ /\ ~IsAsyncUploading(c) /\ Exists(c.uploading)
           /\ UploadLocalFileToStorageAsync(c, kind, timers) \in {AsyncUploadError(d), d}
    BY DEF UploadLocalFileToStorageAsync
  <2> HIDE DEF d
  <2>2. Steps(b, d) => Steps(b, AsyncUploadError(d))
    BY AsyncUploadErrorQuiet, StepsTwice DEF Steps
  <2> QED  BY <1>4, <1>5, <2>1, <2>2
<1> QED  BY <1>6, StepsSame DEF UploadToStorageInternal, c, r

(* uploadToStorage() is a step. *)
LEMMA UploadToStorageSteps ==
    ASSUME NEW b, Shaped(b), NEW s, NEW force, NEW timers
    PROVE  Steps(b, UploadToStorage(b, s, force, timers))
BY UploadToStorageInternalSteps, StepsSame DEF UploadToStorage

(* The rename at the host is a step. *)
LEMMA RenameInStorageSteps ==
    ASSUME NEW b, Shaped(b), NEW timers PROVE Steps(b, RenameInStorage(b, timers))
BY UploadToStorageInternalSteps, EndRenameFileCommandQuiet, QuietSteps DEF RenameInStorage

(* The end of checkAndUploadToStorage() is a step. *)
LEMMA StopAfterSavingSteps ==
    ASSUME NEW b, Shaped(b), NEW s PROVE Steps(b, StopAfterSaving(b, s))
<1> DEFINE c == IF IsMarkedToDestroy(b) \/ s \in b.closed
                THEN DisconnectSessionInternal(b, s) ELSE b
<1>1. Steps(b, c)
  BY DisconnectSessionInternalSteps, StepsSame
<1> HIDE DEF c
<1>2. Shaped(c)
  BY <1>1 DEF Steps
<1>3. Steps(b, Stop(c))
  BY <1>1, <1>2, StopQuiet, ThenQuiet
<1> QED  BY <1>1, <1>3 DEF StopAfterSaving, c

(* checkAndUploadToStorage() is a step. *)
LEMMA CheckAndUploadToStorageSteps ==
    ASSUME NEW b, Shaped(b), NEW s, NEW timers
    PROVE  Steps(b, CheckAndUploadToStorage(b, s, timers))
<1> DEFINE need == NeedToUploadToStorage(b)
           c == IF b.activity = "Save" THEN [b EXCEPT !.activity = "None"] ELSE b
           d == IF need THEN UploadToStorage(c, s, FALSE, timers) ELSE c
<1>1. Steps(b, c)
  <2>1. Quiet(b, [b EXCEPT !.activity = "None"])
    BY DEF Shaped, Quiet
  <2> QED  BY <2>1, QuietSteps, StepsSame
<1> HIDE DEF c
<1>2. Shaped(c)
  BY <1>1 DEF Steps
<1>3. Steps(c, d)
  <2> HIDE DEF need
  <2> QED  BY <1>2, UploadToStorageSteps, StepsSame
<1> HIDE DEF d
<1>4. Steps(b, d) /\ Shaped(d)
  BY <1>1, <1>3, StepsTwice DEF Steps
<1>5. Steps(b, StopAfterSaving(d, s))
  BY <1>4, StopAfterSavingSteps, StepsTwice
<1> QED  BY <1>1, <1>4, <1>5, RenameInStorageSteps DEF CheckAndUploadToStorage, c, d
(* What the Kit left in .upload becomes .uploading. *)
Moves(b, c) ==
    /\ Shaped(c) /\ Waits(b, c) /\ c.seen = b.seen /\ Onward(b, c)
    /\ c.flight = b.flight /\ c.request = b.request /\ c.lastUploaded = b.lastUploaded
    /\ IF Exists(b.upload) THEN c.uploading = b.upload /\ c.upload = NoFile
                           ELSE c.uploading = b.uploading /\ c.upload = b.upload

(* handleSaveResponse() moves .upload to .uploading and goes on from there. *)
LEMMA HandleSaveResponseMoves ==
    ASSUME NEW b, Shaped(b), NEW s, NEW result, NEW wasModified, NEW timers
    PROVE  \E c : Moves(b, c) /\ Steps(c, HandleSaveResponse(b, s, result, wasModified, timers))
<1> DEFINE um == IF wasModified = "absent" THEN b.next ELSE wasModified = "true"
           a == [b EXCEPT !.cur = Merge(@, [um |-> um, forced |-> FALSE]), !.next = FALSE]
           c == SetLastSaveResult(a, result # "failed")
           d == IF Exists(c.upload)
                THEN [c EXCEPT !.uploading = c.upload, !.upload = NoFile] ELSE c
           e == IF Exists(d.uploading)
                THEN [d EXCEPT !.quarantine = @ \cup {d.uploading.v}] ELSE d
<1>1. /\ DOMAIN a = Fields /\ a.sess = b.sess /\ a.toKit = b.toKit /\ a.kitUp = b.kitUp
      /\ a.upload = b.upload /\ a.uploading = b.uploading /\ a.lastUploaded = b.lastUploaded
      /\ a.flight = b.flight /\ a.request = b.request /\ a.seen = b.seen
      /\ a.loaded = b.loaded /\ a.status = b.status
  BY DEF Shaped
<1> HIDE DEF a
<1>2. /\ DOMAIN c = Fields /\ c.sess = a.sess /\ c.toKit = a.toKit /\ c.kitUp = a.kitUp
      /\ c.upload = a.upload /\ c.uploading = a.uploading /\ c.lastUploaded = a.lastUploaded
      /\ c.flight = a.flight /\ c.request = a.request /\ c.seen = a.seen
      /\ c.loaded = a.loaded /\ c.status = a.status
  BY <1>1 DEF SetLastSaveResult
<1> HIDE DEF c
<1>3. /\ DOMAIN d = Fields /\ d.sess = c.sess /\ d.toKit = c.toKit /\ d.kitUp = c.kitUp
      /\ d.lastUploaded = c.lastUploaded
      /\ d.flight = c.flight /\ d.request = c.request /\ d.seen = c.seen
      /\ d.loaded = c.loaded /\ d.status = c.status
      /\ IF Exists(c.upload) THEN d.uploading = c.upload /\ d.upload = NoFile
                             ELSE d.uploading = c.uploading /\ d.upload = c.upload
  BY <1>2
<1> HIDE DEF d
<1>4. /\ DOMAIN e = Fields /\ e.sess = d.sess /\ e.toKit = d.toKit /\ e.kitUp = d.kitUp
      /\ e.upload = d.upload /\ e.uploading = d.uploading /\ e.lastUploaded = d.lastUploaded
      /\ e.flight = d.flight /\ e.request = d.request /\ e.seen = d.seen
      /\ e.loaded = d.loaded /\ e.status = d.status
  BY <1>3
<1> HIDE DEF e
<1>5. Moves(b, e)
  <2>1. Shaped(e) /\ Waits(b, e)
    BY <1>1, <1>2, <1>3, <1>4 DEF Shaped, Waits
  <2> QED  BY <1>1, <1>2, <1>3, <1>4, <2>1 DEF Moves
<1>6. Steps(e, CheckAndUploadToStorage(e, s, timers))
  BY <1>5, CheckAndUploadToStorageSteps DEF Moves
<1>7. HandleSaveResponse(b, s, result, wasModified, timers) = CheckAndUploadToStorage(e, s, timers)
  BY DEF HandleSaveResponse, a, c, d, e
<1> QED  BY <1>5, <1>6, <1>7

(* The upload is over; the time of its file is booked on success. *)
Lands(b, c, result) ==
    /\ Shaped(c) /\ Waits(b, c) /\ c.seen = b.seen /\ Onward(b, c)
    /\ c.flight = NoFlight /\ c.request = b.request
    /\ c.upload = b.upload /\ c.uploading = b.uploading
    /\ c.lastUploaded = IF result = "OK" /\ b.request.kind # "rename"
                        THEN b.request.t ELSE b.lastUploaded

(* A successful upload is booked with the time in its request. *)
LEMMA UploadedToStorageLands ==
    ASSUME NEW b, Shaped(b), b.flight = NoFlight, NEW timers
    PROVE  \E c : Lands(b, c, "OK") /\ Steps(c, UploadedToStorage(b, timers))
<1> DEFINE put == MarkUploaded(b)
           e == IF b.request.kind = "rename" THEN b ELSE put
           c == IF b.request.kind = "rename" THEN EndRenameFileCommand(b)
                ELSE IF put.activity = "Rename" THEN RenameInStorage(put, timers)
                ELSE put
           d == IF c.unloadRequested THEN MarkToDestroy(c) ELSE c
<1>1. /\ DOMAIN put = Fields /\ put.sess = b.sess /\ put.toKit = b.toKit /\ put.kitUp = b.kitUp
      /\ put.upload = b.upload /\ put.uploading = b.uploading /\ put.lastUploaded = b.request.t
      /\ put.flight = b.flight /\ put.request = b.request /\ put.seen = b.seen
      /\ put.loaded = b.loaded /\ put.status = b.status
  BY DEF Shaped, MarkUploaded
<1> HIDE DEF put
<1>2. Lands(b, e, "OK")
  BY <1>1 DEF Lands, Shaped, Waits
<1>3. Shaped(e)
  BY <1>2 DEF Lands
<1>4. Steps(e, c)
  BY <1>3, EndRenameFileCommandQuiet, QuietSteps, RenameInStorageSteps, StepsSame
<1> HIDE DEF e, c
<1>5. Shaped(c)
  BY <1>4 DEF Steps
<1>6. Steps(c, d)
  BY <1>5, MarkToDestroyQuiet, QuietSteps, StepsSame
<1> HIDE DEF d
<1>7. Steps(e, d) /\ Shaped(d)
  BY <1>4, <1>6, StepsTwice DEF Steps
<1>8. Steps(e, Stop(d))
  BY <1>7, StopQuiet, ThenQuiet
<1>9. Steps(e, UploadedToStorage(b, timers))
  BY <1>7, <1>8 DEF UploadedToStorage, d, c, put
<1> QED  BY <1>2, <1>9

(* A conflict moves no file. *)
LEMMA ConflictInStorageQuiet ==
    ASSUME NEW b, Shaped(b) PROVE Steps(b, ConflictInStorage(b))
<1> DEFINE keep == b.last.um \/ b.cur.um \/ IsPossiblyModified(b)
           told == InMap(b) \ b.closed
           c    == [b EXCEPT !.docChanged = TRUE,
                          !.seen = @ \cup (IF ~keep /\ told # {} THEN {"reload"} ELSE {})]
<1>1. Quiet(b, c)
  <2> HIDE DEF keep, told
  <2> QED  BY DEF Shaped, Quiet
<1> HIDE DEF c
<1>2. Steps(b, c)
  BY <1>1, QuietSteps
<1>3. Steps(b, Stop(c))
  BY <1>2, StopQuiet, ThenQuiet DEF Steps
<1> QED  BY <1>2, <1>3 DEF ConflictInStorage, c

(* A failed upload moves no file. *)
LEMMA FailedToUploadSteps ==
    ASSUME NEW b, Shaped(b), NEW result PROVE Steps(b, FailedToUpload(b, result))
<1> DEFINE c == IF result \in {"TOO_LARGE", "DISKFULL"}
                THEN [b EXCEPT !.writable = @ \ InMap(b)]
                ELSE IF result = "UNAUTHORIZED"
                THEN [b EXCEPT !.expired = @ \cup {b.request.sess}]
                ELSE IF result \in {"DOC_CHANGED", "CONFLICT"} THEN ConflictInStorage(b)
                ELSE b
           d == [c EXCEPT !.cur = Merge(@, c.last), !.last = NoAttrs]
<1>1. Quiet(b, [b EXCEPT !.writable = @ \ InMap(b)])
  BY DEF Shaped, Quiet
<1>2. Quiet(b, [b EXCEPT !.expired = @ \cup {b.request.sess}])
  BY DEF Shaped, Quiet
<1>3. Steps(b, c)
  BY <1>1, <1>2, QuietSteps, StepsSame, ConflictInStorageQuiet
<1> HIDE DEF c
<1>4. Quiet(c, d)
  BY <1>3 DEF Steps, Shaped, Quiet
<1>5. Steps(b, d)
  BY <1>3, <1>4, ThenQuiet
<1> QED  BY <1>5 DEF FailedToUpload, c

(* The answer of the host ends the upload, and what follows goes on from there. *)
LEMMA HandleUploadToStorageResponseLands ==
    ASSUME NEW b, Shaped(b), NEW result, NEW timers
    PROVE  \E c : Lands(b, c, result) /\ Steps(c, HandleUploadToStorageResponse(b, result, timers))
<1> DEFINE a == [b EXCEPT !.flight = NoFlight]
           c == SetLastUploadResult(a, result = "OK")
<1>1. /\ DOMAIN a = Fields /\ a.sess = b.sess /\ a.toKit = b.toKit /\ a.kitUp = b.kitUp
      /\ a.upload = b.upload /\ a.uploading = b.uploading /\ a.lastUploaded = b.lastUploaded
      /\ a.flight = NoFlight /\ a.request = b.request /\ a.seen = b.seen
      /\ a.loaded = b.loaded /\ a.status = b.status
  BY DEF Shaped
<1> HIDE DEF a
<1>2. /\ DOMAIN c = Fields /\ c.sess = a.sess /\ c.toKit = a.toKit /\ c.kitUp = a.kitUp
      /\ c.upload = a.upload /\ c.uploading = a.uploading /\ c.lastUploaded = a.lastUploaded
      /\ c.flight = a.flight /\ c.request = a.request /\ c.seen = a.seen
      /\ c.loaded = a.loaded /\ c.status = a.status
  BY <1>1 DEF SetLastUploadResult
<1> HIDE DEF c
<1>3. Shaped(c)
  BY <1>1, <1>2 DEF Shaped
<1>4. CASE result = "OK"
  <2>1. PICK e : Lands(c, e, "OK") /\ Steps(e, UploadedToStorage(c, timers))
    BY <1>1, <1>2, <1>3, UploadedToStorageLands
  <2>2. Lands(b, e, result)
    BY <1>1, <1>2, <1>4, <2>1 DEF Lands, Waits
  <2>3. HandleUploadToStorageResponse(b, result, timers) = UploadedToStorage(c, timers)
    BY <1>4 DEF HandleUploadToStorageResponse, c, a
  <2> QED  BY <2>1, <2>2, <2>3
<1>5. CASE result # "OK"
  <2>1. Lands(b, c, result)
    BY <1>1, <1>2, <1>3, <1>5 DEF Lands, Waits
  <2>2. HandleUploadToStorageResponse(b, result, timers) = FailedToUpload(c, result)
    BY <1>5 DEF HandleUploadToStorageResponse, c, a
  <2> QED  BY <1>3, <2>1, <2>2, FailedToUploadSteps
<1> QED  BY <1>4, <1>5
-----------------------------------------------------------------------------
(* Closing. *)

(* startRenameFileCommand() is a step. *)
LEMMA StartRenameFileCommandSteps ==
    ASSUME NEW b, Shaped(b) PROVE Steps(b, StartRenameFileCommand(b))
<1> DEFINE c == [b EXCEPT !.activity = "Rename"]
<1>1. Quiet(b, c)
  BY DEF Shaped, Quiet
<1> HIDE DEF c
<1>2. Steps(b, c) /\ Shaped(c)
  BY <1>1, QuietSteps DEF Steps
<1>3. Steps(c, SendUnoSave(c, c.renameSession, TRUE)) /\ Steps(c, EndRenameFileCommand(c))
  BY <1>2, SendUnoSaveSteps, EndRenameFileCommandQuiet, QuietSteps
<1>4. Steps(b, SendUnoSave(c, c.renameSession, TRUE)) /\ Steps(b, EndRenameFileCommand(c))
  BY <1>2, <1>3, StepsTwice
<1> QED  BY <1>4 DEF StartRenameFileCommand, c

(* closeDocument() is a step. *)
LEMMA CloseDocumentSteps ==
    ASSUME NEW b, Shaped(b) PROVE Steps(b, CloseDocument(b))
<1> DEFINE c == [b EXCEPT !.closeRequested = TRUE, !.closeReason = TRUE]
<1>1. Quiet(b, c)
  BY DEF Shaped, Quiet
<1> HIDE DEF c
<1>2. Steps(b, c) /\ Shaped(c)
  BY <1>1, QuietSteps DEF Steps
<1>3. Steps(b, Stop(c))
  BY <1>2, StopQuiet, ThenQuiet
<1> QED  BY <1>2, <1>3 DEF CloseDocument, c

(* disconnectedFromKit() is a step. *)
LEMMA DisconnectedFromKitSteps ==
    ASSUME NEW b, Shaped(b) PROVE Steps(b, DisconnectedFromKit(b))
<1> DEFINE c == [b EXCEPT !.disconnected = TRUE]
<1>1. Quiet(b, c)
  BY DEF Shaped, Quiet
<1> HIDE DEF c
<1>2. Steps(b, c) /\ Shaped(c)
  BY <1>1, QuietSteps DEF Steps
<1>3. Steps(b, CloseDocument(c))
  BY <1>2, CloseDocumentSteps, StepsTwice
<1> QED  BY <1>2, <1>3 DEF DisconnectedFromKit, c

(* Saving before stopping is a step. *)
LEMMA SaveBeforeStoppingSteps ==
    ASSUME NEW b, Shaped(b), NEW timers PROVE Steps(b, SaveBeforeStopping(b, timers))
<1> DEFINE save == AutoSave(b, IsPossiblyModified(b), TRUE, timers)
           s == GetWriteableSession(save.b)
<1>1. Steps(b, save.b)
  BY AutoSaveSteps
<1> HIDE DEF save
<1>2. Shaped(save.b)
  BY <1>1 DEF Steps
<1>3. Steps(b, CheckAndUploadToStorage(save.b, s, timers))
  <2> HIDE DEF s
  <2> QED  BY <1>1, <1>2, CheckAndUploadToStorageSteps, StepsTwice
<1>4. Steps(b, Stop(save.b))
  BY <1>1, <1>2, StopQuiet, ThenQuiet
<1> QED  BY <1>1, <1>3, <1>4 DEF SaveBeforeStopping, save, s

(* autoSaveAndStop() is a step. *)
LEMMA AutoSaveAndStopSteps ==
    ASSUME NEW b, Shaped(b), NEW timers PROVE Steps(b, AutoSaveAndStop(b, timers))
BY SaveBeforeStoppingSteps, StopQuiet, QuietSteps, StepsSame DEF AutoSaveAndStop

(* The end of an iteration is a step. *)
LEMMA EndIterationSteps ==
    ASSUME NEW b, Shaped(b), NEW timers PROVE Steps(b, EndIteration(b, timers))
BY FinalRemoveSessionSteps, StepsSame DEF EndIteration
-----------------------------------------------------------------------------
(* The invariant. *)

(* The copies of the document: at the host (v, booked with the time last), in
   the request in progress (fl), in .uploading (ing), in .upload (up) and the
   file from the download (local).  Their times grow in this order up to the
   Kit's clock, and equal times mean equal versions. *)
Copies(last, fl, ing, up, local, clock, v) ==
    /\ 1 <= clock /\ up.t <= clock /\ ing.t <= clock
    /\ Exists(up) => ing.t <= up.t /\ (ing.t = up.t => ing.v = up.v)
    /\ fl.kind # "none" => /\ 1 <= fl.t /\ last <= fl.t /\ fl.t <= ing.t
                           /\ fl.t = ing.t => fl.v = ing.v
                           /\ fl.t = 1 => fl.v = 0
    /\ last <= 1 \/ last <= ing.t
    /\ Exists(ing) /\ ing.t = last => v = ing.v
    /\ ing.t = 1 => ing.v = 0 /\ v = 0
    /\ up.t = 1 => up.v = 0 /\ v = 0
    /\ Exists(local) => /\ local.t = 1 /\ local.v = 0 /\ v = 0
                        /\ ~Exists(up) /\ ~Exists(ing) /\ fl.kind = "none"

(* Without an overlap the request describes the upload in progress. *)
Filed(b, k, v) ==
    \/ "overlap" \in b.seen
    \/ /\ b.flight.kind # "none" => b.request.kind = b.flight.kind /\ b.request.t = b.flight.t
       /\ Copies(b.lastUploaded, b.flight, b.uploading, b.upload, k.local, k.clock, v)

Told(w, s) == \E i \in 1..Len(w) : w[i].type = "disconnected" /\ w[i].sess = s

(* Whoever waits will hear of it. *)
Heard(b, w) ==
    \A s \in Sessions : b.sess[s] = "WAIT_DISCONNECT" =>
        Asked(b.toKit, s) \/ Told(w, s) \/ ~b.kitUp

(* The Kit's farewell goes to the session it is about. *)
Addressed(w) == \A i \in 1..Len(w) : w[i].type = "disconnected" => w[i].to = {w[i].sess}

Knows == Filed(wsd, kit, storage.v) /\ Heard(wsd, toWsd) /\ Addressed(toWsd)

(* The types that the files have. *)
Typed(b, k, v) ==
    /\ b.uploading \in File /\ b.upload \in File /\ b.flight \in Flight /\ b.request \in Request
    /\ b.lastUploaded \in Nat /\ k.local \in File /\ k.clock \in Nat /\ k.ver \in Nat /\ v \in Nat

(* The type invariant gives the types of the files. *)
LEMMA TypesTyped ==
    ASSUME TypeOK
    PROVE  /\ Shaped(wsd) /\ Typed(wsd, kit, storage.v)
           /\ wsd.toKit \in Seq(KitRequest) /\ toWsd \in Seq(KitAnswer)
<1>1. /\ wsd.toKit \in Seq(KitRequest) /\ wsd.sess \in [Sessions -> SessionStates]
      /\ DOMAIN wsd = Fields
  BY DEF TypeOK, IsBroker, PollThread, ClientSessions
<1>2. Shaped(wsd)
  BY <1>1 DEF Shaped, IsQueue
<1>3. /\ wsd.uploading \in File /\ wsd.upload \in File /\ wsd.flight \in Flight
      /\ wsd.request \in Request /\ wsd.lastUploaded \in Nat
  BY DEF TypeOK, IsBroker, StorageManager
<1>4. kit.local \in File /\ kit.clock \in Nat /\ kit.ver \in Nat /\ storage.v \in Nat
  BY DEF TypeOK, KitState, StorageState
<1> QED  BY <1>1, <1>2, <1>3, <1>4 DEF Typed, TypeOK

(* A step leaves nobody waiting for nothing. *)
LEMMA StepsHeard ==
    ASSUME NEW b, NEW c, Waits(b, c), NEW w, Heard(b, w) PROVE Heard(c, w)
BY DEF Waits, Heard

(* A step keeps what is known of the files. *)
LEMMA StepsFiled ==
    ASSUME NEW b, NEW c, Passes(b, c), NEW k, NEW v, Typed(b, k, v), Filed(b, k, v)
    PROVE  Filed(c, k, v)
<1>1. CASE "overlap" \in c.seen
  BY <1>1 DEF Filed
<1>2. CASE "overlap" \notin c.seen
  <2>1. /\ b.flight.kind # "none" => b.request.kind = b.flight.kind /\ b.request.t = b.flight.t
        /\ Copies(b.lastUploaded, b.flight, b.uploading, b.upload, k.local, k.clock, v)
    BY <1>2 DEF Passes, Sends, Filed
  <2>2. c.upload = b.upload /\ c.uploading = b.uploading /\ c.lastUploaded = b.lastUploaded
    BY DEF Passes, Sends
  <2>3. CASE c.flight = b.flight /\ c.request = b.request
    BY <2>1, <2>2, <2>3 DEF Filed
  <2>4. CASE b.flight.kind = "none" /\ c.flight.kind = "none"
    BY <2>1, <2>2, <2>4 DEF Filed, Copies
  <2>5. CASE b.flight.kind = "none" /\ Describes(c.request, c.flight, b.uploading)
    <3>1. /\ c.flight.t = b.uploading.t /\ c.flight.v = b.uploading.v /\ b.uploading.t # 0
          /\ c.request.kind = c.flight.kind /\ c.request.t = c.flight.t
      BY <2>5 DEF Describes, Exists
    <3>2. b.uploading.t \in Nat /\ b.lastUploaded \in Nat /\ k.local.t \in Nat
      BY DEF Typed, File
    <3>3. Copies(b.lastUploaded, c.flight, b.uploading, b.upload, k.local, k.clock, v)
      BY <2>1, <3>1, <3>2 DEF Copies, Exists
    <3> QED  BY <2>2, <3>1, <3>3 DEF Filed
  <2> QED  BY <1>2, <2>3, <2>4, <2>5 DEF Passes, Sends
<1> QED  BY <1>1, <1>2

(* The answer of a save: .upload becomes .uploading. *)
LEMMA MovesFiled ==
    ASSUME NEW b, NEW c, Moves(b, c), NEW k, NEW v, Typed(b, k, v), Filed(b, k, v)
    PROVE  Filed(c, k, v) /\ Typed(c, k, v)
<1>1. Typed(c, k, v)
  <2>1. NoFile \in File
    BY DEF NoFile, File
  <2> QED  BY <2>1 DEF Moves, Typed
<1>2. CASE "overlap" \in b.seen
  BY <1>1, <1>2 DEF Moves, Filed
<1>3. CASE ~Exists(b.upload)
  BY <1>1, <1>3 DEF Moves, Filed
<1>4. CASE "overlap" \notin b.seen /\ Exists(b.upload)
  <2>1. /\ b.flight.kind # "none" => b.request.kind = b.flight.kind /\ b.request.t = b.flight.t
        /\ Copies(b.lastUploaded, b.flight, b.uploading, b.upload, k.local, k.clock, v)
    BY <1>4 DEF Filed
  <2>2. /\ b.uploading.t \in Nat /\ b.upload.t \in Nat /\ b.lastUploaded \in Nat
        /\ b.flight.t \in Nat /\ k.clock \in Nat
    BY DEF Typed, File, Flight
  <2>3. NoFile.t = 0
    BY DEF NoFile
  <2>4. Copies(b.lastUploaded, b.flight, b.upload, NoFile, k.local, k.clock, v)
    BY <1>4, <2>1, <2>2, <2>3 DEF Copies, Exists
  <2> QED  BY <1>1, <1>4, <2>1, <2>4 DEF Filed, Moves
<1> QED  BY <1>1, <1>2, <1>3, <1>4

(* The answer of the host: w is the version there now. *)
LEMMA LandsFiled ==
    ASSUME NEW b, NEW c, NEW result, Lands(b, c, result), NEW k, NEW v, NEW w,
           Typed(b, k, v), Filed(b, k, v), b.flight.kind # "none",
           w = v \/ (b.flight.kind = "put" /\ w = b.flight.v),
           result = "OK" /\ b.flight.kind = "put" => w = b.flight.v
    PROVE  Filed(c, k, w) /\ Typed(c, k, w)
<1>1. Typed(c, k, w)
  <2>1. NoFlight \in Flight /\ b.flight.v \in Nat /\ b.request.t \in Nat
    BY DEF NoFlight, Flight, Typed, Request
  <2> QED  BY <2>1 DEF Lands, Typed
<1>2. CASE "overlap" \in b.seen
  BY <1>1, <1>2 DEF Lands, Filed
<1>3. CASE "overlap" \notin b.seen
  <2>1. /\ b.request.kind = b.flight.kind /\ b.request.t = b.flight.t
        /\ Copies(b.lastUploaded, b.flight, b.uploading, b.upload, k.local, k.clock, v)
    BY <1>3 DEF Filed
  <2>2. /\ b.uploading.t \in Nat /\ b.upload.t \in Nat /\ b.lastUploaded \in Nat
        /\ b.flight.t \in Nat /\ k.clock \in Nat /\ k.local.t \in Nat
        /\ b.flight.kind \in {"none", "put", "rename"}
    BY DEF Typed, File, Flight
  <2>3. NoFlight.kind = "none"
    BY DEF NoFlight
  <2>4. c.lastUploaded = IF result = "OK" /\ b.flight.kind # "rename"
                         THEN b.flight.t ELSE b.lastUploaded
    BY <2>1 DEF Lands
  <2>5. Copies(c.lastUploaded, NoFlight, b.uploading, b.upload, k.local, k.clock, w)
    <3>1. CASE result = "OK" /\ b.flight.kind = "put"
      <4>1. c.lastUploaded = b.flight.t /\ w = b.flight.v
        BY <2>4, <3>1
      <4> QED  BY <2>1, <2>2, <2>3, <4>1 DEF Copies, Exists
    <3>2. CASE ~(result = "OK" /\ b.flight.kind = "put") /\ w = v
      <4>1. c.lastUploaded = b.lastUploaded
        BY <2>2, <2>4, <3>2
      <4> QED  BY <2>1, <2>2, <2>3, <3>2, <4>1 DEF Copies, Exists
    <3>3. CASE ~(result = "OK" /\ b.flight.kind = "put") /\ w = b.flight.v
      <4>1. c.lastUploaded = b.lastUploaded
        BY <2>2, <2>4, <3>3
      <4> QED  BY <2>1, <2>2, <2>3, <3>3, <4>1 DEF Copies, Exists
    <3> QED  BY <3>1, <3>2, <3>3
  <2> QED  BY <1>1, <2>3, <2>5 DEF Filed, Lands
<1> QED  BY <1>1, <1>2, <1>3

(* The first session downloads the document, whose file has the time 1. *)
LEMMA DownloadedFiled ==
    ASSUME NEW b, NEW c, NEW k, NEW v, Typed(b, k, v), Filed(b, k, v), c.seen = b.seen,
           c.flight = b.flight, c.request = b.request, c.upload = b.upload,
           c.uploading = b.uploading, c.lastUploaded = 1
    PROVE  Filed(c, k, v) /\ Typed(c, k, v)
<1>1. Typed(c, k, v)
  BY DEF Typed
<1>2. CASE "overlap" \in b.seen
  BY <1>1, <1>2 DEF Filed
<1>3. CASE "overlap" \notin b.seen
  <2>1. /\ b.flight.kind # "none" => b.request.kind = b.flight.kind /\ b.request.t = b.flight.t
        /\ Copies(b.lastUploaded, b.flight, b.uploading, b.upload, k.local, k.clock, v)
    BY <1>3 DEF Filed
  <2>2. Copies(1, b.flight, b.uploading, b.upload, k.local, k.clock, v)
    BY <2>1 DEF Copies
  <2> QED  BY <1>1, <2>1, <2>2 DEF Filed
<1> QED  BY <1>2, <1>3

(* A session is set to a state in which it does not wait for the Kit. *)
LEMMA SessionStateSteps ==
    ASSUME NEW b, Shaped(b), NEW s, NEW state, state # "WAIT_DISCONNECT"
    PROVE  Steps(b, [b EXCEPT !.sess[s] = state])
<1> DEFINE c == [b EXCEPT !.sess[s] = state]
<1>1. /\ DOMAIN c = Fields /\ c.toKit = b.toKit /\ c.kitUp = b.kitUp
      /\ c.sess = [b.sess EXCEPT ![s] = state]
      /\ c.upload = b.upload /\ c.uploading = b.uploading /\ c.lastUploaded = b.lastUploaded
      /\ c.flight = b.flight /\ c.request = b.request /\ c.seen = b.seen
      /\ c.loaded = b.loaded /\ c.status = b.status
  BY DEF Shaped
<1>2. /\ DOMAIN c.sess = Sessions
      /\ \A r \in Sessions : c.sess[r] = IF r = s THEN state ELSE b.sess[r]
  BY <1>1 DEF Shaped
<1> HIDE DEF c
<1>3. Steps(b, c)
  BY <1>1, <1>2 DEF Shaped, Steps, Waits, Sends
<1> QED  BY <1>3 DEF c

(* addSession() keeps what is known of files and requests. *)
LEMMA AddedSessionKeeps ==
    ASSUME NEW b, Shaped(b), NEW s, NEW k, NEW v, Typed(b, k, v), Filed(b, k, v)
    PROVE  Filed(AddedSession(b, s), k, v) /\ Waits(b, AddedSession(b, s))
<1> DEFINE d == [b EXCEPT !.status = "Loading", !.lastModified = 1, !.lastUploaded = 1]
           c == IF HasStorage(b) THEN b ELSE d
           e == [c EXCEPT !.sess[s] = "LOADING"]
<1>1. /\ DOMAIN d = Fields /\ d.toKit = b.toKit /\ d.kitUp = b.kitUp /\ d.sess = b.sess
      /\ d.upload = b.upload /\ d.uploading = b.uploading /\ d.lastUploaded = 1
      /\ d.flight = b.flight /\ d.request = b.request /\ d.seen = b.seen
  BY DEF Shaped
<1> HIDE DEF d
<1>2. Filed(d, k, v) /\ Typed(d, k, v)
  BY <1>1, DownloadedFiled
<1>3. Shaped(c) /\ Waits(b, c) /\ Filed(c, k, v) /\ Typed(c, k, v)
  BY <1>1, <1>2 DEF Shaped, Waits
<1> HIDE DEF c
<1>4. Steps(c, e)
  BY <1>3, SessionStateSteps
<1> HIDE DEF e
<1>5. Steps(e, ForwardToChild(e, "session", s, FALSE))
  BY <1>4, ForwardToChildSteps DEF Steps
<1>6. Steps(c, ForwardToChild(e, "session", s, FALSE))
  BY <1>4, <1>5, StepsTwice
<1>7. Waits(b, ForwardToChild(e, "session", s, FALSE))
  BY <1>3, <1>6 DEF Steps, Waits
<1>8. Filed(ForwardToChild(e, "session", s, FALSE), k, v)
  BY <1>3, <1>6, StepsFiled DEF Steps, Passes
<1>9. AddedSession(b, s) = ForwardToChild(e, "session", s, FALSE)
  BY DEF AddedSession, e, c, d
<1> QED  BY <1>7, <1>8, <1>9

(* A view that is loaded moves no file; the first one makes the document live. *)
LEMMA ViewLoadedPasses ==
    ASSUME NEW b, Shaped(b), NEW s
    PROVE  /\ Passes(b, ViewLoaded(b, s)) /\ ViewLoaded(b, s).loaded
           /\ ViewLoaded(b, s).status = IF b.loaded THEN b.status ELSE "Live"
<1> DEFINE c == [b EXCEPT !.interactive = FALSE,
                          !.sess[s] = IF @ = "WAIT_DISCONNECT" THEN @ ELSE "LIVE"]
           v == ViewLoaded(b, s)
<1>1. /\ DOMAIN c = Fields /\ c.toKit = b.toKit /\ c.kitUp = b.kitUp
      /\ c.sess = [b.sess EXCEPT ![s] = IF @ = "WAIT_DISCONNECT" THEN @ ELSE "LIVE"]
      /\ c.upload = b.upload /\ c.uploading = b.uploading /\ c.lastUploaded = b.lastUploaded
      /\ c.flight = b.flight /\ c.request = b.request /\ c.seen = b.seen
      /\ c.loaded = b.loaded /\ c.status = b.status
  BY DEF Shaped
<1>2. /\ DOMAIN c.sess = Sessions
      /\ \A r \in Sessions : c.sess[r] = "WAIT_DISCONNECT" => b.sess[r] = "WAIT_DISCONNECT"
  BY <1>1 DEF Shaped
<1>3. v = IF c.loaded THEN c ELSE [c EXCEPT !.loaded = TRUE, !.status = "Live"]
  BY DEF ViewLoaded
<1> HIDE DEF c, v
<1>4. /\ DOMAIN v = Fields /\ v.toKit = c.toKit /\ v.kitUp = c.kitUp /\ v.sess = c.sess
      /\ v.upload = c.upload /\ v.uploading = c.uploading /\ v.lastUploaded = c.lastUploaded
      /\ v.flight = c.flight /\ v.request = c.request /\ v.seen = c.seen
      /\ v.loaded /\ v.status = IF c.loaded THEN c.status ELSE "Live"
  BY <1>1, <1>3
<1>5. Passes(b, v)
  BY <1>1, <1>2, <1>4 DEF Shaped, Passes, Waits, Sends
<1> QED  BY <1>1, <1>4, <1>5 DEF v

(* A message of the Kit is a step, but for the answer of a save and the
   status of a view. *)
LEMMA HandleKitToClientMessageSteps ==
    ASSUME NEW b, Shaped(b), NEW m \in KitAnswer, NEW timers
    PROVE  \/ Steps(b, HandleKitToClientMessage(b, m, timers))
           \/ \E c : Moves(b, c) /\ Steps(c, HandleKitToClientMessage(b, m, timers))
           \/ /\ m.type = "status" /\ m.to \cap InMap(b) # {}
              /\ HandleKitToClientMessage(b, m, timers) = ViewLoaded(b, m.sess)
<1> DEFINE h == HandleKitToClientMessage(b, m, timers)
<1>1. CASE m.to \cap InMap(b) = {}
  BY <1>1, StepsSame DEF HandleKitToClientMessage
<1>2. CASE m.to \cap InMap(b) # {} /\ m.type = "status"
  BY <1>2 DEF HandleKitToClientMessage
<1>3. CASE m.to \cap InMap(b) # {} /\ m.type = "jsdialog"
  <2>1. Quiet(b, [b EXCEPT !.interactive = TRUE])
    BY DEF Shaped, Quiet
  <2>2. h \in {b, [b EXCEPT !.interactive = TRUE]}
    BY <1>3 DEF HandleKitToClientMessage
  <2> QED  BY <2>1, <2>2, QuietSteps, StepsSame
<1>4. CASE m.to \cap InMap(b) # {} /\ m.type = "modified"
  <2>1. Quiet(b, [b EXCEPT !.modified = (m.flag = "true")])
    BY DEF Shaped, Quiet
  <2>2. h = [b EXCEPT !.modified = (m.flag = "true")]
    BY <1>4 DEF HandleKitToClientMessage
  <2> QED  BY <2>1, <2>2, QuietSteps
<1>5. CASE m.to \cap InMap(b) # {} /\ m.type = "saved"
  <2>1. h = HandleSaveResponse(b, m.sess, m.result, m.flag, timers)
    BY <1>5 DEF HandleKitToClientMessage
  <2> QED  BY <2>1, HandleSaveResponseMoves
<1>6. CASE m.to \cap InMap(b) # {} /\ m.type = "disconnected"
  <2>1. h = FinalRemoveSession(b, m.sess)
    BY <1>6 DEF HandleKitToClientMessage
  <2> QED  BY <2>1, FinalRemoveSessionSteps
<1>7. m.type \in {"status", "jsdialog", "saved", "disconnected", "modified"}
  BY DEF KitAnswer
<1> QED  BY <1>1, <1>2, <1>3, <1>4, <1>5, <1>6, <1>7

(* The farewell of the Kit ends the waiting. *)
LEMMA FarewellEndsWaiting ==
    ASSUME NEW b, Shaped(b), NEW m, NEW timers, m.type = "disconnected", m.to = {m.sess},
           m.sess \in Sessions, b.sess[m.sess] = "WAIT_DISCONNECT"
    PROVE  HandleKitToClientMessage(b, m, timers).sess[m.sess] # "WAIT_DISCONNECT"
<1>1. m.to \cap InMap(b) # {}
  BY DEF InMap
<1>2. HandleKitToClientMessage(b, m, timers) = FinalRemoveSession(b, m.sess)
  BY <1>1 DEF HandleKitToClientMessage
<1> QED  BY <1>2, FinalRemoveSessionSteps
-----------------------------------------------------------------------------
(* The actions. *)

(* A step of the broker alone. *)
LEMMA StepKnows ==
    ASSUME TypeOK, Knows, Steps(wsd, wsd'), toWsd' = toWsd, storage'.v = storage.v,
           kit'.local = kit.local, kit'.clock = kit.clock
    PROVE  Knows'
<1>1. Filed(wsd', kit, storage.v)
  BY TypesTyped, StepsFiled DEF Knows, Steps, Passes
<1>2. Filed(wsd', kit', storage'.v)
  BY <1>1 DEF Filed
<1>3. Heard(wsd', toWsd)
  BY StepsHeard DEF Knows, Steps
<1> QED  BY <1>2, <1>3 DEF Knows

(* A message is added to what the Kit has sent. *)
LEMMA AnswerAppends ==
    ASSUME NEW w \in Seq(KitAnswer), NEW m, Addressed(w),
           m.type = "disconnected" => m.to = {m.sess}
    PROVE  /\ Addressed(Append(w, m))
           /\ \A s : Told(w, s) => Told(Append(w, m), s)
           /\ m.type = "disconnected" => Told(Append(w, m), m.sess)
<1>1. /\ w \in Seq(KitAnswer \cup {m}) /\ m \in KitAnswer \cup {m}
  OBVIOUS
<1>2. /\ Len(w) \in Nat /\ Len(Append(w, m)) = Len(w) + 1
      /\ \A i \in 1..Len(w) : Append(w, m)[i] = w[i]
      /\ Append(w, m)[Len(w) + 1] = m
  BY <1>1
<1>3. /\ 1..Len(w) \subseteq 1..Len(Append(w, m)) /\ Len(w) + 1 \in 1..Len(Append(w, m))
      /\ \A i \in 1..Len(Append(w, m)) : i \in 1..Len(w) \/ i = Len(w) + 1
  BY <1>2
<1>4. Addressed(Append(w, m))
  BY <1>2, <1>3 DEF Addressed
<1>5. \A s : Told(w, s) => Told(Append(w, m), s)
  BY <1>2, <1>3 DEF Told
<1>6. m.type = "disconnected" => Told(Append(w, m), m.sess)
  BY <1>2, <1>3 DEF Told
<1> QED  BY <1>4, <1>5, <1>6

(* More answers of the Kit do no harm. *)
LEMMA HeardMore ==
    ASSUME NEW b, NEW w, NEW x, Heard(b, w), \A s : Told(w, s) => Told(x, s)
    PROVE  Heard(b, x)
BY DEF Heard

(* Taking a request away: the others stay. *)
LEMMA RequestTaken ==
    ASSUME NEW q \in Seq(KitRequest), q # <<>>, NEW s, Asked(q, s)
    PROVE  Asked(Tail(q), s) \/ (Head(q).type = "disconnect" /\ Head(q).sess = s)
<1>1. PICK i \in 1..Len(q) : q[i].type = "disconnect" /\ q[i].sess = s
  BY DEF Asked
<1>2. CASE i = 1
  BY <1>1, <1>2
<1>3. CASE i # 1
  <2>1. i - 1 \in 1..Len(Tail(q)) /\ Tail(q)[i - 1] = q[i]
    BY <1>3
  <2> QED  BY <1>1, <2>1 DEF Asked
<1> QED  BY <1>2, <1>3

(* The Kit takes a request that is no farewell. *)
LEMMA TakenSteps ==
    ASSUME NEW b, Shaped(b), b.toKit \in Seq(KitRequest), b.toKit # <<>>,
           Head(b.toKit).type # "disconnect"
    PROVE  Steps(b, [b EXCEPT !.toKit = Tail(@)])
<1> DEFINE q == Tail(b.toKit)
           c == [b EXCEPT !.toKit = q]
<1>1. IsQueue(q)
  BY DEF IsQueue
<1>2. \A s : Asked(b.toKit, s) => Asked(q, s)
  BY RequestTaken
<1> HIDE DEF q
<1>3. /\ DOMAIN c = Fields /\ c.toKit = q /\ c.sess = b.sess /\ c.kitUp = b.kitUp
      /\ c.upload = b.upload /\ c.uploading = b.uploading /\ c.lastUploaded = b.lastUploaded
      /\ c.flight = b.flight /\ c.request = b.request /\ c.seen = b.seen
      /\ c.loaded = b.loaded /\ c.status = b.status
  BY DEF Shaped
<1> HIDE DEF c
<1>4. Steps(b, c)
  BY <1>1, <1>2, <1>3 DEF Shaped, Steps, Waits, Sends
<1> QED  BY <1>4 DEF c, q

(* Sessions and commands, but for the session that is added. *)
LEMMA ClientSteps ==
    ASSUME Shaped(wsd), NEW s \in Sessions,
           \/ CreateNewClientSession(s) \/ AddSessionFails(s)
           \/ LoadDocument(s) \/ Edit(s) \/ OtherActivity(s) \/ ManualSave(s)
           \/ SaveToStorage(s) \/ RenameFile(s) \/ CloseDocumentCommand(s)
           \/ VersionRestore(s) \/ ClientDisconnect(s)
    PROVE  Steps(wsd, wsd')
<1>1. CASE CreateNewClientSession(s)
  <2>1. wsd' = [wsd EXCEPT !.sess[s] = "CREATED"]
    BY <1>1 DEF CreateNewClientSession
  <2> QED  BY <2>1, SessionStateSteps
<1>2. CASE AddSessionFails(s)
  <2> DEFINE c == [wsd EXCEPT !.sess[s] = "REJECTED"]
  <2>1. Steps(wsd, c)
    BY SessionStateSteps
  <2>2. wsd' = IF InMap(c) = {} THEN MarkToDestroy(c) ELSE c
    BY <1>2 DEF AddSessionFails
  <2> HIDE DEF c
  <2>3. Steps(wsd, MarkToDestroy(c))
    BY <2>1, MarkToDestroyQuiet, ThenQuiet DEF Steps
  <2> QED  BY <2>1, <2>2, <2>3
<1>3. CASE LoadDocument(s)
  <2> DEFINE c == [wsd EXCEPT !.docUrl = @ \cup {s}, !.activityAfter = TRUE]
  <2>1. Quiet(wsd, c)
    BY DEF Shaped, Quiet
  <2> HIDE DEF c
  <2>2. Steps(wsd, c) /\ Shaped(c)
    BY <2>1, QuietSteps DEF Steps
  <2>3. Steps(wsd, ForwardToChild(c, "load", s, FALSE))
    BY <2>2, ForwardToChildSteps, StepsTwice
  <2>4. wsd' = ForwardToChild(c, "load", s, FALSE)
    BY <1>3 DEF LoadDocument, c
  <2> QED  BY <2>3, <2>4
<1> DEFINE u == UserActivity(wsd, s)
<1>4. Quiet(wsd, u)
  BY DEF Shaped, Quiet, UserActivity
<1> HIDE DEF u
<1>5. Steps(wsd, u) /\ Shaped(u)
  BY <1>4, QuietSteps DEF Steps
<1>6. CASE Edit(s)
  <2> DEFINE c == [u EXCEPT !.modifyAfter = TRUE]
  <2>1. Quiet(u, c)
    BY <1>5 DEF Shaped, Quiet
  <2> HIDE DEF c
  <2>2. Steps(wsd, c) /\ Shaped(c)
    BY <1>5, <2>1, ThenQuiet DEF Steps
  <2>3. Steps(wsd, ForwardToChild(c, "edit", s, FALSE))
    BY <2>2, ForwardToChildSteps, StepsTwice
  <2>4. wsd' = ForwardToChild(c, "edit", s, FALSE)
    BY <1>6 DEF Edit, c, u
  <2> QED  BY <2>3, <2>4
<1>7. CASE OtherActivity(s)
  BY <1>5, <1>7 DEF OtherActivity, u
<1>8. CASE ManualSave(s)
  <2>1. PICK dsiu \in BOOLEAN : wsd' = IF u.activity = "Save" THEN u ELSE SendUnoSave(u, s, dsiu)
    BY <1>8 DEF ManualSave, u
  <2>2. Steps(wsd, SendUnoSave(u, s, dsiu))
    BY <1>5, SendUnoSaveSteps, StepsTwice
  <2> QED  BY <1>5, <2>1, <2>2
<1>9. CASE SaveToStorage(s)
  <2>1. PICK timers, force : wsd' = UploadToStorage(u, s, force, timers)
    BY <1>9 DEF SaveToStorage, u
  <2>2. Steps(wsd, UploadToStorage(u, s, force, timers))
    BY <1>5, UploadToStorageSteps, StepsTwice
  <2> QED  BY <2>1, <2>2
<1>10. CASE RenameFile(s)
  <2> DEFINE c == [u EXCEPT !.renameSession = s]
  <2>1. Quiet(u, c)
    BY <1>5 DEF Shaped, Quiet
  <2>2. wsd' \in {u, c, StartRenameFileCommand(c)}
    BY <1>10 DEF RenameFile, u
  <2> HIDE DEF c
  <2>3. Steps(wsd, c) /\ Shaped(c)
    BY <1>5, <2>1, ThenQuiet DEF Steps
  <2>4. Steps(wsd, StartRenameFileCommand(c))
    BY <2>3, StartRenameFileCommandSteps, StepsTwice
  <2> QED  BY <1>5, <2>2, <2>3, <2>4
<1> DEFINE k == Discarding(u)
<1>11. Quiet(u, k)
  BY <1>5 DEF Shaped, Quiet, Discarding
<1> HIDE DEF k
<1>12. Steps(wsd, k) /\ Shaped(k)
  BY <1>5, <1>11, ThenQuiet DEF Steps
<1>13. Steps(wsd, CloseDocument(k)) /\ Steps(wsd, Stop(k))
  BY <1>12, CloseDocumentSteps, StepsTwice, StopQuiet, ThenQuiet
<1>14. CASE CloseDocumentCommand(s)
  <2>1. wsd' \in {CloseDocument(k), Stop(k), k}
    BY <1>14 DEF CloseDocumentCommand, u, k
  <2> QED  BY <1>12, <1>13, <2>1
<1>15. CASE VersionRestore(s)
  BY <1>13, <1>15 DEF VersionRestore, u, k
<1>16. CASE ClientDisconnect(s)
  <2> DEFINE r == RemoveSession(wsd, s)
             c == [r EXCEPT !.closed = @ \cup {s}]
  <2>1. Steps(wsd, r) /\ Shaped(r)
    BY RemoveSessionSteps DEF Steps
  <2>2. wsd' = c
    BY <1>16 DEF ClientDisconnect
  <2> HIDE DEF r
  <2>3. Quiet(r, c)
    BY <2>1 DEF Shaped, Quiet
  <2>4. Steps(wsd, c)
    BY <2>1, <2>3, ThenQuiet
  <2> QED  BY <2>2, <2>4
<1> QED  BY <1>1, <1>2, <1>3, <1>6, <1>7, <1>8, <1>9, <1>10, <1>14, <1>15, <1>16

(* Sessions and commands. *)
LEMMA ClientStepKnows ==
    ASSUME TypeOK, Knows, NEW s \in Sessions,
           \/ CreateNewClientSession(s) \/ AddSession(s) \/ AddSessionFails(s)
           \/ LoadDocument(s) \/ Edit(s) \/ OtherActivity(s) \/ ManualSave(s)
           \/ SaveToStorage(s) \/ RenameFile(s) \/ CloseDocumentCommand(s)
           \/ VersionRestore(s) \/ ClientDisconnect(s)
    PROVE  Knows'
<1>1. Shaped(wsd) /\ Typed(wsd, kit, storage.v)
  BY TypesTyped
<1>2. UNCHANGED <<kit, toWsd, storage>>
  BY DEF CreateNewClientSession, AddSession, AddSessionFails, LoadDocument, Edit,
         OtherActivity, ManualSave, SaveToStorage, RenameFile, CloseDocumentCommand,
         VersionRestore, ClientDisconnect
<1>3. CASE AddSession(s)
  <2>1. wsd' = AddedSession(wsd, s)
    BY <1>3 DEF AddSession
  <2>2. Filed(wsd', kit, storage.v) /\ Waits(wsd, wsd')
    BY <1>1, <2>1, AddedSessionKeeps DEF Knows
  <2>3. Heard(wsd', toWsd)
    BY <2>2, StepsHeard DEF Knows
  <2> QED  BY <1>2, <2>2, <2>3 DEF Knows
<1> QED  BY <1>1, <1>2, <1>3, ClientSteps, StepKnows

(* A step of the broker with an answer of the Kit that is no farewell. *)
LEMMA AnsweredKnows ==
    ASSUME TypeOK, Knows, Steps(wsd, wsd'), storage' = storage, kit'.local = kit.local,
           kit'.clock = kit.clock, NEW type, NEW to, NEW s, NEW result, NEW flag,
           Answer(type, to, s, result, flag), type # "disconnected"
    PROVE  Knows'
<1> DEFINE m == [type |-> type, to |-> to, sess |-> s, result |-> result, flag |-> flag]
<1>1. toWsd' = Append(toWsd, m) /\ m.type # "disconnected"
  BY DEF Answer
<1> HIDE DEF m
<1>2. Addressed(toWsd') /\ \A r : Told(toWsd, r) => Told(toWsd', r)
  BY <1>1, TypesTyped, AnswerAppends DEF Knows
<1>3. Heard(wsd', toWsd)
  BY StepsHeard DEF Knows, Steps
<1>4. Heard(wsd', toWsd')
  BY <1>2, <1>3, HeardMore
<1>5. Filed(wsd', kit, storage.v)
  BY TypesTyped, StepsFiled DEF Knows, Steps, Passes
<1>6. Filed(wsd', kit', storage'.v)
  BY <1>5 DEF Filed
<1> QED  BY <1>2, <1>4, <1>6 DEF Knows

(* The Kit saves: a file that is newer than all others, or the one from the
   download, is left in .upload. *)
LEMMA KitSaveKnows ==
    ASSUME TypeOK, Knows, NEW result \in SaveResults, KitSave(result) PROVE Knows'
<1> DEFINE s == Head(wsd.toKit).sess
           written == [t |-> kit.clock + 1, v |-> kit.ver]
           file == IF result = "ok" THEN written ELSE kit.local
           was == IF ReportsWasModified
                  THEN IF kit.modified THEN "true" ELSE "false" ELSE "absent"
           m == [type |-> "saved", to |-> {s}, sess |-> s, result |-> result, flag |-> was]
           q == Tail(wsd.toKit)
           up == IF Exists(file) THEN file ELSE wsd.upload
<1>1. /\ Shaped(wsd) /\ Typed(wsd, kit, storage.v) /\ wsd.toKit \in Seq(KitRequest)
      /\ toWsd \in Seq(KitAnswer) /\ kit \in KitState
  BY TypesTyped DEF TypeOK
<1>2. wsd.toKit # <<>> /\ Head(wsd.toKit).type # "disconnect"
  BY DEF KitSave, KitReads
<1>3. wsd' = [wsd EXCEPT !.toKit = q, !.upload = up]
  BY DEF KitSave
<1>4. /\ DOMAIN wsd' = Fields /\ wsd'.toKit = q /\ wsd'.sess = wsd.sess /\ wsd'.kitUp = wsd.kitUp
      /\ wsd'.upload = up /\ wsd'.uploading = wsd.uploading
      /\ wsd'.lastUploaded = wsd.lastUploaded
      /\ wsd'.flight = wsd.flight /\ wsd'.request = wsd.request /\ wsd'.seen = wsd.seen
  <2> HIDE DEF q, up
  <2> QED  BY <1>1, <1>3 DEF Shaped
<1>5. \A r : Asked(wsd.toKit, r) => Asked(q, r)
  BY <1>1, <1>2, RequestTaken
<1>6. Heard(wsd', toWsd)
  <2> HIDE DEF q, up
  <2> QED  BY <1>4, <1>5 DEF Heard, Knows
<1>7. toWsd' = Append(toWsd, m) /\ m.type # "disconnected"
  BY DEF KitSave, Answer
<1>8. Addressed(toWsd') /\ Heard(wsd', toWsd')
  <2> HIDE DEF m
  <2>1. Addressed(toWsd') /\ \A r : Told(toWsd, r) => Told(toWsd', r)
    BY <1>1, <1>7, AnswerAppends DEF Knows
  <2> QED  BY <1>6, <2>1, HeardMore
<1>9. storage' = storage /\ kit'.local = NoFile
      /\ kit'.clock = IF result = "ok" THEN kit.clock + 1 ELSE kit.clock
  BY <1>1 DEF KitSave, KitState
<1>10. Filed(wsd', kit', storage'.v)
  <2>1. CASE "overlap" \in wsd.seen
    BY <1>4, <2>1 DEF Filed
  <2>2. CASE "overlap" \notin wsd.seen
    <3> DEFINE last == wsd.lastUploaded
               fl == wsd.flight
               ing == wsd.uploading
               old == wsd.upload
               local == kit.local
               clock == kit.clock
               v == storage.v
               new == kit'.clock
    <3>1. /\ fl.kind # "none" => wsd.request.kind = fl.kind /\ wsd.request.t = fl.t
          /\ Copies(last, fl, ing, old, local, clock, v)
      BY <2>2 DEF Knows, Filed
    <3>2. /\ ing.t \in Nat /\ old.t \in Nat /\ last \in Nat /\ fl.t \in Nat /\ clock \in Nat
          /\ local.t \in Nat
      BY <1>1 DEF Typed, File, Flight
    <3>3. NoFile.t = 0
      BY DEF NoFile
    <3>4. new = IF result = "ok" THEN clock + 1 ELSE clock
      BY <1>9
    <3>5. /\ result = "ok" => up.t = clock + 1
          /\ result # "ok" /\ Exists(local) => up = local
          /\ result # "ok" /\ ~Exists(local) => up = old
      BY <3>2 DEF Exists
    <3> HIDE DEF last, fl, ing, old, local, clock, v, new, up, file
    <3>6. Copies(last, fl, ing, up, NoFile, new, v)
      <4>1. CASE result = "ok"
        BY <3>1, <3>2, <3>3, <3>4, <3>5, <4>1 DEF Copies, Exists
      <4>2. CASE result # "ok" /\ Exists(local)
        BY <3>1, <3>2, <3>3, <3>4, <3>5, <4>2 DEF Copies, Exists
      <4>3. CASE result # "ok" /\ ~Exists(local)
        BY <3>1, <3>2, <3>3, <3>4, <3>5, <4>3 DEF Copies, Exists
      <4> QED  BY <4>1, <4>2, <4>3
    <3> QED  BY <1>4, <1>9, <3>1, <3>6 DEF Filed, last, fl, ing, v, new
  <2> QED  BY <2>1, <2>2
<1> QED  BY <1>8, <1>10 DEF Knows

(* The Kit lets go of a session: it answers, or it is gone. *)
LEMMA KitDisconnectKnows ==
    ASSUME TypeOK, Knows, KitDisconnect PROVE Knows'
<1> DEFINE s == Head(wsd.toKit).sess
           up == kit.sessions \ {s} # {}
           q == IF up THEN Tail(wsd.toKit) ELSE <<>>
           m == [type |-> "disconnected", to |-> {s}, sess |-> s, result |-> "ok",
                 flag |-> "absent"]
<1>1. /\ Shaped(wsd) /\ Typed(wsd, kit, storage.v) /\ wsd.toKit \in Seq(KitRequest)
      /\ toWsd \in Seq(KitAnswer) /\ kit \in KitState
  BY TypesTyped DEF TypeOK
<1>2. wsd.toKit # <<>>
  BY DEF KitDisconnect, KitReads
<1>3. wsd' = [wsd EXCEPT !.toKit = q, !.kitUp = up]
  BY DEF KitDisconnect
<1>4. /\ DOMAIN wsd' = Fields /\ wsd'.toKit = q /\ wsd'.sess = wsd.sess /\ wsd'.kitUp = up
      /\ wsd'.upload = wsd.upload /\ wsd'.uploading = wsd.uploading
      /\ wsd'.lastUploaded = wsd.lastUploaded
      /\ wsd'.flight = wsd.flight /\ wsd'.request = wsd.request /\ wsd'.seen = wsd.seen
  <2> HIDE DEF q, up
  <2> QED  BY <1>1, <1>3 DEF Shaped
<1>5. toWsd' = Append(toWsd, m) /\ m.type = "disconnected" /\ m.to = {m.sess} /\ m.sess = s
  BY DEF KitDisconnect, Answer
<1>6. /\ Addressed(toWsd') /\ \A r : Told(toWsd, r) => Told(toWsd', r)
      /\ Told(toWsd', s)
  <2> HIDE DEF m, s
  <2> QED  BY <1>1, <1>5, AnswerAppends DEF Knows
<1>7. up => \A r : Asked(wsd.toKit, r) => Asked(q, r) \/ r = s
  BY <1>1, <1>2, RequestTaken
<1>8. Heard(wsd', toWsd')
  <2>1. wsd.kitUp
    BY DEF KitDisconnect, KitReads
  <2> HIDE DEF q, up, s, m
  <2> QED  BY <1>4, <1>6, <1>7, <2>1 DEF Heard, Knows
<1>9. storage' = storage /\ kit'.local = kit.local /\ kit'.clock = kit.clock
  BY <1>1 DEF KitDisconnect, KitState
<1>10. Filed(wsd', kit', storage'.v)
  <2> HIDE DEF q, up, s, m
  <2> QED  BY <1>4, <1>9 DEF Filed, Knows
<1> QED  BY <1>6, <1>8, <1>10 DEF Knows

(* The steps of the Kit. *)
LEMMA KitStepKnows ==
    ASSUME TypeOK, Knows,
           KitStep \/ KitDialog \/ KitStatus \/ KitNotifyModified \/ KitCrash
    PROVE  Knows'
<1> DEFINE s == Head(wsd.toKit).sess
           taken == [wsd EXCEPT !.toKit = Tail(@)]
<1>1. Shaped(wsd) /\ wsd.toKit \in Seq(KitRequest) /\ kit \in KitState
  BY TypesTyped DEF TypeOK
<1>2. ASSUME NEW type, type # "disconnect", KitReads(type) PROVE Steps(wsd, taken)
  <2>1. wsd.toKit # <<>> /\ Head(wsd.toKit).type # "disconnect"
    BY <1>2 DEF KitReads
  <2> QED  BY <1>1, <2>1, TakenSteps
<1>3. CASE KitSession
  <2>1. Steps(wsd, taken)
    BY <1>2, <1>3 DEF KitSession
  <2>2. kit'.local = kit.local /\ kit'.clock = kit.clock
    BY <1>1, <1>3 DEF KitSession, KitState
  <2> QED  BY <1>3, <2>1, <2>2, StepKnows DEF KitSession
<1>4. CASE KitLoad
  <2>1. Steps(wsd, taken)
    BY <1>2, <1>4 DEF KitLoad
  <2>2. kit'.local = kit.local /\ kit'.clock = kit.clock
    BY <1>1, <1>4 DEF KitLoad, KitState
  <2>3. Answer("status", {s}, s, "ok", "absent") /\ wsd' = taken /\ storage' = storage
    BY <1>4 DEF KitLoad
  <2> HIDE DEF s, taken
  <2> QED  BY <2>1, <2>2, <2>3, AnsweredKnows
<1>5. CASE KitDialog
  <2>1. Steps(wsd, wsd)
    BY <1>1, StepsSame
  <2>2. Answer("jsdialog", {s}, s, "ok", "absent") /\ wsd' = wsd /\ storage' = storage /\ kit' = kit
    BY <1>5 DEF KitDialog
  <2> HIDE DEF s
  <2> QED  BY <2>1, <2>2, AnsweredKnows
<1>6. CASE KitEdit
  <2>1. Steps(wsd, taken)
    BY <1>2, <1>6 DEF KitEdit
  <2>2. kit'.local = kit.local /\ kit'.clock = kit.clock
    BY <1>1, <1>6 DEF KitEdit, KitState
  <2> QED  BY <1>6, <2>1, <2>2, StepKnows DEF KitEdit
<1>7. CASE KitCannotSave
  <2>1. Steps(wsd, taken)
    BY <1>2, <1>7 DEF KitCannotSave
  <2> QED  BY <1>7, <2>1, StepKnows DEF KitCannotSave
<1>8. CASE KitExit \/ KitCrash
  <2>1. Steps(wsd, TerminateChild(wsd))
    BY <1>1, TerminateChildSteps
  <2> QED  BY <1>8, <2>1, StepKnows DEF KitExit, KitCrash
<1>9. CASE KitNotifyModified
  <2> DEFINE flag == IF kit.modified THEN "true" ELSE "false"
  <2>1. Steps(wsd, wsd)
    BY <1>1, StepsSame
  <2>2. Answer("modified", kit.views, 0, "ok", flag) /\ wsd' = wsd /\ storage' = storage
    BY <1>9 DEF KitNotifyModified
  <2>3. kit'.local = kit.local /\ kit'.clock = kit.clock
    BY <1>1, <1>9 DEF KitNotifyModified, KitState
  <2> HIDE DEF flag
  <2> QED  BY <2>1, <2>2, <2>3, AnsweredKnows
<1>10. CASE KitStatus
  <2>1. PICK r : Answer("status", {r}, r, "ok", "absent")
    BY <1>10 DEF KitStatus
  <2>2. Steps(wsd, wsd) /\ wsd' = wsd /\ storage' = storage /\ kit' = kit
    BY <1>1, <1>10, StepsSame DEF KitStatus
  <2> QED  BY <2>1, <2>2, AnsweredKnows
<1> HIDE DEF s, taken
<1> QED  BY <1>3, <1>4, <1>5, <1>6, <1>7, <1>8, <1>9, <1>10, KitSaveKnows, KitDisconnectKnows
         DEF KitStep

(* A message of the Kit is read. *)
LEMMA ForwardToClientKnows ==
    ASSUME TypeOK, Knows, ForwardToClient PROVE Knows'
<1> DEFINE m == Head(toWsd)
<1>1. /\ Shaped(wsd) /\ Typed(wsd, kit, storage.v) /\ toWsd \in Seq(KitAnswer)
  BY TypesTyped
<1>2. toWsd # <<>> /\ toWsd' = Tail(toWsd) /\ kit' = kit /\ storage' = storage
  BY DEF ForwardToClient
<1>3. m \in KitAnswer /\ m = toWsd[1] /\ 1 \in 1..Len(toWsd)
  BY <1>1, <1>2
<1>4. PICK timers : wsd' = HandleKitToClientMessage(wsd, m, timers)
  BY DEF ForwardToClient
<1>5. Filed(wsd', kit, storage.v) /\ Waits(wsd, wsd')
  <2> HIDE DEF m
  <2>1. CASE Passes(wsd, wsd')
    BY <1>1, <2>1, StepsFiled DEF Knows, Passes
  <2>2. ASSUME NEW c, Moves(wsd, c), Steps(c, wsd')
        PROVE  Filed(wsd', kit, storage.v) /\ Waits(wsd, wsd')
    <3>1. Filed(c, kit, storage.v) /\ Typed(c, kit, storage.v)
      BY <1>1, <2>2, MovesFiled DEF Knows
    <3>2. Waits(wsd, wsd')
      BY <2>2 DEF Moves, Steps, Waits
    <3> QED  BY <2>2, <3>1, <3>2, StepsFiled DEF Steps, Passes
  <2>3. CASE wsd' = ViewLoaded(wsd, m.sess)
    BY <1>1, <2>1, <2>3, ViewLoadedPasses
  <2> QED  BY <1>1, <1>3, <1>4, <2>1, <2>2, <2>3, HandleKitToClientMessageSteps DEF Steps, Passes
<1>6. \A i \in 1..Len(toWsd') : i + 1 \in 1..Len(toWsd) /\ toWsd'[i] = toWsd[i + 1]
  BY <1>1, <1>2
<1>7. Addressed(toWsd')
  BY <1>6 DEF Addressed, Knows
<1>8. ASSUME NEW s \in Sessions, wsd'.sess[s] = "WAIT_DISCONNECT",
             wsd.sess[s] = "WAIT_DISCONNECT", Told(toWsd, s)
      PROVE  Told(toWsd', s)
  <2>1. PICK i \in 1..Len(toWsd) : toWsd[i].type = "disconnected" /\ toWsd[i].sess = s
    BY <1>8 DEF Told
  <2>2. CASE i = 1
    <3>1. m.type = "disconnected" /\ m.sess = s
      BY <1>3, <2>1, <2>2
    <3>2. m.to = {m.sess}
      BY <1>3, <3>1 DEF Addressed, Knows
    <3> HIDE DEF m
    <3>3. wsd'.sess[m.sess] # "WAIT_DISCONNECT"
      BY <1>1, <1>4, <1>8, <3>1, <3>2, FarewellEndsWaiting
    <3> QED  BY <1>8, <3>1, <3>3
  <2>3. CASE i # 1
    <3>1. i - 1 \in 1..Len(toWsd') /\ toWsd'[i - 1] = toWsd[i]
      BY <1>1, <1>2, <2>3
    <3> QED  BY <2>1, <3>1 DEF Told
  <2> QED  BY <2>2, <2>3
<1>9. Heard(wsd', toWsd')
  <2> HIDE DEF m
  <2> QED  BY <1>5, <1>8 DEF Heard, Waits, Knows
<1> QED  BY <1>2, <1>5, <1>7, <1>9 DEF Knows

(* The host answers. *)
LEMMA UploadAnsweredKnows ==
    ASSUME TypeOK, Knows, NEW result \in UploadResults, NEW applied \in BOOLEAN,
           UploadAnswered(result, applied)
    PROVE  Knows'
<1>1. Shaped(wsd) /\ Typed(wsd, kit, storage.v)
  BY TypesTyped
<1>2. /\ wsd.flight.kind # "none" /\ UNCHANGED <<kit, toWsd>>
      /\ storage'.v = IF applied /\ wsd.flight.kind = "put" THEN wsd.flight.v ELSE storage.v
      /\ result = "OK" => applied
  BY DEF UploadAnswered
<1>3. PICK timers : wsd' = HandleUploadToStorageResponse(wsd, result, timers)
  BY DEF UploadAnswered
<1>4. PICK c : Lands(wsd, c, result) /\ Steps(c, wsd')
  BY <1>1, <1>3, HandleUploadToStorageResponseLands
<1>5. Filed(c, kit, storage'.v) /\ Typed(c, kit, storage'.v)
  BY <1>1, <1>2, <1>4, LandsFiled DEF Knows
<1>6. Filed(wsd', kit, storage'.v)
  BY <1>4, <1>5, StepsFiled DEF Steps, Passes
<1>7. Waits(wsd, wsd')
  BY <1>4 DEF Lands, Steps, Waits
<1>8. Heard(wsd', toWsd)
  BY <1>7, StepsHeard DEF Knows
<1> QED  BY <1>2, <1>6, <1>8 DEF Knows

(* One iteration of the polling loop. *)
LEMMA PollSteps == ASSUME Shaped(wsd), NEW timers, Poll(timers) PROVE Steps(wsd, wsd')
<1>1. ASSUME NEW c, Steps(wsd, c) PROVE Steps(wsd, EndIteration(c, timers))
  BY <1>1, EndIterationSteps, StepsTwice DEF Steps
<1>2. Steps(wsd, wsd) /\ Steps(wsd, Stop(wsd))
  BY StepsSame, StopQuiet, QuietSteps
<1>3. CASE PollInteractive
  <2> DEFINE b == Stop(wsd)
             c == [b EXCEPT !.seen = @ \cup {"dialog"}]
  <2>1. wsd' \in {c, wsd}
    BY <1>3 DEF PollInteractive
  <2>2. Steps(wsd, b)
    BY <1>2
  <2> HIDE DEF b
  <2>3. Quiet(b, c)
    BY <2>2 DEF Steps, Shaped, Quiet
  <2> QED  BY <1>2, <2>1, <2>2, <2>3, ThenQuiet
<1>4. CASE PollLoadTimeout(timers)
  <2>1. Steps(wsd, TerminateChild(wsd))
    BY TerminateChildSteps
  <2>2. Steps(wsd, Stop(TerminateChild(wsd)))
    BY <2>1, StopQuiet, ThenQuiet DEF Steps
  <2> QED  BY <1>4, <2>2 DEF PollLoadTimeout
<1>5. CASE PollRename(timers)
  BY <1>5, StartRenameFileCommandSteps DEF PollRename
<1>6. CASE PollIdle(timers)
  BY <1>1, <1>6, AutoSaveAndStopSteps DEF PollIdle
<1>7. CASE PollDead(timers)
  <2> DEFINE b == IF wsd.loaded THEN wsd ELSE Stop(wsd)
  <2>1. Steps(wsd, b)
    BY <1>2
  <2>2. wsd' = EndIteration(AutoSaveAndStop(b, timers), timers)
    BY <1>7 DEF PollDead
  <2> HIDE DEF b
  <2>3. Steps(wsd, AutoSaveAndStop(b, timers))
    BY <2>1, AutoSaveAndStopSteps, StepsTwice DEF Steps
  <2> QED  BY <1>1, <2>2, <2>3
<1>8. CASE PollLeaving(timers)
  <2> DEFINE b == Stop(wsd)
             c == [b EXCEPT !.seen = @ \cup {"giveup"}]
  <2>1. wsd' \in {c, EndIteration(AutoSaveAndStop(wsd, timers), timers)}
    BY <1>8 DEF PollLeaving
  <2>2. Steps(wsd, EndIteration(AutoSaveAndStop(wsd, timers), timers))
    BY <1>1, AutoSaveAndStopSteps
  <2>3. Steps(wsd, b)
    BY <1>2
  <2> HIDE DEF b
  <2>4. Quiet(b, c)
    BY <2>3 DEF Steps, Shaped, Quiet
  <2>5. Steps(wsd, c)
    BY <2>3, <2>4, ThenQuiet
  <2> QED  BY <2>1, <2>2, <2>5
<1>9. CASE PollAutoSave(timers)
  BY <1>1, <1>9, AutoSaveSteps DEF PollAutoSave
<1>10. CASE PollRetryUpload(timers)
  BY <1>1, <1>10, CheckAndUploadToStorageSteps DEF PollRetryUpload
<1>11. CASE PollSaving(timers)
  <2> DEFINE b == SetLastSaveResult(wsd, FALSE)
             c == [b EXCEPT !.activity = "None"]
  <2>1. Steps(wsd, b)
    BY SetLastSaveResultQuiet, QuietSteps
  <2>2. wsd' = EndIteration(c, timers)
    BY <1>11 DEF PollSaving, GiveUpSaving
  <2> HIDE DEF b
  <2>3. Quiet(b, c)
    BY <2>1 DEF Steps, Shaped, Quiet
  <2>4. Steps(wsd, c)
    BY <2>1, <2>3, ThenQuiet
  <2> QED  BY <1>1, <2>2, <2>4
<1>12. CASE PollNothing(timers)
  BY <1>1, <1>2, <1>12 DEF PollNothing
<1> QED  BY <1>3, <1>4, <1>5, <1>6, <1>7, <1>8, <1>9, <1>10, <1>11, <1>12 DEF Poll

(* After the loop. *)
LEMMA ExitSteps ==
    ASSUME Shaped(wsd), PollExit \/ FlushEnds \/ ShutdownClient \/ Finish
    PROVE  Steps(wsd, wsd')
<1>1. CASE PollExit
  <2> DEFINE b == IF InMap(wsd) = {} THEN ForwardToChild(wsd, "exit", 0, FALSE) ELSE wsd
             loss == /\ b.modified \/ IsStorageOutdated(b)
                     /\ ~(b.closeRequested /\ b.docChanged)
             c == [b EXCEPT !.phase = "flushing", !.dataLoss = loss]
  <2>1. Steps(wsd, b)
    BY ForwardToChildSteps, StepsSame
  <2>2. wsd' = c
    BY <1>1 DEF PollExit
  <2> HIDE DEF b, loss
  <2>3. Quiet(b, c)
    BY <2>1 DEF Steps, Shaped, Quiet
  <2> QED  BY <2>1, <2>2, <2>3, ThenQuiet
<1>2. CASE FlushEnds
  <2>1. Quiet(wsd, [wsd EXCEPT !.phase = "terminating", !.toShut = InMap(wsd)])
    BY DEF Shaped, Quiet
  <2> QED  BY <1>2, <2>1, QuietSteps DEF FlushEnds
<1>3. CASE ShutdownClient
  <2> DEFINE s == First(wsd.toShut)
             b == [wsd EXCEPT !.toShut = @ \ {s}]
  <2>1. Quiet(wsd, b)
    BY DEF Shaped, Quiet
  <2>2. wsd' \in {FinalRemoveSession(b, s), RemoveSession(b, s)}
    BY <1>3 DEF ShutdownClient
  <2> HIDE DEF s, b
  <2>3. Steps(wsd, b) /\ Shaped(b)
    BY <2>1, QuietSteps DEF Steps
  <2>4. Steps(wsd, FinalRemoveSession(b, s)) /\ Steps(wsd, RemoveSession(b, s))
    BY <2>3, FinalRemoveSessionSteps, RemoveSessionSteps, StepsTwice
  <2> QED  BY <2>2, <2>4
<1>4. CASE Finish
  <2> DEFINE b == Stop(TerminateChild(wsd))
             q == IF wsd.dataLoss THEN QuarantineLastCopy(wsd, kit.local) ELSE {}
             c == [b EXCEPT !.phase = "done", !.quarantine = q]
  <2>1. Steps(wsd, TerminateChild(wsd))
    BY TerminateChildSteps
  <2>2. Steps(wsd, b)
    BY <2>1, StopQuiet, ThenQuiet DEF Steps
  <2>3. wsd' = c
    BY <1>4 DEF Finish
  <2> HIDE DEF b, q
  <2>4. Quiet(b, c)
    BY <2>2 DEF Steps, Shaped, Quiet
  <2> QED  BY <2>2, <2>3, <2>4, ThenQuiet
<1> QED  BY <1>1, <1>2, <1>3, <1>4

(* At first there is only the file of the download. *)
LEMMA KnowsInit == Init => Knows
<1> SUFFICES ASSUME Init PROVE Knows
  OBVIOUS
<1>1. /\ wsd.seen = {} /\ wsd.flight = NoFlight /\ wsd.upload = NoFile /\ wsd.uploading = NoFile
      /\ wsd.lastUploaded = 0 /\ wsd.sess = [s \in Sessions |-> "DETACHED"]
  BY DEF Init, InitBroker
<1>2. kit.local = [t |-> 1, v |-> 0] /\ kit.clock = 1 /\ storage.v = 0 /\ toWsd = <<>>
  BY DEF Init
<1>3. NoFlight.kind = "none" /\ NoFile.t = 0
  BY DEF NoFlight, NoFile
<1>4. Filed(wsd, kit, storage.v)
  BY <1>1, <1>2, <1>3 DEF Filed, Copies, Exists
<1>5. Heard(wsd, toWsd)
  BY <1>1 DEF Heard
<1>6. Addressed(toWsd)
  BY <1>2 DEF Addressed
<1> QED  BY <1>4, <1>5, <1>6 DEF Knows

(* Every step keeps the invariant. *)
LEMMA KnowsNext == TypeOK /\ Knows /\ [Next]_vars => Knows'
<1> SUFFICES ASSUME TypeOK, Knows, [Next]_vars PROVE Knows'
  OBVIOUS
<1>1. Shaped(wsd)
  BY TypesTyped
<1>2. CASE KitDisconnected
  BY <1>1, <1>2, DisconnectedFromKitSteps, StepKnows DEF KitDisconnected
<1>3. CASE ChangedByOthers
  <2>1. storage'.v = storage.v
    BY <1>3 DEF ChangedByOthers, TypeOK, StorageState
  <2> QED  BY <1>1, <1>3, <2>1, StepsSame, StepKnows DEF ChangedByOthers
<1>4. CASE ShutdownRequested \/ TerminationFlagged
  <2>1. /\ Quiet(wsd, [wsd EXCEPT !.shutdown = TRUE])
        /\ Quiet(wsd, [wsd EXCEPT !.terminate = TRUE])
    BY <1>1 DEF Shaped, Quiet
  <2> QED  BY <1>1, <1>4, <2>1, QuietSteps, StepKnows DEF ShutdownRequested, TerminationFlagged
<1>5. ASSUME NEW timers, Poll(timers) PROVE Knows'
  BY <1>1, <1>5, PollSteps, StepKnows DEF Poll
<1>6. CASE PollExit \/ FlushEnds \/ ShutdownClient \/ Finish
  <2>1. UNCHANGED <<kit, toWsd, storage>>
    BY <1>6 DEF PollExit, FlushEnds, ShutdownClient, Finish
  <2> QED  BY <1>1, <1>6, <2>1, ExitSteps, StepKnows
<1>7. CASE UNCHANGED vars
  BY <1>7 DEF vars, Knows
<1> QED  BY <1>2, <1>3, <1>4, <1>5, <1>6, <1>7, ClientStepKnows, KitStepKnows,
            ForwardToClientKnows, UploadAnsweredKnows DEF Next, Finished

(* The inductive invariant holds in every state. *)
LEMMA KnowsAlways == Spec => []Knows
BY TypeCorrect, KnowsInit, KnowsNext, PTL DEF Spec
-----------------------------------------------------------------------------
(* When isStorageOutdated() says that the file last saved is at the host, it
   is that very version that the host has, whatever uploads failed, were lost
   or were applied without an answer, and whatever was saved meanwhile; unless
   uploadToStorageInternal() replaced the request of an upload in progress. *)
THEOREM HostHasUploaded == Spec => []UploadedIsStoredUnlessOverlap
<1>1. Knows => UploadedIsStoredUnlessOverlap
  BY DEF Knows, Filed, Copies, UploadedIsStoredUnlessOverlap, UploadedIsStored, IsStorageOutdated
<1> QED  BY <1>1, KnowsAlways, PTL

(* A session in WAIT_DISCONNECT has its request on the way to the Kit or the
   answer on the way back, or the Kit is gone (disconnectSessionInternal()). *)
THEOREM WaitersHear == Spec => []WaitersAnswered
<1>1. Knows => WaitersAnswered
  BY DEF Knows, Heard, Asked, Told, WaitersAnswered
<1> QED  BY <1>1, KnowsAlways, PTL
-----------------------------------------------------------------------------
(* The status of the document. *)

(* Before the first view is loaded nothing is saved, uploaded or renamed,
   nobody asked for it to be unloaded and nobody has the document; and when it
   is marked to be destroyed, no session is left that could load it. *)
Fresh(b) ==
    /\ ~b.saving /\ ~b.unloadRequested /\ b.activity = "None" /\ b.renameSession = 0
    /\ b.flight.kind = "none" /\ b.uploadFailures = 0 /\ ~Exists(b.uploading)
    /\ \A s \in Sessions : b.sess[s] \notin {"LIVE", "WAIT_DISCONNECT"}
    /\ \A i \in 1..Len(b.toKit) : b.toKit[i].type # "save"
    /\ b.status = "Destroying" => InMap(b) = {}

NothingSaved(w) == \A i \in 1..Len(w) : w[i].type # "saved"

Opening == wsd.loaded \/ (Fresh(wsd) /\ NothingSaved(toWsd))

(* None of what Fresh is about changes. *)
Calm(b, c) ==
    /\ DOMAIN c = Fields
    /\ c.saving = b.saving /\ c.unloadRequested = b.unloadRequested /\ c.activity = b.activity
    /\ c.renameSession = b.renameSession /\ c.flight = b.flight
    /\ c.uploadFailures = b.uploadFailures /\ c.uploading = b.uploading
    /\ c.sess = b.sess /\ c.toKit = b.toKit /\ c.status = b.status /\ c.loaded = b.loaded

(* Then it stays as it was. *)
LEMMA CalmFresh ==
    ASSUME NEW b, Shaped(b), Fresh(b), NEW c, Calm(b, c) PROVE Fresh(c) /\ Shaped(c)
BY DEF Calm, Fresh, Shaped, InMap

(* stop() leaves a fresh document fresh. *)
LEMMA StopFresh == ASSUME NEW b, Shaped(b), Fresh(b) PROVE Fresh(Stop(b)) /\ Shaped(Stop(b))
<1>1. Calm(b, Stop(b))
  BY DEF Shaped, Calm, Stop
<1> QED  BY <1>1, CalmFresh

(* The document is marked only when nobody is left. *)
LEMMA MarkFresh ==
    ASSUME NEW b, Shaped(b), Fresh(b), InMap(b) = {} PROVE Fresh(MarkToDestroy(b))
<1> DEFINE c == MarkToDestroy(b)
<1>1. /\ c.saving = b.saving /\ c.unloadRequested = b.unloadRequested /\ c.activity = b.activity
      /\ c.renameSession = b.renameSession /\ c.flight = b.flight
      /\ c.uploadFailures = b.uploadFailures /\ c.uploading = b.uploading
      /\ c.sess = b.sess /\ c.toKit = b.toKit
  BY DEF Shaped, MarkToDestroy
<1> HIDE DEF c
<1>2. Fresh(c)
  BY <1>1 DEF Fresh, InMap
<1> QED  BY <1>2 DEF c

(* The queue to the Kit is replaced by one without a save. *)
LEMMA QueueFresh ==
    ASSUME NEW b, Shaped(b), Fresh(b), NEW q, NEW up, \A i \in 1..Len(q) : q[i].type # "save"
    PROVE  Fresh([b EXCEPT !.toKit = q]) /\ Fresh([b EXCEPT !.toKit = q, !.kitUp = up])
<1> DEFINE c == [b EXCEPT !.toKit = q]
           d == [b EXCEPT !.toKit = q, !.kitUp = up]
<1>1. /\ c.saving = b.saving /\ c.unloadRequested = b.unloadRequested /\ c.activity = b.activity
      /\ c.renameSession = b.renameSession /\ c.flight = b.flight
      /\ c.uploadFailures = b.uploadFailures /\ c.uploading = b.uploading
      /\ c.sess = b.sess /\ c.toKit = q /\ c.status = b.status
  BY DEF Shaped
<1>2. /\ d.saving = b.saving /\ d.unloadRequested = b.unloadRequested /\ d.activity = b.activity
      /\ d.renameSession = b.renameSession /\ d.flight = b.flight
      /\ d.uploadFailures = b.uploadFailures /\ d.uploading = b.uploading
      /\ d.sess = b.sess /\ d.toKit = q /\ d.status = b.status
  BY DEF Shaped
<1> HIDE DEF c, d
<1>3. Fresh(c) /\ Fresh(d)
  BY <1>1, <1>2 DEF Fresh, InMap
<1> QED  BY <1>3 DEF c, d

(* A message to the Kit that is no save. *)
LEMMA ForwardFresh ==
    ASSUME NEW b, Shaped(b), Fresh(b), NEW type, type # "save", NEW s, NEW dsiu
    PROVE  Fresh(ForwardToChild(b, type, s, dsiu))
<1> DEFINE m == [type |-> type, sess |-> s, dsiu |-> dsiu]
           q == Append(b.toKit, m)
<1>1. PICK S : b.toKit \in Seq(S)
  BY DEF Shaped, IsQueue
<1>2. b.toKit \in Seq(S \cup {m}) /\ m \in S \cup {m}
  BY <1>1
<1>3. /\ Len(q) = Len(b.toKit) + 1 /\ Len(b.toKit) \in Nat /\ q[Len(b.toKit) + 1] = m
      /\ \A i \in 1..Len(b.toKit) : q[i] = b.toKit[i]
  BY <1>2
<1>4. m.type # "save"
  OBVIOUS
<1>5. ASSUME NEW i \in 1..Len(q) PROVE q[i].type # "save"
  <2> HIDE DEF q, m
  <2>1. i \in 1..Len(b.toKit) \/ i = Len(b.toKit) + 1
    BY <1>3
  <2> QED  BY <1>3, <1>4, <2>1 DEF Fresh
<1> HIDE DEF q
<1>6. Fresh([b EXCEPT !.toKit = q])
  BY <1>5, QueueFresh
<1> QED  BY <1>6 DEF ForwardToChild, q

(* A session is set to a state in which it does not have the document. *)
LEMMA SessionFresh ==
    ASSUME NEW b, Shaped(b), Fresh(b), NEW s, NEW state,
           state \notin {"LIVE", "WAIT_DISCONNECT"}, state = "LOADING" => b.status # "Destroying"
    PROVE  Fresh([b EXCEPT !.sess[s] = state])
<1> DEFINE c == [b EXCEPT !.sess[s] = state]
<1>1. /\ c.saving = b.saving /\ c.unloadRequested = b.unloadRequested /\ c.activity = b.activity
      /\ c.renameSession = b.renameSession /\ c.flight = b.flight
      /\ c.uploadFailures = b.uploadFailures /\ c.uploading = b.uploading
      /\ c.sess = [b.sess EXCEPT ![s] = state] /\ c.toKit = b.toKit /\ c.status = b.status
  BY DEF Shaped
<1>2. \A r \in Sessions : c.sess[r] = IF r = s THEN state ELSE b.sess[r]
  BY <1>1 DEF Shaped
<1> HIDE DEF c
<1>3. \A r \in Sessions : c.sess[r] \notin {"LIVE", "WAIT_DISCONNECT"}
  BY <1>2 DEF Fresh
<1>4. c.status = "Destroying" => InMap(c) = {}
  BY <1>1, <1>2 DEF Fresh, InMap
<1>5. Fresh(c)
  BY <1>1, <1>3, <1>4 DEF Fresh
<1> QED  BY <1>5 DEF c

(* Without the Kit the document stays fresh. *)
LEMMA TerminateFresh ==
    ASSUME NEW b, Shaped(b), Fresh(b) PROVE Fresh(TerminateChild(b))
<1>1. TerminateChild(b) = [b EXCEPT !.toKit = <<>>, !.kitUp = FALSE]
  BY DEF TerminateChild, Shaped
<1>2. \A i \in 1..Len(<<>>) : <<>>[i].type # "save"
  OBVIOUS
<1> DEFINE q == <<>>
           no == FALSE
<1> HIDE DEF q, no
<1>3. Fresh([b EXCEPT !.toKit = q, !.kitUp = no])
  BY <1>2, QueueFresh DEF q
<1> QED  BY <1>1, <1>3 DEF q, no

(* A session that leaves before the first view is loaded is removed at once;
   the document is marked when it was the last one. *)
LEMMA RemoveFresh ==
    ASSUME NEW b, Shaped(b), Fresh(b), ~b.loaded, NEW s \in Sessions
    PROVE  Fresh(RemoveSession(b, s))
<1> DEFINE save == AutoSave(b, IsPossiblyModified(b), ~AlwaysSaveOnExit, {})
           d == IF InMap(b) = {} THEN TerminateChild(b) ELSE b
           e == FinalRemoveSession(d, s)
           active == CountActiveSessions(b)
<1>1. save.sent = FALSE /\ save.b = b
  BY DEF Fresh, AutoSave, CanSaveToDisk
<1>2. DisconnectSessionInternal(b, s) = e
  BY DEF Fresh, DisconnectSessionInternal
<1>3. RemoveSession(b, s) = AfterLastView(e, active)
  <2> HIDE DEF save, e
  <2> QED  BY <1>1, <1>2 DEF RemoveSession, save, Fresh
<1>4. Fresh(d) /\ Shaped(d)
  BY TerminateFresh, TerminateChildSteps DEF Steps
<1> HIDE DEF d
<1>5. Fresh(e) /\ Shaped(e)
  BY <1>4, SessionFresh, FinalRemoveSessionSteps DEF FinalRemoveSession, Steps
<1> HIDE DEF e
<1>6. AfterLastView(e, active) = e \/ (AfterLastView(e, active) = MarkToDestroy(e) /\ InMap(e) = {})
  BY <1>5 DEF Fresh, AfterLastView, IsAsyncUploading
<1> QED  BY <1>3, <1>5, <1>6, MarkFresh

(* There is nothing to store: autoSaveAndStop() stops. *)
LEMMA StoppingFresh ==
    ASSUME NEW b, Shaped(b), Fresh(b), ~b.loaded, NEW timers
    PROVE  AutoSaveAndStop(b, timers) = Stop(b)
<1>1. ~NeedToSaveToDisk(b)
  BY DEF NeedToSaveToDisk, CanSaveToDisk
<1>2. ~IsStorageOutdated(b)
  BY DEF IsStorageOutdated, Fresh
<1> QED  BY <1>1, <1>2 DEF AutoSaveAndStop, NothingToStore, WaitForModified, Fresh, IsAsyncUploading

(* Nobody waits for the Kit at the end of an iteration. *)
LEMMA IterationFresh ==
    ASSUME NEW b, Fresh(b), NEW timers PROVE EndIteration(b, timers) = b
BY DEF Fresh, EndIteration

(* The Kit's connection is lost. *)
LEMMA DisconnectedFresh ==
    ASSUME NEW b, Shaped(b), Fresh(b) PROVE Fresh(DisconnectedFromKit(b))
<1> DEFINE c == [b EXCEPT !.disconnected = TRUE]
           d == [c EXCEPT !.closeRequested = TRUE, !.closeReason = TRUE]
<1>1. Calm(b, c)
  BY DEF Shaped, Calm
<1> HIDE DEF c
<1>2. Fresh(c) /\ Shaped(c)
  BY <1>1, CalmFresh
<1>3. Calm(c, d)
  BY <1>2 DEF Shaped, Calm
<1> HIDE DEF d
<1>4. Fresh(d) /\ Shaped(d)
  BY <1>2, <1>3, CalmFresh
<1> QED  BY <1>2, <1>4, StopFresh DEF DisconnectedFromKit, CloseDocument, c, d

(* An iteration of the polling loop before the first view is loaded. *)
LEMMA PollFresh ==
    ASSUME Shaped(wsd), Fresh(wsd), ~wsd.loaded, NEW timers, Poll(timers) PROVE Fresh(wsd')
<1>1. Fresh(Stop(wsd)) /\ Shaped(Stop(wsd)) /\ ~Stop(wsd).loaded
  BY StopFresh, StopQuiet DEF Quiet
<1>2. EndIteration(wsd, timers) = wsd /\ EndIteration(Stop(wsd), timers) = Stop(wsd)
  BY <1>1, IterationFresh
<1>3. AutoSaveAndStop(wsd, timers) = Stop(wsd)
  BY StoppingFresh
<1>4. CASE PollInteractive
  <2> DEFINE b == Stop(wsd)
             c == [b EXCEPT !.seen = @ \cup {"dialog"}]
  <2>1. wsd' \in {c, wsd}
    BY <1>4 DEF PollInteractive
  <2>2. Fresh(b) /\ Shaped(b)
    BY <1>1
  <2> HIDE DEF b
  <2>3. Calm(b, c)
    BY <2>2 DEF Shaped, Calm
  <2> QED  BY <2>1, <2>2, <2>3, CalmFresh
<1>5. CASE PollLoadTimeout(timers)
  <2>1. Fresh(TerminateChild(wsd)) /\ Shaped(TerminateChild(wsd))
    BY TerminateFresh, TerminateChildSteps DEF Steps
  <2>2. Fresh(Stop(TerminateChild(wsd)))
    BY <2>1, StopFresh
  <2> QED  BY <1>5, <2>2 DEF PollLoadTimeout
<1>6. CASE PollDead(timers)
  <2>1. AutoSaveAndStop(Stop(wsd), timers) = Stop(Stop(wsd))
    BY <1>1, StoppingFresh
  <2>2. Fresh(Stop(Stop(wsd)))
    BY <1>1, StopFresh
  <2>3. wsd' = EndIteration(AutoSaveAndStop(Stop(wsd), timers), timers)
    BY <1>6 DEF PollDead
  <2> QED  BY <2>1, <2>2, <2>3, IterationFresh
<1>7. CASE PollLeaving(timers)
  <2> DEFINE b == Stop(wsd)
             c == [b EXCEPT !.seen = @ \cup {"giveup"}]
  <2>1. wsd' \in {c, b}
    BY <1>2, <1>3, <1>7 DEF PollLeaving
  <2>2. Fresh(b) /\ Shaped(b)
    BY <1>1
  <2> HIDE DEF b
  <2>3. Calm(b, c)
    BY <2>2 DEF Shaped, Calm
  <2> QED  BY <2>1, <2>2, <2>3, CalmFresh
<1>8. CASE PollAutoSave(timers)
  <2>1. AutoSave(wsd, FALSE, TRUE, timers).b = wsd
    BY DEF Fresh, AutoSave, CanSaveToDisk
  <2> QED  BY <1>2, <1>8, <2>1 DEF PollAutoSave
<1>9. CASE PollNothing(timers)
  BY <1>2, <1>9 DEF PollNothing
<1>10. ~PollRename(timers) /\ ~PollIdle(timers) /\ ~PollRetryUpload(timers) /\ ~PollSaving(timers)
  BY DEF Fresh, PollRename, PollIdle, IsIdle, PollRetryUpload, RetryUpload, PollSaving
<1> QED  BY <1>4, <1>5, <1>6, <1>7, <1>8, <1>9, <1>10 DEF Poll

(* After the loop, when no view was ever loaded. *)
LEMMA ExitFresh ==
    ASSUME TypeOK, Fresh(wsd), ~wsd.loaded, PollExit \/ FlushEnds \/ ShutdownClient \/ Finish
    PROVE  Fresh(wsd')
<1> USE TypesTyped
<1>1. CASE PollExit
  <2> DEFINE b == IF InMap(wsd) = {} THEN ForwardToChild(wsd, "exit", 0, FALSE) ELSE wsd
             loss == /\ b.modified \/ IsStorageOutdated(b)
                     /\ ~(b.closeRequested /\ b.docChanged)
             c == [b EXCEPT !.phase = "flushing", !.dataLoss = loss]
  <2>1. Fresh(b) /\ Shaped(b)
    BY ForwardFresh, ForwardToChildSteps DEF Steps
  <2>2. wsd' = c
    BY <1>1 DEF PollExit
  <2> HIDE DEF b, loss
  <2>3. Calm(b, c)
    BY <2>1 DEF Shaped, Calm
  <2> QED  BY <2>1, <2>2, <2>3, CalmFresh
<1>2. CASE FlushEnds
  <2>1. Calm(wsd, [wsd EXCEPT !.phase = "terminating", !.toShut = InMap(wsd)])
    BY DEF Shaped, Calm
  <2> QED  BY <1>2, <2>1, CalmFresh DEF FlushEnds
<1>3. CASE ShutdownClient
  <2> DEFINE s == First(wsd.toShut)
             b == [wsd EXCEPT !.toShut = @ \ {s}]
  <2>1. wsd.toShut \subseteq Sessions /\ wsd.toShut # {}
    BY <1>3 DEF ShutdownClient, TypeOK, IsBroker, PollThread
  <2>2. s \in Sessions
    BY <2>1, FirstIsMember
  <2>3. wsd' \in {FinalRemoveSession(b, s), RemoveSession(b, s)}
    BY <1>3 DEF ShutdownClient
  <2> HIDE DEF s
  <2>4. Calm(wsd, b)
    BY DEF Shaped, Calm
  <2> HIDE DEF b
  <2>5. Fresh(b) /\ Shaped(b) /\ ~b.loaded
    BY <2>4, CalmFresh DEF Calm
  <2>6. Fresh(FinalRemoveSession(b, s))
    BY <2>5, SessionFresh DEF FinalRemoveSession
  <2>7. Fresh(RemoveSession(b, s))
    BY <2>2, <2>5, RemoveFresh
  <2> QED  BY <2>3, <2>6, <2>7
<1>4. CASE Finish
  <2> DEFINE a == TerminateChild(wsd)
             b == Stop(a)
             q == IF wsd.dataLoss THEN QuarantineLastCopy(wsd, kit.local) ELSE {}
             c == [b EXCEPT !.phase = "done", !.quarantine = q]
  <2>1. Fresh(a) /\ Shaped(a)
    BY TerminateFresh, TerminateChildSteps DEF Steps
  <2>2. wsd' = c
    BY <1>4 DEF Finish
  <2> HIDE DEF a
  <2>3. Fresh(b) /\ Shaped(b)
    BY <2>1, StopFresh
  <2> HIDE DEF b, q
  <2>4. Calm(b, c)
    BY <2>3 DEF Shaped, Calm
  <2> QED  BY <2>2, <2>3, <2>4, CalmFresh
<1> QED  BY <1>1, <1>2, <1>3, <1>4

(* What the Kit has sent: one answer more, which is not that of a save. *)
LEMMA AnswerFresh ==
    ASSUME NEW w \in Seq(KitAnswer), NothingSaved(w), NEW m, m.type # "saved"
    PROVE  NothingSaved(Append(w, m))
<1>1. /\ w \in Seq(KitAnswer \cup {m}) /\ m \in KitAnswer \cup {m}
  OBVIOUS
<1>2. /\ Len(w) \in Nat /\ Len(Append(w, m)) = Len(w) + 1
      /\ \A i \in 1..Len(w) : Append(w, m)[i] = w[i]
      /\ Append(w, m)[Len(w) + 1] = m
  BY <1>1
<1>3. \A i \in 1..Len(Append(w, m)) : i \in 1..Len(w) \/ i = Len(w) + 1
  BY <1>2
<1> QED  BY <1>2, <1>3 DEF NothingSaved

(* Sessions and commands before the first view is loaded: no command is taken. *)
LEMMA ClientFresh ==
    ASSUME "early" \notin Events, TypeOK, Fresh(wsd), ~wsd.loaded, NEW s \in Sessions,
           \/ CreateNewClientSession(s) \/ AddSession(s) \/ AddSessionFails(s)
           \/ LoadDocument(s) \/ Edit(s) \/ OtherActivity(s) \/ ManualSave(s)
           \/ SaveToStorage(s) \/ RenameFile(s) \/ CloseDocumentCommand(s)
           \/ VersionRestore(s) \/ ClientDisconnect(s)
    PROVE  Fresh(wsd') /\ toWsd' = toWsd
<1>1. Shaped(wsd)
  BY TypesTyped
<1>2. toWsd' = toWsd
  BY DEF CreateNewClientSession, AddSession, AddSessionFails, LoadDocument, Edit,
         OtherActivity, ManualSave, SaveToStorage, RenameFile, CloseDocumentCommand,
         VersionRestore, ClientDisconnect
<1>3. ~ClientCanCommand(s)
  BY DEF ClientCanCommand, Fresh
<1>4. CASE CreateNewClientSession(s)
  BY <1>1, <1>4, SessionFresh DEF CreateNewClientSession
<1>5. CASE AddSession(s)
  <2> DEFINE d == [wsd EXCEPT !.status = "Loading", !.lastModified = 1, !.lastUploaded = 1]
             c == IF HasStorage(wsd) THEN wsd ELSE d
             e == [c EXCEPT !.sess[s] = "LOADING"]
  <2>1. /\ DOMAIN d = Fields /\ d.saving = wsd.saving /\ d.unloadRequested = wsd.unloadRequested
        /\ d.activity = wsd.activity /\ d.renameSession = wsd.renameSession
        /\ d.flight = wsd.flight /\ d.uploadFailures = wsd.uploadFailures
        /\ d.uploading = wsd.uploading /\ d.sess = wsd.sess /\ d.toKit = wsd.toKit
        /\ d.status = "Loading"
    BY <1>1 DEF Shaped
  <2> HIDE DEF d
  <2>2. Fresh(d) /\ Shaped(d)
    BY <1>1, <2>1 DEF Fresh, Shaped
  <2>3. Fresh(c) /\ Shaped(c) /\ c.status # "Destroying"
    BY <1>1, <1>5, <2>1, <2>2 DEF AddSession, IsMarkedToDestroy
  <2>4. wsd' = ForwardToChild(e, "session", s, FALSE)
    BY <1>5 DEF AddSession, AddedSession, d
  <2> HIDE DEF c
  <2>5. Fresh(e) /\ Shaped(e)
    BY <2>3, SessionFresh, SessionStateSteps DEF Steps
  <2> HIDE DEF e
  <2> QED  BY <1>2, <2>4, <2>5, ForwardFresh
<1>6. CASE AddSessionFails(s)
  <2> DEFINE c == [wsd EXCEPT !.sess[s] = "REJECTED"]
  <2>1. Fresh(c) /\ Shaped(c)
    BY <1>1, SessionFresh, SessionStateSteps DEF Steps
  <2>2. wsd' = IF InMap(c) = {} THEN MarkToDestroy(c) ELSE c
    BY <1>6 DEF AddSessionFails
  <2> HIDE DEF c
  <2> QED  BY <1>2, <2>1, <2>2, MarkFresh
<1>7. CASE LoadDocument(s)
  <2> DEFINE c == [wsd EXCEPT !.docUrl = @ \cup {s}, !.activityAfter = TRUE]
  <2>1. Calm(wsd, c)
    BY <1>1 DEF Shaped, Calm
  <2>2. wsd' = ForwardToChild(c, "load", s, FALSE)
    BY <1>7 DEF LoadDocument
  <2> HIDE DEF c
  <2> QED  BY <1>1, <1>2, <2>1, <2>2, CalmFresh, ForwardFresh
<1>8. CASE ClientDisconnect(s)
  <2> DEFINE r == RemoveSession(wsd, s)
             c == [r EXCEPT !.closed = @ \cup {s}]
  <2>1. Fresh(r) /\ Shaped(r)
    BY <1>1, RemoveFresh, RemoveSessionSteps DEF Steps
  <2>2. wsd' = c
    BY <1>8 DEF ClientDisconnect
  <2> HIDE DEF r
  <2>3. Calm(r, c)
    BY <2>1 DEF Shaped, Calm
  <2> QED  BY <1>2, <2>1, <2>2, <2>3, CalmFresh
<1> QED  BY <1>3, <1>4, <1>5, <1>6, <1>7, <1>8
         DEF Edit, OtherActivity, ManualSave, SaveToStorage, RenameFile, CloseDocumentCommand,
             VersionRestore

(* The Kit before the first view is loaded: it is not asked to save. *)
LEMMA KitFresh ==
    ASSUME TypeOK, Fresh(wsd), NothingSaved(toWsd),
           KitStep \/ KitDialog \/ KitStatus \/ KitNotifyModified \/ KitCrash
    PROVE  Fresh(wsd') /\ NothingSaved(toWsd')
<1> DEFINE s == Head(wsd.toKit).sess
           q == Tail(wsd.toKit)
<1>1. Shaped(wsd) /\ wsd.toKit \in Seq(KitRequest) /\ toWsd \in Seq(KitAnswer)
  BY TypesTyped
<1>2. wsd.toKit # <<>> => Head(wsd.toKit).type # "save" /\ \A i \in 1..Len(q) : q[i].type # "save"
  <2> SUFFICES ASSUME wsd.toKit # <<>>
               PROVE  Head(wsd.toKit).type # "save" /\ \A i \in 1..Len(q) : q[i].type # "save"
    OBVIOUS
  <2>1. Head(wsd.toKit) = wsd.toKit[1] /\ 1 \in 1..Len(wsd.toKit)
    BY <1>1
  <2>2. \A i \in 1..Len(q) : i + 1 \in 1..Len(wsd.toKit) /\ q[i] = wsd.toKit[i + 1]
    BY <1>1
  <2> HIDE DEF q
  <2> QED  BY <2>1, <2>2 DEF Fresh
<1>3. ~KitCannotSave /\ \A result : ~KitSave(result)
  BY <1>2 DEF KitCannotSave, KitSave, KitReads
<1>4. wsd.toKit # <<>> => Fresh([wsd EXCEPT !.toKit = Tail(@)])
  <2>1. [wsd EXCEPT !.toKit = Tail(@)] = [wsd EXCEPT !.toKit = q]
    OBVIOUS
  <2> HIDE DEF q
  <2> QED  BY <1>1, <1>2, <2>1, QueueFresh
<1>5. ASSUME NEW type, type # "saved", NEW to, NEW r, NEW result, NEW flag,
             Answer(type, to, r, result, flag)
      PROVE  NothingSaved(toWsd')
  <2> DEFINE m == [type |-> type, to |-> to, sess |-> r, result |-> result, flag |-> flag]
  <2>1. toWsd' = Append(toWsd, m) /\ m.type # "saved"
    BY <1>5 DEF Answer
  <2> HIDE DEF m
  <2> QED  BY <1>1, <2>1, AnswerFresh
<1>6. CASE KitSession \/ KitEdit
  BY <1>4, <1>6 DEF KitSession, KitEdit, KitReads
<1>7. CASE KitLoad
  <2>1. Answer("status", {s}, s, "ok", "absent") /\ Fresh(wsd')
    BY <1>4, <1>7 DEF KitLoad, KitReads
  <2> HIDE DEF s
  <2> QED  BY <1>5, <2>1
<1>8. CASE KitDialog
  <2>1. Answer("jsdialog", {s}, s, "ok", "absent") /\ wsd' = wsd
    BY <1>8 DEF KitDialog
  <2> HIDE DEF s
  <2> QED  BY <1>5, <2>1
<1>9. CASE KitDisconnect
  <2> DEFINE up == kit.sessions \ {s} # {}
             rest == IF up THEN q ELSE <<>>
  <2>1. wsd' = [wsd EXCEPT !.toKit = rest, !.kitUp = up]
    BY <1>9 DEF KitDisconnect
  <2>2. \A i \in 1..Len(rest) : rest[i].type # "save"
    <3>1. \A i \in 1..Len(<<>>) : <<>>[i].type # "save"
      OBVIOUS
    <3>2. wsd.toKit # <<>>
      BY <1>9 DEF KitDisconnect, KitReads
    <3> HIDE DEF up, q
    <3> QED  BY <1>2, <3>1, <3>2
  <2>3. Answer("disconnected", {s}, s, "ok", "absent")
    BY <1>9 DEF KitDisconnect
  <2> HIDE DEF s, up, rest
  <2> QED  BY <1>1, <1>5, <2>1, <2>2, <2>3, QueueFresh
<1>10. CASE KitExit \/ KitCrash
  BY <1>1, <1>10, TerminateFresh DEF KitExit, KitCrash
<1>11. CASE KitNotifyModified
  <2> DEFINE flag == IF kit.modified THEN "true" ELSE "false"
  <2>1. Answer("modified", kit.views, 0, "ok", flag) /\ wsd' = wsd
    BY <1>11 DEF KitNotifyModified
  <2> HIDE DEF flag
  <2> QED  BY <1>5, <2>1
<1>12. CASE KitStatus
  <2>1. PICK r : Answer("status", {r}, r, "ok", "absent") /\ wsd' = wsd
    BY <1>12 DEF KitStatus
  <2> QED  BY <1>5, <2>1
<1> HIDE DEF s, q
<1> QED  BY <1>3, <1>6, <1>7, <1>8, <1>9, <1>10, <1>11, <1>12 DEF KitStep

(* A message of the Kit before the first view is loaded, which may load it. *)
LEMMA MessageFresh ==
    ASSUME TypeOK, Fresh(wsd), ~wsd.loaded, NothingSaved(toWsd), ForwardToClient
    PROVE  Opening'
<1> DEFINE m == Head(toWsd)
<1>1. Shaped(wsd) /\ toWsd \in Seq(KitAnswer)
  BY TypesTyped
<1>2. toWsd # <<>> /\ toWsd' = Tail(toWsd)
  BY DEF ForwardToClient
<1>3. PICK timers : wsd' = HandleKitToClientMessage(wsd, m, timers)
  BY DEF ForwardToClient
<1>4. m \in KitAnswer /\ m = toWsd[1] /\ 1 \in 1..Len(toWsd)
  BY <1>1, <1>2
<1>5. \A i \in 1..Len(toWsd') : i + 1 \in 1..Len(toWsd) /\ toWsd'[i] = toWsd[i + 1]
  BY <1>1, <1>2
<1>6. NothingSaved(toWsd') /\ m.type # "saved"
  BY <1>4, <1>5 DEF NothingSaved
<1> HIDE DEF m
<1>7. m.type \in {"status", "jsdialog", "saved", "disconnected", "modified"}
  BY <1>4 DEF KitAnswer
<1>8. CASE wsd' = wsd
  BY <1>6, <1>8 DEF Opening
<1>9. CASE wsd' = ViewLoaded(wsd, m.sess)
  BY <1>1, <1>9, ViewLoadedPasses DEF Opening
<1>10. CASE wsd' = [wsd EXCEPT !.interactive = TRUE]
  <2>1. Calm(wsd, wsd')
    BY <1>1, <1>10 DEF Shaped, Calm
  <2> QED  BY <1>1, <1>6, <2>1, CalmFresh DEF Opening
<1>11. CASE wsd' = [wsd EXCEPT !.modified = (m.flag = "true")]
  <2>1. Calm(wsd, wsd')
    BY <1>1, <1>11 DEF Shaped, Calm
  <2> QED  BY <1>1, <1>6, <2>1, CalmFresh DEF Opening
<1>12. CASE wsd' = FinalRemoveSession(wsd, m.sess)
  BY <1>1, <1>6, <1>12, SessionFresh DEF FinalRemoveSession, Opening
<1>13. \/ wsd' = wsd \/ wsd' = ViewLoaded(wsd, m.sess) \/ wsd' = [wsd EXCEPT !.interactive = TRUE]
       \/ wsd' = [wsd EXCEPT !.modified = (m.flag = "true")]
       \/ wsd' = FinalRemoveSession(wsd, m.sess)
  BY <1>3, <1>6, <1>7 DEF HandleKitToClientMessage
<1> QED  BY <1>8, <1>9, <1>10, <1>11, <1>12, <1>13
-----------------------------------------------------------------------------
(* Every step moves onward, but for the first session, which is added to a
   document that is not marked, and for the view that is loaded. *)
LEMMA NextOnward ==
    ASSUME TypeOK, [Next]_vars
    PROVE  \/ Onward(wsd, wsd')
           \/ /\ ~IsMarkedToDestroy(wsd) /\ wsd'.loaded = wsd.loaded
              /\ wsd'.status = IF HasStorage(wsd) THEN wsd.status ELSE "Loading"
           \/ /\ InMap(wsd) # {} /\ wsd'.loaded
              /\ wsd'.status = IF wsd.loaded THEN wsd.status ELSE "Live"
<1>1. Shaped(wsd) /\ toWsd \in Seq(KitAnswer)
  BY TypesTyped
<1>2. ASSUME NEW s \in Sessions, AddSession(s)
      PROVE  /\ ~IsMarkedToDestroy(wsd) /\ wsd'.loaded = wsd.loaded
             /\ wsd'.status = IF HasStorage(wsd) THEN wsd.status ELSE "Loading"
  <2> DEFINE d == [wsd EXCEPT !.status = "Loading", !.lastModified = 1, !.lastUploaded = 1]
             c == IF HasStorage(wsd) THEN wsd ELSE d
             e == [c EXCEPT !.sess[s] = "LOADING"]
             q == Append(e.toKit, [type |-> "session", sess |-> s, dsiu |-> FALSE])
  <2>1. DOMAIN d = Fields /\ d.loaded = wsd.loaded /\ d.status = "Loading"
    BY <1>1 DEF Shaped
  <2>2. wsd' = IF e.kitUp THEN [e EXCEPT !.toKit = q] ELSE e
    BY <1>2 DEF AddSession, AddedSession, ForwardToChild
  <2> HIDE DEF d
  <2>3. DOMAIN c = Fields /\ c.loaded = wsd.loaded
        /\ c.status = IF HasStorage(wsd) THEN wsd.status ELSE "Loading"
    BY <1>1, <2>1 DEF Shaped
  <2> HIDE DEF c
  <2>4. DOMAIN e = Fields /\ e.loaded = c.loaded /\ e.status = c.status
    BY <2>3
  <2> HIDE DEF e, q
  <2>5. wsd'.loaded = e.loaded /\ wsd'.status = e.status
    BY <2>2, <2>4
  <2>6. ~IsMarkedToDestroy(wsd)
    BY <1>2 DEF AddSession
  <2> QED  BY <2>3, <2>4, <2>5, <2>6
<1>3. ASSUME ForwardToClient
      PROVE  \/ Onward(wsd, wsd')
             \/ /\ InMap(wsd) # {} /\ wsd'.loaded
                /\ wsd'.status = IF wsd.loaded THEN wsd.status ELSE "Live"
  <2> DEFINE m == Head(toWsd)
  <2>1. PICK timers : wsd' = HandleKitToClientMessage(wsd, m, timers)
    BY <1>3 DEF ForwardToClient
  <2>2. m \in KitAnswer
    BY <1>1, <1>3 DEF ForwardToClient
  <2> HIDE DEF m
  <2>3. CASE Steps(wsd, wsd')
    BY <2>3 DEF Steps
  <2>4. CASE \E c : Moves(wsd, c) /\ Steps(c, wsd')
    BY <2>4 DEF Moves, Steps
  <2>5. CASE m.to \cap InMap(wsd) # {} /\ wsd' = ViewLoaded(wsd, m.sess)
    BY <1>1, <2>5, ViewLoadedPasses
  <2> QED  BY <1>1, <2>1, <2>2, <2>3, <2>4, <2>5, HandleKitToClientMessageSteps
<1>4. ASSUME NEW result, NEW applied, UploadAnswered(result, applied) PROVE Onward(wsd, wsd')
  <2>1. PICK timers : wsd' = HandleUploadToStorageResponse(wsd, result, timers)
    BY <1>4 DEF UploadAnswered
  <2>2. PICK c : Lands(wsd, c, result) /\ Steps(c, wsd')
    BY <1>1, <2>1, HandleUploadToStorageResponseLands
  <2> QED  BY <2>2 DEF Lands, Steps
<1>5. CASE KitStep \/ KitDialog \/ KitStatus \/ KitNotifyModified \/ KitCrash
  <2>1. \A q : Onward(wsd, [wsd EXCEPT !.toKit = q])
    BY <1>1 DEF Shaped
  <2>2. \A q, x : Onward(wsd, [wsd EXCEPT !.toKit = q, !.upload = x])
    BY <1>1 DEF Shaped
  <2>3. \A q, x : Onward(wsd, [wsd EXCEPT !.toKit = q, !.kitUp = x])
    BY <1>1 DEF Shaped
  <2>4. CASE KitSession \/ KitLoad \/ KitEdit \/ KitCannotSave
    BY <2>1, <2>4 DEF KitSession, KitLoad, KitEdit, KitCannotSave
  <2>5. ASSUME NEW result, KitSave(result) PROVE Onward(wsd, wsd')
    BY <2>2, <2>5 DEF KitSave
  <2>6. CASE KitDisconnect
    BY <2>3, <2>6 DEF KitDisconnect
  <2>7. CASE KitExit \/ KitCrash
    BY <1>1, <2>7, TerminateChildSteps DEF KitExit, KitCrash, Steps
  <2>8. CASE KitDialog \/ KitStatus \/ KitNotifyModified
    BY <2>8 DEF KitDialog, KitStatus, KitNotifyModified
  <2> QED  BY <1>5, <2>4, <2>5, <2>6, <2>7, <2>8 DEF KitStep
<1>6. CASE KitDisconnected
  BY <1>1, <1>6, DisconnectedFromKitSteps DEF KitDisconnected, Steps
<1>7. CASE ChangedByOthers \/ ShutdownRequested \/ TerminationFlagged
  BY <1>1, <1>7 DEF Shaped, ChangedByOthers, ShutdownRequested, TerminationFlagged
<1>8. ASSUME NEW timers, Poll(timers) PROVE Onward(wsd, wsd')
  BY <1>1, <1>8, PollSteps DEF Steps
<1>9. CASE PollExit \/ FlushEnds \/ ShutdownClient \/ Finish
  BY <1>1, <1>9, ExitSteps DEF Steps
<1>10. CASE UNCHANGED vars
  BY <1>10 DEF vars
<1>11. ASSUME NEW s \in Sessions,
              \/ CreateNewClientSession(s) \/ AddSessionFails(s)
              \/ LoadDocument(s) \/ Edit(s) \/ OtherActivity(s) \/ ManualSave(s)
              \/ SaveToStorage(s) \/ RenameFile(s) \/ CloseDocumentCommand(s)
              \/ VersionRestore(s) \/ ClientDisconnect(s)
       PROVE  Onward(wsd, wsd')
  BY <1>1, <1>11, ClientSteps DEF Steps
<1> QED  BY <1>2, <1>3, <1>4, <1>5, <1>6, <1>7, <1>8, <1>9, <1>10, <1>11 DEF Next, Finished

(* At first the document is fresh. *)
LEMMA OpeningInit == Init => Opening
BY DEF Init, InitBroker, Opening, Fresh, NothingSaved, NoFlight, NoFile, Exists

(* It stays so until the first view is loaded. *)
LEMMA OpeningNext ==
    ASSUME "early" \notin Events PROVE TypeOK /\ Opening /\ [Next]_vars => Opening'
<1> SUFFICES ASSUME TypeOK, Opening, [Next]_vars PROVE Opening'
  OBVIOUS
<1>1. Shaped(wsd)
  BY TypesTyped
<1>2. CASE wsd.loaded
  BY <1>2, NextOnward DEF Opening
<1>3. CASE ~wsd.loaded
  <2>1. Fresh(wsd) /\ NothingSaved(toWsd)
    BY <1>3 DEF Opening
  <2>2. CASE KitDisconnected
    BY <1>1, <2>1, <2>2, DisconnectedFresh DEF KitDisconnected, Opening
  <2>3. CASE ChangedByOthers
    BY <2>1, <2>3 DEF ChangedByOthers, Opening
  <2>4. CASE ShutdownRequested \/ TerminationFlagged
    <3>1. /\ Calm(wsd, [wsd EXCEPT !.shutdown = TRUE])
          /\ Calm(wsd, [wsd EXCEPT !.terminate = TRUE])
      BY <1>1 DEF Shaped, Calm
    <3> QED  BY <1>1, <2>1, <2>4, <3>1, CalmFresh
             DEF ShutdownRequested, TerminationFlagged, Opening
  <2>5. ASSUME NEW timers, Poll(timers) PROVE Opening'
    BY <1>1, <1>3, <2>1, <2>5, PollFresh DEF Poll, Opening
  <2>6. CASE PollExit \/ FlushEnds \/ ShutdownClient \/ Finish
    <3>1. toWsd' = toWsd
      BY <2>6 DEF PollExit, FlushEnds, ShutdownClient, Finish
    <3> QED  BY <1>3, <2>1, <2>6, <3>1, ExitFresh DEF Opening
  <2>7. CASE UNCHANGED vars
    BY <2>1, <2>7 DEF vars, Opening
  <2>8. CASE KitStep \/ KitDialog \/ KitStatus \/ KitNotifyModified \/ KitCrash
    BY <2>1, <2>8, KitFresh DEF Opening
  <2>9. CASE ForwardToClient
    BY <1>3, <2>1, <2>9, MessageFresh
  <2>10. ASSUME NEW s \in Sessions,
                \/ CreateNewClientSession(s) \/ AddSession(s) \/ AddSessionFails(s)
                \/ LoadDocument(s) \/ Edit(s) \/ OtherActivity(s) \/ ManualSave(s)
                \/ SaveToStorage(s) \/ RenameFile(s) \/ CloseDocumentCommand(s)
                \/ VersionRestore(s) \/ ClientDisconnect(s)
         PROVE  Opening'
    BY <1>3, <2>1, <2>10, ClientFresh DEF Opening
  <2>11. \A result, applied : ~UploadAnswered(result, applied)
    BY <2>1 DEF UploadAnswered, Fresh
  <2> QED  BY <2>2, <2>3, <2>4, <2>5, <2>6, <2>7, <2>8, <2>9, <2>10, <2>11 DEF Next, Finished
<1> QED  BY <1>2, <1>3

(* DocumentState::setStatus() is never asked to move the status back, however
   sessions arrive and leave, saves and uploads end and the Kit answers, in
   any order: a document is marked to be destroyed only when it was loaded, so
   that no view makes it live again, or when no session is left to load it.
   Without the commands of sessions that are still loading, which the code
   takes and which can break it. *)
THEOREM StatusMovesForward ==
    ASSUME "early" \notin Events PROVE Spec => StatusNeverRegresses
<1>1. TypeOK /\ Opening /\ [Next]_vars => Rank(wsd'.status) >= Rank(wsd.status)
  <2> SUFFICES ASSUME TypeOK, Opening, [Next]_vars
               PROVE  Rank(wsd'.status) >= Rank(wsd.status)
    OBVIOUS
  <2>1. wsd.status \in Statuses
    BY DEF TypeOK, IsBroker, DocumentState
  <2>2. CASE Onward(wsd, wsd')
    BY <2>1, <2>2 DEF Rank, Statuses
  <2>3. CASE /\ ~IsMarkedToDestroy(wsd)
             /\ wsd'.status = IF HasStorage(wsd) THEN wsd.status ELSE "Loading"
    BY <2>1, <2>3 DEF Rank, Statuses, HasStorage
  <2>4. CASE /\ InMap(wsd) # {}
             /\ wsd'.status = IF wsd.loaded THEN wsd.status ELSE "Live"
    <3>1. ~wsd.loaded => wsd.status # "Destroying"
      BY <2>4 DEF Opening, Fresh
    <3> QED  BY <2>1, <2>4, <3>1 DEF Rank, Statuses
  <2> QED  BY <2>2, <2>3, <2>4, NextOnward
<1>2. TypeOK /\ Opening /\ [Next]_vars => [Rank(wsd'.status) >= Rank(wsd.status)]_vars
  BY <1>1
<1> QED  BY <1>2, TypeCorrect, OpeningInit, OpeningNext, PTL DEF Spec, StatusNeverRegresses
==============================================================================
