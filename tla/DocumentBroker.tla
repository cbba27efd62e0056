--------------------------- MODULE DocumentBroker ---------------------------
(***************************************************************************)
(* The life of one open document in the WebSocket daemon (wsd):            *)
(* wsd/DocumentBroker.cpp together with the parts of ClientSession.cpp,    *)
(* Storage.cpp and LOOLWSD.cpp it is driven by.                            *)
(*                                                                         *)
(* All handlers of a DocumentBroker run on its one polling thread, so a    *)
(* handler is atomic with respect to the others.  What interleaves is the  *)
(* order in which the thread meets its inputs: client commands, messages   *)
(* of the Kit process that holds the document, answers of the WOPI host,   *)
(* timers, and the web server thread that creates sessions.                *)
(*                                                                         *)
(* Handlers call each other (a save response uploads, an upload answer     *)
(* starts a rename, a removed session saves), so each is an operator from  *)
(* the broker's record b to the next one, and an action applies one of     *)
(* them to `wsd'.  The parameter `timers' is the set of the clock          *)
(* predicates (and of transport errors) that hold when the handler runs.   *)
(***************************************************************************)
EXTENDS Integers, Sequences, FiniteSets

CONSTANTS
    NSessions,          \* sessions are 1..NSessions, in the order of the ids
    Writers,            \* sessions opened with write permission
    Owners,             \* sessions of the document's owner
    OwnerTermination,   \* the WOPI property EnableOwnerTermination
    AlwaysSaveOnExit,   \* per_document.always_save_on_exit
    LimStoreFailures,   \* per_document.limit_store_failures
    ReportsWasModified, \* Core adds wasModified to the result of .uno:Save
    Events,             \* the client and environment events that may happen
    Timers,             \* the clock predicates that may hold
    Budget,             \* bound on the client inputs and environment faults
    MaxQueue            \* bound on the messages under way, each way

Sessions == 1..NSessions

AllEvents == {"edit", "activity", "save", "savetostorage", "rename",
              "closedocument", "versionrestore", "reject", "jsdialog", "early",
              "foreign", "crash", "savefail", "uploadfail", "diskfull",
              "shutdown", "terminate", "resize"}

AllTimers == {"load", "idle", "autosave", "saveTimeout", "saveLost", "saveNow",
              "uploadNow", "settled", "stale", "httpError", "httpThrown", "noConnect"}

ASSUME NSessionsAssumption == NSessions \in Nat \ {0}
ASSUME WritersAssumption == Writers \subseteq Sessions
ASSUME OwnersAssumption == Owners \subseteq Sessions
ASSUME FlagsAssumption == /\ OwnerTermination \in BOOLEAN
                          /\ AlwaysSaveOnExit \in BOOLEAN
                          /\ ReportsWasModified \in BOOLEAN
ASSUME LimitAssumption == LimStoreFailures \in Nat \ {0}
ASSUME InputAssumption == Events \subseteq AllEvents /\ Timers \subseteq AllTimers
ASSUME BoundAssumption == Budget \in Nat /\ MaxQueue \in Nat \ {0}

VARIABLES
    wsd,        \* the DocumentBroker, its sessions and its files in the jail
    kit,        \* the Kit process with the document loaded in Core
    toWsd,      \* messages of the Kit that wsd has not read yet
    storage,    \* the file at the WOPI host
    budget      \* client inputs and faults still to come

vars == <<wsd, kit, toWsd, storage, budget>>

-----------------------------------------------------------------------------
(* A file is its modification time and the number of edits it holds; time 0
   stands for a missing file, which is also what FileUtil::Stat reports. *)
File == [t : Nat, v : Nat]
NoFile == [t |-> 0, v |-> 0]
Exists(f) == f.t # 0

(* StorageBase::Attributes: the two flags that steer the upload. *)
Attributes == [um : BOOLEAN, forced : BOOLEAN]
NoAttrs == [um |-> FALSE, forced |-> FALSE]
Merge(a, lhs) == [um |-> lhs.um \/ a.um, forced |-> lhs.forced \/ a.forced]

(* The PUT (or RENAME_FILE) request in progress; answered is FALSE when the
   connection could not be made, in which case no answer ever comes. *)
Flight == [kind : {"none", "put", "rename"}, t : Nat, v : Nat,
           forced : BOOLEAN, answered : BOOLEAN]
NoFlight == [kind |-> "none", t |-> 0, v |-> 0, forced |-> FALSE, answered |-> FALSE]

(* DocumentBroker::UploadRequest, and its value before the first upload. *)
Request == [kind : {"none", "put", "rename"}, t : Nat, sess : 0..NSessions]
NoRequest == [kind |-> "none", t |-> 0, sess |-> 0]

SessionStates == {"DETACHED", "CREATED", "REJECTED", "LOADING", "LIVE",
                  "WAIT_DISCONNECT", "GONE"}
Statuses == {"None", "Loading", "Live", "Destroying"}
Activities == {"None", "Save", "Rename"}
Phases == {"polling", "flushing", "terminating", "done"}

(* History, for the properties only: an upload was asked for while one was in
   progress; a user chose to discard a conflicting copy; clients were told to
   reload; storing was given up after limit_store_failures; the loop was
   stopped while a view that loads waited for its user. *)
Notes == {"overlap", "discard", "reload", "giveup", "dialog"}

(* A message to the Kit: of a session, or `exit' for the process itself. *)
KitRequest ==
    [type : {"session", "load", "edit", "save", "disconnect"},
     sess : Sessions, dsiu : BOOLEAN]
    \cup [type : {"exit"}, sess : {0}, dsiu : {FALSE}]

(* The broker is one record; its fields and what they range over, by the class
   that holds them. *)
DocumentState(b) ==
    /\ b.status \in Statuses /\ b.activity \in Activities /\ b.loaded \in BOOLEAN
    /\ b.closeRequested \in BOOLEAN /\ b.unloadRequested \in BOOLEAN
    /\ b.disconnected \in BOOLEAN /\ b.interactive \in BOOLEAN
    /\ b.stop \in BOOLEAN /\ b.closeReason \in BOOLEAN /\ b.docChanged \in BOOLEAN

SaveManager(b) ==
    /\ b.modified \in BOOLEAN /\ b.activityAfter \in BOOLEAN /\ b.modifyAfter \in BOOLEAN
    /\ b.saving \in BOOLEAN /\ b.saveFailures \in Nat

StorageManager(b) ==
    /\ b.uploadActive \in BOOLEAN /\ b.uploadFailures \in Nat
    /\ b.lastModified \in Nat /\ b.lastUploaded \in Nat
    /\ b.next \in BOOLEAN /\ b.cur \in Attributes /\ b.last \in Attributes
    /\ b.request \in Request /\ b.flight \in Flight
    /\ b.upload \in File /\ b.uploading \in File

ClientSessions(b) ==
    /\ b.renameSession \in 0..NSessions /\ b.lastEditing \in 0..NSessions
    /\ b.sess \in [Sessions -> SessionStates]
    /\ b.docUrl \subseteq Sessions /\ b.writable \subseteq Sessions
    /\ b.expired \subseteq Sessions /\ b.closed \subseteq Sessions

PollThread(b) ==
    /\ b.kitUp \in BOOLEAN /\ b.toKit \in Seq(KitRequest)
    /\ b.shutdown \in BOOLEAN /\ b.terminate \in BOOLEAN
    /\ b.phase \in Phases /\ b.toShut \subseteq Sessions
    /\ b.dataLoss \in BOOLEAN /\ b.quarantine \subseteq Nat /\ b.seen \subseteq Notes

Fields ==
    {"status", "activity", "loaded", "closeRequested", "unloadRequested",
     "disconnected", "interactive", "stop", "closeReason", "docChanged",
     "modified", "activityAfter", "modifyAfter", "saving", "saveFailures",
     "uploadActive", "uploadFailures", "lastModified", "lastUploaded", "next",
     "cur", "last", "request", "flight", "upload", "uploading",
     "renameSession", "lastEditing", "sess", "docUrl", "writable", "expired",
     "closed", "kitUp", "toKit", "shutdown", "terminate", "phase", "toShut",
     "dataLoss", "quarantine", "seen"}

IsBroker(b) ==
    /\ DOMAIN b = Fields
    /\ DocumentState(b) /\ SaveManager(b) /\ StorageManager(b)
    /\ ClientSessions(b) /\ PollThread(b)

Min2(m, n) == IF m < n THEN m ELSE n

(* std::map iterates in the order of the session ids. *)
First(S) == CHOOSE s \in S : \A r \in S : s <= r
Last(S) == CHOOSE s \in S : \A r \in S : r <= s
-----------------------------------------------------------------------------
(* Predicates on the broker. *)

BugInMapForgetsWaiting(b) == {s \in Sessions : b.sess[s] \in {"LOADING", "LIVE"}}

InMap(b) == {s \in Sessions : b.sess[s] \in {"LOADING", "LIVE", "WAIT_DISCONNECT"}}

IsMarkedToDestroy(b) == b.status = "Destroying"

IsUnloading(b) ==
    \/ IsMarkedToDestroy(b) \/ b.stop \/ b.unloadRequested
    \/ b.closeRequested \/ b.shutdown \/ b.terminate

IsPossiblyModified(b) == b.activityAfter \/ b.modified
IsAsyncUploading(b) == b.flight.kind # "none"
IsStorageOutdated(b) == Exists(b.uploading) /\ b.uploading.t # b.lastUploaded
HasStorage(b) == b.status # "None"

(* Loaded views that may write, other than s. *)
BugAnotherEditableCountsLeaving(b, s) == \E r \in InMap(b) \ {s} : r \in b.writable

HaveAnotherEditableSession(b, s) ==
    \E r \in InMap(b) \ {s} : b.sess[r] = "LIVE" /\ r \in b.writable

CountActiveSessions(b) ==
    Cardinality({s \in InMap(b) : b.sess[s] = "LIVE" /\ s \notin b.closed})

(* The first session of an owner; else the last loaded one that can write and
   has a valid token; else the first of all; 0 stands for nullptr. *)
GetWriteableSession(b) ==
    LET owned == InMap(b) \cap Owners
        able  == {s \in InMap(b) \cap b.writable : b.sess[s] = "LIVE" /\ s \notin b.expired}
    IN  IF owned # {} THEN First(owned)
        ELSE IF able # {} THEN Last(able)
        ELSE IF InMap(b) # {} THEN First(InMap(b))
        ELSE 0

BugCanSaveWithoutSessions(b) == ~b.disconnected /\ b.loaded

CanSaveToDisk(b) == ~b.disconnected /\ b.loaded /\ InMap(b) # {}

NeedToSaveToDisk(b) ==
    CanSaveToDisk(b) /\ (b.saveFailures # 0 \/ b.modified \/ b.activityAfter)

NeedToUploadToStorage(b) ==
    /\ HasStorage(b)
    /\ \/ IsUnloading(b) /\ AlwaysSaveOnExit
       \/ b.uploadFailures # 0 /\ ~b.docChanged
       \/ IsStorageOutdated(b)
-----------------------------------------------------------------------------
(* Elementary steps. *)

Stop(b) == [b EXCEPT !.stop = TRUE, !.closeReason = TRUE]
MarkToDestroy(b) == [b EXCEPT !.status = "Destroying"]

(* Frames for a dead Kit are accepted and lost. *)
ForwardToChild(b, type, s, dsiu) ==
    IF b.kitUp
    THEN [b EXCEPT !.toKit = Append(@, [type |-> type, sess |-> s, dsiu |-> dsiu])]
    ELSE b

(* RequestManager::setLastRequestResult() counts failures without bound; the
   model's bound on both counts is LimStoreFailures, which the code tells apart
   from no count above it (it asks only for 0 and for >= LimStoreFailures). *)
SetLastSaveResult(b, ok) ==
    [b EXCEPT !.saving = FALSE,
              !.saveFailures = IF ok THEN 0 ELSE Min2(@ + 1, LimStoreFailures)]

SetLastUploadResult(b, ok) ==
    [b EXCEPT !.uploadActive = FALSE,
              !.uploadFailures = IF ok THEN 0 ELSE Min2(@ + 1, LimStoreFailures)]

BugEndRenameKeepsActivity(b) == [b EXCEPT !.renameSession = 0]

EndRenameFileCommand(b) == [b EXCEPT !.renameSession = 0, !.activity = "None"]

SendUnoSave(b, s, dsiu) ==
    LET c == ForwardToChild(b, "save", s, dsiu)
    IN  [c EXCEPT !.lastModified = 0,
                  !.next = b.modified \/ b.modifyAfter,
                  !.saving = TRUE,
                  !.activityAfter = FALSE,
                  !.modifyAfter = FALSE,
                  !.activity = IF @ = "None" THEN "Save" ELSE @]

(* autoSave(): the session that edited last saves, if it still can.  The
   result tells whether a save is under way. *)
AutoSave(b, force, dsiu, timers) ==
    LET s == IF /\ b.lastEditing \in InMap(b) \cap b.writable
                /\ b.sess[b.lastEditing] = "LIVE"
             THEN b.lastEditing
             ELSE GetWriteableSession(b)
    IN  IF b.activity = "Save" THEN [b |-> b, sent |-> TRUE]
        ELSE IF ~CanSaveToDisk(b) THEN [b |-> b, sent |-> FALSE]
        ELSE IF force THEN [b |-> SendUnoSave(b, s, dsiu), sent |-> TRUE]
        ELSE IF b.modified /\ "autosave" \in timers
             THEN [b |-> SendUnoSave(b, s, TRUE), sent |-> TRUE]
        ELSE [b |-> b, sent |-> FALSE]
-----------------------------------------------------------------------------
(* Sessions leaving. *)

FinalRemoveSession(b, s) == [b EXCEPT !.sess[s] = "GONE"]

TerminateChild(b) == [b EXCEPT !.kitUp = FALSE, !.toKit = <<>>]

(* A loaded view says goodbye to the Kit and waits for `disconnected:'; any
   other session is removed at once.  The Kit is killed when nothing is loaded
   and the map of sessions is empty: a session in it is still counted here. *)
DisconnectSessionInternal(b, s) ==
    LET c == IF b.unloadRequested THEN MarkToDestroy(b) ELSE b
        d == IF ~c.loaded /\ InMap(c) = {} THEN TerminateChild(c) ELSE c
    IN  IF c.sess[s] = "LIVE"
        THEN ForwardToChild([c EXCEPT !.sess[s] = "WAIT_DISCONNECT"], "disconnect", s, FALSE)
        ELSE FinalRemoveSession(d, s)

(* Whether unloading can be requested or the broker be destroyed, once the
   session is dealt with; active is the count before that. *)
AfterLastView(b, active) ==
    IF active > 1 THEN b
    ELSE IF b.saving \/ IsAsyncUploading(b) THEN [b EXCEPT !.unloadRequested = TRUE]
    ELSE IF InMap(b) = {} THEN MarkToDestroy(b)
    ELSE b

(* The last editable session saves first and is removed after uploading. *)
RemoveSession(b, s) ==
    LET lastEditable == s \in b.writable /\ ~HaveAnotherEditableSession(b, s)
        save == AutoSave(b, IsPossiblyModified(b), ~AlwaysSaveOnExit, {})
        c == IF ~lastEditable THEN DisconnectSessionInternal(b, s)
             ELSE IF b.saving THEN b
             ELSE IF save.sent THEN save.b
             ELSE DisconnectSessionInternal(save.b, s)
    IN  AfterLastView(c, CountActiveSessions(b))
-----------------------------------------------------------------------------
(* Uploading. *)

(* The asynchronous upload could not be started: the callback's error path. *)
AsyncUploadError(b) ==
    LET c == SetLastUploadResult(b, FALSE)
    IN  IF c.activity = "Rename" THEN EndRenameFileCommand(c) ELSE c

(* The part of uploadLocalFileToStorageAsync() that decides whether a request
   is sent; the file's content is opened here.  An exception is reported as an
   error; one thrown after _uploadHttpSession was set ("httpThrown") leaves it
   set, and an upload in progress that nobody will answer. *)
UploadLocalFileToStorageAsync(b, kind, timers) ==
    LET sent == [b EXCEPT !.flight =
                    [kind |-> kind, t |-> b.uploading.t, v |-> b.uploading.v,
                     forced |-> b.last.forced,
                     answered |-> timers \cap {"noConnect", "httpThrown"} = {}]]
    IN  IF IsAsyncUploading(b) \/ ~Exists(b.uploading) \/ "httpError" \in timers
        THEN AsyncUploadError(b)
        ELSE IF "httpThrown" \in timers THEN AsyncUploadError(sent)
        ELSE sent

UploadToStorageInternal(b, s, kind, force, timers) ==
    IF \/ s \notin b.writable
       \/ kind = "put" /\ ~force /\ b.uploading.t = b.lastModified
    THEN b
    ELSE UploadLocalFileToStorageAsync(
            [b EXCEPT !.request = [kind |-> kind, t |-> b.uploading.t, sess |-> s],
                      !.last = [um |-> b.cur.um, forced |-> b.cur.forced \/ force],
                      !.cur = NoAttrs,
                      !.next = FALSE,
                      !.uploadActive = TRUE,
                      !.seen = @ \cup (IF IsAsyncUploading(b) THEN {"overlap"} ELSE {})],
            kind, timers)

(* At once when forced or after a success; throttled after a failure. *)
UploadToStorage(b, s, force, timers) ==
    IF force \/ b.uploadFailures = 0 \/ (~b.uploadActive /\ "uploadNow" \in timers)
    THEN UploadToStorageInternal(b, s, "put", force, timers)
    ELSE b

(* Rename at the host, now that the latest version is there. *)
RenameInStorage(b, timers) ==
    IF b.renameSession \in InMap(b)
    THEN UploadToStorageInternal(b, b.renameSession, "rename", FALSE, timers)
    ELSE EndRenameFileCommand(b)

(* The end of checkAndUploadToStorage() when nothing is being uploaded. *)
StopAfterSaving(b, s) ==
    LET c == IF IsMarkedToDestroy(b) \/ s \in b.closed
             THEN DisconnectSessionInternal(b, s) ELSE b
    IN  IF IsMarkedToDestroy(c) \/ InMap(c) = {} THEN Stop(c) ELSE c

CheckAndUploadToStorage(b, s, timers) ==
    LET need == NeedToUploadToStorage(b)
        c == IF b.activity = "Save" THEN [b EXCEPT !.activity = "None"] ELSE b
        d == IF need THEN UploadToStorage(c, s, FALSE, timers) ELSE c
    IN  IF b.activity = "Rename" /\ ~need THEN RenameInStorage(b, timers)
        ELSE IF c.unloadRequested /\ NeedToSaveToDisk(c) THEN c
        ELSE IF IsAsyncUploading(d) THEN d
        ELSE StopAfterSaving(d, s)

(* The result of .uno:Save: `ok', `unmodified' or `failed', and what Core says
   of the modified state before saving.  The file the Kit left in .upload
   becomes .uploading whatever the result, and a copy is quarantined. *)
HandleSaveResponse(b, s, result, wasModified, timers) ==
    LET um == IF wasModified = "absent" THEN b.next ELSE wasModified = "true"
        c  == SetLastSaveResult([b EXCEPT !.cur = Merge(@, [um |-> um, forced |-> FALSE]),
                                          !.next = FALSE],
                                result # "failed")
        d  == IF Exists(c.upload)
              THEN [c EXCEPT !.uploading = c.upload, !.upload = NoFile] ELSE c
        e  == IF Exists(d.uploading)
              THEN [d EXCEPT !.quarantine = @ \cup {d.uploading.v}] ELSE d
    IN  CheckAndUploadToStorage(e, s, timers)

(* The time of the file when it was uploaded, not that of the file by now. *)
BugMarkUploadedCurrentFile(b) ==
    [b EXCEPT !.lastModified = b.uploading.t, !.lastUploaded = b.uploading.t,
              !.docChanged = FALSE, !.last = NoAttrs]

MarkUploaded(b) ==
    [b EXCEPT !.lastModified = b.request.t, !.lastUploaded = b.request.t,
              !.docChanged = FALSE, !.last = NoAttrs]

UploadedToStorage(b, timers) ==
    LET put == MarkUploaded(b)
        c == IF b.request.kind = "rename" THEN EndRenameFileCommand(b)
             ELSE IF put.activity = "Rename" THEN RenameInStorage(put, timers)
             ELSE put
        d == IF c.unloadRequested THEN MarkToDestroy(c) ELSE c
    IN  IF (IsMarkedToDestroy(d) \/ InMap(d) = {}) /\ ~IsPossiblyModified(d)
        THEN Stop(d) ELSE d

(* Clients are told to reload unless there are changes they would lose. *)
ConflictInStorage(b) ==
    LET keep == b.last.um \/ b.cur.um \/ IsPossiblyModified(b)
        told == InMap(b) \ b.closed
        c    == [b EXCEPT !.docChanged = TRUE,
                          !.seen = @ \cup (IF ~keep /\ told # {} THEN {"reload"} ELSE {})]
    IN  IF told = {} THEN Stop(c) ELSE c

FailedToUpload(b, result) ==
    LET c == IF result \in {"TOO_LARGE", "DISKFULL"}
             THEN [b EXCEPT !.writable = @ \ InMap(b)]
             ELSE IF result = "UNAUTHORIZED"
             THEN [b EXCEPT !.expired = @ \cup {b.request.sess}]
             ELSE IF result \in {"DOC_CHANGED", "CONFLICT"} THEN ConflictInStorage(b)
             ELSE b
    IN  [c EXCEPT !.cur = Merge(@, c.last), !.last = NoAttrs]

HandleUploadToStorageResponse(b, result, timers) ==
    LET c == SetLastUploadResult([b EXCEPT !.flight = NoFlight], result = "OK")
    IN  IF result = "OK" THEN UploadedToStorage(c, timers) ELSE FailedToUpload(c, result)
-----------------------------------------------------------------------------
(* Closing. *)

StartRenameFileCommand(b) ==
    LET c == [b EXCEPT !.activity = "Rename"]
    IN  IF c.renameSession \in InMap(c) THEN SendUnoSave(c, c.renameSession, TRUE)
        ELSE EndRenameFileCommand(c)

CloseDocument(b) ==
    LET c == [b EXCEPT !.closeRequested = TRUE, !.closeReason = TRUE]
    IN  IF c.docChanged THEN Stop(c) ELSE c

BugDisconnectedKeepsOpen(b) == [b EXCEPT !.disconnected = TRUE]

DisconnectedFromKit(b) ==
    LET c == [b EXCEPT !.disconnected = TRUE]
    IN  IF c.closeReason THEN c ELSE CloseDocument(c)

(* canStop as autoSaveAndStop() finds it before trying to save. *)
NothingToStore(b) ==
    \/ ~NeedToSaveToDisk(b) /\ (~NeedToUploadToStorage(b) \/ ~IsStorageOutdated(b))
    \/ /\ ~NeedToUploadToStorage(b)
       /\ ~b.activityAfter
       /\ b.saveFailures = 0 \/ ~b.modified

(* The modified flag may still be clearing: give it two seconds. *)
WaitForModified(b, timers) ==
    /\ NeedToSaveToDisk(b) /\ ~NeedToUploadToStorage(b)
    /\ ~b.activityAfter /\ b.saveFailures = 0 /\ b.modified
    /\ "settled" \notin timers

SaveBeforeStopping(b, timers) ==
    LET save == AutoSave(b, IsPossiblyModified(b), TRUE, timers)
        s == GetWriteableSession(save.b)
    IN  IF save.sent THEN save.b
        ELSE IF s # 0 /\ s \notin save.b.expired
        THEN CheckAndUploadToStorage(save.b, s, timers)
        ELSE Stop(save.b)

AutoSaveAndStop(b, timers) ==
    IF b.saving \/ IsAsyncUploading(b) \/ WaitForModified(b, timers) THEN b
    ELSE IF NothingToStore(b) THEN Stop(b)
    ELSE IF "saveNow" \in timers THEN SaveBeforeStopping(b, timers)
    ELSE b
-----------------------------------------------------------------------------
(* The state. *)

SaveResults == {"ok", "unmodified", "failed"}

(* An answer for one session, or the modified status for all views. *)
KitAnswer ==
    [type : {"status", "jsdialog", "saved", "disconnected"},
     to : SUBSET Sessions, sess : Sessions,
     result : SaveResults, flag : {"absent", "true", "false"}]
    \cup [type : {"modified"}, to : SUBSET Sessions, sess : {0},
          result : SaveResults, flag : {"true", "false"}]

(* sessions: ChildSessions; views: those whose view is loaded; ver: edits in
   memory; modified and notified: Core's flag and the value last sent; local:
   the document's file, unless moved to .upload; clock: the file times. *)
KitState == [sessions : SUBSET Sessions, views : SUBSET Sessions, ver : Nat,
             modified : BOOLEAN, notified : BOOLEAN, local : File, clock : Nat]

(* v: how many of this document's edits the host has; foreign: the time stamp of
   the host's file is not the one wsd knows. *)
StorageState == [v : Nat, foreign : BOOLEAN]

TypeOK ==
    /\ IsBroker(wsd)
    /\ kit \in KitState
    /\ toWsd \in Seq(KitAnswer)
    /\ storage \in StorageState
    /\ budget \in 0..Budget

InitBroker ==
    [status |-> "None", activity |-> "None", loaded |-> FALSE,
     closeRequested |-> FALSE, unloadRequested |-> FALSE,
     disconnected |-> FALSE, interactive |-> FALSE,
     stop |-> FALSE, closeReason |-> FALSE, docChanged |-> FALSE,
     modified |-> FALSE, activityAfter |-> FALSE, modifyAfter |-> FALSE,
     saving |-> FALSE, saveFailures |-> 0, lastModified |-> 0,
     uploadActive |-> FALSE, uploadFailures |-> 0, lastUploaded |-> 0,
     next |-> FALSE, cur |-> NoAttrs, last |-> NoAttrs,
     request |-> NoRequest, flight |-> NoFlight, upload |-> NoFile, uploading |-> NoFile,
     renameSession |-> 0, lastEditing |-> 0,
     sess |-> [s \in Sessions |-> "DETACHED"], docUrl |-> {},
     writable |-> Writers, expired |-> {}, closed |-> {},
     kitUp |-> TRUE, toKit |-> <<>>,
     shutdown |-> FALSE, terminate |-> FALSE,
     phase |-> "polling", toShut |-> {}, dataLoss |-> FALSE,
     quarantine |-> {},
     seen |-> {}]

Init ==
    /\ wsd = InitBroker
    /\ kit = [sessions |-> {}, views |-> {}, ver |-> 0, modified |-> FALSE,
              notified |-> FALSE, local |-> [t |-> 1, v |-> 0], clock |-> 1]
    /\ toWsd = <<>>
    /\ storage = [v |-> 0, foreign |-> FALSE]
    /\ budget = Budget

(* The polling thread serves sockets until the clients are shut down. *)
Serving == wsd.phase \in {"polling", "flushing"}

(* An input or a fault that the bound on them still allows. *)
Spend(event) == event \in Events /\ budget > 0 /\ budget' = budget - 1

(* Subsets of the clock predicates a handler can depend on. *)
Clock(names) == SUBSET (Timers \cap names)
Transport == {"httpError", "httpThrown", "noConnect", "uploadNow"}
-----------------------------------------------------------------------------
(* Sessions arriving: created by the web server thread, added to the broker
   by a callback on the polling thread, then loaded by the client. *)

CreateNewClientSession(s) ==
    /\ wsd.phase # "done" /\ wsd.sess[s] = "DETACHED"
    /\ ~IsMarkedToDestroy(wsd) /\ ~wsd.stop /\ ~wsd.unloadRequested
    /\ wsd' = [wsd EXCEPT !.sess[s] = "CREATED"]
    /\ UNCHANGED <<kit, toWsd, storage, budget>>

(* download() succeeds; the first one creates the storage and the file. *)
AddedSession(b, s) ==
    LET c == IF HasStorage(b) THEN b
             ELSE [b EXCEPT !.status = "Loading", !.lastModified = 1, !.lastUploaded = 1]
    IN  ForwardToChild([c EXCEPT !.sess[s] = "LOADING"], "session", s, FALSE)

AddSession(s) ==
    /\ Serving /\ wsd.sess[s] = "CREATED" /\ ~IsMarkedToDestroy(wsd)
    /\ wsd' = AddedSession(wsd, s)
    /\ UNCHANGED <<kit, toWsd, storage, budget>>

(* download() throws, or refuses because the document is marked to destroy. *)
AddSessionFails(s) ==
    /\ Serving /\ wsd.sess[s] = "CREATED"
    /\ IF IsMarkedToDestroy(wsd) THEN UNCHANGED budget ELSE Spend("reject")
    /\ wsd' = LET c == [wsd EXCEPT !.sess[s] = "REJECTED"]
              IN  IF InMap(c) = {} THEN MarkToDestroy(c) ELSE c
    /\ UNCHANGED <<kit, toWsd, storage>>

LoadDocument(s) ==
    /\ Serving /\ wsd.sess[s] = "LOADING" /\ s \notin wsd.docUrl \cup wsd.closed
    /\ ~IsMarkedToDestroy(wsd) /\ ~wsd.stop
    /\ wsd' = ForwardToChild([wsd EXCEPT !.docUrl = @ \cup {s}, !.activityAfter = TRUE],
                             "load", s, FALSE)
    /\ UNCHANGED <<kit, toWsd, storage, budget>>
-----------------------------------------------------------------------------
(* Commands of clients. *)

(* A command of a session that has sent `load' is taken unless the broker is
   on its way out. *)
ClientCanCommand(s) ==
    /\ Serving /\ s \in wsd.docUrl \ wsd.closed
    /\ ~IsMarkedToDestroy(wsd) /\ ~wsd.stop
    /\ wsd.sess[s] = "LIVE" \/ (wsd.sess[s] = "LOADING" /\ "early" \in Events)
    /\ Len(wsd.toKit) < MaxQueue

(* Every command but tile and status traffic counts as user activity. *)
UserActivity(b, s) ==
    [b EXCEPT !.activityAfter = TRUE,
              !.lastEditing = IF s \in b.writable /\ b.sess[s] = "LIVE" THEN s ELSE @]

Edit(s) ==
    /\ ClientCanCommand(s) /\ s \in wsd.writable /\ Spend("edit")
    /\ wsd' = ForwardToChild([UserActivity(wsd, s) EXCEPT !.modifyAfter = TRUE],
                             "edit", s, FALSE)
    /\ UNCHANGED <<kit, toWsd, storage>>

OtherActivity(s) ==
    /\ ClientCanCommand(s) /\ Spend("activity")
    /\ wsd' = UserActivity(wsd, s)
    /\ UNCHANGED <<kit, toWsd, storage>>

ManualSave(s) ==
    /\ ClientCanCommand(s) /\ s \in wsd.writable /\ Spend("save")
    /\ \E dsiu \in BOOLEAN :
         wsd' = LET b == UserActivity(wsd, s)
                IN  IF b.activity = "Save" THEN b ELSE SendUnoSave(b, s, dsiu)
    /\ UNCHANGED <<kit, toWsd, storage>>

SaveToStorage(s) ==
    /\ ClientCanCommand(s) /\ Spend("savetostorage")
    /\ \E timers \in Clock(Transport), force \in BOOLEAN :
         wsd' = UploadToStorage(UserActivity(wsd, s), s, force, timers)
    /\ UNCHANGED <<kit, toWsd, storage>>

(* A rename to another name is refused while renaming (same = FALSE). *)
RenameFile(s) ==
    /\ ClientCanCommand(s) /\ Spend("rename")
    /\ \E same \in BOOLEAN :
         wsd' = LET b == UserActivity(wsd, s)
                    c == [b EXCEPT !.renameSession = s]
                IN  IF b.activity = "Rename" THEN IF same THEN c ELSE b
                    ELSE IF b.activity = "None" THEN StartRenameFileCommand(c)
                    ELSE c
    /\ UNCHANGED <<kit, toWsd, storage>>

Discarding(b) ==
    [b EXCEPT !.seen = @ \cup (IF b.docChanged THEN {"discard"} ELSE {})]

(* The owner closes the document for all; in a conflict, anybody may discard
   this copy to reload the one in storage. *)
CloseDocumentCommand(s) ==
    /\ ClientCanCommand(s) /\ Spend("closedocument")
    /\ wsd' = LET b == Discarding(UserActivity(wsd, s))
              IN  IF s \in Owners /\ OwnerTermination THEN CloseDocument(b)
                  ELSE IF b.docChanged THEN Stop(b)
                  ELSE b
    /\ UNCHANGED <<kit, toWsd, storage>>

VersionRestore(s) ==
    /\ ClientCanCommand(s) /\ Spend("versionrestore")
    /\ wsd' = LET b == Discarding(UserActivity(wsd, s))
              IN  CloseDocument(b)
    /\ UNCHANGED <<kit, toWsd, storage>>

(* The client's socket is gone: ClientSession::onDisconnect. *)
ClientDisconnect(s) ==
    /\ Serving /\ s \notin wsd.closed
    /\ wsd.sess[s] \in {"REJECTED", "LOADING", "LIVE", "WAIT_DISCONNECT"}
    /\ wsd' = [RemoveSession(wsd, s) EXCEPT !.closed = @ \cup {s}]
    /\ UNCHANGED <<kit, toWsd, storage, budget>>
-----------------------------------------------------------------------------
(* The Kit process: it reads its requests in order. *)

KitReads(type) ==
    /\ wsd.kitUp /\ wsd.toKit # <<>> /\ Head(wsd.toKit).type = type
    /\ Len(toWsd) < MaxQueue

Answer(type, to, s, result, flag) ==
    toWsd' = Append(toWsd, [type |-> type, to |-> to, sess |-> s,
                            result |-> result, flag |-> flag])

KitSession ==
    /\ KitReads("session")
    /\ kit' = [kit EXCEPT !.sessions = @ \cup {Head(wsd.toKit).sess}]
    /\ wsd' = [wsd EXCEPT !.toKit = Tail(@)]
    /\ UNCHANGED <<toWsd, storage, budget>>

KitLoad ==
    /\ KitReads("load")
    /\ LET s == Head(wsd.toKit).sess
       IN  /\ kit' = [kit EXCEPT !.views = @ \cup {s}]
           /\ Answer("status", {s}, s, "ok", "absent")
    /\ wsd' = [wsd EXCEPT !.toKit = Tail(@)]
    /\ UNCHANGED <<storage, budget>>

(* Loading asks the user something (macros, CSV import) and waits. *)
KitDialog ==
    /\ KitReads("load") /\ Spend("jsdialog")
    /\ LET s == Head(wsd.toKit).sess IN Answer("jsdialog", {s}, s, "ok", "absent")
    /\ UNCHANGED <<wsd, kit, storage>>

(* A view's later status messages: the size or the parts of the document have
   changed (LOK_CALLBACK_DOCUMENT_SIZE_CHANGED). *)
KitStatus ==
    /\ wsd.kitUp /\ Len(toWsd) < MaxQueue /\ Spend("resize")
    /\ \E s \in kit.views : Answer("status", {s}, s, "ok", "absent")
    /\ UNCHANGED <<wsd, kit, storage>>

KitEdit ==
    /\ KitReads("edit")
    /\ kit' = IF Head(wsd.toKit).sess \in kit.views
              THEN [kit EXCEPT !.ver = @ + 1, !.modified = TRUE] ELSE kit
    /\ wsd' = [wsd EXCEPT !.toKit = Tail(@)]
    /\ UNCHANGED <<toWsd, storage, budget>>

(* A view that is not loaded answers an error, which is not a save result. *)
KitCannotSave ==
    /\ KitReads("save") /\ Head(wsd.toKit).sess \notin kit.views
    /\ wsd' = [wsd EXCEPT !.toKit = Tail(@)]
    /\ UNCHANGED <<kit, toWsd, storage, budget>>

(* Core saves, then the file (a new one, or the one still there) is moved to
   .upload whatever the result. *)
KitSave(result) ==
    /\ KitReads("save") /\ Head(wsd.toKit).sess \in kit.views
    /\ LET m == Head(wsd.toKit)
           written == [t |-> kit.clock + 1, v |-> kit.ver]
           file == IF result = "ok" THEN written ELSE kit.local
           was == IF ReportsWasModified
                  THEN IF kit.modified THEN "true" ELSE "false" ELSE "absent"
       IN  /\ (result = "unmodified") <=> (m.dsiu /\ ~kit.modified)
           /\ result = "failed" => "savefail" \in Events
           /\ kit' = [kit EXCEPT !.local = NoFile,
                                 !.clock = IF result = "ok" THEN @ + 1 ELSE @,
                                 !.modified = @ /\ result # "ok"]
           /\ wsd' = [wsd EXCEPT !.toKit = Tail(@),
                                 !.upload = IF Exists(file) THEN file ELSE @]
           /\ Answer("saved", {m.sess}, m.sess, result, was)
    /\ UNCHANGED <<storage, budget>>

(* The process exits when its last session has gone. *)
KitDisconnect ==
    /\ KitReads("disconnect")
    /\ LET s == Head(wsd.toKit).sess
           left == kit.sessions \ {s}
       IN  /\ kit' = [kit EXCEPT !.sessions = left, !.views = @ \ {s}]
           /\ wsd' = [wsd EXCEPT !.toKit = IF left = {} THEN <<>> ELSE Tail(@),
                                 !.kitUp = left # {}]
           /\ Answer("disconnected", {s}, s, "ok", "absent")
    /\ UNCHANGED <<storage, budget>>

KitExit ==
    /\ KitReads("exit")
    /\ wsd' = TerminateChild(wsd)
    /\ UNCHANGED <<kit, toWsd, storage, budget>>

(* .uno:ModifiedStatus is sent to all views, some time after it changed. *)
KitNotifyModified ==
    /\ wsd.kitUp /\ kit.views # {} /\ kit.modified # kit.notified
    /\ Len(toWsd) < MaxQueue
    /\ kit' = [kit EXCEPT !.notified = kit.modified]
    /\ Answer("modified", kit.views, 0, "ok", IF kit.modified THEN "true" ELSE "false")
    /\ UNCHANGED <<wsd, storage, budget>>

KitCrash ==
    /\ wsd.kitUp /\ Spend("crash")
    /\ wsd' = TerminateChild(wsd)
    /\ UNCHANGED <<kit, toWsd, storage>>
-----------------------------------------------------------------------------
(* Messages of the Kit; those for sessions no longer known are dropped. *)

BugViewLoadedAlwaysLive(b, s) ==
    [b EXCEPT !.interactive = FALSE, !.loaded = TRUE, !.status = "Live",
              !.sess[s] = IF @ = "WAIT_DISCONNECT" THEN @ ELSE "LIVE"]

ViewLoaded(b, s) ==
    LET c == [b EXCEPT !.interactive = FALSE,
                       !.sess[s] = IF @ = "WAIT_DISCONNECT" THEN @ ELSE "LIVE"]
    IN  IF c.loaded THEN c ELSE [c EXCEPT !.loaded = TRUE, !.status = "Live"]

HandleKitToClientMessage(b, m, timers) ==
    IF m.to \cap InMap(b) = {} THEN b
    ELSE CASE m.type = "status" -> ViewLoaded(b, m.sess)
           [] m.type = "jsdialog" ->
                IF b.sess[m.sess] = "LOADING" THEN [b EXCEPT !.interactive = TRUE] ELSE b
           [] m.type = "modified" -> [b EXCEPT !.modified = (m.flag = "true")]
           [] m.type = "saved" -> HandleSaveResponse(b, m.sess, m.result, m.flag, timers)
           [] m.type = "disconnected" -> FinalRemoveSession(b, m.sess)

ForwardToClient ==
    /\ Serving /\ toWsd # <<>>
    /\ \E timers \in Clock(IF Head(toWsd).type = "saved" THEN Transport ELSE {}) :
         wsd' = HandleKitToClientMessage(wsd, Head(toWsd), timers)
    /\ toWsd' = Tail(toWsd)
    /\ UNCHANGED <<kit, storage, budget>>

(* The Kit's socket is closed, after all it had sent was read. *)
KitDisconnected ==
    /\ Serving /\ ~wsd.kitUp /\ toWsd = <<>> /\ ~wsd.disconnected
    /\ wsd' = DisconnectedFromKit(wsd)
    /\ UNCHANGED <<kit, toWsd, storage, budget>>
-----------------------------------------------------------------------------
(* The WOPI host. *)

(* The file is replaced; a failure may be one of the answer alone, and wsd then
   goes on naming the old time stamp (X-LOOL-WOPI-Timestamp). *)
UploadAnswered(result, applied) ==
    /\ Serving /\ wsd.flight.kind # "none" /\ wsd.flight.answered
    /\ LET conflict == storage.foreign /\ ~wsd.flight.forced /\ wsd.flight.kind = "put"
       IN  CASE result = "OK" -> ~conflict /\ applied
             [] result \in {"DOC_CHANGED", "CONFLICT"} -> conflict /\ ~applied
             [] result = "FAILED" -> "uploadfail" \in Events /\ (applied => ~conflict)
             [] result = "UNAUTHORIZED" -> "uploadfail" \in Events /\ ~applied
             [] result \in {"TOO_LARGE", "DISKFULL"} -> "diskfull" \in Events /\ ~applied
    /\ storage' = IF applied /\ wsd.flight.kind = "put"
                  THEN [v |-> wsd.flight.v, foreign |-> result # "OK"] ELSE storage
    /\ \E timers \in Clock({"httpError", "httpThrown", "noConnect"}) :
         wsd' = HandleUploadToStorageResponse(wsd, result, timers)
    /\ UNCHANGED <<kit, toWsd, budget>>

ChangedByOthers ==
    /\ Spend("foreign") /\ ~storage.foreign
    /\ storage' = [storage EXCEPT !.foreign = TRUE]
    /\ UNCHANGED <<wsd, kit, toWsd>>
-----------------------------------------------------------------------------
(* The polling loop: one action per branch of an iteration. *)

ShutdownRequested ==
    /\ Spend("shutdown") /\ ~wsd.shutdown /\ wsd.phase # "done"
    /\ wsd' = [wsd EXCEPT !.shutdown = TRUE]
    /\ UNCHANGED <<kit, toWsd, storage>>

TerminationFlagged ==
    /\ Spend("terminate") /\ ~wsd.terminate /\ wsd.phase # "done"
    /\ wsd' = [wsd EXCEPT !.terminate = TRUE]
    /\ UNCHANGED <<kit, toWsd, storage>>

Iterating == wsd.phase = "polling" /\ ~wsd.stop /\ ~wsd.terminate

(* Past the checks at the top of the loop. *)
Reviewing(timers) ==
    Iterating /\ ~wsd.interactive /\ (wsd.loaded \/ "load" \notin timers)

(* After the switch: a session that never got its `disconnected:' is removed. *)
EndIteration(b, timers) ==
    LET waiting == {s \in Sessions : b.sess[s] = "WAIT_DISCONNECT"}
    IN  IF "stale" \in timers /\ waiting # {}
        THEN FinalRemoveSession(b, First(waiting))
        ELSE b

PollInteractive ==
    /\ Iterating /\ wsd.interactive
    /\ wsd' = IF IsUnloading(wsd) THEN [Stop(wsd) EXCEPT !.seen = @ \cup {"dialog"}] ELSE wsd

PollLoadTimeout(timers) ==
    /\ Iterating /\ ~wsd.interactive /\ ~wsd.loaded /\ "load" \in timers
    /\ wsd' = Stop(TerminateChild(wsd))

PollRename(timers) ==
    /\ Reviewing(timers) /\ wsd.activity = "None" /\ wsd.renameSession # 0
    /\ wsd' = StartRenameFileCommand(wsd)

IsIdle(b, timers) == b.loaded /\ "idle" \in timers
IsDead(b) == InMap(b) = {} /\ (b.loaded \/ IsMarkedToDestroy(b))
IsLeaving(b) == b.unloadRequested \/ b.shutdown \/ b.closeRequested

NoActivity(timers) ==
    Reviewing(timers) /\ wsd.activity = "None" /\ wsd.renameSession = 0

PollIdle(timers) ==
    /\ NoActivity(timers) /\ IsIdle(wsd, timers)
    /\ wsd' = EndIteration(AutoSaveAndStop(wsd, timers), timers)

(* While saving or uploading AutoSaveAndStop does nothing, here as in the code. *)
PollDead(timers) ==
    /\ NoActivity(timers) /\ ~IsIdle(wsd, timers) /\ IsDead(wsd)
    /\ wsd' = EndIteration(AutoSaveAndStop(IF wsd.loaded THEN wsd ELSE Stop(wsd), timers),
                           timers)

BugStoreFailedIgnoresUploads(b) == b.saveFailures >= LimStoreFailures

StoreFailed(b) ==
    b.saveFailures >= LimStoreFailures \/ b.uploadFailures >= LimStoreFailures

PollLeaving(timers) ==
    /\ NoActivity(timers) /\ ~IsIdle(wsd, timers) /\ ~IsDead(wsd) /\ IsLeaving(wsd)
    /\ wsd' = IF StoreFailed(wsd) THEN [Stop(wsd) EXCEPT !.seen = @ \cup {"giveup"}]
              ELSE EndIteration(AutoSaveAndStop(wsd, timers), timers)

Staying(timers) ==
    NoActivity(timers) /\ ~IsIdle(wsd, timers) /\ ~IsDead(wsd) /\ ~IsLeaving(wsd)

PollAutoSave(timers) ==
    /\ Staying(timers) /\ "autosave" \in timers
    /\ wsd' = EndIteration(AutoSave(wsd, FALSE, TRUE, timers).b, timers)

(* The last upload failed and can be tried again. *)
RetryUpload(b) ==
    /\ ~IsAsyncUploading(b) /\ b.uploadFailures # 0 /\ NeedToUploadToStorage(b)
    /\ GetWriteableSession(b) # 0 /\ GetWriteableSession(b) \notin b.expired

PollRetryUpload(timers) ==
    /\ Staying(timers) /\ "autosave" \notin timers /\ RetryUpload(wsd)
    /\ wsd' = EndIteration(CheckAndUploadToStorage(wsd, GetWriteableSession(wsd), timers),
                           timers)

(* The saving timeout may run out before a slow answer comes ("saveTimeout"),
   or only when none is on its way ("saveLost"). *)
SaveTimedOut(timers) ==
    \/ "saveTimeout" \in timers
    \/ /\ "saveLost" \in timers
       /\ \A i \in 1..Len(wsd.toKit) : wsd.toKit[i].type # "save"
       /\ \A i \in 1..Len(toWsd) : toWsd[i].type # "saved"

(* The save has failed, and the activity ends. *)
BugGiveUpKeepsActivity(b) == SetLastSaveResult(b, FALSE)
BugGiveUpKeepsSaving(b) == [b EXCEPT !.activity = "None"]

GiveUpSaving(b) == [SetLastSaveResult(b, FALSE) EXCEPT !.activity = "None"]

PollSaving(timers) ==
    /\ Reviewing(timers) /\ wsd.activity = "Save"
    /\ wsd.disconnected \/ SaveTimedOut(timers)
    /\ wsd' = EndIteration(GiveUpSaving(wsd), timers)

(* An iteration in which the switch does nothing. *)
PollNothing(timers) ==
    /\ Reviewing(timers)
    /\ \/ wsd.activity = "Rename"
       \/ wsd.activity = "Save" /\ ~wsd.disconnected /\ ~SaveTimedOut(timers)
       \/ Staying(timers) /\ "autosave" \notin timers /\ ~RetryUpload(wsd)
    /\ wsd' = EndIteration(wsd, timers)

(* The predicates that can matter in a state: the others change nothing. *)
PollTimers(b) ==
    (IF b.loaded THEN {"idle", "autosave"} ELSE {"load"})
    \cup (IF b.activity = "Save" THEN {"saveTimeout", "saveLost"} ELSE {})
    \cup (IF IsLeaving(b) \/ InMap(b) = {} \/ "idle" \in Timers
          THEN {"saveNow"} ELSE {})
    \cup (IF b.modified THEN {"settled"} ELSE {})
    \cup (IF b.uploadFailures # 0 THEN {"uploadNow"} ELSE {})
    \cup (IF Exists(b.uploading) THEN {"httpError", "httpThrown", "noConnect"} ELSE {})
    \cup (IF \E s \in Sessions : b.sess[s] = "WAIT_DISCONNECT" THEN {"stale"} ELSE {})

Poll(timers) ==
    /\ \/ PollInteractive
       \/ PollLoadTimeout(timers)
       \/ PollRename(timers)
       \/ PollIdle(timers)
       \/ PollDead(timers)
       \/ PollLeaving(timers)
       \/ PollAutoSave(timers)
       \/ PollRetryUpload(timers)
       \/ PollSaving(timers)
       \/ PollNothing(timers)
    /\ Len(wsd.toKit) < MaxQueue
    /\ UNCHANGED <<kit, toWsd, storage, budget>>
-----------------------------------------------------------------------------
(* After the loop. *)

PollExit ==
    /\ wsd.phase = "polling" /\ (wsd.stop \/ wsd.terminate)
    /\ wsd' = LET b == IF InMap(wsd) = {} THEN ForwardToChild(wsd, "exit", 0, FALSE) ELSE wsd
              IN  [b EXCEPT !.phase = "flushing",
                            !.dataLoss = /\ b.modified \/ IsStorageOutdated(b)
                                         /\ ~(b.closeRequested /\ b.docChanged)]
    /\ UNCHANGED <<kit, toWsd, storage, budget>>

(* All sockets are flushed, or two seconds have passed. *)
FlushEnds ==
    /\ wsd.phase = "flushing"
    /\ wsd' = [wsd EXCEPT !.phase = "terminating", !.toShut = InMap(wsd)]
    /\ UNCHANGED <<kit, toWsd, storage, budget>>

ShutdownClient ==
    /\ wsd.phase = "terminating" /\ wsd.toShut # {}
    /\ LET s == First(wsd.toShut)
           b == [wsd EXCEPT !.toShut = @ \ {s}]
       IN  wsd' = IF b.sess[s] = "WAIT_DISCONNECT" THEN FinalRemoveSession(b, s)
                  ELSE RemoveSession(b, s)
    /\ UNCHANGED <<kit, toWsd, storage, budget>>

(* On data loss the most advanced copy is quarantined; after a clean exit the
   quarantine of this document is emptied. *)
QuarantineLastCopy(b, local) ==
    LET copy == IF Exists(b.uploading) THEN b.uploading
                ELSE IF Exists(b.upload) THEN b.upload
                ELSE local
    IN  IF Exists(copy) THEN b.quarantine \cup {copy.v} ELSE b.quarantine

Finish ==
    /\ wsd.phase = "terminating" /\ wsd.toShut = {}
    /\ wsd' = [Stop(TerminateChild(wsd)) EXCEPT
                    !.phase = "done",
                    !.quarantine = IF wsd.dataLoss THEN QuarantineLastCopy(wsd, kit.local) ELSE {}]
    /\ UNCHANGED <<kit, toWsd, storage, budget>>

(* The thread has ended. *)
Finished == wsd.phase = "done" /\ UNCHANGED vars
-----------------------------------------------------------------------------
UploadResults == {"OK", "DISKFULL", "TOO_LARGE", "UNAUTHORIZED", "DOC_CHANGED",
                  "CONFLICT", "FAILED"}

KitStep ==
    \/ KitSession \/ KitLoad \/ KitEdit \/ KitCannotSave
    \/ \E result \in SaveResults : KitSave(result)
    \/ KitDisconnect \/ KitExit

Next ==
    \/ \E s \in Sessions :
        \/ CreateNewClientSession(s) \/ AddSession(s) \/ AddSessionFails(s)
        \/ LoadDocument(s) \/ Edit(s) \/ OtherActivity(s) \/ ManualSave(s)
        \/ SaveToStorage(s) \/ RenameFile(s) \/ CloseDocumentCommand(s)
        \/ VersionRestore(s) \/ ClientDisconnect(s)
    \/ KitStep \/ KitDialog \/ KitStatus \/ KitNotifyModified \/ KitCrash
    \/ ForwardToClient \/ KitDisconnected
    \/ \E result \in UploadResults, applied \in BOOLEAN : UploadAnswered(result, applied)
    \/ ChangedByOthers \/ ShutdownRequested \/ TerminationFlagged
    \/ \E timers \in Clock(PollTimers(wsd)) : Poll(timers)
    \/ PollExit \/ FlushEnds \/ ShutdownClient \/ Finish \/ Finished

Spec == Init /\ [][Next]_vars

LiveTimers == Timers \cap {"saveLost", "saveNow", "uploadNow", "settled", "stale"}
Fairness ==
    /\ WF_vars(Poll(LiveTimers))
    /\ WF_vars(KitStep)
    /\ WF_vars(KitNotifyModified)
    /\ WF_vars(ForwardToClient)
    /\ WF_vars(KitDisconnected)
    /\ WF_vars(\E result \in UploadResults, applied \in BOOLEAN : UploadAnswered(result, applied))
    /\ WF_vars(PollExit \/ FlushEnds \/ ShutdownClient \/ Finish)
FairSpec == Spec /\ Fairness
-----------------------------------------------------------------------------
(* Properties. *)

(* The activity that gates the polling loop is backed by the operation it
   stands for: Activity::Save by a save request waiting for its result,
   Activity::Rename by a session that asked for it.  Otherwise no branch of
   pollThread() would ever end it (startActivity / endActivity). *)
ActivityBacked ==
    /\ wsd.activity = "Save" => wsd.saving
    /\ wsd.activity = "Rename" => wsd.renameSession # 0

(* isStorageOutdated() can be trusted: when the time of the saved file equals
   the last uploaded one, the WOPI host holds that very version.  Nothing else
   keeps a saved version from being dropped when the document is unloaded. *)
UploadedIsStored ==
    Exists(wsd.uploading) /\ ~IsStorageOutdated(wsd) => storage.v = wsd.uploading.v

(* The same as long as no upload was asked for while one was in progress:
   uploadToStorageInternal() then replaces the request that is in progress. *)
UploadedIsStoredUnlessOverlap == "overlap" \in wsd.seen \/ UploadedIsStored

(* A broker that ends reporting no data loss has everything at the host: the
   "Check for data-loss" after the polling loop. *)
LossDetected ==
    wsd.phase = "done" /\ ~wsd.dataLoss /\ wsd.seen = {} => storage.v = kit.ver

AllStored ==
    storage.v = kit.ver /\ \A i \in 1..Len(wsd.toKit) : wsd.toKit[i].type # "edit"

(* When the polling loop is left and no data loss is detected, every edit is
   at the host, those still on their way to the Kit included; unless the Kit is
   gone, its last save is outstanding or failed, wsd was told to terminate, the
   document was being closed and in conflict, which the check takes for the
   owner's choice, or one of the events that excuse it has been noted. *)
CleanExit ==
    [][wsd.phase = "polling" /\ wsd'.phase = "flushing" /\ ~wsd'.dataLoss
         => \/ AllStored
            \/ wsd.saving \/ wsd.saveFailures # 0 \/ ~wsd.kitUp \/ wsd.terminate
            \/ wsd.closeRequested /\ wsd.docChanged
            \/ wsd.seen # {}]_vars

Rank(status) == CASE status = "None" -> 0 [] status = "Loading" -> 1
                  [] status = "Live" -> 2 [] status = "Destroying" -> 3

(* DocumentState::setStatus asserts that a status only moves forward, whatever
   messages of the Kit and disconnections of clients it is driven by. *)
StatusNeverRegresses == [][Rank(wsd'.status) >= Rank(wsd.status)]_vars

(* removeSession() requests unloading when the last view leaves: nobody whose
   socket is open has the document loaded at that point. *)
UnloadOnlyWhenLast ==
    [][~wsd.unloadRequested /\ wsd'.unloadRequested /\ wsd.phase # "terminating"
         => \A s \in Sessions : wsd'.sess[s] = "LIVE" => s \in wsd'.closed]_vars

(* Clients are told to reload after a conflict only when the document in
   memory has nothing that the reload would lose. *)
ReloadOnlyWhenClean ==
    []["reload" \notin wsd.seen /\ "reload" \in wsd'.seen => storage.v = kit.ver]_vars

(* The copy last saved is at the host or in the quarantine when the broker is
   done with a document in conflict, unless a user chose to discard it. *)
ConflictCopyKept ==
    wsd.phase = "done" /\ wsd.docChanged /\ "discard" \notin wsd.seen
      => storage.v >= wsd.uploading.v \/ wsd.uploading.v \in wsd.quarantine

(* A session that waits for `disconnected:' waits for something: its request is
   on its way to a running Kit or the answer is on its way back. *)
WaitersAnswered ==
    \A s \in Sessions : wsd.sess[s] = "WAIT_DISCONNECT" =>
        \/ \E i \in 1..Len(wsd.toKit) :
             wsd.toKit[i].type = "disconnect" /\ wsd.toKit[i].sess = s
        \/ \E i \in 1..Len(toWsd) : toWsd[i].type = "disconnected" /\ toWsd[i].sess = s
        \/ ~wsd.kitUp

(* A save request is not left open: it is answered, times out, or ends with
   the broker, the Kit dying or not. *)
SavingEnds == wsd.saving ~> ~wsd.saving \/ wsd.phase = "done"

(* A client that has asked to load is not left waiting for ever. *)
LoadingEnds ==
    \A s \in Sessions :
        wsd.sess[s] = "LOADING" /\ s \in wsd.docUrl
          ~> wsd.sess[s] # "LOADING" \/ wsd.phase = "done"

(* A loaded document without sessions is unloaded, unless somebody joins. *)
AbandonedEnds ==
    wsd.loaded /\ InMap(wsd) = {} ~> InMap(wsd) # {} \/ wsd.phase = "done"

(* Once unloading, closing or shutting down is requested, the polling thread
   gets to its end. *)
ClosingEnds ==
    wsd.unloadRequested \/ wsd.closeRequested \/ wsd.shutdown ~> wsd.phase = "done"
=============================================================================
