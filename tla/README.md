# A verification project for the document server and its browser client

The repository is a collaborative document server: a WebSocket daemon (`wsd`)
that serves browsers, one Kit process per open document with the document loaded
in Core (LibreOfficeKit), a WOPI host that stores the files, and the JavaScript
client that shows and edits a document.  Five protocols carry its correctness,
and each has a model here:

* the **DocumentBroker** owns one open document from the first session to the
  last and must never lose an edit, never report a file as stored that is not,
  and always come to an end;
* the **tile flow** brings renderings of the document from the Kit through wsd's
  cache to the browser's screen and must never leave an old picture there that
  everybody takes for good;
* the **connection** of the browser to wsd must survive lost connections, idle
  and recycled documents without losing the order of commands or leaving the user
  with a dead page;
* the **proxy socket** emulates a WebSocket over HTTP requests where a web server
  in between cannot forward one;
* the **sheet geometry** tells the page where the rows and columns of a spreadsheet
  are, in three units, and must be that of the sheet on the screen.

Contents:

* [1. Inventory](#1-inventory)
* [2. Plan](#2-plan)
* [3. The models](#3-the-models)
* [4. What is checked](#4-what-is-checked)
* [5. Bounds and fairness](#5-bounds-and-fairness)
* [6. What is proved](#6-what-is-proved)
* [7. Where code and comments disagree](#7-where-code-and-comments-disagree)
* [8. Not modelled](#8-not-modelled)

To run: `tlc -config <cfg> <module>` with the configuration and the `MC` module
that `PROJECT.json` names for a run, for example
`tlc -config MCTiles_text.cfg MCTiles`; `tlapm DocumentBrokerProofs.tla` for the
proofs.

## 1. Inventory

| Component | State | Operations | Correct when |
|---|---|---|---|
| `DocumentBroker` (`wsd/DocumentBroker.*`) | `DocumentState` (status, activity, loaded, close/unload flags), `SaveManager`, `StorageManager`, storage attributes, upload request, session map, quarantine | `pollThread`, `addSession`, `removeSession`, `autoSave`, `manualSave`, `handleSaveResponse`, `uploadToStorage`, `handleUploadToStorageResponse`, rename, `closeDocument`, `disconnectedFromKit`, `autoSaveAndStop` | every edit is at the host or data loss is detected; the time stamp of the last upload tells the truth; closing ends |
| `ClientSession` (`wsd/ClientSession.*`) | session state, docURL, permissions, token; visible area, part, requested tiles, tiles on the fly, old wire ids | client commands, Kit messages, `onDisconnect`; tile requests and acknowledgements, invalidation | states advance; nobody waits for ever; the flow of tiles does not stop |
| `Storage` (`wsd/Storage.*`) | the HTTP session of the upload, attributes, lock | `uploadLocalFileToStorageAsync` and its answer | one upload at a time, each answered once |
| Kit (`kit/Kit.cpp`, `kit/ChildSession.cpp`) | child sessions, views, modified flag, the file; the last rendering of each tile | load, edit, `.uno:Save`, ModifiedStatus, disconnect, exit; render, invalidate | answers every save of a loaded view, leaves the file for upload; a delta fits the rendering before it |
| Quarantine (`wsd/QuarantineUtil.*`) | copies of saved versions | copy, link, clean up | the last copy survives data loss |
| `TileCache` (`wsd/TileCache.*`) | cached frames, wire ids, tiles being rendered with subscribers | look up, subscribe, save and notify, invalidate, cancel, evict | a valid tile is current; deltas form a chain |
| Queues (`common/MessageQueue.*`, `wsd/SenderQueue.hpp`) | queued messages, cursor positions | put with de-duplication, prioritised get, combine | nothing but duplicates is dropped |
| Browser: tile layer (`CanvasTileLayer.js`, its Writer, Calc and Impress variants, `Parts.js`) | `_tiles`, `_tileCache`, visible area, selected part, counts of empty and invalid tiles | tile and invalidation messages, scrolling, part switch, prefetching, cancelling | what is drawn as valid is the document |
| Browser: connection (`Socket.js`, `Control.IdleHandler.ts`, `Map.js`) | the socket, `_msgQueue`, `_slurpQueue`, `_delayedMessages`, timers, `_active`, `_documentIdle`, `_serverRecycling`, `_reconnecting`, `_fatal` | connect, send, slurp, handle, close, activate, deactivate | order is kept; a lost connection is repaired or reported |
| Browser: proxy socket (`js/global.js`) with `wsd/ProxyProtocol.*` | ready state, session, send queue, requests in flight, poll interval; the handler's queues | open, send, poll, close; handle a request, flush | as reliable as a socket, or closed |
| Browser: sheet geometry (`SheetGeometry.ts`, `CalcTileLayer.js`) | sizes and hidden and filtered bits as runs, positions of the runs, zoom, range in view; `_selectedPart`, `_documentInfo`, `_oldSheetGeomMsg`, `_sheetGeomFirstWait` | request, update, switch of the sheet, zoom, scroll; conversions between core pixels, tile twips and print twips | every element is where Core has it; conversions invert each other |
| WOPI locks | `LockContext` | lock, refresh, unlock, attemptlock | no upload without the lock |
| Prespawn pool, ForKit (`wsd/LOOLWSD.cpp`, `kit/ForKit.cpp`) | spare children | spawn, hand out, reap | a request gets a child or an error |
| Network layer (`net/`) | buffers, poll callbacks, WebSocket state | poll, wake up, closing handshake, HTTP client | no callback is lost; handshakes end |
| Admin, file server, widgets, mobile apps | | | monitoring, I/O and user interface |

**How they interact.**  Every document has one polling thread.  All handlers of
its broker run on that thread: socket input from clients and from the Kit, the
answer of the HTTP client, callbacks posted by the web server thread that
accepted a client.  Only the creation of a session
(`createNewClientSession`) and the shutdown and termination flags come from
other threads.  Messages to the Kit and from it are ordered streams; nothing
orders the two streams, the host's answers and the clock against each other.
The browser runs one event loop: socket events, timers, pictures that finish
decoding and the user's actions come in any order, each handled to its end.

**What is hard.**  A handler is sequential code, but *between* two handlers
anything may happen: an edit between the save request and its result, the result
of one save while the upload of another is in progress, the last view leaving
during all of that, the Kit dying, an answer that comes after its timeout; a tile
scrolled away while it is rendered, invalidated while it is on the wire, its base
evicted from one of the three caches; a connection lost while messages of it wait
in the page; HTTP answers that overtake each other.  The state that decides what
to do next is spread over time stamps, versions and flags that are written by one
handler and read by a later one.  `PROJECT.json` lists the places under
`hazards`, each with the properties that watch it.

## 2. Plan

Done:

1. **DocumentBroker**: the broker with its sessions, the Kit and the host as it
   sees them; safety, action and liveness properties; type correctness and the
   pairing of activities with their operations proved.
2. **Tiles** and **TileView**: the tile flow from the Kit's queue to the screen,
   composed of all three parties, and the abstract view it implements.
3. **Connection**: the browser's connection with its queues, timers and retries.
4. **ProxySocket**: both ends of the proxy protocol.
5. **SheetGeometry** and **CalcSheets**: the geometry of a sheet as an algorithm,
   and the protocol that keeps it up to date.
6. Theorems ([section 6](#6-what-is-proved)): the safety properties of the broker's
   files, waiting sessions and status, of the proxy socket, of the connection with
   its queues and retries and of wsd's tile cache, and the refinement of `TileView`.

Left, in this order:

7. Theorems: `ShownIsCurrent` of `Tiles`, on top of the order that
   `TileViewProofs` establishes; `TypeOK` of `Tiles` and of `CalcSheets`; the facts
   about runs of `SheetGeometry`; `CleanExit`.
8. Abstract specification *StoredDocument* (one document with versions in memory,
   on disk and at the host) implemented by `DocumentBroker` under the mapping
   memory = `kit.ver`, disk = `wsd.uploading.v`, host = `storage.v`.
9. WOPI locks as an extension of the broker's upload path; batch brokers
   (convert-to) as its variant without upload; the prespawn pool.

## 3. The models

Handlers call one another in this code, so in every module a handler is an
operator from a record to the next one that bears the name of the function, and
an action applies one handler when its input arrives.  Operators whose names
begin with `Bug` are plausible mistakes that show the properties can fail
(`mutants` in `PROJECT.json`); nothing else uses them.

### DocumentBroker

`DocumentBroker.tla` holds the component, `MCDocumentBroker.tla` is the module
the runs use, `DocumentBrokerProofs.tla` and `DocumentFilesProofs.tla` the proofs.

The broker is one record, `wsd`; its fields are grouped as in the code
(`DocumentState`, `SaveManager`, `StorageManager`, `ClientSessions`,
`PollThread`).  `RemoveSession` calls `AutoSave`, which calls `SendUnoSave`;
`HandleSaveResponse` ends in `CheckAndUploadToStorage`, and so on.  The other
variables are the Kit (`kit`), its messages that wsd has not read (`toWsd`), the
file at the host (`storage`) and the inputs still allowed (`budget`).

| In the model | In the code |
|---|---|
| `status`, `activity`, `loaded`, `closeRequested`, `unloadRequested`, `disconnected`, `interactive` | `DocumentState` |
| `stop`, `closeReason` | `_stop`, `_closeReason` being set |
| `docChanged` | `_documentChangedInStorage` |
| `modified`, `activityAfter`, `modifyAfter` | `_isModified`, and the comparisons of the activity times with the time of the last save request |
| `saving`, `saveFailures` | `SaveManager`: active request, failure count |
| `uploadActive`, `uploadFailures`, `lastModified`, `lastUploaded` | `StorageManager` and `SaveManager` time stamps |
| `next`, `cur`, `last` | `_nextStorageAttrs`, `_currentStorageAttrs`, `_lastStorageAttrs` (user-modified and forced) |
| `request`, `flight` | `_uploadRequest`, and the request of `_uploadHttpSession` |
| `upload`, `uploading` | the files with the suffixes of those names |
| `sess`, `docUrl`, `writable`, `expired`, `closed` | session map and states, sessions that sent `load`, write permission, expired token, closed socket |
| `toKit`, `kitUp` | frames not yet read by the Kit, the process being alive |
| `phase`, `toShut`, `dataLoss`, `quarantine` | the end of `pollThread()` |
| `seen` | history for the properties only |

A file is its modification time and the number of edits it holds; the content is
nothing but that number.  The clock predicates of the code (autosave due, save
timed out, throttling over, stale session, load and idle timeouts) and the
transport errors are members of the set `timers` that an action chooses: any
combination that `Timers` allows may hold in any iteration.  Of the transport errors
`httpError` is an exception before `_uploadHttpSession` is set, `httpThrown` one after
it (it stays set, and nobody answers), `noConnect` a request that cannot be sent.

Failures are counted without bound in the code; the model stops counting at
`LimStoreFailures`, because the code asks only for 0 and for at least that many.
No property mentions the bound.

| Actions | Code |
|---|---|
| `CreateNewClientSession`, `AddSession`, `AddSessionFails`, `LoadDocument` | a client connecting, `addSession`, a failing download, `load` |
| `Edit`, `OtherActivity`, `ManualSave`, `SaveToStorage`, `RenameFile`, `CloseDocumentCommand`, `VersionRestore` | client commands in `ClientSession::_handleInput` |
| `ClientDisconnect` | `onDisconnect`, `removeSession` |
| `KitSession` ... `KitExit`, `KitDialog`, `KitStatus` (a later `status:` of a view, which also clears `_interactive`), `KitNotifyModified`, `KitCrash` | the Kit process as wsd sees it |
| `ForwardToClient`, `KitDisconnected` | a message of the Kit, the Kit's socket closed |
| `UploadAnswered`, `ChangedByOthers` | the host's answer (which may be lost after the file was replaced; wsd then goes on naming the old time stamp and the retry meets a conflict), somebody else writing the file |
| `Poll...` | one iteration of the loop, one action per branch |
| `PollExit`, `FlushEnds`, `ShutdownClient`, `Finish` | after the loop: data-loss check, flushing, `shutdownClients`, quarantine |

The configuration modelled: a WOPI host without locks, an editable file type
(not a view-only extension), quarantine enabled, no template, no save-as or
export, and a session that may write also being one that may edit.

### Tiles and TileView

`Tiles.tla` composes the Kit's queue and renderer, wsd's cache and session and
the browser's tile layer; `TileView.tla` is what they promise together.
`TilesProofs.tla` proves what wsd's cache holds, `TileViewProofs.tla` the promise.

| In the model | In the code |
|---|---|
| `doc` | the document: per tile, the number of edits of it |
| `srv.queue`, `srv.prev`, `srv.nextWid` | the Kit's `TileQueue`, the last rendering `DeltaGenerator` keeps, if it has not dropped it, the wire ids |
| `srv.up` | messages from the Kit to wsd |
| `srv.cache`, `srv.rendering` | `TileCache::_cache` (the frames of a tile and whether it is valid), `_tilesBeingRendered` |
| `srv.requested`, `srv.onFly`, `srv.oldWid`, `srv.area`, `srv.part` | `_requestedTiles`, `_tilesOnFly`, `_oldWireIds`, `_clientVisibleArea`, `_clientSelectedPart` of `ClientSession` |
| `srv.sendQ`, `srv.wire` | `SenderQueue`, the WebSocket to the browser |
| `client` | `_tiles` with `loaded`, `_invalidCount`, `wireId` and picture; `_tileCache`; `_selectedPart`; the visible area; the pre-fetch timers |
| `moves`, `astray`, `away`, `unacked`, `skipped` | the bound; history for the properties |

A frame is a keyframe or a delta from one picture to another; a picture is the
number of edits it shows, `Blank`, or `Garbage` after a delta was applied to a
picture it was not made for.  So a mismatch of keyframes, deltas and caches is
seen as a wrong picture and nothing about pixels is needed.

A rendering that differs in nothing from the last one gives no bytes
(`Delta.hpp:411`).  As a `tile:` it is dropped and its rendering stays registered until
it times out (`DocumentBroker.cpp:3388`); in a `tilecombine:` its subscribers are
forgotten, nothing is sent and the cache stays invalid (`TileCache.cpp:189`):
`WsdUnchanged`.  It takes an invalidation of more than what has changed
(`InvalidateMore`, the fault `repaint`) or two requests for one edit.

`canceltiles` drops the session's subscriptions, and nothing from the Kit's queue:
`put_impl()` keeps every queued tile whose text has an `id=`, meant for thumbnails, and
`nviewid=` and `wid=` are in all of them (`MessageQueue.cpp:41`).

Actions: `Edit`, `InvalidateMore`, `KitInvalidate`, `KitRender`, `KitLoad` at the Kit;
`WsdTile`, `WsdUnchanged`, `WsdInvalidate`, `WsdStatus`, `WsdFlush` in wsd; `ClientTile`,
`ClientInvalidate`, `ClientStatus`, `Move` (scrolling), `SetPart`,
`PreFetchTiles`, `PreFetchPartTiles` in the browser; the faults `Elapse` (a
rendering takes too long and is asked for again), eviction from the cache
(`Evictable`) and from the Kit's renderings (`DropDeltas`, the fault `forget`),
`Deactivate` and `Activate`, and `Reconnect`.

`PickAt` and `Sorted` say by rank which element comes where, instead of using
`SelectSeq` and a sorting operator: those are recursive, and the prover knows
nothing of what they return.

What the client sends is handled by wsd and queued at the Kit in the same step.
That loses no behaviour: nothing the receiver could do before it reads the
message depends on it.  The way down is asynchronous at each hop.

`TileView`: a tile shows nothing or the document after some number of edits, and
what it shows is only replaced by something newer or by nothing.  `ImplementsView`
(`View == INSTANCE TileView WITH ...`) maps the picture of a held tile to it.

### Connection

`Connection.tla` models the page: `c` is `Socket`, `IdleHandler` and what they
use of `Map`; `wsd` is the session at the other end and what it has sent.
`ConnectionProofs.tla` holds the proofs.

| In the model | In the code |
|---|---|
| `c.sock`, `c.queue` | `socket.readyState`, `_msgQueue` |
| `c.slurp`, `c.timers`, `c.delayed`, `c.delayTimer` | `_slurpQueue` and the timers of `_queueSlurpEventEmission` and of `_onSocketClose`; `_delayedMessages` |
| `c.interval`, `c.count` | `this.timer` (reload of an unloading document, or activation of a recycled one), `ReconnectCount` |
| `c.active`, `c.recycling`, `c.idle`, `c.dimmed` | `_active`, `_serverRecycling`, `_documentIdle` and the overlay |
| `c.reconnecting`, `c.fatal`, `c.blocked`, `c.docLayer`, `c.docLoaded` | `_reconnecting`, `_map._fatal`, the UI being blocked, `_docLayer`, `_docLoaded` |
| `c.asking`, `c.error` | a dialog that asks for a password, an error being shown |
| `c.log`, `c.handled`, `c.tried`, `c.hasty`, `c.muted`, `c.leftover`, `c.stale` | history for the properties |

The actions are the events of the page: `Open`, `Fail`, `Receive`, `Closing`,
`Closed`, `Timer`, `Interval`, `DelayTimer`, `ImageLoad`; the user's `Send`,
`Focus`, `Blur`, `Wake`, `Answer`; and what wsd may send (`Wsd...`), modelled from
what the page expects of it.  `stale` notes that the page connected again too
early: with messages of the old connection still slurped behind the one being handled,
or with the UI blocked.

A message for the document layer is of a kind that `_tryToDelayMessage()` delays or
not (`m.delays`).  While there is no layer, or others are delayed already, the first
kind waits; the second goes to the layer at once, past the waiting ones, or is lost
when there is no layer (`Socket.js:1146-1153`).  `_isReady()`, which also delays
messages and the handling of `status` in rounds of 100 ms (`Socket.js:1252`, `1286`),
is left out: it waits for scripts of the page, once, when the page is started.

### ProxySocket

`ProxySocket.tla` models the page's end (`s`: `readyState`, session id, send
queue, `msgInflight`, `openInflight`, poll interval as a throttling level), the
requests (`open`, `writes` by slot, `closing`) and wsd's end (`srv`: the session
and its `ProxyProtocolHandler` queue).  Requests and answers overtake each other,
and each may be lost or never be answered.  `Poll` and `BackedUp` are the two
branches of `doSend()`, `WriteLoad` and `LoadEnd` its answer, `HandleOpen`,
`HandleWrite`, `RefuseWrite`, `HandleClose` the handler.  A session that was closed
is `leaving` and still takes requests until `finalRemoveSession()` has removed it from
the broker's map (`FinalRemoveSession`).  `ProxySocketProofs.tla` holds the proofs.

### SheetGeometry and CalcSheets

`SheetGeometry.tla` holds the operators that translate `SheetGeometry.ts` for one
dimension; the other is the same code.  A list of runs is a sequence of
`[end, value]` as in the code, a zoom its level and a tile's size in twips and in
pixels, for a display with `dpiScale` 1 (`TileGeometry`: the twips are rounded,
`CanvasTileLayer.js:1254`).  Positions in fractions of a twip are multiplied by the
number of pixels of a tile (a power of two in the code, so that its quotients are exact)
and stay integers.  The walk that `union()` and `applyZeroValues()` share, the binary
search with its early exits, and every rounding are those of the code.

The scale of *another* zoom is not that of its tiles.  `zoomToFactor()` (`Map.js:474`)
takes the power of 1.2, `scalePosForZoom()` (`TilesSection.ts:697`) rounds once more from
the rounded twips of the current zoom; both are fractions here (`ZoomToFactor`,
`ScalePosForZoom`).  Their floating-point products are not exact: where the exact product
is a whole number, `Math.floor()` may give one pixel less.  `OnePx` takes the set of the
sizes this happens for as a parameter, and the property is about every such set.

`CalcSheets.tla` is the state machine around it.

| In the model | In the code |
|---|---|
| `core` | the sheets as Core has them, element by element; the current one; whether the view was told of the last switch (`told`, history) |
| `layer.part`, `layer.info` | `_selectedPart`, `_documentInfo` |
| `layer.geom` | `sheetGeometry`: part, lists of runs, positions, range in view |
| `layer.firstWait`, `layer.oldMsg` | `_sheetGeomFirstWait`, `_oldSheetGeomMsg` |
| `layer.zoom`, `layer.scroll` | the tile sizes and the map's position |
| `up`, `down` | the Kit's queue: requests of the page and callbacks of Core; messages to the page |
| `layer.crossed`, `layer.switches`, `core.ack` | history for the properties |

Actions: `SetPart`, `OnZoomRowColumns`, `Scroll`, `Receive` in the page;
`CoreSetPart`, `CoreAnswer`, `CoreCallback` in the Kit; `CoreEdit`, `CoreEditOther`
(columns, when rows are modelled) and `CoreSwitch` for what Core does by itself, from the
messages the page expects of it.  A callback waits in the Kit's queue with the requests
that have arrived there, an older change of the size is dropped for the new one
(`PutCallbacks`), and the status is composed when the callback is taken out
(`CoreCallback`, `ChildSession.cpp:2778`): it tells of the sheet Core has then.

## 4. What is checked

| Run | Instance | Shows |
|---|---|---|
| `store` | one writer; edits, rename, savetostorage, version restore, commands before the view is loaded; autosave, save timeouts, full disk, requests that are never answered or end in an exception, termination | `TypeOK`.  `UploadedIsStoredUnlessOverlap`: an equal time stamp means the host has that version.  `ActivityBacked`: an activity has its operation |
| `views` | two writers; joining, dialog, later status messages, saving, owner closing, rejection, leaving in any order; failing saves and uploads, a foreign change | `CleanExit`: leaving the loop without detected loss leaves every edit at the host, edits still on their way to the Kit included; `StatusNeverRegresses`, `WaitersAnswered`, `UploadedIsStoredUnlessOverlap` |
| `closing` | one writer, fair; failing uploads, crash, shutdown, lost answers, load and idle timeouts, `always_save_on_exit`, no `wasModified` | `ClosingEnds`, `SavingEnds`, `LoadingEnds` |
| `tiles_text` | a text document of two tiles, one of them in view; repaints, eviction in wsd and in the Kit, time-outs, inactivity, reconnects | `CacheIsCurrent`: what the cache takes for valid is the document, or an invalidation of it is coming.  `DeltasChain`: cached frames are a keyframe and deltas each made from the one before.  `ShownIsCurrent`: what is drawn as valid is the document, or something about it is coming.  `SettledIsShown`: when nothing is left to do, the visible tiles are there, but for the blank ones of section 7 |
| `tiles_parts` | a spreadsheet or presentation of two parts; part switches, pre-fetching, the same faults without repaints and eviction in the Kit | `ShownIsCurrent`, `SettledIsShown`; `CachedIsCurrent` for the pictures kept for other parts; `ImplementsView` |
| `connection` | one page; every refusal and ending, pictures, save-as, blocking, the user leaving and returning | `CommandsInOrder`; `MessagesInOrder`: the layer gets no message twice, and in order but that one which is never delayed may overtake delayed ones; `NeverStranded`, `ActivityAgrees` |
| `connection_live` | the same without the user, fair | `RetriesEnd`, `SlurpDrains` |
| `proxy` | three requests in flight, two messages each way, two faults, fair polling | `InflightCounts`, `OrderedUnlessCrowded`, `NeverTwice`, `NothingLost`, `ClosedForGood`, `SilenceEnds` |
| `sheets` | two sheets of four rows; changes by Core, switches by both sides, two zooms, scrolling | `PositionsAgree`: when all is handled, the page has Core's sheet and every element is where Core has it.  `PixelFindsElement`: a pixel is found in the element that covers it.  `PrintMapsToTile`: print twips keep their offset in the element when converted to tile twips.  `ZoomKeepsCells`: the start of a cell converted to another zoom and back is the start of that cell, and where it is expected after zooming it will be, up to a pixel for every visible element before it.  `ViewFollows`: the range in view is that of the pixels shown |
| `overlap`, `tiles_late`, `early_drop` | | violations; [section 7](#7-where-code-and-comments-disagree) |

The exceptions in `CleanExit` are those of the code's own check after the loop:
it does not look at an outstanding or failed save, it takes a conflict in a
document that is being closed for the owner's decision to discard, and a dead Kit or
the termination flag end the loop at once; so does a view that waits for its user to
answer a dialog when the document is being unloaded (noted as `dialog` in
`wsd.seen`).  The exceptions in the other modules are
history variables that record that the code took a step known to break the
property (listed in section 7): `astray` (a delta drawn without its base),
`away` (inactive or disconnected with a document of several parts) and, for
`SettledIsShown` alone, `unacked` (a tile not acknowledged) and `skipped` (somebody
waited for a rendering that was answered by nothing) in `Tiles`;
`muted`, `leftover` and `stale` in `Connection`; `crowded`, `lost` and `revived`
in `ProxySocket`; `crossed` in `CalcSheets`.  Without such a step the property
holds without exception.

## 5. Bounds and fairness

**DocumentBroker.** `Budget` bounds client commands and faults together; two are
enough in the passing runs because saves also come from autosave, from closing
and from the last view leaving, which it does not bound; `overlap` takes three.
Joining, loading, leaving, timers, Kit answers and polling are not bounded by
it.  Failing saves and uploads and full disks are choices of the answer and cost
nothing, so repeated failures happen.  `MaxQueue` = 2 bounds the messages each
way; a client command, a poll iteration and a Kit answer wait for room, which a
TCP stream would provide later.  `LimStoreFailures` = 2 makes both "failed once"
and "limit reached" happen.  One session is enough for the storing
protocol; two make "the last view", "another editable view" and a view that
loads while another leaves.  An upload that cannot be started at all
(`httpError`) is in no passing run, for want of time; the proofs include it, as they
include every event and timer that a run leaves out.
Only `wsd.toKit` can exceed `MaxQueue` by the few messages one handler sends.
`CleanExit` is not proved, so larger instances than those of the runs matter: it
holds with `Budget` = 3 and two sessions for the subsets of the events of `views`
that finish in a few minutes, and with `Budget` = 4 and one session.  Two of its
exceptions (a conflict while closing, `dialog`) were found that way.

Fairness (`FairSpec`): the polling thread wakes up at least every few seconds, so
an iteration in which the retry, throttle, stale-session and lost-save timers
have run out is weakly fair; the Kit reads its socket; wsd reads its sockets; the
host answers a request that reached it; the code after the loop runs on.  Nothing
is assumed of clients, of crashes or of a connection that could not be made.
`saveLost` is the save timeout when no answer is on its way; with it a fair run
does not time out every save for ever.  Load, idle and autosave timers are never
assumed to fire.  Deadlock is checked; the ended thread may stutter (`Finished`).

**Tiles.**  One edit and three moves or faults (`MaxMoves`): two tiles
suffice for "one in view, one not", two parts for "shown, kept for the next
switch".  `Limit` = 1 tile on the fly makes the window close at every tile.  It must
be at least the number of tiles in view (`TilesAssumption`), as in
`sendRequestedTiles()`, which takes 1.1 times that number and at least ten
(`DocumentBroker.cpp:3256`); with a smaller one `SettledIsShown` fails, because
requests wait that no acknowledgement is left to release.  The queues are not bounded
but by what these steps put into them.  No fairness: all properties are safety, and
`SettledIsShown` speaks of states with nothing left to do.  The system may stop, so
deadlock is not checked.

The invariants of `Tiles` were also tried beyond these bounds, on random behaviours of
up to 120 steps with three edits, ten moves, two or three positions of a part, one or two
of them in view, a limit of one or two, and three sets of faults.  The exceptions
`unacked` and that of a rendering which holds a place after it was answered by nothing
(`Withheld`) were found that way; neither is needed within the bounds of the runs.

**Connection.**  `MaxFaults` = 2 (refusals, drops, ended sessions), so that a
fault hits the repair of an earlier one; `MaxReconnects` = 1 stands for the ten
of the code and makes "give up" happen; two commands and two messages show a
wrong order.  `connection_live` leaves out the user and blocking, which keep no
retry alive, to stay small.  Fairness: a connection attempt ends (`Open` or its
failure), the retry interval fires, and the event loop handles what is there
(`Handling`, as one weakly fair action: it does not starve, nothing is said of
single events).  Nothing is assumed of the user or of wsd's endings.

**ProxySocket.**  `MaxInflight` = 3 for the four of the code, `MaxLevel` = 2
throttling steps; two messages each way and two faults.  Fairness: the poll timer
fires while it is set (`BackedUp`, `Poll`).  Nothing is assumed of wsd or of the
network: `SilenceEnds` is about requests that are never answered.

**CalcSheets.**  Four elements of which the two in the middle are changed together, so
that runs of hidden and of equally large elements begin, end and meet at both edges of
the range; sizes of 30 and 247 twips at zooms 10, the map's first one, and 17, that is 3840
and 1072 twips per tile of 256 pixels.  At these, sizes are whole pixels and not, the
predicted size differs from the later one, and `scalePosForZoom()` arrives at 3841 instead
of 3840.  The window is 20 pixels wide and is scrolled by 9.  Three changes, switches, zooms and scrolls
together (`Budget`), at most two of them changes of the geometry.  The properties of the
conversions are checked for every pixel and every element of every state.  The system may
stop when the bound is used up, so deadlock is not checked.

## 6. What is proved

`DocumentBrokerProofs.tla`, for every number of sessions, every choice of
writers and owners, every configuration, and every bound:

* `TypeCorrect`: `Spec => []TypeOK`.  Beyond types in the narrow sense this says
  that every frame to the Kit names a session, though the choice of a session for a
  save may find none, and that an expired token belongs to a session.
* `ActivityIsBacked`: `Spec => []ActivityBacked`.  Activity::Save always has an
  open save request and Activity::Rename a session that asked for it.

Both follow from one inductive invariant, `Inv`: the type invariant, with
`Sound(wsd)`, that is the two parts of `ActivityBacked` and `FlightBacked` (an
upload in progress belongs to a session; without it the session whose token
expires could not be typed).  The argument follows the call graph: one lemma per
handler says that it preserves `Sound`; the lemma of `HandleSaveResponse` passes
through states in which the save request is closed and Activity::Save not yet
ended (`Held`), which `CheckAndUploadToStorage` repairs.  `LeastExists` and
`GreatestExists` justify the choices of the first and last session.  Assumptions:
the ASSUMEs of `DocumentBroker.tla` and nothing else.

`DocumentFilesProofs.tla`, with the same generality and building on `TypeCorrect`:

* `HostHasUploaded`: `Spec => []UploadedIsStoredUnlessOverlap`.
* `WaitersHear`: `Spec => []WaitersAnswered`.
* `StatusMovesForward`: `"early" \notin Events` implies
  `Spec => StatusNeverRegresses`.

The invariant of the first two is `Knows`.  `Filed`: an overlap has been noted, or the request
describes the upload in progress and file times grow from the one booked as
uploaded through the one in flight, `.uploading` and `.upload` to the Kit's clock;
equal times mean equal versions; and while the file from the download is in place
nothing has been sent.  That is what a comparison of two time stamps in
`handleUploadToStorageResponse` silently relies on.  `Heard`: for each session in
WAIT_DISCONNECT the request is on its way to the Kit, or the farewell is on its way
back, or the Kit is gone.  One transitive relation, `Steps(b, c)`, says what any
handler may do to these fields; each handler's lemma shows it, and calls compose.

`Steps` also says that a handler leaves the status alone or sets Destroying
(`Onward`).  The one handler that sets Live is `viewLoaded`, and it must not find the
document Destroying.  `Opening` says why: until the first view is loaded nothing was
saved, uploaded or renamed, unloading was not requested, no session is LIVE or waits
for its farewell, and no save is on its way; so Destroying is only reached when no
session is left, and none can join then.  With commands of a session that is still
loading (`early`) this is false and so is the property (section 7), hence the
hypothesis; every other event, timer and configuration is included.

`ProxySocketProofs.tla`, for every limit on requests and messages:
`SocketTypes` (`TypeOK`), `InflightIsExact` (`InflightCounts`), `HandledOnce`
(`NeverTwice`), `OneRequestKeepsOrder` (`OrderedUnlessCrowded`),
`OpenSocketLosesNothing` (`NothingLost`), `CloseEndsSession` (`ClosedForGood`), all
from `ProxyInv`: besides the types, that the counter agrees with the slots that are
in use, that a message is at exactly one place on its way, that with one request at
a time what is handled, in the request and queued are consecutive, and what a
closed socket has left behind: no session, or one that is leaving.

`ConnectionProofs.tla`, for every number of commands, messages, faults and retries:
`PageTypes` (`TypeOK`), `CommandsKeepOrder` (`CommandsInOrder`), `MessagesKeepOrder`
(`MessagesInOrder`), `KitKnowsActivity` (`ActivityAgrees`), `PageNotStranded`
(`NeverStranded`).  The invariant of the first four: commands
sent lie below a threshold and `_msgQueue` continues from it, and is empty while the
socket is open; what was handled or is delayed, what is slurped and what is on the
wire lie in consecutive bands of numbers, and within the first band (`Settled`) every two
messages handled are in an order `MayPrecede` allows, the delayed ones rise, and each of
them may follow what was handled; the count of retries and the refusals not yet
handled together never exceed the faults that happened; an active page has an
active view at the Kit, or its notice was swallowed.

`NeverStranded` needs more (`RetryInv`).  Unless the page is `stale`, what wsd said
and the page has not handled, slurped or on the wire, follows a script (`Script`):
what ends a session is its last word, `status` and `block` come after the load, a
`block` is followed by its `unblock` or by the end.  From there `Ordinary` follows
the page: while a load is under way no earlier retry is left; a recycled document has
an interval that activates it; `_reconnecting` and a blocked UI have a cause that will
end them; and a closed socket has a retry, a timer, an error, a dialog or the idle
overlay.  `Steady` is the part that holds even of a stale page.  The attempt to prove
this showed a scenario beyond the bounds of the run (`MaxFaults` = 4, section 7), and
`stale` was extended by it.

`TilesProofs.tla`, for every number of tiles, parts, edits, moves and requests and
every limit on the tiles on the fly:

* `CacheStaysCurrent`: `Spec => []CacheIsCurrent`.
* `DeltasStayChained`: `Spec => []DeltasChain`.

The invariant is `CacheInv`.  `FreshAt`, for each tile: an invalidation of it is in
the Kit's queue; or a valid entry ends with the document as it is or an
invalidation is on its way to wsd, and so for each rendering on its way with an
invalidation *behind* it.  `ChainAt`: each delta starts at the rendering before it,
within the cache, from there to the first rendering on the way, along the way, and
up to the one the Kit keeps for the next delta, if it still has one; an unchanged answer
stands for no frame; eviction is harmless because a delta
without its tile is dropped, and so is everything up to the next keyframe.  Most
operations of session and browser neither touch the cache nor lose an invalidation
(`Calm`), and that relation is carried along their call graph and their loops;
`TakeTile`, `TakeInval`, `RenderKeeps` and `DrainKeeps` are about the others.

`TileViewProofs.tla`, with the same generality:

* `TilesImplementView`: `Spec => ImplementsView`, the refinement of `TileView`.

The invariant is `FlowInv`: `CacheInv`, and for each tile the pictures on the way are
in order, from the screen through the wire, the sender queue, the cache and the
renderings of the Kit to the document.  `sendTile()` may send one keyframe or any
number of deltas, depending on the wire id the browser is thought to have; wire ids
rise along the cache, so what is sent is a chain of frames, and applying a chain
gives the old picture, the picture of the last frame, or garbage, which counts as
showing nothing.  `Edit` is a step of `TileView!Edit`, every
other action one of `TileView!Refresh` or a stutter.

**Loops.**  The handlers' loops are folds.  `FoldProofs.tla` (`FoldRuns`) shows, for
any operator, that a `FoldLeft` over a sequence is the last result of a run that
takes one element after the other; a module instantiates it with the loop's body
and carries its invariant along the run.  This replaces the induction theorems of
the library, whose operator parameter the provers cannot instantiate.
`SeqLemmas.tla` has the facts about sequences and least elements the proofs share.

Assumptions: the ASSUMEs of the modules and nothing else.  All the invariants were
model-checked on the configurations of section 4 before they were proved.

**Only model-checked.**  Liveness (`ClosingEnds`, `SavingEnds`, `LoadingEnds`,
`RetriesEnd`, `SlurpDrains`, `SilenceEnds`) is out of the prover's reach.  So far
also: `CleanExit`, whose exceptions follow the code's check after the loop and whose
invariant spans all files and queues (it does not hold for every set of events,
section 7); of `Tiles`, `TypeOK`, and `ShownIsCurrent`, `CachedIsCurrent` and
`SettledIsShown`, which need beyond the order of the pictures an account of every
request and acknowledgement; and all of `CalcSheets`, whose operators walk over lists
of runs.  `ErrorAfterRetry`, `SettledIsCurrent` and `UploadedIsStored`, which the
three violation runs check, are false.

## 7. Where code and comments disagree

Three runs state what a comment says and find a violation (`findings` in
`PROJECT.json` quotes the comments):

* `overlap`: a save answered while an upload is in progress replaces
  `_uploadRequest`; the answer of the first upload is booked for the second file.
* `tiles_late`: a tile scrolled into view while its invalidation is on the way is
  marked invalid when it arrives, and nobody requests it.
* `early_drop`: `_reconnecting` is left over from a retry before the first load,
  so the next drop shows the error at once and is not repaired.

**The broker.**  The following properties of `DocumentBroker.tla` are violated
too; a configuration like `MCDocumentBroker_overlap.cfg` with the property and
the events named here shows each.

| Property | Events beyond `edit`, `save` | Scenario |
|---|---|---|
| `LossDetected` | | the answer of an earlier upload stops the broker while the last save is outstanding, and no data loss is reported; "Don't destroy just yet, wait until save and upload are done." (`DocumentBroker.cpp:2651`) |
| `UnloadOnlyWhenLast` | two sessions | a view that leaves while loading counts the views wrongly and requests unloading under the user who is saving; "Last view going away; can destroy?" (`DocumentBroker.cpp:2646`) |
| `ConflictCopyKept` | `foreign`, `crash` | a Kit crash during a conflict is taken for the user's decision to discard; the saved copy is not kept in the quarantine (`DocumentBroker.cpp:546`) |
| `ReloadOnlyWhenClean` | `foreign` | a conflict answered while a save is outstanding tells clients to reload although there are changes (`DocumentBroker.cpp:2037`) |
| `ClosingEnds` (fair) | `rename`, `uploadfail` | when the upload before a rename fails, nothing ends Activity::Rename and the document is never unloaded (`DocumentBroker.cpp:2005`) |
| `AbandonedEnds` (fair) | `jsdialog` | the interactive flag outlives the view it was raised for; a document without sessions is never unloaded (`DocumentBroker.cpp:311`) |
| `CleanExit` | timer `saveTimeout` instead of `saveLost` | the late answer of a save that timed out is taken for the answer of the next one |
| `CleanExit` without its exception for it | `closedocument`, `foreign` | the owner closes the document and the last upload meets a conflict that no client is left to resolve; the check after the loop takes that for the owner's choice to discard (`DocumentBroker.cpp:546`) |
| `CleanExit` without `dialog` | `jsdialog`, `closedocument`, two sessions | a view that loads asks its user something; when the document is being unloaded the loop ends at once, without saving what the other view changed (`DocumentBroker.cpp:311`) |
| `CleanExit` | `rename` | a save of the user during the save of a rename: the first answer ends both |
| `CleanExit` | `savetostorage` | with a save outstanding, an edit, then `savetostorage` and leaving: the answer of the first save stands for the last |
| `ClosingEnds` (fair) | timer `noConnect` | the result of `asyncRequest()` is ignored, no callback comes, and the broker waits for it (`Storage.cpp:1379`); with `httpThrown`, an exception after `_uploadHttpSession` was set leaves it set, with the same effect |
| `ClosingEnds` (fair) | `diskfull`, `shutdown` | all sessions are read-only after DISKFULL or TOO_LARGE, `getWriteableSession()` returns one all the same, and a shutdown does not end; the same with a second, read-only session and `uploadfail` |
| `ClosingEnds` (fair) | `savefail`, `uploadfail` | with a failed save and a failed upload, `checkAndUploadToStorage()` puts the upload off until a save that nobody issues |
| `StatusNeverRegresses` | `early`, a read-only second session | a save sent before the view is loaded lets the status move from Destroying back to Live, against the assertion in `DocumentState::setStatus` |

**The tile flow**, excluded from the properties by `astray`, `away`, `unacked` and
`skipped`:

* A delta for a tile of another part that the page does not hold is decoded on a
  blank canvas and kept for the part switch, or dropped when a picture is kept
  already (`CanvasTileLayer.js:7033`); a delta that reaches a tile that was
  removed and created again is drawn on a blank canvas too.
* After a reconnect or a time of inactivity only the current part's tiles are
  asked for again; pictures of other parts stay as they were.
* Requests that wait for a free place are merged by position without looking at
  the part (`DocumentBroker.cpp:3120`).
* An inactive page swallows `tileprocessed` (`Socket.js:128`), and wsd goes through
  the waiting requests only on that message and on a new request
  (`ClientSession.cpp:845`, `DocumentBroker.cpp:3148`): when the page is active again,
  a tile in view may stay blank until the next request.
* A rendering without a difference serves nobody.  When an invalidation asks for a
  delta and the page, having dropped the tile, for a keyframe, the Kit's queue combines
  the two and renders only the first (`MessageQueue.cpp:581`); if nothing has changed
  since the last rendering, the page that waits for the keyframe gets nothing and the
  tile stays blank until it is asked for again.  The same happens to a delta whose tile
  has left wsd's cache in the meantime (`TileCache.cpp:536`).
* A single rendering that is answered by nothing stays registered until it times out and
  counts among the tiles on the fly (`DocumentBroker.cpp:3284`), and subscribing to it
  again counts once more: a request can wait for a place with no acknowledgement left
  to make wsd look at it again.

**The connection**, excluded by `muted`, `stale` and `leftover`:

* A message that is not delayed overtakes delayed ones, and is lost when there is no
  document layer; `MessagesInOrder` allows the first and does not speak of the second.
* `useractive` and `userinactive` are swallowed while the UI is blocked.
* A "close: recycling" or "close: idle" that still waits in `_slurpQueue` when the
  page reconnects is taken for one of the new connection.  A picture that holds
  up "close: idle" lets the page reconnect to a document that was closed for being
  idle.
* A page that answers a password dialog while the UI is blocked connects and stays
  blocked.  Refused because the document unloads, it retries and loads; when that
  connection drops before `status` is handled, `sendMessage()` swallows what would
  connect it again.
* `IdleHandler.dimId` is declared with a type and no value, so `isDimActive()` is
  always false (`Control.IdleHandler.ts:18`).
* A failed transparent reconnect is not reported, since the page is not active by
  then (`Socket.js:1472`).

**The proxy socket**, excluded by `lost`, `revived` and `crowded`:

* A network error of a request fires only `loadend`: its messages are lost
  silently, and a failing open leaves the socket connecting for ever.
* `close()` while the session is being opened is undone by the late answer.
* A socket closed by an error does not tell wsd, whose session stays.
* With several requests in flight messages are handled out of order; the serial
  mismatch is only logged.
* What is queued at wsd when it ends the session is lost.

**The sheet geometry**, excluded by `crossed`:

* Requests are suppressed until the first answer (`_sheetGeomFirstWait`).  A switch
  of the sheet before it makes the page take the geometry of the first sheet for
  that of the second, until something changes there (`CalcTileLayer.js:535`).
* A status message that was under way when the user switched selects the old sheet
  again in the page only; one whose text equals `_documentInfo` is ignored, so that
  Core's switch back to a sheet is not followed (`CalcTileLayer.js:394`).
* When Core switches twice before the first callback is taken out of the Kit's queue, a
  request between the two is answered for a sheet that no status ever tells of.

Outside what the properties state: the position `setDesktopCalcViewOnZoom()` expects
for a cell after zooming is computed with the power of 1.2 and the later one with rounded
twips per tile, so they differ (at zoom 12 a row of 250 twips is expected to have 24
pixels and has 23); `ZoomKeepsCells` says by how much at most.  At fewer than two twips per core pixel a pixel
can fall between the rounded ends of two runs, and `getIndexFromPos()` then gives
the last element; a position equal to the total size gives no number when the last
element is hidden (division by zero, `SheetGeometry.ts:672`); the walk of
`getCorePixelsAtZoom()` is not ended when it is done, as its FIXME says, and may
convert a later, smaller element.

## 8. Not modelled

* Content of documents and pictures, rendering, encoding of deltas, clipboard,
  view settings: data the modelled decisions do not depend on.
* Save-as, export, templates, convert-to, and `loadwithpassword` in the broker.
* `download()` beyond its success or failure: CheckFileInfo and GetFile are
  synchronous there.
* WOPI locks and the prespawn pool: candidates for later (section 2).
* The network layer (`net/`): buffers and system calls; the other modules use it
  as an ordered channel that may fail.
* Size and age limits of the quarantine.
* In the tile flow: several views sharing one rendering, zoom levels and modes,
  split panes, watermarks, priorities by cursor position (the model takes any of
  the leading tiles).
* Of the sheet geometry: outlines (groups), `getPrintTwipsPosFromTile()`, conversion
  to tile twips at another zoom, split panes, right-to-left sheets.
* The user interface of the browser, which is most of its code: menus, toolbars,
  notebookbars, dialogs built from the server's JSON, canvas sections, rulers,
  cursors, text input and annotations.  They are layout and DOM state driven by
  single messages, without a protocol of their own between asynchronous parties;
  a state machine of them would restate their assignments.  `w2ui`, `select2`,
  `Autolinker` and other files under `browser/js` are vendored.
* Admin console, file server, SSL, mobile apps, tools: I/O and packaging, without
  influence on the state above except through the events of the models.
