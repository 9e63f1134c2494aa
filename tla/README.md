# DeckBridge in TLA+

DeckBridge presents cheap USB decks (Mirabox, Ajazz and similar) to the Elgato Stream Deck
application as Stream Deck network docks. For each USB unit it runs a *dock*: a worker thread that
does the blocking HID calls, a pair of TCP servers that speak Elgato's CORA protocol, and a main
thread that ties both together. Around the docks there are widgets, standby, page layouts, a web
UI, a deck in the browser, plugins and extensions. This directory models the parts of that program
in which an unlucky order of events can do harm, checks them with TLC on small instances, and
proves the most important facts with TLAPS for every value of the constants.

`PROJECT.json` maps every definition to source lines and lists the runs, the mutants, the hazards
and the theorems. Paths below are relative to `src/ts/src` unless they start with `src/`.

## 1. Inventory

### Components, their state and their operations

| Component | Source | State it keeps | Operations | Model |
|---|---|---|---|---|
| HID work queue | `worker/hid-work-queue-host.ts` | posted ids with sizes, waiting list, byte totals, next id | `submit`, `complete`, `drain`, `post`, `reset` | `HidWorkQueue`, `HidWorkQueueSystem` |
| HID worker host (driver proxy) | `worker/hid-worker-host.ts` | worker, pending open, pending close, orphans, suspension flags | `open`, `close`, time-outs, `sendImage…`, `onOverload`, `resumeImages`, every worker message, delayed terminate | `HidWorkerHost` |
| HID worker thread | `worker/hid-worker.ts` | promise chain, collected pictures and their timer, driver, model | message listener, batches, open, close, live tuning, acknowledgements | `HidWorkerBatch`, `HidWorkerHost`, `WorkerContract` |
| USB drivers | `devices/hid-device-base.ts` and its families | library, handle, reader, heartbeat, latch owed, key states | open, close, pictures, STP, sleep, reinit, reports, unplug | `UsbDrivers` |
| Panel contents | `main/dock-frames.ts`, `main/dock.ts`, `shared/splash-sender.ts` | last app frames, verify hold, widget cache | record, replay, splash, tick, overload and drain repaint | `DockImages` |
| Touch strip | `main/extra-keys.ts`, `transform/image-render.ts` | zones widgets own, strip canvas | app frame, patch, widget, tap flash, mode change | `StripZones` |
| Driver manager, dock scanner, worker pool, deck choice | `main/driver-manager*.ts`, `main/dock-scanner.ts`, `main/worker-pool.ts`, `main/deck-selection.ts` | primary driver, probe in flight, timers, docks by index, free indices, parked workers | probe, scan, pick, create, teardown, tuning reload, choice, multi-deck, shutdown | `DockDiscovery` |
| USB discovery | `worker/hid-scan-worker*.ts`, `ffi/hidapi.ts`, `src/rust/deckbridge-native/src/hid.rs` | request slots, reset flag, worker; native context, list buffer, snapshot | enumerate, answer, fail, replace; list, parse | `ScanWorker`, `UsbEnumeration` |
| CORA server pair | `cora/server-base.ts`, `main/cora-dock.ts`, `platform/tcp.ts` | listening state, one client per server, keepalive, socket generations | bind with retry, accept, adopt, takeover, close event, stop | `CoraSession` |
| Pairing watchdog, child reconnector | `cora/pairing-watchdog.ts`, `cora/child-reconnector.ts` | recheck timer, retries; dial state and timer | child up or gone, recheck; dial, fail, retry | `CoraSession` |
| CORA frames and assemblers | `cora/frame.ts`, `cora/*-assembler.ts` | partial frame; partial pictures and their budget | append, resynchronise; assemble, evict, expire | `CoraFrames`, `CoraAssembly` |
| Identity of a dock | `main/dock.ts`, `main/dock-status.ts`, `cora/primary-server.ts`, `infra/mdns-advertiser.ts` | identity, device config, geometry, advert | attach, rename, restart of mDNS, capabilities, reports | `DockIdentity` |
| Input and brightness | `main/dock.ts`, `cora/child-server.ts`, `infra/settings.ts` | key states, pending clicks, levels | press, click, dial, level, override, resend | `DockInput` |
| Standby | `main/dock-standby.ts`, `main/standby-*.ts` | display state, who dimmed it, app-gone debounce | sleep, wake, swallow the waking press, caps, hooks | `Standby` |
| Page-following layouts | `main/page-tracker.ts`, `main/dock-pages.ts`, `web/server/pages-controller.ts` | fingerprint, settle timer, committed page, saved pages | observe, settle, commit, edit | `Pages` |
| Command and weather widgets | `main/widget-refresh.ts`, `main/command-actions.ts`, `infra/command-runner.ts` | caches, command slots, shells | tick, tap, follow-up run, sweep, stop | `CommandWork` |
| Elgato auto-restart | `main/elgato-auto-restart.ts`, `infra/elgato-app.ts` | round, fired flag, restart under way | grace period, checks, quit, launch, manual restart | `ElgatoRestart` |
| Plugins | `plugin/` | entries, poll loops, fetches, worker | configure, tap, fetch, ping, reap, respawn | `Plugins` |
| Extensions | `extension/`, `web/server/extensions-controller.ts` | switch, approved digest, worker, queued events | enable, rescan, attach, input, crash, restart | `Extensions` |
| Tuning and the verify wizard | `web/server/verify-controller.ts`, `web/client/simple/verify-wizard` | sessions with a lease, drafts, overrides; the page's questions | start, draft, save, end, lease; answer, ladder, learn | `VerifyTuning`, `VerifyWizard` |
| Web mirror | `web/server/image-channel.ts`, `web/client/lib/ui-ws.ts` | picture caches, sockets, stores, decoders | paint, select, reconnect, hydrate, decode | `WebMirror` |
| Browser deck | `main/virtual-deck`, `web/server/virtual-deck`, `web/client/deck` | sessions, frame windows, held keys | hello, frame, ack, press, release, timeout, reconcile | `BrowserDeck` |
| Push API and pairing | `web/server/push-controller.ts`, `web/server/virtual-deck/pairing-codes.ts` | tokens, pairings, buckets, channels | create, rotate, revoke, claim, push | `PushAccess` |
| Settings and shutdown | `infra/settings.ts`, `main/shutdown.ts` | memory, pending snapshot, write chain, phase | change, import, write, fail, close, crash, restart | `SettingsShutdown` |
| Log file | `infra/log-file.ts` | lines waiting, file size, drain | log, drain, rotate, fail, close | `LogFile` |
| The process and its background tasks | `main/app.ts`, `infra/tray.ts`, `infra/update-check.ts`, `infra/daily-ping.ts` | start step, tray, children, day marks | start, quit, ping, check, notify | `AppProcess` |
| Rendering of the web UI, demo, WebHID, command line, byte layouts, pixel work | `web/client`, `demo`, `webhid`, `cli`, `devices`, `transform`, `src/rust` | none shared with the bridge's concurrency | rendering, parsing, encoding | not modelled, see §6 |

### How they interact

* The main thread and a USB worker exchange messages through two FIFO ports. Every work message
  carries a credit that the worker's `workDone` returns. Worker threads, the event loop's timers,
  USB events and TCP events interleave freely; code between two awaits does not.
* The dock submits pictures to the driver. The driver refuses some under overload, drops the
  app's CORA session so that it will repaint, and tells the dock when it has drained.
* Driver manager and dock scanner share one USB scan, one pool of parked workers and the set of
  claimed HID paths, and both read these before an await and use them after it.
* The CORA primary session carries the pairing; the child session carries pictures. The app may
  give up a child and keep the primary for ever. It never repeats a picture within a session.
* A press goes from the driver through standby, which may keep the press that wakes the deck, to
  the child server and the extensions; a click in the web UI or a press in the browser deck joins it.
* Plugins, extensions and scans run in worker threads of their own, each replaced when it hangs.
  Pages in the browser see the server's caches through a socket and one GET per connection.
* Everything that must survive goes through one settings writer, which the shutdown closes last.

### What is hard

Late answers of workers that were given up; timeouts racing answers; credits across closes;
coalescing pictures across control messages; batches that fail half way; repaint bursts that
overload the queue that caused them; a unit unplugged during each await of its own dock's
creation; setting changes and shutdown in the middle of an open; a second TCP client before the
first one's close event; a frame's magic split over two reads; a timer that outlives its cause; a
read before an await used after it; a page of the web UI that reconnects in the middle of a switch;
a crash between a mark and the deed it marks. `PROJECT.json` lists these under `hazards`, each at
its line with the properties that would catch it.

### What makes each component correct

* Queue: budgets hold, totals agree with contents, order is kept up to invisible coalescing,
  pictures never displace control messages, nothing is stranded.
* Worker host: each call is settled by its own answer, no worker or HID handle is lost, a
  suspension always ends.
* Worker thread and drivers: effects in order of arrival, each message answered exactly once, sent
  pictures are shown, no native call without its handle, key reports follow the fingers.
* Panel and strip: in the end they show what the app drew and what the widgets say.
* Discovery: one owner per driver, one dock per unit, no lost index, no dock after a teardown,
  the primary is always being looked for, shutdown releases everything.
* Network: one client and one keepalive per server, nothing after stop, an abandoned pairing ends;
  bytes come out as the frames and pictures that went in, or not at all.
* Standby, input, identity, pages: the panel, the app, the advert and the web UI agree with the
  state that decides them; a press is passed on whole or not at all.
* Hosted code: runs only as approved, is served while it runs, and can be stopped.
* Settings, log, process: what was reported saved is on disk, what was lost is marked, nothing is
  left running.

## 2. Modules

| Module | Role |
|---|---|
| `HidWorkQueue` | the queue's operations as actions over its own state |
| `HidWorkQueueSystem` | the queue with an arbitrary submitter and a worker; its properties |
| `HidWorkerHost` | composition: driver proxy + queue + worker life cycles + CORA client |
| `WorkerContract` | abstract: messages answered in order, exactly once, eventually |
| `HidWorkerBatch` | the worker's scheduling; implements `WorkerContract` |
| `UsbDrivers` | the drivers in a worker against one unit |
| `DockImages`, `StripZones` | the keys of a panel over the driver as a bounded FIFO; the touch strip |
| `DockDiscovery`, `ScanWorker`, `UsbEnumeration` | units become docks; the scan thread; the native listing |
| `CoraSession`, `CoraFrames`, `CoraAssembly` | servers and sockets; the frame reader; the picture assemblers |
| `DockIdentity`, `DockInput`, `Standby`, `Pages` | what a dock tells, hears, dims and shows |
| `CommandWork`, `ElgatoRestart`, `Plugins`, `Extensions` | work done outside the main thread |
| `VerifyTuning`, `VerifyWizard` | sessions and overrides on the server; the wizard's page and what it computes |
| `WebMirror`, `BrowserDeck`, `PushAccess` | previews, the browser deck, access to both |
| `SettingsShutdown`, `LogFile`, `AppProcess` | what outlives the process, and its end |
| `MC…` | instances for TLC; the `.cfg` files give the constants |
| `HidWorkQueueLemmas`, `…Proofs` | lemmas and theorems, see §4 |

**From code to actions.** A step of the main thread or of a worker runs from one await (or event)
to the next; continuations of a promise that a step resolves belong to that step, because
microtasks run before the next event. Where `destroy()` queues a microtask (`CoraSession`), the
state `closing` blocks every other action until the close handler ran. Time is order: a timeout
may fire at any moment its timer is set. Payloads are sizes, keys or version numbers; images,
HID paths and models are elements of small sets. Definitions whose name extends another one's
(`FitsBesideOffByOne`, `AdoptLate`, …) are faulty variants; no specification uses them. They show
that a property notices the fault, and `PROJECT.json` pairs each with its property.

**Components in one run.** `MCHid`, `MCDockSession`, `MCDocks`, `MCLifecycle`, `MCServices` and
`MCSurfaces` each hold several components that share no state. A variable `part`, chosen at the start
and never changed, says which of them a behaviour moves; the others rest in one initial state. The
behaviours of each component are exactly its own, and the invariants of a resting one hold in its
initial state. Where such a run has liveness properties, no fair action of a resting component is
enabled. What the components do to one another is modelled where it happens: the queue inside
`HidWorkerHost`, the driver's contract inside `DockImages`, the CORA client in both, the tuning
inside `VerifyTuning`, the session inside `VerifyWizard`.

**`HidWorkQueue`.** `posted` is the id → bytes map, `waiting` the list, `postedBytes` and
`waitingBytes` the running totals the code keeps incrementally. `SubmitPosted`, `SubmitFailed`,
`SubmitWaiting` and `SubmitRejected` are the four outcomes of `submit`; `Complete` is `complete`
with the drain that follows it, any posts of which may throw.

**`HidWorkerHost`.** The driver object's fields, then for each thread its port, its job, its
answers and whether it holds the native handle. A thread that hangs in a native call simply takes
no more steps. `terminate()` runs by timer after the driver forgot the worker.

**`HidWorkerBatch`.** Unanswered messages form one line; an entry's link is 0 while it is among
the collected pictures and else names the link of the promise chain that will run it. Only an
open and a close wait for I/O inside a link, so other links are single steps, except a batch, which
runs as `handleImageBatch` and `MiraboxDriver.batch` do: it starts, uploads picture after picture,
any of which may fail, ends after any of them (a transform that throws) in the `finally` of
`batch`, and is answered. `pendingStp` is the driver's, and an STP reaches the panel (`latched`) or
its own `hid_write` fails (`lostStps`). Each says after how many effects it was written.

**`UsbDrivers`.** All a driver does to its unit is synchronous: an action is one message, one tick
of a timer or an event of the unit. `ghost` keeps what the panel ought to show.

**`DockImages`.** Three producers (app, dock, wizard) write through one bounded FIFO that suspends
CORA pictures until the next session and local ones until it has drained, as `HidWorkerHost`
establishes. `Capacity` must hold a repaint burst and one session's pictures, as the real budget
does for every registered model.

**`DockDiscovery`.** Program counters `probe.pc`, `create.pc` and `tasks[k].pc` stand for the
awaits at which the driver manager's and the scanner's functions are suspended. The mock mode of
the test build and the browser deck's reserved index are left out.

**`CoraSession`.** Sockets with the server generation that accepted them. Dial-back is modelled
as the class implements it; `main/app.ts` switches it off (`AllowOutbound` is that switch).

**`SettingsShutdown`.** A value is the number of the change that made it. Snapshots share the
per-device entries with memory until they are serialised, as the code's do.

**`Standby`, `Pages`, `StripZones`, `DockInput`, `DockIdentity`.** Methods of the main thread are
functions of the component's record; the actions are its events and timers. `DockInput` and
`DockIdentity` keep what the app, the advert and the web UI were last told next to what decides it.

**`Plugins`, `Extensions`, `ScanWorker`.** Host and thread with a FIFO each way; a message carries
the worker it comes from, because a replaced worker may still be heard.

**`VerifyWizard`.** A unit of unknown mounting, wiring, key size and JPEG limits; the page asks,
the user answers what the panel shows. What an orientation does is defined on the four corners of
a picture, so the page's algebra is checked against pixels and not against itself.

**`PushAccess`, `ElgatoRestart`, `AppProcess`.** Handlers suspended at an await are records with
what they read before it. The child processes of background tasks belong to `AppProcess`.

## 3. Runs

| Run | Instance | Shows |
|---|---|---|
| `hid` | queue: 2 posted, 2 waiting + 1 reserve, 2 keys, sizes 1–2, 4 submissions, 1 reset; thread: batches of 3, 5 messages | `PostedWithinBudget`, `NoStall`, `PortConsistent`, `EffectsInOrder`, `PicturesCommitFirst`, `FramesNeverCostControl`, `EverythingWaitingLeaves`, `ImplementsContract` |
| `host` | queue of 1+1, 2 workers, 2 opens, 2 posts that may throw, 5 kinds of messages | `CreditsInFlight`, `WorkersKeepTheirPlace`, `StripPatchHasBase`, `CallsSettle`, `LocalImagesResume` |
| `dock_session` | 1 key + 1 widget key, 2 models, capacity 4; 4 sockets, 2 bind attempts, 2 pairing retries, dial-back on | `PanelIsTrue`, `SessionsConsistent`, `PanelConverges`, `AbandonedPairingEnds` |
| `docks` | 2 units of 2 models, 5 drivers, 2 plugs, 2 edits, opens and scans that fail or are slow; standby with every feature on and off | `DiscoveryConsistent`, `StandbyIsFaithful` |
| `discovery_live` | 2 units of one model; opens end before the next event and fail only for missing units | `NothingIsShared`, `DiscoveryProgresses` |
| `lifecycle` | 1 stable and 1 volatile device, 2 owners, 3 changes, 2 faults; 1 slot, 3 cache keys, a cache of 1, 2 requests | `FileIsCurrent`, `RequestsAreServed`, `ShutdownEnds`, `TapsHearBack` |
| `services` | 12 parts, bounds in `MCServices.cfg` | `LayoutFollowsPanel`, `StreamComesOutWhole`, `HostedCodeIsOrderly`, `AppComesBack`, `ScansAreTrue`, `TuningIsRight`, `LogIsFaithful`, `ProcessIsTidy` |
| `surfaces` | 7 parts, bounds in `MCSurfaces.cfg` | `PreviewsMatchServer`, `DeckIsFaithful`, `AccessIsConsistent`, `DriversAreFaithful`, `StripShowsOwner`, `IdentityIsTold`, `InputIsFaithful` |
| `discovery_two_docks`, `standby_absence`, `plugins_loops`, `elgato_twice` | the component alone | findings, see below |

Many of these properties are conjunctions of named parts, each stated with its comment in the
module:

| Property | Parts |
|---|---|
| `PortConsistent` | `WorkReachesWorker` (`AccountsKept`, `SubmissionOrder`, `CoalescingIsInvisible`, `CreditsMatchWorker`) and `WindowConsistent` |
| `CreditsInFlight` | `HostTypeOK`, `PostedIsInFlight` |
| `WorkersKeepTheirPlace` | `OpenAnswersItsCall` and `LetGoIsClean` (`CloseReleasesHandle`, `NoWorkerAbandoned`, `GracefulTerminateIsIdle`) |
| `PanelIsTrue` | `FramesConsistent`, `PanelShowsApp`, `WidgetCacheIsTrue` |
| `SessionsConsistent` | `TypeOK`, `OnlyClientIsOpen`, `OneKeepalivePerClient`, `DialBackPending`, `RecheckOnlyUnpaired`, `NothingAfterStop` |
| `DiscoveryConsistent` | `PoolConsistent` (types, `IndexPoolConserved`, `NoDockAfterTeardown`, `UnplugReachesPrimary`) and `ReconnectPending` |
| `NothingIsShared`, `DiscoveryProgresses` | `DriverHasOneOwner`, `OneDockPerUnit`; `PrimaryRecovers`, `ShutdownCompletes` |
| `StandbyIsFaithful` | `PanelFollowsStandby`, `PressesStayWhole` |
| `FileIsCurrent` | `SavedIsCurrent`, `CleanExitIsSaved` |
| `StreamComesOutWhole` | `FramesComeOutWhole`, `PicturesAreWhole` |
| `HostedCodeIsOrderly` | `PluginsAreServed`, `ExtensionsAreOrderly` (`InputsFollowAttach`, `RunningIsApproved`) |
| `ScansAreTrue` | `ScansAreOwnAndFresh`, `EnumerationIsTrue` (`ScanShowsTheBus`, `SerialsAreOwn`, `QueriesAreRecent`) |
| `TuningIsRight` | `TuningFollowsSessions`, `WizardKeepsItsWord` (`SavedDrawsRight`, `OnePickIsEnough`, `SavedFits`, `ClosedGivesBack`, `LearnedRight`) |
| `ProcessIsTidy` | `OnceOnly`, `DismissalKept`, `NothingIsOrphaned`, `TrayShowsState` |
| `DriversAreFaithful` | `NativeCallsAreSafe`, `PanelFollowsDriver`, `KeysFollowFingers` |
| `AccessIsConsistent` | `RevokedStaysRevoked`, `PairingsAreOneTime`, `PushesAreAccounted` |
| `IdentityIsTold` | `AdvertIsCurrent`, `CapsAreCurrent`, `StatusIsTrue` |
| `InputIsFaithful` | `NoKeyStuck`, `HeldStaysDown`, `EachKeepsItsLevel` |

**Bounds.** Every bound is a constant named in its module. Budgets are chosen so that every limit
binds: with four submissions the queue fills both lists, uses the reserve and rejects; five messages
open a unit, fill a batch, or close two shorter ones, and follow it with a command or a reopen; two units and five drivers let the probe and the
scanner each hold, park and close a driver at the same time; four sockets are two clients, a
newcomer and a dial. Two opens and two workers suffice for a late answer of the first to meet the
second. A cache of one entry makes every second key an eviction; a list buffer of 26 is exactly as
long as the listing it must hold; nine kinds of boards cover each mounting, each shape of key order
and both ends of the size, byte and quality ladders. Three lines of log make a file due for rotation
and six overflow the memory. Each component of a combined run is explored to its end. Runs end in
states with nothing left to do, which is why most cfgs switch the deadlock check off; the host's
keeps it on.

**Fairness.** The event loop fires timers and delivers messages (weak fairness of timeouts,
receptions and the program's own settled awaits). Worker steps are fair only where a property says
so: `CallsSettle` holds without any worker progress, while `LocalImagesResume` assumes `WorkersRun`,
because a native HID call may hang. In `DockImages` the app is assumed to reconnect after its session was dropped and to
send what it has to send; in `CommandWork` a command is assumed to end, as its time-out forces it
to; in `SettingsShutdown` the owners may hang for ever, the budgets may not. Users, the USB bus and
the decision to shut down are never fair.

### Findings

* `discovery_two_docks`: a path counts as claimed only once its dock is registered, after the
  open was awaited, so the probe may open a unit the scanner is opening
  (`main/driver-manager.ts:341`, against the comment at `main/dock-scanner.ts:375`).
* `standby_absence`: the exit from standby that a frame defers runs after the app has gone again
  and cancels the timer that would notice the absence (`main/dock-standby.ts:206`, against
  `docs/features.md:245`).
* `plugins_loops`: a superseded plugin load that fails late deletes its successor's entry; nothing
  can stop the successor's loop any more (`plugin/plugin-worker.ts:140`, against the comment at `:125`).
* `elgato_twice`: a dock that connects while an expired round asks whether the app runs starts a
  second round, which restarts the app again (`main/elgato-auto-restart.ts:170`, against the
  comment at `:45`).

### Observations without a run

The passing runs exclude these by constants or by the form of the property, and say so. None
contradicts a sentence of the repository unless one is quoted.

*Worker and panel.* The open timeout terminates a worker at once that may still be inside the
native open, against the comment at `worker/hid-worker-host.ts:436`; `GracefulTerminateIsIdle`
covers closes. `renderTouchImage` ends the wait for a full strip frame before the frame is posted;
if that post throws, or the post of a full frame the queue drains later, patches have no base:
`StripPatchHasBase` is about patches that were lost, which `host` checks with `PostMayFail = TRUE`.
A frame the app sends while no unit is attached is not recorded (a comment at
`main/dock-frames.ts:131` makes that deliberate; `SendsUnplugged = FALSE`). A picture that cannot
be decoded drops the pictures collected after it in its batch (`worker/hid-worker.ts:238`). An STP
whose write fails is only logged (`devices/hid-device-base.ts:109`) and its pictures' credits return
all the same, so `PicturesCommitFirst` promises that the STP was written, not that it arrived; the
heartbeat's reinitialisation is in `UsbDrivers`, not in `HidWorkerBatch`. Under
the `deckbridge-repaint` strip mode a blank widget or a tap's flash is drawn without being recorded
as a widget's zone, so leaving that mode leaves it on the strip until the app's next frame. The
AKP05 driver reports a strip write even when it failed; a key held over an open of a Mirabox unit
reports an `up` without a `down`.

*Docks.* A deck deselected while it is being opened becomes a dock all the same
(`main/driver-manager.ts:477`). A scanned dock's driver has no `disconnect` listener until
`Dock.start` has awaited its bind (`main/dock.ts:227`). Two failed opens of one model park two
workers in one slot if the opens are slow (`main/worker-pool.ts:31`); the repaint after a drain
covers the wizard's pattern (`main/dock.ts:501`). Dock 0 keeps the physical serial of an Elgato
unit that left (`applyModelToServers` never takes the identity's, although
`main/dock-status.ts:108` says it mirrors it). With the brightness override off, the app's level is
saved at once, so the re-push of the saved one repeats the app's. A key held when its unit is
unplugged stays down in the app until it is pressed again. A web-UI click on a key a finger holds
releases it in the app early.

*Standby and pages.* Changing what *off* means while asleep makes the later wake use the wrong
way: `writeBacklight` (`main/dock-standby.ts:410`) wakes the panel but leaves `off` set, so the wake
that follows takes the panel for one that never slept and does not redraw the grid the sleep lost,
against the comment at `main/dock-standby.ts:450` (no model uses hardware sleep yet). `docks` checks
`StandbyIsFaithful` with settings that agree on what *off* means, and `StandbyStaysFaithful` proves
it (§4) while no change of them meets a panel that lost its images; mixed ones violate it in nine
steps. A wake timer that fires after the panel went off again runs the wake hook while it is off;
after a reinitialisation the app's frames stay blank until it redraws. The id of a deleted page is
given to the next new one. Pages flipped every 300 ms can publish a vector of two pages.

*Hosted code.* The reaping of plugin entries drops pending callbacks; a promise that never resolves
wedges its key. An extension switched off while switching on awaits its files ends switched on;
a rescan that read before the switch can stop it. A scan worker that fails on a request
carrying `reset` loses the reset, and an enumeration that never answers blocks later ones
(`worker/hid-scan-worker-host.ts:66`). A failed native enumeration is an empty list, which reads as
every device unplugged.

*Web.* `extraKeyImages` is never cleared when the socket opens; an `/api/state` answer that crosses
a dock switch leaves the other dock's pictures; changes between the first GET and the socket's open
are missed. A key cleared while a deck page is away keeps its picture there; a key an old
session holds swallows the presses of the page that reconnected until that session times out. In
the wizard, an unanswered draft leaves the ladder on a size the panel never showed; a keepalive
that meets a save is told the session has ended; the learn mode saves the whole override it read
before. The token limit is checked before the awaited hash.

*Settings, log, process.* Unreadable settings at start are replaced by defaults at the next
save. `LogFile`'s rotation ignores failed renames and can lose the middle file. The update check
writes back the dismissed version it read before its request; a crash before the save loses the
ping's day mark. `ElgatoRestart`: overlapping rounds leave the countdown published, and a quit
during the process check is not undone.

## 4. Proofs

All proofs hold for every value of the constants that the named assumptions allow. TLC checked
each inductive invariant as an invariant of its run before it was proved. Proof modules contain
theorems about the behaviours of the specifications above, and lemmas about what their operators
return; each lemma that shows a step keeps an invariant is named for the step.

**`HidPortProofs`** (from `BudgetsAssumption`, `CallersAssumption`, `BatchAssumption`).
`QueueInvariance` is `Spec => []QueueInv`. `NoStall` alone is not inductive: that a drain stops
only with something posted needs `postedBytes` to be the weight of `posted` (0 if nothing is
posted) and each waiting message to fit the posted budget by itself. `QueueInv` adds these, and
that ids are below `nextId`, so that a new id is fresh. `PostedBudgetHolds` and `NoStallHolds` are
consequences. `WorkAlwaysReachesWorker` is the rest of the queue's safety. Its invariant
`SystemInv` adds: what a port carries is what is posted (`CreditsMatchWorker`), sent and waiting
messages form one line in order of submission (`LineKept`), the admitted are in line, lost, or
superseded (`AdmittedKept`), and the waiting bytes and pictures are within their limits
(`BooksKept`). `ControlKeepsItsPlace` is an action property from the same invariant: as only
messages that are no control messages are limited to the pending count, a queue too full for a
control message holds the whole reserve in control messages. The hard case is a submission that takes a waiting picture out: the message that was
removed must have a successor, with no control message between them, and everything that counted
the removed one as *its* successor must now count the new one; `Superseded` is transitive for
exactly that reason. `PortStaysConsistent` adds the thread's side: pictures are collected only at
the end of the line, fewer than a batch, exactly while the timer runs (`WindowArmed`), and an open
that awaits belongs to a driver (`OpeningHasDevice`).

**`HidWorkQueueLemmas`.** `Weight`, the total of a map of sizes, is the cardinality of a set of
tokens, so its lemmas (empty, one more, disjoint union, restriction) follow from the library's
finite-set theorems without induction.

**`HidWorkerBatchProofs`** (from `BatchAssumption`). `BatchInvariance` is `BatchSpec => []BatchInv`:
the line is numbered without gaps from the first unanswered message on, what was not collected is a
link of its own and everything before it is in an earlier link (`LineOK`), answers are 1, 2, 3, …,
what was handled and is not answered is in the link whose turn it is (`HandledOK`), and effects
belong to what was handled. Order of effects is not inductive without these: a new effect is the
latest only because the next message of the line is newer than everything handled.
`EffectsInOrderHolds` follows. For `PicturesCommitFirstHolds` the invariant says what holds in the
middle of a batch (`PicturesOK`): every uploaded picture has its STP, or its batch still runs, the
driver remembers that it owes one, the picture is not answered, and only pictures followed it
(`Owed`). An upload makes a picture owed, because a link that starts with a collected picture is
made of them (`BatchedLink`), and the end of the batch settles all that are owed at once, wherever
it comes; no answer and no other effect can come before it.
`ContractRefinement` shows `BatchSpec => ContractSafety`, the initial predicate and step part of
`WorkerContract`: an arrival maps to `Arrive`, the end of a link to `AnswerFirst`, the timer, the
parts of a batch, the start of an open or close and a disconnect to stuttering.

**`HidWorkerHostProofs`** (from `HostAssumption`, `BudgetsAssumption`). A worker is seen as a pipe:
its inbox, the job it is at, and its answers. `PipeOK` says which messages may be where: an open
comes first, nothing follows a close, a pipe ends in at most one `closed`, and the device is held
from a successful open to the close. Detaching a worker moves its messages between variables and
leaves its pipe as it is, so each of the driver's steps is proved once for pipes and once for the
roles of workers. `HostInv` then has one conjunct for each way the pieces depend on one another:
the open under way in the driver's worker is the pending call's (`OpenIsOurs`), a worker told to
close owes its answer (`CloseOwed`), a worker is the driver's, an orphan or about to be terminated
(`LetGo`), a resolved close leaves no device and no open to come (`ClosedForGood`), each posted
id is in the pipe of the driver's worker (`CreditsKept`). The open's time-out when the worker is
already gone is a case of its own. `CreditsStayInFlight`, `WorkersStayInPlace` and
`StripPatchesHaveBase` follow.

**`DockSessionProofs`** (from `SessionAssumption`, `ImagesAssumption`, `InputAssumption`), what
passes between a dock and the app. `SessionsStayConsistent` needs five facts that
no run states: a server's client was accepted by that server (`ClientEnds`); until the pair is
bound there is no child client, dial or recheck (`StartPhase`); a socket is dialling exactly when
it is the reconnector's, and a child client excludes a dial (`DialBack`, which strengthens
`DialBackPending`); sockets that open after the stop belong to no generation (`OpenersAreStale`).
The take-over is the hard case: two sockets change in one step, and the interval of the old client
must be the one that is cleared.

`PanelStaysTrue` is about `DockImages` under the hypothesis `~SendsUnplugged` (§3 says what happens
without it). `PanelIsTrue` speaks of idle moments only, so its invariant `PanelInv` says at every
moment what the panel is about to show: the last picture of a key in the driver's pipe, or, if there
is none, what the key shows (`Shows`), is the recorded frame (`FramesArrive`) or the cached widget
(`WidgetArrives`), and the record is the app's (`FramesAreCurrent`). The invariant also says that a
pipe holds only pictures made for the attached model (`Sound`), which is what an overload, a replug
and the end of a wizard session have to restore. Bursts of pictures are folds over sets of keys;
their lemmas (`BurstSound` and its like) are inductions stated with a set of the prefixes done, by
the well-foundedness of `<`.

*`DockInput`.* `NoKeyStuck` is not inductive: a press that standby swallowed must not count as a
reason for a key to be down, as its release is swallowed too (`DownHasReason`); a click must not
belong to a key pressed in this session unless the two crossed (`ClicksApart`); and what the app
knows is what the server has on record (`AppFollows`). `InputStaysFaithful` follows.

**`LifecycleProofs`** (from `SettingsAssumption`, `AppAssumption`), one part per component.

*`SettingsShutdown`.* `FileStaysCurrent` follows the newest
version of the settings: while the chain has something to do it is pending or in the write under
way, afterwards in the file (`NewestIsMemory`, `NewestIsNotOlder`), each in terms of `Loaded`, as
volatile devices are not read back. A snapshot that shares entries with memory changes with them
until it is serialised, so values only grow and were all made before (`ValuesMadeBefore`); every
pending snapshot has a link of the chain that will serve it (`LinksServe`); success means that the
chain ran dry after the close (`ShutdownAwaits`).

*`ElgatoRestart`.* `AppAlwaysComesBack` needs what holds before the app is down: an app that was
told to quit is waited for, given up or forgiven by a cancellation in every phase that is not going
to launch it (`RestartInv`).

*`AppProcess`.* `ProcessStaysTidy` speaks of the process in memory, so its invariant `AppInv` says what
the next one will find (`Saved`): the day of each beacon is over or marked there (`BeaconsAreMarked`),
and so is that of each ping under way (`PingsAreMarked`), hence no two pings are of one day
(`PingsApart`). For the exit it says since when what was signalled (`QuitStopsAll`, `OwnedStopped`)
and waited for (`WritersDone`) stays so, the sidecar that is spawned after a quit has begun
included; for the tray, which of three slots holds the newest state (`TrayFollows`).

**`SurfacesProofs`** (from `UsbAssumption`, `PushAssumption`, `IdentityAssumption`,
`StripAssumption`, `DeckAssumption`), one part per component.

*`UsbDrivers`.* `DriversStayFaithful` needs, besides `NativeCallsAreSafe`, that what a panel has loaded
and not shown is exactly what a latch is owed for (`PanelOwesLatch`), that the level is the last one
set unless the panel sleeps (`LevelIsLast`), and what the reports under way will do to the keys that
are known: a Mirabox report carries one key's change, so the last report of each key is its state
(`KeyReports`); an Elgato report carries all, so the last one is (`StateReports`).

*`PushAccess`.* Ids and secrets are drawn before the hash is awaited, so `RevokedStaysRevoked` needs
that each drawn one belongs to one record or to one job that will write it (`IdsApart`), and
`PairingsAreOneTime` that a pairing is pending, dead or used by one job or token, and only one of
these (`CodeFollows`, `UsedOnce`). `AccessStaysConsistent` also bounds the pushes granted by the
shared capacity plus what it regained, for any capacity.

*`DockIdentity`.* The status, the advert and the session each follow the servers' config; that these
agree needs what the config itself follows, which differs between dock 0 and scanned docks and
between starting and running servers (`ConfigFollows`), and what the advertiser will announce
next (`AdvertFollows`). `IdentityStaysTold` follows.

*`StripZones`.* `StripShowsOwner` speaks of a quiet strip, so its invariant must say what the messages
still waiting for the worker will do. `Leads(e, q, f)` says that they take a device from `e` to
`f`, and `StripFits` that the device they lead to *agrees* with what the scheduler's object
records (`Agree`): the mask and the options it believes were sent, for every picture in
`lastPainted` that picture on the panel, the app's picture on every zone that is neither in
`widgetOnZone` nor drawn on unrecorded, and a hold-off that runs only where no widget is painted.
A handler that posts messages extends both sides alike (`Result`, and `Leads` composes by
`LeadsOn`); a handler that changes settings first may break `lastPainted` for the moment, which the
repaint that ends it mends (`Ready`, `RepaintLeads`); the worker takes the first message off
(`LeadsTail`). The sequences are those of SetToSeq, whose order the proof never uses (`Burst`,
`ListOf`). `StripStaysOwned` follows for any queue, frames and finite set of zones.

*`BrowserDeck`.* `DeckIsFaithful` speaks of sockets on which nothing is under way and of a settled
dock, so `DeckInv` says what is under way will do, page by page (`PageFits`): the frames still to be
read are those sent and not yet counted, and if the hub knows of fewer than the page has counted,
the acknowledgement that tells it is on its way (`CountsFit`); what waits in a window waits for room
(`WaitsForRoom`), hence a quiet page has nothing waiting; the last picture under way of a key, or the
one waiting behind it, is the screen's (`ScreenArrives`); a key the hub holds for a page, or will hold
by a `down` under way with no `up` after it, is pressed there (`PressesAccounted`). The last reconcile
of a chain works towards the setting as it is (`VdockFits`): a change during a start or a stop always
appends another. `drain` is a fold over a finite set of keys, highest last; what it leaves (`DrainEffect`)
is shown for the keys below every number, by the least one for which it would fail. `DeckStaysFaithful` needs of the constants only
that keys are a finite set of numbers, profiles are not 0, and a window holds at least one frame.

**`DocksProofs`** (from `DiscoveryAssumption`, `PagesAssumption`, `StandbyAssumption`), one part per
component.

*`DockDiscovery`.* The invariant of `DiscoveryStaysConsistent`,
`DiscInv`, says for everybody who holds a driver what that driver is doing: the probe and the
creation wait for an open or a close of their own (`ProbeAtWork`, `CreationAtWork`, `WorkApart`),
docks have open ones and no two the same (`DocksApart`), a task awaits a close that nobody else
awaits (`TasksApart`), the pool has parked ones (`PoolIsParked`). `IndexPoolConserved` and
`NoDockAfterTeardown` then need to know which registered dock has not attached its driver yet
(`Registered`) and that a creation overtaken by a teardown knows it (`StaleIsKnown`): after a good
open such a creation would otherwise register its dock. `DriversStayUnshared` adds, under the
hypothesis `~SlowOpen`, that every driver in use has an owner (`OpeningIsOwned`, `OpenIsOwned`,
`ParkedIsOwned`) and that units opened or served are all different (`OpenedUnitsApart` and its
like). The key is `OneOpenAtATime`: the probe and a creation never both wait for an open, so the
slot of the model that is being opened stays empty until a failure parks the driver in it. The
hypothesis is the one that run `discovery_live` makes; without it the property is false (§3). The
least path, model or index is picked by `Min`, whose defining CHOOSE needs the well-foundedness of
`<` (`MinIsIn`).

*`Pages`.* The handlers chain assignments to one record, the world, so each has a lemma that says
which fields it leaves with which values (`WorldOf`, `EvaluateIsRight`, `FrameIsRight`,
`ResetIsRight`). `PagesInv` says that, unless a timer is still to run, the page shown is the winner of
the frames (`Verdict`), that the controller's copy of the frames is what the deck shows
(`CopyIsCurrent`) and that the widgets are painted in its layout (`IsPainted`). `WinnerIsFirst` is what
the choice by ties means: the key is a strict total order on the finite set of passing pages, so its
least member exists; `NextIsFresh` says that a new page's id is no other's. `LayoutStaysRight` follows
for any finite set of keys and any number of pages and edits.

*`Standby`.* `apply()` chains five assignments to controller and panel. Each has a lemma that
says, field by field, what it leaves (`Exited`, `Wrote`, `Fell`, `Entered`, `Scheduled`, and `Ran` for the
hook that is owed). `Ready` is what the chain relies on, `Settled` what it leaves whatever was
recomputed and why (`RecomputeSettles`): a level that differs from `lastApplied` is written, a
grid that a sleep lost is drawn again by a wake timer that is armed, a clock is painted or will be.
Handlers that only change what the controller reads are then alike (`Alike`, `AlikeRecomputed`); the attach, the
reinitialisation, the wizard's hold and the wake timer restore `Ready` or `Settled` themselves. For the
presses, the app holds exactly the keys that the user holds and that were not swallowed
(`PressesFit`). `StandbyStaysFaithful` has one hypothesis, `[][OffKept]_standbyVars`: no setting turns
hardware sleep on or off while a plugged panel has lost its images to one. It is weaker than what
run `docks` assumes (settings that all agree on it); without it the property is false (§3).

**Only model-checked.** Liveness under fairness and the fairness part of the refinement: TLAPS has no
ENABLED. What recursive definitions compute: `CoraFrames` and `CommandWork` contain RECURSIVE
operators (so does every module that extends them, `MCServices` and `MCLifecycle`), and induction
over data by the library's theorems is out of reach; the wizard's algebra, the frame reader and the list parser are
evaluated on the runs' inputs. The safety invariants of the other modules are not proved yet.

## 5. Plan

Done: the model of every component above, its runs, and the proofs of §4. Next, in this order:

1. `LogFile`.
2. `CoraFrames` and `CommandWork` without RECURSIVE operators, so that `RequestsAreServed` can be
   proved.
3. The bounded FIFO that `DockImages` takes for granted, as an abstract specification implemented
   by `HidWorkerHost`.

## 6. Not modelled, and why

The mapped code is about a fifth of the repository's lines. The rest is: the native library's JPEG
and resampling code and the pixel side of `transform` (arithmetic on buffers, compared with golden
pictures by its own tests); the Preact pages of the web UI and their styles, which render a store
that `WebMirror`, `VerifyWizard` and `BrowserDeck` model; the tables of models and the byte layouts
of `devices`; parsing and formatting (`cli`, `assets`, `shared`, `cora/responses.ts`); build
scripts, documentation site, capture tools and end-to-end tests. None keeps state that two steps
could disagree about; a model could only repeat them. Logging, metrics and debug dumps are left
out everywhere, except the log file itself.
