# Verification of electron-overlay

Specifications of [electron-overlay](../src/README.md) in TLA+, model-checked
with TLC and proved with TLAPS.  electron-overlay puts an Electron window on
top of other applications.  Most of what can go wrong in it is on the Wayland
layer-shell path, where four parties work at their own pace: the JavaScript
thread, a native dispatch thread, the Wayland compositor and Chromium's
renderer.  That path is modelled from the start of the controller to its close.
The window policy controllers of X11, Win32, macOS and Wayland sessions, which share their
window with Electron and a window manager, the demo, which drives processes of its own through files,
and the release pipeline, whose jobs fail and run again, are modelled too.

Source paths are relative to the repository; `layer_shell.cc` is
`packages/native-addon/native/src/layer_shell.cc` and `index.ts` is
`packages/electron-overlay/src/index.ts`.

## The system

| component | state it keeps | operations | hard behaviour |
|---|---|---|---|
| native layer-shell controller (`layer_shell.cc` 130-1368) | one-frame mailbox, shm buffers by generation, one import, DMA-BUFs with the compositor, completion queue, counters, flags | `submitFrame`, `submitDmabuf`, `takeReleasedDmabufs`, `getState`, `close`; the dispatch loop; Wayland events | two threads and a compositor, out-of-order releases, resizes and failures during imports, joining a sleeping thread |
| its initialization (`layer_shell.cc` 157-330, `index.ts` 1028-1059) | deadline, globals, outputs, the worker | `initialize` | partial failure, one deadline for several waits |
| `LayerShellOverlayController` (`index.ts` 606-1026) | attached source, generations, texture leases, timers, intervals, captures in flight | `attachOffscreenWindow`, `getState`, `close`; paint, capture, size, destroyed callbacks | late and re-entrant callbacks, wrap-around of ids, every exit of a paint must treat its texture right |
| window policy controllers (`addon.cc`, `addon_win.cc`, `addon_mac.mm`) | configuration, parent window | `attachParent`, `detachParent`, `setBounds`, `useParentBounds`, `setClickThrough`, `setAlwaysOnTop`, `reapply`, `getState`, `close` | a window manager that acts later, parents that move or die, a call that fails half way |
| Electron controllers and backend selection (`index.ts` 258-604, 1063-1273) | `OverlayState` | the same operations, `configure`, `findWindow` | two layers that must agree |
| demo (`packages/demo`) | child processes, command and state files | scenarios, `spawnTarget`, `commandTarget`, `stopTarget` | request and answer through files, timeouts, exits |
| release pipeline (`tools/`, `.github/workflows`) | artifacts, registry | publish, verify, wait for CI | partial publishes, retries, concurrency |
| generated protocol code, build scripts, smoke tests | - | - | not modelled: generated or sequences of external commands |

JavaScript calls the native controller synchronously.  The dispatch thread
shares with it a mailbox of one frame (`frameMutex_`), a queue of completed
DMA-BUF ids (its own mutex), some atomics and an eventfd.  The compositor
answers on the Wayland connection, which only the dispatch thread reads.
Electron's callbacks and timers run on the JavaScript thread, one at a time,
except that `webContents.invalidate()` may deliver a paint from inside another
callback.

What makes the components correct:

- native: a DMA-BUF id is completed once and not while somebody may read the
  buffer; buffers the compositor reads are neither written nor freed; nothing is
  committed at a size other than the acknowledged one; frames are shown in
  order; every frame is counted once; `close()` returns and leaves nothing; no
  frame is stuck;
- JavaScript: every texture Electron hands over is released once, and never
  while the native side may use it; late callbacks are inert; a window that is
  attached is served; the surface does not stay blank; `close()` leaves no timer,
  listener or texture.

## Modules

| module | what it is |
|---|---|
| `LayerShellController` | the native controller: JavaScript thread, dispatch thread, compositor |
| `NativeLayerShellController` | the abstract contract of the interface of the same name (`index.ts` 247-254): what JavaScript may count on |
| `LayerShellImplementation` | the refinement mapping from the first to the second, `KeepsContract` |
| `LayerShellOverlay` | `LayerShellOverlayController` and Electron, over an instance of the contract |
| `LayerShellInitialization` | the controller before the dispatch loop runs: the worker of `initialize()`, its deadline, the calls JavaScript makes meanwhile |
| `X11Overlay` | `X11Overlay` of `addon.cc`, the X server, Electron and the window manager |
| `Win32Overlay` | `Win32Overlay` of `addon_win.cc` and `Win32ElectronController` of `index.ts` above it |
| `MacOverlay` | `MacOverlay` of `addon_mac.mm` and the windows of other processes |
| `WaylandElectron` | `WaylandElectronController` of `index.ts` and its `BrowserWindow` |
| `OverlayController` | the choice of a backend, `configure` and `OverlayController` of `index.ts`, over instances of the four |
| `DemoTarget` | `target.mjs` of the demo: a window in a process that is controlled through files |
| `Demo` | `main.mjs`: the scenarios, with the targets of `DemoTarget`, of which it is an extension |
| `ReleasePipeline` | the release workflow, its scripts, the registry and the GitHub release |
| `LayerShellProofs`, `LayerShellBufferProofs` | theorems about `LayerShellController`, the second on top of the first |
| `LayerShellImplementationProofs` | theorems about its frames and `close()`, and that it implements `NativeLayerShellController` |
| `LayerShellOverlayProofs`, `LayerShellInitializationProofs`, `OverlayControllerProofs`, `ReleasePipelineProofs`, `DemoProofs` | theorems about the modules of these names |
| `MC...` | instances for TLC |

The two halves compose through the contract: `LayerShellController` is shown to
implement it, and `LayerShellOverlay` uses nothing else of the native side.
`LayerShellInitialization` is what happens before: it ends where
`LayerShellController` begins, with `dispatchThread` running and the promise
resolved.

### LayerShellController

`js` says which call the JavaScript thread is in, `dispatch` where `DispatchLoop`
is, `call` which function the loop or a listener is inside; the other variables
are the fields of the C++ class.  A step is one critical section with the
thread-local work that follows it, so the threads interleave wherever the code
releases a lock.  Wayland events are actions the compositor may take when its
protocol allows them: releases in any order, imports that succeed or fail,
configures, "closed", frame callbacks, loss of the connection.

- Frames carry no pixels: a frame is its id (the order of submission), backend,
  size and generation.  `DmabufLease` is the presence of a DMA-BUF frame in one of
  the places that can own it; its destructor is `Complete`, part of the step that
  drops the frame.
- Validation of arguments that throws before any state changes is left out.
  Formats and modifiers are assumed to match when an import is started.
- A failure of `poll`, of the wake descriptor and of the connection are one action,
  `DisplayFailure`: the code treats them alike.
- `width_`/`height_` and `configuredWidth_`/`configuredHeight_` are one variable;
  `configured_` is true once `initialize()` has resolved.
- The compositor sends no configure after "closed".

### NativeLayerShellController and LayerShellImplementation

Seven variables: the size, whether frames are accepted, whether DMA-BUFs are, the
health and the life of the controller, the ids it may still use (`holding`) and the
ids to be taken (`queue`).  The mapping collects `holding` from the five places of
the code that can own a lease.  That an id goes from free to `holding` to `queue`
once, that nothing is held when `close()` returns, and that a frame is only accepted
at the current size are what `Contract!Spec` says.

### LayerShellOverlay

JavaScript runs to completion, yet the native threads move between any two native
calls of a callback, so a step is the code from one native call to the next and
`task` is the callback that runs: where it is, for which source, the texture and
image it has in hand, and the callback it interrupted when `invalidate()` emits a
paint.  Per attachment the record `sources[a]` holds the closure variables of
`attachOffscreenWindow`: a listener of a replaced window keeps its own.

- `renderError` and the errors thrown to the caller are left out; what is kept is
  whether and where the code leaves on an error.
- Captures and timers: delivered any time later, in any order, or, without
  fairness, never.  A paint may have a texture, an image, both or none; metadata may be
  not importable, of another size, or good; an image missing, empty, shorter than
  its size says, of another size, or good.
- `getState()` of the native controller does not throw after `initialize()`, so the
  branches for that are left out.  `texture.release()` that throws releases.
- `submitFrame` is the moment the native side accepts the frame.
- `getState()` reads `width_` and `height_` one after the other while the dispatch thread
  stores them one after the other (`layer_shell.cc:438`), so what is read may be "torn", the width
  of one configuration and the height of another, until the native side accepts frames of the new
  size (`SizesRead`).  Every size JavaScript takes from there is read so: the window may be
  given a size no surface ever had.
- `fed` is history: which backend the frame came from that the surface has or will
  get, "none" when the surface was blanked (every configure of another size
  attaches a zeroed buffer) or the frame may be lost (an import failed).

### LayerShellInitialization

`worker` is where `InitializeWorker::Execute` is (connecting, one of the three round
trips, creating the surface, starting the thread), `js` what the JavaScript thread is in,
`closer` who won the exchange of `closed_` in `Close()`, and `objects` what there is to
destroy.  A round trip is as in the code: dispatch what is queued, flush, poll for the
remaining time, read.  The compositor owes answers and sends them, with events of its
own between, through a bounded `socket`; it may be silent, stop half way or never stop
sending.  `DeadlinePasses` is the one deadline of the attempt, which goes by at any time.
Every step of the worker that can throw may fail.  The dispatch thread ends when it is told to stop or the
connection fails, and destroys all but the `wakeFd` itself; `Close()` joins it and closes that.

- Versions of globals are one flag, `complete`; which output is bound is its name.
- The object may be garbage collected whenever JavaScript holds no reference, which is
  `Collect`: `held` is the `Ref()` that keeps it.

### X11Overlay

A call is split at its round trips to the X server (`call.at`), since between two of them
Electron may map or unmap the window, the window manager work off its `inbox`, and the
parent move or vanish; the server executes the requests of one connection in order.  The
window manager follows the window manager specification: it takes `_NET_WM_STATE` over
when it maps the window, obeys messages about mapped windows, and clears the state when the window is
withdrawn.  `dirty` is history: the map state changed while or since the policy was applied, or the
policy was applied to an unmapped window while messages of earlier calls were still under way to
the window manager.  Such a message overtakes the property that `reapply()` writes: shown, hidden and
shown again while the manager lags behind, the window would get the older state at its next mapping.
The code does not wait for the manager, and nothing documents that it does, so `PolicyHolds` does not promise it.

- The state is two atoms, one always wanted and one configurable: `_SKIP_PAGER` is treated as
  `_SKIP_TASKBAR`, and `_STICKY` as `_ABOVE`.  Window type and stacking order are left out.
- `findWindow()` picks an id; how it matches titles and processes is left out.
- `Move` is a request the window manager follows later.  No code waits for it, though
  `packages/demo/main.mjs:121` expects `getState()` to return the configured bounds right
  after `configure()` and `reapply()`: it may still read the old ones.
- A parent may vanish, which `XGetWindowAttributes` under the code's error trap finds; the
  overlay window itself lives as long as the calls, and errors of other requests are left out.

### Win32Overlay

A method begins by changing the controller's fields and leaves what it has still to do in
`call.todo`: one step for each Win32 call that can fail, and, if `configure()` was given a
`BrowserWindow` (`electron`), for each call of Electron that `Win32ElectronController` makes
after it.  `Throws` ends the method at any of them, which leaves the window with half of a
policy, and between any two of them the parent, a window of another process, moves or closes.
`window` is what the system holds of the overlay: owner, extended styles, z-order, place.
`dirty` is history: a method threw, or the parent closed, since the policy was last applied
as a whole; `asked` is the place that the last method to position the window was given.

- A rectangle is one of its coordinates, since each is converted by itself.  Electron's
  conversions round down to whole units.  How they round does not matter: above 100% there
  are fewer units than pixels, whichever way.
- `setIgnoreMouseEvents` is modelled by its effect on the styles; it keeps the layering of
  a translucent window.
- Bounds are always given to `configure()`, also with `position: "parent"`, where they are optional; so they are for
  `X11Overlay`.  `MacOverlay` has both.
- The overlay window itself closes only between two methods; `EnsureOpen` finds it.  A closed
  controller is followed by another one for the same window, but two are not used at once.

### MacOverlay

AppKit answers at once and only the main thread calls it, so a method is one step; between two
methods other processes move and close their windows, Electron hides or shows its own, and
displays come and go.  A rectangle is its upper edge, and all are of one height: that edge is
what has to be converted, since Cocoa counts from the bottom of the first screen to the lower
edge of the window.

- A parent that has closed stays the parent, as in the code, until it is detached or replaced.
- `orderFrontRegardless` shows a hidden window: `reapply()` with a parent or `alwaysOnTop` undoes
  a `hide()` of the application.  No documentation says otherwise, so it is part of the model and of no property.
- Workspaces are left out.

### WaylandElectron

A method is one turn of JavaScript in which each call of Electron may throw: `done` of
`Reapplied` is how many of the five calls of `reapply()` were made.  The compositor places the
window where it likes, and the window may be destroyed between two turns.  The constructor
rejects a parent's position; that branch changes nothing and is left out, as are `attachParent`,
`detachParent` and `useParentBounds`, which do nothing.

### OverlayController

`backend` is what `getBackendSelection` chose when the window was configured, of the command
line, the hints and the session of `Environments`, for a `BrowserWindow` or its handle; every method goes to that backend.
The module has the variables of all four controllers; those that several have, they share, and those
the chosen one lacks stand still.  `PolicyHolds` and `PositionHolds` are what the methods promise whichever it is.

- An application names no backend of another platform.  The code refuses only `x11` then
  (line 1186); another one would load the addon of the platform it runs on.
- Loading an addon (lines 419-504) and validating options are left out.

### DemoTarget and Demo

A scenario is a sequence of steps, `todo`, one for each thing that the function of the scenario does with
its targets, its overlay or `findWindow()`.  A step that ends where it begins is one action.  One that
is awaited begins (`waiting`), and ends when what it waits for has come or its deadline has passed; only
there can anything else of the same process happen.  A target is the process (starting, idle in its command loop, settling
its renderer, stopping, closing, ended, or "deaf": alive and never answering), its three files, and its window, with what was
asked of the window manager (`wanted`) and what it has done (`seen`).

- All awaits on renderers of the demo itself are one step, `Render`: they have no deadline, and
  fail only when the application is quitting.
- The user, `SIGTERM` and `exitAfterReady` are one action, `Quits`, at any await: `cleanup()`
  runs and the program goes on until its windows are closed.  An error is `Throws`: `main().catch()` cleans
  up and exits in one step.
- `announceReady()` waits for two file operations, so it is an await of its own (`AnnouncesReady`), without a deadline.
- `stopTarget()` does nothing with a target that has ended or that `cleanup()` has been through: both set `stopped`.
- A process that cannot be started emits `error`, which the demo only prints: it is a target that exits
  at once.
- A target ends with a status ("exited") or by a signal ("crashed"), which leaves `exitCode` null.
- A window is moved and resized in two steps and in either order, as the window manager does it.
- `findWindow()` of a scenario asks no particular backend, so it is that of X11 everywhere; in the
  Wayland session the targets are windows of Xwayland.
- A command file and its replacement are one step, since the code renames.  Reading one half written
  is a read before it.
- The `layer-shell` scenario, whose parts are `LayerShellController` and `LayerShellOverlay`, and the fields of reports
  are left out.

What a pass of a scenario does not show, and no property says: the bounds that `parent-geometry` waits for are any that differ
from those before (`main.mjs:482`), and a window that was moved but not yet resized has such bounds; and overlay bounds are
compared right after they were asked for (`main.mjs:121`, `486`), before a window manager has had
to act.

### ReleasePipeline

`job` is the status of every job of the workflow, `Needs` their dependencies, and the
scripts' loops over packages are steps of a job (`step`: ask the registry, publish, verify) in which
it may fail.  A tarball is known by commit and number of its build, as the scripts know it by
its digest.  `Rerun` is "re-run failed jobs", with the jobs that depend on them, `NewRun` a new run of the
workflow, and the world moves tags, runs the CI, publishes a package of the same
version from elsewhere, and shows what was published late.

- The packages of a loop are processed in any order; the builds are one job each, and the
  test matrix is one job, as it succeeds when all of it does.
- What the scripts check inside an archive is left out.

## Runs

All bounds are constants of the modules and given in the `.cfg` files.

| run | bounds | what it shows |
|---|---|---|
| `native_safety` | 4 frames and generations together: 3 frames; or 2 and a resize; or 1 and two resizes; 2 sizes | `LeaseExactlyOnce`, `ReturnedIsNotHeld`, `HeldBuffersLive`, `OneFrameCallback`, `FrameAccounting`, `CloseReleasesAll`, `NewestWins`, `NoTornFrame`, `CommitMatchesAck`, and that the contract is implemented (`KeepsContract`): three frames are one being imported, one in the mailbox and one that replaces it; two resizes, each of which may fail, let a third generation overtake a frame of the first |
| `native_close` | 2 frames, or a frame and a resize (`MaxWork` 3) | no frame is stuck in the mailbox and `close()` returns from anywhere, also with a frame in each of mailbox and import, and while buffers are created |
| `overlay_leases` | 2 textures, 2 ids that wrap, 2 sizes, 1 resize, 1 window | textures are owned once, never released while held, looked after while there are any, and gone after `close()` |
| `overlay_rebind` | 2 windows, 2 textures, 1 id, 2 paint generations | late callbacks are inert, captures never overtake a paint, attached windows are served |
| `overlay_resize` | 2 sizes, 1 resize, bitmaps only | the surface is filled again after a resize, also when sizes were read torn |
| `overlay_fallback` | 2 textures, 2 ids, 1 size | completed textures are given back by the interval alone, and the surface is filled when imports fail |
| `overlay_blank` | 2 sizes, 2 resizes | a disagreement with the documentation, see Findings |
| `initialization` | 1 output, 3 events ahead | the promise settles by the deadline, nothing is used when it is not there, a rejected attempt leaves nothing; three events let answers of two round trips and an event nobody waits for be under way together |
| `policy` | X11: any number of changes of visibility, the window manager 3 notifications behind (2 hide that a message overtakes a property); the others: any number of calls, on Win32 on a display of 150%, on macOS with two heights of the first screen; 1 parent, 2 places; every environment, target and preference | `PolicyHolds`: the configured policy holds after every call, on X11 once the window manager has heard of it, on Win32 when an `Apply` came to its end, in a Wayland session whichever call threw; `PositionHolds`: Win32 and macOS convert bounds to the place that was asked for, on Win32 up to the units of Electron; shown, hidden and shown again, the X11 window goes through every state the manager can find it in |
| `win32_attach` | 1 parent | a bug, see Findings |
| `release` | 2 prebuilt packages, 2 commits, 6 builds, 1 re-run | only tested tarballs are published, the public package installs, and the GitHub release has the registry's tarballs; `ReleaseIsTagged`: a commit the tag is not on does not come into it, even if the tag moves between two jobs of a run or an old job is repeated; 6 builds are each package built twice |
| `demo` | the 11 scenarios, 2 targets, 2 backends | `AnswerMeansDone`: the demo goes on only when its targets have carried out all they were sent, once and in order; `PassMeansAttached`: a pass means the right parent; `DemoSettles`: it reports or exits whatever its targets do; `TargetsEnd`: no process is left behind but one started after `cleanup()`.  Two targets are what the scripts use at most, and a script has no loop, so nothing is cut off |

Every property of a passing run is also run against a plausible defect in a
definition of the module, listed under `mutants` in `PROJECT.json`; the defects are
definitions marked `defect` next to the code they replace.

Deadlock is checked where a module may go on for ever: where its system may stop, after
`close()` or at the end of a release, the module says so with an action of its own, such as
`Terminated`.  The demo is checked without: it ends when it has reported or exited.

### Fairness

Native runs: the threads are scheduled (weak fairness on the steps of the dispatch
thread and of a call under way), the compositor answers what it owes, releases the
buffers of frames it replaced and calls back.  Without it nothing
can be promised: the code waits for the compositor without a timeout.

Overlay runs: a callback under way ends and the native `close()` returns (shown by
`native_close`); intervals and timers fire again and again, with strong fairness since
other callbacks run in between; Electron delivers the paint that `invalidate()` asked
for and captures succeed in the end.  Electron documents `invalidate()` as
"schedules a full repaint", and the code has no other way to get a frame of a
page that does not change.  `overlay_fallback` assumes only the first of this in its
specification, so that `CompletedReleased` owes nothing to Electron, and the rest inside
`SurfaceServed`.

Initialization: the worker, the dispatch thread and a call under way are scheduled, time
passes, and the event loop comes to the result of the worker although other JavaScript runs in between
(strong fairness).  Nothing is asked of the compositor.

Demo: JavaScript goes on when what it waits for has come or its deadline is over, which
`waitUntil()` brings about by itself (weak fairness of `Runs`), Electron ends when it quits, and a process that was
sent `SIGTERM` ends.  Nothing is asked of a target or of the window manager, so that a scenario settles without them.

`MaxWork` bounds the calls of JavaScript and the configures of the compositor, which no
fairness condition asks for, so that no property passes because of it.

## Proofs

| theorem | module | statement |
|---|---|---|
| `TypeCorrect` | `LayerShellProofs` | `Spec => []TypeOK` |
| `LeaseOnce` | `LayerShellProofs` | `Spec => []LeaseExactlyOnce` |
| `ReturnedNotHeld` | `LayerShellProofs` | `Spec => []ReturnedIsNotHeld` |
| `InitializationTyped` | `LayerShellInitializationProofs` | `Spec => []TypeOK` |
| `InUseExist` | `LayerShellInitializationProofs` | `Spec => []ObjectsInUseExist` |
| `RejectedClean` | `LayerShellInitializationProofs` | `Spec => []RejectedIsClean` |
| `HeldBuffers` | `LayerShellBufferProofs` | `Spec => []HeldBuffersLive` |
| `OneCallback` | `LayerShellBufferProofs` | `Spec => []OneFrameCallback` |
| `NoTorn` | `LayerShellBufferProofs` | `Spec => NoTornFrame`, an action property |
| `CommitsAcknowledged` | `LayerShellBufferProofs` | `Spec => CommitMatchesAck`, an action property |
| `NoWakeupLost` | `LayerShellBufferProofs` | `Spec => []NoLostWakeup`, the safety part of `PendingFrameMoves` and `CloseReturns` |
| `FramesCounted` | `LayerShellImplementationProofs` | `Spec => []FrameAccounting` |
| `NewestFrameWins` | `LayerShellImplementationProofs` | `Spec => NewestWins`, an action property |
| `CloseClean` | `LayerShellImplementationProofs` | `Spec => []CloseReleasesAll` |
| `Implements` | `LayerShellImplementationProofs` | `Spec => KeepsContract`, the refinement |
| `Typed` | `LayerShellOverlayProofs` | `Spec => []TypeOK` |
| `OwnedOnce` | `LayerShellOverlayProofs` | `Spec => []TextureOwnedOnce` |
| `TexturesRetained` | `LayerShellOverlayProofs` | `Spec => []HeldTexturesRetained` |
| `WindowServed` | `LayerShellOverlayProofs` | `Spec => []SourceServed` |
| `CloseLeavesNothing` | `LayerShellOverlayProofs` | `Spec => []ClosedIsClean` |
| `LateCallbacks` | `LayerShellOverlayProofs` | `Spec => LateCallbacksInert`, an action property |
| `InOrder` | `LayerShellOverlayProofs` | `Spec => FramesInOrder`, an action property |
| `Typed` | `OverlayControllerProofs` | `Spec => []TypeOK` |
| `PolicyObeyed` | `OverlayControllerProofs` | `Spec => []PolicyHolds` |
| `PositionObeyed` | `OverlayControllerProofs` | `Spec => []PositionHolds` |
| `ReleaseTyped` | `ReleasePipelineProofs` | `Spec => []TypeOK` |
| `PublishedTested` | `ReleasePipelineProofs` | `Spec => []PublishedIsTested` |
| `PublicInstallable` | `ReleasePipelineProofs` | `Spec => []PublicIsInstallable` |
| `ReleaseMatches` | `ReleasePipelineProofs` | `Spec => []ReleaseMatchesRegistry` |
| `ReleaseTagged` | `ReleasePipelineProofs` | `Spec => ReleaseIsTagged`, an action property |
| `ReleaseStaysTagged` | `ReleasePipelineProofs` | `Spec => [](~Releasing(c) /\ [](tag # c) => []~Released(c))`, proved only |
| `DemoTyped` | `DemoProofs` | `Spec => []TypeOK` |
| `DemoAnswerMeansDone` | `DemoProofs` | `Spec => []AnswerMeansDone` |
| `DemoPassMeansAttached` | `DemoProofs` | `Spec => []PassMeansAttached` |
| `DemoNoOrphan` | `DemoProofs` | `Spec => []NoOrphan`, the safety part of `TargetsEnd` |

### The native controller

The theorems about `LayerShellController` hold for every number of frames, generations and sizes; the
assumptions are those of the module (bounds are numbers, there is a size, the null frame is
not a frame).  Each invariant rests on the one before.

- `LeaseInv`.  `LeaseExactlyOnce` is not inductive.  That an id is completed once needs
  that the places that can own its lease are disjoint, which needs that ids are fresh when
  they are given (`FreshIds`), that an import exists exactly while its frame may be answered
  (`Imports`), that what the compositor reads is owned by a live buffer (`HeldDmabufLive`),
  and that nothing is owned any more when the thread has torn down (`Teardown`).
- `BufferInv`.  A new generation frees no buffer of an older one that is still read, because generations are
  used up before anything carries their number (`Generational`).  There is one frame callback
  because each of the three that commit has its own reason to find none: `PumpFrame` tests it,
  `CreateBuffers` runs after a configure has destroyed it, and while an import that is still wanted is
  under way nothing else commits (`Paced`).  And the mailbox is open only while the configured size
  is the acknowledged one (`Acknowledged`), which makes `CommitMatchesAck` hold of late imports too.
- `WakeInv`.  `NoLostWakeup` says when the dispatch thread may sleep: with its eventfd drained it has not been told to stop,
  and a frame in the mailbox is owed a frame callback, the answer to an import, or the release of a buffer that is no
  longer the surface's - the events that `Fairness` asks of the compositor, so that liveness asks for nothing that
  may never come.  It is inductive with: `close()` rings before the loop can reach its poll again (`StopRings`);
  the `PumpFrame` before the poll leaves nothing it could have presented, and what is stored later rings (`Pumped`);
  both configured buffers exist while the loop runs, and one that is not released is being read (`BuffersOwed`),
  so that of two busy buffers one is not the surface's.
- `FrameInv`.  Each frame is presented, dropped or on its way, once (`CountedOnce`); the frame in the mailbox
  is newer than those that left it, and those are newer than what was presented (`Ordered`); and what
  the thread leaves at its end stays gone (`TornDown`).
- `Implements` maps every step of the three parties to one step of the contract or a stutter, one lemma per group
  of actions.  The contract's conditions are what the invariants are used for: that an id is
  completed which is held, that `close()` returns with nothing held, that
  a frame is accepted at the current size.

### The overlay

`LayerShellOverlay`, for any numbers of windows, textures, ids and generations.  The properties speak of moments
between callbacks, or of textures the native side holds; the invariant `OverlayInv` says
what a callback may rely on wherever it is when native threads move between two of its
calls: which source it works for and that it is the attached one unless the overlay was closed meanwhile
(`Attachment`); that its frame is not older than the last of its window (`Numbered`); that the
capture its window wants is under way, has a timer, or is what it is about to start (`Served`); that a texture it has in hand
is no lease's (`Owned`); that the id it allocated was drained before, so that no completion of an earlier
texture is taken for its own (`Retained`, why wrapping ids are safe); and who is inside `close()`
(`Closing`).  `Stage` ties the other fields of the callback to where it is.

### The window policy controllers

`OverlayControllerProofs` has one invariant per backend and combines them.  Assumed are only numbers for places and
for the scale, a scale above 0, and null values that are no place or window.

- X11 (`X11Inv`).  What is sent to the window manager is worked off later, so the invariant speaks of the end of
  its inbox: of every atom the call in progress has dealt with, the last message on the way, or
  what the manager has if there is none, is what is wanted (`EndsAs`); of an unmanaged window the property is, and no message
  is on the way (`AtomsHold`, `Path`).  The last clause was found by this proof: with an inbox bound of 2 the run `policy` could not tell
  that it is needed, and `dirty` lacked it; see `X11Overlay`.
- Win32 (`Win32Inv`).  What the window lacks of the policy is among the steps the method has left (`PolicyDue`), and a method that
  threw says so in `dirty`.  The order of the steps matters (`Ordered`): a parent that has closed is forgotten before
  its window stops being the owner, and Electron's layer moves the window last.  `ElectronUnits` proves the bound of
  `PositionHolds` from the two divisions, for every scale and coordinate.
- macOS and Wayland: `PolicyHolds` and `PositionHolds` with the types are inductive, since each method is one step.  In a
  Wayland session that needs a look at each number of calls made before one threw (`WaylandReapplied`).

### Initialization and release

Initialization, for any outputs and any number of events under way:
`InitializationInv` says that the promise is pending exactly while the worker is under way and
JavaScript kept out (`Guarded`), who may be inside `Close()` (`Closers`), what the worker has
created when it gets to a step (`Created`) and what is left when it has failed
(`Clean`).  A rejected attempt is clean because a failing worker closes the controller before it
reports, and no other call can have begun a `Close()` of its own by then.

Release, for any packages, commits and numbers of builds and re-runs:  `ReleaseInv`
ties the status of jobs to what they established.  A job has only begun while all it
needs has succeeded (`Chain`), which is what a re-run must not break; builds, tests and the CI gate
hold for the tarballs at hand while their jobs are "succeeded" (`Built`, `TestsPassed`,
`GatePassed`); and in a loop every package but those left has been
verified, so that the registry shows our digest (`LoopsWithin`, `AllVerified`).  Published tarballs never
change, which carries each conclusion over later runs.

`ReleaseIsTagged` is one step of `ReleaseInv` (`StepKeptOut`): only the beginning of "github-release" could bring
the commit in, and that is where the script compares the tag; an upload takes a tarball of the run's own commit, which is
what `ReleaseInv` knows of the loop.  `ReleaseStaysTagged` repeats that step: without the tag a commit stays out.

### The demo

`DemoProofs` holds for any set of targets that has the two the scripts name, and any choice of the eleven scenarios.  The
demo consumes its script from the head, so an invariant can say nothing of where in a script it is: it says what
holds of every script and is passed on from a sequence to its tail, in whatever state of the world the step was taken.  The lemmas
`...Script`, `...Formed` and `...Succeeds` establish that of each script, `SecuredTail`, `TitleTail` and `ReplacesTail` pass it on.

- `Typed`: a command names a place or window it can be applied to, "close" is followed by the wait for the exit
  that `stopTarget()` skips with it, no target is started twice, and a report ends its script (`WellFormed`).
- `Exchange`: a target has applied all it was sent, or all but the command the demo waits for.  The number in the
  answer file is never beyond the last one applied, which is why an old or a repeated answer ends no wait.
- `Succession`: the rest of a script is `Secured`: there is a parent and nothing detaches it any more, or an
  assertion of one and a check of the assertions are still to come, or one failed and will be checked.  And in the rest
  of a script the second target is started only after the window of the first was found, then seen to be missing, and
  nothing is attached to it (`Replaces`); what was done of that already is what the state must show (`Seen`, `Gone`).  A window that
  was there and is missing is one whose process has ended.
- `NoOrphan` (every target that lives is registered for `cleanup()` or was sent SIGTERM; proved only, no run states it by
  itself) is inductive with the types: `spawnTarget()` registers a target in the same turn that starts it, and `cleanup()`
  forgets only those it kills.

### Model-checked only

- Liveness under fairness is out of the prover's reach: `PendingFrameMoves`, `CloseReturns`, `CompletedReleased`,
  `SurfaceRefilled`, `SurfaceServed`, `InitializeSettles`, `DemoSettles`, `TargetsEnd`.
- `PendingFrameMoves`, `CloseReturns` and `TargetsEnd` have their safety part proved.  For the first two it is `NoLostWakeup`, for any
  number of frames and generations (proved only, no run states it by itself): a bound of `native_close` hides no state in which the thread sleeps and nothing would
  wake it.  For `TargetsEnd` it is `NoOrphan`: every target a demo leaves behind is one it can still end, or has been told to.

## Findings

`overlay_blank` (`SurfaceRefilled`).  `README.md` of the package says that
`attachOffscreenWindow()` "sizes the renderer to the compositor configuration, requests
an initial frame, follows later size changes".  `resizeSource` (`index.ts` 719-738)
requests a frame only when the window's size differs from the surface's at the moment of
a tick.  When the compositor configures another size and the first one again between two
ticks, `LayerConfigure` has attached zeroed buffers both times, but the sizes agree:
nothing is requested, and a page that does not repaint by itself stays invisible.

`win32_attach` (`AttachReturnsParent`).  The documentation says `attachParent(query, ...):
ParentInfo | null`.  `Apply(false)` forgets a parent that has closed since it was found
(`addon_win.cc:325`), and `AttachParent` then returns `*parent_` (line 349), the value of an empty
optional.

Not a finding, but worth knowing: `applyElectronBounds` (`index.ts` 1147-1154) repeats the native move in
units of Electron, of which a display of more than 100% has fewer than pixels, so the window
may land beside the pixels it was asked for; `PositionHolds` says by how much.  And a target that the demo
starts while the application already quits, after `cleanup()` ran, is registered for a cleanup
that only an error still brings about: `TargetsEnd` excepts it, and no property says what becomes of it.

## Not modelled

- The X11 controller: stacking, the matching of titles and classes, errors of the X connection; on every
  platform, properties of windows that only the system interprets.
- `configure`: the loading of native addons, the validation of options, an explicit backend of another platform.
- `createLayerShellOverlay` (`index.ts` 1028-1059): the validation of options and the choice of the binding.
- A `setContentSize()` that throws (`index.ts` 725).  Electron throws there for a window that is destroyed, and then emits no
  paint or capture that would come to that line.
- The calls of `swaymsg` that the demo makes in a session of Sway (`SWAYSOCK`, `main.mjs` 471-477, 610, 619): the scenarios
  are those of any other session.
- The `layer-shell` scenario of the demo: it waits for counters of the native controller
  (`main.mjs` 906-916), of which `bufferReleaseCount` may count an earlier buffer, and with DMA-BUFs it
  compares no contents; what it exercises is modelled by itself.
- What the release scripts check inside an archive, the checksums and the manifest of `prepare-release-assets.mjs`, the build scripts, and the smoke tests: sequences of external
  commands without state of their own.
- Generated Wayland protocol code.

## Plan

1. Done: all components that keep state, as listed above; the runs.
2. Done: theorems for every invariant and every safety property of the runs, and the refinement.
3. Left: more of the safety that liveness rests on, as `NoLostWakeup` and `NoOrphan` are for the native controller and the
   demo: for `CompletedReleased`, that the interval runs while a lease is out; for `InitializeSettles`, that whoever is waited
   for has a step left or a deadline.
