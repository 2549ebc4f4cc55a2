-------------------------- MODULE LayerShellOverlay -------------------------
(***************************************************************************)
(* LayerShellOverlayController of packages/electron-overlay/src/index.ts:  *)
(* it feeds the native controller from an offscreen Electron window, by    *)
(* shared texture or by bitmap, and gives every texture back to Electron.  *)
(*                                                                         *)
(* JavaScript runs one callback at a time (task), but the native threads   *)
(* move between any two native calls of a callback, so a step is the code  *)
(* from one native call to the next.  The native side is what              *)
(* NativeLayerShellController promises; Electron and the renderer are      *)
(* free to deliver paints, captures and "destroyed" when they like, also   *)
(* late, and a paint from within webContents.invalidate().                 *)
(***************************************************************************)
EXTENDS Integers, FiniteSets

CONSTANTS
  Sizes,           \* the sizes of surfaces and images
  Textures,        \* the shared textures of Electron's pool
  NoTexture,       \* no texture
  MaxSubmissionId, \* Number.MAX_SAFE_INTEGER: submission ids wrap there
  MaxSources,      \* bound: how many windows are attached
  MaxGeneration,   \* bound: where a source's paint generations saturate
  MaxConfigures    \* bound: how often the compositor changes the size

ASSUME BoundsAssumption ==
  /\ MaxSubmissionId \in Nat \ {0} /\ MaxSources \in Nat
  /\ MaxGeneration \in Nat \ {0} /\ MaxConfigures \in Nat
ASSUME NamesAssumption ==
  /\ Sizes # {} /\ Sizes \cap {"none", "empty", "short", "invalid", "torn"} = {}
  /\ NoTexture \notin Textures

Ids == 1 .. MaxSubmissionId
Sources == 1 .. MaxSources
PaintGenerations == 1 .. MaxGeneration

(* A NativeImage is missing, empty, shorter than its size says, or good.   *)
Images == {"none", "empty", "short"} \cup Sizes
(* The metadata of a texture is not importable, or has a coded size.       *)
Infos == {"invalid"} \cup Sizes

(* A window may be given the width of one surface and the height of the    *)
(* other; an image of that size is as good as any other of a wrong one.    *)
WindowSizes == Sizes \cup {"torn"}

VARIABLES
  size, open, usable, health, life, holding, queue, \* the native controller
  (* LayerShellOverlayController *)
  closed,
  generation,   \* sourceGeneration
  bound,        \* the source detachSource belongs to, 0 if undefined
  sources,      \* per attachment, the variables of attachOffscreenWindow
  leases,       \* dmabufLeases
  nextSubmissionId,
  leaseMonitor, \* the interval of drainReleasedDmabufs runs
  (* the callback that runs *)
  task,
  (* Electron and what has happened *)
  out,          \* textures delivered with a paint and not yet released
  content,      \* the content size of the attached window
  due,          \* a paint of the whole window is owed to invalidate()
  fed,          \* the backend of the frame the surface has or will have
  failed,       \* buffers could not be created since the mailbox was shut
  configures    \* how often the size was changed

Native == INSTANCE NativeLayerShellController

nativeVars == <<size, open, usable, health, life, holding, queue>>
sourceVars == <<closed, generation, bound, sources>>
leaseVars == <<leases, nextSubmissionId, leaseMonitor, out>>
windowVars == <<content, due>>
surfaceVars == <<fed, failed, configures>>
vars == <<nativeVars, sourceVars, leaseVars, task, windowVars, surfaceVars>>

-----------------------------------------------------------------------------
Larger(m, n) == IF m > n THEN m ELSE n

(* generation 0 stands for undefined (pending) and for none in flight      *)
(* (capture).                                                              *)
NewSource ==
  [active |-> FALSE, latest |-> 0, submitted |-> 0, pending |-> 0,
   capture |-> 0, timer |-> FALSE, fallback |-> FALSE, invalidate |-> FALSE,
   monitor |-> FALSE]

(* detachNewSource: a capture under way still settles.                     *)
DetachedTimerRuns(source) == \* defect: the timer of a capture is not cleared
  [source EXCEPT !.active = FALSE, !.pending = 0, !.monitor = FALSE]
Detached(source) ==
  [source EXCEPT !.active = FALSE, !.pending = 0, !.timer = FALSE,
                 !.monitor = FALSE]
Detach(a) ==
  /\ sources' = [sources EXCEPT ![a] = Detached(@)]
  /\ bound' = IF bound = a THEN 0 ELSE bound

Live(a) == ~closed /\ sources[a].active
CurrentUnguarded(a) == TRUE \* defect: late callbacks of an old source count
Current(a) == Live(a) /\ a = generation

Terminal == health # "up" \/ life # "open"

(* width and height of getState().  The dispatch thread stores one after   *)
(* the other, some time before it accepts frames of that size.             *)
SizesRead == IF open THEN {size} ELSE WindowSizes

NoTask ==
  [at |-> "idle", by |-> 0, caller |-> "none", gen |-> 0, texture |-> NoTexture,
   info |-> "invalid", image |-> "none", outer |-> "none"]
Src == sources[task.by]
Goto(at) == task' = [task EXCEPT !.at = at]
Done == task' = [task EXCEPT !.at = "finally", !.gen = 0, !.info = "invalid", !.image = "none"]
Update(field, value) == sources' = [sources EXCEPT ![task.by][field] = value]

(* A callback of source a starts when no other runs.                       *)
Start(a, caller, at) ==
  /\ task.at = "idle"
  /\ task' = [NoTask EXCEPT !.at = at, !.by = a, !.caller = caller]

Leased(id) == leases[id] # NoTexture
TexturesOf(ids) == {leases[id] : id \in {i \in ids : Leased(i)}}

(* drainReleasedDmabufs; ids without a lease are ignored.                  *)
GiveBack(ids) ==
  /\ out' = out \ TexturesOf(ids)
  /\ leases' = [id \in Ids |-> IF id \in ids THEN NoTexture ELSE leases[id]]
ReleaseUnmonitored(ids) == \* defect: the first drain stops the interval
  GiveBack(ids) /\ leaseMonitor' = FALSE /\ UNCHANGED nextSubmissionId
Release(ids) ==
  /\ GiveBack(ids)
  /\ leaseMonitor' = (leaseMonitor /\ \E id \in Ids \ ids : Leased(id))
  /\ UNCHANGED nextSubmissionId
DrainAll == Native!Take /\ Release(Ids) \* defect: releases every lease
Drain == Native!Take /\ Release(queue)

(* allocateSubmissionId: the first id without a lease, counting on from    *)
(* nextSubmissionId and round.                                             *)
IdAfterUnwrapped(id) == id + 1 \* defect: no wrap
IdAfter(id) == IF id = MaxSubmissionId THEN 1 ELSE id + 1
AllocatesLeased == nextSubmissionId \* defect: after the wrap, a leased id
Allocated ==
  LET FirstFrom(id) == {i \in Ids : i >= id /\ ~Leased(i)}
      candidates == IF FirstFrom(nextSubmissionId) # {}
                    THEN FirstFrom(nextSubmissionId) ELSE FirstFrom(1)
  IN CHOOSE id \in candidates : \A i \in candidates : id <= i

-----------------------------------------------------------------------------
Init ==
  /\ Native!Init
  /\ closed = FALSE /\ generation = 0 /\ bound = 0
  /\ sources = [a \in Sources |-> NewSource]
  /\ leases = [id \in Ids |-> NoTexture] /\ nextSubmissionId = 1
  /\ leaseMonitor = FALSE
  /\ task = NoTask
  /\ out = {} /\ content = size /\ due = FALSE
  /\ fed = "none" /\ failed = FALSE /\ configures = 0

-----------------------------------------------------------------------------
(* attachOffscreenWindow.                                                  *)

Attach ==
  /\ task.at = "idle" /\ ~closed /\ generation < MaxSources
  /\ generation' = generation + 1 /\ bound' = generation'
  /\ sources' = [a \in Sources |->
       IF a = generation' THEN [NewSource EXCEPT !.active = TRUE]
       ELSE IF a = bound THEN Detached(sources[a]) ELSE sources[a]]
  /\ task' = [NoTask EXCEPT !.at = "attachResize", !.by = generation',
                            !.caller = "attach"]
  /\ content' \in Sizes /\ due' = FALSE
  /\ UNCHANGED <<nativeVars, closed, leaseVars, surfaceVars>>

(* resizeSource(true): the surface has ended, setContentSize throws, or    *)
(* the window has the surface's size and a paint is requested.             *)
AttachResize ==
  /\ task.at = "attachResize"
  /\ \/ /\ Detach(task.by) /\ Done
        /\ UNCHANGED <<windowVars>>
     \/ /\ ~Terminal
        /\ content' \in SizesRead
        /\ task' = [task EXCEPT !.at = "invalidating", !.outer = "attached"]
        /\ UNCHANGED <<due, bound, sources>>
  /\ UNCHANGED <<nativeVars, closed, generation, leaseVars, surfaceVars>>

(* webContents.invalidate() returns, or emits the paint itself (Paint), or *)
(* throws: attachOffscreenWindow rolls back, monitorSize closes.           *)
InvalidateReturns ==
  /\ task.at = "invalidating"
  /\ due' = TRUE
  /\ task' = [task EXCEPT !.at = task.outer, !.outer = "none"]
  /\ UNCHANGED <<nativeVars, sourceVars, leaseVars, content, surfaceVars>>

InvalidateThrows ==
  /\ task.at = "invalidating"
  /\ IF task.outer = "attached"
     THEN Detach(task.by) /\ task' = [task EXCEPT !.at = "finally", !.outer = "none"]
     ELSE UNCHANGED <<sources, bound>>
          /\ task' = [task EXCEPT !.at = "close", !.outer = "none"]
  /\ UNCHANGED <<nativeVars, closed, generation, leaseVars, windowVars, surfaceVars>>

(* Closed by the paint inside invalidate(): roll back; or start monitoring.*)
Attached ==
  /\ task.at = "attached"
  /\ IF closed THEN Detach(task.by)
               ELSE Update("monitor", TRUE) /\ UNCHANGED bound
  /\ Done
  /\ UNCHANGED <<nativeVars, closed, generation, leaseVars, windowVars, surfaceVars>>

-----------------------------------------------------------------------------
(* paint.                                                                  *)

(* Electron delivers a paint, also to the listener of a source detached    *)
(* already.  A texture it hands over is ours until it is released.         *)
Paint(a, texture, info, image) ==
  /\ \/ task.at = "idle" /\ a <= generation
     \/ task.at = "invalidating" /\ a = task.by
  /\ texture \notin out /\ (texture = NoTexture => info = "invalid")
  /\ {info, image} \subseteq Sizes => info = image
  /\ out' = out \cup ({texture} \ {NoTexture})
  /\ task' = [at |-> "paint", by |-> a, caller |-> "paint", gen |-> 0,
              texture |-> texture, info |-> info, image |-> image,
              outer |-> task.outer]
  /\ due' = ((due \/ task.at = "invalidating")
              /\ ~(a = bound /\ content \in {image, info}))
  /\ UNCHANGED <<nativeVars, sourceVars, leases, nextSubmissionId, leaseMonitor,
                 content, surfaceVars>>

(* Generations saturate: the bound of the model.                           *)
NextGeneration ==
  IF Src.latest = MaxGeneration THEN MaxGeneration ELSE Src.latest + 1

PaintBegin ==
  /\ task.at = "paint"
  /\ IF Current(task.by)
     THEN /\ Drain
          /\ Update("latest", NextGeneration)
          /\ task' = [task EXCEPT !.gen = NextGeneration,
                        !.at = IF task.texture # NoTexture THEN "texture"
                               ELSE IF task.image = "none" THEN "schedule"
                               ELSE "image"]
     ELSE Done /\ UNCHANGED <<nativeVars, sources, leaseVars>>
  /\ UNCHANGED <<closed, generation, bound, windowVars, surfaceVars>>

(* useSoftwareFallback: the image of the paint, or a capture.              *)
Fallback ==
  /\ Update("fallback", TRUE)
  /\ Goto(IF task.image = "none" THEN "schedule" ELSE "image")

PaintTexture ==
  /\ task.at = "texture"
  /\ IF Terminal THEN Goto("close") /\ UNCHANGED sources
     ELSE IF task.info = "invalid" \/ ~usable THEN Fallback
     ELSE /\ \E read \in SizesRead :
               Goto(IF task.info # read THEN "textureResize" ELSE "submitDmabuf")
          /\ UNCHANGED sources
  /\ UNCHANGED <<nativeVars, closed, generation, bound, leaseVars, windowVars, surfaceVars>>

(* resizeSource(true, false) and useSoftwareFallback.  What it throws is   *)
(* caught and leads to the same fallback.                                  *)
TextureResize ==
  /\ task.at = "textureResize"
  /\ content' \in IF Terminal THEN {content} ELSE SizesRead
  /\ sources' = [sources EXCEPT ![task.by].invalidate = @ \/ ~Terminal,
                                ![task.by].fallback = TRUE]
  /\ Goto(IF task.image = "none" THEN "schedule" ELSE "image")
  /\ UNCHANGED <<nativeVars, closed, generation, bound, leaseVars, due, surfaceVars>>

(* submitDmabuf returns true: the texture is retained until its id comes   *)
(* back.                                                                   *)
DmabufSubmitted ==
  /\ task.at = "submitDmabuf" /\ \E id \in Ids : ~Leased(id)
  /\ task.info = size /\ Native!Lend(Allocated)
  /\ leases' = [leases EXCEPT ![Allocated] = task.texture]
  /\ nextSubmissionId' = IdAfter(Allocated)
  /\ leaseMonitor' = TRUE
  /\ Update("submitted", Larger(Src.submitted, task.gen))
  /\ task' = [task EXCEPT !.at = "submitted", !.texture = NoTexture]
  /\ fed' = "dmabuf"
  /\ UNCHANGED <<closed, generation, bound, out, windowVars, failed, configures>>

(* It returns false or throws; the id may have been leased and completed   *)
(* on the way.                                                             *)
DmabufRejected ==
  /\ task.at = "submitDmabuf" /\ \E id \in Ids : ~Leased(id)
  /\ queue' \in {queue, queue \cup {Allocated}}
  /\ nextSubmissionId' = IdAfter(Allocated)
  /\ Goto("rejected")
  /\ UNCHANGED <<size, open, usable, health, life, holding, sourceVars, leases,
                 leaseMonitor, out, windowVars, surfaceVars>>

(* No submission id is free: allocateSubmissionId throws into the catch.   *)
NoSubmissionId ==
  /\ task.at = "submitDmabuf" /\ \A id \in Ids : Leased(id)
  /\ Fallback
  /\ UNCHANGED <<nativeVars, closed, generation, bound, leaseVars, windowVars, surfaceVars>>

DmabufRejectedState ==
  /\ task.at = "rejected"
  /\ IF Terminal THEN Goto("close") /\ UNCHANGED sources ELSE Fallback
  /\ UNCHANGED <<nativeVars, closed, generation, bound, leaseVars, windowVars, surfaceVars>>

DrainAfterSubmit ==
  /\ task.at = "submitted"
  /\ Drain
  /\ Goto("submittedState")
  /\ UNCHANGED <<sourceVars, windowVars, surfaceVars>>

DmabufSubmittedState ==
  /\ task.at = "submittedState"
  /\ IF Terminal THEN Goto("close") /\ UNCHANGED sources
     ELSE IF ~usable THEN Fallback
     ELSE Update("fallback", FALSE) /\ Done
  /\ UNCHANGED <<nativeVars, closed, generation, bound, leaseVars, windowVars, surfaceVars>>

-----------------------------------------------------------------------------
(* submitImage, for a paint or for a capture.                              *)

(* "retry": a paint schedules a capture, a capture asks for another.       *)
Retry ==
  IF task.caller = "capture"
  THEN Update("pending", Larger(task.gen, Src.latest)) /\ Done
  ELSE UNCHANGED sources /\ Goto("schedule")

SubmitImage ==
  /\ task.at = "image"
  /\ CASE ~Live(task.by) -> Done /\ UNCHANGED sources
       [] Live(task.by) /\ task.image = "empty" -> Retry
       [] Live(task.by) /\ task.image # "empty" /\ Terminal ->
            Goto("close") /\ UNCHANGED sources
       [] Live(task.by) /\ task.image = "short" /\ ~Terminal -> Retry
       [] OTHER -> /\ \E read \in SizesRead :
                        Goto(IF task.image # read THEN "imageResize" ELSE "submitFrame")
                   /\ UNCHANGED sources
  /\ UNCHANGED <<nativeVars, closed, generation, bound, leaseVars, windowVars, surfaceVars>>

(* resizeSource(true, false), its error caught by submitImage.             *)
ImageResize ==
  /\ task.at = "imageResize"
  /\ IF Terminal THEN Retry /\ UNCHANGED content
     ELSE content' \in SizesRead /\ Update("invalidate", TRUE) /\ Done
  /\ UNCHANGED <<nativeVars, closed, generation, bound, leaseVars, due, surfaceVars>>

FrameSubmitted ==
  /\ task.at = "submitFrame" /\ Native!Accepts("shm", task.image)
  /\ Update("submitted", Larger(Src.submitted, task.gen))
  /\ fed' = "shm"
  /\ Done
  /\ UNCHANGED <<nativeVars, closed, generation, bound, leaseVars, windowVars, failed, configures>>

(* submitFrame returns false: the surface is being configured or has ended.*)
FrameRejected ==
  /\ task.at = "submitFrame" /\ ~Native!Accepts("shm", task.image)
  /\ Goto("frameRejected")
  /\ UNCHANGED <<nativeVars, sourceVars, leaseVars, windowVars, surfaceVars>>

FrameRejectedState ==
  /\ task.at = "frameRejected"
  /\ IF Terminal THEN Goto("close") /\ UNCHANGED sources ELSE Retry
  /\ UNCHANGED <<nativeVars, closed, generation, bound, leaseVars, windowVars, surfaceVars>>

-----------------------------------------------------------------------------
(* Captures: scheduleCaptureFallback and startCaptureFallback.             *)

MaySchedule == Src.capture = 0 /\ ~Src.timer

(* At once if the last capture is 100 ms old, else by a timer.             *)
ScheduleCapture ==
  /\ task.at = "schedule"
  /\ IF ~Live(task.by) THEN Done /\ UNCHANGED sources
     ELSE \E now \in BOOLEAN :
            /\ sources' = [sources EXCEPT ![task.by].pending = task.gen,
                             ![task.by].timer = @ \/ (MaySchedule /\ ~now)]
            /\ IF MaySchedule /\ now THEN Goto("startCapture") ELSE Done
  /\ UNCHANGED <<nativeVars, closed, generation, bound, leaseVars, windowVars, surfaceVars>>

TimerFires(a) ==
  /\ sources[a].timer
  /\ Start(a, "timer", "startCapture")
  /\ sources' = [sources EXCEPT ![a].timer = FALSE]
  /\ UNCHANGED <<nativeVars, closed, generation, bound, leaseVars, windowVars, surfaceVars>>

MayCapture == Live(task.by) /\ Src.capture = 0 /\ Src.pending # 0

StartCapture ==
  /\ task.at = "startCapture"
  /\ IF MayCapture
     THEN /\ sources' = [sources EXCEPT ![task.by].pending = 0,
               ![task.by].capture = IF Terminal THEN 0 ELSE Src.pending]
          /\ IF Terminal THEN Goto("close") ELSE Done
     ELSE Done /\ UNCHANGED sources
  /\ UNCHANGED <<nativeVars, closed, generation, bound, leaseVars, windowVars, surfaceVars>>

(* capturePage throws: the same generation is scheduled again, by a timer. *)
StartCaptureThrows ==
  /\ task.at = "startCapture" /\ MayCapture /\ ~Terminal
  /\ Update("timer", TRUE) /\ Done
  /\ UNCHANGED <<nativeVars, closed, generation, bound, leaseVars, windowVars, surfaceVars>>

StaleCaptureTaken(a) == FALSE \* defect: does not compare generations
StaleCapture(a) == sources[a].capture < sources[a].submitted

(* The promise settles, with .then or .catch; .finally follows in Finally. *)
CaptureResolves(a, image) ==
  /\ sources[a].capture # 0 /\ task.at = "idle"
  /\ task' = [NoTask EXCEPT !.by = a, !.caller = "capture", !.image = image,
               !.gen = sources[a].capture,
               !.at = IF Current(a) /\ ~StaleCapture(a) THEN "image" ELSE "finally"]
  /\ UNCHANGED <<nativeVars, sourceVars, leaseVars, windowVars, surfaceVars>>

CaptureRejects(a) ==
  /\ sources[a].capture # 0
  /\ IF Live(a)
     THEN /\ Start(a, "capture", "captureRejected")
          /\ sources' = [sources EXCEPT ![a].pending = Larger(sources[a].capture, sources[a].latest)]
     ELSE Start(a, "capture", "finally") /\ UNCHANGED sources
  /\ UNCHANGED <<nativeVars, closed, generation, bound, leaseVars, windowVars, surfaceVars>>

CaptureRejectedState ==
  /\ task.at = "captureRejected"
  /\ IF Terminal THEN Goto("close") ELSE Done
  /\ UNCHANGED <<nativeVars, sourceVars, leaseVars, windowVars, surfaceVars>>

-----------------------------------------------------------------------------
(* monitorSize, every 100 ms while the source is attached.                 *)

MonitorSize(a) ==
  /\ sources[a].monitor
  /\ Start(a, "monitor", "monitorResize")
  /\ Drain
  /\ UNCHANGED <<sourceVars, windowVars, surfaceVars>>

(* resizeSource(): only a size that differs, or a request left over by     *)
(* resizeSource(true, false), asks for a paint.                            *)
WantsOnlyResized(read) == content # read \* defect: forgets the request left over
WantsPaint(read) == Src.invalidate \/ content # read

MonitorResize ==
  /\ task.at = "monitorResize"
  /\ IF Terminal THEN Goto("close") /\ UNCHANGED <<content, sources>>
     ELSE /\ content' \in SizesRead
          /\ Update("invalidate", FALSE)
          /\ task' = IF WantsPaint(content')
                     THEN [task EXCEPT !.at = "invalidating", !.outer = "monitored"]
                     ELSE [task EXCEPT !.at = "monitored"]
  /\ UNCHANGED <<nativeVars, closed, generation, bound, leaseVars, due, surfaceVars>>

(* DMA-BUF was disabled since: capture.                                    *)
AlwaysServed == TRUE \* defect: nobody looks at dmabufUsable
HasBackend == usable \/ Src.fallback

Monitored ==
  /\ task.at = "monitored"
  /\ IF HasBackend THEN Done /\ UNCHANGED sources
     ELSE /\ sources' = [sources EXCEPT ![task.by].fallback = TRUE,
                                        ![task.by].latest = NextGeneration]
          /\ task' = [task EXCEPT !.at = "schedule", !.gen = NextGeneration]
  /\ UNCHANGED <<nativeVars, closed, generation, bound, leaseVars, windowVars, surfaceVars>>

-----------------------------------------------------------------------------
(* The end of every callback: paint releases the texture it still owns, a  *)
(* capture's .finally schedules the next, and the code that called         *)
(* invalidate() goes on.                                                   *)
NeverAgain == FALSE \* defect: the .finally of a capture does not go on
CapturesAgain == Live(task.by) /\ Src.pending # 0

Finally ==
  /\ task.at = "finally"
  /\ out' = out \ {task.texture}
  /\ IF task.caller # "capture"
     THEN /\ UNCHANGED sources
          /\ task' = IF task.outer = "none" THEN NoTask
                     ELSE [NoTask EXCEPT !.at = task.outer, !.by = task.by]
     ELSE /\ Update("capture", 0)
          /\ task' = IF CapturesAgain
                     THEN [NoTask EXCEPT !.at = "schedule", !.by = task.by,
                                         !.gen = Src.pending]
                     ELSE NoTask
  /\ UNCHANGED <<nativeVars, closed, generation, bound, leases, nextSubmissionId,
                 leaseMonitor, windowVars, surfaceVars>>

-----------------------------------------------------------------------------
(* close().                                                                *)

UserCloses ==
  /\ ~closed /\ Start(0, "user", "close")
  /\ UNCHANGED <<nativeVars, sourceVars, leaseVars, windowVars, surfaceVars>>

Destroyed(a) ==
  /\ a <= generation
  /\ Start(a, "destroyed", IF Current(a) THEN "close" ELSE "finally")
  /\ UNCHANGED <<nativeVars, sourceVars, leaseVars, windowVars, surfaceVars>>

CloseBegin ==
  /\ task.at = "close"
  /\ IF closed
     THEN Done /\ UNCHANGED <<nativeVars, sourceVars>>
     ELSE /\ closed' = TRUE /\ generation' = generation + 1
          /\ IF bound # 0 THEN Detach(bound) ELSE UNCHANGED <<sources, bound>>
          /\ Native!Close
          /\ Goto("closing")
  /\ UNCHANGED <<leaseVars, windowVars, surfaceVars>>

(* The native close() has returned: what it completed and what it did not  *)
(* is released alike.                                                      *)
CloseReleases == Native!Take /\ Release(Ids)

CloseEnd ==
  /\ task.at = "closing" /\ life = "closed"
  /\ CloseReleases
  /\ Done
  /\ UNCHANGED <<sourceVars, windowVars, surfaceVars>>

(* The interval of drainReleasedDmabufs.                                   *)
LeaseMonitorTicks ==
  /\ task.at = "idle" /\ leaseMonitor
  /\ Drain
  /\ UNCHANGED <<sourceVars, task, windowVars, surfaceVars>>

(* getState() of the controller.                                           *)
GetState ==
  /\ task.at = "idle"
  /\ Drain
  /\ UNCHANGED <<sourceVars, task, windowVars, surfaceVars>>

-----------------------------------------------------------------------------
(* The native controller moves.  The surface is blank once it has been     *)
(* reconfigured, and perhaps when an import has failed.  LayerConfigure    *)
(* only starts anew for another size or after a failure.                   *)
NativeMoves ==
  /\ Native!Native
  /\ open' /\ ~open => size' # size \/ failed
  /\ failed' = (~open' /\ (failed \/ health' = "failed"))
  /\ configures' = configures
       + (IF (open \/ health = "failed") /\ ~open' /\ health' = "up" THEN 1 ELSE 0)
  /\ configures' <= MaxConfigures
  /\ fed' \in IF ~open' THEN {"none"}
              ELSE IF usable' # usable /\ fed = "dmabuf" THEN {"none", "dmabuf"}
              ELSE {fed}
  /\ UNCHANGED <<sourceVars, leaseVars, task, windowVars>>

Painting ==
  \E a \in Sources, texture \in Textures \cup {NoTexture}, info \in Infos, image \in Images :
    Paint(a, texture, info, image)

Running ==
  \/ AttachResize \/ InvalidateReturns \/ InvalidateThrows \/ Attached
  \/ PaintBegin \/ PaintTexture \/ TextureResize \/ DmabufSubmitted
  \/ DmabufRejected \/ NoSubmissionId \/ DmabufRejectedState
  \/ DrainAfterSubmit \/ DmabufSubmittedState
  \/ SubmitImage \/ ImageResize \/ FrameSubmitted \/ FrameRejected
  \/ FrameRejectedState \/ ScheduleCapture \/ StartCapture
  \/ StartCaptureThrows \/ CaptureRejectedState \/ MonitorResize
  \/ Monitored \/ Finally \/ CloseBegin \/ CloseEnd

Callbacks ==
  \/ Painting
  \/ \E a \in Sources :
       \/ TimerFires(a) \/ MonitorSize(a) \/ Destroyed(a) \/ CaptureRejects(a)
       \/ \E image \in Images \ {"none"} : CaptureResolves(a, image)
  \/ LeaseMonitorTicks

Next == Attach \/ UserCloses \/ GetState \/ Callbacks \/ Running \/ NativeMoves

Spec == Init /\ [][Next]_vars

(* A callback runs to its end and so do the native close() and creation of *)
(* buffers; every interval and timer fires again (SF: between callbacks of *)
(* others).                                                                *)
NativeLeaves ==
  NativeMoves /\ \/ life = "closing" /\ holding' = {}
                 \/ life = "open" /\ health = "up" /\ ~open /\ (open' \/ health' = "failed")
LeaseFairness ==
  WF_vars(Running) /\ WF_vars(NativeLeaves) /\ SF_vars(LeaseMonitorTicks)

LeaseSpec == Spec /\ LeaseFairness

(* Electron paints what invalidate() asked for, in the end at the size of  *)
(* the window, with a bitmap or without; and captures work in the end.     *)
RequestedPaint ==
  /\ due /\ bound # 0
  /\ content \in Sizes
  /\ \E image \in {"none", content} :
       \/ Paint(bound, NoTexture, "invalid", image)
       \/ \E texture \in Textures : Paint(bound, texture, content, image)
GoodCapture == \E a \in Sources : CaptureResolves(a, content)

SurfaceFairness ==
  /\ WF_vars(Running) /\ WF_vars(NativeLeaves)
  /\ SF_vars(\E a \in Sources : MonitorSize(a))
  /\ SF_vars(\E a \in Sources : TimerFires(a))
  /\ SF_vars(RequestedPaint)
  /\ SF_vars(StartCapture) /\ SF_vars(GoodCapture)

SurfaceSpec == Spec /\ SurfaceFairness

-----------------------------------------------------------------------------
TypeOK ==
  /\ Native!TypeOK
  /\ closed \in BOOLEAN /\ generation \in 0 .. MaxSources + 1
  /\ bound \in 0 .. MaxSources
  /\ sources \in [Sources -> [active: BOOLEAN, latest: 0 .. MaxGeneration,
       submitted: 0 .. MaxGeneration, pending: 0 .. MaxGeneration,
       capture: 0 .. MaxGeneration, timer: BOOLEAN, fallback: BOOLEAN,
       invalidate: BOOLEAN, monitor: BOOLEAN]]
  /\ leases \in [Ids -> Textures \cup {NoTexture}]
  /\ nextSubmissionId \in Ids /\ leaseMonitor \in BOOLEAN
  /\ out \subseteq Textures /\ content \in WindowSizes /\ due \in BOOLEAN
  /\ fed \in {"none", "shm", "dmabuf"} /\ failed \in BOOLEAN /\ configures \in 0 .. MaxConfigures

(* A texture Electron handed over is owned once: by the paint callback     *)
(* that has not ended or by one lease.  So it is released, and never twice.*)
TextureOwnedOnce ==
  \A t \in Textures :
    Cardinality({id \in Ids : leases[id] = t}) + (IF task.texture = t THEN 1 ELSE 0)
    = IF t \in out THEN 1 ELSE 0

(* While the native side may use a DMA-BUF its texture is not given back,  *)
(* also when submission ids wrap or an id comes back for a texture that    *)
(* was never accepted; and a retained texture is always being looked       *)
(* after: drainReleasedDmabufs runs by interval while there is a lease.    *)
LeasesMonitored == leaseMonitor <=> \E id \in Ids : Leased(id)
HeldTexturesRetained == LeasesMonitored /\ \A id \in holding : Leased(id)

(* A capture that is wanted is under way or has its timer, and an attached *)
(* window is monitored: no callback ends with nobody left to go on.        *)
SourceServed ==
  task.at = "idle" => \A a \in Sources :
    Live(a) => /\ sources[a].monitor
               /\ sources[a].pending # 0 => sources[a].capture # 0 \/ sources[a].timer

(* After close(), whoever called it: the native side is closed, every      *)
(* texture is back, and no listener or timer is left.                      *)
ClosedIsClean ==
  closed /\ task.at = "idle" =>
    /\ life = "closed" /\ out = {} /\ ~leaseMonitor /\ bound = 0
    /\ \A a \in Sources : ~(sources[a].timer \/ sources[a].monitor \/ sources[a].active)

(* A frame is accepted by the native controller.                           *)
Given ==
  \/ task.at = "submitFrame" /\ task'.at = "finally"
  \/ task.at = "submitDmabuf" /\ task'.at = "submitted"

(* A late paint, capture or "destroyed" of a window that was replaced      *)
(* neither submits a frame nor closes the overlay.                         *)
LateCallbacksInert ==
  [][Given \/ (closed' /\ ~closed /\ task.caller # "user") => task.by = bound]_vars

(* A capture that was overtaken by a newer paint does not replace it.      *)
FramesInOrder == [][Given => task.gen >= Src.submitted]_vars

(* A texture whose id was completed goes back to Electron.                 *)
CompletedReleased ==
  \A id \in Ids : id \in queue /\ Leased(id) ~> ~Leased(id)

(* attachOffscreenWindow "sizes the renderer to the compositor             *)
(* configuration, requests an initial frame, follows later size changes"   *)
(* (packages/electron-overlay/README.md): a surface that was blanked by a  *)
(* change of size, or whose frame was lost, gets a frame again as long as  *)
(* its window is attached.                                                 *)
SurfaceRefilled ==
  \A a \in Sources : Live(a) /\ fed = "none" ~> fed # "none" \/ ~Live(a)

(* The same when only SurfaceFairness is assumed of Electron, for a run    *)
(* whose specification asks less of it.                                    *)
SurfaceServed == SurfaceFairness => SurfaceRefilled
=============================================================================
