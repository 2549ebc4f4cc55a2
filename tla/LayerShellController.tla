------------------------ MODULE LayerShellController ------------------------
(***************************************************************************)
(* The native layer-shell controller after initialize() has resolved       *)
(* (packages/native-addon/native/src/layer_shell.cc).  Three parties act:  *)
(*                                                                         *)
(*   - the JavaScript thread submits frames, takes back the ids of         *)
(*     DMA-BUF frames the controller is done with, and closes;             *)
(*   - the dispatch thread runs DispatchLoop and every Wayland listener;   *)
(*   - the compositor decides which event arrives next.                    *)
(*                                                                         *)
(* A step is one critical section (frameMutex_, the completion queue's     *)
(* mutex, or an atomic) with the thread-local work that follows it, so the *)
(* threads interleave wherever the code lets go of a lock.                 *)
(***************************************************************************)
EXTENDS Integers, FiniteSets

CONSTANTS
  Sizes,          \* the surface sizes the compositor may configure
  NoFrame,        \* a null std::unique_ptr<PendingFrame>
  MaxFrames,      \* bound: how many frames JavaScript submits
  MaxGenerations, \* bound: how many buffer generations are created
  MaxWork         \* bound: how many of both together

ASSUME BoundsAssumption ==
  MaxFrames \in Nat /\ MaxGenerations \in Nat \ {0} /\ MaxWork \in Nat
ASSUME SizesAssumption == Sizes # {}

Frames == 1 .. MaxFrames
Generations == 1 .. MaxGenerations

(* A PendingFrame.  Its id is the order of submission; a DMA-BUF frame     *)
(* owns a DmabufLease carrying that id as its submissionId.                *)
FrameRecords ==
  [id: Frames, backend: {"shm", "dmabuf"}, size: Sizes, generation: Generations]

ASSUME NoFrameAssumption == NoFrame \notin FrameRecords

(* A ShmBuffer is named by its generation and its index in the pair that   *)
(* CreateBuffers makes.                                                    *)
ShmBuffers == Generations \X {0, 1}
NoBuffer == <<0, 0>>

VARIABLES
  (* JavaScript thread *)
  js,                   \* where the JavaScript thread is
  submission,           \* SubmitFrame's / SubmitDmabuf's local frame
  nextFrame,            \* the id of the next frame JavaScript submits
  (* shared, under frameMutex_ or atomic *)
  pendingFrame, configuredGeneration, configuredSize, acceptingFrames,
  stop, closed, compositorClosed, mapped, dmabufUsable, wake,
  completionQueue,      \* how often an id is in dmabufCompletionQueue_.ids
  (* dispatch thread *)
  dispatch,             \* where DispatchLoop is
  call,                 \* the function a listener or the loop is inside
  pumped,               \* PumpFrame's local frame
  buffers, active, released,  \* buffers_ and the flags of its members
  dmabufImport, dmabufBuffers, nextGeneration, error,
  callbacks,            \* wl_surface_frame callbacks alive (frameCallback_)
  (* the compositor's side *)
  acked,                \* the size of the configure acknowledged last
  committed,            \* what the surface was last committed with
  heldShm, heldDmabuf,  \* the buffers the compositor may still read
  (* what has happened *)
  leases,               \* ids a DmabufLease was created for
  taken,                \* how often takeReleasedDmabufs returned an id
  accepted,             \* frames counted by submittedFrameCount_
  drops,                \* how often droppedFrameCount_ counted a frame
  presented             \* frames counted by frameCount_

jsVars == <<js, submission, nextFrame>>
mailboxVars == <<pendingFrame, acceptingFrames>>
configuredVars == <<configuredGeneration, configuredSize>>
bufferVars == <<buffers, active, released, nextGeneration>>
compositorVars == <<acked, committed, heldShm, heldDmabuf>>
leaseVars == <<completionQueue, leases, taken>>
countVars == <<accepted, drops, presented>>
flagVars == <<stop, closed, compositorClosed, mapped, dmabufUsable, wake, error>>
threadVars == <<dispatch, call, pumped>>
vars == <<jsVars, mailboxVars, configuredVars, bufferVars, compositorVars,
          leaseVars, countVars, flagVars, threadVars,
          dmabufImport, dmabufBuffers, callbacks>>

-----------------------------------------------------------------------------
Count(happened) == IF happened THEN 1 ELSE 0

(* ~DmabufLease pushes its id: the lease goes when its frame does.         *)
LeaseOf(frame) ==
  IF frame # NoFrame /\ frame.backend = "dmabuf" THEN {frame.id} ELSE {}
Complete(ids) ==
  completionQueue' = [f \in Frames |-> completionQueue[f] + Count(f \in ids)]

(* droppedFrameCount_ += 1, attributed to the frame it counts.             *)
IdOfLeased(frame) == LeaseOf(frame) \* defect: shm frames go uncounted
IdOf(frame) == IF frame = NoFrame THEN {} ELSE {frame.id}
CountDropped(ids) == drops' = [f \in Frames |-> drops[f] + Count(f \in ids)]

(* pendingFrame_.reset() without counting the frame as dropped.            *)
ForgetPending == pendingFrame' = NoFrame /\ Complete({}) \* defect: leaks the lease
DiscardPending == pendingFrame' = NoFrame /\ Complete(LeaseOf(pendingFrame))

(* The frame fits the buffers configured now.                              *)
Matches(frame) ==
  /\ frame.generation = configuredGeneration
  /\ frame.size = configuredSize

(* AttachFrame and AttachDmabuf: attach, damage, request a frame callback, *)
(* commit.                                                                 *)
Commit(buffer, frame, size) ==
  /\ committed' = [buffer |-> buffer, frame |-> frame, size |-> size]
  /\ callbacks' = callbacks + 1
  /\ mapped' = TRUE

WorkLeft ==
  nextFrame + nextGeneration + Count(call = "create") < MaxWork + 2

-----------------------------------------------------------------------------
(* The state Initialize leaves: the first configure was handled on the     *)
(* worker thread, its blank buffer is attached, the eventfd exists and the *)
(* dispatch thread starts its loop.                                        *)
Init ==
  /\ js = "idle" /\ submission = NoFrame /\ nextFrame = 1
  /\ pendingFrame = NoFrame /\ acceptingFrames = TRUE
  /\ configuredGeneration = 1 /\ configuredSize \in Sizes
  /\ stop = FALSE /\ closed = FALSE /\ compositorClosed = FALSE
  /\ mapped = TRUE /\ dmabufUsable \in BOOLEAN /\ wake = FALSE /\ error = FALSE
  /\ dispatch = "top" /\ call = "none" /\ pumped = NoFrame
  /\ buffers = {1} \X {0, 1} /\ active = {1} \X {0, 1} /\ released = {<<1, 1>>}
  /\ nextGeneration = 2
  /\ dmabufImport = NoFrame /\ dmabufBuffers = {} /\ callbacks = 1
  /\ acked = configuredSize
  /\ committed = [buffer |-> <<1, 0>>, frame |-> 0, size |-> configuredSize]
  /\ heldShm = {<<1, 0>>} /\ heldDmabuf = {}
  /\ leases = {} /\ accepted = {} /\ presented = {}
  /\ completionQueue = [f \in Frames |-> 0] /\ taken = [f \in Frames |-> 0]
  /\ drops = [f \in Frames |-> 0]

-----------------------------------------------------------------------------
(* The JavaScript thread.                                                  *)

(* The test both critical sections of submitFrame and submitDmabuf make.   *)
(* The pixel format is one the compositor advertised.                      *)
Refused(backend, size) ==
  \/ ~acceptingFrames \/ closed \/ compositorClosed
  \/ backend = "dmabuf" /\ ~dmabufUsable
  \/ size # configuredSize

(* A refusal at the first test is counted only for a wrong size, which     *)
(* submitFrame looks at after the other conditions and submitDmabuf always.*)
CountsRefusal(backend, size) ==
  /\ size # configuredSize
  /\ backend = "shm" => acceptingFrames /\ ~closed /\ ~compositorClosed

SubmitRefused(backend, size) ==
  /\ js \in {"idle", "closed"} /\ nextFrame \in Frames /\ WorkLeft
  /\ Refused(backend, size)
  /\ nextFrame' = nextFrame + 1
  /\ CountDropped(IF CountsRefusal(backend, size) THEN {nextFrame} ELSE {})
  /\ UNCHANGED <<js, submission, mailboxVars, configuredVars, bufferVars,
                 compositorVars, leaseVars, accepted, presented, flagVars,
                 threadVars, dmabufImport, dmabufBuffers, callbacks>>

(* The local frame carries the generation seen by the first test.          *)
NewFrameAhead(backend, size) == \* defect: the generation to be created next
  [id |-> nextFrame, backend |-> backend, size |-> size,
   generation |-> nextGeneration]
NewFrame(backend, size) ==
  [id |-> nextFrame, backend |-> backend, size |-> size,
   generation |-> configuredGeneration]

(* The first critical section let the frame in; the pixels are copied, or  *)
(* the lease is made and the descriptor duplicated, outside the lock.      *)
SubmitBegin(backend, size) ==
  /\ js = "idle" /\ nextFrame \in Frames /\ WorkLeft
  /\ ~Refused(backend, size)
  /\ nextFrame' = nextFrame + 1
  /\ submission' = NewFrame(backend, size)
  /\ leases' = leases \cup (IF backend = "dmabuf" THEN {nextFrame} ELSE {})
  /\ js' = "submitting"
  /\ UNCHANGED <<mailboxVars, configuredVars, bufferVars, compositorVars,
                 completionQueue, taken, countVars, flagVars, threadVars,
                 dmabufImport, dmabufBuffers, callbacks>>

(* submitDmabuf throws after it made the lease: the descriptor cannot be   *)
(* duplicated, or the plane does not pass validation.                      *)
SubmitThrows ==
  /\ js = "submitting" /\ submission.backend = "dmabuf"
  /\ Complete(LeaseOf(submission))
  /\ submission' = NoFrame /\ js' = "idle"
  /\ UNCHANGED <<nextFrame, mailboxVars, configuredVars, bufferVars,
                 compositorVars, leases, taken, countVars, flagVars,
                 threadVars, dmabufImport, dmabufBuffers, callbacks>>

(* write() to the eventfd.                                                 *)
SkipWake == UNCHANGED wake \* defect: the dispatch thread sleeps on
SignalWake == wake' = TRUE

(* The second critical section: the configuration may have moved on.       *)
SubmitEnd ==
  /\ js = "submitting"
  /\ submission' = NoFrame /\ js' = "idle"
  /\ IF \/ Refused(submission.backend, submission.size)
        \/ submission.generation # configuredGeneration
     THEN /\ CountDropped({submission.id})
          /\ Complete(LeaseOf(submission))
          /\ UNCHANGED <<pendingFrame, accepted, wake>>
     ELSE /\ CountDropped(IdOf(pendingFrame))
          /\ Complete(LeaseOf(pendingFrame))
          /\ pendingFrame' = submission
          /\ accepted' = accepted \cup {submission.id}
          /\ SignalWake
  /\ UNCHANGED <<nextFrame, acceptingFrames, configuredVars, bufferVars,
                 compositorVars, leases, taken, presented, stop, closed,
                 compositorClosed, mapped, dmabufUsable, error, threadVars,
                 dmabufImport, dmabufBuffers, callbacks>>

(* takeReleasedDmabufs swaps the queue with an empty one.                  *)
TakeReleasedDmabufs ==
  /\ js \in {"idle", "closed"}
  /\ taken' = [f \in Frames |-> taken[f] + completionQueue[f]]
  /\ completionQueue' = [f \in Frames |-> 0]
  /\ UNCHANGED <<jsVars, mailboxVars, configuredVars, bufferVars,
                 compositorVars, leases, countVars, flagVars, threadVars,
                 dmabufImport, dmabufBuffers, callbacks>>

(* Close: closed_.exchange(true); a second close() returns at once.        *)
CloseBegin ==
  /\ js = "idle" /\ ~closed
  /\ closed' = TRUE /\ js' = "closing"
  /\ UNCHANGED <<submission, nextFrame, mailboxVars, configuredVars,
                 bufferVars, compositorVars, leaseVars, countVars, stop,
                 compositorClosed, mapped, dmabufUsable, wake, error,
                 threadVars, dmabufImport, dmabufBuffers, callbacks>>

CloseStop ==
  /\ js = "closing"
  /\ acceptingFrames' = FALSE /\ DiscardPending
  /\ stop' = TRUE /\ SignalWake /\ mapped' = FALSE
  /\ js' = "joining"
  /\ UNCHANGED <<submission, nextFrame, configuredVars, bufferVars,
                 compositorVars, leases, taken, countVars, closed,
                 compositorClosed, dmabufUsable, error, threadVars,
                 dmabufImport, dmabufBuffers, callbacks>>

(* dispatchThread_.join() returns; the second DestroyWaylandObjects finds  *)
(* every pointer null already.                                             *)
CloseJoin ==
  /\ js = "joining" /\ dispatch = "ended"
  /\ wake' = FALSE /\ mapped' = FALSE
  /\ js' = "closed"
  /\ UNCHANGED <<submission, nextFrame, mailboxVars, configuredVars,
                 bufferVars, compositorVars, leaseVars, countVars, stop,
                 closed, compositorClosed, dmabufUsable, error, threadVars,
                 dmabufImport, dmabufBuffers, callbacks>>

-----------------------------------------------------------------------------
(* DispatchLoop.                                                           *)

(* while (!stop_)                                                          *)
LoopTop ==
  /\ dispatch = "top"
  /\ dispatch' = IF stop THEN "destroy" ELSE "dispatch"
  /\ UNCHANGED <<jsVars, mailboxVars, configuredVars, bufferVars,
                 compositorVars, leaseVars, countVars, flagVars, call, pumped,
                 dmabufImport, dmabufBuffers, callbacks>>

(* wl_display_dispatch_pending has run out of events; PumpFrame is next.   *)
LoopPump ==
  /\ dispatch = "dispatch" /\ call = "none"
  /\ dispatch' = "poll" /\ call' = "pump"
  /\ UNCHANGED <<jsVars, mailboxVars, configuredVars, bufferVars,
                 compositorVars, leaseVars, countVars, flagVars, pumped,
                 dmabufImport, dmabufBuffers, callbacks>>

(* poll returns for the eventfd.  (It returns for the display in Listening.*)
PollWake ==
  /\ dispatch = "poll" /\ call = "none" /\ wake
  /\ dispatch' = "drain"
  /\ UNCHANGED <<jsVars, mailboxVars, configuredVars, bufferVars,
                 compositorVars, leaseVars, countVars, flagVars, call, pumped,
                 dmabufImport, dmabufBuffers, callbacks>>

(* wl_display_dispatch has returned; DrainWake only if poll saw the wake.  *)
LoopEnd ==
  /\ dispatch \in {"events", "drain"} /\ call = "none"
  /\ wake' = (wake /\ dispatch = "events")
  /\ dispatch' = "top"
  /\ UNCHANGED <<jsVars, mailboxVars, configuredVars, bufferVars,
                 compositorVars, leaseVars, countVars, stop, closed,
                 compositorClosed, mapped, dmabufUsable, error, call, pumped,
                 dmabufImport, dmabufBuffers, callbacks>>

(* The leases the thread still owns.                                       *)
AttachedLeases == dmabufBuffers \* defect: forgets the import under way
OwnedLeases == LeaseOf(dmabufImport) \cup dmabufBuffers

(* DestroyWaylandObjects up to the buffers: every lease the thread still   *)
(* owns is completed.                                                      *)
DestroyWaylandObjects ==
  /\ dispatch = "destroy"
  /\ Complete(OwnedLeases)
  /\ dmabufImport' = NoFrame /\ dmabufBuffers' = {} /\ callbacks' = 0
  /\ buffers' = {} /\ active' = {} /\ released' = {}
  /\ dispatch' = "disconnect"
  /\ UNCHANGED <<jsVars, mailboxVars, configuredVars, nextGeneration,
                 compositorVars, leases, taken, countVars, flagVars, call,
                 pumped>>

(* ... and the rest of it: the surface, the globals and the connection go, *)
(* and with them the compositor's interest in any buffer.                  *)
Disconnect ==
  /\ dispatch = "disconnect"
  /\ heldShm' = {} /\ heldDmabuf' = {}
  /\ dispatch' = "ended"
  /\ UNCHANGED <<jsVars, mailboxVars, configuredVars, bufferVars, acked,
                 committed, leaseVars, countVars, flagVars, call, pumped,
                 dmabufImport, dmabufBuffers, callbacks>>

-----------------------------------------------------------------------------
(* PumpFrame.                                                              *)

(* active, released buffers of the configured generation: where find_if    *)
(* looks for the pixels' target.                                           *)
AvailableUnreleased == {b \in active : b[1] = configuredGeneration} \* defect
Available == {b \in active \cap released : b[1] = configuredGeneration}

PumpableWhileImporting == \* defect: overtakes the import
  /\ ~stop /\ ~compositorClosed /\ callbacks = 0 /\ pendingFrame # NoFrame
PumpableUnpaced == \* defect: does not wait for the frame callback
  /\ ~stop /\ ~compositorClosed
  /\ dmabufImport = NoFrame /\ pendingFrame # NoFrame
Pumpable ==
  /\ ~stop /\ ~compositorClosed /\ callbacks = 0
  /\ dmabufImport = NoFrame /\ pendingFrame # NoFrame

(* A frame of another generation, or a DMA-BUF frame after DMA-BUF was     *)
(* disabled.                                                               *)
Unpresentable(frame) ==
  ~Matches(frame) \/ (frame.backend = "dmabuf" /\ ~dmabufUsable)

(* One of the early returns, or no free buffer: the frame stays pending.   *)
PumpNothing ==
  /\ call = "pump"
  /\ Pumpable => /\ pendingFrame.backend = "shm" /\ Available = {}
                 /\ ~Unpresentable(pendingFrame)
  /\ call' = "none"
  /\ UNCHANGED <<jsVars, mailboxVars, configuredVars, bufferVars,
                 compositorVars, leaseVars, countVars, flagVars, dispatch,
                 pumped, dmabufImport, dmabufBuffers, callbacks>>

PumpDrop ==
  /\ call = "pump" /\ Pumpable /\ Unpresentable(pendingFrame)
  /\ DiscardPending /\ CountDropped(IdOf(pendingFrame))
  /\ call' = "none"
  /\ UNCHANGED <<jsVars, acceptingFrames, configuredVars, bufferVars,
                 compositorVars, leases, taken, accepted, presented, flagVars,
                 dispatch, pumped, dmabufImport, dmabufBuffers, callbacks>>

(* frame = std::move(pendingFrame_), the last thing done under the lock.   *)
PumpTake ==
  /\ call = "pump" /\ Pumpable /\ ~Unpresentable(pendingFrame)
  /\ pendingFrame.backend = "shm" => Available # {}
  /\ pumped' = pendingFrame /\ pendingFrame' = NoFrame
  /\ call' = "present"
  /\ UNCHANGED <<jsVars, acceptingFrames, configuredVars, bufferVars,
                 compositorVars, leaseVars, countVars, flagVars, dispatch,
                 dmabufImport, dmabufBuffers, callbacks>>

(* memcpy into the first available buffer, then AttachFrame.               *)
PresentShm ==
  /\ call = "present" /\ pumped.backend = "shm"
  /\ \E b \in Available :
       /\ \A c \in Available : b[2] <= c[2]
       /\ released' = released \ {b}
       /\ heldShm' = heldShm \cup {b}
       /\ Commit(b, pumped.id, configuredSize)
  /\ presented' = presented \cup {pumped.id}
  /\ pumped' = NoFrame /\ call' = "none"
  /\ UNCHANGED <<jsVars, mailboxVars, configuredVars, buffers, active,
                 nextGeneration, acked, heldDmabuf, leaseVars, accepted, drops,
                 stop, closed, compositorClosed, dmabufUsable, wake, error,
                 dispatch, dmabufImport, dmabufBuffers>>

(* StartDmabufImport: the compositor is asked to import the frame.         *)
StartDmabufImport ==
  /\ call = "present" /\ pumped.backend = "dmabuf"
  /\ dmabufImport' = pumped
  /\ pumped' = NoFrame /\ call' = "none"
  /\ UNCHANGED <<jsVars, mailboxVars, configuredVars, bufferVars,
                 compositorVars, leaseVars, countVars, flagVars, dispatch,
                 dmabufBuffers, callbacks>>

(* ... or the import parameters cannot be created, which disables DMA-BUF. *)
StartDmabufImportFails ==
  /\ call = "present" /\ pumped.backend = "dmabuf"
  /\ dmabufUsable' = FALSE
  /\ CountDropped({pumped.id}) /\ Complete({pumped.id})
  /\ pumped' = NoFrame /\ call' = "none"
  /\ UNCHANGED <<jsVars, mailboxVars, configuredVars, bufferVars,
                 compositorVars, leases, taken, accepted, presented, stop,
                 closed, compositorClosed, mapped, wake, error, dispatch,
                 dmabufImport, dmabufBuffers, callbacks>>

-----------------------------------------------------------------------------
(* Wayland listeners.  They run inside wl_display_dispatch[_pending]; an   *)
(* event is also what makes poll return for the display.                   *)

Listening ==
  /\ call = "none"
  /\ dispatch \in {"dispatch", "poll", "events", "drain"}
  /\ dispatch' = IF dispatch # "poll" THEN dispatch
                 ELSE IF wake THEN "drain" ELSE "events"

(* CollectReleasedBuffers: of the released buffers, those not active.      *)
CollectableUnreleased(free, live) == buffers \ live \* defect
Collectable(free, live) == free \ live

(* LayerConfigure up to CreateBuffers' ClearError.  A size equal to the    *)
(* current one is only acknowledged, unless the last attempt failed.  The  *)
(* compositor sends no configure after closed.                             *)
LayerConfigure(size) ==
  /\ Listening /\ ~compositorClosed
  /\ acked' = size
  /\ IF size = configuredSize /\ ~error
     THEN UNCHANGED <<mailboxVars, completionQueue, drops, callbacks, call, error>>
     ELSE /\ nextGeneration \in Generations /\ WorkLeft
          /\ acceptingFrames' = FALSE
          /\ DiscardPending /\ CountDropped(IdOf(pendingFrame))
          /\ callbacks' = 0
          /\ error' = FALSE /\ call' = "create"
  /\ UNCHANGED <<jsVars, configuredVars, bufferVars, committed, heldShm,
                 heldDmabuf, leases, taken, accepted, presented, stop, closed,
                 compositorClosed, mapped, dmabufUsable, wake, pumped,
                 dmabufImport, dmabufBuffers>>

(* CreateBuffers: the old buffers are deactivated and those the compositor *)
(* has released are freed; the new pair opens the mailbox again and its    *)
(* first, blank buffer is attached.                                        *)
CreateBuffers ==
  /\ call = "create"
  /\ nextGeneration' = nextGeneration + 1
  /\ active' = {nextGeneration} \X {0, 1}
  /\ buffers' = (buffers \ Collectable(released, {})) \cup active'
  /\ released' = {<<nextGeneration, 1>>}
  /\ configuredGeneration' = nextGeneration /\ configuredSize' = acked
  /\ acceptingFrames' = TRUE
  /\ DiscardPending /\ CountDropped(IdOf(pendingFrame))
  /\ heldShm' = heldShm \cup {<<nextGeneration, 0>>}
  /\ Commit(<<nextGeneration, 0>>, 0, acked)
  /\ call' = "none"
  /\ UNCHANGED <<jsVars, acked, heldDmabuf, leases, taken, accepted, presented,
                 stop, closed, compositorClosed, dmabufUsable, wake, error, dispatch,
                 pumped, dmabufImport, dmabufBuffers>>

(* ... or it fails: the size is too large for wl_shm (before a generation  *)
(* is used up) or an allocation fails (after).  The mailbox stays shut.    *)
CreateBuffersFails ==
  /\ call = "create"
  /\ error' = TRUE
  /\ nextGeneration' \in {nextGeneration, nextGeneration + 1}
  /\ call' = "none"
  /\ UNCHANGED <<jsVars, mailboxVars, configuredVars, buffers, active,
                 released, compositorVars, leaseVars, countVars, stop, closed,
                 compositorClosed, mapped, dmabufUsable, wake, dispatch,
                 pumped, dmabufImport, dmabufBuffers, callbacks>>

(* LayerClosed and HandleDisplayFailure shut the surface down alike.       *)
ShutSurface ==
  /\ compositorClosed' = TRUE /\ mapped' = FALSE
  /\ acceptingFrames' = FALSE /\ DiscardPending

LayerClosed ==
  /\ Listening /\ ~compositorClosed
  /\ ShutSurface
  /\ UNCHANGED <<jsVars, configuredVars, bufferVars, compositorVars, leases,
                 taken, countVars, stop, closed, dmabufUsable, wake, error,
                 call, pumped, dmabufImport, dmabufBuffers, callbacks>>

FrameDone ==
  /\ Listening /\ callbacks > 0
  /\ callbacks' = callbacks - 1
  /\ call' = IF stop \/ compositorClosed THEN "none" ELSE "pump"
  /\ UNCHANGED <<jsVars, mailboxVars, configuredVars, bufferVars,
                 compositorVars, leaseVars, countVars, flagVars, pumped,
                 dmabufImport, dmabufBuffers>>

(* BufferRelease with CollectReleasedBuffers.                              *)
BufferRelease(b) ==
  /\ Listening /\ b \in heldShm \cap buffers
  /\ heldShm' = heldShm \ {b}
  /\ LET free == released \cup {b} IN
       /\ buffers' = buffers \ Collectable(free, active)
       /\ released' = free \ Collectable(free, active)
  /\ call' = "pump"
  /\ UNCHANGED <<jsVars, mailboxVars, configuredVars, active, nextGeneration,
                 acked, committed, heldDmabuf, leaseVars, countVars, flagVars,
                 pumped, dmabufImport, dmabufBuffers, callbacks>>

DmabufReleaseInOrder(f) == \* defect: takes older buffers for released too
  /\ Listening /\ f \in heldDmabuf
  /\ heldDmabuf' = heldDmabuf \ {f}
  /\ dmabufBuffers' = {g \in dmabufBuffers : g > f}
  /\ Complete({g \in dmabufBuffers : g <= f})
  /\ call' = "pump"
  /\ UNCHANGED <<jsVars, mailboxVars, configuredVars, bufferVars, acked,
                 committed, heldShm, leases, taken, countVars, flagVars,
                 pumped, dmabufImport, callbacks>>
DmabufBufferRelease(f) ==
  /\ Listening /\ f \in heldDmabuf
  /\ heldDmabuf' = heldDmabuf \ {f}
  /\ dmabufBuffers' = dmabufBuffers \ {f}
  /\ Complete({f})
  /\ call' = "pump"
  /\ UNCHANGED <<jsVars, mailboxVars, configuredVars, bufferVars, acked,
                 committed, heldShm, leases, taken, countVars, flagVars,
                 pumped, dmabufImport, callbacks>>

(* The import's answer is for the frame the surface still wants.           *)
ImportMatches == Matches(dmabufImport) \* defect: only the generation counts
ImportIsCurrent ==
  /\ acceptingFrames /\ ~stop /\ ~compositorClosed
  /\ Matches(dmabufImport)

DmabufCreated ==
  /\ Listening /\ dmabufImport # NoFrame
  /\ dmabufImport' = NoFrame
  /\ IF ImportIsCurrent
     THEN /\ dmabufBuffers' = dmabufBuffers \cup {dmabufImport.id}
          /\ heldDmabuf' = heldDmabuf \cup {dmabufImport.id}
          /\ Commit(NoBuffer, dmabufImport.id, dmabufImport.size)
          /\ presented' = presented \cup {dmabufImport.id}
          /\ UNCHANGED <<drops, completionQueue, call>>
     ELSE /\ CountDropped({dmabufImport.id}) /\ Complete({dmabufImport.id})
          /\ call' = "pump"
          /\ UNCHANGED <<dmabufBuffers, heldDmabuf, committed, callbacks,
                         mapped, presented>>
  /\ UNCHANGED <<jsVars, mailboxVars, configuredVars, bufferVars, acked,
                 heldShm, leases, taken, accepted, stop, closed,
                 compositorClosed, dmabufUsable, wake, error, pumped>>

(* A failure to import a current frame disables DMA-BUF and drops a        *)
(* pending DMA-BUF frame with it.                                          *)
DmabufFailed ==
  /\ Listening /\ dmabufImport # NoFrame
  /\ dmabufImport' = NoFrame
  /\ LET lost == IF ImportIsCurrent THEN LeaseOf(pendingFrame) ELSE {} IN
       /\ CountDropped({dmabufImport.id} \cup lost)
       /\ Complete({dmabufImport.id} \cup lost)
       /\ pendingFrame' = IF lost = {} THEN pendingFrame ELSE NoFrame
  /\ dmabufUsable' = (dmabufUsable /\ ~ImportIsCurrent)
  /\ call' = "pump"
  /\ UNCHANGED <<jsVars, acceptingFrames, configuredVars, bufferVars,
                 compositorVars, leases, taken, accepted, presented, stop,
                 closed, compositorClosed, mapped, wake, error, pumped,
                 dmabufBuffers, callbacks>>

(* The connection breaks: HandleDisplayFailure, and the loop ends.         *)
DisplayFailure ==
  /\ dispatch \in {"dispatch", "poll"} /\ call = "none"
  /\ heldShm' = {} /\ heldDmabuf' = {}
  /\ error' = TRUE
  /\ ShutSurface
  /\ dispatch' = "destroy"
  /\ UNCHANGED <<jsVars, configuredVars, bufferVars, acked, committed, leases,
                 taken, countVars, stop, closed, dmabufUsable, wake, call,
                 pumped, dmabufImport, dmabufBuffers, callbacks>>

(* wl_display_dispatch fails after stop_: the failure is not recorded.     *)
DisplayFailureIgnored ==
  /\ dispatch = "poll" /\ call = "none" /\ stop
  /\ heldShm' = {} /\ heldDmabuf' = {}
  /\ dispatch' = "destroy"
  /\ UNCHANGED <<jsVars, mailboxVars, configuredVars, bufferVars, acked,
                 committed, leaseVars, countVars, flagVars, call, pumped,
                 dmabufImport, dmabufBuffers, callbacks>>

-----------------------------------------------------------------------------
JavaScript ==
  \/ \E backend \in {"shm", "dmabuf"}, size \in Sizes :
       SubmitRefused(backend, size) \/ SubmitBegin(backend, size)
  \/ SubmitThrows \/ SubmitEnd \/ TakeReleasedDmabufs
  \/ CloseBegin \/ CloseStop \/ CloseJoin

Loop == LoopTop \/ LoopPump \/ PollWake \/ LoopEnd
        \/ DestroyWaylandObjects \/ Disconnect

Pump == PumpNothing \/ PumpDrop \/ PumpTake \/ PresentShm
        \/ StartDmabufImport \/ StartDmabufImportFails

Create == CreateBuffers \/ CreateBuffersFails

Answer == DmabufCreated \/ DmabufFailed

Events ==
  \/ \E size \in Sizes : LayerConfigure(size)
  \/ LayerClosed \/ FrameDone \/ Answer
  \/ DisplayFailure \/ DisplayFailureIgnored
  \/ \E b \in ShmBuffers : BufferRelease(b)
  \/ \E f \in Frames : DmabufBufferRelease(f)

(* Everything is shut, nothing is left to do.                              *)
Terminated == js = "closed" /\ UNCHANGED vars

Next == JavaScript \/ Loop \/ Pump \/ Create \/ Events \/ Terminated

Spec == Init /\ [][Next]_vars

(* Both threads keep running, and a call of wl_display_dispatch handles a  *)
(* finite batch of events (SF).  The compositor sends the frame callback,  *)
(* answers an import, and releases a buffer that is no longer the          *)
(* surface's; the connection is a FIFO every turn of the loop reads, so    *)
(* other events do not hold such an event up for ever (SF).  Nothing makes *)
(* JavaScript submit or close.                                             *)
ReleaseReplaced ==
  \E b \in ShmBuffers : committed.buffer # b /\ BufferRelease(b)
Fairness ==
  /\ SF_vars(Loop) /\ WF_vars(Pump) /\ WF_vars(Create)
  /\ WF_vars(SubmitThrows \/ SubmitEnd) /\ WF_vars(CloseStop) /\ WF_vars(CloseJoin)
  /\ SF_vars(FrameDone) /\ SF_vars(Answer)
  /\ SF_vars(ReleaseReplaced)

FairSpec == Spec /\ Fairness

-----------------------------------------------------------------------------
(* Every variable has its type.  Generations stay within those created     *)
(* (the generation of a frame indexes configured buffers), ids within      *)
(* those JavaScript used.                                                  *)
TypeOK ==
  /\ js \in {"idle", "submitting", "closing", "joining", "closed"}
  /\ dispatch \in {"top", "dispatch", "poll", "events", "drain", "destroy",
                   "disconnect", "ended"}
  /\ call \in {"none", "pump", "present", "create"}
  /\ submission \in FrameRecords \cup {NoFrame}
  /\ pendingFrame \in FrameRecords \cup {NoFrame}
  /\ pumped \in FrameRecords \cup {NoFrame}
  /\ dmabufImport \in FrameRecords \cup {NoFrame}
  /\ nextFrame \in 1 .. MaxFrames + 1
  /\ nextGeneration \in 2 .. MaxGenerations + 1
  /\ configuredGeneration \in Generations
  /\ configuredSize \in Sizes /\ acked \in Sizes
  /\ acceptingFrames \in BOOLEAN /\ stop \in BOOLEAN /\ closed \in BOOLEAN
  /\ compositorClosed \in BOOLEAN /\ mapped \in BOOLEAN
  /\ dmabufUsable \in BOOLEAN /\ wake \in BOOLEAN /\ error \in BOOLEAN
  /\ buffers \subseteq ShmBuffers /\ active \subseteq buffers
  /\ released \subseteq buffers /\ heldShm \subseteq ShmBuffers
  /\ dmabufBuffers \subseteq Frames /\ heldDmabuf \subseteq Frames
  /\ leases \subseteq Frames /\ accepted \subseteq Frames /\ presented \subseteq Frames
  /\ completionQueue \in [Frames -> Nat] /\ taken \in [Frames -> Nat]
  /\ drops \in [Frames -> Nat] /\ callbacks \in Nat
  /\ committed \in [buffer: ShmBuffers \cup {NoBuffer}, frame: 0 .. MaxFrames, size: Sizes]

(* DmabufLease (lines 69-79): from the moment it is made, a lease is in    *)
(* exactly one place - in JavaScript's hands, the mailbox, PumpFrame, the  *)
(* import, an attached buffer, the completion queue, or handed back - so   *)
(* no id is lost and none is completed twice, whatever drops its frame.    *)
LeaseExactlyOnce ==
  \A f \in Frames :
    Count(f \in LeaseOf(submission)) + Count(f \in LeaseOf(pendingFrame))
      + Count(f \in LeaseOf(pumped)) + Count(f \in LeaseOf(dmabufImport))
      + Count(f \in dmabufBuffers) + completionQueue[f] + taken[f]
    = Count(f \in leases)

(* An id takeReleasedDmabufs has returned lets the caller give the texture *)
(* back to Electron, so the compositor no longer reads that buffer.        *)
ReturnedIsNotHeld == \A f \in heldDmabuf : taken[f] = 0

(* Until the connection is being torn down, CollectReleasedBuffers frees   *)
(* no memory the compositor may still read, and a buffer the compositor    *)
(* reads never counts as released.                                         *)
HeldBuffersLive ==
  dispatch \notin {"disconnect", "ended"} =>
    heldShm \subseteq buffers \ released /\ heldDmabuf \subseteq dmabufBuffers

(* One wl_surface_frame callback at a time: frameCallback_ is never        *)
(* overwritten while the object it names is alive (AttachFrame and         *)
(* AttachDmabuf do not look).                                              *)
OneFrameCallback == callbacks <= 1

(* droppedFrameCount_ and frameCount_ never count a frame twice between    *)
(* them, and while the surface is up every frame of submittedFrameCount_   *)
(* is counted or still on its way.                                         *)
FrameAccounting ==
  \A f \in Frames :
    LET counted == drops[f] + Count(f \in presented)
        travelling == Count(f \in IdOf(pendingFrame)) + Count(f \in IdOf(pumped))
                        + Count(f \in IdOf(dmabufImport))
    IN /\ counted + travelling <= 1
       /\ f \in accepted /\ ~stop /\ ~compositorClosed => counted + travelling = 1

(* When close() has returned nothing is left: the surface is not mapped,   *)
(* no frame, buffer or callback exists, and every lease ever made is in    *)
(* the completion queue or was handed back.                                *)
CloseReleasesAll ==
  js = "closed" =>
    /\ ~mapped /\ callbacks = 0
    /\ {pendingFrame, pumped, dmabufImport} = {NoFrame}
    /\ buffers = {} /\ dmabufBuffers = {} /\ heldShm = {} /\ heldDmabuf = {}
    /\ \A f \in leases : completionQueue[f] + taken[f] = 1

(* PumpFrame writes pixels into, and AttachFrame attaches, only a buffer   *)
(* the compositor has let go of.                                           *)
NoTornFrame ==
  [][committed' # committed =>
       IF committed'.buffer = NoBuffer THEN committed'.frame \notin heldDmabuf
                                       ELSE committed'.buffer \notin heldShm]_vars

(* Every commit after ack_configure has the size acknowledged last, also   *)
(* when the buffers of that size could not be created; and after           *)
(* LayerClosed or a display failure there is none, not even by an import   *)
(* answered late.                                                          *)
CommitMatchesAck ==
  [][committed' # committed => committed'.size = acked /\ ~compositorClosed]_vars

(* A frame never reaches the surface after a newer one: neither the        *)
(* mailbox nor an import under way can be overtaken.                       *)
NewestWins == [][\A f \in presented' \ presented : \A g \in presented : g < f]_vars

(* No wake-up is lost.  Asleep in poll with the eventfd drained, the       *)
(* dispatch thread has not been told to stop; and if a frame is in the     *)
(* mailbox, the surface is up and an event is owed that will pump it: the  *)
(* frame callback, the answer to an import, or - both buffers being read - *)
(* the release of the one that is no longer the surface's.                 *)
NoLostWakeup ==
  dispatch = "poll" /\ call = "none" /\ ~wake =>
    /\ ~stop
    /\ pendingFrame # NoFrame =>
         /\ ~compositorClosed
         /\ \/ callbacks > 0
            \/ dmabufImport # NoFrame
            \/ /\ pendingFrame.backend = "shm"
               /\ \E b \in heldShm \cap buffers : committed.buffer # b

(* A frame in the mailbox does not stay there while the compositor is      *)
(* responsive: it is taken, dropped or replaced, and no wake-up is lost    *)
(* between submitFrame and DispatchLoop's poll.                            *)
PendingFrameMoves ==
  \A f \in Frames : f \in IdOf(pendingFrame) ~> f \notin IdOf(pendingFrame)

(* close() returns: the dispatch thread leaves its poll and is joined.     *)
CloseReturns == js = "closing" ~> js = "closed"
=============================================================================
