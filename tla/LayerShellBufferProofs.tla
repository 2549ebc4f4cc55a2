------------------------ MODULE LayerShellBufferProofs -----------------------
(***************************************************************************)
(* What the surface shows: the buffers the compositor reads stay alive and *)
(* untouched, commits are paced and have the size acknowledged last, and   *)
(* nothing is committed once the surface is closed; and the dispatch       *)
(* thread does not sleep through a frame or a close().  For every value of *)
(* LayerShellController's constants.                                       *)
(***************************************************************************)
EXTENDS LayerShellProofs

Travelling == {submission, pendingFrame, pumped, dmabufImport} \ {NoFrame}

(* A generation is used up before its number is known to anything.         *)
Generational ==
  /\ configuredGeneration < nextGeneration
  /\ \A frame \in Travelling : frame.generation < nextGeneration
  /\ \A b \in buffers : b[1] < nextGeneration

(* Whoever is about to commit has no frame callback of an earlier commit:  *)
(* PumpFrame by its test, CreateBuffers because LayerConfigure destroyed   *)
(* it, an import that is still wanted because PumpFrame commits nothing    *)
(* while it is under way.                                                  *)
Paced ==
  /\ callbacks <= 1
  /\ call \in {"present", "create"} => callbacks = 0 /\ ~compositorClosed
  /\ dmabufImport # NoFrame /\ dmabufImport.generation = configuredGeneration =>
       callbacks = 0

(* While the mailbox is open the configured size is the acknowledged one;  *)
(* the mailbox is empty while it is shut.                                  *)
Acknowledged ==
  /\ acceptingFrames \/ call = "present" => acked = configuredSize
  /\ pendingFrame # NoFrame => acceptingFrames
  /\ call = "create" => ~acceptingFrames /\ ~error

BufferInv == Generational /\ Paced /\ Acknowledged /\ HeldBuffersLive

-----------------------------------------------------------------------------
(* Which steps write what the invariants are about.                        *)
Writers ==
  /\ UNCHANGED <<configuredGeneration, configuredSize>> \/ CreateBuffers
  /\ UNCHANGED nextGeneration \/ CreateBuffers \/ CreateBuffersFails
  /\ buffers' \subseteq buffers \/ CreateBuffers
  /\ \/ UNCHANGED <<heldShm, buffers, released>>
     \/ PresentShm \/ CreateBuffers \/ DestroyWaylandObjects \/ Disconnect
     \/ DisplayFailure \/ DisplayFailureIgnored
     \/ \E b \in ShmBuffers : BufferRelease(b)
  /\ dispatch \in {"disconnect", "ended"} => dispatch' \in {"disconnect", "ended"}
  /\ \/ Travelling' \subseteq Travelling
     \/ \E backend \in {"shm", "dmabuf"}, size \in Sizes : SubmitBegin(backend, size)
  /\ pendingFrame' \in {pendingFrame, NoFrame} \/ SubmitEnd
  /\ dmabufImport' \in {dmabufImport, NoFrame} \/ StartDmabufImport
  /\ UNCHANGED callbacks \/ callbacks' = 0 \/ FrameDone \/ PresentShm
       \/ CreateBuffers \/ DmabufCreated
  /\ UNCHANGED compositorClosed \/ (compositorClosed' /\ call' = "none")
  /\ \/ UNCHANGED call \/ call' \in {"none", "pump"} \/ PumpTake
     \/ \E size \in Sizes : LayerConfigure(size)
  /\ UNCHANGED acked \/ \E size \in Sizes : LayerConfigure(size)
  /\ UNCHANGED acceptingFrames \/ (~acceptingFrames' /\ pendingFrame' = NoFrame)
       \/ CreateBuffers
  /\ UNCHANGED error \/ call' # "create" \/ \E size \in Sizes : LayerConfigure(size)
  /\ UNCHANGED committed \/ PresentShm \/ CreateBuffers \/ DmabufCreated

LEMMA StepWriters == TypeOK /\ Control /\ [Next]_vars => Writers
<1> SUFFICES ASSUME TypeOK, Control, [Next]_vars PROVE Writers
  OBVIOUS
<1> USE DEF vars, jsVars, mailboxVars, configuredVars, bufferVars,
            compositorVars, leaseVars, countVars, flagVars, threadVars
<1>1. CASE JavaScript
  <2>1. ASSUME NEW backend \in {"shm", "dmabuf"}, NEW size \in Sizes,
               SubmitRefused(backend, size) PROVE Writers
    BY <2>1 DEF SubmitRefused, Writers, Travelling
  <2>2. ASSUME NEW backend \in {"shm", "dmabuf"}, NEW size \in Sizes,
               SubmitBegin(backend, size) PROVE Writers
    <3>1. \E b \in {"shm", "dmabuf"}, s \in Sizes : SubmitBegin(b, s)
      BY <2>2
    <3> QED
      BY <2>2, <3>1 DEF SubmitBegin, Writers
  <2>3. CASE SubmitEnd
    BY <2>3 DEF SubmitEnd, Writers, Travelling
  <2>4. CASE SubmitThrows \/ TakeReleasedDmabufs \/ CloseBegin \/ CloseStop \/ CloseJoin
    BY <2>4 DEF SubmitThrows, TakeReleasedDmabufs, CloseBegin, CloseStop, CloseJoin,
       DiscardPending, Writers, Travelling
  <2> QED
    BY <1>1, <2>1, <2>2, <2>3, <2>4 DEF JavaScript
<1>2. CASE Loop
  BY <1>2 DEF Loop, LoopTop, LoopPump, PollWake, LoopEnd, DestroyWaylandObjects,
     Disconnect, Writers, Travelling, Control
<1>3. CASE Pump
  BY <1>3 DEF Pump, PumpNothing, PumpDrop, DiscardPending, PumpTake, PresentShm,
     StartDmabufImport, StartDmabufImportFails, Writers, Travelling
<1>4. CASE Create
  BY <1>4 DEF Create, CreateBuffers, CreateBuffersFails, DiscardPending, Writers, Travelling
<1>5. CASE Events
  BY <1>5 DEF Events, LayerConfigure, LayerClosed, FrameDone, Answer, DmabufCreated,
     DmabufFailed, DisplayFailure, DisplayFailureIgnored, BufferRelease,
     DmabufBufferRelease, ShutSurface, DiscardPending, Listening, Writers, Travelling
<1>6. CASE UNCHANGED vars
  BY <1>6 DEF Writers, Travelling
<1> QED
  BY <1>1, <1>2, <1>3, <1>4, <1>5, <1>6 DEF Next, Terminated

-----------------------------------------------------------------------------
(* The state Initialize leaves: one blank commit, its callback under way.  *)
LEMMA InitBuffers == Init => BufferInv
BY DEF Init, BufferInv, Generational, Paced, Acknowledged, HeldBuffersLive, Travelling

LEMMA StepGenerational ==
  TypeOK /\ Control /\ Generational /\ [Next]_vars => Generational'
<1> SUFFICES ASSUME TypeOK, Control, Generational, [Next]_vars PROVE Generational'
  OBVIOUS
<1> USE DEF vars, jsVars, mailboxVars, configuredVars, bufferVars,
            compositorVars, leaseVars, countVars, flagVars, threadVars
<1>1. Writers
  BY StepWriters
<1>2. nextGeneration \in Nat /\ configuredGeneration \in Nat
  BY DEF TypeOK, Generations
<1>3. CASE CreateBuffers
  <2>1. /\ configuredGeneration' = nextGeneration /\ nextGeneration' = nextGeneration + 1
        /\ Travelling' \subseteq Travelling
        /\ buffers' \subseteq buffers \cup ({nextGeneration} \X {0, 1})
    BY <1>3 DEF CreateBuffers, DiscardPending, Travelling
  <2>2. \A b \in buffers : b[1] \in Nat
    BY DEF TypeOK, ShmBuffers, Generations
  <2>3. \A frame \in Travelling : frame.generation \in Nat
    BY FrameType DEF TypeOK, Travelling, Generations
  <2>4. \A b \in buffers' : b[1] < nextGeneration'
    BY <1>2, <2>1, <2>2 DEF Generational
  <2> QED
    BY <1>2, <2>1, <2>3, <2>4 DEF Generational
<1>4. CASE CreateBuffersFails
  <2>1. UNCHANGED <<configuredGeneration, buffers, Travelling>>
    BY <1>4 DEF CreateBuffersFails, Travelling
  <2>2. nextGeneration' \in {nextGeneration, nextGeneration + 1}
    BY <1>4 DEF CreateBuffersFails
  <2>3. \A frame \in Travelling : frame.generation \in Nat
    BY FrameType DEF TypeOK, Travelling, Generations
  <2>4. \A b \in buffers : b[1] \in Nat
    BY DEF TypeOK, ShmBuffers, Generations
  <2> QED
    BY <1>2, <2>1, <2>2, <2>3, <2>4 DEF Generational
<1>5. ASSUME NEW backend \in {"shm", "dmabuf"}, NEW size \in Sizes,
             SubmitBegin(backend, size) PROVE Generational'
  <2>1. submission'.generation = configuredGeneration
    BY <1>5 DEF SubmitBegin, NewFrame
  <2> QED
    BY <1>5, <2>1 DEF SubmitBegin, Generational, Travelling
<1>6. CASE /\ Travelling' \subseteq Travelling /\ ~CreateBuffers /\ ~CreateBuffersFails
  BY <1>1, <1>6 DEF Writers, Generational
<1> QED
  BY <1>1, <1>3, <1>4, <1>5, <1>6 DEF Writers

LEMMA StepPaced ==
  TypeOK /\ Control /\ LeaseInv /\ BufferInv /\ [Next]_vars => Paced'
<1> SUFFICES ASSUME TypeOK, Control, LeaseInv, BufferInv, [Next]_vars PROVE Paced'
  OBVIOUS
<1> USE DEF vars, jsVars, mailboxVars, configuredVars, bufferVars,
            compositorVars, leaseVars, countVars, flagVars, threadVars
<1>1. Writers
  BY StepWriters
<1>2. Paced /\ Generational /\ callbacks \in Nat /\ Imports
  BY DEF BufferInv, TypeOK, LeaseInv, LeaseControl
<1>3. CASE CreateBuffers
  <2>1. /\ callbacks = 0 /\ callbacks' = callbacks + 1 /\ call' = "none"
        /\ configuredGeneration' = nextGeneration /\ dmabufImport' = dmabufImport
    BY <1>2, <1>3 DEF CreateBuffers, Commit, Paced
  <2>2. dmabufImport # NoFrame => dmabufImport.generation # nextGeneration
    BY <1>2, FrameType DEF Generational, Travelling, TypeOK, Generations
  <2> QED
    BY <2>1, <2>2 DEF Paced
<1>4. CASE PresentShm
  BY <1>2, <1>4 DEF PresentShm, Commit, Paced, Imports
<1>5. CASE DmabufCreated
  BY <1>2, <1>5 DEF DmabufCreated, ImportIsCurrent, Matches, Commit, Listening, Paced
<1>6. CASE FrameDone
  BY <1>2, <1>6 DEF FrameDone, Listening, Paced
<1>7. CASE StartDmabufImport
  BY <1>2, <1>7 DEF StartDmabufImport, Paced
<1>8. CASE PumpTake
  BY <1>2, <1>8 DEF PumpTake, Pumpable, Paced
<1>9. ASSUME NEW size \in Sizes, LayerConfigure(size) PROVE Paced'
  BY <1>2, <1>9 DEF LayerConfigure, Listening, Paced
<1>10. CASE /\ UNCHANGED <<configuredGeneration, configuredSize>>
            /\ dmabufImport' \in {dmabufImport, NoFrame}
            /\ UNCHANGED callbacks \/ callbacks' = 0
            /\ UNCHANGED call \/ call' \in {"none", "pump"}
  BY <1>1, <1>2, <1>10 DEF Writers, Paced
<1> QED
  BY <1>1, <1>3, <1>4, <1>5, <1>6, <1>7, <1>8, <1>9, <1>10 DEF Writers

LEMMA StepAcknowledged ==
  TypeOK /\ Control /\ LeaseInv /\ BufferInv /\ [Next]_vars => Acknowledged'
<1> SUFFICES ASSUME TypeOK, Control, LeaseInv, BufferInv, [Next]_vars PROVE Acknowledged'
  OBVIOUS
<1> USE DEF vars, jsVars, mailboxVars, configuredVars, bufferVars,
            compositorVars, leaseVars, countVars, flagVars, threadVars
<1>1. Writers
  BY StepWriters
<1>2. Acknowledged
  BY DEF BufferInv
<1>3. CASE CreateBuffers
  BY <1>2, <1>3 DEF CreateBuffers, DiscardPending, Acknowledged
<1>4. CASE PumpTake
  BY <1>2, <1>4 DEF PumpTake, Pumpable, Acknowledged
<1>5. ASSUME NEW size \in Sizes, LayerConfigure(size) PROVE Acknowledged'
  BY <1>2, <1>5 DEF LayerConfigure, Listening, DiscardPending, Acknowledged
<1>6. CASE SubmitEnd
  BY <1>2, <1>6 DEF SubmitEnd, Refused, Acknowledged
<1>7. CASE /\ UNCHANGED <<configuredGeneration, configuredSize, acked>>
           /\ UNCHANGED acceptingFrames \/ (~acceptingFrames' /\ pendingFrame' = NoFrame)
           /\ pendingFrame' \in {pendingFrame, NoFrame}
           /\ UNCHANGED call \/ call' \in {"none", "pump"}
           /\ UNCHANGED error \/ call' # "create"
  BY <1>2, <1>7 DEF Acknowledged
<1> QED
  BY <1>1, <1>3, <1>4, <1>5, <1>6, <1>7 DEF Writers

LEMMA StepHeldBuffers ==
  TypeOK /\ Control /\ LeaseInv /\ BufferInv /\ [Next]_vars => HeldBuffersLive'
<1> SUFFICES ASSUME TypeOK, Control, LeaseInv, BufferInv, [Next]_vars
             PROVE  HeldBuffersLive'
  OBVIOUS
<1> USE DEF vars, jsVars, mailboxVars, configuredVars, bufferVars,
            compositorVars, leaseVars, countVars, flagVars, threadVars
<1>1. HeldBuffersLive /\ Generational /\ nextGeneration \in Nat
  BY DEF BufferInv, TypeOK
<1>2. HeldDmabufLive'
  BY StepLeaseControl DEF LeaseControl
<1>3. SUFFICES dispatch' \notin {"disconnect", "ended"} => heldShm' \subseteq buffers' \ released'
  BY <1>2 DEF HeldBuffersLive, HeldDmabufLive
<1>4. CASE CreateBuffers
  <2>1. dispatch \notin {"disconnect", "ended"} /\ call = "create"
    BY <1>4 DEF CreateBuffers, Control
  <2>2. \A b \in buffers : b # <<nextGeneration, 1>>
    BY <1>1 DEF Generational
  <2> QED
    BY <1>1, <1>4, <2>1, <2>2 DEF CreateBuffers, Collectable, HeldBuffersLive
<1>5. CASE PresentShm
  BY <1>1, <1>5 DEF PresentShm, Available, HeldBuffersLive, TypeOK
<1>6. ASSUME NEW b \in ShmBuffers, BufferRelease(b)
      PROVE  heldShm' \subseteq buffers' \ released'
  BY <1>1, <1>6 DEF BufferRelease, Listening, Collectable, HeldBuffersLive
<1>7. CASE DestroyWaylandObjects \/ Disconnect \/ DisplayFailure \/ DisplayFailureIgnored
  BY <1>7 DEF DestroyWaylandObjects, Disconnect, DisplayFailure, DisplayFailureIgnored
<1>8. CASE UNCHANGED <<heldShm, buffers, released>>
  <2>1. dispatch \in {"disconnect", "ended"} => dispatch' \in {"disconnect", "ended"}
    BY StepWriters DEF Writers
  <2> QED
    BY <1>1, <1>8, <2>1 DEF HeldBuffersLive
<1> QED
  BY <1>4, <1>5, <1>6, <1>7, <1>8, StepWriters DEF Writers

LEMMA BufferInvariant == Spec => [](TypeOK /\ Control /\ LeaseInv /\ BufferInv)
<1>1. Init => BufferInv
  BY InitBuffers
<1>2. TypeOK /\ Control /\ LeaseInv /\ BufferInv /\ [Next]_vars => BufferInv'
  BY StepGenerational, StepPaced, StepAcknowledged, StepHeldBuffers DEF BufferInv
<1> QED
  BY <1>1, <1>2, LeaseInvariant, PTL DEF Spec

(* For any number of generations and sizes: while the connection stands,   *)
(* CreateBuffers and CollectReleasedBuffers free no memory the compositor  *)
(* may still read.                                                         *)
THEOREM HeldBuffers == Spec => []HeldBuffersLive
<1>1. BufferInv => HeldBuffersLive
  BY DEF BufferInv
<1> QED
  BY <1>1, BufferInvariant, PTL

(* No frame callback is overwritten while it is alive, whichever of        *)
(* PumpFrame, CreateBuffers and an import's answer commits.                *)
THEOREM OneCallback == Spec => []OneFrameCallback
<1>1. BufferInv => OneFrameCallback
  BY DEF BufferInv, Paced, OneFrameCallback
<1> QED
  BY <1>1, BufferInvariant, PTL

-----------------------------------------------------------------------------
(* What is committed, step by step.                                        *)

(* The compositor is never given a buffer it is reading already.           *)
THEOREM NoTorn == Spec => NoTornFrame
<1>1. ASSUME TypeOK, Control, LeaseInv, BufferInv, [Next]_vars, committed' # committed
      PROVE  IF committed'.buffer = NoBuffer THEN committed'.frame \notin heldDmabuf
                                             ELSE committed'.buffer \notin heldShm
  <2>1. HeldBuffersLive /\ Generational /\ LeaseExactlyOnce /\ Imports /\ HeldDmabufLive
    BY <1>1 DEF BufferInv, LeaseInv, LeaseControl
  <2>2. PresentShm \/ CreateBuffers \/ DmabufCreated
    BY <1>1, StepWriters DEF Writers
  <2>3. CASE PresentShm
    <3>1. PICK b \in Available : committed'.buffer = b
      BY <2>3 DEF PresentShm, Commit
    <3>2. b \in released /\ b \in ShmBuffers
      BY <1>1, <3>1 DEF Available, TypeOK
    <3>3. dispatch \notin {"disconnect", "ended"}
      BY <1>1, <2>3 DEF PresentShm, Control
    <3> QED
      BY <2>1, <3>1, <3>2, <3>3 DEF HeldBuffersLive, ShmBuffers, NoBuffer, Generations
  <2>4. CASE CreateBuffers
    <3>1. committed'.buffer = <<nextGeneration, 0>> /\ nextGeneration \in Nat \ {0}
      BY <1>1, <2>4 DEF CreateBuffers, Commit, TypeOK
    <3>2. dispatch \notin {"disconnect", "ended"}
      BY <1>1, <2>4 DEF CreateBuffers, Control
    <3> QED
      BY <2>1, <3>1, <3>2 DEF HeldBuffersLive, Generational, NoBuffer
  <2>5. CASE DmabufCreated
    <3>1. /\ committed'.buffer = NoBuffer /\ committed'.frame = dmabufImport.id
          /\ dmabufImport # NoFrame /\ dispatch \notin {"disconnect", "ended"}
      BY <1>1, <2>5 DEF DmabufCreated, Listening, Commit
    <3>2. dmabufImport.id \in Frames /\ LeaseOf(dmabufImport) = {dmabufImport.id}
      BY <1>1, <2>1, <3>1, FrameType DEF TypeOK, Imports, LeaseOf
    <3>3. dmabufImport.id \notin dmabufBuffers
      BY <1>1, <2>1, <3>2 DEF LeaseExactlyOnce, Count, TypeOK
    <3> QED
      BY <2>1, <3>1, <3>3 DEF HeldDmabufLive
  <2> QED
    BY <2>2, <2>3, <2>4, <2>5
<1> QED
  BY <1>1, BufferInvariant, PTL DEF Spec, NoTornFrame

(* The size committed is the one acknowledged last, through any sequence   *)
(* of configures, failures to create buffers and late imports; and once    *)
(* the compositor has closed the surface, or the connection broke, nothing *)
(* is committed any more.                                                  *)
THEOREM CommitsAcknowledged == Spec => CommitMatchesAck
<1>1. ASSUME TypeOK, Control, LeaseInv, BufferInv, [Next]_vars, committed' # committed
      PROVE  committed'.size = acked /\ ~compositorClosed
  <2>1. Acknowledged /\ Paced
    BY <1>1 DEF BufferInv
  <2>2. PresentShm \/ CreateBuffers \/ DmabufCreated
    BY <1>1, StepWriters DEF Writers
  <2>3. CASE PresentShm
    BY <2>1, <2>3 DEF PresentShm, Commit, Acknowledged, Paced
  <2>4. CASE CreateBuffers
    BY <2>1, <2>4 DEF CreateBuffers, Commit, Paced
  <2>5. CASE DmabufCreated
    BY <1>1, <2>1, <2>5 DEF DmabufCreated, ImportIsCurrent, Matches, Commit, Acknowledged
  <2> QED
    BY <2>2, <2>3, <2>4, <2>5
<1> QED
  BY <1>1, BufferInvariant, PTL DEF Spec, CommitMatchesAck

-----------------------------------------------------------------------------
(* Going to sleep: what the dispatch thread relies on when it enters poll. *)

(* close() has rung before the loop can reach its poll again.              *)
StopRings == stop /\ dispatch \in {"dispatch", "poll", "events"} => wake

(* While the loop runs, both configured buffers exist, and a buffer that   *)
(* is not released is one the compositor reads.                            *)
BuffersOwed ==
  dispatch \notin {"destroy", "disconnect", "ended"} =>
    /\ active = {configuredGeneration} \X {0, 1}
    /\ buffers \ released \subseteq heldShm

(* An event the compositor owes, at which PumpFrame runs again.            *)
EventOwed ==
  \/ callbacks > 0
  \/ dmabufImport # NoFrame
  \/ pendingFrame.backend = "shm" /\ Available = {}

(* The PumpFrame before poll leaves nothing in the mailbox that it could   *)
(* have presented, and what JavaScript stores afterwards rings.            *)
Pumped ==
  dispatch = "poll" /\ ~wake =>
    /\ call # "create"
    /\ call = "present" => pendingFrame = NoFrame
    /\ call = "none" /\ pendingFrame # NoFrame => EventOwed

WakeInv ==
  StopRings /\ BuffersOwed /\ Pumped /\ (acceptingFrames => ~compositorClosed)

(* Which steps the parts of WakeInv have to be looked at for.              *)
WakeWriters ==
  /\ UNCHANGED dispatch \/ Loop \/ DisplayFailure \/ DisplayFailureIgnored
       \/ (Listening /\ call' \in {"none", "pump", "create"})
  /\ UNCHANGED stop \/ CloseStop
  /\ wake => wake' \/ LoopEnd \/ CloseJoin
  /\ UNCHANGED acceptingFrames \/ ~acceptingFrames' \/ CreateBuffers
  /\ UNCHANGED compositorClosed \/ ~acceptingFrames'
  /\ UNCHANGED <<active, configuredGeneration, buffers, released>>
       \/ PresentShm \/ CreateBuffers \/ DestroyWaylandObjects
       \/ \E b \in ShmBuffers : BufferRelease(b)
  /\ UNCHANGED <<pendingFrame, callbacks, dmabufImport, call>>
       \/ Pump \/ Create \/ SubmitEnd \/ LoopPump \/ DestroyWaylandObjects
       \/ Listening \/ CloseStop \/ DisplayFailure

LEMMA StepWakeWriters == TypeOK /\ Control /\ [Next]_vars => WakeWriters
<1> SUFFICES ASSUME TypeOK, Control, [Next]_vars PROVE WakeWriters
  OBVIOUS
<1> USE DEF vars, jsVars, mailboxVars, configuredVars, bufferVars,
            compositorVars, leaseVars, countVars, flagVars, threadVars
<1>1. CASE JavaScript
  <2>1. ASSUME NEW backend \in {"shm", "dmabuf"}, NEW size \in Sizes,
               SubmitRefused(backend, size) \/ SubmitBegin(backend, size)
        PROVE  WakeWriters
    BY <2>1 DEF SubmitRefused, SubmitBegin, WakeWriters
  <2>2. CASE SubmitEnd
    BY <2>2 DEF SubmitEnd, SignalWake, WakeWriters
  <2>3. CASE SubmitThrows \/ TakeReleasedDmabufs \/ CloseBegin \/ CloseStop \/ CloseJoin
    BY <2>3 DEF SubmitThrows, TakeReleasedDmabufs, CloseBegin, CloseStop, CloseJoin,
       SignalWake, WakeWriters
  <2> QED
    BY <1>1, <2>1, <2>2, <2>3 DEF JavaScript
<1>2. CASE Loop
  BY <1>2 DEF Loop, LoopTop, LoopPump, PollWake, LoopEnd, DestroyWaylandObjects,
     Disconnect, WakeWriters
<1>3. CASE Pump
  BY <1>3 DEF Pump, PumpNothing, PumpDrop, DiscardPending, PumpTake, PresentShm,
     StartDmabufImport, StartDmabufImportFails, WakeWriters
<1>4. CASE Create
  BY <1>4 DEF Create, CreateBuffers, CreateBuffersFails, DiscardPending, WakeWriters
<1>5. CASE Events
  <2>1. Listening \/ DisplayFailure \/ DisplayFailureIgnored
    BY <1>5 DEF Events, LayerConfigure, LayerClosed, FrameDone, Answer, DmabufCreated,
       DmabufFailed, BufferRelease, DmabufBufferRelease
  <2>2. call' \in {"none", "pump", "create"}
    BY <1>5 DEF Events, LayerConfigure, LayerClosed, FrameDone, Answer, DmabufCreated,
       DmabufFailed, BufferRelease, DmabufBufferRelease, DisplayFailure,
       DisplayFailureIgnored, Listening
  <2>3. /\ UNCHANGED <<stop, wake>>
        /\ UNCHANGED acceptingFrames \/ ~acceptingFrames'
        /\ UNCHANGED compositorClosed \/ ~acceptingFrames'
        /\ UNCHANGED <<active, configuredGeneration>>
        /\ UNCHANGED <<buffers, released>> \/ \E b \in ShmBuffers : BufferRelease(b)
    BY <1>5 DEF Events, LayerConfigure, LayerClosed, FrameDone, Answer, DmabufCreated,
       DmabufFailed, BufferRelease, DmabufBufferRelease, DisplayFailure,
       DisplayFailureIgnored, ShutSurface
  <2>4. DisplayFailureIgnored => UNCHANGED <<pendingFrame, callbacks, dmabufImport, call>>
    BY DEF DisplayFailureIgnored
  <2> QED
    BY <2>1, <2>2, <2>3, <2>4 DEF WakeWriters
<1>6. CASE UNCHANGED vars
  BY <1>6 DEF WakeWriters
<1> QED
  BY <1>1, <1>2, <1>3, <1>4, <1>5, <1>6 DEF Next, Terminated

(* Initialize leaves one buffer attached, its callback under way.          *)
LEMMA InitWake == Init => WakeInv
BY DEF Init, WakeInv, StopRings, BuffersOwed, Pumped, EventOwed

LEMMA StepStopRings ==
  TypeOK /\ Control /\ LeaseInv /\ WakeInv /\ [Next]_vars => StopRings'
<1> SUFFICES ASSUME TypeOK, Control, LeaseInv, WakeInv, [Next]_vars PROVE StopRings'
  OBVIOUS
<1>1. WakeWriters /\ StopRings /\ Teardown
  BY StepWakeWriters DEF WakeInv, LeaseInv, LeaseControl
<1>2. CASE CloseStop
  BY <1>2 DEF CloseStop, SignalWake, StopRings
<1>3. CASE CloseJoin
  BY <1>3 DEF CloseJoin, threadVars, StopRings
<1>4. CASE Loop
  <2>1. CASE LoopTop
    BY <2>1 DEF LoopTop, flagVars, StopRings
  <2>2. CASE LoopPump
    BY <1>1, <2>2 DEF LoopPump, flagVars, StopRings
  <2>3. CASE PollWake \/ LoopEnd \/ DestroyWaylandObjects \/ Disconnect
    BY <2>3 DEF PollWake, LoopEnd, DestroyWaylandObjects, Disconnect, StopRings
  <2> QED
    BY <1>4, <2>1, <2>2, <2>3 DEF Loop
<1>5. CASE DisplayFailure \/ DisplayFailureIgnored
  BY <1>5 DEF DisplayFailure, DisplayFailureIgnored, StopRings
<1>6. CASE /\ UNCHANGED dispatch \/ Listening
           /\ UNCHANGED stop /\ (wake => wake')
  BY <1>1, <1>6 DEF Listening, StopRings
<1> QED
  BY <1>1, <1>2, <1>3, <1>4, <1>5, <1>6 DEF WakeWriters, Loop

LEMMA StepBuffersOwed ==
  TypeOK /\ Control /\ WakeInv /\ [Next]_vars => BuffersOwed'
<1> SUFFICES ASSUME TypeOK, Control, WakeInv, [Next]_vars,
                    dispatch' \notin {"destroy", "disconnect", "ended"}
             PROVE  /\ active' = {configuredGeneration'} \X {0, 1}
                    /\ buffers' \ released' \subseteq heldShm'
  BY DEF BuffersOwed
<1> USE DEF vars, jsVars, mailboxVars, configuredVars, bufferVars,
            compositorVars, leaseVars, countVars, flagVars, threadVars
<1>1. WakeWriters /\ Writers
  BY StepWakeWriters, StepWriters
<1>2. dispatch \notin {"destroy", "disconnect", "ended"}
  BY <1>1 DEF WakeWriters, Loop, LoopTop, LoopPump, PollWake, LoopEnd,
     DestroyWaylandObjects, Disconnect, DisplayFailure, DisplayFailureIgnored, Listening
<1>3. /\ active = {configuredGeneration} \X {0, 1}
      /\ buffers \ released \subseteq heldShm
  BY <1>2 DEF WakeInv, BuffersOwed
<1>4. CASE CreateBuffers
  BY <1>3, <1>4 DEF CreateBuffers, Collectable
<1>5. CASE PresentShm
  BY <1>3, <1>5 DEF PresentShm
<1>6. ASSUME NEW b \in ShmBuffers, BufferRelease(b)
      PROVE  /\ active' = {configuredGeneration'} \X {0, 1}
             /\ buffers' \ released' \subseteq heldShm'
  BY <1>3, <1>6 DEF BufferRelease, Collectable
<1>7. CASE DestroyWaylandObjects \/ Disconnect \/ DisplayFailure \/ DisplayFailureIgnored
  BY <1>7 DEF DestroyWaylandObjects, Disconnect, DisplayFailure, DisplayFailureIgnored
<1>8. CASE UNCHANGED <<active, configuredGeneration, buffers, released, heldShm>>
  BY <1>3, <1>8
<1> QED
  BY <1>1, <1>4, <1>5, <1>6, <1>7, <1>8 DEF Writers, WakeWriters

LEMMA StepPumped ==
  TypeOK /\ Control /\ LeaseInv /\ BufferInv /\ WakeInv /\ [Next]_vars => Pumped'
<1> SUFFICES ASSUME TypeOK, Control, LeaseInv, BufferInv, WakeInv, [Next]_vars,
                    dispatch' = "poll", ~wake'
             PROVE  /\ call' # "create"
                    /\ call' = "present" => pendingFrame' = NoFrame
                    /\ call' = "none" /\ pendingFrame' # NoFrame => EventOwed'
  BY DEF Pumped
<1> USE DEF vars, jsVars, mailboxVars, configuredVars, bufferVars,
            compositorVars, leaseVars, countVars, flagVars, threadVars
<1>1. WakeWriters /\ WakeInv /\ Acknowledged
  BY StepWakeWriters DEF BufferInv
<1>2. CASE LoopPump
  BY <1>2 DEF LoopPump
<1>3. ~LoopPump => dispatch = "poll"
  BY <1>1 DEF WakeWriters, Loop, LoopTop, LoopPump, PollWake, LoopEnd,
     DestroyWaylandObjects, Disconnect, DisplayFailure, DisplayFailureIgnored, Listening
<1>4. CASE ~LoopPump
  <2>1. dispatch = "poll" /\ ~wake
    <3>1. wake => LoopEnd \/ CloseJoin
      BY <1>1 DEF WakeWriters
    <3>2. ~LoopEnd /\ ~CloseJoin
      BY <1>3, <1>4 DEF LoopEnd, CloseJoin
    <3> QED
      BY <1>3, <1>4, <3>1, <3>2
  <2>2. /\ call # "create"
        /\ call = "present" => pendingFrame = NoFrame
        /\ call = "none" /\ pendingFrame # NoFrame => EventOwed
        /\ ~stop /\ (pendingFrame # NoFrame => ~compositorClosed)
    BY <1>1, <2>1 DEF WakeInv, Pumped, StopRings, Acknowledged
  <2>3. /\ ~DestroyWaylandObjects /\ ~Listening /\ ~CloseStop
        /\ ~DisplayFailure /\ ~Create
    BY <2>1, <2>2 DEF DestroyWaylandObjects, Listening, CloseStop, SignalWake,
       DisplayFailure, Create, CreateBuffers, CreateBuffersFails
  <2>4. CASE Pump
    <3>1. CASE PumpNothing
      <4>1. pendingFrame # NoFrame => EventOwed
        BY <2>2, <3>1 DEF PumpNothing, Pumpable, EventOwed, TypeOK
      <4> QED
        BY <3>1, <4>1 DEF PumpNothing, EventOwed, Available
    <3>2. CASE PumpDrop
      BY <3>2 DEF PumpDrop, DiscardPending
    <3>3. CASE PumpTake
      BY <3>3 DEF PumpTake
    <3>4. CASE PresentShm \/ StartDmabufImport \/ StartDmabufImportFails
      BY <2>2, <3>4 DEF PresentShm, StartDmabufImport, StartDmabufImportFails
    <3> QED
      BY <2>4, <3>1, <3>2, <3>3, <3>4 DEF Pump
  <2>5. CASE UNCHANGED <<pendingFrame, callbacks, dmabufImport, call>>
    <3>1. UNCHANGED <<active, released, configuredGeneration>> \/ PresentShm
            \/ CreateBuffers \/ DestroyWaylandObjects \/ Listening
      BY <1>1 DEF WakeWriters, BufferRelease
    <3>2. ~PresentShm /\ ~CreateBuffers /\ ~DestroyWaylandObjects /\ ~Listening
      BY <2>1, <2>5 DEF PresentShm, CreateBuffers, DestroyWaylandObjects, Listening
    <3> QED
      BY <2>2, <2>5, <3>1, <3>2 DEF EventOwed, Available
  <2>6. SubmitEnd => UNCHANGED <<pendingFrame, callbacks, dmabufImport, call>>
    BY DEF SubmitEnd, SignalWake
  <2> QED
    BY <1>1, <1>4, <2>3, <2>4, <2>5, <2>6 DEF WakeWriters
<1> QED
  BY <1>2, <1>4

LEMMA WakeInvariant ==
  Spec => [](TypeOK /\ Control /\ LeaseInv /\ BufferInv /\ WakeInv)
<1>1. Init => WakeInv
  BY InitWake
<1>2. ASSUME TypeOK, Control, BufferInv, WakeInv, [Next]_vars, acceptingFrames'
      PROVE  ~compositorClosed'
  <2>1. CreateBuffers => ~compositorClosed /\ UNCHANGED compositorClosed
    BY <1>2 DEF CreateBuffers, BufferInv, Paced
  <2> QED
    BY <1>2, <2>1, StepWakeWriters DEF WakeWriters, WakeInv
<1>3. TypeOK /\ Control /\ LeaseInv /\ BufferInv /\ WakeInv /\ [Next]_vars => WakeInv'
  BY <1>2, StepStopRings, StepBuffersOwed, StepPumped DEF WakeInv
<1> QED
  BY <1>1, <1>3, BufferInvariant, PTL DEF Spec

(* A sleeping dispatch thread is owed an event for the frame that waits:   *)
(* what PendingFrameMoves and CloseReturns rest on.                        *)
THEOREM NoWakeupLost == Spec => []NoLostWakeup
<1>1. TypeOK /\ Control /\ LeaseInv /\ BufferInv /\ WakeInv => NoLostWakeup
  <2> SUFFICES ASSUME TypeOK, BufferInv, WakeInv, dispatch = "poll", call = "none", ~wake
               PROVE  /\ ~stop
                      /\ pendingFrame # NoFrame =>
                           /\ ~compositorClosed
                           /\ \/ callbacks > 0
                              \/ dmabufImport # NoFrame
                              \/ /\ pendingFrame.backend = "shm"
                                 /\ \E b \in heldShm \cap buffers : committed.buffer # b
    BY DEF NoLostWakeup
  <2>1. ~stop /\ (pendingFrame # NoFrame => ~compositorClosed)
    BY DEF WakeInv, StopRings, BufferInv, Acknowledged
  <2>2. ASSUME Available = {} PROVE \E b \in heldShm \cap buffers : committed.buffer # b
    <3>1. /\ active = {configuredGeneration} \X {0, 1}
          /\ buffers \ released \subseteq heldShm /\ active \subseteq buffers
      BY DEF WakeInv, BuffersOwed, TypeOK
    <3>2. active \subseteq heldShm \cap buffers
      BY <2>2, <3>1 DEF Available
    <3>3. <<configuredGeneration, 0>> \in active /\ <<configuredGeneration, 1>> \in active
      BY <3>1
    <3>4. <<configuredGeneration, 0>> # <<configuredGeneration, 1>>
      OBVIOUS
    <3> QED
      BY <3>2, <3>3, <3>4
  <2>3. pendingFrame # NoFrame => EventOwed
    BY DEF WakeInv, Pumped
  <2> QED
    BY <2>1, <2>2, <2>3 DEF EventOwed
<1> QED
  BY <1>1, WakeInvariant, PTL
=============================================================================
