-------------------- MODULE LayerShellImplementationProofs -------------------
(***************************************************************************)
(* Frames pass through the controller in order and are counted once,       *)
(* close() leaves nothing behind, and LayerShellController implements      *)
(* NativeLayerShellController: for every value of the constants.           *)
(***************************************************************************)
EXTENDS LayerShellBufferProofs, LayerShellImplementation

(* The loop ends because it was stopped or the surface had ended; what it  *)
(* destroyed stays destroyed.                                              *)
TornDown ==
  /\ dispatch \in {"destroy", "disconnect", "ended"} => stop \/ compositorClosed
  /\ compositorClosed => ~acceptingFrames
  /\ stop => pendingFrame = NoFrame
  /\ dispatch \in {"disconnect", "ended"} =>
       /\ buffers = {} /\ dmabufBuffers = {} /\ dmabufImport = NoFrame /\ callbacks = 0
  /\ dispatch = "ended" => heldShm = {}
  /\ js = "closed" => ~mapped
  /\ closed <=> js \in {"closing", "joining", "closed"}

(* Presented, imported or pumped, pending, submitted: ids grow that way.   *)
Ordered ==
  /\ \A frame \in Travelling : frame.id < nextFrame /\ \A g \in presented : g < frame.id
  /\ \A g \in presented \cup accepted : g < nextFrame
  /\ submission # NoFrame =>
       \A frame \in {pendingFrame, pumped, dmabufImport} \ {NoFrame} : frame.id < submission.id
  /\ pendingFrame # NoFrame =>
       \A frame \in {pumped, dmabufImport} \ {NoFrame} : frame.id < pendingFrame.id

(* A frame is dropped, presented or travelling, and only once.             *)
Travels(f) ==
  Count(f \in IdOf(pendingFrame)) + Count(f \in IdOf(pumped)) + Count(f \in IdOf(dmabufImport))
Counted(f) == drops[f] + Count(f \in presented)
Once(f) ==
  /\ Counted(f) + Travels(f) + Count(f \in IdOf(submission)) <= 1
  /\ f >= nextFrame => Counted(f) = 0
  /\ f \in accepted => f \notin IdOf(submission)
  /\ f \in accepted /\ ~stop /\ ~compositorClosed => Counted(f) + Travels(f) = 1
CountedOnce == \A f \in Frames : Once(f)

FrameInv == TornDown /\ Ordered /\ CountedOnce
Inv == TypeOK /\ Control /\ LeaseInv /\ BufferInv /\ FrameInv

-----------------------------------------------------------------------------
LEMMA InitFrames == Init => FrameInv
BY DEF Init, FrameInv, TornDown, Ordered, CountedOnce, Once, Counted, Travels, Travelling, Count, IdOf

LEMMA StepTornDown == Inv /\ [Next]_vars => TornDown'
<1> SUFFICES ASSUME Inv, [Next]_vars PROVE TornDown'
  OBVIOUS
<1> USE DEF vars, jsVars, mailboxVars, configuredVars, bufferVars,
            compositorVars, leaseVars, countVars, flagVars, threadVars
<1>1. TypeOK /\ Control /\ Teardown /\ Paced /\ TornDown
  BY DEF Inv, LeaseInv, LeaseControl, BufferInv, FrameInv
<1>2. CASE JavaScript
  <2>1. CASE SubmitEnd
    BY <1>1, <2>1 DEF SubmitEnd, SignalWake, TornDown, Teardown
  <2>2. CASE \/ SubmitThrows \/ TakeReleasedDmabufs \/ CloseBegin \/ CloseStop \/ CloseJoin
             \/ \E backend \in {"shm", "dmabuf"}, size \in Sizes :
                  SubmitRefused(backend, size) \/ SubmitBegin(backend, size)
    BY <1>1, <2>2 DEF SubmitRefused, SubmitBegin, SubmitThrows, TakeReleasedDmabufs,
       CloseBegin, CloseStop, CloseJoin, DiscardPending, SignalWake, TornDown, Teardown
  <2> QED
    BY <1>2, <2>1, <2>2 DEF JavaScript
<1>3. CASE Loop
  BY <1>1, <1>3 DEF Loop, LoopTop, LoopPump, PollWake, LoopEnd, DestroyWaylandObjects,
     Disconnect, TornDown
<1>4. CASE Pump
  BY <1>1, <1>4 DEF Pump, PumpNothing, PumpDrop, DiscardPending, PumpTake, PresentShm,
     StartDmabufImport, StartDmabufImportFails, Commit, Control, Teardown, TornDown
<1>5. CASE Create
  BY <1>1, <1>5 DEF Create, CreateBuffers, CreateBuffersFails, DiscardPending, Commit,
     Control, Teardown, Paced, TornDown
<1>6. CASE Events
  <2>1. ASSUME NEW size \in Sizes, LayerConfigure(size) PROVE TornDown'
    BY <1>1, <2>1 DEF LayerConfigure, DiscardPending, Listening, TornDown
  <2>2. CASE LayerClosed \/ FrameDone \/ DisplayFailure \/ DisplayFailureIgnored
    BY <1>1, <2>2 DEF LayerClosed, FrameDone, DisplayFailure, DisplayFailureIgnored,
       ShutSurface, DiscardPending, Listening, TornDown
  <2>3. ASSUME NEW b \in ShmBuffers, BufferRelease(b) PROVE TornDown'
    BY <1>1, <2>3 DEF BufferRelease, Listening, TornDown
  <2>4. ASSUME NEW f \in Frames, DmabufBufferRelease(f) PROVE TornDown'
    BY <1>1, <2>4 DEF DmabufBufferRelease, Listening, TornDown
  <2>5. CASE DmabufCreated
    BY <1>1, <2>5 DEF DmabufCreated, Commit, Listening, Teardown, TornDown
  <2>6. CASE DmabufFailed
    BY <1>1, <2>6 DEF DmabufFailed, LeaseOf, Listening, TornDown
  <2> QED
    BY <1>6, <2>1, <2>2, <2>3, <2>4, <2>5, <2>6 DEF Events, Answer
<1>7. CASE UNCHANGED vars
  BY <1>1, <1>7 DEF TornDown
<1> QED
  BY <1>2, <1>3, <1>4, <1>5, <1>6, <1>7 DEF Next, Terminated

-----------------------------------------------------------------------------
(* A step gives no frame a place nearer to the surface than it had: a      *)
(* frame is in one place, or moves on.                                     *)
LEMMA StepOrdered == Inv /\ [Next]_vars => Ordered'
<1> SUFFICES ASSUME Inv, [Next]_vars PROVE Ordered'
  OBVIOUS
<1> USE DEF vars, jsVars, mailboxVars, configuredVars, bufferVars,
            compositorVars, leaseVars, countVars, flagVars, threadVars
<1>1. TypeOK /\ Control /\ Imports /\ Ordered
  BY DEF Inv, LeaseInv, LeaseControl, FrameInv
<1>2. /\ nextFrame \in Nat /\ presented \subseteq Nat /\ accepted \subseteq Nat
      /\ \A frame \in Travelling : frame.id \in Nat
  BY <1>1, FrameType DEF TypeOK, Travelling, Frames
<1>3. ASSUME NEW backend \in {"shm", "dmabuf"}, NEW size \in Sizes,
             SubmitBegin(backend, size) PROVE Ordered'
  <2>1. submission'.id = nextFrame /\ nextFrame' = nextFrame + 1
    BY <1>3 DEF SubmitBegin, NewFrame
  <2>2. UNCHANGED <<pendingFrame, pumped, dmabufImport, presented, accepted>>
    BY <1>3 DEF SubmitBegin
  <2> QED
    BY <1>1, <1>2, <2>1, <2>2 DEF Ordered, Travelling
<1>4. ASSUME NEW backend \in {"shm", "dmabuf"}, NEW size \in Sizes,
             SubmitRefused(backend, size) PROVE Ordered'
  BY <1>1, <1>2, <1>4 DEF SubmitRefused, Ordered, Travelling
<1>5. CASE SubmitEnd
  BY <1>1, <1>5 DEF SubmitEnd, Control, Ordered, Travelling
<1>6. CASE PumpTake
  BY <1>1, <1>6 DEF PumpTake, Pumpable, Control, Ordered, Travelling
<1>7. CASE StartDmabufImport
  BY <1>1, <1>7 DEF StartDmabufImport, Control, Ordered, Travelling
<1>8. CASE PresentShm
  BY <1>1, <1>2, <1>8 DEF PresentShm, Control, Imports, Ordered, Travelling
<1>9. CASE DmabufCreated
  BY <1>1, <1>2, <1>9 DEF DmabufCreated, Listening, Control, Ordered, Travelling
<1>10. CASE /\ submission' \in {submission, NoFrame}
            /\ pendingFrame' \in {pendingFrame, NoFrame}
            /\ pumped' \in {pumped, NoFrame} /\ dmabufImport' \in {dmabufImport, NoFrame}
            /\ UNCHANGED <<presented, accepted, nextFrame>>
  BY <1>1, <1>10 DEF Ordered, Travelling
<1>11. CASE \/ SubmitThrows \/ TakeReleasedDmabufs \/ CloseBegin \/ CloseStop \/ CloseJoin
            \/ Loop \/ PumpNothing \/ PumpDrop \/ StartDmabufImportFails \/ Create
  BY <1>10, <1>11 DEF SubmitThrows, TakeReleasedDmabufs, CloseBegin, CloseStop, CloseJoin,
     Loop, LoopTop, LoopPump, PollWake, LoopEnd, DestroyWaylandObjects, Disconnect,
     PumpNothing, PumpDrop, StartDmabufImportFails, Create, CreateBuffers,
     CreateBuffersFails, DiscardPending
<1>12. CASE Events /\ ~DmabufCreated
  BY <1>10, <1>12 DEF Events, LayerConfigure, LayerClosed, FrameDone, Answer,
     DmabufFailed, DisplayFailure, DisplayFailureIgnored, BufferRelease,
     DmabufBufferRelease, ShutSurface, DiscardPending
<1> QED
  BY <1>3, <1>4, <1>5, <1>6, <1>7, <1>8, <1>9, <1>10, <1>11, <1>12
     DEF Next, JavaScript, Pump, Terminated

(* Every frame is in at most one place, and leaves the last one counted.   *)
LEMMA StepCountedOnce == Inv /\ [Next]_vars => CountedOnce'
<1> SUFFICES ASSUME Inv, [Next]_vars, NEW f \in Frames PROVE Once(f)'
  BY DEF CountedOnce
<1> USE DEF vars, jsVars, mailboxVars, configuredVars, bufferVars,
            compositorVars, leaseVars, countVars, flagVars, threadVars
<1>1. TypeOK /\ Control /\ Imports /\ Teardown /\ Acknowledged /\ Paced /\ TornDown /\ Ordered
      /\ Once(f)
  BY DEF CountedOnce, Inv, LeaseInv, LeaseControl, BufferInv, FrameInv
<1>2. drops[f] \in Nat /\ nextFrame \in Nat /\ f \in Nat
  BY <1>1 DEF TypeOK, Frames
<1>a. f \in IdOf(submission) \cup IdOf(pendingFrame) \cup IdOf(pumped) \cup IdOf(dmabufImport)
        => f < nextFrame
  BY <1>1 DEF Ordered, Travelling, IdOf
<1>3. ASSUME NEW ids, CountDropped(ids)
      PROVE  drops'[f] = drops[f] + Count(f \in ids)
  BY <1>3 DEF CountDropped
<1>4. ASSUME NEW backend \in {"shm", "dmabuf"}, NEW size \in Sizes,
             SubmitBegin(backend, size) PROVE Once(f)'
  <2>1. submission'.id = nextFrame /\ submission = NoFrame /\ nextFrame' = nextFrame + 1
    BY <1>1, <1>4 DEF SubmitBegin, NewFrame, Control
  <2>2. UNCHANGED <<pendingFrame, pumped, dmabufImport, presented, accepted, drops, stop, compositorClosed>>
    BY <1>4 DEF SubmitBegin
  <2>3. Travels(nextFrame) = 0 /\ nextFrame \notin accepted /\ nextFrame \notin presented
    BY <1>1, <1>2 DEF Ordered, Travelling, Travels, Count, IdOf
  <2> QED
    BY <1>1, <1>2, <1>a, <2>1, <2>2, <2>3 DEF Once, Counted, Travels, Count, IdOf
<1>5. ASSUME NEW backend \in {"shm", "dmabuf"}, NEW size \in Sizes,
             SubmitRefused(backend, size) PROVE Once(f)'
  BY <1>1, <1>2, <1>a, <1>3, <1>5 DEF SubmitRefused, Once, Counted, Travels, Count, IdOf,
     Ordered, Travelling
<1>6. CASE SubmitEnd
  <2>1. /\ IdOf(submission)' = {} /\ UNCHANGED <<nextFrame, presented, stop, compositorClosed>>
        /\ UNCHANGED <<IdOf(pumped), IdOf(dmabufImport)>>
        /\ IdOf(submission) = {submission.id}
    BY <1>1, <1>6 DEF SubmitEnd, Control, IdOf
  <2>2. CASE UNCHANGED <<IdOf(pendingFrame), accepted>> /\ CountDropped(IdOf(submission))
    BY <1>1, <1>2, <1>a, <1>3, <2>1, <2>2 DEF Once, Counted, Travels, Count
  <2>3. CASE /\ CountDropped(IdOf(pendingFrame)) /\ IdOf(pendingFrame)' = IdOf(submission)
             /\ accepted' = accepted \cup IdOf(submission)
    BY <1>1, <1>2, <1>a, <1>3, <2>1, <2>3 DEF Once, Counted, Travels, Count
  <2> QED
    BY <1>6, <2>1, <2>2, <2>3 DEF SubmitEnd, IdOf
<1>7. CASE PumpTake
  BY <1>1, <1>2, <1>a, <1>7 DEF PumpTake, Pumpable, Control, Once, Counted, Travels, Count,
     IdOf
<1>8. CASE StartDmabufImport
  BY <1>1, <1>2, <1>a, <1>8 DEF StartDmabufImport, Control, Imports, Once, Counted, Travels,
     Count, IdOf
<1>9. CASE PresentShm
  <2>1. /\ IdOf(pumped)' = {} /\ presented' = presented \cup IdOf(pumped)
        /\ UNCHANGED <<IdOf(submission), IdOf(pendingFrame), IdOf(dmabufImport), nextFrame, accepted, drops,
                       stop, compositorClosed>>
    BY <1>1, <1>9 DEF PresentShm, Control, IdOf
  <2> QED
    BY <1>1, <1>2, <1>a, <2>1 DEF Once, Counted, Travels, Count
<1>10. CASE PumpDrop \/ CreateBuffers \/ \E size \in Sizes : LayerConfigure(size)
  <2>1. /\ UNCHANGED <<IdOf(submission), IdOf(pumped), IdOf(dmabufImport), nextFrame, accepted, presented,
                       stop, compositorClosed>>
        /\ \/ IdOf(pendingFrame)' = {} /\ CountDropped(IdOf(pendingFrame))
           \/ UNCHANGED <<IdOf(pendingFrame), drops>>
    BY <1>10 DEF PumpDrop, CreateBuffers, LayerConfigure, DiscardPending, IdOf
  <2> QED
    BY <1>1, <1>2, <1>a, <1>3, <2>1 DEF Once, Counted, Travels, Count
<1>11. CASE StartDmabufImportFails
  <2>1. /\ IdOf(pumped)' = {} /\ CountDropped(IdOf(pumped))
        /\ UNCHANGED <<IdOf(submission), IdOf(pendingFrame), IdOf(dmabufImport), nextFrame, accepted, presented,
                       stop, compositorClosed>>
    BY <1>1, <1>11 DEF StartDmabufImportFails, Control, IdOf
  <2> QED
    BY <1>1, <1>2, <1>a, <1>3, <2>1 DEF Once, Counted, Travels, Count
<1>12. CASE CloseStop \/ LayerClosed \/ DisplayFailure
  <2>1. /\ IdOf(pendingFrame)' = {} /\ (stop' \/ compositorClosed')
        /\ UNCHANGED <<IdOf(submission), IdOf(pumped), IdOf(dmabufImport), nextFrame, accepted, presented, drops>>
    BY <1>12 DEF CloseStop, LayerClosed, DisplayFailure, ShutSurface, DiscardPending, IdOf
  <2>2. Counted(f)' = Counted(f) /\ Counted(f) \in Nat
    BY <1>2, <2>1 DEF Counted, Count
  <2> QED
    BY <1>1, <1>2, <1>a, <2>1, <2>2 DEF Once, Travels, Count
<1>13. CASE DestroyWaylandObjects
  <2>1. /\ IdOf(dmabufImport)' = {} /\ (stop \/ compositorClosed)
        /\ UNCHANGED <<IdOf(submission), IdOf(pendingFrame), IdOf(pumped), nextFrame, accepted, presented, drops,
                       stop, compositorClosed>>
    BY <1>1, <1>13 DEF DestroyWaylandObjects, TornDown, IdOf
  <2>2. Counted(f)' = Counted(f) /\ Counted(f) \in Nat
    BY <1>2, <2>1 DEF Counted, Count
  <2> QED
    BY <1>1, <1>2, <1>a, <2>1, <2>2 DEF Once, Travels, Count
<1>14. CASE DmabufCreated
  <2>1. /\ IdOf(dmabufImport) = {dmabufImport.id} /\ IdOf(dmabufImport)' = {}
        /\ UNCHANGED <<IdOf(submission), IdOf(pendingFrame), IdOf(pumped), nextFrame, accepted, stop,
                       compositorClosed>>
    BY <1>14 DEF DmabufCreated, IdOf
  <2>2. CASE presented' = presented \cup IdOf(dmabufImport) /\ UNCHANGED drops
    BY <1>1, <1>2, <1>a, <2>1, <2>2 DEF Once, Counted, Travels, Count
  <2>3. CASE CountDropped(IdOf(dmabufImport)) /\ UNCHANGED presented
    BY <1>1, <1>2, <1>a, <1>3, <2>1, <2>3 DEF Once, Counted, Travels, Count
  <2> QED
    BY <1>14, <2>1, <2>2, <2>3 DEF DmabufCreated
<1>15. CASE DmabufFailed
  <2> DEFINE lost == IF ImportIsCurrent THEN LeaseOf(pendingFrame) ELSE {}
  <2>1. /\ IdOf(dmabufImport) = {dmabufImport.id} /\ IdOf(dmabufImport)' = {}
        /\ UNCHANGED <<IdOf(submission), IdOf(pumped), nextFrame, accepted, presented, stop,
                       compositorClosed>>
        /\ CountDropped(IdOf(dmabufImport) \cup lost)
    BY <1>15 DEF DmabufFailed, IdOf
  <2>2. IdOf(pendingFrame)' = IdOf(pendingFrame) \ lost /\ lost \subseteq IdOf(pendingFrame)
    BY <1>15 DEF DmabufFailed, LeaseOf, IdOf
  <2> HIDE DEF lost
  <2>3. drops'[f] = drops[f] + Count(f \in IdOf(dmabufImport) \cup lost)
    BY <1>3, <2>1
  <2> QED
    BY <1>1, <1>2, <1>a, <2>1, <2>2, <2>3 DEF Once, Counted, Travels, Count
<1>16. CASE SubmitThrows
  BY <1>1, <1>2, <1>a, <1>16 DEF SubmitThrows, Once, Counted, Travels, Count, IdOf
<1>17. CASE UNCHANGED <<submission, pendingFrame, pumped, dmabufImport, nextFrame, accepted,
                        presented, drops, stop, compositorClosed>>
  BY <1>1, <1>17 DEF Once, Counted, Travels
<1>18. CASE \/ TakeReleasedDmabufs \/ CloseBegin \/ CloseJoin \/ PumpNothing
            \/ CreateBuffersFails \/ (Loop /\ ~DestroyWaylandObjects)
  BY <1>17, <1>18 DEF TakeReleasedDmabufs, CloseBegin, CloseJoin, PumpNothing,
     CreateBuffersFails, Loop, LoopTop, LoopPump, PollWake, LoopEnd, Disconnect
<1>19. CASE \/ FrameDone \/ DisplayFailureIgnored
            \/ \E b \in ShmBuffers : BufferRelease(b)
            \/ \E g \in Frames : DmabufBufferRelease(g)
  BY <1>17, <1>19 DEF FrameDone, DisplayFailureIgnored, BufferRelease, DmabufBufferRelease
<1> QED
  BY <1>4, <1>5, <1>6, <1>7, <1>8, <1>9, <1>10, <1>11, <1>12, <1>13, <1>14, <1>15, <1>16,
     <1>17, <1>18, <1>19
     DEF Next, JavaScript, Loop, Pump, Create, Events, Answer, Terminated

LEMMA FrameInvariant == Spec => []Inv
<1>1. Init => FrameInv
  BY InitFrames
<1>2. Inv /\ [Next]_vars => FrameInv'
  BY StepTornDown, StepOrdered, StepCountedOnce DEF FrameInv
<1>3. TypeOK /\ Control /\ LeaseInv /\ BufferInv /\ FrameInv <=> Inv
  BY DEF Inv
<1> QED
  BY <1>1, <1>2, <1>3, BufferInvariant, PTL DEF Spec

(* For any number of frames, and whatever becomes of them: neither counter *)
(* counts a frame twice or both count it, and none is lost uncounted while *)
(* the surface is up.                                                      *)
THEOREM FramesCounted == Spec => []FrameAccounting
<1>1. Inv => FrameAccounting
  <2> SUFFICES ASSUME Inv, NEW f \in Frames
               PROVE  /\ Counted(f) + Travels(f) <= 1
                      /\ f \in accepted /\ ~stop /\ ~compositorClosed =>
                           Counted(f) + Travels(f) = 1
    BY DEF FrameAccounting, Counted, Travels
  <2>1. Once(f) /\ drops[f] \in Nat
    BY DEF Inv, FrameInv, CountedOnce, TypeOK
  <2>2. Counted(f) \in Nat /\ Travels(f) \in Nat
    BY <2>1 DEF Counted, Travels, Count
  <2> QED
    BY <2>1, <2>2 DEF Once, Count
<1> QED
  BY <1>1, FrameInvariant, PTL

(* No frame is presented after a newer one, on either path.                *)
THEOREM NewestFrameWins == Spec => NewestWins
<1>1. Inv /\ [Next]_vars => \A f \in presented' \ presented : \A g \in presented : g < f
  <2> SUFFICES ASSUME Inv, [Next]_vars, NEW f \in presented' \ presented, NEW g \in presented
               PROVE  g < f
    OBVIOUS
  <2> USE DEF vars, jsVars, mailboxVars, configuredVars, bufferVars,
              compositorVars, leaseVars, countVars, flagVars, threadVars
  <2>1. Ordered /\ Control
    BY DEF Inv, FrameInv
  <2>2. CASE PresentShm
    BY <2>1, <2>2 DEF PresentShm, Control, Ordered, Travelling
  <2>3. CASE DmabufCreated
    BY <2>1, <2>3 DEF DmabufCreated, Ordered, Travelling
  <2>4. UNCHANGED presented \/ PresentShm \/ DmabufCreated
    <3>1. CASE JavaScript
      BY <3>1 DEF JavaScript, SubmitRefused, SubmitBegin, SubmitThrows, SubmitEnd,
         TakeReleasedDmabufs, CloseBegin, CloseStop, CloseJoin
    <3>2. CASE Loop
      BY <3>2 DEF Loop, LoopTop, LoopPump, PollWake, LoopEnd, DestroyWaylandObjects, Disconnect
    <3>3. CASE Pump
      BY <3>3 DEF Pump, PumpNothing, PumpDrop, PumpTake, StartDmabufImport,
         StartDmabufImportFails
    <3>4. CASE Create
      BY <3>4 DEF Create, CreateBuffers, CreateBuffersFails
    <3>5. CASE Events
      BY <3>5 DEF Events, LayerConfigure, LayerClosed, FrameDone, Answer, DmabufFailed,
         DisplayFailure, DisplayFailureIgnored, BufferRelease, DmabufBufferRelease
    <3>6. CASE UNCHANGED vars
      BY <3>6
    <3> QED
      BY <3>1, <3>2, <3>3, <3>4, <3>5, <3>6 DEF Next, Terminated
  <2> QED
    BY <2>2, <2>3, <2>4
<1> QED
  BY <1>1, FrameInvariant, PTL DEF Spec, NewestWins

(* When close() has returned nothing is left, whatever the threads were    *)
(* doing when it was called.                                               *)
THEOREM CloseClean == Spec => []CloseReleasesAll
<1>1. Inv => CloseReleasesAll
  <2> SUFFICES ASSUME Inv, js = "closed" PROVE CloseReleasesAll
    BY DEF CloseReleasesAll
  <2>1. TypeOK /\ Control /\ Teardown /\ TornDown /\ LeaseExactlyOnce
    BY DEF Inv, LeaseInv, LeaseControl, FrameInv
  <2>2. /\ ~mapped /\ callbacks = 0 /\ submission = NoFrame
        /\ pendingFrame = NoFrame /\ pumped = NoFrame /\ dmabufImport = NoFrame
        /\ buffers = {} /\ dmabufBuffers = {} /\ heldShm = {} /\ heldDmabuf = {}
    BY <2>1 DEF Control, Teardown, TornDown
  <2>3. \A f \in leases : completionQueue[f] + taken[f] = 1
    BY <2>1, <2>2 DEF LeaseExactlyOnce, LeaseOf, Count, TypeOK
  <2> QED
    BY <2>2, <2>3 DEF CloseReleasesAll
<1> QED
  BY <1>1, FrameInvariant, PTL

-----------------------------------------------------------------------------
(* The refinement.  Leases move between the threads' hands without the     *)
(* interface seeing it, because no id is in two of them.                   *)
LEMMA Places ==
  ASSUME Inv
  PROVE  /\ Holding \subseteq Frames
         /\ LeaseOf(submission) \cap (LeaseOf(pendingFrame) \cup LeaseOf(pumped)
              \cup LeaseOf(dmabufImport) \cup dmabufBuffers) = {}
         /\ LeaseOf(pendingFrame) \cap (LeaseOf(pumped) \cup LeaseOf(dmabufImport)
              \cup dmabufBuffers) = {}
         /\ LeaseOf(pumped) \cap (LeaseOf(dmabufImport) \cup dmabufBuffers) = {}
         /\ LeaseOf(dmabufImport) \cap dmabufBuffers = {}
         /\ Holding \subseteq leases
<1>1. TypeOK /\ LeaseExactlyOnce
  BY DEF Inv, LeaseInv
<1>2. Holding \subseteq Frames
  BY <1>1, FrameType DEF Holding, LeaseOf, TypeOK
<1>3. ASSUME NEW f \in Frames
      PROVE  /\ Count(f \in LeaseOf(submission)) + Count(f \in LeaseOf(pendingFrame))
                  + Count(f \in LeaseOf(pumped)) + Count(f \in LeaseOf(dmabufImport))
                  + Count(f \in dmabufBuffers) <= Count(f \in leases)
  <2>1. completionQueue[f] \in Nat /\ taken[f] \in Nat
    BY <1>1 DEF TypeOK
  <2> QED
    BY <1>1, <2>1 DEF LeaseExactlyOnce, Count
<1> QED
  BY <1>2, <1>3 DEF Holding, Count

(* The interface's view of a step that completes ids.                      *)
LEMMA CompleteMapped ==
  ASSUME Inv, NEW ids \in SUBSET Holding, Complete(ids), Holding' = Holding \ ids
  PROVE  Contract!Complete(ids)
<1>1. completionQueue \in [Frames -> Nat] /\ ids \subseteq Frames
  BY Places DEF Inv, TypeOK
<1>2. \A f \in Frames : completionQueue'[f] > 0 <=> completionQueue[f] > 0 \/ f \in ids
  BY <1>1 DEF Complete, Count
<1> QED
  BY <1>1, <1>2 DEF Contract!Complete

LEMMA FinishMapped ==
  ASSUME Inv, NEW ids \in SUBSET Holding, Complete(ids), Holding' = Holding \ ids,
         dmabufUsable' \in {dmabufUsable, FALSE},
         UNCHANGED <<configuredSize, acceptingFrames, Health, Life>>
  PROVE  Contract!Next
<1>1. Contract!Finish(ids)
  BY CompleteMapped DEF Contract!Finish
<1> QED
  BY <1>1 DEF Contract!Next, Contract!Native

LEMMA ShutMapped ==
  ASSUME Inv, NEW ids \in SUBSET Holding, Complete(ids), Holding' = Holding \ ids,
         Life # "closed", acceptingFrames' = FALSE,
         Health' \in {Health} \cup (IF Health = "failed" THEN {"up"} ELSE {}),
         UNCHANGED <<configuredSize, dmabufUsable, Life>>
  PROVE  Contract!Next
<1>1. Contract!Shut(ids)
  BY CompleteMapped DEF Contract!Shut
<1> QED
  BY <1>1 DEF Contract!Next, Contract!Native

LEMMA EndMapped ==
  ASSUME Inv, NEW ids \in SUBSET Holding, Complete(ids), Holding' = Holding \ ids,
         Life # "closed", acceptingFrames' = FALSE, Health' = "ended",
         UNCHANGED <<configuredSize, dmabufUsable, Life>>
  PROVE  Contract!Next
<1>1. Contract!End(ids)
  BY CompleteMapped DEF Contract!End
<1> QED
  BY <1>1 DEF Contract!Next, Contract!Native

(* The steps JavaScript cannot see: a lease passes from one hand to the    *)
(* next.                                                                   *)
LEMMA StutterMapped ==
  ASSUME Inv, UNCHANGED <<configuredSize, acceptingFrames, dmabufUsable, compositorClosed,
                          error, closed, completionQueue>>,
         Holding' = Holding, (js = "closed")' = (js = "closed")
  PROVE  UNCHANGED Contract!nativeVars
BY DEF Contract!nativeVars, Health, Life

(* One case per action: the interface's action it is, or a stutter.        *)
LEMMA StepContract == Inv /\ [Next]_vars => [Contract!Next]_(Contract!nativeVars)
<1> SUFFICES ASSUME Inv, [Next]_vars PROVE Contract!Next \/ UNCHANGED Contract!nativeVars
  OBVIOUS
<1> USE DEF vars, jsVars, mailboxVars, configuredVars, bufferVars,
            compositorVars, leaseVars, countVars, flagVars, threadVars
<1>1. TypeOK /\ Control /\ FreshIds /\ Imports /\ HeldDmabufLive /\ Teardown /\ Acknowledged
      /\ Paced /\ TornDown
  BY DEF Inv, LeaseInv, LeaseControl, BufferInv, FrameInv
<1>2. ASSUME NEW backend \in {"shm", "dmabuf"}, NEW size \in Sizes,
             SubmitBegin(backend, size)
      PROVE  Contract!Next \/ UNCHANGED Contract!nativeVars
  <2>1. /\ LeaseOf(submission) = {} /\ nextFrame \in Frames /\ nextFrame \notin leases
        /\ LeaseOf(submission)' = IF backend = "dmabuf" THEN {nextFrame} ELSE {}
    <3>1. submission' \in FrameRecords
      BY <1>1, <1>2 DEF SubmitBegin, NewFrame, FrameRecords, TypeOK
    <3> QED
      BY <1>1, <1>2, <3>1, NoFrameAssumption
         DEF SubmitBegin, NewFrame, LeaseOf, Control, FreshIds, TypeOK
  <2>2. UNCHANGED <<LeaseOf(pendingFrame), LeaseOf(pumped), LeaseOf(dmabufImport),
                    dmabufBuffers, completionQueue>>
    BY <1>2 DEF SubmitBegin, LeaseOf
  <2>3. Holding' = Holding \cup (IF backend = "dmabuf" THEN {nextFrame} ELSE {})
    BY <2>1, <2>2 DEF Holding
  <2>4. /\ UNCHANGED <<configuredSize, acceptingFrames, dmabufUsable, compositorClosed,
                       error, closed>>
        /\ js = "idle" /\ js' = "submitting"
        /\ acceptingFrames /\ ~closed /\ ~compositorClosed
        /\ backend = "dmabuf" => dmabufUsable
    BY <1>2 DEF SubmitBegin, Refused
  <2>5. CASE backend = "shm"
    BY <2>2, <2>3, <2>4, <2>5, StutterMapped
  <2>6. CASE backend = "dmabuf"
    <3>1. nextFrame \notin Holding
      BY <2>1, Places
    <3>2. Contract!Lend(nextFrame)
      BY <2>2, <2>3, <2>4, <2>6, <3>1 DEF Contract!Lend, Contract!Accepts, Health, Life
    <3> QED
      BY <2>1, <3>2 DEF Contract!Next
  <2> QED
    BY <2>5, <2>6
<1>3. CASE SubmitThrows
  <2>1. Holding' = Holding \ LeaseOf(submission) /\ LeaseOf(submission) \in SUBSET Holding
    BY <1>3, Places DEF SubmitThrows, Holding, LeaseOf
  <2> QED
    BY <1>3, <2>1, FinishMapped DEF SubmitThrows, Health, Life
<1>4. CASE SubmitEnd
  <2>1. CASE Complete(LeaseOf(submission)) /\ UNCHANGED pendingFrame
    <3>1. Holding' = Holding \ LeaseOf(submission) /\ LeaseOf(submission) \in SUBSET Holding
      BY <1>4, <2>1, Places DEF SubmitEnd, Holding, LeaseOf
    <3> QED
      BY <1>4, <2>1, <3>1, FinishMapped DEF SubmitEnd, Health, Life
  <2>2. CASE Complete(LeaseOf(pendingFrame)) /\ pendingFrame' = submission
    <3>1. Holding' = Holding \ LeaseOf(pendingFrame) /\ LeaseOf(pendingFrame) \in SUBSET Holding
      BY <1>4, <2>2, Places DEF SubmitEnd, Holding, LeaseOf
    <3> QED
      BY <1>4, <2>2, <3>1, FinishMapped DEF SubmitEnd, Health, Life
  <2> QED
    BY <1>4, <2>1, <2>2 DEF SubmitEnd
<1>5. CASE TakeReleasedDmabufs
  <2>1. Holding' = Holding /\ {f \in Frames : completionQueue[f] > 0}' = {}
    BY <1>5 DEF TakeReleasedDmabufs, Holding, LeaseOf
  <2>2. Contract!Take
    BY <1>1, <1>5, <2>1 DEF TakeReleasedDmabufs, Contract!Take, Health, Life, TornDown
  <2> QED
    BY <2>2 DEF Contract!Next
<1>6. CASE CloseBegin
  <2>1. Contract!Close
    BY <1>6 DEF CloseBegin, Contract!Close, Health, Life, Holding, LeaseOf
  <2> QED
    BY <2>1 DEF Contract!Next
<1>7. CASE CloseStop
  <2>1. Holding' = Holding \ LeaseOf(pendingFrame) /\ LeaseOf(pendingFrame) \in SUBSET Holding
    BY <1>7, Places DEF CloseStop, DiscardPending, Holding, LeaseOf
  <2>2. /\ Life # "closed" /\ Life' = Life /\ Health' = Health
        /\ acceptingFrames' = FALSE /\ UNCHANGED <<configuredSize, dmabufUsable>>
    BY <1>1, <1>7 DEF CloseStop, Health, Life, TornDown
  <2> QED
    BY <1>7, <2>1, <2>2, ShutMapped DEF CloseStop, DiscardPending
<1>8. CASE CloseJoin
  <2>1. Holding = {} /\ Holding' = Holding
    BY <1>1, <1>8 DEF CloseJoin, Holding, LeaseOf, Control, Teardown, TornDown
  <2>2. Contract!CloseReturns
    BY <1>1, <1>8, <2>1 DEF CloseJoin, Contract!CloseReturns, Health, Life, TornDown
  <2> QED
    BY <2>2 DEF Contract!Next, Contract!Native
<1>9. CASE DestroyWaylandObjects
  <2>1. Holding' = Holding \ OwnedLeases /\ OwnedLeases \in SUBSET Holding
    BY <1>9, Places DEF DestroyWaylandObjects, OwnedLeases, Holding, LeaseOf
  <2> QED
    BY <1>9, <2>1, FinishMapped DEF DestroyWaylandObjects, Health, Life
<1>10. CASE PumpDrop
  <2>1. Holding' = Holding \ LeaseOf(pendingFrame) /\ LeaseOf(pendingFrame) \in SUBSET Holding
    BY <1>10, Places DEF PumpDrop, DiscardPending, Holding, LeaseOf
  <2> QED
    BY <1>10, <2>1, FinishMapped DEF PumpDrop, DiscardPending, Health, Life
<1>11. CASE StartDmabufImportFails
  <2>1. LeaseOf(pumped) = {pumped.id}
    BY <1>1, <1>11 DEF StartDmabufImportFails, Control, LeaseOf
  <2>2. Holding' = Holding \ {pumped.id} /\ {pumped.id} \in SUBSET Holding
    BY <1>11, <2>1, Places DEF StartDmabufImportFails, Holding, LeaseOf
  <2> QED
    BY <1>11, <2>2, FinishMapped DEF StartDmabufImportFails, Health, Life
<1>12. CASE CreateBuffers
  <2>1. pendingFrame = NoFrame /\ ~acceptingFrames /\ ~error /\ ~compositorClosed /\ js # "closed"
    BY <1>1, <1>12 DEF CreateBuffers, Acknowledged, Paced, Teardown, Control
  <2>2. LeaseOf(pendingFrame) = {} /\ Holding' = Holding
    BY <1>12, <2>1 DEF CreateBuffers, DiscardPending, Holding, LeaseOf
  <2>3. UNCHANGED completionQueue
    BY <1>1, <1>12, <2>2 DEF CreateBuffers, DiscardPending, Complete, Count, TypeOK
  <2>4. Contract!Reopen(acked)
    BY <1>12, <2>1, <2>2, <2>3 DEF CreateBuffers, Contract!Reopen, Health, Life
  <2>5. acked \in Sizes
    BY <1>1 DEF TypeOK
  <2> QED
    BY <2>4, <2>5 DEF Contract!Next, Contract!Native
<1>13. CASE CreateBuffersFails
  <2>1. ~acceptingFrames /\ ~error /\ ~compositorClosed /\ js # "closed"
    BY <1>1, <1>13 DEF CreateBuffersFails, Acknowledged, Paced, Teardown, Control
  <2>2. Contract!Fail
    BY <1>13, <2>1 DEF CreateBuffersFails, Contract!Fail, Health, Life, Holding, LeaseOf
  <2> QED
    BY <2>2 DEF Contract!Next, Contract!Native
<1>14. ASSUME NEW size \in Sizes, LayerConfigure(size)
       PROVE  Contract!Next \/ UNCHANGED Contract!nativeVars
  <2>1. UNCHANGED <<submission, pumped, dmabufImport, dmabufBuffers, configuredSize, js, closed,
                    compositorClosed, dmabufUsable>>
    BY <1>14 DEF LayerConfigure
  <2>2. CASE UNCHANGED <<pendingFrame, acceptingFrames, completionQueue, error>>
    <3>1. Holding' = Holding
      BY <2>1, <2>2 DEF Holding, LeaseOf
    <3> QED
      BY <2>1, <2>2, <3>1, StutterMapped
  <2>3. CASE acceptingFrames' = FALSE /\ DiscardPending /\ error' = FALSE
    <3>1. Holding' = Holding \ LeaseOf(pendingFrame) /\ LeaseOf(pendingFrame) \in SUBSET Holding
      BY <2>1, <2>3, Places DEF DiscardPending, Holding, LeaseOf
    <3>2. js # "closed" /\ ~compositorClosed
      BY <1>1, <1>14 DEF LayerConfigure, Listening, Teardown
    <3>3. /\ Life # "closed" /\ Life' = Life
          /\ Health' \in {Health} \cup (IF Health = "failed" THEN {"up"} ELSE {})
      BY <2>1, <2>3, <3>2 DEF Health, Life
    <3> QED
      BY <2>1, <2>3, <3>1, <3>3, ShutMapped DEF DiscardPending
  <2> QED
    BY <1>14, <2>2, <2>3 DEF LayerConfigure
<1>15. CASE LayerClosed \/ DisplayFailure
  <2>1. /\ UNCHANGED <<submission, pumped, dmabufImport, dmabufBuffers, configuredSize, js, closed,
                       dmabufUsable>>
        /\ compositorClosed' = TRUE /\ acceptingFrames' = FALSE /\ DiscardPending
        /\ js # "closed"
    BY <1>1, <1>15 DEF LayerClosed, DisplayFailure, ShutSurface, Listening, Teardown
  <2>2. Holding' = Holding \ LeaseOf(pendingFrame) /\ LeaseOf(pendingFrame) \in SUBSET Holding
    BY <2>1, Places DEF DiscardPending, Holding, LeaseOf
  <2>3. Life # "closed" /\ Life' = Life /\ Health' = "ended"
    BY <2>1 DEF Health, Life
  <2> QED
    BY <2>1, <2>2, <2>3, EndMapped DEF DiscardPending
<1>16. ASSUME NEW f \in Frames, DmabufBufferRelease(f) PROVE Contract!Next
  <2>1. f \in dmabufBuffers
    BY <1>1, <1>16 DEF DmabufBufferRelease, Listening, HeldDmabufLive
  <2>2. Holding' = Holding \ {f} /\ {f} \in SUBSET Holding
    BY <1>16, <2>1, Places DEF DmabufBufferRelease, Holding, LeaseOf
  <2> QED
    BY <1>16, <2>2, FinishMapped DEF DmabufBufferRelease, Health, Life
<1>17. CASE DmabufCreated
  <2>1. LeaseOf(dmabufImport) = {dmabufImport.id} /\ LeaseOf(dmabufImport)' = {}
    BY <1>1, <1>17 DEF DmabufCreated, Imports, LeaseOf
  <2>2. UNCHANGED <<LeaseOf(submission), LeaseOf(pendingFrame), LeaseOf(pumped), js, closed,
                    compositorClosed, error, configuredSize, acceptingFrames, dmabufUsable>>
    BY <1>17 DEF DmabufCreated, LeaseOf
  <2>3. CASE ImportIsCurrent
    <3>1. Holding' = Holding /\ UNCHANGED completionQueue
      BY <1>17, <2>1, <2>2, <2>3 DEF DmabufCreated, Holding
    <3> QED
      BY <2>2, <3>1, StutterMapped
  <2>4. CASE ~ImportIsCurrent
    <3>1. Holding' = Holding \ {dmabufImport.id} /\ {dmabufImport.id} \in SUBSET Holding
      BY <1>17, <2>1, <2>2, <2>4, Places DEF DmabufCreated, Holding
    <3> QED
      BY <1>17, <2>2, <2>4, <3>1, FinishMapped DEF DmabufCreated, Health, Life
  <2> QED
    BY <2>3, <2>4
<1>18. CASE DmabufFailed
  <2> DEFINE lost == IF ImportIsCurrent THEN LeaseOf(pendingFrame) ELSE {}
             ids  == {dmabufImport.id} \cup lost
  <2>1. LeaseOf(dmabufImport) = {dmabufImport.id} /\ LeaseOf(dmabufImport)' = {}
    BY <1>1, <1>18 DEF DmabufFailed, Imports, LeaseOf
  <2>2. /\ UNCHANGED <<LeaseOf(submission), LeaseOf(pumped), dmabufBuffers, js, closed,
                       compositorClosed, error, configuredSize, acceptingFrames>>
        /\ dmabufUsable' \in {dmabufUsable, FALSE} /\ Complete(ids)
    BY <1>1, <1>18 DEF DmabufFailed, LeaseOf, TypeOK
  <2>3. LeaseOf(pendingFrame)' = LeaseOf(pendingFrame) \ lost /\ lost \subseteq LeaseOf(pendingFrame)
    BY <1>18 DEF DmabufFailed, LeaseOf
  <2> HIDE DEF lost
  <2>4. Holding' = Holding \ ids /\ ids \in SUBSET Holding
    BY <2>1, <2>2, <2>3, Places DEF Holding
  <2> HIDE DEF ids
  <2> QED
    BY <2>2, <2>4, FinishMapped DEF Health, Life
<1>19. CASE StartDmabufImport
  <2>1. Holding' = Holding
    BY <1>1, <1>19 DEF StartDmabufImport, Imports, Holding, LeaseOf
  <2> QED
    BY <1>19, <2>1, StutterMapped DEF StartDmabufImport
<1>20. CASE PresentShm
  <2>1. Holding' = Holding
    BY <1>20 DEF PresentShm, Holding, LeaseOf
  <2> QED
    BY <1>20, <2>1, StutterMapped DEF PresentShm
<1>21. CASE PumpTake
  <2>1. Holding' = Holding
    BY <1>1, <1>21 DEF PumpTake, Control, Holding, LeaseOf
  <2> QED
    BY <1>21, <2>1, StutterMapped DEF PumpTake
<1>22. CASE UNCHANGED <<submission, pendingFrame, pumped, dmabufImport, dmabufBuffers,
                        configuredSize, acceptingFrames, dmabufUsable, compositorClosed,
                        error, closed, completionQueue, js>>
  <2>1. Holding' = Holding
    BY <1>22 DEF Holding, LeaseOf
  <2> QED
    BY <1>22, <2>1, StutterMapped
<1>23. CASE \/ PumpNothing \/ (Loop /\ ~DestroyWaylandObjects)
            \/ FrameDone \/ DisplayFailureIgnored
            \/ \E b \in ShmBuffers : BufferRelease(b)
            \/ \E backend \in {"shm", "dmabuf"}, size \in Sizes : SubmitRefused(backend, size)
  BY <1>22, <1>23 DEF PumpNothing, Loop, LoopTop, LoopPump, PollWake, LoopEnd, Disconnect,
     FrameDone, DisplayFailureIgnored, BufferRelease, SubmitRefused
<1> QED
  BY <1>2, <1>3, <1>4, <1>5, <1>6, <1>7, <1>8, <1>9, <1>10, <1>11, <1>12, <1>13, <1>14,
     <1>15, <1>16, <1>17, <1>18, <1>19, <1>20, <1>21, <1>22, <1>23
     DEF Next, JavaScript, Loop, Pump, Create, Events, Answer, Terminated

(* The threads, the mailbox and the Wayland events together are what the   *)
(* JavaScript side relies on, for every value of the constants: every      *)
(* id lent is completed once, and all of them before close() returns.      *)
THEOREM Implements == Spec => KeepsContract
<1>1. Init => Contract!Init
  BY DEF Init, Contract!Init, Health, Life, Holding, LeaseOf
<1>2. Inv /\ [Next]_vars => [Contract!Next]_(Contract!nativeVars)
  BY StepContract
<1> QED
  BY <1>1, <1>2, FrameInvariant, PTL DEF Spec, KeepsContract, Contract!Spec
=============================================================================
