-------------------------- MODULE LayerShellProofs --------------------------
(***************************************************************************)
(* Proofs about LayerShellController for every value of its constants.     *)
(***************************************************************************)
EXTENDS LayerShellController, TLAPS

USE BoundsAssumption, SizesAssumption, NoFrameAssumption

(* Where the threads are, and what that says of their local frames.        *)
Control ==
  /\ js = "submitting" <=> submission # NoFrame
  /\ call = "present" <=> pumped # NoFrame
  /\ call = "create" => nextGeneration \in Generations
  /\ dispatch \in {"top", "destroy", "disconnect", "ended"} => call = "none"

-----------------------------------------------------------------------------
(* The fields of a frame have their types.                                 *)
LEMMA FrameType ==
  \A frame \in FrameRecords :
    /\ frame.id \in Frames /\ frame.backend \in {"shm", "dmabuf"}
    /\ frame.size \in Sizes /\ frame.generation \in Generations
BY DEF FrameRecords

(* Completing leases keeps the completion queue a multiset of ids.         *)
LEMMA CompleteType ==
  ASSUME completionQueue \in [Frames -> Nat], NEW ids, Complete(ids)
  PROVE  completionQueue' \in [Frames -> Nat]
BY DEF Complete, Count

(* Counting drops keeps the drop counters natural numbers.                 *)
LEMMA DropType ==
  ASSUME drops \in [Frames -> Nat], NEW ids, CountDropped(ids)
  PROVE  drops' \in [Frames -> Nat]
BY DEF CountDropped, Count

(* The state Initialize leaves is well-typed.                              *)
LEMMA InitTyped == Init => TypeOK /\ Control
<1> SUFFICES ASSUME Init PROVE TypeOK /\ Control
  OBVIOUS
<1>1. 1 \in Generations /\ nextFrame \in 1 .. MaxFrames + 1
      /\ nextGeneration \in 2 .. MaxGenerations + 1
  BY DEF Init, Generations
<1>2. /\ buffers \subseteq ShmBuffers /\ active \subseteq buffers
      /\ released \subseteq buffers /\ heldShm \subseteq ShmBuffers
  BY <1>1 DEF Init, ShmBuffers
<1>3. committed \in [buffer: ShmBuffers \cup {NoBuffer}, frame: 0 .. MaxFrames, size: Sizes]
  BY <1>1 DEF Init, ShmBuffers
<1>4. completionQueue \in [Frames -> Nat] /\ taken \in [Frames -> Nat]
      /\ drops \in [Frames -> Nat]
  BY DEF Init
<1> QED
  BY <1>1, <1>2, <1>3, <1>4 DEF Init, TypeOK, Control

(* TypeOK and Control are inductive together.                              *)
LEMMA StepTyped == TypeOK /\ Control /\ [Next]_vars => TypeOK' /\ Control'
<1> SUFFICES ASSUME TypeOK, Control, [Next]_vars PROVE TypeOK' /\ Control'
  OBVIOUS
<1> USE DEF vars, jsVars, mailboxVars, configuredVars, bufferVars,
            compositorVars, leaseVars, countVars, flagVars, threadVars
<1>1. ASSUME NEW backend \in {"shm", "dmabuf"}, NEW size \in Sizes,
             SubmitRefused(backend, size)
      PROVE  TypeOK' /\ Control'
  <2>1. drops' \in [Frames -> Nat]
    BY <1>1, DropType DEF SubmitRefused, TypeOK
  <2>2. nextFrame' \in 1 .. MaxFrames + 1
    BY <1>1 DEF SubmitRefused, Frames, TypeOK
  <2> QED
    BY <1>1, <2>1, <2>2 DEF SubmitRefused, TypeOK, Control
<1>2. ASSUME NEW backend \in {"shm", "dmabuf"}, NEW size \in Sizes,
             SubmitBegin(backend, size)
      PROVE  TypeOK' /\ Control'
  <2>1. nextFrame' \in 1 .. MaxFrames + 1
    BY <1>2 DEF SubmitBegin, Frames, TypeOK
  <2>2. submission' \in FrameRecords
    BY <1>2 DEF SubmitBegin, NewFrame, FrameRecords, TypeOK
  <2>3. leases' \subseteq Frames
    BY <1>2 DEF SubmitBegin, TypeOK
  <2> QED
    BY <1>2, <2>1, <2>2, <2>3 DEF SubmitBegin, TypeOK, Control
<1>3. ASSUME SubmitThrows PROVE TypeOK' /\ Control'
  <2>1. completionQueue' \in [Frames -> Nat]
    BY <1>3, CompleteType DEF SubmitThrows, TypeOK
  <2> QED
    BY <1>3, <2>1 DEF SubmitThrows, TypeOK, Control
<1>4. ASSUME SubmitEnd PROVE TypeOK' /\ Control'
  <2>1. completionQueue' \in [Frames -> Nat]
    BY <1>4, CompleteType DEF SubmitEnd, TypeOK
  <2>2. drops' \in [Frames -> Nat]
    BY <1>4, DropType DEF SubmitEnd, TypeOK
  <2>3. submission \in FrameRecords
    BY <1>4 DEF SubmitEnd, Control, TypeOK
  <2>4. pendingFrame' \in FrameRecords \cup {NoFrame}
    BY <1>4, <2>3 DEF SubmitEnd, TypeOK
  <2>5. accepted' \subseteq Frames
    BY <1>4, <2>3, FrameType DEF SubmitEnd, TypeOK
  <2>6. wake' \in BOOLEAN
    BY <1>4 DEF SubmitEnd, SignalWake, TypeOK
  <2> QED
    BY <1>4, <2>1, <2>2, <2>3, <2>4, <2>5, <2>6 DEF SubmitEnd, TypeOK,
       Control
<1>5. ASSUME TakeReleasedDmabufs PROVE TypeOK' /\ Control'
  BY <1>5 DEF TakeReleasedDmabufs, TypeOK, Control
<1>6. ASSUME CloseBegin PROVE TypeOK' /\ Control'
  BY <1>6 DEF CloseBegin, TypeOK, Control
<1>7. ASSUME CloseStop PROVE TypeOK' /\ Control'
  <2>1. completionQueue' \in [Frames -> Nat]
    BY <1>7, CompleteType DEF CloseStop, DiscardPending, TypeOK
  <2> QED
    BY <1>7, <2>1 DEF CloseStop, DiscardPending, SignalWake, TypeOK,
       Control
<1>8. ASSUME CloseJoin PROVE TypeOK' /\ Control'
  BY <1>8 DEF CloseJoin, TypeOK, Control
<1>9. ASSUME LoopTop PROVE TypeOK' /\ Control'
  BY <1>9 DEF LoopTop, TypeOK, Control
<1>10. ASSUME LoopPump PROVE TypeOK' /\ Control'
  BY <1>10 DEF LoopPump, TypeOK, Control
<1>11. ASSUME PollWake PROVE TypeOK' /\ Control'
  BY <1>11 DEF PollWake, TypeOK, Control
<1>12. ASSUME LoopEnd PROVE TypeOK' /\ Control'
  BY <1>12 DEF LoopEnd, TypeOK, Control
<1>13. ASSUME DestroyWaylandObjects PROVE TypeOK' /\ Control'
  <2>1. completionQueue' \in [Frames -> Nat]
    BY <1>13, CompleteType DEF DestroyWaylandObjects, TypeOK
  <2> QED
    BY <1>13, <2>1 DEF DestroyWaylandObjects, TypeOK, Control
<1>14. ASSUME Disconnect PROVE TypeOK' /\ Control'
  BY <1>14 DEF Disconnect, TypeOK, Control
<1>15. ASSUME PumpNothing PROVE TypeOK' /\ Control'
  BY <1>15 DEF PumpNothing, TypeOK, Control
<1>16. ASSUME PumpDrop PROVE TypeOK' /\ Control'
  <2>1. completionQueue' \in [Frames -> Nat]
    BY <1>16, CompleteType DEF PumpDrop, DiscardPending, TypeOK
  <2>2. drops' \in [Frames -> Nat]
    BY <1>16, DropType DEF PumpDrop, TypeOK
  <2> QED
    BY <1>16, <2>1, <2>2 DEF PumpDrop, DiscardPending, TypeOK, Control
<1>17. ASSUME PumpTake PROVE TypeOK' /\ Control'
  BY <1>17 DEF PumpTake, Pumpable, TypeOK, Control
<1>18. ASSUME PresentShm PROVE TypeOK' /\ Control'
  <2>1. pumped \in FrameRecords
    BY <1>18 DEF PresentShm, Control, TypeOK
  <2>2. committed' \in [buffer: ShmBuffers \cup {NoBuffer}, frame: 0 .. MaxFrames, size: Sizes]
    BY <1>18, <2>1, FrameType DEF PresentShm, Commit, Available, Frames,
       TypeOK
  <2>3. heldShm' \subseteq ShmBuffers /\ released' \subseteq buffers
    BY <1>18 DEF PresentShm, Available, TypeOK
  <2>4. callbacks' \in Nat /\ mapped' = TRUE
    BY <1>18 DEF PresentShm, Commit, TypeOK
  <2>5. presented' \subseteq Frames
    BY <1>18, <2>1, FrameType DEF PresentShm, TypeOK
  <2> QED
    BY <1>18, <2>1, <2>2, <2>3, <2>4, <2>5 DEF PresentShm, TypeOK,
       Control
<1>19. ASSUME StartDmabufImport PROVE TypeOK' /\ Control'
  BY <1>19 DEF StartDmabufImport, TypeOK, Control
<1>20. ASSUME StartDmabufImportFails PROVE TypeOK' /\ Control'
  <2>1. completionQueue' \in [Frames -> Nat]
    BY <1>20, CompleteType DEF StartDmabufImportFails, TypeOK
  <2>2. drops' \in [Frames -> Nat]
    BY <1>20, DropType DEF StartDmabufImportFails, TypeOK
  <2>3. Control'
    BY <1>20 DEF StartDmabufImportFails, Control, TypeOK
  <2>4. dmabufUsable' \in BOOLEAN
    BY <1>20 DEF StartDmabufImportFails, TypeOK
  <2>5. /\ pumped' \in FrameRecords \cup {NoFrame}
        /\ call' \in {"none", "pump", "present", "create"}
    BY <1>20 DEF StartDmabufImportFails, TypeOK
  <2>6. UNCHANGED <<jsVars, mailboxVars, configuredVars, bufferVars,
                  compositorVars, leases, taken, accepted, presented, stop,
                  closed, compositorClosed, mapped, wake, error, dispatch,
                  dmabufImport, dmabufBuffers, callbacks>>
    BY <1>20 DEF StartDmabufImportFails, TypeOK
  <2> QED
    BY <2>1, <2>2, <2>3, <2>4, <2>5, <2>6 DEF TypeOK
<1>21. ASSUME CreateBuffers PROVE TypeOK' /\ Control'
  <2>1. completionQueue' \in [Frames -> Nat]
    BY <1>21, CompleteType DEF CreateBuffers, DiscardPending, TypeOK
  <2>2. drops' \in [Frames -> Nat]
    BY <1>21, DropType DEF CreateBuffers, TypeOK
  <2>3. nextGeneration \in Generations /\ nextGeneration' \in 2 .. MaxGenerations + 1
    BY <1>21 DEF CreateBuffers, Control, Generations, TypeOK
  <2>4. active' \subseteq ShmBuffers /\ <<nextGeneration, 0>> \in ShmBuffers
    BY <1>21, <2>3 DEF CreateBuffers, ShmBuffers, TypeOK
  <2>5. buffers' \subseteq ShmBuffers /\ active' \subseteq buffers'
    BY <1>21, <2>4 DEF CreateBuffers, TypeOK
  <2>6. released' \subseteq buffers'
    BY <1>21 DEF CreateBuffers, TypeOK
  <2>7. heldShm' \subseteq ShmBuffers
    BY <1>21, <2>4 DEF CreateBuffers, TypeOK
  <2>8. committed' \in [buffer: ShmBuffers \cup {NoBuffer}, frame: 0 .. MaxFrames, size: Sizes]
    BY <1>21, <2>4 DEF CreateBuffers, Commit, TypeOK
  <2>9. callbacks' \in Nat /\ mapped' = TRUE
    BY <1>21 DEF CreateBuffers, Commit, TypeOK
  <2>10. pendingFrame' = NoFrame
    BY <1>21 DEF CreateBuffers, DiscardPending, TypeOK
  <2> QED
    BY <1>21, <2>1, <2>2, <2>3, <2>4, <2>5, <2>6, <2>7, <2>8, <2>9,
       <2>10 DEF CreateBuffers, TypeOK, Control
<1>22. ASSUME CreateBuffersFails PROVE TypeOK' /\ Control'
  <2>1. nextGeneration' \in 2 .. MaxGenerations + 1
    BY <1>22 DEF CreateBuffersFails, Control, Generations, TypeOK
  <2> QED
    BY <1>22, <2>1 DEF CreateBuffersFails, TypeOK, Control
<1>23. ASSUME NEW size \in Sizes, LayerConfigure(size)
      PROVE  TypeOK' /\ Control'
  <2>1. completionQueue' \in [Frames -> Nat]
         /\ pendingFrame' \in FrameRecords \cup {NoFrame}
    BY <1>23, CompleteType DEF LayerConfigure, DiscardPending, TypeOK
  <2>2. drops' \in [Frames -> Nat]
    BY <1>23, DropType DEF LayerConfigure, TypeOK
  <2>3. callbacks' \in Nat /\ call' \in {"none", "create"}
    BY <1>23 DEF LayerConfigure, Listening, TypeOK
  <2>4. acceptingFrames' \in BOOLEAN /\ error' \in BOOLEAN
    BY <1>23 DEF LayerConfigure, TypeOK
  <2>5. call' = "create" => nextGeneration \in Generations
    BY <1>23 DEF LayerConfigure, Listening, TypeOK
  <2> QED
    BY <1>23, <2>1, <2>2, <2>3, <2>4, <2>5 DEF LayerConfigure,
       Listening, TypeOK, Control
<1>24. ASSUME LayerClosed PROVE TypeOK' /\ Control'
  <2>1. completionQueue' \in [Frames -> Nat]
    BY <1>24, CompleteType DEF LayerClosed, ShutSurface, DiscardPending,
       TypeOK
  <2> QED
    BY <1>24, <2>1 DEF LayerClosed, Listening, ShutSurface,
       DiscardPending, TypeOK, Control
<1>25. ASSUME FrameDone PROVE TypeOK' /\ Control'
  BY <1>25 DEF FrameDone, Listening, TypeOK, Control
<1>26. ASSUME NEW b \in ShmBuffers, BufferRelease(b)
      PROVE  TypeOK' /\ Control'
  BY <1>26 DEF BufferRelease, Listening, Collectable, TypeOK, Control
<1>27. ASSUME NEW f \in Frames, DmabufBufferRelease(f)
      PROVE  TypeOK' /\ Control'
  <2>1. completionQueue' \in [Frames -> Nat]
    BY <1>27, CompleteType DEF DmabufBufferRelease, TypeOK
  <2> QED
    BY <1>27, <2>1 DEF DmabufBufferRelease, Listening, TypeOK, Control
<1>28. ASSUME DmabufCreated PROVE TypeOK' /\ Control'
  <2>1. completionQueue' \in [Frames -> Nat]
    BY <1>28, CompleteType DEF DmabufCreated, TypeOK
  <2>2. drops' \in [Frames -> Nat]
    BY <1>28, DropType DEF DmabufCreated, TypeOK
  <2>3. dmabufImport \in FrameRecords
    BY <1>28 DEF DmabufCreated, TypeOK
  <2>4. committed' \in [buffer: ShmBuffers \cup {NoBuffer}, frame: 0 .. MaxFrames, size: Sizes]
    BY <1>28, <2>3, FrameType DEF DmabufCreated, Commit, Frames, TypeOK
  <2>5. /\ dmabufBuffers' \subseteq Frames /\ heldDmabuf' \subseteq Frames
         /\ presented' \subseteq Frames
    BY <1>28, <2>3, FrameType DEF DmabufCreated, TypeOK
  <2>6. callbacks' \in Nat /\ call' \in {"none", "pump"}
    BY <1>28 DEF DmabufCreated, Commit, Listening, TypeOK
  <2>7. mapped' \in BOOLEAN
    BY <1>28 DEF DmabufCreated, Commit, TypeOK
  <2> QED
    BY <1>28, <2>1, <2>2, <2>3, <2>4, <2>5, <2>6, <2>7 DEF
       DmabufCreated, Listening, TypeOK, Control
<1>29. ASSUME DmabufFailed PROVE TypeOK' /\ Control'
  <2>1. completionQueue' \in [Frames -> Nat]
    BY <1>29, CompleteType DEF DmabufFailed, TypeOK
  <2>2. drops' \in [Frames -> Nat]
    BY <1>29, DropType DEF DmabufFailed, TypeOK
  <2> QED
    BY <1>29, <2>1, <2>2 DEF DmabufFailed, Listening, TypeOK, Control
<1>30. ASSUME DisplayFailure PROVE TypeOK' /\ Control'
  <2>1. completionQueue' \in [Frames -> Nat]
    BY <1>30, CompleteType DEF DisplayFailure, ShutSurface,
       DiscardPending, TypeOK
  <2> QED
    BY <1>30, <2>1 DEF DisplayFailure, ShutSurface, DiscardPending,
       TypeOK, Control
<1>31. ASSUME DisplayFailureIgnored PROVE TypeOK' /\ Control'
  BY <1>31 DEF DisplayFailureIgnored, TypeOK, Control
<1>32. CASE UNCHANGED vars
  BY <1>32 DEF TypeOK, Control
<1> QED
  BY <1>1, <1>2, <1>3, <1>4, <1>5, <1>6, <1>7, <1>8, <1>9, <1>10, <1>11,
     <1>12, <1>13, <1>14, <1>15, <1>16, <1>17, <1>18, <1>19, <1>20, <1>21,
     <1>22, <1>23, <1>24, <1>25, <1>26, <1>27, <1>28, <1>29, <1>30, <1>31,
     <1>32 DEF Next, JavaScript, Loop, Pump, Create, Events, Answer,
     Terminated

(* Every reachable state of the controller is well-typed.                  *)
THEOREM TypeCorrect == Spec => []TypeOK
<1>1. Init => TypeOK /\ Control
  BY InitTyped
<1>2. TypeOK /\ Control /\ [Next]_vars => (TypeOK /\ Control)'
  BY StepTyped
<1> QED
  BY <1>1, <1>2, PTL DEF Spec
-----------------------------------------------------------------------------
(***************************************************************************)
(* A DMA-BUF lease is completed exactly once, and its id is not handed     *)
(* back while the compositor may read the buffer.                          *)
(***************************************************************************)

(* A lease is made for the frame submitted last: its id is new.            *)
FreshIds == \A f \in leases : f < nextFrame

(* Only a DMA-BUF frame is imported, one at a time.                        *)
Imports ==
  /\ dmabufImport # NoFrame => dmabufImport.backend = "dmabuf"
  /\ call = "present" => dmabufImport = NoFrame

(* While the connection stands, a buffer the compositor holds is one the   *)
(* dispatch thread knows.                                                  *)
HeldDmabufLive ==
  dispatch \notin {"disconnect", "ended"} => heldDmabuf \subseteq dmabufBuffers

(* The loop is stopped only by close(), which then waits for it; a loop    *)
(* that ended by itself lost the connection, and the compositor with it.   *)
Teardown ==
  /\ stop <=> js \in {"joining", "closed"}
  /\ js = "closed" => dispatch = "ended"
  /\ dispatch = "ended" => heldDmabuf = {}
  /\ dispatch \in {"destroy", "disconnect"} => js = "joining" \/ heldDmabuf = {}

LeaseControl == FreshIds /\ Imports /\ HeldDmabufLive /\ Teardown

LeaseInv == LeaseControl /\ LeaseExactlyOnce /\ ReturnedIsNotHeld
-----------------------------------------------------------------------------
(* Initially there is no lease.                                            *)
LEMMA InitLease == Init => LeaseInv
BY DEF Init, LeaseInv, LeaseControl, FreshIds, Imports, HeldDmabufLive, Teardown,
       LeaseExactlyOnce, ReturnedIsNotHeld, LeaseOf, Count

(* The control part of the invariant is preserved by every step.           *)
LEMMA StepLeaseControl ==
  TypeOK /\ Control /\ LeaseInv /\ [Next]_vars => LeaseControl'
<1> SUFFICES ASSUME TypeOK, Control, LeaseInv, [Next]_vars PROVE LeaseControl'
  OBVIOUS
<1> USE DEF vars, jsVars, mailboxVars, configuredVars, bufferVars,
            compositorVars, leaseVars, countVars, flagVars, threadVars
<1>1. ASSUME NEW backend \in {"shm", "dmabuf"}, NEW size \in Sizes,
             SubmitRefused(backend, size) PROVE LeaseControl'
  BY <1>1 DEF SubmitRefused, LeaseControl, TypeOK, Control, LeaseInv,
     FreshIds, Imports, HeldDmabufLive, Teardown
<1>2. ASSUME NEW backend \in {"shm", "dmabuf"}, NEW size \in Sizes,
             SubmitBegin(backend, size) PROVE LeaseControl'
  BY <1>2 DEF SubmitBegin, NewFrame, LeaseControl, TypeOK, Control,
     LeaseInv, FreshIds, Imports, HeldDmabufLive, Teardown
<1>3. ASSUME SubmitThrows PROVE LeaseControl'
  BY <1>3 DEF SubmitThrows, LeaseControl, TypeOK, Control, LeaseInv,
     FreshIds, Imports, HeldDmabufLive, Teardown
<1>4. ASSUME SubmitEnd PROVE LeaseControl'
  BY <1>4 DEF SubmitEnd, SignalWake, LeaseControl, TypeOK, Control,
     LeaseInv, FreshIds, Imports, HeldDmabufLive, Teardown
<1>5. ASSUME TakeReleasedDmabufs PROVE LeaseControl'
  BY <1>5 DEF TakeReleasedDmabufs, LeaseControl, TypeOK, Control,
     LeaseInv, FreshIds, Imports, HeldDmabufLive, Teardown
<1>6. ASSUME CloseBegin PROVE LeaseControl'
  BY <1>6 DEF CloseBegin, LeaseControl, TypeOK, Control, LeaseInv,
     FreshIds, Imports, HeldDmabufLive, Teardown
<1>7. ASSUME CloseStop PROVE LeaseControl'
  BY <1>7 DEF CloseStop, DiscardPending, SignalWake, LeaseControl, TypeOK,
     Control, LeaseInv, FreshIds, Imports, HeldDmabufLive, Teardown
<1>8. ASSUME CloseJoin PROVE LeaseControl'
  BY <1>8 DEF CloseJoin, LeaseControl, TypeOK, Control, LeaseInv,
     FreshIds, Imports, HeldDmabufLive, Teardown
<1>9. ASSUME LoopTop PROVE LeaseControl'
  BY <1>9 DEF LoopTop, LeaseControl, TypeOK, Control, LeaseInv, FreshIds,
     Imports, HeldDmabufLive, Teardown
<1>10. ASSUME LoopPump PROVE LeaseControl'
  BY <1>10 DEF LoopPump, LeaseControl, TypeOK, Control, LeaseInv,
     FreshIds, Imports, HeldDmabufLive, Teardown
<1>11. ASSUME PollWake PROVE LeaseControl'
  BY <1>11 DEF PollWake, LeaseControl, TypeOK, Control, LeaseInv,
     FreshIds, Imports, HeldDmabufLive, Teardown
<1>12. ASSUME LoopEnd PROVE LeaseControl'
  BY <1>12 DEF LoopEnd, LeaseControl, TypeOK, Control, LeaseInv, FreshIds,
     Imports, HeldDmabufLive, Teardown
<1>13. ASSUME DestroyWaylandObjects PROVE LeaseControl'
  BY <1>13 DEF DestroyWaylandObjects, OwnedLeases, LeaseControl, TypeOK,
     Control, LeaseInv, FreshIds, Imports, HeldDmabufLive, Teardown
<1>14. ASSUME Disconnect PROVE LeaseControl'
  BY <1>14 DEF Disconnect, LeaseControl, TypeOK, Control, LeaseInv,
     FreshIds, Imports, HeldDmabufLive, Teardown
<1>15. ASSUME PumpNothing PROVE LeaseControl'
  BY <1>15 DEF PumpNothing, LeaseControl, TypeOK, Control, LeaseInv,
     FreshIds, Imports, HeldDmabufLive, Teardown
<1>16. ASSUME PumpDrop PROVE LeaseControl'
  BY <1>16 DEF PumpDrop, DiscardPending, LeaseControl, TypeOK, Control,
     LeaseInv, FreshIds, Imports, HeldDmabufLive, Teardown
<1>17. ASSUME PumpTake PROVE LeaseControl'
  BY <1>17 DEF PumpTake, Pumpable, LeaseControl, TypeOK, Control,
     LeaseInv, FreshIds, Imports, HeldDmabufLive, Teardown
<1>18. ASSUME PresentShm PROVE LeaseControl'
  BY <1>18 DEF PresentShm, LeaseControl, TypeOK, Control, LeaseInv,
     FreshIds, Imports, HeldDmabufLive, Teardown
<1>19. ASSUME StartDmabufImport PROVE LeaseControl'
  BY <1>19 DEF StartDmabufImport, LeaseControl, TypeOK, Control, LeaseInv,
     FreshIds, Imports, HeldDmabufLive, Teardown
<1>20. ASSUME StartDmabufImportFails PROVE LeaseControl'
  BY <1>20 DEF StartDmabufImportFails, LeaseControl, TypeOK, Control,
     LeaseInv, FreshIds, Imports, HeldDmabufLive, Teardown
<1>21. ASSUME CreateBuffers PROVE LeaseControl'
  BY <1>21 DEF CreateBuffers, DiscardPending, LeaseControl, TypeOK,
     Control, LeaseInv, FreshIds, Imports, HeldDmabufLive, Teardown
<1>22. ASSUME CreateBuffersFails PROVE LeaseControl'
  BY <1>22 DEF CreateBuffersFails, LeaseControl, TypeOK, Control,
     LeaseInv, FreshIds, Imports, HeldDmabufLive, Teardown
<1>23. ASSUME NEW size \in Sizes, LayerConfigure(size) PROVE LeaseControl'
  BY <1>23 DEF LayerConfigure, DiscardPending, Listening, LeaseControl,
     TypeOK, Control, LeaseInv, FreshIds, Imports, HeldDmabufLive,
     Teardown
<1>24. ASSUME LayerClosed PROVE LeaseControl'
  BY <1>24 DEF LayerClosed, ShutSurface, DiscardPending, Listening,
     LeaseControl, TypeOK, Control, LeaseInv, FreshIds, Imports,
     HeldDmabufLive, Teardown
<1>25. ASSUME FrameDone PROVE LeaseControl'
  BY <1>25 DEF FrameDone, Listening, LeaseControl, TypeOK, Control,
     LeaseInv, FreshIds, Imports, HeldDmabufLive, Teardown
<1>26. ASSUME NEW b \in ShmBuffers, BufferRelease(b) PROVE LeaseControl'
  BY <1>26 DEF BufferRelease, Listening, LeaseControl, TypeOK, Control,
     LeaseInv, FreshIds, Imports, HeldDmabufLive, Teardown
<1>27. ASSUME NEW f \in Frames, DmabufBufferRelease(f) PROVE LeaseControl'
  BY <1>27 DEF DmabufBufferRelease, Listening, LeaseControl, TypeOK,
     Control, LeaseInv, FreshIds, Imports, HeldDmabufLive, Teardown
<1>28. ASSUME DmabufCreated PROVE LeaseControl'
  BY <1>28 DEF DmabufCreated, Listening, LeaseControl, TypeOK, Control,
     LeaseInv, FreshIds, Imports, HeldDmabufLive, Teardown
<1>29. ASSUME DmabufFailed PROVE LeaseControl'
  BY <1>29 DEF DmabufFailed, Listening, LeaseControl, TypeOK, Control,
     LeaseInv, FreshIds, Imports, HeldDmabufLive, Teardown
<1>30. ASSUME DisplayFailure PROVE LeaseControl'
  BY <1>30 DEF DisplayFailure, ShutSurface, DiscardPending, LeaseControl,
     TypeOK, Control, LeaseInv, FreshIds, Imports, HeldDmabufLive,
     Teardown
<1>31. ASSUME DisplayFailureIgnored PROVE LeaseControl'
  BY <1>31 DEF DisplayFailureIgnored, LeaseControl, TypeOK, Control,
     LeaseInv, FreshIds, Imports, HeldDmabufLive, Teardown
<1>32. CASE UNCHANGED vars
  BY <1>32 DEF LeaseControl, TypeOK, Control, LeaseInv, FreshIds, Imports,
     HeldDmabufLive, Teardown
<1> QED
  BY <1>1, <1>2, <1>3, <1>4, <1>5, <1>6, <1>7, <1>8, <1>9, <1>10, <1>11,
     <1>12, <1>13, <1>14, <1>15, <1>16, <1>17, <1>18, <1>19, <1>20, <1>21,
     <1>22, <1>23, <1>24, <1>25, <1>26, <1>27, <1>28, <1>29, <1>30, <1>31,
     <1>32 DEF Next, JavaScript, Loop, Pump, Create, Events, Answer,
     Terminated

(* Every step moves a lease from one place to another.                     *)
LEMMA StepLeaseOnce ==
  TypeOK /\ Control /\ LeaseInv /\ [Next]_vars => LeaseExactlyOnce'
<1> SUFFICES ASSUME TypeOK, Control, LeaseInv, [Next]_vars PROVE LeaseExactlyOnce'
  OBVIOUS
<1> USE DEF vars, jsVars, mailboxVars, configuredVars, bufferVars,
            compositorVars, leaseVars, countVars, flagVars, threadVars
<1>a. /\ completionQueue \in [Frames -> Nat] /\ taken \in [Frames -> Nat]
      /\ nextFrame \in Nat /\ dmabufBuffers \subseteq Frames
  BY DEF TypeOK
<1>b. LeaseExactlyOnce /\ FreshIds /\ Imports /\ HeldDmabufLive
  BY DEF LeaseInv, LeaseControl
<1>c. dmabufImport # NoFrame => dmabufImport.id \in Frames
  BY FrameType DEF TypeOK
<1>1. ASSUME NEW backend \in {"shm", "dmabuf"}, NEW size \in Sizes,
             SubmitRefused(backend, size) PROVE LeaseExactlyOnce'
  BY <1>1, <1>a, <1>b DEF SubmitRefused, LeaseExactlyOnce, LeaseOf,
     Complete, Count, Control
<1>2. ASSUME NEW backend \in {"shm", "dmabuf"}, NEW size \in Sizes,
             SubmitBegin(backend, size) PROVE LeaseExactlyOnce'
  <2>1. LeaseOf(submission) = {}
    BY <1>2 DEF SubmitBegin, LeaseOf, Control
  <2>2. submission' \in FrameRecords
    BY <1>2 DEF SubmitBegin, NewFrame, FrameRecords, TypeOK
  <2>3. LeaseOf(submission)' = IF backend = "dmabuf" THEN {nextFrame} ELSE {}
    BY <1>2, <2>2, NoFrameAssumption DEF SubmitBegin, NewFrame, LeaseOf
  <2>4. leases' = leases \cup LeaseOf(submission)' /\ nextFrame \in Frames
    BY <1>2, <2>3 DEF SubmitBegin
  <2>5. nextFrame \notin leases
    BY <1>a, <1>b DEF FreshIds
  <2>6. /\ LeaseOf(pendingFrame)' = LeaseOf(pendingFrame)
        /\ LeaseOf(pumped)' = LeaseOf(pumped)
        /\ LeaseOf(dmabufImport)' = LeaseOf(dmabufImport)
        /\ UNCHANGED <<dmabufBuffers, completionQueue, taken>>
    BY <1>2 DEF SubmitBegin, LeaseOf
  <2>7. SUFFICES ASSUME NEW f \in Frames
        PROVE  Count(f \in LeaseOf(submission)') + Count(f \in LeaseOf(pendingFrame))
                 + Count(f \in LeaseOf(pumped)) + Count(f \in LeaseOf(dmabufImport))
                 + Count(f \in dmabufBuffers) + completionQueue[f] + taken[f]
               = Count(f \in leases')
    BY <2>6 DEF LeaseExactlyOnce
  <2>8. Count(f \in LeaseOf(pendingFrame))
          + Count(f \in LeaseOf(pumped)) + Count(f \in LeaseOf(dmabufImport))
          + Count(f \in dmabufBuffers) + completionQueue[f] + taken[f]
        = Count(f \in leases)
    BY <1>a, <1>b, <2>1 DEF LeaseExactlyOnce, Count
  <2> QED
    BY <1>a, <2>3, <2>4, <2>5, <2>8 DEF Count
<1>3. ASSUME SubmitThrows PROVE LeaseExactlyOnce'
  BY <1>3, <1>a, <1>b DEF SubmitThrows, LeaseExactlyOnce, LeaseOf,
     Complete, Count, Control
<1>4. ASSUME SubmitEnd PROVE LeaseExactlyOnce'
  BY <1>4, <1>a, <1>b DEF SubmitEnd, SignalWake, LeaseExactlyOnce,
     LeaseOf, Complete, Count, Control
<1>5. ASSUME TakeReleasedDmabufs PROVE LeaseExactlyOnce'
  BY <1>5, <1>a, <1>b DEF TakeReleasedDmabufs, LeaseExactlyOnce, LeaseOf,
     Complete, Count, Control
<1>6. ASSUME CloseBegin PROVE LeaseExactlyOnce'
  BY <1>6, <1>a, <1>b DEF CloseBegin, LeaseExactlyOnce, LeaseOf, Complete,
     Count, Control
<1>7. ASSUME CloseStop PROVE LeaseExactlyOnce'
  BY <1>7, <1>a, <1>b DEF CloseStop, DiscardPending, SignalWake,
     LeaseExactlyOnce, LeaseOf, Complete, Count, Control
<1>8. ASSUME CloseJoin PROVE LeaseExactlyOnce'
  BY <1>8, <1>a, <1>b DEF CloseJoin, LeaseExactlyOnce, LeaseOf, Complete,
     Count, Control
<1>9. ASSUME LoopTop PROVE LeaseExactlyOnce'
  BY <1>9, <1>a, <1>b DEF LoopTop, LeaseExactlyOnce, LeaseOf, Complete,
     Count, Control
<1>10. ASSUME LoopPump PROVE LeaseExactlyOnce'
  BY <1>10, <1>a, <1>b DEF LoopPump, LeaseExactlyOnce, LeaseOf, Complete,
     Count, Control
<1>11. ASSUME PollWake PROVE LeaseExactlyOnce'
  BY <1>11, <1>a, <1>b DEF PollWake, LeaseExactlyOnce, LeaseOf, Complete,
     Count, Control
<1>12. ASSUME LoopEnd PROVE LeaseExactlyOnce'
  BY <1>12, <1>a, <1>b DEF LoopEnd, LeaseExactlyOnce, LeaseOf, Complete,
     Count, Control
<1>13. ASSUME DestroyWaylandObjects PROVE LeaseExactlyOnce'
  BY <1>13, <1>a, <1>b DEF DestroyWaylandObjects, OwnedLeases,
     LeaseExactlyOnce, LeaseOf, Complete, Count, Control
<1>14. ASSUME Disconnect PROVE LeaseExactlyOnce'
  BY <1>14, <1>a, <1>b DEF Disconnect, LeaseExactlyOnce, LeaseOf,
     Complete, Count, Control
<1>15. ASSUME PumpNothing PROVE LeaseExactlyOnce'
  BY <1>15, <1>a, <1>b DEF PumpNothing, LeaseExactlyOnce, LeaseOf,
     Complete, Count, Control
<1>16. ASSUME PumpDrop PROVE LeaseExactlyOnce'
  BY <1>16, <1>a, <1>b DEF PumpDrop, DiscardPending, LeaseExactlyOnce,
     LeaseOf, Complete, Count, Control
<1>17. ASSUME PumpTake PROVE LeaseExactlyOnce'
  BY <1>17, <1>a, <1>b DEF PumpTake, Pumpable, LeaseExactlyOnce, LeaseOf,
     Complete, Count, Control
<1>18. ASSUME PresentShm PROVE LeaseExactlyOnce'
  BY <1>18, <1>a, <1>b DEF PresentShm, LeaseExactlyOnce, LeaseOf,
     Complete, Count, Control
<1>19. ASSUME StartDmabufImport PROVE LeaseExactlyOnce'
  <2>1. /\ dmabufImport = NoFrame /\ pumped' = NoFrame /\ dmabufImport' = pumped
        /\ UNCHANGED <<submission, pendingFrame, dmabufBuffers,
                       completionQueue, taken, leases>>
    BY <1>19, <1>b DEF StartDmabufImport, Imports
  <2> QED
    BY <1>a, <1>b, <2>1 DEF LeaseExactlyOnce, LeaseOf, Count
<1>20. ASSUME StartDmabufImportFails PROVE LeaseExactlyOnce'
  BY <1>20, <1>a, <1>b DEF StartDmabufImportFails, LeaseExactlyOnce,
     LeaseOf, Complete, Count, Control
<1>21. ASSUME CreateBuffers PROVE LeaseExactlyOnce'
  BY <1>21, <1>a, <1>b DEF CreateBuffers, DiscardPending,
     LeaseExactlyOnce, LeaseOf, Complete, Count, Control
<1>22. ASSUME CreateBuffersFails PROVE LeaseExactlyOnce'
  BY <1>22, <1>a, <1>b DEF CreateBuffersFails, LeaseExactlyOnce, LeaseOf,
     Complete, Count, Control
<1>23. ASSUME NEW size \in Sizes, LayerConfigure(size) PROVE LeaseExactlyOnce'
  BY <1>23, <1>a, <1>b DEF LayerConfigure, DiscardPending,
     LeaseExactlyOnce, LeaseOf, Complete, Count, Control
<1>24. ASSUME LayerClosed PROVE LeaseExactlyOnce'
  BY <1>24, <1>a, <1>b DEF LayerClosed, ShutSurface, DiscardPending,
     LeaseExactlyOnce, LeaseOf, Complete, Count, Control
<1>25. ASSUME FrameDone PROVE LeaseExactlyOnce'
  BY <1>25, <1>a, <1>b DEF FrameDone, LeaseExactlyOnce, LeaseOf, Complete,
     Count, Control
<1>26. ASSUME NEW b \in ShmBuffers, BufferRelease(b) PROVE LeaseExactlyOnce'
  BY <1>26, <1>a, <1>b DEF BufferRelease, LeaseExactlyOnce, LeaseOf,
     Complete, Count, Control
<1>27. ASSUME NEW f \in Frames, DmabufBufferRelease(f) PROVE LeaseExactlyOnce'
  <2>1. f \in dmabufBuffers
    BY <1>27, <1>b DEF DmabufBufferRelease, Listening, HeldDmabufLive
  <2>2. /\ dmabufBuffers' = dmabufBuffers \ {f}
        /\ \A g \in Frames : completionQueue'[g] = completionQueue[g] + Count(g = f)
        /\ UNCHANGED <<submission, pendingFrame, pumped, dmabufImport, taken, leases>>
    BY <1>27 DEF DmabufBufferRelease, Complete, Count
  <2> QED
    BY <1>a, <1>b, <2>1, <2>2 DEF LeaseExactlyOnce, LeaseOf, Count
<1>28. ASSUME DmabufCreated PROVE LeaseExactlyOnce'
  <2>1. LeaseOf(dmabufImport) = {dmabufImport.id} /\ LeaseOf(dmabufImport)' = {}
    BY <1>28, <1>b DEF DmabufCreated, Imports, LeaseOf
  <2>2. /\ LeaseOf(submission)' = LeaseOf(submission)
        /\ LeaseOf(pendingFrame)' = LeaseOf(pendingFrame)
        /\ LeaseOf(pumped)' = LeaseOf(pumped)
        /\ UNCHANGED <<taken, leases>>
    BY <1>28 DEF DmabufCreated, LeaseOf
  <2>3. CASE ImportIsCurrent
    <3>1. dmabufBuffers' = dmabufBuffers \cup {dmabufImport.id} /\ UNCHANGED completionQueue
      BY <1>28, <2>3 DEF DmabufCreated
    <3>2. dmabufImport.id \notin dmabufBuffers
      BY <1>a, <1>b, <1>c, <2>1 DEF LeaseExactlyOnce, Count
    <3> QED
      BY <1>a, <1>b, <2>1, <2>2, <3>1, <3>2 DEF LeaseExactlyOnce, Count
  <2>4. CASE ~ImportIsCurrent
    <3>1. /\ UNCHANGED dmabufBuffers
          /\ \A f \in Frames : completionQueue'[f]
               = completionQueue[f] + Count(f \in {dmabufImport.id})
      BY <1>28, <2>4 DEF DmabufCreated, Complete
    <3> QED
      BY <1>a, <1>b, <2>1, <2>2, <3>1 DEF LeaseExactlyOnce, Count
  <2> QED
    BY <2>3, <2>4
<1>29. ASSUME DmabufFailed PROVE LeaseExactlyOnce'
  <2> DEFINE lost == IF ImportIsCurrent THEN LeaseOf(pendingFrame) ELSE {}
  <2>1. LeaseOf(dmabufImport) = {dmabufImport.id} /\ LeaseOf(dmabufImport)' = {}
    BY <1>29, <1>b DEF DmabufFailed, Imports, LeaseOf
  <2>2. /\ LeaseOf(submission)' = LeaseOf(submission)
        /\ LeaseOf(pumped)' = LeaseOf(pumped)
        /\ UNCHANGED <<dmabufBuffers, taken, leases>>
    BY <1>29 DEF DmabufFailed, LeaseOf
  <2>3. LeaseOf(pendingFrame)' = LeaseOf(pendingFrame) \ lost /\ lost \subseteq LeaseOf(pendingFrame)
    BY <1>29 DEF DmabufFailed, LeaseOf
  <2>4. \A f \in Frames : completionQueue'[f]
           = completionQueue[f] + Count(f \in {dmabufImport.id} \cup lost)
    BY <1>29 DEF DmabufFailed, Complete
  <2> HIDE DEF lost
  <2>5. SUFFICES ASSUME NEW f \in Frames
        PROVE  Count(f \in LeaseOf(submission)) + Count(f \in LeaseOf(pendingFrame)')
                 + Count(f \in LeaseOf(pumped)) + Count(f \in LeaseOf(dmabufImport)')
                 + Count(f \in dmabufBuffers) + completionQueue[f]' + taken[f]
               = Count(f \in leases)
    BY <2>2 DEF LeaseExactlyOnce
  <2>6. Count(f \in LeaseOf(submission)) + Count(f \in LeaseOf(pendingFrame))
          + Count(f \in LeaseOf(pumped)) + Count(f \in LeaseOf(dmabufImport))
          + Count(f \in dmabufBuffers) + completionQueue[f] + taken[f]
        = Count(f \in leases)
    BY <1>b DEF LeaseExactlyOnce
  <2> QED
    BY <1>a, <2>1, <2>3, <2>4, <2>6 DEF Count
<1>30. ASSUME DisplayFailure PROVE LeaseExactlyOnce'
  BY <1>30, <1>a, <1>b DEF DisplayFailure, ShutSurface, DiscardPending,
     LeaseExactlyOnce, LeaseOf, Complete, Count, Control
<1>31. ASSUME DisplayFailureIgnored PROVE LeaseExactlyOnce'
  BY <1>31, <1>a, <1>b DEF DisplayFailureIgnored, LeaseExactlyOnce,
     LeaseOf, Complete, Count, Control
<1>32. CASE UNCHANGED vars
  BY <1>32, <1>b DEF LeaseExactlyOnce, LeaseOf, Complete, Count, Control
<1> QED
  BY <1>1, <1>2, <1>3, <1>4, <1>5, <1>6, <1>7, <1>8, <1>9, <1>10, <1>11,
     <1>12, <1>13, <1>14, <1>15, <1>16, <1>17, <1>18, <1>19, <1>20, <1>21,
     <1>22, <1>23, <1>24, <1>25, <1>26, <1>27, <1>28, <1>29, <1>30, <1>31,
     <1>32 DEF Next, JavaScript, Loop, Pump, Create, Events, Answer,
     Terminated

(* An id is handed back only after the compositor let its buffer go.       *)
LEMMA StepReturned ==
  TypeOK /\ Control /\ LeaseInv /\ [Next]_vars => ReturnedIsNotHeld'
<1> SUFFICES ASSUME TypeOK, Control, LeaseInv, [Next]_vars PROVE ReturnedIsNotHeld'
  OBVIOUS
<1> USE DEF vars, jsVars, mailboxVars, configuredVars, bufferVars,
            compositorVars, leaseVars, countVars, flagVars, threadVars
<1>a. completionQueue \in [Frames -> Nat] /\ taken \in [Frames -> Nat]
      /\ dmabufBuffers \subseteq Frames /\ heldDmabuf \subseteq Frames
  BY DEF TypeOK
<1>b. /\ LeaseExactlyOnce /\ FreshIds /\ Imports /\ HeldDmabufLive /\ Teardown
      /\ ReturnedIsNotHeld
  BY DEF LeaseInv, LeaseControl
<1>1. ASSUME NEW backend \in {"shm", "dmabuf"}, NEW size \in Sizes,
             SubmitRefused(backend, size) PROVE ReturnedIsNotHeld'
  BY <1>1, <1>b DEF SubmitRefused, ReturnedIsNotHeld
<1>2. ASSUME NEW backend \in {"shm", "dmabuf"}, NEW size \in Sizes,
             SubmitBegin(backend, size) PROVE ReturnedIsNotHeld'
  BY <1>2, <1>b DEF SubmitBegin, NewFrame, ReturnedIsNotHeld
<1>3. ASSUME SubmitThrows PROVE ReturnedIsNotHeld'
  BY <1>3, <1>b DEF SubmitThrows, ReturnedIsNotHeld
<1>4. ASSUME SubmitEnd PROVE ReturnedIsNotHeld'
  BY <1>4, <1>b DEF SubmitEnd, SignalWake, ReturnedIsNotHeld
<1>5. ASSUME TakeReleasedDmabufs PROVE ReturnedIsNotHeld'
  <2>1. js \in {"idle", "closed"} /\ UNCHANGED <<heldDmabuf, js>>
    BY <1>5 DEF TakeReleasedDmabufs
  <2>2. \A f \in Frames : taken'[f] = taken[f] + completionQueue[f]
    BY <1>5 DEF TakeReleasedDmabufs
  <2>3. dispatch \in {"disconnect", "ended"} => heldDmabuf = {}
    BY <2>1, <1>b DEF Teardown
  <2>4. heldDmabuf \subseteq dmabufBuffers
    BY <2>3, <1>b DEF HeldDmabufLive
  <2>5. \A f \in dmabufBuffers : completionQueue[f] = 0
    BY <1>a, <1>b DEF LeaseExactlyOnce, Count
  <2> QED
    BY <1>a, <1>b, <2>1, <2>2, <2>4, <2>5 DEF ReturnedIsNotHeld
<1>6. ASSUME CloseBegin PROVE ReturnedIsNotHeld'
  BY <1>6, <1>b DEF CloseBegin, ReturnedIsNotHeld
<1>7. ASSUME CloseStop PROVE ReturnedIsNotHeld'
  BY <1>7, <1>b DEF CloseStop, DiscardPending, SignalWake,
     ReturnedIsNotHeld
<1>8. ASSUME CloseJoin PROVE ReturnedIsNotHeld'
  BY <1>8, <1>b DEF CloseJoin, ReturnedIsNotHeld
<1>9. ASSUME LoopTop PROVE ReturnedIsNotHeld'
  BY <1>9, <1>b DEF LoopTop, ReturnedIsNotHeld
<1>10. ASSUME LoopPump PROVE ReturnedIsNotHeld'
  BY <1>10, <1>b DEF LoopPump, ReturnedIsNotHeld
<1>11. ASSUME PollWake PROVE ReturnedIsNotHeld'
  BY <1>11, <1>b DEF PollWake, ReturnedIsNotHeld
<1>12. ASSUME LoopEnd PROVE ReturnedIsNotHeld'
  BY <1>12, <1>b DEF LoopEnd, ReturnedIsNotHeld
<1>13. ASSUME DestroyWaylandObjects PROVE ReturnedIsNotHeld'
  BY <1>13, <1>b DEF DestroyWaylandObjects, OwnedLeases, ReturnedIsNotHeld
<1>14. ASSUME Disconnect PROVE ReturnedIsNotHeld'
  BY <1>14, <1>b DEF Disconnect, ReturnedIsNotHeld
<1>15. ASSUME PumpNothing PROVE ReturnedIsNotHeld'
  BY <1>15, <1>b DEF PumpNothing, ReturnedIsNotHeld
<1>16. ASSUME PumpDrop PROVE ReturnedIsNotHeld'
  BY <1>16, <1>b DEF PumpDrop, DiscardPending, ReturnedIsNotHeld
<1>17. ASSUME PumpTake PROVE ReturnedIsNotHeld'
  BY <1>17, <1>b DEF PumpTake, Pumpable, ReturnedIsNotHeld
<1>18. ASSUME PresentShm PROVE ReturnedIsNotHeld'
  BY <1>18, <1>b DEF PresentShm, ReturnedIsNotHeld
<1>19. ASSUME StartDmabufImport PROVE ReturnedIsNotHeld'
  BY <1>19, <1>b DEF StartDmabufImport, ReturnedIsNotHeld
<1>20. ASSUME StartDmabufImportFails PROVE ReturnedIsNotHeld'
  BY <1>20, <1>b DEF StartDmabufImportFails, ReturnedIsNotHeld
<1>21. ASSUME CreateBuffers PROVE ReturnedIsNotHeld'
  BY <1>21, <1>b DEF CreateBuffers, DiscardPending, ReturnedIsNotHeld
<1>22. ASSUME CreateBuffersFails PROVE ReturnedIsNotHeld'
  BY <1>22, <1>b DEF CreateBuffersFails, ReturnedIsNotHeld
<1>23. ASSUME NEW size \in Sizes, LayerConfigure(size) PROVE ReturnedIsNotHeld'
  BY <1>23, <1>b DEF LayerConfigure, DiscardPending, ReturnedIsNotHeld
<1>24. ASSUME LayerClosed PROVE ReturnedIsNotHeld'
  BY <1>24, <1>b DEF LayerClosed, ShutSurface, DiscardPending,
     ReturnedIsNotHeld
<1>25. ASSUME FrameDone PROVE ReturnedIsNotHeld'
  BY <1>25, <1>b DEF FrameDone, ReturnedIsNotHeld
<1>26. ASSUME NEW b \in ShmBuffers, BufferRelease(b) PROVE ReturnedIsNotHeld'
  BY <1>26, <1>b DEF BufferRelease, ReturnedIsNotHeld
<1>27. ASSUME NEW f \in Frames, DmabufBufferRelease(f) PROVE ReturnedIsNotHeld'
  BY <1>27, <1>b DEF DmabufBufferRelease, ReturnedIsNotHeld
<1>28. ASSUME DmabufCreated PROVE ReturnedIsNotHeld'
  <2>1. taken' = taken
    BY <1>28 DEF DmabufCreated
  <2>2. heldDmabuf' \subseteq heldDmabuf \cup {dmabufImport.id}
    BY <1>28 DEF DmabufCreated
  <2>3. dmabufImport.id \in Frames /\ LeaseOf(dmabufImport) = {dmabufImport.id}
    BY <1>28, <1>b, FrameType DEF DmabufCreated, TypeOK, Imports, LeaseOf
  <2>4. taken[dmabufImport.id] = 0
    <3> DEFINE f == dmabufImport.id
    <3>1. Count(f \in LeaseOf(submission)) + Count(f \in LeaseOf(pendingFrame))
            + Count(f \in LeaseOf(pumped)) + Count(f \in LeaseOf(dmabufImport))
            + Count(f \in dmabufBuffers) + completionQueue[f] + taken[f]
          = Count(f \in leases)
      BY <1>b, <2>3 DEF LeaseExactlyOnce
    <3>2. Count(f \in LeaseOf(dmabufImport)) = 1
      BY <2>3 DEF Count
    <3>3. completionQueue[f] \in Nat /\ taken[f] \in Nat
      BY <1>a, <2>3
    <3>4. \A P : Count(P) \in {0, 1}
      BY DEF Count
    <3> QED
      BY <3>1, <3>2, <3>3, <3>4
  <2> QED
    BY <1>b, <2>1, <2>2, <2>4 DEF ReturnedIsNotHeld
<1>29. ASSUME DmabufFailed PROVE ReturnedIsNotHeld'
  BY <1>29, <1>b DEF DmabufFailed, ReturnedIsNotHeld
<1>30. ASSUME DisplayFailure PROVE ReturnedIsNotHeld'
  BY <1>30, <1>b DEF DisplayFailure, ShutSurface, DiscardPending,
     ReturnedIsNotHeld
<1>31. ASSUME DisplayFailureIgnored PROVE ReturnedIsNotHeld'
  BY <1>31, <1>b DEF DisplayFailureIgnored, ReturnedIsNotHeld
<1>32. CASE UNCHANGED vars
  BY <1>32, <1>b DEF ReturnedIsNotHeld
<1> QED
  BY <1>1, <1>2, <1>3, <1>4, <1>5, <1>6, <1>7, <1>8, <1>9, <1>10, <1>11,
     <1>12, <1>13, <1>14, <1>15, <1>16, <1>17, <1>18, <1>19, <1>20, <1>21,
     <1>22, <1>23, <1>24, <1>25, <1>26, <1>27, <1>28, <1>29, <1>30, <1>31,
     <1>32 DEF Next, JavaScript, Loop, Pump, Create, Events, Answer,
     Terminated

(* LeaseInv holds in every reachable state.                                *)
LEMMA LeaseInvariant == Spec => [](TypeOK /\ Control /\ LeaseInv)
<1>1. Init => TypeOK /\ Control /\ LeaseInv
  BY InitTyped, InitLease
<1>2. TypeOK /\ Control /\ LeaseInv /\ [Next]_vars => (TypeOK /\ Control /\ LeaseInv)'
  <2> SUFFICES ASSUME TypeOK, Control, LeaseInv, [Next]_vars
               PROVE  (TypeOK /\ Control /\ LeaseInv)'
    OBVIOUS
  <2>1. TypeOK' /\ Control'
    BY StepTyped
  <2>2. LeaseControl'
    BY StepLeaseControl
  <2>3. LeaseExactlyOnce' /\ ReturnedIsNotHeld'
    BY StepLeaseOnce, StepReturned
  <2> QED
    BY <2>1, <2>2, <2>3 DEF LeaseInv
<1> QED
  BY <1>1, <1>2, PTL DEF Spec

(* For any number of frames, sizes and generations, every DmabufLease is   *)
(* completed exactly once: whatever drops, imports, attaches or tears down *)
(* the frame, its id is nowhere lost and nowhere doubled.                  *)
THEOREM LeaseOnce == Spec => []LeaseExactlyOnce
<1>1. LeaseInv => LeaseExactlyOnce
  BY DEF LeaseInv, LeaseControl
<1> QED
  BY <1>1, LeaseInvariant, PTL

(* For any number of frames, sizes and generations, no id JavaScript gets  *)
(* back names a buffer the compositor may still read.                      *)
THEOREM ReturnedNotHeld == Spec => []ReturnedIsNotHeld
<1>1. LeaseInv => ReturnedIsNotHeld
  BY DEF LeaseInv, LeaseControl
<1> QED
  BY <1>1, LeaseInvariant, PTL
=============================================================================
