---------------------- MODULE LayerShellImplementation ----------------------
(***************************************************************************)
(* LayerShellController implements NativeLayerShellController: the threads,*)
(* the mailbox and the Wayland events behind the interface.                *)
(***************************************************************************)
EXTENDS LayerShellController

(* Ids with a lease somewhere between submitDmabuf and the completion      *)
(* queue.                                                                  *)
Holding ==
  LeaseOf(submission) \cup LeaseOf(pendingFrame) \cup LeaseOf(pumped)
    \cup LeaseOf(dmabufImport) \cup dmabufBuffers

Health == IF compositorClosed THEN "ended" ELSE IF error THEN "failed" ELSE "up"

Life == IF js = "closed" THEN "closed" ELSE IF closed THEN "closing" ELSE "open"

Contract ==
  INSTANCE NativeLayerShellController WITH
    Ids <- Frames, size <- configuredSize, open <- acceptingFrames,
    usable <- dmabufUsable, health <- Health, life <- Life,
    holding <- Holding, queue <- {f \in Frames : completionQueue[f] > 0}

(* Every step of the threads is a step JavaScript may count on, or one it  *)
(* cannot see.                                                             *)
KeepsContract == Contract!Spec
=============================================================================
