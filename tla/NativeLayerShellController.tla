--------------------- MODULE NativeLayerShellController ---------------------
(***************************************************************************)
(* What the native layer-shell controller promises the JavaScript code     *)
(* that calls it (interface NativeLayerShellController of index.ts), after *)
(* initialize() has resolved.  LayerShellController implements it, see     *)
(* LayerShellImplementation; LayerShellOverlay relies on it.               *)
(*                                                                         *)
(* The promise that matters is about DMA-BUFs: an id accepted once is held *)
(* until it is completed once, and every id is completed before close()    *)
(* returns.                                                                *)
(***************************************************************************)
EXTENDS FiniteSets

CONSTANTS Sizes, \* the surface sizes the compositor may configure
          Ids    \* submission ids

VARIABLES
  size,     \* width_ and height_
  open,     \* acceptingFrames_
  usable,   \* dmabufUsable_
  health,   \* "failed": getState().error; "ended": also compositorClosed
  life,     \* "closing" while JavaScript waits in close()
  holding,  \* ids of the DMA-BUFs the controller or the compositor may use
  queue     \* ids completed and not yet taken

nativeVars == <<size, open, usable, health, life, holding, queue>>

Init ==
  /\ size \in Sizes /\ open = TRUE /\ usable \in BOOLEAN
  /\ health = "up" /\ life = "open" /\ holding = {} /\ queue = {}

TypeOK ==
  /\ size \in Sizes /\ open \in BOOLEAN /\ usable \in BOOLEAN
  /\ health \in {"up", "failed", "ended"}
  /\ life \in {"open", "closing", "closed"}
  /\ holding \subseteq Ids /\ queue \subseteq Ids

Complete(ids) ==
  ids \subseteq holding /\ holding' = holding \ ids /\ queue' = queue \cup ids

-----------------------------------------------------------------------------
(* JavaScript's calls.                                                     *)

Accepts(backend, frameSize) ==
  /\ open /\ life = "open" /\ health # "ended"
  /\ backend = "dmabuf" => usable
  /\ frameSize = size

(* submitDmabuf has made a lease of the id.                                *)
Lend(id) ==
  /\ Accepts("dmabuf", size) /\ id \notin holding
  /\ holding' = holding \cup {id}
  /\ UNCHANGED <<size, open, usable, health, life, queue>>

Take ==
  /\ life # "closing"
  /\ queue' = {}
  /\ UNCHANGED <<size, open, usable, health, life, holding>>

Close ==
  /\ life = "open"
  /\ life' = "closing"
  /\ UNCHANGED <<size, open, usable, health, holding, queue>>

CloseReturns ==
  /\ life = "closing" /\ holding = {}
  /\ life' = "closed"
  /\ UNCHANGED <<size, open, usable, health, holding, queue>>

-----------------------------------------------------------------------------
(* What the controller does by itself.                                     *)

(* Frames are refused, replaced, dropped, released or torn down; a failed  *)
(* import also disables DMA-BUF.                                           *)
Finish(ids) ==
  /\ Complete(ids)
  /\ usable' \in {usable, FALSE}
  /\ UNCHANGED <<size, open, health, life>>

(* A configure of another size begins, or another attempt after a failure, *)
(* or close() stops the mailbox.                                           *)
Shut(ids) ==
  /\ life # "closed"
  /\ open' = FALSE /\ Complete(ids)
  /\ health' \in {health} \cup (IF health = "failed" THEN {"up"} ELSE {})
  /\ UNCHANGED <<size, usable, life>>

(* The buffers of a new size exist ...                                     *)
Reopen(newSize) ==
  /\ life # "closed" /\ ~open /\ health = "up"
  /\ open' = TRUE /\ size' = newSize
  /\ UNCHANGED <<usable, health, life, holding, queue>>

(* ... or could not be created.                                            *)
Fail ==
  /\ life # "closed" /\ ~open /\ health = "up"
  /\ health' = "failed"
  /\ UNCHANGED <<size, open, usable, life, holding, queue>>

(* The compositor closed the surface or the connection broke.              *)
End(ids) ==
  /\ life # "closed"
  /\ health' = "ended" /\ open' = FALSE /\ Complete(ids)
  /\ UNCHANGED <<size, usable, life>>

Native ==
  \/ CloseReturns \/ Fail
  \/ \E ids \in SUBSET holding : Finish(ids) \/ Shut(ids) \/ End(ids)
  \/ \E newSize \in Sizes : Reopen(newSize)

Next ==
  \/ \E id \in Ids : Lend(id)
  \/ Take \/ Close \/ Native

Spec == Init /\ [][Next]_nativeVars
=============================================================================
