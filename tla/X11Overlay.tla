------------------------------ MODULE X11Overlay -----------------------------
(***************************************************************************)
(* X11Overlay (addon.cc): the controller that makes a BrowserWindow an     *)
(* overlay by X properties, client messages and requests.  The window is   *)
(* Electron's, which maps and unmaps it, and the window manager's, which   *)
(* takes over its state when it maps it, hears of everything later, in     *)
(* order, and clears the state when it is withdrawn.  Only the X server    *)
(* answers at once; a call is atomic between two of its round trips.       *)
(***************************************************************************)
EXTENDS Naturals, Sequences

CONSTANTS
  Places,    \* rectangles
  Parents,   \* windows of other processes
  NoParent,  \* None
  NoPlace,   \* of a window that has gone
  MaxInbox   \* bound: how far the window manager may be behind when a method
             \* begins or Electron shows or hides the window

(* _NET_WM_STATE_ABOVE, and _SKIP_TASKBAR for the atoms always wanted.     *)
Atoms == {"above", "skip"}

VARIABLES
  closed,
  config,  \* bounds, position_parent, click_through and always_on_top
  parent,  \* the window of parent_
  cached,  \* its bounds when they were last read
  call,    \* the call in progress
  (* the X server's side of the overlay window *)
  viewable, state, transient, shape, geometry,
  (* the window manager *)
  inbox,   \* what it has not yet heard of
  managed, wmState,
  (* Electron and the other processes *)
  shown, place,
  dirty    \* the window was mapped, unmapped or withdrawn while, or since,
           \* the policy was applied, or was not mapped then with messages
           \* of earlier calls on their way to it

controllerVars == <<closed, config, parent, cached>>
windowVars == <<viewable, state, transient, shape, geometry>>
wmVars == <<inbox, managed, wmState>>
worldVars == <<shown, place>>
vars == <<controllerVars, call, windowVars, wmVars, worldVars, dirty>>

NoCall == [at |-> "idle", todo |-> <<>>, atom |-> "none", read |-> {}, apply |-> FALSE, position |-> FALSE]
Idle == call.at = "idle"

Init ==
  /\ closed = FALSE /\ parent = NoParent /\ cached \in Places
  /\ config \in [bounds: Places, positionParent: {FALSE}, clickThrough: {FALSE}, above: {FALSE}]
  /\ call = [NoCall EXCEPT !.at = "unconfigured"]
  /\ viewable = FALSE /\ state = {} /\ transient = NoParent /\ shape = "window"
  /\ geometry \in Places
  /\ inbox = <<>> /\ managed = FALSE /\ wmState = {}
  /\ shown = FALSE /\ place \in [Parents -> Places]
  /\ dirty = FALSE

-----------------------------------------------------------------------------
Pending(message) == \E i \in DOMAIN inbox : inbox[i][1] = message

(* The window manager is on the way to map or to withdraw the window, or   *)
(* messages of earlier calls are on their way to a window that is not      *)
(* mapped, but may be again when they arrive, after what is written now.   *)
Changing == managed # viewable
Overtaken == ~viewable /\ Pending("state")

Wants(atom) == atom = "above" => config.above
InputShape(clickThrough) == IF clickThrough THEN "empty" ELSE "window"

(* XMoveResizeWindow is redirected to the window manager.                  *)
Move(at) == inbox' = Append(inbox, <<"configure", at>>)

(* Apply(position), from its first request.                                *)
ApplyBegin(position) ==
  /\ call' = [NoCall EXCEPT !.at = "attributes", !.todo = <<"above", "skip">>,
                            !.apply = TRUE, !.position = position]
  /\ dirty' = (Changing \/ Overtaken)

(* The methods begin: when idle, open, and the window manager not too far  *)
(* behind.                                                                 *)
Begins ==
  /\ Idle /\ ~closed /\ Len(inbox) < MaxInbox

VisibleUnchecked(window) == TRUE \* defect: a parent that has gone is trusted
Visible(window) == place[window] # NoPlace

(* Any that the query lets it choose among the client windows.             *)
FindParent == {w \in Parents : Visible(w)}

(* Configure and the constructor, with a parent query or without.          *)
Configure ==
  /\ call.at = "unconfigured"
  /\ config' \in [bounds: Places, positionParent: BOOLEAN, clickThrough: BOOLEAN, above: BOOLEAN]
  /\ \/ parent' = NoParent /\ UNCHANGED cached
     \/ \E w \in FindParent : parent' = w /\ cached' = place[w]
  /\ ApplyBegin(TRUE)
  /\ transient' = parent'
  /\ UNCHANGED <<closed, viewable, state, shape, geometry, wmVars, worldVars>>

(* If FindParent finds nothing, null is returned and nothing changes.      *)
AttachParent(w, reposition) ==
  /\ Begins /\ w \in FindParent
  /\ parent' = w /\ cached' = place[w] /\ transient' = w
  /\ IF reposition THEN Move(place[w]) ELSE UNCHANGED inbox
  /\ ApplyBegin(FALSE)
  /\ UNCHANGED <<closed, config, viewable, state, shape, geometry, managed, wmState, worldVars>>

DetachParent ==
  /\ Begins
  /\ parent' = NoParent /\ transient' = NoParent
  /\ UNCHANGED <<closed, config, cached, call, viewable, state, shape, geometry,
                 wmVars, worldVars, dirty>>

SetBounds(bounds) ==
  /\ Begins
  /\ config' = [config EXCEPT !.bounds = bounds, !.positionParent = FALSE]
  /\ Move(bounds)
  /\ UNCHANGED <<closed, parent, cached, call, windowVars, managed, wmState, worldVars, dirty>>

UseParentBounds ==
  /\ Begins
  /\ config' = [config EXCEPT !.positionParent = TRUE]
  /\ IF parent # NoParent /\ Visible(parent)
     THEN cached' = place[parent] /\ Move(place[parent])
     ELSE UNCHANGED <<cached, inbox>>
  /\ UNCHANGED <<closed, parent, call, windowVars, managed, wmState, worldVars, dirty>>

SetClickThrough(enabled) ==
  /\ Begins
  /\ config' = [config EXCEPT !.clickThrough = enabled]
  /\ shape' = InputShape(enabled)
  /\ UNCHANGED <<closed, parent, cached, call, viewable, state, transient, geometry,
                 wmVars, worldVars, dirty>>

SetAlwaysOnTop(enabled) ==
  /\ Begins
  /\ config' = [config EXCEPT !.above = enabled]
  /\ call' = [NoCall EXCEPT !.at = "attributes", !.todo = <<"above">>]
  /\ dirty' = (dirty \/ Changing)
  /\ UNCHANGED <<closed, parent, cached, windowVars, wmVars, worldVars>>

Reapply ==
  /\ Begins
  /\ ApplyBegin(FALSE) /\ transient' = parent
  /\ UNCHANGED <<controllerVars, viewable, state, shape, geometry, wmVars, worldVars>>

-----------------------------------------------------------------------------
(* ChangeAtomState.                                                        *)

(* GetWindowAttributesSafely decides: a message to the window manager, or  *)
(* the property itself.                                                    *)
WritesAlways == FALSE \* defect: the property also of a mapped window
ThroughManager == viewable
GetAttributes ==
  /\ call.at = "attributes" /\ call.todo # <<>>
  /\ call' = [call EXCEPT !.atom = Head(call.todo), !.todo = Tail(call.todo),
                          !.at = IF ThroughManager THEN "message" ELSE "read"]
  /\ UNCHANGED <<controllerVars, windowVars, wmVars, worldVars, dirty>>

SendMessage ==
  /\ call.at = "message"
  /\ inbox' = Append(inbox, <<"state", call.atom, Wants(call.atom)>>)
  /\ call' = [call EXCEPT !.at = "attributes"]
  /\ UNCHANGED <<controllerVars, windowVars, managed, wmState, worldVars, dirty>>

ReadState ==
  /\ call.at = "read"
  /\ call' = [call EXCEPT !.at = "write", !.read = state]
  /\ UNCHANGED <<controllerVars, windowVars, wmVars, worldVars, dirty>>

Changed(atoms, atom, on) == IF on THEN atoms \cup {atom} ELSE atoms \ {atom}

WriteState ==
  /\ call.at = "write"
  /\ state' = Changed(call.read, call.atom, Wants(call.atom))
  /\ call' = [call EXCEPT !.at = "attributes", !.read = {}]
  /\ UNCHANGED <<controllerVars, viewable, transient, shape, geometry, wmVars, worldVars, dirty>>

(* The rest of Apply: the input shape, and the position if it is asked for.*)
CallEnds ==
  /\ call.at = "attributes" /\ call.todo = <<>>
  /\ shape' = IF call.apply THEN InputShape(config.clickThrough) ELSE shape
  /\ IF call.position
     THEN Move(IF config.positionParent /\ parent # NoParent THEN cached ELSE config.bounds)
     ELSE UNCHANGED inbox
  /\ call' = NoCall
  /\ UNCHANGED <<controllerVars, viewable, state, transient, geometry, managed,
                 wmState, worldVars, dirty>>

(* close() gives up the connection; the window keeps its policy.           *)
Close ==
  /\ Idle /\ closed' = TRUE
  /\ UNCHANGED <<config, parent, cached, call, windowVars, wmVars, worldVars, dirty>>

-----------------------------------------------------------------------------
(* Electron and the other processes.                                       *)

Show ==
  /\ ~shown /\ Len(inbox) < MaxInbox
  /\ shown' = TRUE
  /\ inbox' = Append(inbox, <<"map">>)
  /\ UNCHANGED <<controllerVars, call, windowVars, managed, wmState, place, dirty>>

Hide ==
  /\ shown /\ Len(inbox) < MaxInbox
  /\ shown' = FALSE
  /\ viewable' = FALSE
  /\ inbox' = Append(inbox, <<"unmap">>)
  /\ dirty' = (dirty \/ ~Idle)
  /\ UNCHANGED <<controllerVars, call, state, transient, shape, geometry, managed,
                 wmState, place>>

ParentChanges ==
  /\ \E w \in Parents : Visible(w) /\ place' \in {[place EXCEPT ![w] = at] : at \in Places \cup {NoPlace}}
  /\ UNCHANGED <<controllerVars, call, windowVars, wmVars, shown, dirty>>

(* The window manager hears of one thing after the other.                  *)
Hears(message) ==
  inbox # <<>> /\ Head(inbox)[1] = message /\ inbox' = Tail(inbox)

(* It reads the state of a window that is to be mapped, then maps it.      *)
Manages ==
  /\ inbox # <<>> /\ Head(inbox)[1] = "map" /\ ~managed
  /\ managed' = TRUE /\ wmState' = state
  /\ dirty' = (dirty \/ ~Idle)
  /\ UNCHANGED <<controllerVars, call, windowVars, inbox, worldVars>>
Maps ==
  /\ managed /\ Hears("map")
  /\ viewable' = TRUE
  /\ dirty' = (dirty \/ ~Idle)
  /\ UNCHANGED <<controllerVars, call, state, transient, shape, geometry, managed,
                 wmState, worldVars>>

Withdraws ==
  /\ Hears("unmap")
  /\ viewable' = FALSE /\ managed' = FALSE /\ wmState' = {} /\ state' = {}
  /\ dirty' = TRUE
  /\ UNCHANGED <<controllerVars, call, transient, shape, geometry, worldVars>>

ChangesState ==
  /\ Hears("state")
  /\ LET changed == Changed(wmState, Head(inbox)[2], Head(inbox)[3])
     IN IF managed THEN wmState' = changed /\ state' = changed
                   ELSE UNCHANGED <<wmState, state>>
  /\ UNCHANGED <<controllerVars, call, viewable, transient, shape, geometry, managed,
                 worldVars, dirty>>

Moves ==
  /\ Hears("configure")
  /\ geometry' = Head(inbox)[2]
  /\ UNCHANGED <<controllerVars, call, viewable, state, transient, shape, managed,
                 wmState, worldVars, dirty>>

-----------------------------------------------------------------------------
Methods ==
  \/ Configure
  \/ \E w \in Parents, reposition \in BOOLEAN : AttachParent(w, reposition)
  \/ DetachParent \/ UseParentBounds \/ Reapply \/ Close
  \/ \E bounds \in Places : SetBounds(bounds)
  \/ \E enabled \in BOOLEAN : SetClickThrough(enabled) \/ SetAlwaysOnTop(enabled)
Running ==
  GetAttributes \/ SendMessage \/ ReadState \/ WriteState \/ CallEnds
World ==
  \/ Show \/ Hide \/ ParentChanges
  \/ Manages \/ Maps \/ Withdraws \/ ChangesState \/ Moves

Next == Methods \/ Running \/ World

Spec == Init /\ [][Next]_vars

-----------------------------------------------------------------------------
TypeOK ==
  /\ {closed, viewable, managed, shown, dirty} \subseteq BOOLEAN
  /\ config \in [bounds: Places, positionParent: BOOLEAN, clickThrough: BOOLEAN, above: BOOLEAN]
  /\ parent \in Parents \cup {NoParent} /\ cached \in Places
  /\ call.at \in {"unconfigured", "idle", "attributes", "message", "read", "write"}
  /\ state \subseteq Atoms /\ wmState \subseteq Atoms /\ call.read \subseteq Atoms
  /\ transient \in Parents \cup {NoParent} /\ shape \in {"window", "empty"}
  /\ geometry \in Places
  /\ place \in [Parents -> Places \cup {NoPlace}]

(* When a call has returned, the parent and the input shape on the server  *)
(* are those getState() reports, whatever calls, parents and map states    *)
(* came and went.  And if the window's map state stood still while         *)
(* reapply() and the setters after it ran, and no earlier message was on   *)
(* the way to a window that is not mapped, so is its state: in the window  *)
(* manager once it has heard of it, in the property if it is not mapped,   *)
(* so that the first map already takes the policy over.                    *)
PolicyHolds ==
  Idle =>
    /\ transient = parent /\ shape = InputShape(config.clickThrough)
    /\ ~closed /\ ~dirty /\ ~Changing /\ ~Pending("state") =>
         (IF managed THEN wmState ELSE state) = {atom \in Atoms : Wants(atom)}
=============================================================================
