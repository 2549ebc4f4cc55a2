-------------------------- MODULE OverlayController --------------------------
(***************************************************************************)
(* configure() (index.ts) chooses a backend for a window and delegates     *)
(* every method to its controller.  The controllers share what they keep   *)
(* and the world; what only the others have stands still.                  *)
(***************************************************************************)
EXTENDS Naturals, Sequences

CONSTANTS
  Places, Parents, NoParent, NoPlace,
  Scale,     \* of Win32Overlay
  MaxInbox   \* bound of X11Overlay

ASSUME PlacesAssumption == Places \subseteq Nat /\ NoPlace \notin Places
ASSUME ParentsAssumption == NoParent \notin Parents
ASSUME BoundsAssumption == MaxInbox \in Nat /\ Scale \in Nat \ {0}

VARIABLES
  backend,
  closed, config, parent, cached, call, place, dirty,
  (* X11Overlay *)
  viewable, state, transient, shape, geometry, inbox, managed, wmState, shown,
  (* Win32Overlay, MacOverlay and WaylandElectron *)
  electron, window, asked, cocoa, browser

X11 == INSTANCE X11Overlay
Win32 == INSTANCE Win32Overlay
Mac == INSTANCE MacOverlay
Wayland == INSTANCE WaylandElectron

x11Vars == <<viewable, state, transient, shape, geometry, inbox, managed, wmState, shown>>
win32Vars == <<electron, window>>
othersVars == <<parent, cached, place, dirty>>
vars == <<backend, closed, config, parent, cached, call, place, dirty, x11Vars, win32Vars,
          asked, cocoa, browser>>

-----------------------------------------------------------------------------
(* getBackendSelection().                                                  *)

(* --ozone-platform, OZONE_PLATFORM or ELECTRON_OZONE_PLATFORM_HINT, and   *)
(* whether XDG_SESSION_TYPE and WAYLAND_DISPLAY tell of a Wayland session. *)
Environments == [platform: {"linux", "win32", "darwin"},
                 argument: {"none", "x11", "wayland"}, hint: {"none", "x11", "wayland"},
                 session: {"wayland", "other"}]

NativeBackendKind(platform) ==
  CASE platform = "win32" -> "win32" [] platform = "darwin" -> "macos" [] OTHER -> "x11"

DetectLinuxBackend(env) ==
  LET evidence == SelectSeq(<<env.argument, env.hint, env.session>>,
                            LAMBDA given : given \in {"x11", "wayland"})
  IN IF evidence # <<>> /\ Head(evidence) = "wayland" THEN "wayland-electron" ELSE "x11"

GetBackendSelection(env, target, preference) ==
  CASE preference # "auto" -> preference
    [] target = "buffer" \/ env.platform # "linux" -> NativeBackendKind(env.platform)
    [] OTHER -> DetectLinuxBackend(env)

(* An application names the backend of its platform, or wayland-electron,  *)
(* for which configure() rejects a Buffer.                                 *)
Preferences(env) == {"auto", "wayland-electron", NativeBackendKind(env.platform)}
GetBackend(env, target, preference) ==
  LET kind == GetBackendSelection(env, target, preference)
  IN {k \in {kind} : k = "wayland-electron" => target = "window"}

-----------------------------------------------------------------------------
X11Still ==
  /\ viewable = FALSE /\ state = {} /\ transient = NoParent /\ shape = "window"
  /\ geometry = 0 /\ inbox = <<>> /\ managed = FALSE /\ wmState = {}
  /\ shown = FALSE
Win32Still == window = [alive |-> TRUE]
MacStill == cocoa = [visible |-> FALSE]
WaylandStill == browser = [alive |-> TRUE]
OthersStill ==
  parent = NoParent /\ cached = NoPlace /\ place = [p \in Parents |-> NoPlace] /\ dirty = FALSE

Init ==
  /\ \E env \in Environments, target \in {"buffer", "window"} :
       /\ \E preference \in Preferences(env) : backend \in GetBackend(env, target, preference)
       /\ electron = (backend = "win32" /\ target = "window")
  /\ \/ backend = "x11" /\ X11!Init /\ MacStill /\ WaylandStill
        /\ Win32Still /\ asked = NoPlace
     \/ backend = "win32" /\ Win32!Init /\ X11Still /\ MacStill /\ WaylandStill
     \/ backend = "macos" /\ Mac!Init /\ X11Still /\ WaylandStill
        /\ Win32Still /\ dirty = FALSE
     \/ backend = "wayland-electron" /\ Wayland!Init /\ X11Still /\ MacStill /\ OthersStill
        /\ Win32Still /\ asked = NoPlace

Next ==
  \/ /\ backend = "x11" /\ X11!Next
     /\ UNCHANGED <<backend, win32Vars, asked, cocoa, browser>>
  \/ /\ backend = "win32" /\ Win32!Next
     /\ UNCHANGED <<backend, x11Vars, cocoa, browser>>
  \/ /\ backend = "macos" /\ Mac!Next
     /\ UNCHANGED <<backend, x11Vars, win32Vars, dirty, browser>>
  \/ /\ backend = "wayland-electron" /\ Wayland!Next
     /\ UNCHANGED <<backend, x11Vars, win32Vars, othersVars, asked, cocoa>>

Spec == Init /\ [][Next]_vars

-----------------------------------------------------------------------------
TypeOK ==
  CASE backend = "x11" -> X11!TypeOK
    [] backend = "win32" -> Win32!TypeOK
    [] backend = "macos" -> Mac!TypeOK
    [] backend = "wayland-electron" -> Wayland!TypeOK

(* Whatever backend configure() has chosen: when a method has returned,    *)
(* the window has, or in the window manager's time will have, the policy   *)
(* that was configured (PolicyHolds of the four controllers).              *)
PolicyHolds ==
  CASE backend = "x11" -> X11!PolicyHolds
    [] backend = "win32" -> Win32!PolicyHolds
    [] backend = "macos" -> Mac!PolicyHolds
    [] backend = "wayland-electron" -> Wayland!PolicyHolds

(* setBounds(), useParentBounds(), attachParent() and configure() put the  *)
(* window where they were asked to, through whichever coordinates they     *)
(* have to pass (PositionHolds of the two controllers that convert them).  *)
PositionHolds ==
  /\ backend = "win32" => Win32!PositionHolds
  /\ backend = "macos" => Mac!PositionHolds
=============================================================================
