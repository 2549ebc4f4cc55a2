------------------------------ MODULE DemoTarget -----------------------------
(***************************************************************************)
(* target.mjs: a window in a process of its own that the demo controls     *)
(* through three files in a directory of the target's: it writes "ready"   *)
(* once, polls "command" and answers in "state".  A command has a sequence *)
(* number, and there is room for one.  The window belongs to the X server  *)
(* and the window manager, which act some time after they are asked.       *)
(***************************************************************************)
EXTENDS Naturals, Sequences

CONSTANT Targets

VARIABLES
  target,  \* of each: the process, its files and its window
  active   \* _NET_ACTIVE_WINDOW: a target, or "none"

Geometry == [at: {"initial", "first", "second", "full"},
             size: {"initial", "first", "second", "full"}]
Bounds(place) == [at |-> place, size |-> place]

NoCommand == [sequence |-> 0, action |-> "none", detail |-> "none"]
NoTarget ==
  [process |-> "none", killed |-> FALSE,   \* it was sent SIGTERM
   removed |-> FALSE,                      \* its directory was removed
   ready |-> FALSE, command |-> NoCommand,
   answer |-> [sequence |-> 0, fullscreen |-> FALSE],
   last |-> 0, applied |-> <<>>,           \* lastSequence, and what was applied
   title |-> "none", window |-> "none", focus |-> FALSE,
   wanted |-> Bounds("initial"), seen |-> Bounds("initial")]

Alive(t) == target[t].process \in {"starting", "idle", "settling", "stopping", "closing", "deaf"}
Viewable(t) == target[t].window = "viewable"

InitTargets == target = [t \in Targets |-> NoTarget] /\ active = "none"

(* The process is "exited" with a status, or "crashed" by a signal, which  *)
(* leaves child.exitCode null.                                             *)
Ended == {"exited", "crashed"}

-----------------------------------------------------------------------------
(* main(): the window is shown before the file says so; without the        *)
(* directory the process gives up.                                         *)
BecomesReady(t) ==
  /\ target[t].process = "starting"
  /\ IF target[t].removed
     THEN target' = [target EXCEPT ![t].process = "exited"]
     ELSE target' = [target EXCEPT ![t].process = "idle", ![t].ready = TRUE,
                                   ![t].window = "shown"]
  /\ UNCHANGED active

(* What the calls of applyCommand() ask of Electron and the window manager.*)
WantedFallsThrough(c, before) == Bounds(c.detail) \* defect: every command moves it
Wanted(c, before) ==
  CASE c.action = "set-bounds" -> Bounds(c.detail)
    [] c.action = "fullscreen" -> Bounds(IF c.detail = "on" THEN "full" ELSE "initial")
    [] OTHER -> before
Shown(c, before) ==
  CASE c.action \in {"hide", "minimize"} -> "hidden"
    [] c.action \in {"show", "restore"} /\ before = "hidden" -> "shown"
    [] OTHER -> before

(* commandLoop(): a command is new if its number is.                       *)
IsNewAlways(t) == TRUE \* defect: the file is applied as often as it is read
IsNew(t) == target[t].command.sequence > target[t].last

TakesCommand(t) ==
  /\ target[t].process = "idle" /\ ~target[t].removed
  /\ target[t].command.sequence > 0 /\ IsNew(t)
  /\ LET c == target[t].command IN
     target' = [target EXCEPT ![t].last = c.sequence,
                              ![t].applied = Append(@, c.action),
                              ![t].wanted = Wanted(c, @),
                              ![t].window = Shown(c, @),
                              ![t].title = IF c.action = "set-title" THEN c.detail ELSE @,
                              ![t].focus = @ \/ c.action = "focus",
                              ![t].process = IF c.action = "close" THEN "stopping" ELSE "settling"]
  /\ UNCHANGED active

(* After settleRenderer(), or at once for "close", the answer is written   *)
(* and the window closed.  A missing directory is taken for a missing      *)
(* command; if it was "close" nobody ever closes the window.               *)
Answers(t) ==
  /\ target[t].process \in {"settling", "stopping"}
  /\ LET settling == target[t].process = "settling" IN
     IF target[t].removed
     THEN target' = [target EXCEPT ![t].process = IF settling THEN "idle" ELSE "deaf"]
     ELSE \E fullscreen \in {target[t].wanted.size = "full", target[t].seen.size = "full"} :
            target' = [target EXCEPT
              ![t].answer = [sequence |-> target[t].last, fullscreen |-> fullscreen],
              ![t].process = IF settling THEN "idle" ELSE "closing"]
  /\ UNCHANGED active

Closes(t) ==
  /\ target[t].process = "closing"
  /\ target' = [target EXCEPT ![t].process = "exited"]
  /\ UNCHANGED active

(* The user closes the window, the process crashes, its renderer stalls or *)
(* the loop ends with an error nobody handles.                             *)
Fails(t) ==
  /\ Alive(t)
  /\ \E end \in Ended \cup {"deaf"} :
       /\ end = "deaf" => target[t].process \in {"idle", "settling"}
       /\ target' = [target EXCEPT ![t].process = end]
  /\ UNCHANGED active

(* SIGTERM: Electron quits with a status if it is far enough.              *)
Terminates(t) ==
  /\ Alive(t) /\ target[t].killed
  /\ \E end \in Ended :
       /\ target[t].process # "starting" => end = "exited"
       /\ target' = [target EXCEPT ![t].process = end]
  /\ UNCHANGED active

-----------------------------------------------------------------------------
(* The X server and the window manager.                                    *)

MapsWindow(t) ==
  /\ target[t].window = "shown" /\ Alive(t)
  /\ target' = [target EXCEPT ![t].window = "viewable"]
  /\ active' \in {active, t}

(* A window is moved and resized in either order.                          *)
PlacesWindow(t) ==
  /\ Viewable(t)
  /\ \E part \in {"at", "size"} :
       /\ target[t].seen[part] # target[t].wanted[part]
       /\ target' = [target EXCEPT ![t].seen[part] = target[t].wanted[part]]
  /\ UNCHANGED active

Activates(t) ==
  /\ Viewable(t) /\ target[t].focus
  /\ target' = [target EXCEPT ![t].focus = FALSE]
  /\ active' = t

(* The windows of a process go some time after it.                         *)
DestroysWindow(t) ==
  /\ target[t].process \in Ended /\ target[t].window # "none"
  /\ target' = [target EXCEPT ![t].window = "none"]
  /\ active' = IF active = t THEN "none" ELSE active

TargetNext(t) ==
  \/ BecomesReady(t) \/ TakesCommand(t) \/ Answers(t) \/ Closes(t) \/ Fails(t)
  \/ Terminates(t) \/ MapsWindow(t) \/ PlacesWindow(t) \/ Activates(t) \/ DestroysWindow(t)

-----------------------------------------------------------------------------
TargetsOK ==
  /\ active \in Targets \cup {"none"}
  /\ \A t \in Targets :
       /\ target[t].process \in {"none", "starting", "idle", "settling", "stopping", "closing",
                                 "deaf"} \cup Ended
       /\ target[t].last \in 0 .. target[t].command.sequence
       /\ target[t].answer.sequence \in 0 .. target[t].last
       /\ target[t].window \in {"none", "shown", "viewable", "hidden"}
       /\ {target[t].wanted, target[t].seen} \subseteq Geometry
=============================================================================
