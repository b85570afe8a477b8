---- MODULE MCWin32Input ----
(*
What a window procedure of winit-win32 does besides the runner: drag
and drop, keyboard input, and windows anchored to others.  They share
no state of the program, so that their interleavings add nothing: a
behaviour exercises one of them, its part, and the variables of the
others rest (panicked, env, nested and posted serve whichever it is).
*)
EXTENDS Integers, Sequences

CONSTANTS Windows, None, Offers, Drags, Moves, Calls, Environments

VARIABLES
  part, panicked, env, nested,
  drag_state, own_drag, asked_drag, pending_source_drag_cleanup, buffered, active, registered, ids,
  frames, ole, drags, calls, answer, waiting,
  rect, positioner, posted, asked, relative, placed, acts,
  event_info, pending, next_id, is_active, is_focused, modifiers_state, kbd_state, input, sent,
  foreground, down, strokes, app_down, app_focused, app_modifiers, heard

dragging == <<drag_state, own_drag, asked_drag, pending_source_drag_cleanup, buffered, active,
              registered, ids, frames, ole, drags, calls, answer, waiting>>
anchoring == <<rect, positioner, asked, relative, placed, acts>>
typing == <<event_info, pending, next_id, is_active, is_focused, modifiers_state, kbd_state, input,
            sent, foreground, down, strokes, app_down, app_focused, app_modifiers, heard>>
shared == <<panicked, env, nested, posted>>

----
(* Drags, see Win32Dnd. *)

Dnd == INSTANCE Win32Dnd
  WITH stack <- frames, event_buffer <- buffered, source_drag <- own_drag, pending_drag <- asked_drag

Drag(sources, answers, fetches, pumps, keys, drops, fails, patient) ==
  [sources |-> sources, answers |-> answers, fetches |-> fetches, pumps |-> pumps,
   keys |-> keys, drops |-> drops, fails |-> fails, patient |-> patient]
Over2 == {"DragEntered", "DragPosition"}
Orderly ==
  {Drag({"outside", "own"}, Over2, {"DragEntered", "DragDropped"}, {}, {{}}, FALSE, FALSE, TRUE),
   Drag({"outside"}, {"DragPosition"}, {"DragPosition", "DragLeft"}, {},
        {{}, {"ctrl"}, {"ctrl", "shift"}}, TRUE, FALSE, TRUE)}

\* What the code does not keep: the action with a key held, an answer in DragDropped,
\* message loops of the application in DragDropped or with a drag of its own to start,
\* two own drags at once, and a DoDragDrop that fails.
Keyed == {Drag({"outside"}, Over2, {}, {}, {{}, {"ctrl"}}, FALSE, FALSE, TRUE)}
LateAnswer == {Drag({"outside"}, Over2 \cup {"DragDropped"}, {}, {}, {{}}, FALSE, FALSE, TRUE)}
ModalDrop == {Drag({"outside", "own"}, Over2, {}, {"DragDropped"}, {{}}, FALSE, FALSE, TRUE)}
ModalStart == {Drag({"own"}, Over2, {}, {"other"}, {{}}, FALSE, FALSE, TRUE)}
Impatient == {Drag({"own"}, Over2, {}, {}, {{}}, FALSE, FALSE, FALSE)}
Failing == {Drag({"own"}, Over2, {}, {}, {{}}, FALSE, TRUE, TRUE)}

----
(* Keys: a letter, one of two units, a dead key, Ctrl, AltGr and one another *)
(* program sends. *)

CONSTANTS Kinds, Strokes, KeyEnvironments
SixKeys == [a |-> "letter", pair |-> "pair", dead |-> "dead", ctrl |-> "ctrl", altgr |-> "altgr",
            sent |-> "sent"]
Typist(steals, holds, mixes, sends) ==
  [steals |-> steals, holds |-> holds, mixes |-> mixes, sends |-> sends]
Patient == {Typist("between", FALSE, FALSE, "between")}

\* What the code does not keep: the focus lost, or a key sent, between a press and its
\* characters, AltGr held when the focus is gained, and Ctrl pressed besides AltGr.
StealsAnytime == {Typist("anytime", FALSE, FALSE, "never")}
SendsAnytime == {Typist("between", FALSE, FALSE, "anytime")}
HoldsAltGr == {Typist("between", TRUE, FALSE, "never")}
MixesCtrl == {Typist("between", FALSE, TRUE, "never")}

Keyboard == INSTANCE Win32Keyboard
  WITH stack <- nested, Kind <- Kinds, Environments <- KeyEnvironments

----
(* Anchored windows: a popup of a popup over two monitors. *)

CONSTANTS Count, Screens, Positioners, Sizes, Places, Border, Acts, MaxActs
Regular == {"user", "position", "place", "size", "thread"}

\* What the code does not keep: an application that answers a Moved in the middle of a
\* reposition by sizing or moving the window itself, and another thread's call that is
\* overtaken.
Interrupting == Regular \cup {"interrupt"}
Overtaken == Regular \cup {"overtake"}
By(anchor, gravity, at, size, offset, flags) ==
  [anchor |-> anchor, gravity |-> gravity,
   rect |-> [x |-> [at |-> at, size |-> size], y |-> [at |-> 0, size |-> 1]],
   offset |-> [x |-> offset, y |-> 0], flags |-> [x |-> flags, y |-> {}]]
Menu == By("Right", "Right", 1, 2, 0, {"flip", "slide", "resize"})
Badge == By("Center", "Center", 0, 1, 0, {"resize"})
Tooltip == By("Bottom", "Bottom", 0, 3, 1, {"slide"})
Helpers == {Menu, Badge, Tooltip}
TwoScreens == {[lo |-> 0, hi |-> 8], [lo |-> 8, hi |-> 14]}
Points == {-2, 6, 11}

Anchored == INSTANCE Win32Popups WITH stack <- nested

----

\* Values for the variables of the parts a behaviour leaves alone.
NoDrag ==
  /\ drag_state = None /\ own_drag = None /\ asked_drag = None
  /\ pending_source_drag_cleanup = None /\ buffered = <<>> /\ active = None
  /\ registered = None /\ ids = 0 /\ ole = None /\ drags = 0 /\ calls = 0 /\ frames = <<>>
  /\ answer = <<>> /\ waiting = {}
NoKeys ==
  /\ event_info = None /\ pending = <<>> /\ next_id = 0 /\ is_active = FALSE /\ is_focused = FALSE
  /\ modifiers_state = {} /\ kbd_state = {} /\ input = <<>> /\ sent = <<>> /\ foreground = FALSE
  /\ down = {} /\ strokes = 0 /\ app_down = {} /\ app_focused = FALSE /\ app_modifiers = {}
  /\ heard = <<>>
NoPopups ==
  /\ rect = None /\ positioner = None /\ asked = None /\ relative = None /\ placed = None
  /\ acts = 0

InputInit ==
  \/ part = "drag" /\ Dnd!Init /\ NoKeys /\ NoPopups /\ posted = <<>> /\ nested = <<>>
  \/ part = "keys" /\ Keyboard!Init /\ NoDrag /\ NoPopups
  \/ part = "popups" /\ Anchored!Init /\ NoDrag /\ NoKeys /\ panicked = FALSE /\ env = None

InputNext ==
  /\ UNCHANGED part
  /\ \/ part = "drag" /\ Dnd!Next /\ UNCHANGED <<anchoring, typing, nested, posted>>
     \/ part = "keys" /\ Keyboard!Next /\ UNCHANGED <<dragging, anchoring>>
     \/ part = "popups" /\ Anchored!Next /\ UNCHANGED <<dragging, typing, panicked, env>>

InputSpec ==
  /\ InputInit /\ [][InputNext]_<<part, dragging, anchoring, typing, shared>>
  /\ Dnd!Fairness

----

\* Win32Dnd: a drop is settled alike for all, a transfer lives as long as there is
\* something to read and no borrow is taken twice, and the ends of drags are heard of.
InputTypeOK ==
  /\ part = "drag" => Dnd!TypeOK
  /\ part = "keys" => Keyboard!TypeOK
  /\ part = "popups" => Anchored!TypeOK
DropsSettled == part = "drag" => Dnd!DropSettled
TransfersLive == part = "drag" => Dnd!TransferLives /\ Dnd!NoPanic
DragsHeard == part = "drag" => Dnd!Heard

\* What was told of keys and modifiers is what is held, in order and with its text.
KeysTold ==
  part = "keys" => /\ Keyboard!KeysAgree /\ Keyboard!ModifiersAgree
                   /\ Keyboard!TextWhole /\ Keyboard!Ordered

\* Windows anchored to a window go with it, and stay on the screen.
PopupsFollow ==
  part = "popups" => Anchored!Attached /\ Anchored!OnScreen /\ Anchored!NeverGrown /\ Anchored!Adjusted
====
