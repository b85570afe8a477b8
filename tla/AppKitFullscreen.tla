---- MODULE AppKitFullscreen ----
(*
Fullscreen of a macOS window (winit-appkit window_delegate.rs):
set_fullscreen, what AppKit tells the delegate while it animates, the
request kept for the end of the animation, the calls put off because a
callback is running, the retry of a window created fullscreen, simple
fullscreen, and the style mask and display that come along.

External: AppKit. toggleFullScreen calls windowWillEnter/ExitFullScreen
before it returns, is ignored during an animation and on a closed
window; the end of the animation, or its failure, comes later.
*)
EXTENDS Naturals, Sequences, FiniteSets

CONSTANTS
  None,
  Displays,      \* exclusive fullscreen takes one of them
  Environments   \* what happens around the window in a behaviour

Ops == {"set", "remote", "user", "decorate", "resizable", "simple", "auxiliary",
        "drop"}
Faults == {"enter", "exit", "mode"}
Modes == {"window", "borderless"} \union Displays

\* An environment. start: the fullscreen of the window's attributes. careful: requests
\* come one at a time, to a settled window. moves: a window may be asked to go from one
\* display to another. max: how many calls in all.
Env(ops, faults, start, careful, moves, max) ==
  [ops |-> ops, faults |-> faults, start |-> start, careful |-> careful, moves |-> moves,
   max |-> max]
VARIABLES
  w,         \* the delegate's variables and the NSWindow, see Window
  handling,  \* a callback of the application is running (is_handling_event)
  wanted,    \* history: the mode last asked for, by the application or the user
  calls, env

vars == <<w, handling, wanted, calls, env>>

Styles == [decorated : BOOLEAN, resizable : BOOLEAN]
required == [decorated |-> TRUE, resizable |-> TRUE]

Window == [
  fullscreen : Modes, target_fullscreen : Modes \union {"unset"},
  in_fullscreen_transition : BOOLEAN, initial_fullscreen : BOOLEAN,
  is_simple_fullscreen : BOOLEAN, saved_style : Styles \union {None},
  decorations : BOOLEAN, resizable : BOOLEAN,
  auxiliary : BOOLEAN,      \* marked FullScreenAuxiliary
  style : Styles,           \* NSWindow's styleMask
  native : {"window", "entering", "full", "exiting"},   \* what AppKit shows
  retry : BOOLEAN,          \* a toggle scheduled by performSelector
  captured : SUBSET Displays,
  deferred : Seq(Modes),    \* set_fullscreen calls put off to the run loop
  closed : BOOLEAN]

----
(* The delegate, as functions of the window. *)

\* windowWillEnterFullScreen: None means that the user did it.
WillEnter(s) ==
  [s EXCEPT !.native = "entering", !.in_fullscreen_transition = TRUE,
            !.fullscreen = IF @ = "window" THEN "borderless" ELSE @]
WillExit(s) == [s EXCEPT !.native = "exiting", !.in_fullscreen_transition = TRUE]

toggleFullScreen(s) ==
  IF s.closed \/ s.auxiliary THEN s
  ELSE IF s.native = "window" THEN WillEnter(s)
  ELSE IF s.native = "full" THEN WillExit(s)
  ELSE s

\* The mask the window gets back: what was saved, or what it has.
MaskRestored(s) ==
  [decorated |-> (IF s.saved_style = None THEN s.style ELSE s.saved_style).decorated,
   resizable |-> s.resizable]

restore_state_from_fullscreen(s) ==
  [s EXCEPT !.fullscreen = "window", !.style = MaskRestored(s), !.saved_style = None]

Release(s, display) == [s EXCEPT !.captured = @ \ {display}]

\* A window without title or frame cannot be toggled: it gets both for the while.
Dressed(s) ==
  IF s.style = required THEN s
  ELSE [s EXCEPT !.style = required, !.saved_style = s.style]

\* The display stays captured when the window leaves exclusive fullscreen.
LeavesCaptured(s, old, mode) ==  \* mutant
  IF old = "window" THEN toggleFullScreen(Dressed(s))
  ELSE IF mode = "window" THEN toggleFullScreen(s)
  ELSE s
\* From one display to another, neither is released.
Switch(s, old, mode) ==
  IF old = "window" THEN toggleFullScreen(Dressed(s))
  ELSE IF mode = "window"
       THEN toggleFullScreen(IF old \in Displays THEN Release(s, old) ELSE s)
  ELSE IF old \in Displays /\ mode = "borderless" THEN Release(s, old)
  ELSE s

\* A borderless window has no monitor to go to.
NoScreen(mode, has_mode) == mode = "borderless" /\ ~has_mode

\* The display is captured before its video mode is looked up.
Change(s, mode, has_mode) ==
  LET captured == [s EXCEPT !.captured = @ \union ({mode} \intersect Displays)]
  IN IF NoScreen(mode, has_mode) THEN s
     ELSE IF mode \in Displays /\ ~has_mode THEN captured
     ELSE Switch([captured EXCEPT !.fullscreen = mode], s.fullscreen, mode)

\* A toggle in the middle of an animation is ignored by AppKit.
NeverKept(s) == FALSE  \* mutant
InTransition(s) == s.in_fullscreen_transition

Refuses(s, mode) == s.is_simple_fullscreen \/ (mode # "window" /\ s.auxiliary)

\* Deferred also before the window was fullscreen for the first time.
set_fullscreen(s, mode, busy, has_mode) ==
  IF Refuses(s, mode) THEN s
  ELSE IF InTransition(s) THEN [s EXCEPT !.target_fullscreen = mode]
  ELSE IF mode = s.fullscreen THEN s
  ELSE IF busy /\ ~s.initial_fullscreen THEN [s EXCEPT !.deferred = Append(@, mode)]
  ELSE Change(s, mode, has_mode)

\* What was asked during the animation is forgotten.
Forgets(s, has_mode) == [s EXCEPT !.target_fullscreen = "unset"]  \* mutant
\* The end of an animation: what was asked during it is done now.
TakeTarget(s, has_mode) ==
  IF s.target_fullscreen = "unset" THEN s
  ELSE set_fullscreen([s EXCEPT !.target_fullscreen = "unset"],
                      s.target_fullscreen, FALSE, has_mode)

DidEnter(s, has_mode) ==
  TakeTarget([s EXCEPT !.native = "full", !.initial_fullscreen = FALSE,
                       !.in_fullscreen_transition = FALSE], has_mode)

\* The mask that was put aside is not put back.
KeepsMask(s) == [s EXCEPT !.fullscreen = "window"]  \* mutant
Restored(s) == restore_state_from_fullscreen(s)

DidExit(s, has_mode) ==
  TakeTarget([Restored(s) EXCEPT !.native = "window",
                                 !.in_fullscreen_transition = FALSE], has_mode)

DidFailToEnter(s) ==
  LET t == [s EXCEPT !.native = "window", !.in_fullscreen_transition = FALSE,
                     !.target_fullscreen = "unset"]
  IN IF s.initial_fullscreen THEN [t EXCEPT !.retry = TRUE]
     ELSE restore_state_from_fullscreen(t)

set_decorations(s, on) ==
  IF s.decorations = on THEN s
  ELSE IF s.fullscreen # "window" THEN [s EXCEPT !.decorations = on]
  ELSE [s EXCEPT !.decorations = on,
                 !.style = [decorated |-> on, resizable |-> s.resizable]]

set_resizable(s, on) ==
  IF s.fullscreen # "window" THEN [s EXCEPT !.resizable = on]
  ELSE [s EXCEPT !.resizable = on, !.style.resizable = on]

set_simple_fullscreen(s, on) ==
  IF s.fullscreen # "window" \/ s.is_simple_fullscreen = on THEN s
  ELSE IF on
  THEN [s EXCEPT !.is_simple_fullscreen = TRUE, !.saved_style = s.style,
                 !.style = [decorated |-> FALSE, resizable |-> FALSE]]
  ELSE [s EXCEPT !.is_simple_fullscreen = FALSE, !.style = MaskRestored(s),
                 !.saved_style = None]

\* Window::drop: an exclusive window gives its display back, then closes.
Dropped(s, busy) ==
  [(IF s.fullscreen \in Displays THEN set_fullscreen(s, "window", busy, TRUE) ELSE s)
   EXCEPT !.closed = TRUE]

----
Created(style) ==
  [fullscreen |-> "window", target_fullscreen |-> "unset",
   in_fullscreen_transition |-> FALSE, initial_fullscreen |-> FALSE,
   is_simple_fullscreen |-> FALSE, saved_style |-> None,
   decorations |-> style.decorated, resizable |-> style.resizable, style |-> style,
   auxiliary |-> FALSE, native |-> "window", retry |-> FALSE, captured |-> {}, deferred |-> <<>>,
   closed |-> FALSE]

\* WindowDelegate::new ends with set_fullscreen, in the callback that creates the window.
Init ==
  /\ env \in Environments
  /\ \E style \in Styles :
       w = IF env.start = "window" THEN Created(style)
           ELSE set_fullscreen([Created(style) EXCEPT !.initial_fullscreen = TRUE],
                               env.start, TRUE, TRUE)
  /\ handling = FALSE /\ wanted = env.start /\ calls = 0

Settled ==
  /\ w.native \in {"window", "full"} /\ ~w.in_fullscreen_transition
  /\ w.deferred = <<>> /\ w.target_fullscreen = "unset" /\ ~w.retry
Plain == Settled /\ w.fullscreen = "window" /\ ~w.is_simple_fullscreen

May(op) == op \in env.ops /\ calls < env.max /\ ~w.closed /\ calls' = calls + 1

\* Whether the video mode, or the monitor of a borderless window, is found.
HasMode == IF "mode" \in env.faults THEN BOOLEAN ELSE {TRUE}

\* The window is, or is to be, on another display.
Asked == {w.fullscreen, w.target_fullscreen} \union {w.deferred[i] : i \in DOMAIN w.deferred}
Elsewhere(mode) == mode \in Displays /\ Asked \intersect (Displays \ {mode}) # {}

\* A request from a callback, or from another thread through the main one. A careful
\* application does not ask again while an earlier request is put off.
SetFullscreen ==
  \E mode \in Modes, has_mode \in HasMode :
    /\ May(IF handling THEN "set" ELSE "remote")
    /\ env.careful => w.deferred = <<>> /\ ~w.retry
    /\ env.moves \/ ~Elsewhere(mode)
    /\ w' = set_fullscreen(w, mode, handling, has_mode)
    /\ wanted' = IF Refuses(w, mode) THEN wanted ELSE mode
    /\ UNCHANGED <<handling, env>>

\* The green button.
UserToggles ==
  /\ ~handling /\ May("user") /\ ~w.is_simple_fullscreen /\ ~w.auxiliary
  /\ w.native \in {"window", "full"} /\ w.fullscreen \notin Displays
  /\ env.careful => Settled
  /\ w' = toggleFullScreen(w)
  /\ wanted' = IF w.native = "window" THEN "borderless" ELSE "window"
  /\ UNCHANGED <<handling, env>>

Decorate ==
  /\ handling
  /\ env.careful => Plain
  /\ \E on \in BOOLEAN : \/ May("decorate") /\ w' = set_decorations(w, on)
                         \/ May("resizable") /\ w' = set_resizable(w, on)
  /\ UNCHANGED <<handling, wanted, env>>

Simple ==
  /\ handling /\ May("simple")
  /\ env.careful => Settled
  /\ \E on \in BOOLEAN : w' = set_simple_fullscreen(w, on)
  /\ UNCHANGED <<handling, wanted, env>>

\* set_fullscreen_auxiliary.
Auxiliary ==
  /\ handling /\ May("auxiliary")
  /\ env.careful => Plain
  /\ \E on \in BOOLEAN : w' = [w EXCEPT !.auxiliary = on]
  /\ UNCHANGED <<handling, wanted, env>>

Drop ==
  /\ handling /\ May("drop")
  /\ env.careful => Settled
  /\ w' = Dropped(w, handling)
  /\ UNCHANGED <<handling, wanted, env>>

Callback ==
  /\ ~handling /\ calls < env.max /\ ~w.closed /\ handling' = TRUE
  /\ UNCHANGED <<w, wanted, calls, env>>
Return == handling /\ handling' = FALSE /\ UNCHANGED <<w, wanted, calls, env>>

\* The run loop: what was put off, the scheduled toggle, the end of an animation.
Step == ~handling /\ UNCHANGED <<handling, wanted, calls, env>>

RunDeferred ==
  /\ Step /\ w.deferred # <<>>
  /\ \E has_mode \in HasMode :
       w' = set_fullscreen([w EXCEPT !.deferred = Tail(@)], Head(w.deferred),
                           FALSE, has_mode)

Retry == Step /\ w.retry /\ w' = toggleFullScreen([w EXCEPT !.retry = FALSE])

AnimationEnds ==
  /\ Step /\ ~w.closed
  /\ \E has_mode \in HasMode :
       \/ w.native = "entering" /\ w' = DidEnter(w, has_mode)
       \/ w.native = "exiting" /\ w' = DidExit(w, has_mode)

\* The delegate has no windowDidFailToExitFullScreen.
AnimationFails ==
  /\ Step /\ ~w.closed
  /\ \/ w.native = "entering" /\ "enter" \in env.faults /\ w' = DidFailToEnter(w)
     \/ w.native = "exiting" /\ "exit" \in env.faults /\ w' = [w EXCEPT !.native = "full"]

Next ==
  \/ SetFullscreen \/ UserToggles \/ Decorate \/ Simple \/ Auxiliary \/ Drop
  \/ Callback \/ Return
  \/ RunDeferred \/ Retry \/ AnimationEnds \/ AnimationFails

Spec == Init /\ [][Next]_vars

\* Callbacks return, the run loop runs what it was given, animations end, and not all
\* of them with a failure.
Fairness ==
  WF_vars(Return) /\ SF_vars(RunDeferred) /\ SF_vars(Retry) /\ SF_vars(AnimationEnds)
FairSpec == Spec /\ Fairness

----
TypeOK ==
  /\ w.fullscreen \in Modes /\ w.target_fullscreen \in Modes \union {"unset"}
  /\ w.saved_style \in Styles \union {None} /\ w.style \in Styles
  /\ w.native \in {"window", "entering", "full", "exiting"}
  /\ w.captured \subseteq Displays
  /\ handling \in BOOLEAN /\ wanted \in Modes

\* window.fullscreen() tells what the user sees, whenever nothing is under way:
\* however requests, the user and AppKit's animations overlap.
Agreement == Settled /\ ~w.closed => (w.fullscreen = "window" <=> w.native = "window")

\* A display is captured while an exclusive window shows on it, and no longer, also
\* for a window that was dropped (set_fullscreen, Window::drop).
DisplayReleased ==
  Settled \/ (w.closed /\ w.deferred = <<>>) =>
    w.captured = (IF w.closed THEN {} ELSE {w.fullscreen} \intersect Displays)

\* A window back from fullscreen has the frame the application gave it: the style put
\* on for toggleFullScreen does not stay (saved_style, restore_state_from_fullscreen).
StyleRestored ==
  Plain /\ ~w.closed => w.style = [decorated |-> w.decorations, resizable |-> w.resizable]

\* DisplayReleased and StyleRestored: a window leaves nothing of fullscreen behind.
NothingLeft == DisplayReleased /\ StyleRestored

\* Once nothing is under way, the window is in the mode last asked for, by the
\* application or the user, if the application asks again only after what was put off is
\* done, be it during an animation (target_fullscreen).
LastRequestHolds ==
  env.careful /\ Settled /\ ~w.closed /\ ~w.is_simple_fullscreen => w.fullscreen = wanted

\* An application that asks again only after what was put off is done gets what it, or
\* the user, asked last, be it asked during an animation.
LastRequestWins ==
  \A mode \in Modes :
    wanted = mode /\ env.careful ~>
      \/ wanted # mode \/ w.closed \/ w.is_simple_fullscreen
      \/ Settled /\ w.fullscreen = mode

\* The same for every application (set_fullscreen compares with the mode of now, not
\* with what is put off).
LastCallWins ==
  \A mode \in Modes :
    wanted = mode ~> wanted # mode \/ w.closed \/ (Settled /\ w.fullscreen = mode)
====
