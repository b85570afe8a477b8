---- MODULE UIKitApp ----
(*
The application state of winit-uikit: the state machine that the
observers of the main run loop drive, the queue for what UIKit calls
while the application is in a callback, the timer behind the control
flow, the proxy's run loop source, and termination.

UIKit is the environment.  Its run loop goes round: sources (events,
notifications, the proxy), the two observers that precede the wait with
Core Animation's layout and drawing between them, the wait, and the
observer that follows it.
*)
EXTENDS Naturals, Sequences, FiniteSets, EventHandler

CONSTANTS
  Windows,      \* the windows the application may create
  NestIn,       \* the callbacks in which UIKit may lay a window out at once
  InitialFlows, \* the control flows set before the loop runs
  EarlyProxy,   \* whether a thread may use the proxy before the launch
  MaxOps        \* bound: operations of UIKit, of the application and its threads

Deadlines == {"early", "late"}       \* two instants of ControlFlow::WaitUntil
Flows == {"poll", "wait"} \cup Deadlines
Sizes == 1 .. 2                      \* of a window's surface

ASSUME UIKitAssumption == 
  InitialFlows \subseteq Flows /\ EarlyProxy \in BOOLEAN /\ MaxOps \in Nat

VARIABLES
  at,           \* where the run loop is
  pc,           \* what the handler that runs does next, "idle" between handlers
  then,         \* what follows once queued_events is drained
  batch,        \* the events being handed out
  inside,       \* the callback the application executes, "none" if none
  phase,        \* of AppLifecycle: where the application stands
  state,        \* AppStateImpl
  active,       \* active_control_flow
  flow,         \* control_flow
  timer,        \* the next fire date of the waker's timer
  clock,        \* 1 past the early deadline, 2 past both
  queue,        \* queued_events
  signalled,    \* the proxy's source
  live,         \* the windows of the application
  size,         \* the size of each window's view
  layout,       \* the windows whose view needs layout
  display,      \* the windows whose view needs display
  reported,     \* the size the application was last told, 0 for none
  wanted,       \* history: the redraws asked for and not yet delivered
  destroyed,    \* the windows whose Destroyed the application was given
  panicked, ops

loop_vars == <<at, pc, then, batch>>
app_vars == <<inside, phase, handler>>
state_vars == <<state, active, flow>>
view_vars == <<live, size, layout, display>>
told_vars == <<reported, wanted, destroyed>>
vars == <<loop_vars, app_vars, state_vars, timer, clock, queue, signalled, view_vars,
          told_vars, panicked, ops>>

States == {"Initial", "ProcessingEvents", "ProcessingRedraws", "Waiting",
           "PollFinished", "Terminated"}
Kinds == {"input", "focused", "resized", "scale", "redraw", "destroyed"}
Event(k, w) == [kind |-> k, window |-> w, size |-> 0]
Resized(w, s) == [kind |-> "resized", window |-> w, size |-> s]
Events == [kind : Kinds, window : Windows, size : 0 .. 2]

TypeOK ==
  /\ at \in {"sources", "main", "draw", "sleep"}
  /\ pc \in {"idle", "init", "batch", "drain"}
  /\ then \in {"idle", "transition", "about", "draw", "terminate"}
  /\ batch \in Seq(Events) /\ queue \in Seq(Events)
  /\ inside \in {"none", "new_events_init", "can_create_surfaces", "new_events",
                 "event", "proxy", "scale", "about_to_wait"}
  /\ phase \in {"Off", "Init", "Awake", "Asleep"} /\ handler \in HandlerStates
  /\ state \in States /\ active \in Flows /\ flow \in Flows
  /\ timer \in {"off", "now"} \cup Deadlines /\ clock \in 0 .. 2
  /\ signalled \in BOOLEAN /\ panicked \in BOOLEAN
  /\ live \subseteq Windows /\ size \in [Windows -> Sizes]
  /\ layout \subseteq live /\ display \subseteq live
  /\ reported \in [Windows -> 0 .. 2] /\ destroyed \subseteq Windows
  /\ wanted \subseteq Windows
  /\ ops \in 0 .. MaxOps

Init ==
  /\ at = "sources" /\ pc = "idle" /\ then = "idle" /\ batch = <<>>
  /\ inside = "none" /\ phase = "Off" /\ handler = "available"
  /\ state = "Initial" /\ flow \in InitialFlows /\ active = flow
  /\ timer = "off" /\ clock = 0 /\ queue = <<>> /\ signalled = FALSE
  /\ live = {} /\ size = [w \in Windows |-> 1] /\ layout = {} /\ display = {}
  /\ reported = [w \in Windows |-> 0] /\ destroyed = {} /\ wanted = {}
  /\ panicked = FALSE /\ ops = 0

----
(* Handing out events. *)

has_launched == state # "Initial"
has_terminated == state = "Terminated"

\* Nothing of winit or the application runs: the run loop has control.
RunLoop(place) == at = place /\ pc = "idle" /\ inside = "none" /\ ~panicked
\* A handler of winit goes on after a callback.
Continue(p) == pc = p /\ inside = "none" /\ ~panicked
Op == ops < MaxOps /\ ops' = ops + 1

Call(cb, ph) == Enter /\ inside' = cb /\ phase' = ph
NoCall == UNCHANGED app_vars

NonuserEventsOnly(es) ==  \* mutant
  IF has_terminated \/ state = "ProcessingRedraws" THEN UNCHANGED <<pc, then, batch, queue>>
  ELSE IF ~Ready THEN queue' = queue \o es /\ UNCHANGED <<pc, then, batch>>
  ELSE pc' = "batch" /\ then' = "idle" /\ batch' = es /\ UNCHANGED queue

\* handle_nonuser_events: dropped after termination, queued while the
\* application is in a callback, else handed out, and the queue after them.
NonuserEvents(es) ==
  IF has_terminated THEN UNCHANGED <<pc, then, batch, queue>>
  ELSE IF ~Ready
    THEN queue' = queue \o es /\ UNCHANGED <<pc, then, batch>>
    ELSE pc' = "batch" /\ then' = "idle" /\ batch' = es /\ UNCHANGED queue

\* handle_wrapped_event, and handle_hidpi_proxy for a new scale factor.
Deliver ==
  /\ Continue("batch") /\ batch # <<>>
  /\ LET e == Head(batch) IN
     /\ IF Ready THEN Call(IF e.kind = "scale" THEN "scale" ELSE "event", phase)
                 ELSE NoCall
     /\ panicked' = HandlePanics
     /\ reported' = IF e.kind = "resized" THEN [reported EXCEPT ![e.window] = e.size]
                                          ELSE reported
     /\ wanted' = IF e.kind = "redraw" THEN wanted \ {e.window} ELSE wanted
     /\ destroyed' = IF e.kind = "destroyed" THEN destroyed \cup {e.window} ELSE destroyed
  /\ batch' = Tail(batch)
  /\ UNCHANGED <<at, pc, then, state_vars, timer, clock, queue, signalled, view_vars, ops>>

\* The loop over queued_events, which takes the whole queue each time ...
TakeQueue ==
  /\ Continue("batch") /\ batch = <<>> /\ queue # <<>>
  /\ batch' = queue /\ queue' = <<>>
  /\ UNCHANGED <<at, pc, then, app_vars, state_vars, timer, clock, signalled,
                 view_vars, told_vars, panicked, ops>>

\* ... and ends when it is empty.
DrainedOnce(next) ==  \* mutant
  Continue("batch") /\ batch = <<>> /\ then = next
Drained(next) == Continue("batch") /\ batch = <<>> /\ queue = <<>> /\ then = next

\* A handler ends here: UIKit has control again.
HandlerEnds ==
  /\ Drained("idle") /\ pc' = "idle"
  /\ UNCHANGED <<at, then, batch, app_vars, state_vars, timer, clock, queue, signalled,
                 view_vars, told_vars, panicked, ops>>

\* A callback cb, after which the queue is drained and next follows.
CallThenDrain(cb, ph, next) ==
  /\ panicked' = HandlePanics
  /\ IF Ready THEN Call(cb, ph) ELSE NoCall
  /\ pc' = "batch" /\ then' = next /\ batch' = <<>>

----
(* The state machine. *)

\* did_finish_launching, from UIKit's notification.
DidFinishLaunching ==
  /\ RunLoop("sources") /\ state = "Initial"
  /\ timer' = "now"
  /\ state' = "ProcessingEvents" /\ active' = flow
  /\ Call("new_events_init", "Init") /\ pc' = "init"
  /\ UNCHANGED <<at, then, batch, flow, clock, queue, signalled, view_vars, told_vars,
                 panicked, ops>>

CanCreateSurfaces ==
  /\ Continue("init") /\ CallThenDrain("can_create_surfaces", "Awake", "idle")
  /\ UNCHANGED <<at, state_vars, timer, clock, queue, signalled, view_vars, told_vars, ops>>

\* wakeup_transition: the pairs of control flow and state it knows.
Expected == \/ flow = "poll" /\ state = "PollFinished"
            \/ flow # "poll" /\ state = "Waiting"

WakeupQuiet ==  \* mutant
  /\ at' = "sources"
  /\ IF ~has_launched \/ has_terminated THEN UNCHANGED <<pc, then, batch, state_vars>>
     ELSE /\ state' = "ProcessingEvents" /\ active' = flow /\ UNCHANGED flow
          /\ pc' = "batch" /\ then' = "idle" /\ batch' = <<>>
  /\ UNCHANGED <<app_vars, panicked, timer, clock, queue, signalled, view_vars,
                 told_vars, ops>>

\* handle_wakeup_transition, observer of AfterWaiting.
Wakeup ==
  /\ at' = "sources"
  /\ IF ~has_launched \/ has_terminated
     THEN UNCHANGED <<pc, then, batch, app_vars, state_vars, panicked>>
     ELSE IF Expected
     THEN /\ state' = "ProcessingEvents" /\ active' = flow /\ UNCHANGED flow
          /\ CallThenDrain("new_events", "Awake", "idle")
     ELSE /\ panicked' = TRUE
          /\ UNCHANGED <<pc, then, batch, app_vars, state_vars>>
  /\ UNCHANGED <<timer, clock, queue, signalled, view_vars, told_vars, ops>>

\* The first observer of BeforeWaiting: handle_main_events_cleared ...
MainEventsClearedRaw ==  \* mutant
  /\ RunLoop("sources") /\ at' = "main"
  /\ pc' = "batch" /\ then' = "transition" /\ batch' = <<>>
  /\ UNCHANGED <<app_vars, state_vars, timer, clock, queue, signalled, view_vars,
                 told_vars, panicked, ops>>
MainEventsCleared ==
  /\ RunLoop("sources")
  /\ IF ~has_launched \/ has_terminated
     THEN at' = "draw" /\ UNCHANGED <<pc, then, batch, panicked>>
     ELSE /\ at' = "main" /\ panicked' = (state # "ProcessingEvents")
          /\ pc' = "batch" /\ then' = "transition" /\ batch' = <<>>
  /\ UNCHANGED <<app_vars, state_vars, timer, clock, queue, signalled, view_vars,
                 told_vars, ops>>

\* ... main_events_cleared_transition, with no redraw of a window whose view
\* is itself a Metal layer: no view is one.
MainEventsClearedTransition ==
  /\ Drained("transition")
  /\ panicked' = (state # "ProcessingEvents")
  /\ state' = "ProcessingRedraws" /\ then' = "about"
  /\ UNCHANGED <<at, pc, batch, app_vars, active, flow, timer, clock, queue, signalled,
                 view_vars, told_vars, ops>>

AboutToWait ==
  /\ Drained("about") /\ CallThenDrain("about_to_wait", "Asleep", "draw")
  /\ UNCHANGED <<at, state_vars, timer, clock, queue, signalled, view_vars, told_vars, ops>>

MainEventsClearedEnds ==
  /\ Drained("draw") /\ at' = "draw" /\ pc' = "idle"
  /\ UNCHANGED <<then, batch, app_vars, state_vars, timer, clock, queue, signalled,
                 view_vars, told_vars, panicked, ops>>

\* EventLoopWaker::start_at: a deadline that has passed fires at once.
Passed(d) == (d = "early" /\ clock >= 1) \/ (d = "late" /\ clock = 2)
Fires(d) == IF Passed(d) THEN "now" ELSE d

\* events_cleared_transition: the timer for the control flow that was chosen.
RearmLoose == IF flow = "wait" THEN "off" ELSE IF flow = "poll" THEN "now"
              ELSE IF active \in Deadlines THEN timer ELSE Fires(flow)  \* mutant
RearmNever == IF flow = "wait" THEN "off" ELSE IF flow = "poll" THEN "now"
              ELSE timer  \* mutant
Rearm == IF flow = "wait" THEN "off"
         ELSE IF flow = "poll" THEN "now"
         ELSE IF flow = active THEN timer ELSE Fires(flow)

\* The second observer of BeforeWaiting: handle_events_cleared, after Core
\* Animation has laid out and drawn what was to be.
EventsCleared ==
  /\ RunLoop("draw") /\ layout = {} /\ display = {}
  /\ at' = "sleep"
  /\ IF ~has_launched \/ has_terminated
     THEN UNCHANGED <<state, timer, panicked>>
     ELSE /\ panicked' = (state # "ProcessingRedraws")
          /\ state' = IF flow = "poll" THEN "PollFinished" ELSE "Waiting"
          /\ timer' = Rearm
  /\ UNCHANGED <<pc, then, batch, app_vars, active, flow, clock, queue, signalled,
                 view_vars, told_vars, ops>>

\* What ends the wait: the timer, the proxy's source, or something of UIKit's.
TimerDue == timer = "now" \/ (timer \in Deadlines /\ Passed(timer))
WakeDueTimer == RunLoop("sleep") /\ TimerDue /\ Wakeup  \* mutant
WakeDue == RunLoop("sleep") /\ (TimerDue \/ signalled) /\ Wakeup
WakeByUIKit == RunLoop("sleep") /\ ops < MaxOps /\ Wakeup

\* terminated(): Destroyed for every window, ...
WillTerminate ==
  /\ RunLoop("sources") /\ has_launched /\ ~has_terminated
  /\ \E order \in {s \in [1 .. Cardinality(live) -> live] :
                     \A i, j \in DOMAIN s : s[i] = s[j] => i = j} :
       /\ pc' = "batch" /\ then' = "terminate"
       /\ batch' = [i \in DOMAIN order |-> Event("destroyed", order[i])]
  /\ UNCHANGED <<at, app_vars, state_vars, timer, clock, queue, signalled, view_vars,
                 told_vars, panicked, ops>>

\* ... then terminated_transition, the proxy's source, and the application.
TerminatedKeeps ==  \* mutant
  /\ Drained("terminate") /\ state' = "Terminated" /\ pc' = "idle"
  /\ UNCHANGED <<at, then, batch, app_vars, signalled, panicked, active, flow, timer,
                 clock, queue, view_vars, told_vars, ops>>
Terminated ==
  /\ Drained("terminate")
  /\ panicked' = (state # "ProcessingEvents" \/ InUse)
  /\ state' = "Terminated" /\ signalled' = FALSE
  /\ Terminate /\ pc' = "idle"
  /\ UNCHANGED <<at, then, batch, inside, phase, active, flow, timer, clock, queue,
                 view_vars, told_vars, ops>>

----
(* What UIKit and other threads do. *)

\* becomeKeyWindow, resignKeyWindow, touches, gestures, keys, occlusion.
WindowInput ==
  /\ RunLoop("sources") /\ Op
  /\ \E w \in live : NonuserEvents(<<Event("input", w)>>)
  /\ UNCHANGED <<at, app_vars, state_vars, timer, clock, signalled, view_vars, told_vars,
                 panicked>>

\* The screen rotates, or the window is resized.
Rotate ==
  /\ RunLoop("sources") /\ Op
  /\ \E w \in live, s \in Sizes :
       size[w] # s /\ size' = [size EXCEPT ![w] = s] /\ layout' = layout \cup {w}
  /\ UNCHANGED <<loop_vars, app_vars, state_vars, timer, clock, queue, signalled, live,
                 display, told_vars, panicked>>

\* layoutSubviews of a view that needs it: at any time, at the latest when
\* Core Animation commits.
LayoutSubviews ==
  /\ RunLoop("sources") \/ RunLoop("draw")
  /\ \E w \in layout : layout' = layout \ {w} /\ NonuserEvents(<<Resized(w, size[w])>>)
  /\ UNCHANGED <<at, app_vars, state_vars, timer, clock, signalled, live, size, display,
                 told_vars, panicked, ops>>

\* drawRect: of a view that needs display.
DrawRect ==
  /\ RunLoop("sources") \/ RunLoop("draw")
  /\ \E w \in display : display' = display \ {w} /\ NonuserEvents(<<Event("redraw", w)>>)
  /\ UNCHANGED <<at, app_vars, state_vars, timer, clock, signalled, live, size, layout,
                 told_vars, panicked, ops>>

\* setContentScaleFactor: the surface has another size in the new scale.
SetContentScaleFactor ==
  /\ RunLoop("sources") /\ Op
  /\ \E w \in live, s \in Sizes :
       /\ size' = [size EXCEPT ![w] = s]
       /\ NonuserEvents(<<Event("scale", w), Resized(w, s)>>)
  /\ UNCHANGED <<at, app_vars, state_vars, timer, clock, signalled, live, layout, display,
                 told_vars, panicked>>

\* handle_resumed, handle_suspended, handle_memory_warning.
Notification ==
  /\ RunLoop("sources") /\ Op /\ has_launched
  /\ CallThenDrain("event", phase, "idle")
  /\ UNCHANGED <<at, state_vars, timer, clock, queue, signalled, view_vars, told_vars>>

\* EventLoopProxy::wake_up on any thread, and the source on the main one. The
\* source calls the application and does not drain the queue afterwards.
ProxyWakeUp ==
  /\ ~panicked /\ ~has_terminated /\ ~signalled /\ Op
  /\ has_launched \/ EarlyProxy
  /\ signalled' = TRUE
  /\ UNCHANGED <<loop_vars, app_vars, state_vars, timer, clock, queue, view_vars,
                 told_vars, panicked>>
ProxyPerform ==
  /\ RunLoop("sources") /\ signalled
  /\ signalled' = FALSE /\ panicked' = HandlePanics
  /\ IF Ready THEN Call("proxy", phase) ELSE NoCall
  /\ UNCHANGED <<loop_vars, state_vars, timer, clock, queue, view_vars, told_vars, ops>>

Tick ==
  /\ clock < 2 /\ ~panicked /\ clock' = clock + 1
  /\ UNCHANGED <<loop_vars, app_vars, state_vars, timer, queue, signalled, view_vars,
                 told_vars, panicked, ops>>

----
(* What the application does in a callback. *)

Inside == inside # "none" /\ ~panicked

SetControlFlow ==
  /\ Inside /\ Op
  /\ flow' \in Flows \ {flow}
  /\ UNCHANGED <<loop_vars, app_vars, state, active, timer, clock, queue, signalled,
                 view_vars, told_vars, panicked>>

\* setNeedsDisplay.  The other branch, queue_gl_or_metal_redraw with its bug! outside
\* ProcessingEvents, is dead code: gl_or_metal_backed asks whether the view, a WinitView
\* and so a UIView, is a CAMetalLayer or a CAEAGLLayer (window.rs:543), which it never is.
RequestRedraw ==
  /\ Inside /\ Op
  /\ \E w \in live \ display :
       display' = display \cup {w} /\ wanted' = wanted \cup {w}
  /\ UNCHANGED <<loop_vars, app_vars, state_vars, timer, clock, queue, signalled, live,
                 size, layout, reported, destroyed, panicked>>

\* Window::new: makeKeyAndVisible calls becomeKeyWindow at once. (No window is
\* created while the application is told that its windows are destroyed.)
CreateWindow ==
  /\ Inside /\ then # "terminate" /\ Op
  /\ \E w \in Windows \ live :
       /\ live' = live \cup {w} /\ layout' = layout \cup {w} /\ display' = display \cup {w}
       /\ NonuserEvents(<<Event("focused", w)>>)
  /\ UNCHANGED <<at, app_vars, state_vars, timer, clock, signalled, size, told_vars, panicked>>

\* The application changes the window in a way that UIKit lays out at once.
LayoutNow ==
  /\ Inside /\ inside \in NestIn /\ Op
  /\ \E w \in live, s \in Sizes :
       /\ size' = [size EXCEPT ![w] = s] /\ layout' = layout \ {w}
       /\ NonuserEvents(<<Resized(w, s)>>)
  /\ UNCHANGED <<at, app_vars, state_vars, timer, clock, signalled, live, display,
                 told_vars, panicked>>

\* The callback returns.
Return ==
  /\ Inside /\ inside # "scale"
  /\ Leave /\ inside' = "none"
  /\ UNCHANGED <<loop_vars, phase, state_vars, timer, clock, queue, signalled, view_vars,
                 told_vars, panicked, ops>>

\* The callback for a new scale factor returns: handle_hidpi_proxy gives the
\* view the size the application left in the SurfaceSizeWriter.
ReturnScale ==
  /\ Inside /\ inside = "scale"
  /\ Leave /\ inside' = "none"
  /\ LET w == Head(batch).window IN \E s \in Sizes :
       /\ size' = [size EXCEPT ![w] = s]
       /\ layout' = IF s = size[w] THEN layout ELSE layout \cup {w}
  /\ UNCHANGED <<loop_vars, phase, state_vars, timer, clock, queue, signalled, live,
                 display, told_vars, panicked, ops>>

Handlers == \/ CanCreateSurfaces \/ Deliver \/ TakeQueue \/ HandlerEnds
            \/ MainEventsClearedTransition \/ AboutToWait \/ MainEventsClearedEnds
            \/ Terminated \/ Return \/ ReturnScale
RunLoopSteps == \/ DidFinishLaunching \/ MainEventsCleared \/ LayoutSubviews
                \/ DrawRect \/ EventsCleared \/ WakeDue \/ ProxyPerform
Environment == \/ WakeByUIKit \/ WillTerminate \/ WindowInput \/ Rotate
               \/ SetContentScaleFactor \/ Notification \/ ProxyWakeUp
Application == SetControlFlow \/ RequestRedraw \/ CreateWindow \/ LayoutNow

Next == Handlers \/ RunLoopSteps \/ Environment \/ Application \/ Tick

\* Callbacks return, the run loop goes round and time passes; a signalled
\* source is performed in one of its turns.
Fairness == /\ WF_vars(Handlers) /\ WF_vars(RunLoopSteps) /\ WF_vars(Tick)
            /\ SF_vars(ProxyPerform)
Spec == Init /\ [][Next]_vars /\ Fairness

----
(* Properties. *)

\* None of the bug! arms of the state machine is reached, and the application
\* is never entered while it executes (app_state.rs:138-249, 345, 383;
\* event_handler.rs:138, 155).
NoPanic == ~panicked

\* The application is called in the order all backends promise; what Core
\* Animation draws after about_to_wait belongs to the iteration it closed.
Lifecycle == INSTANCE AppLifecycle WITH
  Trailing <- TRUE,
  inside <- IF inside \in {"proxy", "scale"} THEN "event" ELSE inside
LifecycleSpec == Lifecycle!AppSpec

\* When the loop waits, the application has been told everything: nothing is
\* queued, and the last size it was given is the size its surface has
\* (handle_nonuser_events; handle_hidpi_proxy; layoutSubviews).
ToldBeforeWait ==
  at = "sleep" /\ has_launched /\ ~has_terminated =>
    queue = <<>> /\ \A w \in live : reported[w] = size[w]

\* While it waits, the timer is the one the control flow asks for: none for
\* Wait, the deadline for WaitUntil (events_cleared_transition, and its arm for
\* an unchanged WaitUntil, which trusts the timer that is there).
TimerArmed ==
  at = "sleep" /\ state = "Waiting" =>
    \/ flow = "wait" /\ timer = "off"
    \/ timer = flow
    \/ flow \in Deadlines /\ Passed(flow) /\ timer = "now"

\* NoPanic, ToldBeforeWait and TimerArmed: a loop that waits has nothing left to do and
\* will be woken when it must.
Prepared == NoPanic /\ ToldBeforeWait /\ TimerArmed

\* After termination the application is gone: it has been told of every window
\* (terminated) and nothing that UIKit or a thread still does enters it.
GoneAfterTermination ==
  [][has_terminated => UNCHANGED inside /\ live \subseteq destroyed]_vars

\* The application is called as promised, and never again after the end.
Contract == LifecycleSpec /\ GoneAfterTermination

\* A requested redraw is delivered, unless the process terminates.
RedrawDelivered ==
  \A w \in Windows : (w \in wanted) ~> (w \notin wanted \/ has_terminated)

\* A wake-up through the proxy reaches the application, even when the loop
\* already waits (EventLoopProxy::wake_up wakes the run loop itself).
WakeUpDelivered == signalled ~> (inside = "proxy" \/ has_terminated)

\* A wait with a deadline ends when the deadline passes.
DeadlineKept ==
  (at = "sleep" /\ state = "Waiting" /\ flow \in Deadlines) ~> (at # "sleep")

\* Redraws, wake-ups and deadlines all arrive.
Delivered == RedrawDelivered /\ WakeUpDelivered /\ DeadlineKept
====
