---- MODULE WebRunner ----
(*
The event loop of winit-web: Shared, Runner and State of
event_loop/runner.rs, with the life of one Window (window.rs and the
Dispatcher of async/dispatcher.rs) and of the EventLoopProxy
(event_loop/proxy.rs).

The browser calls into the loop, one task at a time, and the loop calls
the application; a call of the DOM may call a listener back before it
returns. The model is a stack machine: stack holds the calls to be made
or to return, the innermost first, and is empty between two tasks.
A worker thread wakes the proxy and sends closures to the window.
*)
EXTENDS Naturals, Sequences

CONSTANTS
  AppActs,       \* what callbacks do besides returning
  Closures,      \* what a worker asks of the window
  ControlFlows,  \* the values the application gives to set_control_flow
  Early,         \* whether a proxy may be woken before can_create_surfaces
  Unloads,       \* whether the page may be unloaded
  VisibilityActs, \* of exit and create, what callbacks do in visibilitychange
  MaxInputs      \* bound: what the browser, the page and the worker initiate

ASSUME WebAssumption ==
  /\ AppActs \subseteq {"exit", "wake", "create", "drop", "redraw", "focus"}
  /\ Closures \subseteq {"redraw", "focus"}
  /\ ControlFlows \subseteq {"Wait", "Poll", "WaitUntil"} /\ ControlFlows # {}
  /\ Early \in BOOLEAN /\ Unloads \in BOOLEAN
  /\ VisibilityActs \subseteq {"exit", "create"}
  /\ MaxInputs \in Nat

VARIABLES
  runner, state, control_flow, exit, events,
  redraw_pending, destroy_pending,
  schedule,        \* the callback of the State is scheduled in the browser
  monitor_init,    \* MonitorHandler::is_initializing
  listening,       \* set_listener was called and the listeners are there
  all_canvases,    \* it has the entry (id, canvas, DispatchRunner) of the window
  window,          \* the application's Window
  inner,           \* the Inner of the window lives, in its receiver task
  closures,        \* closures sent to the Dispatcher and not run
  focused,         \* Canvas::has_focus
  frame,           \* an animation frame is requested
  awoken,          \* State::awoken of the proxy
  microtasks,      \* microtasks queued by send_proxy_wake_up
  stack,
  inputs,          \* how much of MaxInputs is used
  phase,           \* history: what the application has been told
  owed,            \* history: a redraw was requested and none came since
  waking           \* history: a proxy was woken and no proxy_wake_up since

loop_vars   == <<runner, state, exit, schedule, monitor_init, listening>>
window_vars == <<all_canvases, window, inner, destroy_pending>>
paint_vars  == <<redraw_pending, frame, owed>>
proxy_vars  == <<awoken, microtasks, waking>>
vars == <<loop_vars, control_flow, events, window_vars, paint_vars, proxy_vars,
          closures, focused, stack, inputs, phase>>

Runners == {"Pending", "Initializing", "Running", "Destroyed"}
States  == {"Init", "Wait", "Poll", "WaitUntil", "Exit"}

\* Events, by the callback they lead to.
Events == {"window_event", "user_wake_up", "focused"}
Callbacks == {"new_events_init", "new_events", "can_create_surfaces",
              "destroyed", "redraw_requested", "about_to_wait"} \cup Events

\* Frames of the call stack.
Handle(e) == [op |-> "handle", arg |-> e]   \* handle_event(e), next
App(e)    == [op |-> "app", arg |-> e]      \* the callback is running
Op(o)     == [op |-> o, arg |-> "none"]
Ops == {"after", "prefetch", "take", "destroy", "redraws", "apply", "close",
        "listen", "visible", "trap"}
Frames == {Handle(e) : e \in Callbacks} \cup {App(e) : e \in Callbacks}
            \cup {Op(o) : o \in Ops}

Push(f, s) == <<f>> \o s
Top(o) == stack # <<>> /\ Head(stack).op = o
OnStack(o) == \E i \in DOMAIN stack : stack[i].op = o
Idle == stack = <<>>          \* the browser is between two tasks
Budget == inputs < MaxInputs /\ inputs' = inputs + 1

\* The RefCells that the frames of the stack keep borrowed.
RunnerBorrowed   == OnStack("app")
CanvasesBorrowed == OnStack("prefetch") \/ OnStack("visible")

\* A borrow that fails panics, and a panic aborts: no frame returns any more.
Trap(rest) == Push(Op("trap"), rest)

FlagsOK ==
  /\ exit \in BOOLEAN /\ monitor_init \in BOOLEAN /\ listening \in BOOLEAN
  /\ redraw_pending \in BOOLEAN /\ destroy_pending \in BOOLEAN
  /\ all_canvases \in BOOLEAN /\ inner \in BOOLEAN
  /\ focused \in BOOLEAN /\ frame \in BOOLEAN
  /\ awoken \in BOOLEAN /\ owed \in BOOLEAN /\ waking \in BOOLEAN
DataOK ==
  /\ runner \in Runners /\ state \in States
  /\ control_flow \in ControlFlows
  /\ schedule \in {"none", "Poll", "WaitUntil"}
  /\ window \in {"none", "held", "dropped"}
  /\ events \in Seq(Events) /\ closures \in Seq({"redraw", "focus"})
  /\ stack \in Seq(Frames)
  /\ microtasks \in Nat /\ inputs \in Nat
  /\ phase \in {"Off", "Init", "Awake", "Asleep"}
TypeOK == FlagsOK /\ DataOK

Init ==
  /\ runner = "Pending" /\ state = "Init" /\ schedule = "none"
  /\ control_flow \in ControlFlows     \* EventLoop::set_control_flow
  /\ monitor_init \in BOOLEAN          \* window.getScreenDetails is supported
  /\ exit = FALSE /\ listening = FALSE /\ events = <<>>
  /\ redraw_pending = FALSE /\ destroy_pending = FALSE
  /\ all_canvases = FALSE /\ window = "none" /\ inner = FALSE
  /\ closures = <<>> /\ focused = FALSE /\ frame = FALSE
  /\ awoken = FALSE /\ microtasks = 0
  /\ stack = <<>> /\ inputs = 0
  /\ phase = "Off" /\ owed = FALSE /\ waking = FALSE

----
(* Entering an iteration *)

\* While the runner is borrowed the loop counts as open.
IsClosed == /\ ~RunnerBorrowed
            /\ \/ runner = "Running" /\ state = "Exit"
               \/ runner = "Destroyed"

\* The calls of run_until_cleared. A mutant: without the redraws.
IterationEnd(rest) ==
  Push(Op("destroy"), Push(Op("redraws"),
       Push(Handle("about_to_wait"), Push(Op("apply"), Push(Op("close"), rest)))))
RunUntilClearedNoRedraws(evs, rest) ==
  [i \in DOMAIN evs |-> Handle(evs[i])]
    \o Push(Op("destroy"), Push(Handle("about_to_wait"),
            Push(Op("apply"), Push(Op("close"), rest))))
RunUntilCleared(evs, rest) ==
  [i \in DOMAIN evs |-> Handle(evs[i])] \o IterationEnd(rest)

\* maybe_start_cause: in State::Init the cause is Init.
StartCause == IF state = "Init" THEN "new_events_init" ELSE "new_events"

\* send_events: discarded, queued, or an iteration of their own. Mutants: the
\* borrow of the runner is not looked at; what comes while busy is discarded.
SendEventsReentrant(evs, rest) ==
  IF IsClosed THEN stack' = rest /\ UNCHANGED events
  ELSE IF runner # "Running"
  THEN stack' = rest /\ events' = events \o evs
  ELSE /\ stack' = RunUntilCleared(<<StartCause>> \o evs, rest)
       /\ UNCHANGED events
SendEventsDropped(evs, rest) ==
  IF IsClosed \/ RunnerBorrowed THEN stack' = rest /\ UNCHANGED events
  ELSE IF runner # "Running"
  THEN stack' = rest /\ events' = events \o evs
  ELSE /\ stack' = RunUntilCleared(<<StartCause>> \o evs, rest)
       /\ UNCHANGED events
SendEvents(evs, rest) ==
  IF IsClosed THEN stack' = rest /\ UNCHANGED events
  ELSE IF runner # "Running" \/ RunnerBorrowed
  THEN stack' = rest /\ events' = events \o evs
  ELSE /\ stack' = RunUntilCleared(<<StartCause>> \o evs, rest)
       /\ UNCHANGED events

\* init, and set_listener after it.
StartUp == RunUntilCleared(<<"new_events_init", "can_create_surfaces">>,
                           <<Op("listen")>>)

\* EventLoop::run_app
Start ==
  /\ Idle /\ runner = "Pending"
  /\ IF monitor_init
     THEN runner' = "Initializing" /\ UNCHANGED stack
     ELSE runner' = "Running" /\ stack' = StartUp
  /\ UNCHANGED <<state, exit, schedule, monitor_init, listening, control_flow,
                 events, window_vars, paint_vars, proxy_vars, closures, focused,
                 inputs, phase>>

\* The promise of MonitorHandler resolves: start_delayed. A mutant: the loop
\* is running and its startup was not.
StartDelayedUninitialized ==
  /\ Idle /\ monitor_init
  /\ monitor_init' = FALSE
  /\ IF runner = "Initializing"
     THEN runner' = "Running" /\ stack' = <<Op("listen")>>
     ELSE UNCHANGED <<runner, stack>>
  /\ UNCHANGED <<state, exit, schedule, listening, control_flow, events,
                 window_vars, paint_vars, proxy_vars, closures, focused, inputs,
                 phase>>
StartDelayed ==
  /\ Idle /\ monitor_init
  /\ monitor_init' = FALSE
  /\ IF runner = "Initializing"
     THEN runner' = "Running" /\ stack' = StartUp
     ELSE UNCHANGED <<runner, stack>>
  /\ UNCHANGED <<state, exit, schedule, listening, control_flow, events,
                 window_vars, paint_vars, proxy_vars, closures, focused, inputs,
                 phase>>

----
(* An iteration, call by call *)

PhaseAfter(e) == CASE e = "new_events_init" -> "Init"
                   [] e \in {"new_events", "can_create_surfaces"} -> "Awake"
                   [] e = "about_to_wait" -> "Asleep"
                   [] OTHER -> phase

\* handle_event up to the callback, which runs with the runner borrowed.
HandleEvent ==
  /\ Top("handle")
  /\ LET e == Head(stack).arg IN
     IF RunnerBorrowed
     THEN stack' = Trap(stack) /\ UNCHANGED <<exit, phase, owed, waking>>
     ELSE /\ exit' = (exit \/ IsClosed)
          /\ IF runner = "Running"
             THEN /\ stack' = Push(App(e), Push(Op("after"), Tail(stack)))
                  /\ phase' = PhaseAfter(e)
                  /\ owed' = (owed /\ e # "redraw_requested")
                  /\ waking' = (waking /\ e # "user_wake_up")
             ELSE stack' = Tail(stack) /\ UNCHANGED <<phase, owed, waking>>
  /\ UNCHANGED <<runner, state, schedule, monitor_init, listening, control_flow,
                 events, window_vars, redraw_pending, frame, awoken, microtasks,
                 closures, focused, inputs>>

\* handle_event after the callback: nothing more once exit was called.
AfterCallback ==
  /\ Top("after")
  /\ stack' = IF exit \/ runner # "Running" THEN Tail(stack)
              ELSE IF all_canvases /\ inner
              THEN Push(Op("prefetch"), Push(Op("take"), Tail(stack)))
              ELSE Push(Op("take"), Tail(stack))
  /\ UNCHANGED <<loop_vars, control_flow, events, window_vars, paint_vars,
                 proxy_vars, closures, focused, inputs, phase>>

\* A closure sent by a worker: Window::request_redraw or focus_window. focus()
\* calls the listener of the focus event before it returns.
RunClosure(c, rest) ==
  IF c = "redraw"
  THEN frame' = TRUE /\ stack' = rest /\ UNCHANGED <<focused, events>>
  ELSE /\ focused' = TRUE /\ UNCHANGED frame
       /\ IF focused THEN stack' = rest /\ UNCHANGED events
                     ELSE SendEvents(<<"focused">>, rest)

\* DispatchRunner::run, with all_canvases borrowed.
Prefetch ==
  /\ Top("prefetch")
  /\ IF closures = <<>>
     THEN /\ stack' = Tail(stack)
          /\ UNCHANGED <<closures, frame, focused, events>>
     ELSE RunClosure(Head(closures), stack) /\ closures' = Tail(closures)
  /\ UNCHANGED <<loop_vars, control_flow, window_vars, redraw_pending, owed,
                 proxy_vars, inputs, phase>>

\* The proxy's flag is taken, and handle_event calls itself with the next
\* event of the queue. A mutant: without the call.
TakeOneOnly ==
  /\ Top("take")
  /\ LET evs == IF awoken THEN Append(events, "user_wake_up") ELSE events
     IN /\ awoken' = FALSE
        /\ stack' = Tail(stack)
        /\ events' = evs
  /\ UNCHANGED <<loop_vars, control_flow, window_vars, paint_vars, microtasks,
                 waking, closures, focused, inputs, phase>>
Take ==
  /\ Top("take")
  /\ LET evs == IF awoken THEN Append(events, "user_wake_up") ELSE events
     IN /\ awoken' = FALSE
        /\ IF evs = <<>>
           THEN stack' = Tail(stack) /\ UNCHANGED events
           ELSE /\ stack' = Push(Handle(Head(evs)), Tail(stack))
                /\ events' = Tail(evs)
  /\ UNCHANGED <<loop_vars, control_flow, window_vars, paint_vars, microtasks,
                 waking, closures, focused, inputs, phase>>

\* process_destroy_pending_windows, whose queue the end of Inner fills.
ProcessDestroyPending ==
  /\ Top("destroy")
  /\ IF ~destroy_pending
     THEN /\ stack' = Tail(stack)
          /\ UNCHANGED <<destroy_pending, all_canvases, redraw_pending>>
     ELSE /\ destroy_pending' = FALSE
          /\ IF CanvasesBorrowed
             THEN stack' = Trap(stack) /\ UNCHANGED <<all_canvases, redraw_pending>>
             ELSE /\ stack' = Push(Handle("destroyed"), stack)
                  /\ all_canvases' = FALSE /\ redraw_pending' = FALSE
  /\ UNCHANGED <<loop_vars, control_flow, events, window, inner, frame, owed,
                 proxy_vars, closures, focused, inputs, phase>>

\* The redraws of the iteration are drained before the first is handled.
Redraws ==
  /\ Top("redraws")
  /\ redraw_pending' = FALSE
  /\ stack' = IF redraw_pending THEN Push(Handle("redraw_requested"), Tail(stack))
                                ELSE Tail(stack)
  /\ UNCHANGED <<loop_vars, control_flow, events, window_vars, frame, owed,
                 proxy_vars, closures, focused, inputs, phase>>

\* What the browser schedules for a State. A mutant: something for each.
ScheduledAlways(s) == s
Scheduled(s) == IF s \in {"Poll", "WaitUntil"} THEN s ELSE "none"

\* apply_control_flow: the new State replaces the old one, whose Schedule is
\* cancelled when it is dropped. Mutants: exit is not looked at; a Schedule is
\* made only when the State changes.
ApplyIgnoresExit ==
  /\ Top("apply")
  /\ state' = control_flow
  /\ schedule' = Scheduled(control_flow)
  /\ stack' = Tail(stack)
  /\ UNCHANGED <<runner, exit, monitor_init, listening, control_flow, events,
                 window_vars, paint_vars, proxy_vars, closures, focused, inputs,
                 phase>>
ApplyOnChange ==
  /\ Top("apply")
  /\ LET new == IF exit THEN "Exit" ELSE control_flow
     IN /\ state' = new
        /\ schedule' = IF new = state THEN schedule ELSE Scheduled(new)
  /\ stack' = Tail(stack)
  /\ UNCHANGED <<runner, exit, monitor_init, listening, control_flow, events,
                 window_vars, paint_vars, proxy_vars, closures, focused, inputs,
                 phase>>
ApplyControlFlow ==
  /\ Top("apply")
  /\ LET new == IF exit THEN "Exit" ELSE control_flow
     IN state' = new /\ schedule' = Scheduled(new)
  /\ stack' = Tail(stack)
  /\ UNCHANGED <<runner, exit, monitor_init, listening, control_flow, events,
                 window_vars, paint_vars, proxy_vars, closures, focused, inputs,
                 phase>>

DropWindow == window' = IF window = "held" THEN "dropped" ELSE window

\* handle_loop_destroyed, if the iteration closed the loop: canvases, listeners
\* and the application, with its Window, are dropped. A mutant: the entries of
\* all_canvases stay.
LoopDestroyedKeepsCanvases ==
  /\ Top("close")
  /\ IF ~IsClosed
     THEN stack' = Tail(stack)
          /\ UNCHANGED <<runner, listening, all_canvases, window, frame, focused,
                         phase>>
     ELSE /\ stack' = Tail(stack)
          /\ runner' = "Destroyed" /\ listening' = FALSE
          /\ DropWindow
          /\ frame' = FALSE /\ focused' = FALSE
          /\ phase' = "Off" /\ UNCHANGED all_canvases
  /\ UNCHANGED <<state, exit, schedule, monitor_init, control_flow, events,
                 inner, destroy_pending, redraw_pending, owed, proxy_vars,
                 closures, inputs>>
LoopDestroyed ==
  /\ Top("close")
  /\ IF ~IsClosed
     THEN stack' = Tail(stack)
          /\ UNCHANGED <<runner, listening, all_canvases, window, frame, focused,
                         phase>>
     ELSE IF CanvasesBorrowed
     THEN stack' = Trap(stack)
          /\ UNCHANGED <<runner, listening, all_canvases, window, frame, focused,
                         phase>>
     ELSE /\ stack' = Tail(stack)
          /\ runner' = "Destroyed" /\ all_canvases' = FALSE /\ listening' = FALSE
          /\ DropWindow
          /\ frame' = FALSE /\ focused' = FALSE
          /\ phase' = "Off"
  /\ UNCHANGED <<state, exit, schedule, monitor_init, control_flow, events,
                 inner, destroy_pending, redraw_pending, owed, proxy_vars,
                 closures, inputs>>

SetListener ==
  /\ Top("listen")
  /\ listening' = TRUE /\ stack' = Tail(stack)
  /\ UNCHANGED <<runner, state, exit, schedule, monitor_init, control_flow,
                 events, window_vars, paint_vars, proxy_vars, closures, focused,
                 inputs, phase>>

----
(* The application, inside a callback *)

Acting(a) == /\ a \in AppActs /\ Top("app")
             /\ OnStack("visible") /\ a \in {"exit", "create"}
                  => a \in VisibilityActs

\* Proxies are woken at any time, or only after can_create_surfaces.
MayWake == Early \/ phase \in {"Awake", "Asleep"}

AppReturn ==
  /\ Top("app") /\ stack' = Tail(stack)
  /\ UNCHANGED <<loop_vars, control_flow, events, window_vars, paint_vars,
                 proxy_vars, closures, focused, inputs, phase>>

\* ActiveEventLoop::exit
AppExit ==
  /\ Acting("exit") /\ exit' = TRUE
  /\ UNCHANGED <<runner, state, schedule, monitor_init, listening, control_flow,
                 events, window_vars, paint_vars, proxy_vars, closures, focused,
                 stack, inputs, phase>>

\* ActiveEventLoop::set_control_flow
AppSetControlFlow ==
  /\ Top("app") /\ control_flow' \in ControlFlows
  /\ UNCHANGED <<loop_vars, events, window_vars, paint_vars, proxy_vars, closures,
                 focused, stack, inputs, phase>>

\* EventLoopProxy::wake_up on the main thread: on the next microtask, or like
\* any event when the runner is busy or not running.
LocalWakeUp ==
  /\ Budget /\ MayWake /\ waking' = TRUE
  /\ IF ~IsClosed /\ runner = "Running" /\ ~RunnerBorrowed
     THEN microtasks' = microtasks + 1 /\ UNCHANGED <<stack, events>>
     ELSE SendEvents(<<"user_wake_up">>, stack) /\ UNCHANGED microtasks
  /\ UNCHANGED <<loop_vars, control_flow, window_vars, paint_vars, awoken,
                 closures, focused, phase>>
AppWakeUp == Acting("wake") /\ LocalWakeUp

\* ActiveEventLoop::create_window; a second window is modelled up to add_canvas
\* only, for the borrow it may find.
AppCreateWindow ==
  /\ Acting("create") /\ phase \in {"Awake", "Asleep"}
  /\ \/ /\ CanvasesBorrowed
        /\ stack' = Trap(Tail(stack)) /\ UNCHANGED <<window, inner, all_canvases>>
     \/ /\ ~CanvasesBorrowed /\ window = "none"
        /\ window' = "held" /\ inner' = TRUE /\ all_canvases' = TRUE
        /\ UNCHANGED stack
  /\ UNCHANGED <<loop_vars, control_flow, events, destroy_pending, paint_vars,
                 proxy_vars, closures, focused, inputs, phase>>

\* The application drops its Window.
AppDropWindow ==
  /\ Acting("drop") /\ window = "held"
  /\ window' = "dropped"
  /\ UNCHANGED <<loop_vars, control_flow, events, all_canvases, inner,
                 destroy_pending, paint_vars, proxy_vars, closures, focused,
                 stack, inputs, phase>>

\* Window::request_redraw on the main thread: request_animation_frame.
AppRequestRedraw ==
  /\ Acting("redraw") /\ window = "held"
  /\ frame' = TRUE /\ owed' = TRUE
  /\ UNCHANGED <<loop_vars, control_flow, events, window_vars, redraw_pending,
                 proxy_vars, closures, focused, stack, inputs, phase>>

\* Window::focus_window on the main thread.
AppFocusWindow ==
  /\ Acting("focus") /\ window = "held"
  /\ RunClosure("focus", stack)
  /\ UNCHANGED <<loop_vars, control_flow, window_vars, redraw_pending, owed,
                 proxy_vars, closures, inputs, phase>>

----
(* Tasks of the browser, and the worker *)

\* A listener of the canvas or of set_listener is called.
DomEvent ==
  /\ Idle /\ Budget
  /\ \/ inner /\ runner # "Destroyed"
     \/ listening
  /\ SendEvents(<<"window_event">>, stack)
  /\ UNCHANGED <<loop_vars, control_flow, window_vars, paint_vars, proxy_vars,
                 closures, focused, phase>>

\* The listener of visibilitychange, which borrows all_canvases around the
\* Occluded events it sends.
VisibilityChange ==
  /\ Idle /\ Budget /\ listening /\ all_canvases /\ inner
  /\ SendEvents(<<"window_event">>, <<Op("visible")>>)
  /\ UNCHANGED <<loop_vars, control_flow, window_vars, paint_vars, proxy_vars,
                 closures, focused, phase>>
VisibilityHandled ==
  /\ Top("visible") /\ stack' = Tail(stack)
  /\ UNCHANGED <<loop_vars, control_flow, events, window_vars, paint_vars,
                 proxy_vars, closures, focused, inputs, phase>>

\* The canvas loses the focus: on_blur.
Blur ==
  /\ Idle /\ Budget /\ focused
  /\ focused' = FALSE
  /\ SendEvents(<<"focused">>, stack)
  /\ UNCHANGED <<loop_vars, control_flow, window_vars, paint_vars, proxy_vars,
                 closures, phase>>

\* poll, or resume_time_reached.
ScheduleFires ==
  /\ Idle /\ schedule # "none"
  /\ schedule' = "none"
  /\ stack' = RunUntilCleared(<<"new_events">>, stack)
  /\ UNCHANGED <<runner, state, exit, monitor_init, listening, control_flow,
                 events, window_vars, paint_vars, proxy_vars, closures, focused,
                 inputs, phase>>

\* The animation frame: Shared::request_redraw.
AnimationFrame ==
  /\ Idle /\ frame
  /\ frame' = FALSE /\ redraw_pending' = TRUE
  /\ SendEvents(<<>>, stack)
  /\ UNCHANGED <<loop_vars, control_flow, window_vars, owed, proxy_vars, closures,
                 focused, inputs, phase>>

\* The microtask of send_proxy_wake_up.
Microtask ==
  /\ Idle /\ microtasks > 0
  /\ microtasks' = microtasks - 1
  /\ SendEvents(<<"user_wake_up">>, stack)
  /\ UNCHANGED <<loop_vars, control_flow, window_vars, paint_vars, awoken,
                 waking, closures, focused, inputs, phase>>

\* The page wakes a proxy outside of any callback.
PageWakesProxy == Idle /\ LocalWakeUp

\* The receiver task of the proxy finds the flag.
ProxyTask ==
  /\ Idle /\ awoken
  /\ awoken' = FALSE
  /\ SendEvents(<<"user_wake_up">>, stack)
  /\ UNCHANGED <<loop_vars, control_flow, window_vars, paint_vars, microtasks,
                 waking, closures, focused, inputs, phase>>

\* The receiver task of the Dispatcher runs the next closure.
DispatcherTask ==
  /\ Idle /\ inner /\ closures # <<>>
  /\ RunClosure(Head(closures), stack) /\ closures' = Tail(closures)
  /\ UNCHANGED <<loop_vars, control_flow, window_vars, redraw_pending, owed,
                 proxy_vars, inputs, phase>>

\* It ends when the Window and the DispatchRunner, which both hold the Sender,
\* are gone; Inner::drop.
DispatcherTaskEnds ==
  /\ Idle /\ inner /\ closures = <<>>
  /\ window = "dropped" /\ ~all_canvases
  /\ inner' = FALSE /\ destroy_pending' = TRUE
  /\ UNCHANGED <<loop_vars, control_flow, events, all_canvases, window,
                 paint_vars, proxy_vars, closures, focused, stack, inputs, phase>>

\* handle_unload, with the application dropped.
Unload ==
  /\ Idle /\ Unloads /\ listening
  /\ exit' = TRUE /\ runner' = "Destroyed" /\ schedule' = "none"
  /\ state' = IF runner = "Running" THEN "Exit" ELSE state
  /\ DropWindow /\ phase' = "Off"
  /\ UNCHANGED <<monitor_init, listening, control_flow, events, all_canvases,
                 inner, destroy_pending, paint_vars, proxy_vars, closures,
                 focused, stack, inputs>>

\* A worker calls EventLoopProxy::wake_up.
WorkerWakesProxy ==
  /\ Budget /\ MayWake
  /\ awoken' = TRUE /\ waking' = TRUE
  /\ UNCHANGED <<loop_vars, control_flow, events, window_vars, paint_vars,
                 microtasks, closures, focused, stack, phase>>

\* A worker calls Window::request_redraw or focus_window.
WorkerDispatches ==
  /\ Budget /\ window = "held"
  /\ \E c \in Closures : /\ closures' = Append(closures, c)
                         /\ owed' = (owed \/ c = "redraw")
  /\ UNCHANGED <<loop_vars, control_flow, events, window_vars, redraw_pending,
                 frame, proxy_vars, focused, stack, phase>>

----
Loop == \/ HandleEvent \/ AfterCallback \/ Prefetch \/ Take
        \/ ProcessDestroyPending \/ Redraws \/ ApplyControlFlow \/ LoopDestroyed
        \/ SetListener \/ VisibilityHandled

Application == \/ AppReturn \/ AppExit \/ AppSetControlFlow \/ AppWakeUp
               \/ AppCreateWindow \/ AppDropWindow \/ AppRequestRedraw
               \/ AppFocusWindow

\* What the loop asked the browser to do, and what others do of their own.
Tasks == \/ StartDelayed \/ ScheduleFires \/ AnimationFrame \/ Microtask
         \/ ProxyTask \/ DispatcherTask \/ DispatcherTaskEnds
Others == \/ Start \/ DomEvent \/ VisibilityChange \/ Blur \/ PageWakesProxy \/ Unload
          \/ WorkerWakesProxy \/ WorkerDispatches

Next == Loop \/ Application \/ Tasks \/ Others

Spec == Init /\ [][Next]_vars

\* Callbacks return, and the browser runs every task it was given: no page is
\* hidden for ever, no task source starves. SF, because a task can run only
\* between two others.
Fairness == /\ WF_vars(Loop) /\ SF_vars(AppReturn)
            /\ SF_vars(StartDelayed) /\ SF_vars(ScheduleFires)
            /\ SF_vars(AnimationFrame) /\ SF_vars(Microtask)
            /\ SF_vars(ProxyTask) /\ SF_vars(DispatcherTask)
            /\ SF_vars(DispatcherTaskEnds)

FairSpec == Spec /\ Fairness

----
(* Properties *)

\* The RefCell of the runner is free whenever handle_event borrows it mutably,
\* whatever DOM call made in a callback leads back into send_events.
RunnerFree == Top("handle") => ~RunnerBorrowed

\* None of the RefCells of Execution is found borrowed: nothing panics.
NoBorrowPanic == ~OnStack("trap")

\* Between two tasks no event waits in the queue of a running loop: what was
\* queued while the runner was busy was handled by the iteration that was busy.
QueueDrained == Idle /\ runner = "Running" => events = <<>>

\* A running loop that is to poll, or to resume at a time, has the browser's
\* timer armed, for the State it is in.
ScheduleArmed == Idle /\ runner = "Running" => schedule = Scheduled(state)

\* Nothing is found borrowed, and no task of the browser leaves the runner with work that
\* no later task would do.
Undisturbed == NoBorrowPanic /\ QueueDrained /\ ScheduleArmed

\* The callbacks the application sees follow the contract of ApplicationHandler,
\* except that an event queued during about_to_wait is delivered after it in
\* the same iteration.
AppFrame == {i \in DOMAIN stack : stack[i].op = "app"}
CallbackName(e) ==
  IF e \in Events \cup {"redraw_requested", "destroyed"} THEN "event" ELSE e
Inside == IF AppFrame = {} THEN "none"
          ELSE CallbackName(stack[CHOOSE i \in AppFrame : TRUE].arg)
App_ == INSTANCE AppLifecycle WITH Trailing <- TRUE, inside <- Inside
Lifecycle == App_!AppSpec

\* Stopping: exit destroys the loop and drops the application.
ExitStops == exit ~> runner = "Destroyed"

\* A wake-up of a proxy, from any thread, is followed by proxy_wake_up or the
\* loop ends, once the loop is started.
WakeUpDelivered ==
  waking /\ runner # "Pending" ~> ~waking \/ runner = "Destroyed"

\* A requested redraw is followed by RedrawRequested, or the loop ends.
RedrawDelivered == owed ~> ~owed \/ runner = "Destroyed"

\* The window of an application that ended is released: its Dispatcher task
\* ends and drops Inner.
WindowReleasedAtExit ==
  runner = "Destroyed" /\ window # "none" ~> ~inner

\* The loop serves its wake-ups and redraws, ...
Delivered == WakeUpDelivered /\ RedrawDelivered
\* ... and ends with all it holds.
Ended == ExitStops /\ WindowReleasedAtExit

----
(* What comments and documentation say and the code does not keep *)

\* "The window is closed when dropped": the application is told Destroyed, or
\* ends.
WindowClosedWhenDropped ==
  window = "dropped" ~> ~inner \/ runner = "Destroyed"

\* The contract to the letter: "Done handling events, wait until we're woken up
\* again", about_to_wait and then new_events.
Contract_ == INSTANCE AppLifecycle WITH Trailing <- FALSE, inside <- Inside
StrictLifecycle == Contract_!AppSpec

\* When an iteration has closed the loop, listeners keep no reference to it.
ListenersRemoved == Idle /\ runner = "Destroyed" => ~listening
====
