---- MODULE Win32Runner ----
(*
The event loop of winit-win32: EventLoopRunner (event_loop/runner.rs)
with the functions that drive it, run_app_on_demand, pump_app_events,
wait_for_messages and dispatch_peeked_messages, and the parts of the
window procedures that decide when the application is called.

Everything but posting runs on one thread, so the model is a stack
machine: pc is the position in the outermost function, stack holds the
calls that are still to be made or to return, the innermost first.
Window procedures are re-entered from inside callbacks and from modal
loops; unwinding stops at catch_unwind.
*)
EXTENDS Naturals, Sequences

CONSTANTS
  Apis,          \* how the host drives the loop: subset of {"run", "pump"}
  AppActs,       \* what callbacks do besides returning
  ControlFlows,  \* the values the application gives to set_control_flow
  MaxPosts,      \* bound: messages posted or sent, and paints of the system
  MaxBuffer,     \* bound: events buffered before the environment stops
  MaxStack       \* bound: calls pending before the environment stops

AllActs == {"exit", "panic", "drag", "redraw", "sync", "modal", "thread"}

ASSUME Win32Assumption ==
  /\ Apis \subseteq {"run", "pump"}
  /\ AppActs \subseteq AllActs
  /\ ControlFlows \subseteq {"Wait", "Poll"} /\ ControlFlows # {}
  /\ MaxPosts \in Nat /\ MaxBuffer \in Nat /\ MaxStack \in Nat

VARIABLES
  runner_state, event_handler, exit, panic_error, control_flow,
  event_buffer, interrupt_msg_dispatch, pending_drag, source_drag,
  redraw_requested,   \* WindowState::redraw_requested of the one window
  api, pc, stack,     \* the outermost function and the calls it has pending
  queue,              \* messages posted to the thread
  paint,              \* the window has an update region (WM_PAINT is due)
  target_paint,       \* so has the invisible window that receives WakeUp
  posts,              \* how much of MaxPosts is used
  redrawer,           \* another thread inside Window::request_redraw
  phase,              \* history: what the application has been told
  owed,               \* history: a redraw was requested and none came since
  waking,             \* history: a proxy was woken and no proxy_wake_up since
  old                 \* history: events of earlier runs in event_buffer

loop_vars  == <<runner_state, exit, panic_error, interrupt_msg_dispatch>>
drag_vars  == <<pending_drag, source_drag>>
os_vars    == <<queue, paint, target_paint, posts>>
hist_vars  == <<phase, owed, waking, old>>
vars == <<loop_vars, event_handler, control_flow, event_buffer, drag_vars,
          redraw_requested, api, pc, stack, os_vars, redrawer, hist_vars>>

RunnerStates == {"Uninitialized", "Idle", "HandlingMainEvents", "Destroyed"}

\* Callbacks, and the events that event_buffer may hold.
Events == {"window_event", "proxy_wake_up"}
Callbacks == {"new_events_init", "new_events", "can_create_surfaces",
              "about_to_wait", "redraw_requested"} \cup Events

\* Input is any message that becomes a window event, Quiet one that does not,
\* SizeMove one whose default processing is the system's modal loop.
Messages == {"Input", "Quiet", "SizeMove", "WakeUp"}

\* Frames of the call stack.
Call(cb)      == [op |-> "call", arg |-> cb]   \* call_event_handler, next
App(cb)       == [op |-> "app", arg |-> cb]    \* the callback is running
Op(o)         == [op |-> o, arg |-> "none"]
Ops == {"drain", "interrupt", "validate", "rearm", "try_drag", "DoDragDrop",
        "end_drag", "modal"}
Frames == {Call(cb) : cb \in Callbacks} \cup {App(cb) : cb \in Callbacks}
            \cup {Op(o) : o \in Ops}

Push(f, s) == <<f>> \o s
Top(o) == stack # <<>> /\ Head(stack).op = o
OnStack(o) == \E i \in DOMAIN stack : stack[i].op = o
Room == Len(stack) < MaxStack /\ Len(event_buffer) < MaxBuffer

PCs == {"outside", "pump_start", "loop_top", "wait", "woken", "peek",
        "dispatched", "turn_end", "destroyed", "pump_end"}

FlagsOK ==
  /\ event_handler \in BOOLEAN /\ exit \in BOOLEAN /\ panic_error \in BOOLEAN
  /\ interrupt_msg_dispatch \in BOOLEAN
  /\ pending_drag \in BOOLEAN /\ source_drag \in BOOLEAN
  /\ redraw_requested \in BOOLEAN
  /\ owed \in BOOLEAN /\ waking \in BOOLEAN
  /\ paint \in BOOLEAN /\ target_paint \in BOOLEAN
DataOK ==
  /\ runner_state \in RunnerStates
  /\ control_flow \in ControlFlows
  /\ event_buffer \in Seq(Events)
  /\ stack \in Seq(Frames)
  /\ queue \in Seq(Messages)
  /\ api \in {"run", "pump"} /\ pc \in PCs
  /\ posts \in Nat /\ old \in Nat
  /\ redrawer \in {"idle", "flagged"}
  /\ phase \in {"Off", "Init", "Awake", "Asleep", "Dead"}
TypeOK == FlagsOK /\ DataOK

Init ==
  /\ runner_state = "Uninitialized"
  /\ control_flow \in ControlFlows   \* EventLoop::set_control_flow
  /\ event_handler = FALSE /\ exit = FALSE /\ panic_error = FALSE
  /\ interrupt_msg_dispatch = FALSE
  /\ pending_drag = FALSE /\ source_drag = FALSE
  /\ redraw_requested = FALSE /\ paint = FALSE /\ target_paint = FALSE
  /\ event_buffer = <<>> /\ stack = <<>> /\ queue = <<>>
  /\ api = "run" /\ pc = "outside"
  /\ posts = 0 /\ redrawer = "idle"
  /\ phase = "Off" /\ owed = FALSE /\ waking = FALSE /\ old = 0

----
(* The outermost functions *)

\* call_new_events, with the calls that come after it. A mutant: Init after
\* can_create_surfaces; another: the buffer is not dispatched.
NewEventsSwapped(init, rest) ==
  IF init THEN Push(Call("can_create_surfaces"),
                    Push(Call("new_events_init"), Push(Op("drain"), rest)))
          ELSE Push(Call("new_events"), Push(Op("drain"), rest))
NewEventsNoDrain(init, rest) ==
  IF init THEN Push(Call("new_events_init"), Push(Call("can_create_surfaces"), rest))
          ELSE Push(Call("new_events"), rest)
NewEvents(init, rest) ==
  IF init THEN Push(Call("new_events_init"),
                    Push(Call("can_create_surfaces"), Push(Op("drain"), rest)))
          ELSE Push(Call("new_events"), Push(Op("drain"), rest))

\* The calls move_state_to makes to get from one state to another. A mutant:
\* a last callback that the application does not have.
AboutToWait == Push(Call("about_to_wait"), <<>>)
TransitionExiting(from, to) ==
  IF to = "Destroyed" THEN Push(Call("exiting"), <<>>)
  ELSE CASE from = "Uninitialized" -> NewEvents(TRUE, AboutToWait)
         [] from = "Idle" -> NewEvents(FALSE, <<>>)
         [] OTHER -> AboutToWait
Transition(from, to) ==
  CASE from = to -> <<>>
    [] from = "Uninitialized" /\ to = "HandlingMainEvents" -> NewEvents(TRUE, <<>>)
    [] from = "Uninitialized" /\ to \in {"Idle", "Destroyed"} ->
         NewEvents(TRUE, AboutToWait)
    [] from = "Idle" /\ to = "HandlingMainEvents" -> NewEvents(FALSE, <<>>)
    [] from = "HandlingMainEvents" /\ to \in {"Idle", "Destroyed"} -> AboutToWait
    [] OTHER -> <<>>

\* move_state_to replaces the state first and makes the calls afterwards.
MoveStateTo(to, next) ==
  /\ runner_state' = to
  /\ stack' = Transition(runner_state, to)
  /\ pc' = next

At(p) == pc = p /\ stack = <<>>

\* run_app_on_demand: clear_exit, set_app, then the loop.
RunAppOnDemand ==
  /\ At("outside") /\ "run" \in Apis
  /\ api' = "run" /\ exit' = FALSE /\ event_handler' = TRUE
  /\ pc' = "loop_top"
  /\ UNCHANGED <<runner_state, panic_error, interrupt_msg_dispatch, control_flow,
                 event_buffer, drag_vars, redraw_requested, stack, os_vars,
                 redrawer, hist_vars>>

\* pump_app_events: set_app, then wakeup.
PumpAppEvents ==
  /\ At("outside") /\ "pump" \in Apis
  /\ api' = "pump" /\ event_handler' = TRUE
  /\ MoveStateTo("HandlingMainEvents", "pump_start")
  /\ UNCHANGED <<exit, panic_error, interrupt_msg_dispatch, control_flow,
                 event_buffer, drag_vars, redraw_requested, os_vars, redrawer,
                 hist_vars>>

PumpStart ==
  /\ At("pump_start")
  /\ pc' = IF exit THEN "turn_end" ELSE "loop_top"
  /\ UNCHANGED <<loop_vars, event_handler, control_flow, event_buffer, drag_vars,
                 redraw_requested, api, stack, os_vars, redrawer, hist_vars>>

\* wait_for_messages up to the wait: prepare_wait.
PrepareWait ==
  /\ At("loop_top")
  /\ MoveStateTo("Idle", "wait")
  /\ UNCHANGED <<exit, panic_error, interrupt_msg_dispatch, event_handler,
                 control_flow, event_buffer, drag_vars, redraw_requested, api,
                 os_vars, redrawer, hist_vars>>

\* MsgWaitForMultipleObjectsEx returns: input is available, or there is a
\* timeout (ControlFlow::Poll, or the timeout given to pump_app_events). Then
\* wakeup.
WaitReturns ==
  /\ At("wait")
  /\ \/ control_flow = "Poll" \/ api = "pump"
     \/ queue # <<>> \/ paint \/ target_paint
  /\ MoveStateTo("HandlingMainEvents", "woken")
  /\ UNCHANGED <<exit, panic_error, interrupt_msg_dispatch, event_handler,
                 control_flow, event_buffer, drag_vars, redraw_requested, api,
                 os_vars, redrawer, hist_vars>>

\* The exit check after wait_for_messages, and the start of
\* dispatch_peeked_messages.
AfterWait ==
  /\ At("woken")
  /\ IF exit THEN pc' = "turn_end" /\ UNCHANGED interrupt_msg_dispatch
             ELSE pc' = "peek" /\ interrupt_msg_dispatch' = FALSE
  /\ UNCHANGED <<runner_state, exit, panic_error, event_handler, control_flow,
                 event_buffer, drag_vars, redraw_requested, api, stack, os_vars,
                 redrawer, hist_vars>>

\* PeekMessageW finds nothing: dispatch_peeked_messages returns.
PeekNothing ==
  /\ At("peek") /\ queue = <<>> /\ ~paint /\ ~target_paint
  /\ pc' = "turn_end"
  /\ UNCHANGED <<loop_vars, event_handler, control_flow, event_buffer, drag_vars,
                 redraw_requested, api, stack, os_vars, redrawer, hist_vars>>

\* reset_runner: event_buffer and control_flow survive.
ResetRunner ==
  /\ interrupt_msg_dispatch' = FALSE /\ runner_state' = "Uninitialized"
  /\ panic_error' = FALSE /\ exit' = FALSE /\ event_handler' = FALSE
  /\ source_drag' = FALSE /\ pending_drag' = FALSE
  /\ phase' = "Off" /\ owed' = FALSE /\ waking' = FALSE
  /\ old' = Len(event_buffer)
  /\ pc' = "outside"
  /\ UNCHANGED <<control_flow, event_buffer, redraw_requested, api, stack,
                 os_vars, redrawer>>

\* After DispatchMessageW: a panic is taken up again, else exit and the
\* interrupt end the turn.
ResumeUnwind == At("dispatched") /\ panic_error /\ ResetRunner

AfterDispatch ==
  /\ At("dispatched") /\ ~panic_error
  /\ pc' = IF exit \/ interrupt_msg_dispatch THEN "turn_end" ELSE "peek"
  /\ UNCHANGED <<loop_vars, event_handler, control_flow, event_buffer, drag_vars,
                 redraw_requested, api, stack, os_vars, redrawer, hist_vars>>

\* The exit check after dispatch_peeked_messages: loop_destroyed, another turn
\* of run_app_on_demand, or the prepare_wait that ends pump_app_events. A
\* mutant: run_app_on_demand does not check.
TurnEndIgnoresExit ==
  /\ At("turn_end")
  /\ \/ exit /\ api = "pump" /\ MoveStateTo("Destroyed", "destroyed")
     \/ ~exit /\ api = "pump" /\ MoveStateTo("Idle", "pump_end")
     \/ api = "run" /\ pc' = "loop_top" /\ UNCHANGED <<runner_state, stack>>
  /\ UNCHANGED <<exit, panic_error, interrupt_msg_dispatch, event_handler,
                 control_flow, event_buffer, drag_vars, redraw_requested, api,
                 os_vars, redrawer, hist_vars>>
TurnEnd ==
  /\ At("turn_end")
  /\ \/ exit /\ MoveStateTo("Destroyed", "destroyed")
     \/ ~exit /\ api = "pump" /\ MoveStateTo("Idle", "pump_end")
     \/ /\ ~exit /\ api = "run"
        /\ pc' = "loop_top" /\ UNCHANGED <<runner_state, stack>>
  /\ UNCHANGED <<exit, panic_error, interrupt_msg_dispatch, event_handler,
                 control_flow, event_buffer, drag_vars, redraw_requested, api,
                 os_vars, redrawer, hist_vars>>

\* reset_runner, and the normal return to the host.
LoopExits == At("destroyed") /\ ResetRunner

\* PumpStatus::Continue: only the handler is given back.
PumpContinues ==
  /\ At("pump_end")
  /\ pc' = "outside" /\ event_handler' = FALSE
  /\ UNCHANGED <<loop_vars, control_flow, event_buffer, drag_vars,
                 redraw_requested, api, stack, os_vars, redrawer, hist_vars>>

----
(* Messages and the window procedures *)

\* send_event for everything but RedrawRequested: dispatched with the buffer
\* behind it, or buffered while the handler is taken (should_buffer). A
\* mutant: without dispatch_buffered_events.
SendEventNoDrain(e, rest) ==
  IF event_handler
  THEN stack' = Push(Call(e), rest) /\ UNCHANGED event_buffer
  ELSE stack' = rest /\ event_buffer' = Append(event_buffer, e)
SendEvent(e, rest) ==
  IF event_handler
  THEN stack' = Push(Call(e), Push(Op("drain"), rest)) /\ UNCHANGED event_buffer
  ELSE stack' = rest /\ event_buffer' = Append(event_buffer, e)

\* public_window_callback, or thread_event_target_callback for WakeUp. The body
\* runs in catch_unwind, which skips it while a panic is stored;
\* try_execute_drag_drop follows in either case, and DefWindowProcW last.
WindowProc(m, rest) ==
  LET After == CASE m = "WakeUp" -> rest
                 [] m = "SizeMove" /\ ~panic_error ->
                      Push(Op("try_drag"), Push(Op("modal"), rest))
                 [] OTHER -> Push(Op("try_drag"), rest)
  IN IF panic_error \/ m \in {"Quiet", "SizeMove"}
     THEN stack' = After /\ UNCHANGED event_buffer
     ELSE SendEvent(IF m = "WakeUp" THEN "proxy_wake_up" ELSE "window_event", After)

\* WM_PAINT: validated and dropped while a drag is the source's, put off while
\* the handler is taken, else RedrawRequested, which bypasses the buffer. A
\* mutant: without the should_buffer test.
PaintEnd(rest) == Push(Op("validate"), Push(Op("rearm"), Push(Op("try_drag"), rest)))
PaintProcUnguarded(rest) ==
  /\ stack' = Push(Call("redraw_requested"), Push(Op("interrupt"), PaintEnd(rest)))
  /\ redraw_requested' = FALSE /\ UNCHANGED paint
PaintProc(rest) ==
  IF panic_error
  THEN /\ stack' = Push(Op("try_drag"), rest)
       /\ UNCHANGED <<paint, redraw_requested>>
  ELSE IF source_drag
  THEN /\ stack' = Push(Op("try_drag"), rest)
       /\ paint' = FALSE /\ UNCHANGED redraw_requested
  ELSE /\ redraw_requested' = ~event_handler
       /\ stack' = IF event_handler
                   THEN Push(Call("redraw_requested"),
                             Push(Op("interrupt"), PaintEnd(rest)))
                   ELSE PaintEnd(rest)
       /\ UNCHANGED paint

\* Messages are retrieved by PeekMessageW, by a modal loop of the system, by
\* DoDragDrop, or by the host between two calls of the API.
Retrieving ==
  \/ At("peek")
  \/ Room /\ (At("outside") \/ Top("modal") \/ Top("DoDragDrop"))

Retrieve ==
  /\ Retrieving
  /\ pc' = IF At("peek") THEN "dispatched" ELSE pc
  /\ UNCHANGED <<loop_vars, event_handler, control_flow, drag_vars, api, posts,
                 redrawer, hist_vars>>

DispatchPosted ==
  /\ Retrieve /\ queue # <<>>
  /\ queue' = Tail(queue) /\ WindowProc(Head(queue), stack)
  /\ target_paint' = (target_paint \/ Head(queue) = "WakeUp")
  /\ UNCHANGED <<paint, redraw_requested>>

\* WM_PAINT is made up when nothing else is queued.
DispatchPaint ==
  /\ Retrieve /\ queue = <<>> /\ paint
  /\ PaintProc(stack) /\ UNCHANGED <<queue, target_paint, event_buffer>>

\* WM_PAINT of the target window: validated, unless a panic is stored.
DispatchTargetPaint ==
  /\ Retrieve /\ queue = <<>> /\ target_paint
  /\ target_paint' = panic_error
  /\ UNCHANGED <<queue, paint, redraw_requested, event_buffer, stack>>

Dispatch == DispatchPosted \/ DispatchPaint \/ DispatchTargetPaint

----
(* The pending calls *)

\* What the application has been told once callback cb has begun (history).
PhaseAfter(cb) ==
  CASE cb = "new_events_init" -> "Init"
    [] cb \in {"can_create_surfaces", "new_events"} -> "Awake"
    [] cb = "about_to_wait" -> "Asleep"
    [] OTHER -> phase

\* call_event_handler: skipped while a panic is stored; otherwise the handler
\* is taken, and its absence is a panic of its own.
CallEventHandler ==
  /\ Top("call")
  /\ LET cb == Head(stack).arg IN
     CASE panic_error ->
            /\ stack' = Tail(stack)
            /\ UNCHANGED <<event_handler, panic_error, phase, owed, waking>>
       [] ~panic_error /\ event_handler ->
            /\ stack' = Push(App(cb), Tail(stack))
            /\ event_handler' = FALSE
            /\ phase' = PhaseAfter(cb)
            /\ owed' = (owed /\ cb # "redraw_requested")
            /\ waking' = (waking /\ cb # "proxy_wake_up")
            /\ UNCHANGED panic_error
       [] OTHER ->
            /\ stack' = Tail(stack) /\ panic_error' = TRUE
            /\ UNCHANGED <<event_handler, phase, owed, waking>>
  /\ UNCHANGED <<runner_state, exit, interrupt_msg_dispatch, control_flow,
                 event_buffer, drag_vars, redraw_requested, api, pc, os_vars,
                 redrawer, old>>

\* dispatch_buffered_events, one event at a time.
DispatchBufferedEvents ==
  /\ Top("drain")
  /\ IF event_buffer = <<>>
     THEN stack' = Tail(stack) /\ UNCHANGED <<event_buffer, old>>
     ELSE /\ stack' = Push(Call(Head(event_buffer)), stack)
          /\ event_buffer' = Tail(event_buffer)
          /\ old' = IF old > 0 THEN old - 1 ELSE 0
  /\ UNCHANGED <<loop_vars, event_handler, control_flow, drag_vars,
                 redraw_requested, api, pc, os_vars, redrawer, phase, owed,
                 waking>>

SetInterrupt ==
  /\ Top("interrupt")
  /\ interrupt_msg_dispatch' = TRUE /\ stack' = Tail(stack)
  /\ UNCHANGED <<runner_state, exit, panic_error, event_handler, control_flow,
                 event_buffer, drag_vars, redraw_requested, api, pc, os_vars,
                 redrawer, hist_vars>>

\* DefWindowProcW ends WM_PAINT: the window is valid.
Validate ==
  /\ Top("validate")
  /\ paint' = FALSE /\ stack' = Tail(stack)
  /\ UNCHANGED <<loop_vars, event_handler, control_flow, event_buffer, drag_vars,
                 redraw_requested, api, pc, queue, target_paint, posts, redrawer,
                 hist_vars>>

\* A redraw requested during WM_PAINT is requested again after it. A mutant:
\* it is not.
RearmForgotten ==
  /\ Top("rearm")
  /\ redraw_requested' = FALSE /\ stack' = Tail(stack)
  /\ UNCHANGED <<loop_vars, event_handler, control_flow, event_buffer, drag_vars,
                 api, pc, os_vars, redrawer, hist_vars>>
Rearm ==
  /\ Top("rearm")
  /\ paint' = (paint \/ redraw_requested) /\ redraw_requested' = FALSE
  /\ stack' = Tail(stack)
  /\ UNCHANGED <<loop_vars, event_handler, control_flow, event_buffer, drag_vars,
                 api, pc, queue, target_paint, posts, redrawer, hist_vars>>

\* try_execute_drag_drop up to DoDragDrop.
TryExecuteDragDrop ==
  /\ Top("try_drag")
  /\ IF pending_drag
     THEN /\ stack' = Push(Op("DoDragDrop"), Tail(stack))
          /\ pending_drag' = FALSE /\ source_drag' = TRUE
     ELSE stack' = Tail(stack) /\ UNCHANGED drag_vars
  /\ UNCHANGED <<loop_vars, event_handler, control_flow, event_buffer,
                 redraw_requested, api, pc, os_vars, redrawer, hist_vars>>

\* DoDragDrop returns: the outcome is sent as an event, or it failed.
DoDragDropReturns ==
  /\ Top("DoDragDrop")
  /\ \/ SendEvent("window_event", Push(Op("end_drag"), Tail(stack)))
     \/ stack' = Push(Op("end_drag"), Tail(stack)) /\ UNCHANGED event_buffer
  /\ UNCHANGED <<loop_vars, event_handler, control_flow, drag_vars,
                 redraw_requested, api, pc, os_vars, redrawer, hist_vars>>

\* The ClearOnDrop guard of try_execute_drag_drop.
ClearSourceDrag ==
  /\ Top("end_drag")
  /\ source_drag' = FALSE /\ stack' = Tail(stack)
  /\ UNCHANGED <<loop_vars, event_handler, control_flow, event_buffer,
                 pending_drag, redraw_requested, api, pc, os_vars, redrawer,
                 hist_vars>>

\* The user ends the modal loop.
ModalEnds ==
  /\ Top("modal") /\ stack' = Tail(stack)
  /\ UNCHANGED <<loop_vars, event_handler, control_flow, event_buffer, drag_vars,
                 redraw_requested, api, pc, os_vars, redrawer, hist_vars>>

----
(* The application, inside a callback *)

Acting(a) == a \in AppActs /\ Top("app")

\* ActiveEventLoop::exit
AppExit ==
  /\ Acting("exit") /\ exit' = TRUE
  /\ UNCHANGED <<runner_state, panic_error, interrupt_msg_dispatch, event_handler,
                 control_flow, event_buffer, drag_vars, redraw_requested, api, pc,
                 stack, os_vars, redrawer, hist_vars>>

\* ActiveEventLoop::set_control_flow
AppSetControlFlow ==
  /\ Top("app") /\ control_flow' \in ControlFlows
  /\ UNCHANGED <<loop_vars, event_handler, event_buffer, drag_vars,
                 redraw_requested, api, pc, stack, os_vars, redrawer, hist_vars>>

\* ActiveEventLoop::start_drag
AppStartDrag ==
  /\ Acting("drag") /\ pending_drag' = TRUE
  /\ UNCHANGED <<loop_vars, event_handler, control_flow, event_buffer,
                 source_drag, redraw_requested, api, pc, stack, os_vars, redrawer,
                 hist_vars>>

\* Window::request_redraw
AppRequestRedraw ==
  /\ Acting("redraw")
  /\ redraw_requested' = TRUE /\ paint' = TRUE /\ owed' = TRUE
  /\ UNCHANGED <<loop_vars, event_handler, control_flow, event_buffer, drag_vars,
                 api, pc, stack, queue, target_paint, posts, redrawer, phase,
                 waking, old>>

\* A call of the application makes the system send a message right away: a
\* setter of Window, or UpdateWindow when WM_PAINT is due.
AppSend ==
  /\ Acting("sync") /\ Room
  /\ \/ /\ posts < MaxPosts /\ posts' = posts + 1
        /\ \E m \in {"Input", "Quiet"} : WindowProc(m, stack)
        /\ UNCHANGED <<paint, redraw_requested>>
     \/ paint /\ PaintProc(stack) /\ UNCHANGED <<event_buffer, posts>>
  /\ UNCHANGED <<loop_vars, event_handler, control_flow, drag_vars, api, pc,
                 queue, target_paint, redrawer, hist_vars>>

\* The application runs a modal loop of its own, a message box for instance.
AppModal ==
  /\ Acting("modal") /\ Room
  /\ stack' = Push(Op("modal"), stack)
  /\ UNCHANGED <<loop_vars, event_handler, control_flow, event_buffer, drag_vars,
                 redraw_requested, api, pc, os_vars, redrawer, hist_vars>>

\* The callback returns and call_event_handler puts the handler back.
AppReturn ==
  /\ Top("app")
  /\ event_handler' = TRUE /\ stack' = Tail(stack)
  /\ UNCHANGED <<loop_vars, control_flow, event_buffer, drag_vars,
                 redraw_requested, api, pc, os_vars, redrawer, hist_vars>>

\* The callback panics: catch_unwind stores the panic, the handler is gone.
AppPanic ==
  /\ Acting("panic")
  /\ panic_error' = TRUE /\ stack' = Tail(stack) /\ phase' = "Dead"
  /\ UNCHANGED <<runner_state, exit, interrupt_msg_dispatch, event_handler,
                 control_flow, event_buffer, drag_vars, redraw_requested, api, pc,
                 os_vars, redrawer, owed, waking, old>>

----
(* Other threads and the system *)

\* PostMessageW by a proxy or by the system.
Post(m) ==
  /\ posts < MaxPosts
  /\ queue' = Append(queue, m) /\ posts' = posts + 1
  /\ waking' = (waking \/ m = "WakeUp")
  /\ UNCHANGED <<loop_vars, event_handler, control_flow, event_buffer, drag_vars,
                 redraw_requested, api, pc, stack, paint, target_paint, redrawer,
                 phase, owed, old>>

\* The system invalidates the window.
Invalidate ==
  /\ posts < MaxPosts
  /\ paint' = TRUE /\ posts' = posts + 1
  /\ UNCHANGED <<loop_vars, event_handler, control_flow, event_buffer, drag_vars,
                 redraw_requested, api, pc, stack, queue, target_paint, redrawer,
                 hist_vars>>

\* Window::request_redraw on another thread: the flag, then RedrawWindow.
ThreadSetsFlag ==
  /\ "thread" \in AppActs /\ redrawer = "idle" /\ posts < MaxPosts
  /\ redrawer' = "flagged" /\ redraw_requested' = TRUE /\ owed' = TRUE
  /\ posts' = posts + 1
  /\ UNCHANGED <<loop_vars, event_handler, control_flow, event_buffer, drag_vars,
                 api, pc, stack, queue, paint, target_paint, phase, waking,
                 old>>

ThreadRedrawWindow ==
  /\ redrawer = "flagged"
  /\ redrawer' = "idle" /\ paint' = TRUE
  /\ UNCHANGED <<loop_vars, event_handler, control_flow, event_buffer, drag_vars,
                 redraw_requested, api, pc, stack, queue, target_paint, posts,
                 hist_vars>>

----
\* The calls of the host, the loop's own steps, and what is up to others.
Host == RunAppOnDemand \/ PumpAppEvents

Loop == \/ PumpStart \/ PrepareWait \/ WaitReturns \/ AfterWait
        \/ PeekNothing \/ ResumeUnwind \/ AfterDispatch \/ TurnEnd \/ LoopExits
        \/ PumpContinues \/ (At("peek") /\ Dispatch)
        \/ CallEventHandler \/ DispatchBufferedEvents \/ SetInterrupt
        \/ Validate \/ Rearm \/ TryExecuteDragDrop \/ ClearSourceDrag

Application == \/ AppExit \/ AppSetControlFlow \/ AppStartDrag
               \/ AppRequestRedraw \/ AppSend \/ AppModal \/ AppReturn \/ AppPanic

Environment == \/ \E m \in Messages : Post(m)
               \/ Invalidate \/ ThreadSetsFlag \/ ThreadRedrawWindow
               \/ Dispatch
               \/ ModalEnds \/ DoDragDropReturns

Next == Host \/ Loop \/ Application \/ Environment

Spec == Init /\ [][Next]_vars

\* The thread keeps running, callbacks return, the user ends modal loops and
\* drags, and a thread inside request_redraw gets to its end. Nobody has to
\* post, to invalidate or to call the API.
Fairness == /\ WF_vars(Loop) /\ SF_vars(AppReturn)
            /\ SF_vars(ModalEnds) /\ SF_vars(DoDragDropReturns)
            /\ WF_vars(ThreadRedrawWindow)

FairSpec == Spec /\ Fairness

----
(* Properties *)

\* The handler is a `&mut dyn ApplicationHandler` in a Cell: it is in the cell
\* exactly when the loop runs, no callback is executing and none panicked. Two
\* callbacks never execute at once, and the `expect` of call_event_handler and
\* the asserts of set_app and of call_event_handler cannot fail.
NoApp(s) == \A i \in DOMAIN s : s[i].op # "app"
HandlerExclusive ==
  \A i, j \in DOMAIN stack : stack[i].op = "app" /\ stack[j].op = "app" => i = j
HandlerAvailable == Top("call") /\ ~panic_error => event_handler
HandlerReturned ==
  /\ event_handler => NoApp(stack)
  /\ pc = "outside" => ~event_handler
  /\ pc # "outside" /\ ~event_handler /\ ~panic_error => ~NoApp(stack)
HandlerDiscipline == HandlerExclusive /\ HandlerAvailable /\ HandlerReturned

\* The callbacks the application sees follow the contract of ApplicationHandler.
AppFrame == {i \in DOMAIN stack : stack[i].op = "app"}
CallbackName(cb) == IF cb \in Events \cup {"redraw_requested"} THEN "event" ELSE cb
App_ == INSTANCE AppLifecycle WITH
  Trailing <- FALSE,
  phase <- phase,
  inside <- IF AppFrame = {} THEN "none"
            ELSE CallbackName(stack[CHOOSE i \in AppFrame : TRUE].arg)
Lifecycle == App_!AppSpec

\* An event is left in the buffer while the application could take it only
\* behind a RedrawRequested, which also ends the turn of the loop.
NothingLeftBehind ==
  /\ event_handler /\ runner_state = "HandlingMainEvents"
  /\ event_buffer # <<>> /\ ~OnStack("drain")
  => interrupt_msg_dispatch \/ OnStack("interrupt")

\* Stopping: once exit has been called the loop returns to the host.
ExitStops == exit ~> pc = "outside"

\* The part of it the code keeps: an application that has called exit and polls
\* from then on sees the loop return.
PollingExitStops == exit ~> pc = "outside" \/ control_flow = "Wait"

\* A wake-up of a proxy is followed by proxy_wake_up or the loop returns.
WakeUpDelivered == waking ~> (~waking \/ pc = "outside")

\* A requested redraw is followed by RedrawRequested or the loop returns.
RedrawDelivered == owed ~> (~owed \/ pc = "outside")

\* Both: neither a wake-up nor a redraw is lost, whatever modal loop runs.
Delivered == WakeUpDelivered /\ RedrawDelivered

----
(* What comments and documentation say and the code does not keep *)

\* "Add the event to a buffer to be processed later" (send_event).
BufferedThenProcessed ==
  event_buffer # <<>> /\ pc # "outside" ~> event_buffer = <<>> \/ pc = "outside"

\* Panics of the application are forwarded to the caller: no normal return
\* while one is stored.
PanicForwarded == At("destroyed") => ~panic_error

\* DoDragDrop is called only after the application returned control to winit
\* (pending_drag).
DragOutsideCallbacks ==
  \A i, j \in DOMAIN stack :
    stack[i].op = "DoDragDrop" /\ stack[j].op = "app" => j < i

\* source_drag is Some(_) while DoDragDrop is on the call stack.
SourceDragKnown == OnStack("DoDragDrop") => source_drag

\* No window state is carried from one run to the next: the events a run
\* dispatches from the buffer are its own.
NothingCarriedOver == Top("drain") /\ event_handler => old = 0

\* Every call of run_app_on_demand begins with the startup sequence.
RunStartsFresh == [][RunAppOnDemand => runner_state = "Uninitialized"]_vars
====
