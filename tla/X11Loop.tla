---- MODULE X11Loop ----
(*
The event loop of winit-x11: pump_app_events, its two looks at what is
pending around the wait, the single iteration, and the handlers of
EventProcessor that keep state between X events: the active window, the
first touch, the registry of windows and the loop over them when the
scale factor changes.

The X server speaks at any time; what it said stays on the wire until
Xlib reads it into its own queue. Requests stay in the output buffer
until Xlib flushes it. A second thread of the application requests
redraws and activation tokens (a send, then a ping), drops windows,
makes round trips on the shared connection and uses the proxy.
*)
EXTENDS Naturals, Sequences, FiniteSets, SequencesExt

CONSTANTS
  Windows, None,
  Touches,       \* bound: touches
  CreateIn,      \* the callbacks in which windows are created
  Environments   \* what the world around the loop does in a behaviour

Fingers == 1 .. Touches
ServerOps == {"focus", "touch", "expose", "close", "key", "mods", "button",
              "motion", "configure", "dpi", "kill", "fail"}
AppOps == {"exit", "drop", "redraw", "token", "wake_up"}
RemoteOps == {"redraw", "token", "drop", "round_trip"}

\* mode: run_app_on_demand, or pump_app_events by the application. limited: the
\* control flow, or pump's timeout, bounds the wait. server, app, remote: what the
\* server and the user, the callbacks and the second thread do, max how often.
ASSUME X11Assumption ==
  /\ None \notin Windows /\ "up" \notin Windows \cup {None} /\ IsFiniteSet(Windows)
  /\ Touches \in Nat
  /\ Environments \subseteq [server : SUBSET ServerOps, app : SUBSET AppOps,
                             remote : SUBSET RemoteOps, mode : {"run", "pump"},
                             limited : BOOLEAN, max : Nat]

VARIABLES
  step,        \* where pump_app_events is, "out" when the application has control
  blocking,    \* the wait under way is not bounded
  running,     \* loop_running
  first,       \* the Init iteration of this pump is running
  exit, phase, inside,
  held,        \* the windows the application has a handle of
  windows,     \* ActiveEventLoop::windows, of weak references
  todo,        \* the windows the X event being processed still has events for
  borrowed,    \* the registry is borrowed while they are handed out
  redraws, tokens,     \* redraw_receiver, activation_receiver
  work,        \* the redraws of this iteration
  proxy_wake_up, ping, proxy_ping,
  remote,      \* the second thread still has to ping
  wire, queue, \* X events on the connection, and those Xlib has read
  unsent, doomed,      \* DestroyWindow requests: in the output buffer, sent
  exists,      \* the windows the server has
  xfocus,      \* the window the server gives the keyboard to
  touching,    \* the window each finger is on
  active_window, first_touch, num_touch,
  listening,   \* the device event filter is open (DeviceEvents::WhenFocused)
  focused,     \* history: the windows last told Focused(true)
  primary,     \* history: the fingers that entered as primary
  heard,       \* history: the window of each finger the application knows down
  alone,       \* history: the fingers put down when it knew of no other
  gone,        \* history: the windows told Destroyed
  target,      \* the window of the event being handled
  panicked,
  env,         \* the environment of this behaviour
  ops

loop_vars == <<step, env, blocking, running, first, exit, phase, inside>>
iter_vars == <<todo, borrowed, work>>
chan_vars == <<redraws, tokens>>
wake_vars == <<proxy_wake_up, ping, proxy_ping, remote>>
server_vars == <<unsent, doomed, exists, xfocus, touching>>
input_vars == <<active_window, first_touch, num_touch, listening, focused, primary,
                heard, alone>>
vars == <<loop_vars, iter_vars, chan_vars, wake_vars, server_vars, input_vars, held,
          windows, wire, queue, gone, target, panicked, ops>>

Steps == {"out", "poll", "wait", "new_events", "can_create", "drain", "tokens",
          "proxy", "redraws", "end"}
XEvents == [kind : {"focus_in", "focus_out", "touch_begin", "touch_end", "expose",
                    "map", "close", "key", "mods", "button", "motion", "configure", "dpi",
                    "destroy"},
            w : Windows \cup {None}, f : Fingers \cup {None}]
X(k, w) == [kind |-> k, w |-> w, f |-> None]

TypeOK ==
  /\ step \in Steps /\ env \in Environments
  /\ {blocking, running, first, exit, borrowed, listening, panicked} \subseteq BOOLEAN
  /\ phase \in {"Off", "Init", "Awake", "Asleep"}
  /\ inside \in {"none", "new_events_init", "new_events", "can_create_surfaces",
                 "event", "about_to_wait"}
  /\ held \subseteq Windows /\ windows \subseteq Windows
  /\ todo \in Seq(Windows) /\ work \subseteq Windows
  /\ redraws \subseteq Windows /\ tokens \in Seq(Windows)
  /\ {proxy_wake_up, ping, proxy_ping, remote} \subseteq BOOLEAN
  /\ wire \in Seq(XEvents) /\ queue \in Seq(XEvents)
  /\ unsent \subseteq Windows /\ doomed \subseteq Windows /\ exists \subseteq Windows
  /\ xfocus \in Windows \cup {None} /\ active_window \in Windows \cup {None}
  /\ touching \in [Fingers -> Windows \cup {None, "up"}]
  /\ heard \in [Fingers -> Windows \cup {None}]
  /\ first_touch \in Fingers \cup {None} /\ num_touch \in Nat
  /\ focused \subseteq Windows /\ gone \subseteq Windows
  /\ primary \subseteq Fingers /\ alone \subseteq Fingers
  /\ target \in Windows \cup {None} /\ ops \in 0 .. env.max

Init ==
  /\ step = "out" /\ env \in Environments
  /\ blocking = FALSE /\ running = FALSE /\ first = FALSE /\ exit = FALSE
  /\ phase = "Off" /\ inside = "none"
  /\ held = {} /\ windows = {} /\ todo = <<>> /\ borrowed = FALSE
  /\ redraws = {} /\ tokens = <<>> /\ work = {}
  /\ proxy_wake_up = FALSE /\ ping = FALSE /\ proxy_ping = FALSE /\ remote = FALSE
  /\ wire = <<>> /\ queue = <<>> /\ unsent = {} /\ doomed = {} /\ exists = {}
  /\ xfocus = None /\ touching = [f \in Fingers |-> None]
  /\ active_window = None /\ first_touch = None /\ num_touch = 0
  /\ listening = TRUE       \* update_listen_device_events(true) in EventLoop::new
  /\ focused = {} /\ primary = {} /\ alone = {} /\ heard = touching /\ gone = {} /\ target = None
  /\ panicked = FALSE /\ ops = 0

----
(* Control. *)

At(s) == step = s /\ inside = "none" /\ ~panicked
Call(cb, ph, w) == inside' = cb /\ phase' = ph /\ target' = w
NoCall == UNCHANGED <<inside, phase, target>>
Op == ops < env.max /\ ops' = ops + 1

\* XPending and XCheckIfEvent flush the output and read all there is.
ReadUnflushed ==  \* mutant
  queue' = queue \o wire /\ wire' = <<>> /\ UNCHANGED <<doomed, unsent>>
ReadAll ==
  /\ queue' = queue \o wire /\ wire' = <<>>
  /\ doomed' = doomed \cup unsent /\ unsent' = {}

\* pump_app_events; run_app_on_demand calls it again and again.
StartPump ==
  /\ At("out") /\ (env.mode = "run" => ~exit)
  /\ running' = TRUE /\ first' = ~running
  /\ step' = IF running THEN "poll" ELSE "new_events"
  /\ UNCHANGED <<env, blocking, exit, phase, inside, iter_vars, chan_vars,
                 wake_vars, server_vars, input_vars, held, windows, wire, queue, gone,
                 target, panicked, ops>>

\* run_app_on_demand clears the exit of an earlier run.
ClearExit ==
  /\ At("out") /\ ~running /\ env.mode = "run" /\ exit
  /\ exit' = FALSE
  /\ UNCHANGED <<step, env, blocking, running, first, phase, inside,
                 iter_vars, chan_vars, wake_vars, server_vars, input_vars, held,
                 windows, wire, queue, gone, target, panicked, ops>>

\* PumpStatus::Exit or Continue.
FinishStillRunning(code) ==  \* mutant
  step' = "out" /\ running' = TRUE /\ phase' = IF code THEN "Off" ELSE phase
FinishContinue(code) ==  \* mutant
  step' = "out" /\ UNCHANGED <<running, phase>>
Finish(code) ==
  step' = "out" /\ running' = ~code /\ phase' = IF code THEN "Off" ELSE phase

\* has_pending, after ReadAll; the activation tokens are not asked for.
PendingWithoutRedraws ==  \* mutant
  queue' # <<>> \/ proxy_wake_up'
PendingWithoutProxy ==  \* mutant
  queue' # <<>> \/ redraws # {}
PendingWithoutEvents ==  \* mutant
  proxy_wake_up' \/ redraws # {}
HasPending == queue' # <<>> \/ proxy_wake_up' \/ redraws # {}

\* The first look: what is pending makes the wait return at once.
CheckPending ==
  /\ At("poll") /\ ReadAll
  /\ UNCHANGED proxy_wake_up
  /\ blocking' = ~(env.limited \/ HasPending)
  /\ step' = "wait"
  /\ UNCHANGED <<env, running, first, exit, phase, inside, iter_vars,
                 chan_vars, ping, proxy_ping, remote, exists, xfocus, touching,
                 input_vars, held, windows, gone, target, panicked, ops>>

\* An unbounded wait that ends with nothing pending is spurious.
SpuriousAlways == TRUE  \* mutant
Spurious == blocking

\* The wait ends: the connection is readable, a ping came or the time is over.
\* The second look decides whether an iteration follows.
Dispatch ==
  /\ At("wait") /\ (wire # <<>> \/ ping \/ proxy_ping \/ ~blocking)
  /\ ReadAll
  /\ proxy_wake_up' = (proxy_wake_up \/ proxy_ping)
  /\ ping' = FALSE /\ proxy_ping' = FALSE /\ blocking' = FALSE
  /\ IF ~HasPending /\ Spurious THEN Finish(exit)
     ELSE step' = "new_events" /\ UNCHANGED <<running, phase>>
  /\ UNCHANGED <<env, first, exit, inside, iter_vars, chan_vars, remote,
                 exists, xfocus, touching, input_vars, held, windows, gone, target,
                 panicked, ops>>

\* The dispatch fails: the loop exits with the error's code.
DispatchFails ==
  /\ "fail" \in env.server /\ At("wait") /\ Op
  /\ exit' = TRUE /\ blocking' = FALSE /\ Finish(TRUE)
  /\ UNCHANGED <<env, first, inside, iter_vars, chan_vars, wake_vars,
                 server_vars, input_vars, held, windows, wire, queue, gone, target,
                 panicked>>

----
(* single_iteration. *)

NewEvents ==
  /\ At("new_events")
  /\ IF first THEN Call("new_events_init", "Init", None) /\ step' = "can_create"
              ELSE Call("new_events", "Awake", None) /\ step' = "drain"
  /\ UNCHANGED <<env, blocking, running, first, exit, iter_vars, chan_vars,
                 wake_vars, server_vars, input_vars, held, windows, wire, queue, gone,
                 panicked, ops>>

CanCreateSurfaces ==
  /\ At("can_create") /\ Call("can_create_surfaces", "Awake", None)
  /\ step' = "drain"
  /\ UNCHANGED <<env, blocking, running, first, exit, iter_vars, chan_vars,
                 wake_vars, server_vars, input_vars, held, windows, wire, queue, gone,
                 panicked, ops>>

\* poll_one_event reads on until the connection has nothing more to say.
ReadMore ==
  /\ At("drain") /\ todo = <<>> /\ ~borrowed /\ queue = <<>> /\ (wire # <<>> \/ unsent # {})
  /\ ReadAll
  /\ UNCHANGED <<loop_vars, iter_vars, chan_vars, wake_vars, exists, xfocus, touching,
                 input_vars, held, windows, gone, target, panicked, ops>>
DrainEnd ==
  /\ At("drain") /\ todo = <<>> /\ ~borrowed /\ queue = <<>> /\ wire = <<>> /\ unsent = {}
  /\ step' = "tokens"
  /\ UNCHANGED <<env, blocking, running, first, exit, phase, inside,
                 iter_vars, chan_vars, wake_vars, server_vars, input_vars, held,
                 windows, wire, queue, gone, target, panicked, ops>>

\* The handlers take an event off the queue and leave what the application is
\* to be told in todo.
Take(kinds) == /\ At("drain") /\ todo = <<>> /\ ~borrowed /\ queue # <<>>
               /\ Head(queue).kind \in kinds /\ queue' = Tail(queue)
Ev == Head(queue)

\* with_window: the registry's entry of a dropped window is dead.
WindowExists(w) == w \in windows \cap held

\* CloseRequested and the Focused of a mapped window go out whether the window
\* exists or not.
PlainEvent ==
  /\ Take({"close", "map"}) /\ todo' = <<Ev.w>>
  /\ UNCHANGED <<loop_vars, borrowed, work, chan_vars, wake_vars, server_vars,
                 input_vars, held, windows, wire, gone, target, panicked, ops>>

\* The last Expose of a series requests a redraw.
Expose ==
  /\ Take({"expose"})
  /\ redraws' = redraws \cup {Ev.w} /\ ping' = TRUE
  /\ UNCHANGED <<loop_vars, iter_vars, tokens, proxy_wake_up, proxy_ping, remote,
                 server_vars, input_vars, held, windows, wire, gone, target, panicked,
                 ops>>

\* Moved, ScaleFactorChanged and SurfaceResized, as far as they apply.
Configure ==
  /\ Take({"configure"})
  /\ \E n \in IF WindowExists(Ev.w) THEN 0 .. 3 ELSE {0} : todo' = [i \in 1 .. n |-> Ev.w]
  /\ UNCHANGED <<loop_vars, borrowed, work, chan_vars, wake_vars, server_vars,
                 input_vars, held, windows, wire, gone, target, panicked, ops>>

\* Keys, and changed modifiers, go to the active window.
Active == IF active_window = None THEN <<>> ELSE <<active_window>>
KeyEvent ==
  /\ Take({"key", "mods"})
  /\ \E changed \in {Ev.kind = "mods", TRUE} :
       todo' = (IF changed THEN Active ELSE <<>>)
                 \o (IF Ev.kind = "key" THEN Active ELSE <<>>)
  /\ UNCHANGED <<loop_vars, borrowed, work, chan_vars, wake_vars, server_vars,
                 input_vars, held, windows, wire, gone, target, panicked, ops>>

\* A pointer event carries the modifiers; motion looks for its window.
PointerEvent ==
  /\ Take({"button", "motion"})
  /\ \E mods \in {<<>>, Active} :
       todo' = mods \o (IF Ev.kind = "button" \/ WindowExists(Ev.w)
                        THEN <<Ev.w>> ELSE <<>>)
  /\ UNCHANGED <<loop_vars, borrowed, work, chan_vars, wake_vars, server_vars,
                 input_vars, held, windows, wire, gone, target, panicked, ops>>

\* xinput2_focused: Focused(true), the modifiers and the position of the pointer.
AlreadyActiveAny(w) == active_window # None  \* mutant
AlreadyActive(w) == active_window = w
FocusIn ==
  /\ Take({"focus_in"})
  /\ IF AlreadyActive(Ev.w) THEN UNCHANGED <<active_window, listening, focused, todo>>
     ELSE /\ active_window' = Ev.w /\ listening' = TRUE
          /\ focused' = focused \cup {Ev.w}
          /\ todo' = <<Ev.w, Ev.w, Ev.w>>
  /\ UNCHANGED <<loop_vars, borrowed, work, chan_vars, wake_vars, server_vars,
                 first_touch, num_touch, primary, heard, alone, held, windows,
                 wire, gone, target, panicked, ops>>

\* xinput2_unfocused: the modifiers, then Focused(false). Whatever window was
\* active, none is now.
FocusOut ==
  /\ Take({"focus_out"})
  /\ IF ~WindowExists(Ev.w) THEN UNCHANGED <<active_window, listening, focused, todo>>
     ELSE /\ active_window' = None
          /\ IF active_window = Ev.w
             THEN /\ listening' = FALSE /\ focused' = focused \ {Ev.w}
                  /\ todo' = <<Ev.w, Ev.w>>
             ELSE UNCHANGED <<listening, focused, todo>>
  /\ UNCHANGED <<loop_vars, borrowed, work, chan_vars, wake_vars, server_vars,
                 first_touch, num_touch, primary, heard, alone, held, windows,
                 wire, gone, target, panicked, ops>>

\* is_first_touch: the first touch of a series moves the mouse cursor.
OpensNoFirst == first_touch = None  \* mutant
OpensSeries == num_touch = 0
Known == {f \in Fingers : heard[f] # None}
TouchBegin ==
  /\ Take({"touch_begin"})
  /\ IF ~WindowExists(Ev.w)
     THEN UNCHANGED <<first_touch, num_touch, primary, heard, alone, todo>>
     ELSE /\ num_touch' = num_touch + 1
          /\ first_touch' = IF OpensSeries THEN Ev.f ELSE first_touch
          /\ primary' = IF OpensSeries THEN primary \cup {Ev.f} ELSE primary
          /\ alone' = IF Known = {} THEN alone \cup {Ev.f} ELSE alone
          /\ heard' = [heard EXCEPT ![Ev.f] = Ev.w]
          /\ todo' = IF OpensSeries THEN <<Ev.w, Ev.w, Ev.w>> ELSE <<Ev.w, Ev.w>>
  /\ UNCHANGED <<loop_vars, borrowed, work, chan_vars, wake_vars, server_vars,
                 active_window, listening, focused, held, windows, wire, gone, target,
                 panicked, ops>>
TouchEnd ==
  /\ Take({"touch_end"})
  /\ IF ~WindowExists(Ev.w) THEN UNCHANGED <<first_touch, num_touch, heard, todo>>
     ELSE /\ num_touch' = IF num_touch = 0 THEN 0 ELSE num_touch - 1
          /\ first_touch' = IF first_touch = Ev.f THEN None ELSE first_touch
          /\ heard' = [heard EXCEPT ![Ev.f] = None]
          /\ todo' = <<Ev.w, Ev.w>>
  /\ UNCHANGED <<loop_vars, borrowed, work, chan_vars, wake_vars, server_vars,
                 active_window, listening, focused, primary, alone, held, windows,
                 wire, gone, target, panicked, ops>>

\* destroy_notify: the window leaves the registry, Destroyed follows.
DestroyNotify ==
  /\ Take({"destroy"})
  /\ windows' = windows \ {Ev.w} /\ gone' = gone \cup {Ev.w}
  /\ heard' = [f \in Fingers |-> IF heard[f] = Ev.w THEN None ELSE heard[f]]
  /\ todo' = <<Ev.w>>
  /\ UNCHANGED <<loop_vars, borrowed, work, chan_vars, wake_vars, server_vars,
                 active_window, first_touch, num_touch, listening, focused, primary,
                 alone, held, wire, target, panicked, ops>>

\* process_dpi_change: the registry stays borrowed while each window is told.
DpiChange ==
  /\ Take({"dpi"})
  /\ todo' = SetToSeq(windows) /\ borrowed' = (windows # {})
  /\ UNCHANGED <<loop_vars, work, chan_vars, wake_vars, server_vars, input_vars,
                 held, windows, wire, gone, target, panicked, ops>>

\* The application is told; in the loop over the registry dropped windows are
\* passed over.
Emit ==
  /\ At("drain") /\ todo # <<>>
  /\ todo' = Tail(todo)
  /\ IF borrowed /\ Head(todo) \notin held THEN NoCall
     ELSE Call("event", "Awake", Head(todo))
  /\ UNCHANGED <<step, env, blocking, running, first, exit, work, borrowed,
                 chan_vars, wake_vars, server_vars, input_vars, held, windows, wire,
                 queue, gone, panicked, ops>>
EndBorrow ==
  /\ At("drain") /\ todo = <<>> /\ borrowed
  /\ borrowed' = FALSE
  /\ UNCHANGED <<loop_vars, todo, work, chan_vars, wake_vars, server_vars, input_vars,
                 held, windows, wire, queue, gone, target, panicked, ops>>

\* The activation tokens; the request of a window that is gone is dropped.
Token ==
  /\ At("tokens") /\ tokens # <<>> /\ tokens' = Tail(tokens)
  /\ IF WindowExists(Head(tokens)) THEN Call("event", "Awake", Head(tokens)) ELSE NoCall
  /\ UNCHANGED <<step, env, blocking, running, first, exit, iter_vars,
                 redraws, wake_vars, server_vars, input_vars, held, windows, wire,
                 queue, gone, panicked, ops>>
TokensEnd ==
  /\ At("tokens") /\ tokens = <<>> /\ step' = "proxy"
  /\ UNCHANGED <<env, blocking, running, first, exit, phase, inside,
                 iter_vars, chan_vars, wake_vars, server_vars, input_vars, held,
                 windows, wire, queue, gone, target, panicked, ops>>

ProxyWakeUp ==
  /\ At("proxy") /\ proxy_wake_up
  /\ proxy_wake_up' = FALSE /\ Call("event", "Awake", None)
  /\ UNCHANGED <<step, env, blocking, running, first, exit, iter_vars,
                 chan_vars, ping, proxy_ping, remote, server_vars, input_vars, held,
                 windows, wire, queue, gone, panicked, ops>>
\* The redraw channel is emptied into a set ...
TakeRedraws ==
  /\ At("proxy") /\ ~proxy_wake_up
  /\ work' = redraws /\ redraws' = {} /\ step' = "redraws"
  /\ UNCHANGED <<env, blocking, running, first, exit, phase, inside, todo,
                 borrowed, tokens, wake_vars, server_vars, input_vars, held, windows,
                 wire, queue, gone, target, panicked, ops>>
\* ... and each window in it, if it exists or not, gets RedrawRequested.
Redraw(w) ==
  /\ At("redraws") /\ w \in work
  /\ work' = work \ {w} /\ Call("event", "Awake", w)
  /\ UNCHANGED <<step, env, blocking, running, first, exit, todo, borrowed,
                 chan_vars, wake_vars, server_vars, input_vars, held, windows, wire,
                 queue, gone, panicked, ops>>

AboutToWait ==
  /\ At("redraws") /\ work = {}
  /\ Call("about_to_wait", "Asleep", None) /\ step' = "end"
  /\ UNCHANGED <<env, blocking, running, first, exit, iter_vars, chan_vars,
                 wake_vars, server_vars, input_vars, held, windows, wire, queue, gone,
                 panicked, ops>>

\* The Init iteration is followed by a poll, unless it asked to exit.
EndIteration ==
  /\ At("end") /\ first' = FALSE
  /\ IF first /\ ~exit THEN step' = "poll" /\ UNCHANGED <<running, phase>>
                       ELSE Finish(exit)
  /\ UNCHANGED <<env, blocking, exit, inside, iter_vars, chan_vars,
                 wake_vars, server_vars, input_vars, held, windows, wire, queue, gone,
                 target, panicked, ops>>

----
(* The application: in a callback, or between two pumps. *)

AppTurn == ~panicked /\ (inside # "none" \/ (step = "out" /\ (env.mode = "pump" \/ ~running)))

Return ==
  /\ inside # "none" /\ ~panicked
  /\ inside' = "none" /\ target' = None
  /\ UNCHANGED <<step, env, blocking, running, first, exit, phase,
                 iter_vars, chan_vars, wake_vars, server_vars, input_vars, held,
                 windows, wire, queue, gone, panicked, ops>>

Exit ==
  /\ "exit" \in env.app /\ AppTurn /\ Op /\ inside # "none" /\ ~exit /\ exit' = TRUE
  /\ UNCHANGED <<step, env, blocking, running, first, phase, inside,
                 iter_vars, chan_vars, wake_vars, server_vars, input_vars, held,
                 windows, wire, queue, gone, target, panicked>>

\* Window::new registers the window under an id that was not used before; the
\* server will map it.
Create(w) ==
  /\ AppTurn /\ inside \in CreateIn /\ w \notin windows \cup gone
  /\ IF borrowed
     THEN panicked' = TRUE /\ UNCHANGED <<held, windows, exists, wire>>
     ELSE /\ held' = held \cup {w} /\ windows' = windows \cup {w}
          /\ exists' = exists \cup {w} /\ wire' = Append(wire, X("map", w))
          /\ UNCHANGED panicked
  /\ UNCHANGED <<loop_vars, iter_vars, chan_vars, wake_vars, unsent, doomed, xfocus,
                 touching, input_vars, queue, gone, target, ops>>

\* Window::drop leaves DestroyWindow in the output buffer.
Drop(w) == held' = held \ {w} /\ unsent' = unsent \cup ({w} \cap exists)
DropWindow(w) ==
  /\ "drop" \in env.app /\ AppTurn /\ Op /\ w \in held /\ Drop(w)
  /\ UNCHANGED <<loop_vars, iter_vars, chan_vars, wake_vars, doomed, exists, xfocus,
                 touching, input_vars, windows, wire, queue, gone, target, panicked>>

\* WakeSender::send: the value, then the ping.
RequestRedraw(w) ==
  /\ "redraw" \in env.app /\ AppTurn /\ Op /\ w \in held
  /\ redraws' = redraws \cup {w} /\ ping' = TRUE
  /\ UNCHANGED <<loop_vars, iter_vars, tokens, proxy_wake_up, proxy_ping, remote,
                 server_vars, input_vars, held, windows, wire, queue, gone, target,
                 panicked>>
RequestToken(w) ==
  /\ "token" \in env.app /\ AppTurn /\ Op /\ w \in held
  /\ tokens' = Append(tokens, w) /\ ping' = TRUE
  /\ UNCHANGED <<loop_vars, iter_vars, redraws, proxy_wake_up, proxy_ping, remote,
                 server_vars, input_vars, held, windows, wire, queue, gone, target,
                 panicked>>

\* EventLoopProxy::wake_up, from any thread.
WakeUp ==
  /\ "wake_up" \in env.app /\ Op /\ ~panicked /\ proxy_ping' = TRUE
  /\ UNCHANGED <<loop_vars, iter_vars, chan_vars, proxy_wake_up, ping, remote,
                 server_vars, input_vars, held, windows, wire, queue, gone, target,
                 panicked>>

\* The second thread.
RemoteRedraw(w) ==
  /\ "redraw" \in env.remote /\ Op /\ ~panicked /\ ~remote /\ w \in held
  /\ redraws' = redraws \cup {w} /\ remote' = TRUE
  /\ UNCHANGED <<loop_vars, iter_vars, tokens, proxy_wake_up, ping, proxy_ping,
                 server_vars, input_vars, held, windows, wire, queue, gone, target,
                 panicked>>
RemoteToken(w) ==
  /\ "token" \in env.remote /\ Op /\ ~panicked /\ ~remote /\ w \in held
  /\ tokens' = Append(tokens, w) /\ remote' = TRUE
  /\ UNCHANGED <<loop_vars, iter_vars, redraws, proxy_wake_up, ping, proxy_ping,
                 server_vars, input_vars, held, windows, wire, queue, gone, target,
                 panicked>>
RemotePing ==
  /\ remote /\ ~panicked /\ remote' = FALSE /\ ping' = TRUE
  /\ UNCHANGED <<loop_vars, iter_vars, chan_vars, proxy_wake_up, proxy_ping,
                 server_vars, input_vars, held, windows, wire, queue, gone, target,
                 panicked, ops>>
RemoteDrop(w) ==
  /\ "drop" \in env.remote /\ Op /\ ~panicked /\ w \in held /\ Drop(w)
  /\ UNCHANGED <<loop_vars, iter_vars, chan_vars, wake_vars, doomed, exists, xfocus,
                 touching, input_vars, windows, wire, queue, gone, target, panicked>>
\* A round trip flushes, and reads the events that came before its reply.
RemoteRoundTrip ==
  /\ "round_trip" \in env.remote /\ Op /\ ~panicked /\ ReadAll
  /\ UNCHANGED <<loop_vars, iter_vars, chan_vars, wake_vars, exists, xfocus, touching,
                 input_vars, held, windows, gone, target, panicked>>

----
(* The X server and the user. *)

Says(events) == wire' = wire \o events
\* What is said while nothing is read might as well be said when it next is.
ReadNext == inside = "none" /\ todo = <<>> /\ step \in {"poll", "wait"}
Quiet == UNCHANGED <<loop_vars, iter_vars, chan_vars, wake_vars, active_window,
                     first_touch, num_touch, listening, focused, primary, heard,
                     alone, held, windows, queue, gone, target, panicked>>
Leaves(w) == IF w = None THEN <<>> ELSE <<X("focus_out", w)>>

Focus(w) ==
  /\ "focus" \in env.server /\ ReadNext /\ Op /\ w # xfocus /\ w \in exists \cup {None}
  /\ xfocus' = w
  /\ Says(Leaves(xfocus) \o (IF w = None THEN <<>> ELSE <<X("focus_in", w)>>))
  /\ Quiet /\ UNCHANGED <<unsent, doomed, exists, touching>>

\* The ids of touches ascend and are not used again.
Touch(f, w) ==
  /\ "touch" \in env.server /\ ReadNext /\ Op /\ touching[f] = None
  /\ w \in exists /\ \A g \in 1 .. f - 1 : touching[g] # None
  /\ touching' = [touching EXCEPT ![f] = w]
  /\ Says(<<[kind |-> "touch_begin", w |-> w, f |-> f]>>)
  /\ Quiet /\ UNCHANGED <<unsent, doomed, exists, xfocus>>
Lift(f) ==
  /\ touching[f] \in Windows /\ ReadNext
  /\ touching' = [touching EXCEPT ![f] = "up"]
  /\ Says(<<[kind |-> "touch_end", w |-> touching[f], f |-> f]>>)
  /\ Quiet /\ UNCHANGED <<unsent, doomed, exists, xfocus, ops>>

Notify(k, w) ==
  /\ k \in env.server \cap {"expose", "close", "button", "motion", "configure"} /\ ReadNext /\ Op /\ w \in exists
  /\ Says(<<X(k, w)>>)
  /\ Quiet /\ UNCHANGED server_vars
Broadcast(k) ==
  /\ k \in env.server \cap {"key", "mods", "dpi"} /\ ReadNext /\ Op
  /\ k = "key" => xfocus # None
  /\ Says(<<X(k, None)>>)
  /\ Quiet /\ UNCHANGED server_vars

\* The server destroys a window, at the application's request or another
\* client's; the focus leaves it first. Its touches end unheard.
Destroy(w) ==
  /\ exists' = exists \ {w}
  /\ xfocus' = IF xfocus = w THEN None ELSE xfocus
  /\ touching' = [f \in Fingers |-> IF touching[f] = w THEN "up" ELSE touching[f]]
  /\ Says((IF xfocus = w THEN Leaves(w) ELSE <<>>) \o <<X("destroy", w)>>)
DestroyDoomed(w) ==
  /\ w \in doomed /\ doomed' = doomed \ {w} /\ Destroy(w)
  /\ Quiet /\ UNCHANGED <<unsent, ops>>
Kill(w) ==
  /\ "kill" \in env.server /\ ReadNext /\ Op /\ w \in exists \ (unsent \cup doomed) /\ Destroy(w)
  /\ Quiet /\ UNCHANGED <<unsent, doomed>>

----

Handlers == \/ PlainEvent \/ Expose \/ Configure \/ KeyEvent \/ PointerEvent
            \/ FocusIn \/ FocusOut
            \/ TouchBegin \/ TouchEnd \/ DestroyNotify \/ DpiChange
Iteration ==
  \/ NewEvents \/ CanCreateSurfaces \/ ReadMore \/ DrainEnd
  \/ Handlers \/ Emit \/ EndBorrow
  \/ Token \/ TokensEnd \/ ProxyWakeUp \/ TakeRedraws \/ AboutToWait \/ EndIteration
  \/ \E w \in Windows : Redraw(w)
Loop == StartPump \/ CheckPending \/ Dispatch \/ Iteration \/ Return
App ==
  \/ Exit \/ WakeUp \/ RemotePing \/ RemoteRoundTrip
  \/ \E w \in Windows : \/ Create(w) \/ DropWindow(w) \/ RequestRedraw(w)
                        \/ RequestToken(w) \/ RemoteRedraw(w) \/ RemoteToken(w)
                        \/ RemoteDrop(w)
Server ==
  \/ \E w \in Windows \cup {None} : Focus(w)
  \/ \E w \in Windows : \/ \E f \in Fingers : Touch(f, w)
                        \/ \E k \in env.server : Notify(k, w)
                        \/ Kill(w)
  \/ \E k \in {"key", "mods", "dpi"} : Broadcast(k)
  \/ \E f \in Fingers : Lift(f)
ServerWork == \E w \in Windows : DestroyDoomed(w)

Next == Loop \/ ClearExit \/ DispatchFails \/ App \/ Server \/ ServerWork
Spec == Init /\ [][Next]_vars

\* The loop runs, callbacks return, an application that pumps goes on pumping,
\* the second thread pings after it has sent, the server answers requests.
FairSpec == Spec /\ WF_vars(Loop) /\ WF_vars(RemotePing) /\ WF_vars(ServerWork)

----
(* Properties. *)

\* The callbacks come in the order every backend promises, whatever ends a run
\* and whichever wake-ups are spurious (winit-core, run_app).
App_ == INSTANCE AppLifecycle WITH Trailing <- FALSE
Lifecycle == App_!AppSpec

\* When everything the server said has been handled, the window the application
\* believes focused, the one that gets the keys and the one the server gives
\* them to are the same, among those it still has: whatever was dropped,
\* destroyed or focused in between (xinput2_focused, xinput2_unfocused).
Settled == queue = <<>> /\ wire = <<>> /\ todo = <<>> /\ unsent = {} /\ doomed = {}
FocusAgrees ==
  Settled => \A w \in held \cap windows :
               (w \in focused <=> w = xfocus) /\ (w = active_window <=> w = xfocus)

\* A finger is primary only if it was put down when no other was, also when
\* windows vanish under fingers (is_first_touch).
PrimaryCameFirst == primary \subseteq alone

\* A redraw, requested by either thread or by the server's Expose, is handed out.
RedrawDelivered ==
  \A w \in Windows : running /\ w \in redraws ~> ~running \/ w \notin redraws

\* What the server said is handled, without another thing having to happen.
EventsDelivered ==
  running /\ (queue # <<>> \/ wire # <<>>) ~> ~running \/ (queue = <<>> /\ wire = <<>>)

\* A wake-up of the proxy leads to proxy_wake_up.
WakeUpDelivered ==
  running /\ (proxy_ping \/ proxy_wake_up) ~> ~running \/ ~(proxy_ping \/ proxy_wake_up)

\* A bounded wait leads to an iteration, which serves the activation tokens.
TokensDelivered ==
  running /\ env.limited /\ tokens # <<>> ~> ~running \/ tokens = <<>>

\* A window the application dropped is destroyed, and the application hears so.
DestroyedDelivered ==
  \A w \in Windows :
    running /\ w \in windows \ held ~> ~running \/ w \in gone

\* After exit the loop returns.
ExitReturns == exit /\ running ~> ~running

\* Every source of the iteration is served, each also when nothing else happens.
Served ==
  /\ RedrawDelivered /\ EventsDelivered /\ WakeUpDelivered
  /\ TokensDelivered /\ DestroyedDelivered /\ ExitReturns

----
(* What the code does not keep. *)

\* winit/src/platform/startup_notify.rs:48, request_activation_token: "The token
\* will be delivered inside" an event. has_pending does not look at the requests.
TokenArrives == running /\ tokens # <<>> ~> ~running \/ tokens = <<>>

\* No expect or borrow fails: a window created in ScaleFactorChanged finds the
\* registry borrowed.
NoPanic == ~panicked

\* Nothing is said of a window after Destroyed: the redraw channel outlives it.
NoRedrawAfterDestroyed == [][step = "redraws" /\ target' # None => target' \notin gone]_vars

\* DeviceEvents::WhenFocused: device events only while a window has the focus.
FilterFollowsFocus == Settled => (listening => xfocus \in held)

\* A finger put down when no other is known to be down is primary.
FirstIsPrimary == \A f \in alone : heard[f] # None => f \in primary
====
