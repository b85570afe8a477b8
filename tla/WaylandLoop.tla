---- MODULE WaylandLoop ----
(*
The event loop of winit-wayland: pump_app_events, its poll with the
suppression of spurious wake-ups, the single iteration that hands out
what the compositor and the windows left, frame callbacks and redraws,
popups that close with their parent, and windows created (with a nested
dispatch of the Wayland queue) and dropped at any time.

The compositor speaks only while the loop reads: in its poll, and in
the roundtrip of a window being created. A second thread of the
application requests redraws, drops windows and uses the proxy; its
store and its ping are two steps.
*)
EXTENDS Naturals, Sequences, FiniteSets, SequencesExt

CONSTANTS
  Toplevels, Popups,   \* the windows the application may create
  ParentOf,            \* the parent of each popup
  CreateIn,            \* the callbacks in which each window may be created
  MayFail,             \* whether the connection to the compositor may break
  MaxOps,              \* bound: operations of the application, its thread and
                       \* the compositor
  MaxCreates           \* bound: windows created

Windows == Toplevels \cup Popups
Callbacks == {"new_events_init", "can_create_surfaces", "new_events", "event",
              "about_to_wait"}

ASSUME WaylandAssumption ==
  /\ Toplevels \cap Popups = {} /\ ParentOf \in [Popups -> Windows]
  /\ "none" \notin Windows /\ CreateIn \in [Windows -> SUBSET Callbacks]
  /\ MayFail \in BOOLEAN
  /\ MaxOps \in Nat /\ MaxCreates \in Nat

VARIABLES
  step,        \* where pump_app_events is, "out" when the application has control
  mode,        \* run_app_on_demand or pump_app_events by the application
  timed,       \* the poll has a timeout: control flow other than Wait, or pump's
  running,     \* loop_running
  first,       \* the Init iteration of this pump is running
  exit,        \* exit code set
  phase,       \* of AppLifecycle: where the application stands
  inside,      \* the callback being executed
  live,        \* the windows in WinitState::windows and window_requests
  held,        \* the windows the application has a handle of
  closed, redraw,      \* the flags of WindowRequests
  frame,       \* FrameCallbackState of each window
  callbacks,   \* wl_callbacks of the window the compositor has not answered
  dirty,       \* the client side frame of the window has to be drawn
  creating,    \* the window whose creation is reading the queue, or "none"
  creation,    \* what that creation does: a roundtrip, or waiting for a configure
  configured,  \* that window has received its first configure
  updates,     \* window_compositor_updates
  sink,        \* events_sink: the windows of the pending events
  synthetic,   \* window_events_sink, filled by the windows themselves
  work,        \* what the iteration took out of one of the three
  ids, seen,   \* window_ids: still to be visited, and all of them
  closing,     \* windows_to_close
  dispatched,  \* dispatched_events
  proxy_wake_up,
  ping, proxy_ping,    \* the two eventfds
  got,         \* this dispatch has read something from the compositor
  remote,      \* the second thread still has to ping
  panicked,    \* an unwrap or expect failed
  broken,      \* the connection to the compositor is lost
  dismissed,   \* history: a popup was dismissed before it was configured
  ops, creates

loop_vars == <<step, mode, timed, running, first, exit, phase, inside>>
flag_vars == <<closed, redraw, frame, callbacks, dirty>>
queue_vars == <<updates, sink, synthetic>>
iter_vars == <<work, ids, seen, closing>>
wake_vars == <<dispatched, proxy_wake_up, ping, proxy_ping, got, remote>>
create_vars == <<creating, creation, configured, broken, dismissed>>
bound_vars == <<ops, creates>>
vars == <<loop_vars, live, held, flag_vars, create_vars, queue_vars, iter_vars,
          wake_vars, panicked, bound_vars>>

Kinds == {"resized", "scale", "close"}
Steps == {"out", "poll", "new_events", "can_create", "proxy", "updates",
          "synthetic", "sink", "windows", "refresh"}

TypeOK ==
  /\ step \in Steps /\ mode \in {"run", "pump"} /\ timed \in BOOLEAN
  /\ running \in BOOLEAN /\ first \in BOOLEAN /\ exit \in BOOLEAN
  /\ phase \in {"Off", "Init", "Awake", "Asleep"}
  /\ inside \in Callbacks \cup {"none"}
  /\ live \subseteq Windows /\ held \subseteq Windows
  /\ closed \in [Windows -> BOOLEAN] /\ redraw \in [Windows -> BOOLEAN]
  /\ frame \in [Windows -> {"None", "Requested", "Received"}]
  /\ callbacks \in [Windows -> Nat] /\ dirty \in [Windows -> BOOLEAN]
  /\ creating \in Windows \cup {"none"}
  /\ creation \in {"none", "roundtrip", "waiting"}
  /\ configured \in BOOLEAN /\ broken \in BOOLEAN /\ dismissed \in BOOLEAN
  /\ updates \in Seq([id : Windows, kinds : SUBSET Kinds])
  /\ sink \in Seq(Windows) /\ synthetic \in Seq(Windows)
  /\ ids \subseteq seen /\ seen \subseteq Windows /\ closing \subseteq Windows
  /\ {dispatched, proxy_wake_up, ping, proxy_ping, got, remote, panicked}
       \subseteq BOOLEAN
  /\ ops \in 0 .. MaxOps /\ creates \in 0 .. MaxCreates

Init ==
  /\ step = "out" /\ mode \in {"run", "pump"} /\ timed \in BOOLEAN
  /\ running = FALSE /\ first = FALSE /\ exit = FALSE /\ phase = "Off" /\ inside = "none"
  /\ live = {} /\ held = {}
  /\ closed = [w \in Windows |-> FALSE] /\ redraw = [w \in Windows |-> FALSE]
  /\ frame = [w \in Windows |-> "None"] /\ callbacks = [w \in Windows |-> 0]
  /\ dirty = [w \in Windows |-> FALSE]
  /\ creating = "none" /\ creation = "none" /\ configured = FALSE
  /\ broken = FALSE /\ dismissed = FALSE
  /\ updates = <<>> /\ sink = <<>> /\ synthetic = <<>>
  /\ work = <<>> /\ ids = {} /\ seen = {} /\ closing = {}
  /\ dispatched = TRUE      \* "Make it true by default."
  /\ proxy_wake_up = FALSE /\ ping = FALSE /\ proxy_ping = FALSE
  /\ got = FALSE /\ remote = FALSE /\ panicked = FALSE
  /\ ops = 0 /\ creates = 0

----
(* Control. *)

At(s) == step = s /\ inside = "none" /\ ~panicked
Call(cb, ph) == inside' = cb /\ phase' = ph
NoCall == UNCHANGED <<inside, phase>>
Op == ops < MaxOps /\ ops' = ops + 1

\* pump_app_events: the first call of a run has an Init iteration before its
\* poll. Its timeout, or another control flow than Wait, bounds the poll.
StartPump ==
  /\ At("out") /\ (mode = "run" => ~exit)
  /\ running' = TRUE /\ first' = ~running
  /\ step' = IF running THEN "poll" ELSE "new_events"
  /\ UNCHANGED <<mode, timed, exit, phase, inside, live, held, flag_vars, create_vars,
                 queue_vars, iter_vars, wake_vars, panicked, bound_vars>>

\* run_app_on_demand starts by clearing the exit of an earlier run.
ClearExit ==
  /\ At("out") /\ ~running /\ mode = "run" /\ exit
  /\ exit' = FALSE
  /\ UNCHANGED <<step, mode, timed, running, first, phase, inside, live, held,
                 flag_vars, create_vars, queue_vars, iter_vars, wake_vars,
                 panicked, bound_vars>>

\* PumpStatus::Exit or Continue.
FinishStillRunning(code) ==  \* mutant
  /\ step' = "out" /\ running' = TRUE
  /\ phase' = IF code THEN "Off" ELSE phase
FinishContinue(code) ==  \* mutant
  step' = "out" /\ UNCHANGED <<running, phase>>
Finish(code) ==
  /\ step' = "out" /\ running' = ~code
  /\ phase' = IF code THEN "Off" ELSE phase

\* What makes a wake-up worth an iteration: a ping, or something the compositor
\* said that left an event or an update.
WorthWithoutProxy ==  \* mutant
  dispatched \/ ping \/ (got /\ (sink # <<>> \/ updates # <<>>))
WorthSinkOnly ==  \* mutant
  dispatched \/ ping \/ proxy_ping \/ (got /\ sink # <<>>)
Worth == dispatched \/ ping \/ proxy_ping \/ (got /\ (sink # <<>> \/ updates # <<>>))

\* The poll returns: something was read, a ping arrived or the time is over.
\* A wake-up with nothing in it goes back to sleep when nothing limits the wait.
PollReturns ==
  /\ At("poll") /\ ~broken
  /\ got \/ ping \/ proxy_ping \/ timed
  /\ dispatched' = Worth
  /\ step' = IF timed \/ Worth THEN "new_events" ELSE "poll"
  /\ proxy_wake_up' = (proxy_wake_up \/ proxy_ping)
  /\ ping' = FALSE /\ proxy_ping' = FALSE /\ got' = FALSE
  /\ UNCHANGED <<mode, timed, running, first, exit, phase, inside, live, held,
                 flag_vars, create_vars, queue_vars, iter_vars, remote, panicked,
                 bound_vars>>

\* An error, of a connection that is lost in any case.
Fails == IF broken THEN UNCHANGED ops ELSE MayFail /\ Op

\* Flush or dispatch fails: the loop exits with the error's code.
PollFails ==
  /\ At("poll") /\ Fails
  /\ exit' = TRUE /\ Finish(TRUE)
  /\ UNCHANGED <<mode, timed, first, inside, live, held, flag_vars, create_vars,
                 queue_vars, iter_vars, wake_vars, panicked, creates>>

----
(* single_iteration. *)

NewEvents ==
  /\ At("new_events")
  /\ IF first THEN Call("new_events_init", "Init") /\ step' = "can_create"
              ELSE Call("new_events", "Awake") /\ step' = "proxy"
  /\ UNCHANGED <<mode, timed, running, first, exit, live, held, flag_vars,
                 create_vars, queue_vars, iter_vars, wake_vars, panicked, bound_vars>>

CanCreateSurfaces ==
  /\ At("can_create") /\ Call("can_create_surfaces", "Awake")
  /\ step' = "proxy"
  /\ UNCHANGED <<mode, timed, running, first, exit, live, held, flag_vars,
                 create_vars, queue_vars, iter_vars, wake_vars, panicked, bound_vars>>

ProxyWakeUp ==
  /\ At("proxy") /\ proxy_wake_up
  /\ proxy_wake_up' = FALSE /\ Call("event", "Awake")
  /\ UNCHANGED <<step, mode, timed, running, first, exit, live, held, flag_vars,
                 create_vars, queue_vars, iter_vars, dispatched, ping, proxy_ping,
                 got, remote, panicked, bound_vars>>

\* compositor_updates takes over the pending updates ...
TakeUpdates ==
  /\ At("proxy") /\ ~proxy_wake_up
  /\ work' = updates /\ updates' = <<>> /\ step' = "updates"
  /\ UNCHANGED <<mode, timed, running, first, exit, phase, inside, live, held,
                 flag_vars, create_vars, sink, synthetic, ids, seen, closing,
                 wake_vars, panicked, bound_vars>>

\* ... and drains them. A new scale, then a new size (a new scale is one too),
\* then the request to close; the window has to be there for the first two.
Stages(kinds) ==
  IF kinds \cap {"scale", "rescaled", "resized"} = {} THEN kinds
  ELSE kinds \cup {"resized"}
UpdateWindow ==
  /\ At("updates") /\ work # <<>>
  /\ LET u == Head(work)
         kinds == Stages(u.kinds)
         k == IF "scale" \in kinds THEN "scale"
              ELSE IF "resized" \in kinds THEN "resized" ELSE "close"
         rest == kinds \ {k}
     IN IF kinds = {} THEN /\ work' = Tail(work)
                           /\ NoCall /\ UNCHANGED <<redraw, panicked>>
        ELSE IF k # "close" /\ u.id \notin live
        THEN panicked' = TRUE /\ NoCall /\ UNCHANGED <<work, redraw>>
        ELSE /\ work' = IF rest = {} THEN Tail(work)
                        ELSE <<[u EXCEPT !.kinds = rest]>> \o Tail(work)
             /\ redraw' = IF k = "resized" THEN [redraw EXCEPT ![u.id] = TRUE]
                          ELSE redraw
             /\ Call("event", "Awake") /\ UNCHANGED panicked
  /\ UNCHANGED <<step, mode, timed, running, first, exit, live, held, closed, frame,
                 callbacks, dirty, create_vars, queue_vars, ids, seen, closing,
                 wake_vars, bound_vars>>

\* buffer_sink takes the synthetic events, then those of the compositor.
TakeSynthetic ==
  /\ At("updates") /\ work = <<>>
  /\ work' = synthetic /\ synthetic' = <<>> /\ step' = "synthetic"
  /\ UNCHANGED <<mode, timed, running, first, exit, phase, inside, live, held,
                 flag_vars, create_vars, updates, sink, ids, seen, closing,
                 wake_vars, panicked, bound_vars>>
TakeSink ==
  /\ At("synthetic") /\ work = <<>>
  /\ work' = sink /\ sink' = <<>> /\ step' = "sink"
  /\ UNCHANGED <<mode, timed, running, first, exit, phase, inside, live, held,
                 flag_vars, create_vars, updates, synthetic, ids, seen, closing,
                 wake_vars, panicked, bound_vars>>
SinkEvent ==
  /\ At("synthetic") \/ At("sink")
  /\ work # <<>> /\ work' = Tail(work) /\ Call("event", "Awake")
  /\ UNCHANGED <<step, mode, timed, running, first, exit, live, held, flag_vars,
                 create_vars, queue_vars, ids, seen, closing, wake_vars, panicked,
                 bound_vars>>

CollectWindows ==
  /\ At("sink") /\ work = <<>>
  /\ ids' = live /\ seen' = live /\ step' = "windows"
  /\ UNCHANGED <<mode, timed, running, first, exit, phase, inside, live, held,
                 flag_vars, create_vars, queue_vars, work, closing, wake_vars,
                 panicked, bound_vars>>

Children(w) == {c \in Popups \cap live : ParentOf[c] = w}
\* The window, its children and theirs.
Family(w) ==
  LET two == {w} \cup Children(w) IN two \cup UNION {Children(c) : c \in two}

Visit(w) == At("windows") /\ closing = {} /\ w \in ids /\ ids' = ids \ {w}

SkipWindow(w) ==
  /\ Visit(w) /\ w \notin live
  /\ UNCHANGED <<loop_vars, live, held, flag_vars, create_vars, queue_vars, work,
                 seen, closing, wake_vars, panicked, bound_vars>>

FindWindowsToClose(w) ==
  /\ Visit(w) /\ w \in live /\ closed[w]
  /\ closing' = Family(w)
  /\ UNCHANGED <<loop_vars, live, held, flag_vars, create_vars, queue_vars, work,
                 seen, wake_vars, panicked, bound_vars>>

\* What is pending for a window that is removed is removed with it: one update,
\* for the compositor's requests look for that of the window before they add one.
Updated(w) == \E i \in DOMAIN updates : updates[i].id = w
RetainUpdatesAll(w) == updates  \* mutant
RetainUpdates(w) ==
  IF Updated(w) THEN RemoveAt(updates, CHOOSE i \in DOMAIN updates : updates[i].id = w)
                ELSE updates

\* Children first, each followed by its Destroyed event.
CloseWindow(w) ==
  /\ At("windows") /\ w \in closing /\ closing \cap Children(w) = {}
  /\ closing' = closing \ {w}
  /\ IF w \notin live
     THEN /\ panicked' = TRUE /\ NoCall
          /\ UNCHANGED <<live, flag_vars, updates>>
     ELSE /\ live' = live \ {w} /\ updates' = RetainUpdates(w)
          /\ closed' = [closed EXCEPT ![w] = FALSE]
          /\ redraw' = [redraw EXCEPT ![w] = FALSE]
          /\ frame' = [frame EXCEPT ![w] = "None"]
          /\ callbacks' = [callbacks EXCEPT ![w] = 0]
          /\ dirty' = [dirty EXCEPT ![w] = FALSE]
          /\ Call("event", "Awake") /\ UNCHANGED panicked
  /\ UNCHANGED <<step, mode, timed, running, first, exit, held, create_vars, sink,
                 synthetic, work, ids, seen, wake_vars, bound_vars>>

\* Drawing the frame of the window may ask for a redraw of the window.
Refreshes(w) == IF dirty[w] THEN BOOLEAN ELSE {FALSE}

\* No redraw while a frame callback is in flight.
ThrottledNever(w) == FALSE  \* mutant
Throttled(w) == frame[w] = "Requested"
RedrawWindow(w) ==
  /\ Visit(w) /\ w \in live /\ ~closed[w]
  /\ IF Throttled(w) THEN NoCall /\ UNCHANGED <<frame, redraw, dirty>>
     ELSE /\ frame' = [frame EXCEPT ![w] = "None"]
          /\ redraw' = [redraw EXCEPT ![w] = FALSE]
          /\ dirty' = [dirty EXCEPT ![w] = FALSE]
          /\ \E drawn \in Refreshes(w) :
               IF redraw[w] \/ drawn THEN Call("event", "Awake") ELSE NoCall
  /\ UNCHANGED <<step, mode, timed, running, first, exit, live, held, closed,
                 callbacks, create_vars, queue_vars, work, seen, closing, wake_vars,
                 panicked, bound_vars>>

\* The hint is reset before the application's last callback.
AboutToWait ==
  /\ At("windows") /\ ids = {} /\ closing = {}
  /\ dispatched' = FALSE
  /\ Call("about_to_wait", "Asleep") /\ step' = "refresh"
  /\ UNCHANGED <<mode, timed, running, first, exit, live, held, flag_vars,
                 create_vars, queue_vars, iter_vars, proxy_wake_up, ping, proxy_ping,
                 got, remote, panicked, bound_vars>>

\* Frames that became dirty are drawn now; a redraw they ask for wakes the loop.
RefreshFrames ==
  /\ At("refresh")
  /\ \E drawn \in SUBSET {w \in seen \cap live : dirty[w]} :
       /\ redraw' = [w \in Windows |-> redraw[w] \/ w \in drawn]
       /\ dirty' = [w \in Windows |-> dirty[w] /\ w \notin seen]
       /\ ping' = (ping \/ drawn # {})
  /\ seen' = {} /\ first' = FALSE
  /\ IF first /\ ~exit THEN step' = "poll" /\ UNCHANGED <<running, phase>>
                       ELSE Finish(exit)
  /\ UNCHANGED <<mode, timed, exit, inside, live, held, closed, frame, callbacks,
                 create_vars, queue_vars, work, ids, closing, dispatched,
                 proxy_wake_up, proxy_ping, got, remote, panicked, bound_vars>>

----
(* The application: in a callback, or between two pumps. *)

OutsideLoop == step = "out" /\ (mode = "pump" \/ ~running)
AppTurn == ~panicked /\ creating = "none" /\ (inside # "none" \/ OutsideLoop)

Return ==
  /\ inside # "none" /\ creating = "none" /\ ~panicked
  /\ inside' = "none"
  /\ UNCHANGED <<step, mode, timed, running, first, exit, phase, live, held,
                 flag_vars, create_vars, queue_vars, iter_vars, wake_vars, panicked,
                 bound_vars>>

Exit ==
  /\ AppTurn /\ Op /\ inside # "none" /\ ~exit /\ exit' = TRUE
  /\ UNCHANGED <<step, mode, timed, running, first, phase, inside, live, held,
                 flag_vars, create_vars, queue_vars, iter_vars, wake_vars, panicked,
                 creates>>

\* Handles::request_redraw: only the change from false to true wakes the loop.
\* The flags of a window that is gone are nobody's.
Pings(w) == w \notin live \/ ~redraw[w]
Request(w) == redraw' = [redraw EXCEPT ![w] = w \in live]
RequestRedraw(w) ==
  /\ AppTurn /\ Op /\ w \in held
  /\ Request(w) /\ ping' = (ping \/ Pings(w))
  /\ UNCHANGED <<loop_vars, live, held, closed, frame, callbacks, dirty, create_vars,
                 queue_vars, iter_vars, dispatched, proxy_wake_up, proxy_ping, got,
                 remote, panicked, creates>>

\* pre_present_notify: one frame callback at a time.
WantsCallback(w) == frame[w] # "Requested"
PrePresentNotify(w) ==
  /\ AppTurn /\ Op /\ w \in held \cap live /\ WantsCallback(w)
  /\ frame' = [frame EXCEPT ![w] = "Requested"]
  /\ callbacks' = [callbacks EXCEPT ![w] = @ + 1]
  /\ UNCHANGED <<loop_vars, live, held, closed, redraw, dirty, create_vars,
                 queue_vars, iter_vars, wake_vars, panicked, creates>>

\* request_ime_update pushes an event of the window itself.
PushWindowEvent(w) ==
  /\ AppTurn /\ Op /\ w \in held \cap live
  /\ synthetic' = Append(synthetic, w) /\ ping' = TRUE
  /\ UNCHANGED <<loop_vars, live, held, flag_vars, create_vars, updates, sink,
                 iter_vars, dispatched, proxy_wake_up, proxy_ping, got, remote,
                 panicked, creates>>

\* set_title and the like leave the client side frame to be drawn.
ChangeFrame(w) ==
  /\ AppTurn /\ Op /\ w \in held \cap live \cap Toplevels /\ ~dirty[w]
  /\ dirty' = [dirty EXCEPT ![w] = TRUE]
  /\ UNCHANGED <<loop_vars, live, held, closed, redraw, frame, callbacks,
                 create_vars, queue_vars, iter_vars, wake_vars, panicked, creates>>

\* WindowCommon::drop: the flag, then the ping.
Abandon(w) ==
  /\ held' = held \ {w}
  /\ closed' = [closed EXCEPT ![w] = w \in live]
DropWindow(w) ==
  /\ AppTurn /\ Op /\ w \in held
  /\ Abandon(w) /\ ping' = TRUE
  /\ UNCHANGED <<loop_vars, live, redraw, frame, callbacks, dirty, create_vars,
                 queue_vars, iter_vars, dispatched, proxy_wake_up, proxy_ping, got,
                 remote, panicked, creates>>

\* The second thread requests a redraw or drops a window; its ping comes later.
RemoteRequest(w) ==
  /\ Op /\ ~panicked /\ ~remote /\ w \in held /\ Pings(w)
  /\ Request(w) /\ remote' = TRUE
  /\ UNCHANGED <<loop_vars, live, held, closed, frame, callbacks, dirty, create_vars,
                 queue_vars, iter_vars, dispatched, proxy_wake_up, ping, proxy_ping,
                 got, panicked, creates>>
RemoteDrop(w) ==
  /\ Op /\ ~panicked /\ ~remote /\ w \in held
  /\ Abandon(w) /\ remote' = TRUE
  /\ UNCHANGED <<loop_vars, live, redraw, frame, callbacks, dirty, create_vars,
                 queue_vars, iter_vars, dispatched, proxy_wake_up, ping, proxy_ping,
                 got, panicked, creates>>
RemotePing ==
  /\ remote /\ ~panicked /\ remote' = FALSE /\ ping' = TRUE
  /\ UNCHANGED <<loop_vars, live, held, flag_vars, create_vars, queue_vars,
                 iter_vars, dispatched, proxy_wake_up, proxy_ping, got, panicked,
                 bound_vars>>

\* EventLoopProxy::wake_up, from any thread.
WakeUp ==
  /\ Op /\ ~panicked /\ proxy_ping' = TRUE
  /\ UNCHANGED <<loop_vars, live, held, flag_vars, create_vars, queue_vars,
                 iter_vars, dispatched, proxy_wake_up, ping, got, remote, panicked,
                 creates>>

----
(* Creating a window reads the queue, in the middle of a callback. *)

Create(w) ==
  /\ AppTurn /\ inside \in CreateIn[w]
  /\ creates < MaxCreates /\ creates' = creates + 1
  /\ w \notin live \cup held
  /\ w \in Popups => ParentOf[w] \in live \cap held
  /\ live' = live \cup {w} /\ redraw' = [redraw EXCEPT ![w] = TRUE]
  /\ creating' = w /\ creation' = "roundtrip" /\ configured' = FALSE
  /\ UNCHANGED <<loop_vars, held, closed, frame, callbacks, dirty, broken, dismissed,
                 queue_vars, iter_vars, wake_vars, panicked, ops>>

CreatedQuiet ==  \* mutant
  /\ held' = held \cup {creating} /\ creating' = "none" /\ creation' = "none"
  /\ got' = FALSE /\ UNCHANGED <<ping, dismissed>>
Created ==
  /\ held' = held \cup {creating} /\ ping' = TRUE
  /\ creating' = "none" /\ creation' = "none"
  /\ got' = FALSE /\ UNCHANGED dismissed

\* The roundtrip has been answered.
RoundtripEnds ==
  /\ creation = "roundtrip" /\ ~panicked /\ ~broken
  /\ IF configured THEN Created
     ELSE /\ creation' = "waiting" /\ got' = FALSE
          /\ UNCHANGED <<held, ping, creating, dismissed>>
  /\ UNCHANGED <<loop_vars, live, flag_vars, configured, broken, queue_vars, iter_vars,
                 dispatched, proxy_wake_up, proxy_ping, remote, panicked, bound_vars>>

\* After each blocking_dispatch a popup looks whether it has been dismissed.
CloseQueued(w) == \E i \in DOMAIN updates :
                     updates[i].id = w /\ "close" \in updates[i].kinds
WaitingDispatched ==
  /\ creation = "waiting" /\ got /\ ~panicked /\ ~broken
  /\ IF creating \in Popups /\ CloseQueued(creating)
     THEN /\ creating' = "none" /\ creation' = "none" /\ dismissed' = TRUE
          /\ got' = FALSE /\ UNCHANGED <<held, ping>>
     ELSE IF configured THEN Created
     ELSE got' = FALSE /\ UNCHANGED <<held, ping, creating, creation, dismissed>>
  /\ UNCHANGED <<loop_vars, live, flag_vars, configured, broken, queue_vars, iter_vars,
                 dispatched, proxy_wake_up, proxy_ping, remote, panicked, bound_vars>>

\* The roundtrip or a dispatch fails: no window, but its entries stay in the maps.
CreationFails ==
  /\ creating # "none" /\ ~panicked /\ Fails
  /\ broken' = TRUE /\ got' = FALSE
  /\ creating' = "none" /\ creation' = "none"
  /\ UNCHANGED <<loop_vars, live, held, flag_vars, configured, dismissed, queue_vars,
                 iter_vars, dispatched, proxy_wake_up, ping, proxy_ping, remote,
                 panicked, creates>>

----
(* The compositor, heard while the loop polls or a window is created. *)

Reading == ~panicked /\ ~broken /\ got' = TRUE /\ (At("poll") \/ creating # "none")
Message == Reading /\ Op

AddUpdate(w, kinds) ==
  IF Updated(w)
  THEN [i \in DOMAIN updates |->
          IF updates[i].id = w THEN [updates[i] EXCEPT !.kinds = @ \cup kinds]
          ELSE updates[i]]
  ELSE Append(updates, [id |-> w, kinds |-> kinds])

\* Only the first configure, and one that changes the size, resizes the window;
\* each asks for a redraw, for it has to be committed.
Configured(w, kinds) ==
  /\ updates' = AddUpdate(w, kinds)
  /\ redraw' = [redraw EXCEPT ![w] = TRUE] /\ dispatched' = TRUE
  /\ \E d \in {dirty[w], w \in Toplevels} : dirty' = [dirty EXCEPT ![w] = d]
  /\ UNCHANGED <<loop_vars, live, held, closed, frame, callbacks, creating, creation,
                 broken, dismissed, sink, synthetic, iter_vars, proxy_wake_up, ping,
                 proxy_ping, remote, panicked, creates>>
Configure(w) ==
  /\ Message /\ w \in live /\ (w = creating => configured)
  /\ \E kinds \in {{}, {"resized"}} : Configured(w, kinds)
  /\ UNCHANGED configured
FirstConfigure ==
  /\ Reading /\ creating # "none" /\ ~configured /\ ~closed[creating]
  /\ configured' = TRUE /\ Configured(creating, {"resized"})
  /\ UNCHANGED ops

\* scale_factor_changed and request_close.
Announce(w, kind) ==
  /\ Message /\ w \in live /\ (kind = "close" => w \in Toplevels)
  /\ updates' = AddUpdate(w, {kind})
  /\ UNCHANGED <<loop_vars, live, held, flag_vars, create_vars, sink, synthetic,
                 iter_vars, dispatched, proxy_wake_up, ping, proxy_ping, remote,
                 panicked, creates>>

\* popup_done.
Done(w) ==
  /\ Message /\ w \in live \cap Popups /\ ~closed[w]
  /\ closed' = [closed EXCEPT ![w] = TRUE] /\ updates' = AddUpdate(w, {"close"})
  /\ UNCHANGED <<loop_vars, live, held, redraw, frame, callbacks, dirty, create_vars,
                 sink, synthetic, iter_vars, dispatched, proxy_wake_up, ping,
                 proxy_ping, remote, panicked, creates>>

\* A frame callback is answered: worth an iteration if a redraw waits for it.
FrameWorthNever(w) == dispatched  \* mutant
FrameWorth(w) == dispatched \/ redraw[w]
FrameDone(w) ==
  /\ Reading /\ w \in live /\ callbacks[w] > 0
  /\ callbacks' = [callbacks EXCEPT ![w] = @ - 1]
  /\ dispatched' = FrameWorth(w)
  /\ frame' = [frame EXCEPT ![w] = "Received"]
  /\ UNCHANGED <<loop_vars, live, held, closed, redraw, dirty, create_vars,
                 queue_vars, iter_vars, proxy_wake_up, ping, proxy_ping, remote,
                 panicked, bound_vars>>

\* Input for the window ...
Input(w) ==
  /\ Message /\ w \in live
  /\ sink' = Append(sink, w)
  /\ UNCHANGED <<loop_vars, live, held, flag_vars, create_vars, updates, synthetic,
                 iter_vars, dispatched, proxy_wake_up, ping, proxy_ping, remote,
                 panicked, creates>>
\* ... or for its client side frame, which the application does not hear of.
Hover(w) ==
  /\ Message /\ w \in live \cap Toplevels
  /\ dirty' = [dirty EXCEPT ![w] = TRUE]
  /\ UNCHANGED <<loop_vars, live, held, closed, redraw, frame, callbacks,
                 create_vars, queue_vars, iter_vars, dispatched, proxy_wake_up, ping,
                 proxy_ping, remote, panicked, creates>>

----

Iteration ==
  \/ NewEvents \/ CanCreateSurfaces \/ ProxyWakeUp \/ TakeUpdates \/ UpdateWindow
  \/ TakeSynthetic \/ TakeSink \/ SinkEvent \/ CollectWindows \/ AboutToWait
  \/ RefreshFrames
  \/ \E w \in Windows : \/ SkipWindow(w) \/ FindWindowsToClose(w)
                        \/ CloseWindow(w) \/ RedrawWindow(w)
Loop == StartPump \/ PollReturns \/ Iteration \/ Return
Creation == RoundtripEnds \/ WaitingDispatched
App ==
  \/ Exit \/ WakeUp \/ RemotePing
  \/ \E w \in Windows :
       \/ RequestRedraw(w) \/ PrePresentNotify(w) \/ PushWindowEvent(w)
       \/ ChangeFrame(w) \/ DropWindow(w) \/ RemoteRequest(w) \/ RemoteDrop(w)
       \/ Create(w)
Compositor ==
  \/ FirstConfigure
  \/ \E w \in Windows :
       \/ Configure(w) \/ Done(w) \/ FrameDone(w) \/ Input(w) \/ Hover(w)
       \/ \E kind \in {"scale", "close"} : Announce(w, kind)

Next == Loop \/ ClearExit \/ PollFails \/ Creation \/ CreationFails \/ App \/ Compositor
Spec == Init /\ [][Next]_vars

\* The loop runs, callbacks return, an application that pumps goes on pumping,
\* the second thread finishes what it began, the compositor answers a roundtrip
\* and configures a new window. Frame callbacks may remain unanswered. What needs a
\* connection that is lost fails.
FairSpec == Spec /\ WF_vars(Loop \/ (broken /\ PollFails)) /\ WF_vars(RemotePing)
                 /\ WF_vars(Creation \/ (broken /\ CreationFails))
                 /\ WF_vars(FirstConfigure)

----
(* Properties. *)

\* No unwrap or expect of the iteration fails: what is queued for a window, and
\* what windows_to_close lists, is there when its turn comes (mod.rs, popup.rs).
NoPanic == ~panicked

\* FrameCallbackState::Requested means exactly one wl_callback in flight, so that
\* no callback is lost and no window is throttled for good (frame.rs).
OneFrameCallback ==
  \A w \in live : callbacks[w] = IF frame[w] = "Requested" THEN 1 ELSE 0

\* NoPanic and OneFrameCallback.
Sound == NoPanic /\ OneFrameCallback

\* The callbacks come in the order every backend promises, also when windows are
\* created in one of them and an exit code ends the run (winit-core, run_app).
App_ == INSTANCE AppLifecycle WITH Trailing <- FALSE
Lifecycle == App_!AppSpec

\* The liveness properties except the one case the code gets wrong (below): a
\* popup dismissed before its first configure, which ends the wait of Popup::new
\* too late or, when it ends it, wakes nobody.
TooEarly == dismissed \/ (creating # "none" /\ closed[creating] /\ ~configured)

\* A redraw that was asked for, by the application, its second thread, the
\* compositor or the frame, is handed out unless a frame callback is awaited.
RedrawDelivered ==
  \A w \in Windows :
    w \in live /\ redraw[w] /\ running
      ~> w \notin live \/ ~redraw[w] \/ Throttled(w) \/ ~running \/ TooEarly

\* What the compositor and the windows queued reaches the application.
EventsDelivered ==
  running /\ (updates # <<>> \/ sink # <<>> \/ synthetic # <<>>)
    ~> ~running \/ TooEarly \/ (updates = <<>> /\ sink = <<>> /\ synthetic = <<>>)

\* A wake-up of the proxy leads to proxy_wake_up.
WakeUpDelivered ==
  running /\ (proxy_ping \/ proxy_wake_up)
    ~> ~running \/ TooEarly \/ ~(proxy_ping \/ proxy_wake_up)

\* A window that was dropped, or that the compositor dismissed, is destroyed.
ClosedDestroyed ==
  \A w \in Windows :
    w \in live /\ closed[w] /\ running ~> w \notin live \/ ~running \/ TooEarly

\* After exit the loop returns.
ExitStops == exit /\ running ~> ~running \/ TooEarly

\* Everything that asks for the loop's attention gets it.
Served ==
  RedrawDelivered /\ EventsDelivered /\ WakeUpDelivered /\ ClosedDestroyed /\ ExitStops

----
(* What the code does not keep. *)

\* popup.rs:224: "Detect that and bail out instead of looping forever."
CreationReturns == creating # "none" ~> creating = "none"

\* When the dismissal is noticed Popup::new returns without waking the loop, which
\* may sleep with the popup's entry, and whatever else was read, left behind.
ClosedAlwaysDestroyed ==
  \A w \in Windows :
    w \in live /\ closed[w] /\ creating # w /\ running ~> w \notin live \/ ~running

\* "dispatched_events" is not set when only the frame changed.
FrameRefreshed == \A w \in Windows : dirty[w] /\ running ~> ~dirty[w] \/ ~running

\* A window whose creation failed is nobody's, yet it stays and gets events (mod.rs:193).
NoGhost == \A w \in live : w \in held \/ closed[w] \/ w = creating

\* A popup may be created on a window whose family is being closed.
NoOrphan == \A p \in Popups \cap live : ParentOf[p] \in live
====
