---- MODULE AppKitLoop ----
(*
The application state of winit-appkit: run_app_on_demand and
pump_app_events on top of NSApplication's run, the two observers of the
main run loop (cleared before a wait, wakeup after it), the four stop
flags, redraws, closures queued while the application is in a callback,
the proxy's run loop source, exit and termination.

AppKit is the environment.  Besides the main loop it may run a tracking
loop of its own (a live resize, a menu), in which the observers and the
proxy go on and queued closures wait, and the application may run a
modal loop inside a callback.
*)
EXTENDS Naturals, EventHandler

CONSTANTS
  Windows,     \* the windows the application may create
  QueueIn,     \* the callbacks in which something is queued (fetched data, a
               \* dropped window, an AppKit call that calls back)
  ModalProxy,  \* whether the proxy is used around modal loops
  EarlyProxy,  \* whether it is used before the application is launched
  MaxOps,      \* bound: operations of AppKit, the application and its threads
  MaxRuns      \* bound: calls of run_app_on_demand or pump_app_events

ASSUME AppKitAssumption ==
  ModalProxy \in BOOLEAN /\ EarlyProxy \in BOOLEAN /\ MaxOps \in Nat /\ MaxRuns \in Nat

VARIABLES
  mode,        \* which of the two functions the application uses
  at,          \* where the main run loop is, "out" when it does not run
  modal,       \* where a modal loop inside a callback is, "no" if there is none
  tracking,    \* the main loop runs in AppKit's tracking mode
  pc,          \* what winit does next, "idle" between its handlers
  then,        \* what follows the Init callbacks or the closing of all windows
  inside,      \* the callback the application executes, "none" if none
  phase,       \* of AppLifecycle: where the application stands
  launched, running, exit,                           \* is_launched, is_running
  stop_on_launch, stop_before_wait, stop_after_wait, stop_on_redraw,
  stop,        \* NSApplication was told to stop, and an event posted for it
  started,     \* start_time is set
  flow,        \* control_flow
  wait_timeout,\* set by pump_app_events
  timer,       \* the waker's: "off", "now", or at a "later" time
  woken,       \* the run loop's wake_up
  signalled,   \* the proxy's source
  pending,     \* pending_redraw
  work,        \* the redraws that cleared took
  blocks,      \* number of queued closures
  open,        \* the windows that have not been closed
  panicked, ops, runs

call_vars == <<pc, inside, phase, handler>>
flag_vars == <<stop_on_launch, stop_before_wait, stop_after_wait, stop_on_redraw>>
run_vars == <<launched, running, exit, started>>
wake_vars == <<flow, wait_timeout, timer, woken, signalled>>
redraw_vars == <<pending, work>>
place_vars == <<at, modal, tracking>>
vars == <<mode, place_vars, call_vars, then, run_vars, flag_vars, stop, wake_vars,
          redraw_vars, blocks, open, panicked, ops, runs>>

TypeOK ==
  /\ mode \in {"run", "pump"} /\ at \in {"out", "sources", "before", "sleep", "gone"}
  /\ modal \in {"no", "sources", "sleep"} /\ tracking \in BOOLEAN
  /\ pc \in {"idle", "begin", "init", "inited", "drawn", "redraws", "cleared",
             "closing", "arm"}
  /\ then \in {"launch", "run", "return", "arm", "terminate"}
  /\ inside \in {"none", "new_events_init", "can_create_surfaces", "new_events",
                 "event", "proxy", "redraw", "about_to_wait", "destroyed"}
  /\ phase \in {"Off", "Init", "Awake", "Asleep"} /\ handler \in HandlerStates
  /\ {launched, running, exit, started, stop, woken, signalled, panicked,
      stop_on_launch, stop_before_wait, stop_after_wait, stop_on_redraw} \subseteq BOOLEAN
  /\ flow \in {"poll", "wait", "until"} /\ wait_timeout \in BOOLEAN
  /\ timer \in {"off", "now", "later"}
  /\ pending \subseteq Windows /\ work \subseteq Windows /\ open \subseteq Windows
  /\ blocks \in 0 .. MaxOps /\ ops \in 0 .. MaxOps /\ runs \in 0 .. MaxRuns

Fresh ==
  /\ mode \in {"run", "pump"} /\ at = "out" /\ modal = "no" /\ tracking = FALSE
  /\ pc = "idle" /\ then = "run" /\ inside = "none" /\ phase = "Off" /\ handler = "unset"
  /\ launched = FALSE /\ running = FALSE /\ exit = FALSE /\ started = FALSE
  /\ stop_on_launch = FALSE /\ stop_before_wait = FALSE
  /\ stop_after_wait = FALSE /\ stop_on_redraw = FALSE /\ stop = FALSE
  /\ flow = "wait" /\ wait_timeout = FALSE /\ timer = "off"
  /\ woken = FALSE /\ signalled = FALSE
  /\ pending = {} /\ work = {} /\ blocks = 0 /\ open = {}
  /\ panicked = FALSE
Init == Fresh /\ ops = 0 /\ runs = 0

----
(* Control. *)

Out == at = "out" /\ pc = "idle" /\ handler = "unset" /\ ~panicked
Loop(place) == at = place /\ pc = "idle" /\ inside = "none" /\ ~panicked
Modal(place) == modal = place /\ ~panicked
Continue(p) == pc = p /\ inside = "none" /\ ~panicked
Inside == inside # "none" /\ modal = "no" /\ ~panicked
Op == ops < MaxOps /\ ops' = ops + 1

\* with_handler: EventHandler::handle.
With(cb, ph) ==
  /\ IF Ready THEN Enter /\ inside' = cb /\ phase' = ph
              ELSE UNCHANGED <<handler, inside, phase>>
  /\ panicked' = HandlePanics

\* maybe_queue_with_handler: at once, or as a closure of the run loop.
QueueAlways(cb) == With(cb, phase) /\ UNCHANGED blocks  \* mutant
MaybeQueue(cb) ==
  IF ~InUse
    THEN With(cb, phase) /\ UNCHANGED blocks
    ELSE blocks' = blocks + 1 /\ UNCHANGED <<handler, inside, phase, panicked>>

\* internal_exit; stop_on_launch stays as it is.
InternalExit ==
  /\ running' = FALSE /\ stop_on_redraw' = FALSE /\ stop_before_wait' = FALSE
  /\ stop_after_wait' = FALSE /\ wait_timeout' = FALSE

----
(* The application's call, and its return. *)

\* run_app_on_demand.
StartRun ==
  /\ Out /\ mode = "run" /\ runs < MaxRuns /\ runs' = runs + 1
  /\ SetHandler /\ exit' = FALSE
  /\ wait_timeout' = FALSE /\ stop_before_wait' = FALSE
  /\ stop_after_wait' = FALSE /\ stop_on_redraw' = FALSE
  /\ IF launched
     THEN running' = TRUE /\ pc' = "begin" /\ then' = "run" /\ UNCHANGED <<at, stop>>
     ELSE at' = "sources" /\ stop' = FALSE /\ UNCHANGED <<running, pc, then>>
  /\ UNCHANGED <<mode, modal, tracking, inside, phase, launched, started, stop_on_launch,
                 flow, timer, woken, signalled, redraw_vars, blocks, open, panicked, ops>>

\* The arms of pump_app_events for its timeout: zero, some, none.
Timeout(t) ==
  /\ wait_timeout' = (t = "some") /\ stop_before_wait' = (t = "zero")
  /\ stop_after_wait' = IF t = "zero" THEN stop_after_wait ELSE TRUE

\* pump_app_events: launches, initialises or pumps.
StartPump ==
  /\ Out /\ mode = "pump" /\ runs < MaxRuns /\ runs' = runs + 1
  /\ SetHandler
  /\ \/ /\ ~launched /\ stop_on_launch' = TRUE /\ at' = "sources" /\ stop' = FALSE
        /\ UNCHANGED <<running, pc, then, wait_timeout, stop_before_wait,
                       stop_after_wait, stop_on_redraw>>
     \/ /\ launched /\ ~running /\ running' = TRUE /\ pc' = "begin" /\ then' = "return"
        /\ UNCHANGED <<at, stop, wait_timeout, flag_vars>>
     \/ /\ launched /\ running
        /\ \E t \in {"zero", "some", "none"} : Timeout(t)
        /\ stop_on_redraw' = TRUE /\ at' = "sources" /\ stop' = FALSE
        /\ UNCHANGED <<running, pc, then, stop_on_launch>>
  /\ UNCHANGED <<mode, modal, tracking, inside, phase, launched, exit, started, flow, timer,
                 woken, signalled, redraw_vars, blocks, open, panicked, ops>>

DidFinishLaunchingBare ==  \* mutant
  /\ Loop("sources") /\ ~launched /\ launched' = TRUE /\ timer' = "now" /\ running' = TRUE
  /\ UNCHANGED <<mode, place_vars, call_vars, then, exit, started, flag_vars, stop, flow,
                 wait_timeout, woken, signalled, redraw_vars, blocks, open, panicked,
                 ops, runs>>

\* applicationDidFinishLaunching, once in the life of the process.
DidFinishLaunching ==
  /\ Loop("sources") /\ ~launched
  /\ launched' = TRUE /\ timer' = "now" /\ running' = TRUE
  /\ pc' = "begin" /\ then' = "launch"
  /\ UNCHANGED <<mode, place_vars, inside, phase, handler, exit, started, flag_vars, stop,
                 flow, wait_timeout, woken, signalled, redraw_vars, blocks, open,
                 panicked, ops, runs>>

\* dispatch_init_events.
InitEvents ==
  /\ Continue("begin") /\ With("new_events_init", "Init") /\ pc' = "init"
  /\ UNCHANGED <<mode, place_vars, then, run_vars, flag_vars, stop, wake_vars,
                 redraw_vars, blocks, open, ops, runs>>
CanCreateSurfaces ==
  /\ Continue("init") /\ With("can_create_surfaces", "Awake") /\ pc' = "inited"
  /\ UNCHANGED <<mode, place_vars, then, run_vars, flag_vars, stop, wake_vars,
                 redraw_vars, blocks, open, ops, runs>>

\* After them: the launch of a pump stops NSApplication, a run starts it.
Initialised ==
  /\ Continue("inited") /\ then \in {"launch", "run"}
  /\ pc' = "idle" /\ at' = "sources"
  /\ stop' = (then = "launch" /\ stop_on_launch)
  /\ UNCHANGED <<mode, modal, tracking, then, inside, phase, handler, run_vars, flag_vars,
                 wake_vars, redraw_vars, blocks, open, panicked, ops, runs>>

\* NSApplication's run returns once it is stopped, and the call with it: a run
\* always ends the event loop, a pump only when the application has exited.
Return ==
  /\ \/ Loop("sources") /\ ~tracking /\ stop
     \/ Continue("inited") /\ then = "return"
  /\ at' = "out" /\ pc' = "idle" /\ ClearHandler
  /\ IF mode = "run" \/ exit
     THEN InternalExit /\ phase' = "Off"
     ELSE UNCHANGED <<running, wait_timeout, flag_vars, phase>>
  /\ UNCHANGED <<mode, modal, tracking, then, inside, launched, exit, started, stop,
                 stop_on_launch, flow, timer, woken, signalled, redraw_vars, blocks, open,
                 panicked, ops, runs>>

----
(* The observers. *)

\* Both return at once while a callback runs or no event loop does.
Skips == ~Ready \/ ~running

\* cleared, observer of BeforeWaiting: the redraws, ...
Cleared ==
  /\ IF Skips
     THEN UNCHANGED <<pc, redraw_vars>>
     ELSE pc' = "redraws" /\ work' = pending /\ pending' = {}
BeforeWaiting ==
  /\ Loop("sources") /\ (tracking \/ blocks = 0)   \* the run loop runs them first
  /\ Cleared
  /\ at' = IF Skips THEN "sleep" ELSE "before"
  /\ UNCHANGED <<mode, modal, tracking, inside, phase, handler, then, run_vars, flag_vars,
                 stop, wake_vars, blocks, open, panicked, ops, runs>>
RedrawWindow ==
  /\ Continue("redraws")
  /\ \E w \in work : work' = work \ {w} /\ With("redraw", phase)
  /\ UNCHANGED <<mode, place_vars, pc, then, run_vars, flag_vars, stop, wake_vars, pending,
                 blocks, open, ops, runs>>

\* ... about_to_wait, ...
AboutToWait ==
  /\ Continue("redraws") /\ work = {}
  /\ With("about_to_wait", "Asleep") /\ pc' = "cleared"
  /\ UNCHANGED <<mode, place_vars, then, run_vars, flag_vars, stop, wake_vars, redraw_vars,
                 blocks, open, ops, runs>>

\* ... the exit: the application stops and its windows are closed, ...
ExitSilent ==  \* mutant
  /\ Continue("cleared") /\ stop' = (stop \/ exit) /\ pc' = "arm" /\ then' = "arm"
  /\ UNCHANGED <<mode, place_vars, inside, phase, handler, run_vars, flag_vars, wake_vars,
                 redraw_vars, blocks, open, panicked, ops, runs>>
ExitRunning ==  \* mutant
  /\ Continue("cleared") /\ pc' = (IF exit THEN "closing" ELSE "arm") /\ then' = "arm"
  /\ UNCHANGED <<mode, place_vars, inside, phase, handler, run_vars, flag_vars, stop,
                 wake_vars, redraw_vars, blocks, open, panicked, ops, runs>>
Exiting ==
  /\ Continue("cleared")
  /\ stop' = (stop \/ exit) /\ pc' = (IF exit THEN "closing" ELSE "arm") /\ then' = "arm"
  /\ UNCHANGED <<mode, place_vars, inside, phase, handler, run_vars, flag_vars, wake_vars,
                 redraw_vars, blocks, open, panicked, ops, runs>>
\* (notify_windows_of_exit: windowWillClose: of each window, at once)
CloseWindow ==
  /\ Continue("closing")
  /\ \E w \in open : open' = open \ {w} /\ MaybeQueue("destroyed")
  /\ UNCHANGED <<mode, place_vars, pc, then, run_vars, flag_vars, stop, wake_vars,
                 redraw_vars, ops, runs>>
WindowsClosed ==
  /\ Continue("closing") /\ open = {} /\ then = "arm" /\ pc' = "arm"
  /\ UNCHANGED <<mode, place_vars, then, inside, phase, handler, run_vars, flag_vars, stop,
                 wake_vars, redraw_vars, blocks, open, panicked, ops, runs>>

\* ... and the waker, for the earlier of the pump's timeout and the
\* application's.
MinAppOnly == IF flow = "poll" THEN "now" ELSE IF flow = "until" THEN "later"
              ELSE "off"  \* mutant
MinTimeout == IF flow = "poll" THEN "now"
              ELSE IF flow = "until" \/ wait_timeout THEN "later" ELSE "off"
Arm ==
  /\ Continue("arm")
  /\ stop' = (stop \/ stop_before_wait) /\ started' = TRUE /\ timer' = MinTimeout
  /\ at' = "sleep" /\ pc' = "idle"
  /\ UNCHANGED <<mode, modal, tracking, then, inside, phase, handler, launched, running,
                 exit, flag_vars, flow, wait_timeout, woken, signalled, redraw_vars,
                 blocks, open, panicked, ops, runs>>

\* wakeup, observer of AfterWaiting. The event that stop_app_immediately posts
\* ends the wait as well.
Wakeup ==
  /\ at' = "sources" /\ woken' = FALSE
  /\ IF Skips
     THEN UNCHANGED <<inside, phase, handler, stop, panicked>>
     ELSE /\ stop' = (stop \/ stop_after_wait)
          /\ IF started THEN With("new_events", "Awake")
             ELSE panicked' = TRUE /\ UNCHANGED <<inside, phase, handler>>
  /\ UNCHANGED <<mode, modal, tracking, pc, then, run_vars, flag_vars, flow, wait_timeout,
                 timer, signalled, redraw_vars, blocks, open, ops, runs>>
WakeDueUnsignalled ==  \* mutant
  Loop("sleep") /\ (timer # "off" \/ woken \/ stop) /\ Wakeup
WakeDue == Loop("sleep") /\ (timer # "off" \/ woken \/ signalled \/ stop) /\ Wakeup
WakeByAppKit == Loop("sleep") /\ (ops < MaxOps \/ tracking) /\ Wakeup

----
(* What AppKit, the run loop and other threads do. *)

\* An event of a window or a device, delivered at once.
AppKitEvent ==
  /\ Loop("sources") /\ running /\ Op /\ MaybeQueue("event")
  /\ UNCHANGED <<mode, place_vars, pc, then, run_vars, flag_vars, stop, wake_vars,
                 redraw_vars, open, runs>>

\* drawRect: and the live resize call handle_redraw, which does nothing while
\* a callback runs; a pump wants to return after it.
HandleRedraw ==
  /\ Loop("sources") /\ ~InUse /\ open # {} /\ Op
  /\ With("event", phase) /\ pc' = "drawn"
  /\ UNCHANGED <<mode, place_vars, then, run_vars, flag_vars, stop, wake_vars,
                 redraw_vars, blocks, open, runs>>
RedrawHandled ==
  /\ Continue("drawn")
  /\ stop' = (stop \/ stop_on_redraw) /\ pc' = "idle"
  /\ UNCHANGED <<mode, place_vars, then, inside, phase, handler, run_vars, flag_vars,
                 wake_vars, redraw_vars, blocks, open, panicked, ops, runs>>

PerformBlockTracking ==  \* mutant
  /\ Loop("sources") /\ tracking /\ blocks > 0
  /\ blocks' = blocks - 1 /\ With("event", phase)
  /\ UNCHANGED <<mode, place_vars, pc, then, run_vars, flag_vars, stop, wake_vars,
                 redraw_vars, open, ops, runs>>

\* A closure that was queued runs, in the default mode only.
PerformBlock ==
  /\ Loop("sources") /\ ~tracking /\ blocks > 0
  /\ blocks' = blocks - 1 /\ With("event", phase)
  /\ UNCHANGED <<mode, place_vars, pc, then, run_vars, flag_vars, stop, wake_vars,
                 redraw_vars, open, ops, runs>>

\* The proxy's source is in all common modes: it fires in a modal loop, too.
ProxyPerform ==
  /\ Loop("sources") \/ (Modal("sources") /\ inside # "none")
  /\ signalled /\ signalled' = FALSE /\ With("proxy", phase)
  /\ UNCHANGED <<mode, place_vars, pc, then, run_vars, flag_vars, stop, flow,
                 wait_timeout, timer, woken, redraw_vars, blocks, open, ops, runs>>
\* EventLoopProxy::wake_up, from any thread and at any time: the source is there as
\* soon as the event loop is.
ProxyWakeUp ==
  /\ ~panicked /\ ~signalled /\ at # "gone" /\ Op
  /\ launched \/ EarlyProxy
  /\ modal = "no" \/ ModalProxy
  /\ signalled' = TRUE
  /\ UNCHANGED <<mode, place_vars, call_vars, then, run_vars, flag_vars, stop, flow,
                 wait_timeout, timer, woken, redraw_vars, blocks, open, panicked, runs>>

BeginTracking ==
  /\ Loop("sources") /\ running /\ ~tracking /\ Op /\ tracking' = TRUE
  /\ UNCHANGED <<mode, at, modal, call_vars, then, run_vars, flag_vars, stop, wake_vars,
                 redraw_vars, blocks, open, panicked, runs>>
EndTracking ==
  /\ Loop("sources") /\ tracking /\ tracking' = FALSE
  /\ UNCHANGED <<mode, at, modal, call_vars, then, run_vars, flag_vars, stop, wake_vars,
                 redraw_vars, blocks, open, panicked, ops, runs>>

\* A modal loop, started by the application in a callback. Its observers are
\* those of the main loop.
BeginModal ==
  /\ Inside /\ (ModalProxy \/ ~signalled) /\ Op /\ modal' = "sources"
  /\ UNCHANGED <<mode, at, tracking, call_vars, then, run_vars, flag_vars, stop, wake_vars,
                 redraw_vars, blocks, open, panicked, runs>>
ModalBeforeWaiting ==
  /\ Modal("sources") /\ modal' = "sleep" /\ Cleared
  /\ UNCHANGED <<mode, at, tracking, inside, phase, handler, then, run_vars, flag_vars,
                 stop, wake_vars, blocks, open, panicked, ops, runs>>
ModalAfterWaiting ==
  /\ Modal("sleep") /\ modal' = "sources"
  /\ IF Skips THEN UNCHANGED <<inside, phase, handler, panicked>> ELSE With("new_events", "Awake")
  /\ UNCHANGED <<mode, at, tracking, pc, then, run_vars, flag_vars, stop, wake_vars,
                 redraw_vars, blocks, open, ops, runs>>
EndModal ==
  /\ Modal("sources") /\ modal' = "no"
  /\ UNCHANGED <<mode, at, tracking, call_vars, then, run_vars, flag_vars, stop, wake_vars,
                 redraw_vars, blocks, open, panicked, ops, runs>>

\* will_terminate: the windows are closed, ...
WillTerminate ==
  /\ Loop("sources") /\ running /\ ~tracking /\ Op
  /\ pc' = "closing" /\ then' = "terminate"
  /\ UNCHANGED <<mode, place_vars, inside, phase, handler, run_vars, flag_vars, stop,
                 wake_vars, redraw_vars, blocks, open, panicked, runs>>
\* ... the application is dropped, and the process ends.
Terminated ==
  /\ Continue("closing") /\ open = {} /\ then = "terminate"
  /\ Terminate /\ InternalExit /\ at' = "gone" /\ pc' = "idle"
  /\ UNCHANGED <<mode, modal, tracking, then, inside, phase, launched, exit, started,
                 stop_on_launch, stop, flow, timer, woken, signalled, redraw_vars, blocks,
                 open, panicked, ops, runs>>

----
(* What the application does in a callback. *)

\* (An application that has exited creates no window.)
CreateWindow ==
  /\ Inside /\ pc # "closing" /\ ~exit /\ Op
  /\ \E w \in Windows \ open : open' = open \cup {w}
  /\ UNCHANGED <<mode, place_vars, call_vars, then, run_vars, flag_vars, stop, wake_vars,
                 redraw_vars, blocks, panicked, runs>>

\* A window is dropped: windowWillClose: queues its Destroyed.
DropWindow ==
  /\ Inside /\ inside \in QueueIn /\ Op
  /\ \E w \in open : open' = open \ {w}
  /\ MaybeQueue("destroyed")
  /\ UNCHANGED <<mode, place_vars, pc, then, run_vars, flag_vars, stop, wake_vars,
                 redraw_vars, runs>>

\* fetch_data_transfer, and what AppKit calls back at once.
FetchDataTransfer ==
  /\ Inside /\ inside \in QueueIn /\ Op
  /\ MaybeQueue("event")
  /\ UNCHANGED <<mode, place_vars, pc, then, run_vars, flag_vars, stop, wake_vars,
                 redraw_vars, open, runs>>

\* request_redraw: queue_redraw, which wakes the run loop.
QueueRedrawQuiet(w) == pending' = pending \cup {w} /\ UNCHANGED woken  \* mutant
QueueRedraw(w) == pending' = pending \cup {w} /\ woken' = TRUE
RequestRedraw ==
  /\ Inside /\ Op
  /\ \E w \in open \ pending : QueueRedraw(w)
  /\ UNCHANGED <<mode, place_vars, call_vars, then, run_vars, flag_vars, stop, flow,
                 wait_timeout, timer, signalled, work, blocks, open, panicked, runs>>

SetControlFlow ==
  /\ Inside /\ Op /\ flow' \in {"poll", "wait", "until"} \ {flow}
  /\ UNCHANGED <<mode, place_vars, call_vars, then, run_vars, flag_vars, stop,
                 wait_timeout, timer, woken, signalled, redraw_vars, blocks, open,
                 panicked, runs>>

Exit ==
  /\ Inside /\ ~exit /\ Op /\ exit' = TRUE
  /\ UNCHANGED <<mode, place_vars, call_vars, then, launched, running, started, flag_vars,
                 stop, wake_vars, redraw_vars, blocks, open, panicked, runs>>

CallbackReturns ==
  /\ Inside /\ Leave /\ inside' = "none"
  /\ UNCHANGED <<mode, place_vars, pc, phase, then, run_vars, flag_vars, stop, wake_vars,
                 redraw_vars, blocks, open, panicked, ops, runs>>

----

Handlers == \/ InitEvents \/ CanCreateSurfaces \/ Initialised \/ RedrawWindow
            \/ AboutToWait \/ Exiting \/ CloseWindow \/ WindowsClosed \/ Arm
            \/ RedrawHandled \/ Terminated \/ CallbackReturns
RunLoop == DidFinishLaunching \/ BeforeWaiting \/ WakeDue
Nested == \/ BeginTracking \/ EndTracking \/ BeginModal \/ ModalBeforeWaiting
          \/ ModalAfterWaiting \/ EndModal
Environment == \/ StartRun \/ StartPump \/ WakeByAppKit \/ AppKitEvent \/ HandleRedraw
               \/ ProxyWakeUp \/ WillTerminate
Application == \/ CreateWindow \/ DropWindow \/ FetchDataTransfer \/ RequestRedraw
               \/ SetControlFlow \/ Exit

Next == \/ Handlers \/ RunLoop \/ Return \/ PerformBlock \/ ProxyPerform \/ Nested
        \/ Environment \/ Application

\* Callbacks return, loops inside loops end, and the run loop goes round; in
\* one of its turns it runs its closures, its signalled sources, and the event
\* that stops it.
Fairness == /\ WF_vars(Handlers) /\ WF_vars(RunLoop)
            /\ SF_vars(Return) /\ SF_vars(PerformBlock) /\ SF_vars(ProxyPerform)
            /\ WF_vars(tracking /\ WakeByAppKit) /\ SF_vars(EndTracking)
            /\ WF_vars(ModalAfterWaiting) /\ SF_vars(EndModal)
Spec == Init /\ [][Next]_vars /\ Fairness

----
(* Properties. *)

\* The application is never entered while it executes, wakeup always finds a
\* start_time, and set, clear and terminate find the handler as they expect it
\* (app_state.rs:358; event_handler.rs:60-155).
NoPanic == ~panicked

\* The application is called in the order all backends promise, but for one:
\* wakeup still runs in the turn that ends the loop, so that new_events may be
\* the last callback, and a pump that ends in a callback's exit has no
\* about_to_wait.
Lifecycle == INSTANCE AppLifecycle WITH
  Trailing <- TRUE,
  inside <- IF inside \in {"proxy", "redraw", "destroyed"} THEN "event" ELSE inside
LeftAwake == exit /\ inside = "none" /\ phase = "Awake" /\ phase' = "Off" /\ UNCHANGED inside
Order == Lifecycle!AppInit /\ [][Lifecycle!AppNext \/ LeftAwake]_<<phase, inside>>

\* As the other backends keep it.
StrictOrder == Lifecycle!AppSpec

\* A redraw asked for is delivered before the loop waits for long, unless the
\* event loop ends (queue_redraw, cleared).
RedrawDelivered ==
  \A w \in Windows : (w \in pending) ~> (w \notin pending \/ ~running \/ at = "out")

\* A closure queued because the application was busy runs, with nothing else
\* to wake the loop (maybe_queue_with_handler, queue_closure).
QueuedDelivered == (blocks > 0) ~> (blocks = 0 \/ ~running \/ at = "out")

\* The proxy's wake-up reaches the application.
WakeUpDelivered == signalled ~> (inside = "proxy" \/ ~running \/ at = "out")

\* All three: no order of observers, timers and sources loses one of them.
Delivered == RedrawDelivered /\ QueuedDelivered /\ WakeUpDelivered

\* An exit ends run_app_on_demand, ...
ExitReturns == (exit /\ at # "out") ~> (at \in {"out", "gone"})
\* ... and leaves no window behind (notify_windows_of_exit).
NoWindowLingers == phase = "Off" => open = {}
NoWindowLingersAfterRun == phase = "Off" /\ mode = "run" => open = {}

\* NoPanic, and no window outlives run_app_on_demand.
Intact == NoPanic /\ NoWindowLingersAfterRun

\* A pump with a timeout returns, whatever the control flow of the application
\* (stop_before_wait, stop_after_wait, wait_timeout and the waker).
PumpReturns ==
  (at = "sources" /\ running /\ (stop_before_wait \/ wait_timeout))
    ~> (at \in {"out", "gone"})

\* ExitReturns and PumpReturns: whichever stop flag was set, on time or late.
Returns == ExitReturns /\ PumpReturns

\* Events arrive in the order in which AppKit raised them: none overtakes one
\* that was queued.
InOrder == [][(inside = "none" /\ inside' = "event" /\ blocks' = blocks) => blocks = 0]_vars
====
