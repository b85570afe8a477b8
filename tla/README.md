# A TLA+ development for winit

winit opens windows and delivers their events to one application object, on
seven windowing systems. This directory holds TLA+ models of its event loops and
of the input and window code that keeps state between events, the TLC runs that
check them and the TLAPS proofs about them. It covers winit 0.31.0-beta.3 as
found in `src/`.

Contents: [inventory](#inventory) · [modules](#modules-and-the-code) · [runs](#runs)
· [bounds and fairness](#bounds-and-fairness) · [proofs](#proofs)
· [what the code does not keep](#what-the-code-does-not-keep)
· [abstractions](#abstractions-and-limits)

## Inventory

An application implements `ApplicationHandler` (winit-core). A backend crate owns
the event loop of its platform: it calls `new_events`, `can_create_surfaces`,
`window_event`, `device_event`, `proxy_wake_up` and `about_to_wait` on the
application, which calls back into `ActiveEventLoop` (`exit`, `set_control_flow`,
`create_window`, `start_drag`, `fetch_data_transfer`) and its `Window`s
(`request_redraw`, setters). Other threads hold an `EventLoopProxy` (`wake_up`) and
windows.

| Component | State it keeps | What is hard | What makes it correct | Modules |
|---|---|---|---|---|
| winit-core event loop, run modes | none; traits | every backend has to keep the same order | callbacks in order, never overlapping, none after a panic | `AppLifecycle` |
| winit-core data transfers | none; traits and events | a transfer outlives its drag, fetches are answered later | order of a transfer's events, one answer per fetch | `DataTransfer` |
| winit-win32 runner and event loop | runner state, taken-out handler, event buffer, panic store, exit code, interrupt flag | window procedures re-enter inside callbacks and modal loops | the handler is never used twice, nothing is left in the buffer, redraws and wake-ups arrive | `Win32Runner` |
| winit-win32 drag and drop | `drag_state`, registered transfer, own drag and its deferred cleanup | OLE calls the target, which calls the application, which reads the state being written | the drop is settled alike for OLE, target and source; transfers live as long as needed | `Win32Dnd` |
| winit-win32 keyboard | key under construction, queue of pending events, focus, modifiers | a press is put together from several messages, with others sent in between | what the application was told is what is held | `Win32Keyboard` |
| winit-win32 popups | positioner and anchors | the owner moves in the middle of a reposition | windows stay attached and on screen | `Win32Popups`, `Positioner` |
| winit-web runner, windows | `RunnerEnum`, `State` with its timer, event queue, canvases, in `RefCell`s | DOM calls fire listeners synchronously, iterations nest, start may be delayed | no borrow fails, the queue is drained, the timer fits the state, exit stops | `WebRunner` |
| winit-web `async/`, proxy | flags, wakers, channels, a worker's `Condvar` | lock-free register-then-recheck between threads | no wake-up is lost, no worker blocks for ever | `WebAsync` |
| winit-web cursor | handler of a canvas, loading images, abort handles | tasks that outlive what they load for | no `unreachable!`, the canvas shows what was set, tasks end | `WebCursor` |
| winit-wayland event loop, windows | `dispatched_events`, sink, compositor updates, windows, frame callbacks | hint flags reset between polls, redraws held back, nested dispatch while a window is created | nothing waits in the sink while the loop blocks | `WaylandLoop` |
| winit-x11 event loop | channels, active window, first touch, registry | several sources behind one poll, Xlib's own queue | a readable source is never forgotten, focus and touches are right | `X11Loop` |
| winit-x11 drag and drop | current drag, queue of fetches | all conversions share one property of the window | each answer is that of its fetch | `X11Dnd` |
| winit-x11 input methods | contexts, the method, three channels | Xlib replaces the method inside its callbacks | nothing is freed twice, contexts follow the requests | `X11Ime` |
| winit-appkit application | stop flags, pending redraws, queued closures | observers fire in modal loops, pumps leave flags behind | the handler is never re-entered, redraws and closures arrive | `AppKitLoop`, `EventHandler` |
| winit-appkit windows | fullscreen state, put-off requests | AppKit's transitions take time and fail | what is remembered is what is shown | `AppKitFullscreen` |
| winit-appkit views | IME state, key being interpreted, modifiers | the input method calls back inside `keyDown:` | text arrives once, keys and modifiers are the user's | `AppKitView` |
| winit-uikit application, views | `AppStateImpl`, event queue, timer | an unexpected transition panics | no transition is unexpected, all is told before the wait | `UIKitApp`, `EventHandler` |
| winit-common event handler, run loop, positioner | the cell of the handler; none | re-entry panics | callers ask `in_use` first | `EventHandler`, `Positioner` |
| winit-android, winit-orbital, dpi, winit, core data types | flags of one polling thread; none | | | not modelled |

`PROJECT.json` lists the components with their files, and under `hazards` the places
where a test would hardly reach.

## Modules and the code

Each module begins with what it models and what is external to it; the variables carry
the names of the fields they stand for. `PROJECT.json` maps every definition to its lines.

*Abstract specifications.* `AppLifecycle` has two variables, `phase` (what the application
has been told) and `inside` (the callback that runs); its actions are the lines of the flow
documented at `winit-core/src/event_loop/mod.rs:29`. The constant `Trailing` adds the one
freedom some backends take: events after `about_to_wait` in the same iteration.
`Win32Runner`, `WebRunner`, `WaylandLoop`, `UIKitApp`, `AppKitLoop` and `X11Loop` refine it.
`DataTransfer` is the life of an incoming drag as the application sees it; `X11Dnd`
refines it.

*Stack machines.* `Win32Runner`, `Win32Dnd`, `Win32Keyboard`, `Win32Popups` and `WebRunner` model code
that is re-entered: `stack` holds the calls still to be made or to return, innermost
first, and each action is the code of one of them up to its next call that leads out.

| In `Win32Runner` | In the code |
|---|---|
| `runner_state`, `event_handler`, `exit`, `panic_error`, `event_buffer`, `interrupt_msg_dispatch`, `pending_drag`, `source_drag` | fields of `EventLoopRunner` |
| `queue`, `paint`, `target_paint` | posted messages and update regions (the system's) |
| `Transition`, `SendEvent`, `CallEventHandler`, `DispatchBufferedEvents` | functions of those names |
| `PaintProc`, `Validate`, `Rearm` | the `WM_PAINT` arms |
| `Retrieve`, `Dispatch…`, `AfterDispatch` | `dispatch_peeked_messages`, also inside modal loops |

A panic is one step: `catch_unwind` stores it and the callback's frame is gone.

| In `WebRunner` | In the code |
|---|---|
| `runner`, `state`, `schedule` | `RunnerEnum`, `State`, the `Schedule` inside it |
| `events`, `redraw_pending`, `destroy_pending`, `all_canvases` | fields of `Execution` |
| frames `handle`, `app`, `after`, `prefetch`, `take` | a call of `handle_event`, the callback, what follows it |
| frames `destroy`, `redraws`, `apply`, `close`, `listen` | the rest of `run_until_cleared`, `set_listener` |
| `ScheduleFires`, `AnimationFrame`, `Microtask`, `ProxyTask`, `DispatcherTask` | tasks the loop asked the browser for |

A `RefCell` is borrowed exactly while a certain frame is on the stack. A borrow that
fails pushes `trap`, which nothing removes: on this target a panic ends the program.

*Threads.* In `WebAsync` each access of shared memory is a step. In `WaylandLoop` and `X11Loop`
a second thread takes its own steps between those of the loop (a store, then a ping).

*Run loops of others.* In `UIKitApp` and `AppKitLoop` the run loop is Apple's: `at` and `pc` say
where it is, and the actions are what winit's observers, notification handlers and
view methods do there. `AppKitFullscreen` and `AppKitView` are about one window and one view.

*Composition.* `MCAppKit` puts `AppKitLoop`, `AppKitFullscreen` and `AppKitView` together, `MCX11Input` does
so with `X11Dnd` and `X11Ime`, and `MCWin32Input` with `Win32Dnd`, `Win32Keyboard` and `Win32Popups`. In each the
parts share no state of the program, so that their interleavings would add nothing: a
behaviour exercises one part, and the others rest. The other MC modules give constants
their values. An `Environments` constant is a set of records, of which a behaviour
chooses one in its first state: what users, servers, threads and applications do in it.

Operators marked `\* mutant` are changed forms of the definition below them, as a
plausible bug would change the code. No specification uses them; for each property of
each run `PROJECT.json` names one with which TLC finds the property violated.

## Runs

| Run | Question | Properties |
|---|---|---|
| `Win32RunnerSafety` | With sent messages, modal loops, drags, exit, panics, run and pump: do callbacks overlap or come out of order, is an event left behind? | `HandlerDiscipline`, `NothingLeftBehind`, `Lifecycle` |
| `Win32RunnerLive` | With another thread, modal loops and either control flow: are redraws and wake-ups delivered, does exit stop a loop that polls? | `Delivered`, `PollingExitStops` |
| `WebRunnerSafety` | Does any borrow fail, does an event stay queued, does a timer disagree with the state, does a callback come out of order? | `RunnerFree`, `Undisturbed` (`NoBorrowPanic`, `QueueDrained`, `ScheduleArmed`), `Lifecycle` |
| `WebRunnerLive` | Are wake-ups, redraws, exit and the release of the window served? | `Served` |
| `WebAsync` | Is a value used after it was given up, does a task sleep over work, are closures lost, reordered or repeated, does a worker block for ever? | `ValueWhileHeld`, `TasksAwake`, `Accounted`, `Progress` |
| `WebCursor` | With images that load, fail, are set, hidden and dropped: is the handler consistent, is what was set shown, do tasks end? | `HandlerSound`, `CustomShown`, `TasksEnd` |
| `WaylandLoop` | A toplevel and its popup, created in callbacks, dropped from two threads, configured and closed: does an `unwrap` fail, is anything not delivered? | `Sound`, `Lifecycle`, `Served` |
| `UIKitApp` | Is a `bug!` arm reached, is the application told everything before a wait, is the timer armed, does anything arrive after the end? | `Prepared` (`NoPanic`, `ToldBeforeWait`, `TimerArmed`), `Contract` (`LifecycleSpec`, `GoneAfterTermination`), `Delivered` |
| `AppKit` | Runs and pumps with tracking and modal loops; fullscreen transitions; typing with and without an input method | `Intact` (`NoPanic`, `NoWindowLingersAfterRun`), `FullscreenAgrees`, `TypingAgrees`, `Order`, `Serves` (`Delivered`, `Returns`) |
| `X11Loop` | Two windows with focus, touches, keys, scale changes, destruction and a second thread | `FocusAgrees`, `PrimaryCameFirst`, `Lifecycle`, `Served` |
| `X11Input` | Drags with three fetches; input methods whose server goes and comes | `AnswerMatches`, `ImeSound` (`ReplacedSafely`, `ContextsFollow`, `Composition`), `Contract` (refines `DataTransfer`), `Served` |
| `Win32Input` | Drags of others and of the application; keys around focus changes; popups of popups on two monitors | `DropsSettled`, `TransfersLive`, `KeysTold`, `PopupsFollow`, `DragsHeard` |

All hold. `Lifecycle` says that the module refines `AppLifecycle`: with `Trailing = FALSE` on Windows,
Wayland and X11, with `Trailing = TRUE` on the web, UIKit and AppKit.

## Bounds and fairness

| Bound | Meaning | Why it is enough |
|---|---|---|
| `MaxPosts` 2, `MaxBuffer` 1–2, `MaxStack` 5 (Win32Runner) | messages posted, events buffered, depth at which the environment stops adding | a modal loop, inside a callback, inside a dispatched message; one message in flight and one that re-enters |
| `MaxInputs` 2–3 (WebRunner) | browser events, wake-ups, worker calls | a call inside an iteration, one that follows, one between |
| two workers, `MaxSends` 2, `MaxWakes` 1 (WebAsync) | calls of each worker, of each proxy | two senders race the receiver and each other; order of two closures |
| `MaxCalls` 3 (WebCursor) | calls that set, hide, drop | set, replace while loading, drop |
| `MaxOps` 2, `MaxCreates` 2 (WaylandLoop) | acts of users and threads; windows created | a window, its popup, and two acts that race |
| `MaxOps` 4 (UIKitApp, AppKitLoop), `MaxRuns` 2 | acts of the system, application and threads; runs and pumps | a launch, an event, a nested layout, a termination; one run after another |
| two `Displays`, `max` 2–6 (AppKitFullscreen) | displays to capture, calls | from one display through a window to the other; requests before, during and after an animation |
| two windows, three touches, `max` of an environment (X11Loop) | acts in a behaviour | focus passes on, a second finger outlives the first |
| `Drags` 2, `Moves` 1–3, `Fetches` 3, `Calls` 3 | drags in a behaviour, positions, fetches | a drag that follows another; a fetch waiting behind one under way |
| `Strokes` 4 (Win32Keyboard) | key strokes and focus changes | a press, another, the focus and the release. `KeysAreTold` has no bound |
| `Count` 3, `MaxActs` 2 (Win32Popups) | windows in a chain, acts on them | a popup of a popup; an act while another is being carried out. `PopupsAreKept` has no bound |

A bound stops only the environment: it is a guard of what users, hosts, servers, threads
or applications begin. The program's own steps are never cut off.

`CHECK_DEADLOCK FALSE` is set everywhere: a loop in `ControlFlow::Wait` that nobody sends
anything to stops, and so does every behaviour whose acts are used up.

Fairness. A loop's own steps are weakly fair: the thread runs. The rest is strongly fair
only where something else may come first but cannot for ever:

- `AppReturn` (Windows, web), `Return` (AppKit): a callback may do several things, but returns.
- Ends of modal loops and drags (Windows), `EndTracking`, `EndModal` (AppKit), leaving or letting go of
  a drag: the user ends them.
- The tasks the web loop asked the browser for: the page stays visible and the browser
  starves no source. In `WebAsync` the polls of the two tasks, which a prefetch may precede.
- `ProxyPerform` (UIKit, AppKit), `PerformBlock` (AppKit): a run loop performs a signalled
  source and a queued block in one of its turns.
- X11: the handlers of what is on the wire, among it Xlib's callback of a new input method (once
  for each server that starts while the callback is registered) and the `DestroyNotify` of a window
  that was dropped. `RequestsAnswered` assumes in its own text that X events go on. AppKit's animations end.

Nothing that users, pages, compositors, workers or hosts initiate is fair.

## Proofs

For all values of the constants that satisfy the module's assumption (checked by TLC in
the runs) and the hypotheses named here:

`Win32Proofs` – about `Win32Runner` without hypotheses.
- `HandlerIsExclusive`: `Spec => []HandlerDiscipline`. Not inductive: that the handler is in its cell
  when a call is due depends on what lies under that call. `Discipline` says that no callback
  is suspended under a call or a drain, that the handler is out of its cell exactly while
  an `app` frame exists or a panic is stored, and that nothing calls the application once
  the loop has returned to its host.
- `BufferIsDrained`: `Spec => []NothingLeftBehind`. `Drains` says of each frame that a drain, or the
  interrupt of `WM_PAINT`, lies under it until the runner goes idle.
- `ImplementsLifecycle`: `Spec => Lifecycle`. `move_state_to` leaves its calls on the stack, and
  messages push others over them, so `Ordered` relates every frame to the phase in which it
  will run; each step is then a step of `AppLifecycle` or a stutter.

About `Win32Dnd`, if applications run no message loop in a callback, start one drag at a time and
answer in no callback of a drop or of its end, and `DoDragDrop` works (`Mannered`; the environments of
`Win32Dnd` below are the others); `Apart` says that `None` is a value of its own.
- `DropsAreSettled` (`DropsSettled`) and `TransfersAreKept` (`TransfersLive`). What a method may rely on is
  on the stack: `Shaped` gives its form, at most one `DoDragDrop`, one method in it and the callback
  of that method. `DragInv` says in these terms who has the transfer (`Activated`, `Present`), why
  it is still there (`Needed`, `Deferred`), what a callback tells (`Speaking`) and whose drag it
  is (`Sourced`).

About `Win32Popups`, for chains of any length, any screens, positioners, sizes, places and number of
acts, if nothing interrupts a reposition and screens have room for the borders (`Roomy`).
- `PopupsAreKept` (`PopupsFollow`). A reposition moves the window first and resizes it in a later
  message; in between the application may move an owner, so several sizes may be due at once.
  `PopupInv` says that a call on the stack will still bring a window that is out of place to its
  place (`Following`, `Arriving`), that it is on a screen with each size due (`Fitting`), and that of
  several the last is the smallest (`Falling`). The last holds because the monitor a window is
  placed on shows most of it and so has room for any smaller size. `MonitorIsBest` (what
  `MonitorFromWindow` picks) and `ConstrainedAsAdjusted` (the three steps of `place_window` are the
  adjustments of xdg_positioner) are lemmas for all inputs.

`Win32KeyProofs` – about `Win32Keyboard`, for any keys and any number of strokes, on a keyboard with one Ctrl
and at most one AltGr, if the focus is not moved and no key is sent between a press and its characters
and AltGr is not mixed with Ctrl or held when the focus is gained (`Typable`).
- `KeysAreTold` (`KeysTold`). The property speaks of a window with nothing left to process; `KeyInv` of what
  is still to come. `Leading`: the messages of the queue lead from the keyboard state of the messages
  retrieved to the keys held. `Truthful`: what the application was told, with the events that wait
  for an earlier press, the press that waits for its text and the message under way (`Outlook`),
  is that keyboard state without the Ctrl that Windows sends with an AltGr (`Meant`). `Paired` and
  `Apiece` keep the two Ctrls apart, `Queueing` and `SentInside` say which entries of the queue are
  incomplete and why, `Texts` how far a press and its characters are, `FocusTold` where the focus is.
  A focus change tells of a set of keys in an order the code leaves open, so the effect of a sequence
  of events on the keys is stated without one (`After`): the last event of a key counts.

`WebProofs` – about `WebRunner`:
- `RunnerIsFree`: `Spec => []RunnerFree`, nested iterations included, no hypotheses. `Good` says that an
  `app` frame can only be the innermost one: `send_events` pushes only when the runner is free.
- `NothingIsLeft`: `Undisturbed`, if closures sent to a window call nothing back (`"focus" \notin Closures`)
  and `visibilitychange` leads to no exit and no window (`VisibilityActs = {}`): `Watched` adds that
  while its listener is under way the canvases stay and no exit is pending.
  The invariant `Iterations` says that the stack is one iteration of which the part that is done
  is missing (`Shape`), and what each variable is by what is left on it: the exit still to be
  seen, the queue still to be drained, the timer still to be armed, the phase.
- `ImplementsLifecycle`: `Lifecycle`, if moreover no proxy is woken early (`~Early`).

About `WebAsync` without hypotheses, for any number of workers, closures and wake-ups.
- `ValueOutlivesUse` (`ValueWhileHeld`), `NoLostWakeUp` (`TasksAwake`), `NoneLostOrRepeated` (`Accounted`). Whoever adds
  work takes the waker afterwards, so a task that sleeps must have one, and a poll that has
  registered may miss only work whose author has still to wake it (`Receiver`, `Proxy`). `Handles` ties
  the counts to who holds a clone; `Numbered` counts the closures run and queued of each thread.

About `WebCursor`, if workers let go only of cursors that have loaded or failed (`EarlyDrops = FALSE`).
- `HandlerIsSound` (`HandlerSound`). The invariant says who owns a custom cursor
  (`OwnersAreKept`), which task belongs to the cursor that loads, and what an animation still needs.

`X11InputProofs` – about drags if the application does not fetch in `DataTransferReceived` and drags do
not overlap (`Courteous`; see `Chained` and `Hasty` below for what happens otherwise).
- `AnswersMatch` (`AnswerMatches`). All answers share one property of the window. `InOrder` says that at
  most one conversion is under way, that it is the one at the head of the queue, and that the
  wire and the state are those of one drag.
- `ImplementsContract`: the handlers refine `DataTransfer`, if windows are dropped between drags.

About input methods if Xlib tells of the end of a server before anything else happens and none
ends while a dropped window has its context (`Calm`; `Unseen`, `Dying`, `Late` below):
- `IsReplacedSafely` (`ReplacedSafely`), `ContextsFollowRequests` (`ContextsFollow`). A step that is about to
  rebuild the contexts finds only live windows (`Connected`, `Housed`); a window's context and its
  queued requests add up to what it asked for last (`Followed`).
- `ImeIsSound` (`ImeSound`) and `CompositionIsKept` (`CompositionKept`), if nothing else happens to windows, focus
  and server while one composes (`Sober`; `WhileComposing`, `DropComposing`). `NotWithheld` alone
  says nothing of the events that are under way. `Informed`, `Ending`, `Ongoing` and `Starting` say
  which may be: what ends a composition that is over follows what begins it, and nothing that
  would end one overtakes one that goes on.

`UIKitAppProofs` – if no deadline is set before the run, no proxy is used before the launch and
UIKit lays out no window in `proxy_wake_up` (`Regular`); TLC refutes the property named below
without each of them (`TimerArmed`, `LifecycleSpec`, `ToldBeforeWait`).
- `IsPrepared` (`Prepared`: no `bug!` arm, all told before a wait, the timer armed). The invariant says where in the
  turn of the run loop each state can be met (`Placed`, `Running`), which deadline the timer
  stands for between two transitions (`Armed`), and that a window that needs no layout has been
  told its size, or will be by the last size of it that is queued or being handed out (`Sized`).
- `ImplementsContract` (`Contract`): every step is one of `AppLifecycle` or a stutter; after
  `terminated()` every window was given `Destroyed` and no step enters the application.

`AppKitProofs` – about the loop if the proxy is not used around modal loops (`~ModalProxy`) nor before
the launch (`~EarlyProxy`).
- `IsIntact` (`Intact`). The invariant ties what winit does next to the turn of the run loop (`Placed`), `is_running`
  to the launch and to `start_time` (`Running`), the cell of the handler to the callbacks (`Held`), and
  the stop of `NSApplication` to an exit that has closed the windows (`Stopped`).
- `KeepsOrder` (`Order`): each step is one of `AppLifecycle`, the end of an exit, or a stutter.

About a window's fullscreen, on any displays, if video modes and monitors are found, entering fails at most
for a window created fullscreen, who is not careful does nothing but ask for modes, and nobody asks a window to go
from one display to another (`Modest`):
- `FullscreenIsKept` (`FullscreenAgrees`). `set_fullscreen` assigns its state before, during and after an
  animation, and puts off what it cannot do. `Goal` says which field holds the last request at
  each stage (the state, `target_fullscreen`, or what was deferred); `Single` that all of them name one display at most; `Animated`, `Covers` and `Framed` what
  the display and the frame are in each of AppKit's states; `FailsEarly` what a failed entry leaves.

About a view if the application turns the input method on or off only between its callbacks or in
those of `Reactions`, and candidates are not clicked (`Typable`; `InEnabled`, `InCommit`, `Candidates` below):
- `TypingIsHeard` (`TypingAgrees`). AppKit calls the view back in the middle of `keyDown:`, so view, application
  and input method agree at rest only. `Planned` says which calls are left by the one that is due;
  `Composed` what each of the three knows before that call (`First`, `Marking`, `Unmarking`, `Committing`,
  `Ending`, `Quiet`), given that a queued `Disabled` has still to arrive (`Tallied`); `Modified` and
  `Clicked` do the same for modifiers and for the click that activates the window.

`WaylandLoopProofs` – no hypotheses.
- `IsSound` (`Sound`: no `unwrap` fails, one frame callback is outstanding or none). Windows close and are
  dropped, by either thread, between the steps of an iteration that has listed them: `Queued`,
  `Working` and `Present` say that what it still has to visit is there, `Framed` what each
  window knows of its frame callbacks, also when it has gone.
- `ImplementsLifecycle`: `Lifecycle`, also while a window is created with a nested dispatch.

`X11LoopProofs` – no hypotheses, any finite set of windows, any fingers, all environments.
- `FocusIsFollowed` (`FocusAgrees`, which holds only when nothing is left to handle). The server is ahead
  of the event processor by what is on the wire and in Xlib's queue. `Followed` says that
  there is a history of the keyboard, one window for each event still to be seen, that
  begins where the processor is and ends where the server is: an event that is handled
  drops its first entry, one that is said adds a last one.
- `PrimaryFirst` (`PrimaryCameFirst`). `Series`: at least as many touches are counted as fingers are known
  to be down. It needs that a touch that ends began, on the same window: `Fingered` relates
  what the application knows of each finger to the touches still to be seen.
- `ImplementsLifecycle`: `Lifecycle`.

Each component's proof includes that of its type invariant (`TypeCorrectness` and its namesakes). One lemma or step per action shows
that its invariant is preserved; lemmas on sequences and stacks stand at the head of each
module. The inductive invariants were checked by TLC on the instances of the runs before
they were proved. The hypotheses are those environments in which TLC refutes the property.

Model-checked only: all liveness, and fairness in general (TLAPS 1.4.5 as set up here has no
ENABLED). No module declares a RECURSIVE operator, because the modules that reach it
would lose the SMT solver. The library's induction rules take an operator as a parameter,
which the provers cannot instantiate; where a proof needs induction over numbers it is over a
set of them, which has a least member because `<` is well-founded (`Least`, `NatSetInduction` in
`Win32Proofs`).

Next: nothing that the runs check is left unproved but liveness.

## What the code does not keep

The modules also state what the code, its comments or its documentation suggest and the
model refutes. These properties and environments are not part of a run; give a
configuration the environment (or constant value) and the property to see the
counterexample.

| Module | Environment | Property | What TLC shows |
|---|---|---|---|
| `Win32Runner` | `ControlFlows = {"Wait"}` | `ExitStops` | `exit` in `about_to_wait` blocks until the next message |
| | | `BufferedThenProcessed` | an event buffered during `RedrawRequested` waits while the loop blocks |
| | | `PanicForwarded` | a panic in `about_to_wait` or `new_events` while exiting is dropped |
| | drags | `DragOutsideCallbacks`, `SourceDragKnown` | `DoDragDrop` may start inside a callback; the inner of two drags clears `source_drag` |
| | run and pump | `NothingCarriedOver`, `RunStartsFresh` | the buffer survives `reset_runner`; a run after a pump has no startup sequence |
| `WebRunner` | `Closures` with `"focus"` | `Lifecycle`, `NoBorrowPanic` | an iteration nested in the prefetch; exit there panics |
| | `VisibilityActs` with `"exit"` or `"create"` | `NoBorrowPanic`, `Ended` | the listener of `visibilitychange` keeps `all_canvases` borrowed (`runner.rs:449`) while `Occluded` and its iteration are handled: `create_window` (242) and the end of the loop (745) panic |
| | `Early = TRUE` | `Lifecycle` | a wake-up before `can_create_surfaces` |
| | | `WindowClosedWhenDropped`, `ListenersRemoved`, `StrictLifecycle` | a dropped window is destroyed only when the loop ends; `start` installs listeners on a destroyed loop; an event follows `about_to_wait` |
| `WebAsync` | | `DispatchedRuns` | a closure still queued when the receiver's task ends is dropped |
| `WebCursor` | | `LastRequestWins`, `HiddenIsHidden` | a request made while another loads can be lost; an animation goes on showing a hidden cursor (`cursor.rs:298`) |
| `WaylandLoop` | | `CreationReturns` | a popup dismissed before its first configure (`popup.rs:222`) is waited for although `:224` says otherwise |
| | | `NoGhost` | a window whose creation fails (`window/mod.rs:193`, `popup.rs:218`) stays in the maps and gets events |
| | | `ClosedAlwaysDestroyed`, `FrameRefreshed`, `NoOrphan` | see their comments |
| `UIKitApp` | `InitialFlows` with a deadline | `TimerArmed` | a deadline set before the run is not armed: `events_cleared_transition` (`app_state.rs:199`) trusts the timer that is there |
| | `NestIn` with `"proxy"` | `ToldBeforeWait` | a size queued during `proxy_wake_up` is overtaken by the next one |
| | `EarlyProxy = TRUE` | `LifecycleSpec` | `proxy_wake_up` before `can_create_surfaces` |
| `AppKitLoop` | `QueueIn` with `"about_to_wait"` | `QueuedDelivered` | a closure queued there does not wake the loop (`main_run_loop.rs:119`) |
| | pumps | `NoWindowLingers` | an exit from a pump leaves windows (`event_loop.rs:529`) |
| | | `InOrder`, `StrictOrder` | an event overtakes a queued one; events follow `about_to_wait` |
| | `ModalProxy = TRUE` | `NoPanic` | the proxy's source, in all common modes, calls the application while it executes |
| | `EarlyProxy = TRUE` | `Order` | `wake_up` (`event_loop_proxy.rs:110`) asks for no launch: `proxy_wake_up` comes before `new_events(Init)` |
| `AppKitFullscreen` | `Twice`, `Redecorated`, `Failing`, `FailingExit`, `Dropping`, `NoMode` (`MCAppKit`) | its properties | requests close together, style changes and failures during an animation |
| | `Displaced` | `DisplayReleased` | from exclusive on one display to exclusive on another is the arm `_ => {}` (`window_delegate.rs:2037`): the first stays captured |
| | `Relabelled` | `Agreement` | a window marked `FullScreenAuxiliary` after it went fullscreen: AppKit ignores the toggle, `set_fullscreen(None)` forgets the state |
| `AppKitView` | `Candidates`, `InEnabled`, `InCommit` | its properties | toggling the input method inside `Enabled` or `Commit`; keys taken by a candidate window |
| `X11Loop` | `Tokens` | `TokenArrives` | `has_pending` does not look at activation requests (`event_loop.rs:510`) |
| | `Scaled` | `NoPanic` | a window created in `ScaleFactorChanged` finds the registry borrowed |
| | `Stale`, `Unfiltered`, `Touched` | `NoRedrawAfterDestroyed`, `FilterFollowsFocus`, `FirstIsPrimary` | redraw channel, event filter and first touch outlive a window |
| | `RoundTrips`, `RemoteDrops` | `Served` | a reply or a drop of another thread with no bound on the wait |
| `X11Dnd` | `Refusing`, `Chained`, `Hasty`, `Dropping` | `ConvertibleAnswered`, `RejectedLeaves`, `AnswerMatches`, `NoPanic` | an unsupported type ends the fetches; a fetch in `DataTransferReceived` or an overlapping drag takes another's answer; a failed `translate_coords` panics |
| `X11Ime` | `Typed` | `RequestsHeard` | a request for the input method does not wake the loop (`window.rs:2110`) nor does `has_pending` (`event_loop.rs:510`) look at it: it waits for the next X event |
| | `Dying` | `ServerUsed` | a context that cannot be created in `xim_instantiate_callback` (`callbacks.rs:157`) leaves the fallback in use |
| | `Unseen`, `Dying`, `Late`, `WhileComposing`, `DropComposing`, `Unopened` | its properties | requests and ends between Xlib's callbacks |
| `Win32Dnd` | `Keyed` | `SameAction` | the action told at the drop ignores the keys held then (`event.rs:129`) |
| | `LateAnswer`, `ModalDrop` | `NoPanic` | `set_valid_dnd_actions` in `DragDropped` borrows `drag_state` twice |
| | `ModalStart`, `Impatient`, `Failing` | `Reachable`, `OutgoingHeard`, `OwnIsOwn` | a message loop before an own drag, two own drags, a `DoDragDrop` that fails |
| `Win32Keyboard` | `StealsAnytime`, `SendsAnytime`, `HoldsAltGr`, `MixesCtrl` | its properties, `NoPhantom` | focus or messages between a press and its characters, AltGr's Ctrl |
| `Win32Popups` | `Interrupting`, `Overtaken` | `NeverGrown`, `OnScreen`, `Attached` | sizes or places set inside `Moved` while a size is due, so that the older size comes last; calls of another thread overtaken |
| | | `Follows`, `GrowsBack` | monitor and size of a placement come from the one before |

## Abstractions and limits

*Windows.* `Win32Runner` has one window. Messages are of four kinds by what they make the loop do:
become an event, not become one, run the system's modal loop, or wake a proxy. Start causes,
the rescaling of buffered scale-factor events, window creation and flags are not modelled.
`pump_app_events` has a zero timeout or a message at hand; a finite timeout is like `Poll`,
`WaitUntil` like one of the two. `Win32Dnd` leaves out COM reference counts and formats,
`Win32Keyboard` layouts, key codes and Alt+F4, whose press is not told although its release is
(`keyboard.rs:105`); a key that is held repeats. `Win32Popups` leaves out the second axis, scale factors
and minimal and maximal sizes (`WM_GETMINMAXINFO`); `SurfaceResized` is told in the middle of a reposition.

*Web.* One window and its canvas. `ScaleChange` (several callbacks from one event),
`resumed` and `suspended`, device events and every other listener are one `window_event`.
The application owns the `Window` and drops it with itself; workers use it without owning
it. In `WebRunner` a send and the wake-up of its receiver are one step, which `WebAsync` justifies
with `TasksAwake`. A `Schedule` fires once. The fallbacks of `concurrent_queue.rs` are not modelled.

*Wayland and X11.* `pump_events` of Wayland and its notifier thread, seats, sizes and the other
protocol objects are not modelled; nor are, on X11, the translation of pointer and key
events, window attributes and RandR. Servers and compositors follow their protocols. The ids
of X windows and touches are not used again.

*Apple.* AppKit and UIKit call what their documentation says, in any order it allows; the menu,
the activation policy, touches and gestures are not modelled. `request_redraw` of `UIKitApp` has one
branch: the other (`winit-uikit/src/window.rs:145`) would need the view, a `UIView`, to be of a layer's
class (543), which it never is. The
process is asked to end between callbacks only, and displays do not come and go. Fullscreen and typing are
about one window each.

*Elsewhere.* Components with status `not_modelled` say why in `PROJECT.json`.
