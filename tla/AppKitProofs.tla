---- MODULE AppKitProofs ----
(*
What is proved of winit-appkit.  First AppKitLoop, for any windows, any
number of runs and acts, and whichever callbacks queue closures.

Inv relates, beside the types,
  - Placed: what winit does next, to where the run loop is;
  - Running: is_running to is_launched and to the run loop, so that an
    observer that does not return at once finds the start_time;
  - Held: the cell of the handler to the callback that runs and to the
    call of the application, and that nothing is signalled while a
    modal loop runs;
  - Told: the phase of the application to all of these;
  - Stopped: in run_app_on_demand only an exit stops NSApplication, and
    the windows are closed before it does.

The theorems assume ~ModalProxy: TLC finds NoPanic violated when the
proxy is used while a modal loop runs in a callback (its source is in
all common modes and calls the application, which executes).  They
assume ~EarlyProxy, too: TLC finds Order violated when the proxy is
used before the launch, since its source calls the application as soon
as NSApplication runs.

Then the fullscreen of a window, for any environments in which video
modes are found, entering fails only for a window that is created
fullscreen, only who asks with care does more than ask for modes, and
nobody asks a window to go from one display to another.
What the delegate remembers is tied to what AppKit shows (Animated), to
the display it has (Covers) and to the style put aside (Framed); Goal
is the mode the window heads for, through what was put off, kept for
the end of an animation, or under way, and is what was asked for last.

Last the keyboard of a view, for any environments in which the input
method is turned on or off where winit keeps up with that, and nobody
clicks on candidates (Typable).  Planned is what may be left to do of a
method AppKit called; Composed says, by the method that is due, what
the view, the application and the input method know of a composition,
and what has been said of the key.
*)
EXTENDS MCAppKit, Sequences, SequenceTheorems, TLAPS

\* Where winit is, by where the run loop is.
Placed ==
  /\ pc = "idle" => at # "before"
  /\ pc \in {"begin", "init", "inited"} =>
       \/ at = "sources" /\ then = "launch"
       \/ at = "out" /\ then \in {"run", "return"}
  /\ pc \in {"redraws", "cleared", "arm"} => at = "before"
  /\ pc = "closing" => \/ at = "before" /\ then = "arm"
                       \/ at = "sources" /\ then = "terminate"
  /\ pc = "drawn" => at = "sources"

\* The event loop runs from the launch on wherever NSApplication does.
Running ==
  /\ running => launched /\ at # "gone"
  /\ launched /\ at \in {"sources", "before", "sleep"} => running
  /\ pc # "idle" => running
  /\ at = "sleep" /\ running => started
  /\ ~running => inside = "none"
  /\ ~launched => open = {} /\ ~signalled /\ blocks = 0

\* Who has the application, and that a modal loop has nothing to call it for.
Held ==
  /\ panicked = FALSE
  /\ handler = "in use" <=> inside # "none"
  /\ handler = "unset" <=> at = "gone" \/ (at = "out" /\ pc = "idle")
  /\ modal # "no" => inside # "none" /\ ~signalled

\* What the application was last told of the loop.
Closed == at = "sleep" \/ (at = "before" /\ pc # "redraws")
Told ==
  /\ ~running /\ at # "gone" => phase = "Off"
  /\ pc = "begin" => phase = "Off" /\ inside = "none"
  /\ pc = "init" => phase = "Init"
  /\ pc = "inited" => phase = "Awake"
  /\ running /\ pc \notin {"begin", "init", "inited"} =>
       /\ Closed => phase = "Asleep"
       /\ ~Closed => phase = "Awake"

\* What stops NSApplication in a run_app_on_demand, and with which windows.
Stopped ==
  mode = "run" =>
    /\ stop_on_launch = FALSE /\ stop_before_wait = FALSE
    /\ stop_after_wait = FALSE /\ stop_on_redraw = FALSE
    /\ pc \in {"begin", "init", "inited"} => then # "return"
    /\ at = "out" /\ pc = "idle" => ~running
    /\ stop /\ at \in {"sources", "before", "sleep"} => exit /\ (pc = "closing" \/ open = {})
    /\ phase = "Off" => open = {}

\* The parts of TypeOK.
Flags ==
  /\ launched \in BOOLEAN /\ running \in BOOLEAN /\ exit \in BOOLEAN /\ started \in BOOLEAN
  /\ stop \in BOOLEAN /\ woken \in BOOLEAN /\ signalled \in BOOLEAN
  /\ stop_on_launch \in BOOLEAN /\ stop_before_wait \in BOOLEAN
  /\ stop_after_wait \in BOOLEAN /\ stop_on_redraw \in BOOLEAN
  /\ wait_timeout \in BOOLEAN /\ tracking \in BOOLEAN
Places ==
  /\ mode \in {"run", "pump"} /\ at \in {"out", "sources", "before", "sleep", "gone"}
  /\ modal \in {"no", "sources", "sleep"}
  /\ pc \in {"idle", "begin", "init", "inited", "drawn", "redraws", "cleared",
             "closing", "arm"}
  /\ then \in {"launch", "run", "return", "arm", "terminate"}
Calls ==
  /\ inside \in {"none", "new_events_init", "can_create_surfaces", "new_events",
                 "event", "proxy", "redraw", "about_to_wait", "destroyed"}
  /\ phase \in {"Off", "Init", "Awake", "Asleep"} /\ handler \in HandlerStates
  /\ flow \in {"poll", "wait", "until"} /\ timer \in {"off", "now", "later"}
Stores ==
  /\ pending \subseteq Windows /\ work \subseteq Windows /\ open \subseteq Windows
\* A closure is queued by an operation.
Counted == /\ blocks \in Nat /\ ops \in 0 .. MaxOps /\ runs \in 0 .. MaxRuns
           /\ blocks <= ops

Types == Flags /\ Places /\ Calls /\ Stores /\ Counted
Control == Placed /\ Running /\ Held /\ Told /\ Stopped
Inv == Types /\ Control

----
(* Types *)

\* The types are part of the invariant.
LEMMA Parts == Inv => TypeOK
<1> SUFFICES ASSUME Inv PROVE TypeOK
  OBVIOUS
<1>1. blocks \in 0 .. MaxOps
  BY AppKitAssumption DEF Inv, Types, Counted
<1>2. {launched, running, exit, started, stop, woken, signalled, panicked,
       stop_on_launch, stop_before_wait, stop_after_wait, stop_on_redraw} \subseteq BOOLEAN
  BY DEF Inv, Types, Flags, Control, Held
<1> QED BY <1>1, <1>2 DEF Inv, Types, TypeOK, Flags, Places, Calls, Stores, Counted

\* The counters are numbers.
LEMMA CountedIs ==
  ASSUME Counted
  PROVE  ops \in Nat /\ blocks \in Nat /\ blocks <= ops
BY AppKitAssumption DEF Counted

\* An operation is counted, and may queue one closure.
LEMMA OpCounted ==
  ASSUME Counted, Op
  PROVE  ops' \in 0 .. MaxOps /\ ops' = ops + 1
BY AppKitAssumption DEF Op, Counted

\* While NSApplication runs, or its call does, the application is there.
LEMMA Available ==
  ASSUME Inv, inside = "none", at # "gone", at # "out" \/ pc # "idle"
  PROVE  handler = "available"
<1>1. handler # "unset" /\ handler # "in use"
  BY DEF Inv, Control, Held
<1> QED BY <1>1 DEF Inv, Types, Calls, HandlerStates

----
(* Each action keeps the invariant *)

\* dispatch_init_events calls the application, which is there.
LEMMA InitEventsInv ==
  ASSUME ~ModalProxy, Inv, InitEvents
  PROVE  Inv'
<1>1. UNCHANGED <<mode, at, modal, tracking, then, launched, running, exit, started,
                stop_on_launch, stop_before_wait, stop_after_wait, stop_on_redraw, stop,
                flow, wait_timeout, timer, woken, signalled, pending, work, blocks, open,
                ops, runs>>
  BY DEF InitEvents, flag_vars, run_vars, wake_vars, redraw_vars, place_vars
<1>2. /\ pc = "begin" /\ inside = "none" /\ pc' = "init"
      /\ inside' = "new_events_init" /\ phase' = "Init" /\ handler' = "in use" /\ panicked' = FALSE
  <2>1. pc = "begin" /\ inside = "none" /\ at # "gone"
    BY DEF InitEvents, Continue, Inv, Control, Placed
  <2>2. handler = "available"
    BY <2>1, Available
  <2> QED BY <2>1, <2>2 DEF InitEvents, With, Enter, Ready, HandlePanics, InUse
<1>3. Flags'
  BY <1>1 DEF Inv, Types, Flags
<1>4. Places'
  BY <1>1, <1>2 DEF Inv, Types, Places
<1>5. Calls'
  BY <1>1, <1>2 DEF Inv, Types, Calls, HandlerStates
<1>6. Stores'
  BY <1>1, <1>2 DEF Inv, Types, Stores
<1>7. Counted'
  BY <1>1, <1>2 DEF Inv, Types, Counted
<1>8. Placed'
  BY <1>1, <1>2 DEF Inv, Control, Types, Flags, Placed, Running
<1>9. Running'
  BY <1>1, <1>2 DEF Inv, Control, Types, Flags, Placed, Running, Held, Told
<1>10. Held'
  BY <1>1, <1>2 DEF Inv, Control, Types, Flags, Placed, Running, Held
<1>11. Told'
  BY <1>1, <1>2 DEF Inv, Control, Types, Flags, Placed, Running, Held, Told, Closed, Stopped
<1>12. Stopped'
  BY <1>1, <1>2 DEF Inv, Control, Types, Flags, Placed, Running, Held, Told, Stopped, Closed
<1> QED BY <1>3, <1>4, <1>5, <1>6, <1>7, <1>8, <1>9, <1>10, <1>11, <1>12 DEF Inv, Types, Control

\* It is in phase Init that can_create_surfaces comes.
LEMMA CanCreateSurfacesInv ==
  ASSUME ~ModalProxy, Inv, CanCreateSurfaces
  PROVE  Inv'
<1>1. UNCHANGED <<mode, at, modal, tracking, then, launched, running, exit, started,
                stop_on_launch, stop_before_wait, stop_after_wait, stop_on_redraw, stop,
                flow, wait_timeout, timer, woken, signalled, pending, work, blocks, open,
                ops, runs>>
  BY DEF CanCreateSurfaces, flag_vars, run_vars, wake_vars, redraw_vars, place_vars
<1>2. /\ pc = "init" /\ inside = "none" /\ pc' = "inited"
      /\ inside' = "can_create_surfaces" /\ phase' = "Awake" /\ handler' = "in use" /\ panicked' = FALSE
  <2>1. pc = "init" /\ inside = "none" /\ at # "gone"
    BY DEF CanCreateSurfaces, Continue, Inv, Control, Placed
  <2>2. handler = "available"
    BY <2>1, Available
  <2> QED BY <2>1, <2>2 DEF CanCreateSurfaces, With, Enter, Ready, HandlePanics, InUse
<1>3. Flags'
  BY <1>1 DEF Inv, Types, Flags
<1>4. Places'
  BY <1>1, <1>2 DEF Inv, Types, Places
<1>5. Calls'
  BY <1>1, <1>2 DEF Inv, Types, Calls, HandlerStates
<1>6. Stores'
  BY <1>1, <1>2 DEF Inv, Types, Stores
<1>7. Counted'
  BY <1>1, <1>2 DEF Inv, Types, Counted
<1>8. Placed'
  BY <1>1, <1>2 DEF Inv, Control, Types, Flags, Placed, Running
<1>9. Running'
  BY <1>1, <1>2 DEF Inv, Control, Types, Flags, Placed, Running, Held, Told
<1>10. Held'
  BY <1>1, <1>2 DEF Inv, Control, Types, Flags, Placed, Running, Held
<1>11. Told'
  BY <1>1, <1>2 DEF Inv, Control, Types, Flags, Placed, Running, Held, Told, Closed, Stopped
<1>12. Stopped'
  BY <1>1, <1>2 DEF Inv, Control, Types, Flags, Placed, Running, Held, Told, Stopped, Closed
<1> QED BY <1>3, <1>4, <1>5, <1>6, <1>7, <1>8, <1>9, <1>10, <1>11, <1>12 DEF Inv, Types, Control

\* NSApplication goes on, or stops after the launch of a pump.
LEMMA InitialisedInv ==
  ASSUME ~ModalProxy, Inv, Initialised
  PROVE  Inv'
<1>1. UNCHANGED <<mode, modal, tracking, then, inside, phase, handler, launched, running,
                exit, started, stop_on_launch, stop_before_wait, stop_after_wait,
                stop_on_redraw, flow, wait_timeout, timer, woken, signalled, pending, work,
                blocks, open, panicked, ops, runs>>
  BY DEF Initialised, flag_vars, run_vars, wake_vars, redraw_vars
<1>2. /\ pc = "inited" /\ inside = "none" /\ then \in {"launch", "run"}
      /\ pc' = "idle" /\ at' = "sources"
      /\ stop' = (then = "launch" /\ stop_on_launch)
  BY AppKitAssumption DEF Initialised, Continue
<1>3. Flags'
  BY <1>1, <1>2 DEF Inv, Types, Flags
<1>4. Places'
  BY <1>1, <1>2 DEF Inv, Types, Places
<1>5. Calls'
  BY <1>1, <1>2 DEF Inv, Types, Calls
<1>6. Stores'
  BY <1>1, <1>2 DEF Inv, Types, Stores
<1>7. Counted'
  BY <1>1, <1>2 DEF Inv, Types, Counted
<1>8. Placed'
  BY <1>1, <1>2 DEF Inv, Control, Types, Flags, Placed, Running
<1>9. Running'
  BY <1>1, <1>2 DEF Inv, Control, Types, Flags, Placed, Running, Held, Told
<1>10. Held'
  BY <1>1, <1>2 DEF Inv, Control, Types, Flags, Placed, Running, Held
<1>11. Told'
  BY <1>1, <1>2 DEF Inv, Control, Types, Flags, Placed, Running, Held, Told, Closed, Stopped
<1>12. Stopped'
  BY <1>1, <1>2 DEF Inv, Control, Types, Flags, Placed, Running, Held, Told, Stopped, Closed
<1> QED BY <1>3, <1>4, <1>5, <1>6, <1>7, <1>8, <1>9, <1>10, <1>11, <1>12 DEF Inv, Types, Control

\* cleared redraws a window.
LEMMA RedrawWindowInv ==
  ASSUME ~ModalProxy, Inv, RedrawWindow
  PROVE  Inv'
<1>1. UNCHANGED <<mode, at, modal, tracking, pc, then, launched, running, exit, started,
                stop_on_launch, stop_before_wait, stop_after_wait, stop_on_redraw, stop,
                flow, wait_timeout, timer, woken, signalled, pending, blocks, open, ops,
                runs>>
  BY DEF RedrawWindow, flag_vars, run_vars, wake_vars, place_vars
<1>2. /\ pc = "redraws" /\ inside = "none" /\ work' \subseteq work
      /\ inside' = "redraw" /\ phase' = phase /\ handler' = "in use" /\ panicked' = FALSE
  BY AppKitAssumption DEF RedrawWindow, Inv, Control, Held, Types, Calls, HandlerStates, Continue, With,
         Enter, Ready, HandlePanics, InUse, Placed
<1>3. Flags'
  BY <1>1 DEF Inv, Types, Flags
<1>4. Places'
  BY <1>1, <1>2 DEF Inv, Types, Places
<1>5. Calls'
  BY <1>1, <1>2 DEF Inv, Types, Calls, HandlerStates
<1>6. Stores'
  BY <1>1, <1>2 DEF Inv, Types, Stores
<1>7. Counted'
  BY <1>1, <1>2 DEF Inv, Types, Counted
<1>8. Placed'
  BY <1>1, <1>2 DEF Inv, Control, Types, Flags, Placed, Running
<1>9. Running'
  BY <1>1, <1>2 DEF Inv, Control, Types, Flags, Placed, Running, Held, Told
<1>10. Held'
  BY <1>1, <1>2 DEF Inv, Control, Types, Flags, Placed, Running, Held
<1>11. Told'
  BY <1>1, <1>2 DEF Inv, Control, Types, Flags, Placed, Running, Held, Told, Closed, Stopped
<1>12. Stopped'
  BY <1>1, <1>2 DEF Inv, Control, Types, Flags, Placed, Running, Held, Told, Stopped, Closed
<1> QED BY <1>3, <1>4, <1>5, <1>6, <1>7, <1>8, <1>9, <1>10, <1>11, <1>12 DEF Inv, Types, Control

\* cleared ends an iteration.
LEMMA AboutToWaitInv ==
  ASSUME ~ModalProxy, Inv, AboutToWait
  PROVE  Inv'
<1>1. UNCHANGED <<mode, at, modal, tracking, then, launched, running, exit, started,
                stop_on_launch, stop_before_wait, stop_after_wait, stop_on_redraw, stop,
                flow, wait_timeout, timer, woken, signalled, pending, work, blocks, open,
                ops, runs>>
  BY DEF AboutToWait, flag_vars, run_vars, wake_vars, redraw_vars, place_vars
<1>2. /\ pc = "redraws" /\ inside = "none" /\ pc' = "cleared"
      /\ inside' = "about_to_wait" /\ phase' = "Asleep" /\ handler' = "in use" /\ panicked' = FALSE
  BY AppKitAssumption DEF AboutToWait, Inv, Control, Held, Types, Calls, HandlerStates, Continue, With,
         Enter, Ready, HandlePanics, InUse, Placed
<1>3. Flags'
  BY <1>1 DEF Inv, Types, Flags
<1>4. Places'
  BY <1>1, <1>2 DEF Inv, Types, Places
<1>5. Calls'
  BY <1>1, <1>2 DEF Inv, Types, Calls, HandlerStates
<1>6. Stores'
  BY <1>1, <1>2 DEF Inv, Types, Stores
<1>7. Counted'
  BY <1>1, <1>2 DEF Inv, Types, Counted
<1>8. Placed'
  BY <1>1, <1>2 DEF Inv, Control, Types, Flags, Placed, Running
<1>9. Running'
  BY <1>1, <1>2 DEF Inv, Control, Types, Flags, Placed, Running, Held, Told
<1>10. Held'
  BY <1>1, <1>2 DEF Inv, Control, Types, Flags, Placed, Running, Held
<1>11. Told'
  BY <1>1, <1>2 DEF Inv, Control, Types, Flags, Placed, Running, Held, Told, Closed, Stopped
<1>12. Stopped'
  BY <1>1, <1>2 DEF Inv, Control, Types, Flags, Placed, Running, Held, Told, Stopped, Closed
<1> QED BY <1>3, <1>4, <1>5, <1>6, <1>7, <1>8, <1>9, <1>10, <1>11, <1>12 DEF Inv, Types, Control

\* An exit stops the application; its windows are to be closed.
LEMMA ExitingInv ==
  ASSUME ~ModalProxy, Inv, Exiting
  PROVE  Inv'
<1>1. UNCHANGED <<mode, at, modal, tracking, inside, phase, handler, launched, running,
                exit, started, stop_on_launch, stop_before_wait, stop_after_wait,
                stop_on_redraw, flow, wait_timeout, timer, woken, signalled, pending, work,
                blocks, open, panicked, ops, runs>>
  BY DEF Exiting, flag_vars, run_vars, wake_vars, redraw_vars, place_vars
<1>2. /\ pc = "cleared" /\ inside = "none"
      /\ stop' = (stop \/ exit) /\ then' = "arm"
      /\ (exit = TRUE /\ pc' = "closing") \/ (exit = FALSE /\ pc' = "arm")
  BY AppKitAssumption DEF Exiting, Continue, Inv, Types, Flags
<1>3. Flags'
  BY <1>1, <1>2 DEF Inv, Types, Flags
<1>4. Places'
  BY <1>1, <1>2 DEF Inv, Types, Places
<1>5. Calls'
  BY <1>1, <1>2 DEF Inv, Types, Calls
<1>6. Stores'
  BY <1>1, <1>2 DEF Inv, Types, Stores
<1>7. Counted'
  BY <1>1, <1>2 DEF Inv, Types, Counted
<1>8. Placed'
  BY <1>1, <1>2 DEF Inv, Control, Types, Flags, Placed, Running
<1>9. Running'
  BY <1>1, <1>2 DEF Inv, Control, Types, Flags, Placed, Running, Held, Told
<1>10. Held'
  BY <1>1, <1>2 DEF Inv, Control, Types, Flags, Placed, Running, Held
<1>11. Told'
  BY <1>1, <1>2 DEF Inv, Control, Types, Flags, Placed, Running, Held, Told, Closed, Stopped
<1>12. Stopped'
  BY <1>1, <1>2 DEF Inv, Control, Types, Flags, Placed, Running, Held, Told, Stopped, Closed
<1> QED BY <1>3, <1>4, <1>5, <1>6, <1>7, <1>8, <1>9, <1>10, <1>11, <1>12 DEF Inv, Types, Control

\* A window is closed; the application is not busy and is told at once.
LEMMA CloseWindowInv ==
  ASSUME ~ModalProxy, Inv, CloseWindow
  PROVE  Inv'
<1>1. UNCHANGED <<mode, at, modal, tracking, pc, then, launched, running, exit, started,
                stop_on_launch, stop_before_wait, stop_after_wait, stop_on_redraw, stop,
                flow, wait_timeout, timer, woken, signalled, pending, work, ops, runs>>
  BY DEF CloseWindow, flag_vars, run_vars, wake_vars, redraw_vars, place_vars
<1>2. /\ pc = "closing" /\ inside = "none" /\ open' \subseteq open /\ blocks' = blocks
      /\ inside' = "destroyed" /\ phase' = phase /\ handler' = "in use" /\ panicked' = FALSE
  BY AppKitAssumption DEF CloseWindow, Inv, Control, Held, Types, Calls, HandlerStates, Continue, With,
         Enter, Ready, HandlePanics, InUse, MaybeQueue, Placed
<1>3. Flags'
  BY <1>1 DEF Inv, Types, Flags
<1>4. Places'
  BY <1>1, <1>2 DEF Inv, Types, Places
<1>5. Calls'
  BY <1>1, <1>2 DEF Inv, Types, Calls, HandlerStates
<1>6. Stores'
  BY <1>1, <1>2 DEF Inv, Types, Stores
<1>7. Counted'
  BY <1>1, <1>2 DEF Inv, Types, Counted
<1>8. Placed'
  BY <1>1, <1>2 DEF Inv, Control, Types, Flags, Placed, Running
<1>9. Running'
  BY <1>1, <1>2 DEF Inv, Control, Types, Flags, Placed, Running, Held, Told
<1>10. Held'
  BY <1>1, <1>2 DEF Inv, Control, Types, Flags, Placed, Running, Held
<1>11. Told'
  BY <1>1, <1>2 DEF Inv, Control, Types, Flags, Placed, Running, Held, Told, Closed, Stopped
<1>12. Stopped'
  BY <1>1, <1>2 DEF Inv, Control, Types, Flags, Placed, Running, Held, Told, Stopped, Closed
<1> QED BY <1>3, <1>4, <1>5, <1>6, <1>7, <1>8, <1>9, <1>10, <1>11, <1>12 DEF Inv, Types, Control

\* No window is left.
LEMMA WindowsClosedInv ==
  ASSUME ~ModalProxy, Inv, WindowsClosed
  PROVE  Inv'
<1>1. UNCHANGED <<mode, at, modal, tracking, then, inside, phase, handler, launched,
                running, exit, started, stop_on_launch, stop_before_wait, stop_after_wait,
                stop_on_redraw, stop, flow, wait_timeout, timer, woken, signalled, pending,
                work, blocks, open, panicked, ops, runs>>
  BY DEF WindowsClosed, flag_vars, run_vars, wake_vars, redraw_vars, place_vars
<1>2. pc = "closing" /\ inside = "none" /\ open = {} /\ then = "arm" /\ pc' = "arm"
  BY AppKitAssumption DEF WindowsClosed, Continue
<1>3. Flags'
  BY <1>1 DEF Inv, Types, Flags
<1>4. Places'
  BY <1>1, <1>2 DEF Inv, Types, Places
<1>5. Calls'
  BY <1>1, <1>2 DEF Inv, Types, Calls
<1>6. Stores'
  BY <1>1, <1>2 DEF Inv, Types, Stores
<1>7. Counted'
  BY <1>1, <1>2 DEF Inv, Types, Counted
<1>8. Placed'
  BY <1>1, <1>2 DEF Inv, Control, Types, Flags, Placed, Running
<1>9. Running'
  BY <1>1, <1>2 DEF Inv, Control, Types, Flags, Placed, Running, Held, Told
<1>10. Held'
  BY <1>1, <1>2 DEF Inv, Control, Types, Flags, Placed, Running, Held
<1>11. Told'
  BY <1>1, <1>2 DEF Inv, Control, Types, Flags, Placed, Running, Held, Told, Closed, Stopped
<1>12. Stopped'
  BY <1>1, <1>2 DEF Inv, Control, Types, Flags, Placed, Running, Held, Told, Stopped, Closed
<1> QED BY <1>3, <1>4, <1>5, <1>6, <1>7, <1>8, <1>9, <1>10, <1>11, <1>12 DEF Inv, Types, Control

\* The waker is armed, and the loop sleeps.
LEMMA ArmInv ==
  ASSUME ~ModalProxy, Inv, Arm
  PROVE  Inv'
<1>1. UNCHANGED <<mode, modal, tracking, then, inside, phase, handler, launched, running,
                exit, stop_on_launch, stop_before_wait, stop_after_wait, stop_on_redraw,
                flow, wait_timeout, woken, signalled, pending, work, blocks, open,
                panicked, ops, runs>>
  BY DEF Arm, flag_vars, redraw_vars
<1>2. /\ pc = "arm" /\ inside = "none" /\ stop' = (stop \/ stop_before_wait) /\ started' = TRUE
      /\ at' = "sleep" /\ pc' = "idle" /\ timer' \in {"off", "now", "later"}
  BY AppKitAssumption DEF Arm, Continue, MinTimeout
<1>3. Flags'
  BY <1>1, <1>2 DEF Inv, Types, Flags
<1>4. Places'
  BY <1>1, <1>2 DEF Inv, Types, Places
<1>5. Calls'
  BY <1>1, <1>2 DEF Inv, Types, Calls
<1>6. Stores'
  BY <1>1, <1>2 DEF Inv, Types, Stores
<1>7. Counted'
  BY <1>1, <1>2 DEF Inv, Types, Counted
<1>8. Placed'
  BY <1>1, <1>2 DEF Inv, Control, Types, Flags, Placed, Running
<1>9. Running'
  BY <1>1, <1>2 DEF Inv, Control, Types, Flags, Placed, Running, Held, Told
<1>10. Held'
  BY <1>1, <1>2 DEF Inv, Control, Types, Flags, Placed, Running, Held
<1>11. Told'
  BY <1>1, <1>2 DEF Inv, Control, Types, Flags, Placed, Running, Held, Told, Closed, Stopped
<1>12. Stopped'
  BY <1>1, <1>2 DEF Inv, Control, Types, Flags, Placed, Running, Held, Told, Stopped, Closed
<1> QED BY <1>3, <1>4, <1>5, <1>6, <1>7, <1>8, <1>9, <1>10, <1>11, <1>12 DEF Inv, Types, Control

\* handle_redraw ends, and with it the run of a pump.
LEMMA RedrawHandledInv ==
  ASSUME ~ModalProxy, Inv, RedrawHandled
  PROVE  Inv'
<1>1. UNCHANGED <<mode, at, modal, tracking, then, inside, phase, handler, launched,
                running, exit, started, stop_on_launch, stop_before_wait, stop_after_wait,
                stop_on_redraw, flow, wait_timeout, timer, woken, signalled, pending, work,
                blocks, open, panicked, ops, runs>>
  BY DEF RedrawHandled, flag_vars, run_vars, wake_vars, redraw_vars, place_vars
<1>2. pc = "drawn" /\ inside = "none" /\ pc' = "idle" /\ stop' = (stop \/ stop_on_redraw)
  BY AppKitAssumption DEF RedrawHandled, Continue
<1>3. Flags'
  BY <1>1, <1>2 DEF Inv, Types, Flags
<1>4. Places'
  BY <1>1, <1>2 DEF Inv, Types, Places
<1>5. Calls'
  BY <1>1, <1>2 DEF Inv, Types, Calls
<1>6. Stores'
  BY <1>1, <1>2 DEF Inv, Types, Stores
<1>7. Counted'
  BY <1>1, <1>2 DEF Inv, Types, Counted
<1>8. Placed'
  BY <1>1, <1>2 DEF Inv, Control, Types, Flags, Placed, Running
<1>9. Running'
  BY <1>1, <1>2 DEF Inv, Control, Types, Flags, Placed, Running, Held, Told
<1>10. Held'
  BY <1>1, <1>2 DEF Inv, Control, Types, Flags, Placed, Running, Held
<1>11. Told'
  BY <1>1, <1>2 DEF Inv, Control, Types, Flags, Placed, Running, Held, Told, Closed, Stopped
<1>12. Stopped'
  BY <1>1, <1>2 DEF Inv, Control, Types, Flags, Placed, Running, Held, Told, Stopped, Closed
<1> QED BY <1>3, <1>4, <1>5, <1>6, <1>7, <1>8, <1>9, <1>10, <1>11, <1>12 DEF Inv, Types, Control

\* will_terminate drops the application.
LEMMA TerminatedInv ==
  ASSUME ~ModalProxy, Inv, Terminated
  PROVE  Inv'
<1>1. UNCHANGED <<mode, modal, tracking, then, inside, phase, launched, exit, started,
                stop_on_launch, stop, flow, timer, woken, signalled, pending, work, blocks,
                open, panicked, ops, runs>>
  BY DEF Terminated, redraw_vars
<1>2. /\ pc = "closing" /\ inside = "none" /\ open = {} /\ then = "terminate"
      /\ at' = "gone" /\ pc' = "idle" /\ handler' = "unset" /\ running' = FALSE
      /\ stop_on_redraw' = FALSE /\ stop_before_wait' = FALSE /\ stop_after_wait' = FALSE
      /\ wait_timeout' = FALSE
  BY AppKitAssumption DEF Terminated, Continue, Terminate, InternalExit
<1>3. Flags'
  BY <1>1, <1>2 DEF Inv, Types, Flags
<1>4. Places'
  BY <1>1, <1>2 DEF Inv, Types, Places
<1>5. Calls'
  BY <1>1, <1>2 DEF Inv, Types, Calls, HandlerStates
<1>6. Stores'
  BY <1>1, <1>2 DEF Inv, Types, Stores
<1>7. Counted'
  BY <1>1, <1>2 DEF Inv, Types, Counted
<1>8. Placed'
  BY <1>1, <1>2 DEF Inv, Control, Types, Flags, Placed, Running
<1>9. Running'
  BY <1>1, <1>2 DEF Inv, Control, Types, Flags, Placed, Running, Held, Told
<1>10. Held'
  BY <1>1, <1>2 DEF Inv, Control, Types, Flags, Placed, Running, Held
<1>11. Told'
  BY <1>1, <1>2 DEF Inv, Control, Types, Flags, Placed, Running, Held, Told, Closed, Stopped
<1>12. Stopped'
  BY <1>1, <1>2 DEF Inv, Control, Types, Flags, Placed, Running, Held, Told, Stopped, Closed
<1> QED BY <1>3, <1>4, <1>5, <1>6, <1>7, <1>8, <1>9, <1>10, <1>11, <1>12 DEF Inv, Types, Control

\* A callback returns.
LEMMA CallbackReturnsInv ==
  ASSUME ~ModalProxy, Inv, CallbackReturns
  PROVE  Inv'
<1>1. UNCHANGED <<mode, at, modal, tracking, pc, phase, then, launched, running, exit,
                started, stop_on_launch, stop_before_wait, stop_after_wait, stop_on_redraw,
                stop, flow, wait_timeout, timer, woken, signalled, pending, work, blocks,
                open, panicked, ops, runs>>
  BY DEF CallbackReturns, flag_vars, run_vars, wake_vars, redraw_vars, place_vars
<1>2. /\ inside # "none" /\ inside' = "none" /\ modal = "no"
      /\ handler = "in use" /\ handler' = "available"
  BY AppKitAssumption DEF CallbackReturns, Inside, Leave, InUse
<1>3. Flags'
  BY <1>1 DEF Inv, Types, Flags
<1>4. Places'
  BY <1>1, <1>2 DEF Inv, Types, Places
<1>5. Calls'
  BY <1>1, <1>2 DEF Inv, Types, Calls, HandlerStates
<1>6. Stores'
  BY <1>1, <1>2 DEF Inv, Types, Stores
<1>7. Counted'
  BY <1>1, <1>2 DEF Inv, Types, Counted
<1>8. Placed'
  BY <1>1, <1>2 DEF Inv, Control, Types, Flags, Placed, Running
<1>9. Running'
  BY <1>1, <1>2 DEF Inv, Control, Types, Flags, Placed, Running, Held, Told
<1>10. Held'
  BY <1>1, <1>2 DEF Inv, Control, Types, Flags, Placed, Running, Held
<1>11. Told'
  BY <1>1, <1>2 DEF Inv, Control, Types, Flags, Placed, Running, Held, Told, Closed, Stopped
<1>12. Stopped'
  BY <1>1, <1>2 DEF Inv, Control, Types, Flags, Placed, Running, Held, Told, Stopped, Closed
<1> QED BY <1>3, <1>4, <1>5, <1>6, <1>7, <1>8, <1>9, <1>10, <1>11, <1>12 DEF Inv, Types, Control

\* The launch.
LEMMA DidFinishLaunchingInv ==
  ASSUME ~ModalProxy, Inv, DidFinishLaunching
  PROVE  Inv'
<1>1. UNCHANGED <<mode, at, modal, tracking, inside, phase, handler, exit, started,
                stop_on_launch, stop_before_wait, stop_after_wait, stop_on_redraw, stop,
                flow, wait_timeout, woken, signalled, pending, work, blocks, open,
                panicked, ops, runs>>
  BY DEF DidFinishLaunching, flag_vars, redraw_vars, place_vars
<1>2. /\ at = "sources" /\ pc = "idle" /\ inside = "none" /\ launched = FALSE
      /\ launched' = TRUE /\ timer' = "now" /\ running' = TRUE /\ pc' = "begin" /\ then' = "launch"
  BY AppKitAssumption DEF DidFinishLaunching, Loop, Inv, Types, Flags
<1>3. Flags'
  BY <1>1, <1>2 DEF Inv, Types, Flags
<1>4. Places'
  BY <1>1, <1>2 DEF Inv, Types, Places
<1>5. Calls'
  BY <1>1, <1>2 DEF Inv, Types, Calls
<1>6. Stores'
  BY <1>1, <1>2 DEF Inv, Types, Stores
<1>7. Counted'
  BY <1>1, <1>2 DEF Inv, Types, Counted
<1>8. Placed'
  BY <1>1, <1>2 DEF Inv, Control, Types, Flags, Placed, Running
<1>9. Running'
  BY <1>1, <1>2 DEF Inv, Control, Types, Flags, Placed, Running, Held, Told
<1>10. Held'
  BY <1>1, <1>2 DEF Inv, Control, Types, Flags, Placed, Running, Held
<1>11. Told'
  BY <1>1, <1>2 DEF Inv, Control, Types, Flags, Placed, Running, Held, Told, Closed, Stopped
<1>12. Stopped'
  BY <1>1, <1>2 DEF Inv, Control, Types, Flags, Placed, Running, Held, Told, Stopped, Closed
<1> QED BY <1>3, <1>4, <1>5, <1>6, <1>7, <1>8, <1>9, <1>10, <1>11, <1>12 DEF Inv, Types, Control

\* The observer cleared: it takes the redraws, unless no event loop runs.
LEMMA BeforeWaitingInv ==
  ASSUME ~ModalProxy, Inv, BeforeWaiting
  PROVE  Inv'
<1>1. UNCHANGED <<mode, modal, tracking, inside, phase, handler, then, launched, running,
                exit, started, stop_on_launch, stop_before_wait, stop_after_wait,
                stop_on_redraw, stop, flow, wait_timeout, timer, woken, signalled, blocks,
                open, panicked, ops, runs>>
  BY DEF BeforeWaiting, flag_vars, run_vars, wake_vars
<1>2. /\ at = "sources" /\ pc = "idle" /\ inside = "none"
      /\ work' \subseteq Windows /\ pending' \subseteq Windows
      /\ \/ running = TRUE /\ pc' = "redraws" /\ at' = "before"
         \/ running = FALSE /\ pc' = "idle" /\ at' = "sleep"
  <2>1. at = "sources" /\ pc = "idle" /\ inside = "none" /\ running \in BOOLEAN
    BY DEF BeforeWaiting, Loop, Inv, Types, Flags
  <2>2. handler = "available"
    BY <2>1, Available
  <2>3. CASE running = TRUE
    BY <2>1, <2>2, <2>3 DEF BeforeWaiting, Cleared, Skips, Ready, Inv, Types, Stores
  <2>4. CASE running = FALSE
    BY <2>1, <2>2, <2>4 DEF BeforeWaiting, Cleared, Skips, Ready, redraw_vars, Inv, Types, Stores
  <2> QED BY <2>1, <2>3, <2>4
<1>3. Flags'
  BY <1>1 DEF Inv, Types, Flags
<1>4. Places'
  BY <1>1, <1>2 DEF Inv, Types, Places
<1>5. Calls'
  BY <1>1, <1>2 DEF Inv, Types, Calls
<1>6. Stores'
  BY <1>1, <1>2 DEF Inv, Types, Stores
<1>7. Counted'
  BY <1>1, <1>2 DEF Inv, Types, Counted
<1>8. Placed'
  BY <1>1, <1>2 DEF Inv, Control, Types, Flags, Placed, Running
<1>9. Running'
  BY <1>1, <1>2 DEF Inv, Control, Types, Flags, Placed, Running, Held, Told
<1>10. Held'
  BY <1>1, <1>2 DEF Inv, Control, Types, Flags, Placed, Running, Held
<1>11. Told'
  BY <1>1, <1>2 DEF Inv, Control, Types, Flags, Placed, Running, Held, Told, Closed, Stopped
<1>12. Stopped'
  BY <1>1, <1>2 DEF Inv, Control, Types, Flags, Placed, Running, Held, Told, Stopped, Closed
<1> QED BY <1>3, <1>4, <1>5, <1>6, <1>7, <1>8, <1>9, <1>10, <1>11, <1>12 DEF Inv, Types, Control

\* The observer wakeup finds a start_time.
LEMMA WakeupInv ==
  ASSUME ~ModalProxy, Inv, Loop("sleep"), Wakeup
  PROVE  Inv'
<1>1. UNCHANGED <<mode, modal, tracking, pc, then, launched, running, exit, started,
                stop_on_launch, stop_before_wait, stop_after_wait, stop_on_redraw, flow,
                wait_timeout, timer, signalled, pending, work, blocks, open, ops, runs>>
  BY DEF Wakeup, flag_vars, run_vars, redraw_vars
<1>2. /\ at = "sleep" /\ pc = "idle" /\ inside = "none" /\ at' = "sources" /\ woken' = FALSE /\ panicked' = FALSE
      /\ \/ /\ running = TRUE /\ inside' = "new_events" /\ phase' = "Awake" /\ handler' = "in use"
            /\ stop' = (stop \/ stop_after_wait)
         \/ /\ running = FALSE /\ UNCHANGED <<inside, phase, handler, stop>>
  BY AppKitAssumption DEF Wakeup, Loop, Skips, Running, Flags, Inv, Control, Held, Types, Calls,
         HandlerStates, With, Enter, Ready, HandlePanics, InUse
<1>3. Flags'
  BY <1>1, <1>2, ZenonT(40) DEF Inv, Types, Flags
<1>4. Places'
  BY <1>1, <1>2 DEF Inv, Types, Places
<1>5. Calls'
  BY <1>1, <1>2 DEF Inv, Types, Calls, HandlerStates
<1>6. Stores'
  BY <1>1, <1>2 DEF Inv, Types, Stores
<1>7. Counted'
  BY <1>1, <1>2 DEF Inv, Types, Counted
<1>8. Placed'
  BY <1>1, <1>2 DEF Inv, Control, Types, Flags, Placed, Running
<1>9. Running'
  BY <1>1, <1>2 DEF Inv, Control, Types, Flags, Placed, Running, Held, Told
<1>10. Held'
  BY <1>1, <1>2 DEF Inv, Control, Types, Flags, Placed, Running, Held
<1>11. Told'
  BY <1>1, <1>2 DEF Inv, Control, Types, Flags, Placed, Running, Held, Told, Closed, Stopped
<1>12. Stopped'
  BY <1>1, <1>2 DEF Inv, Control, Types, Flags, Placed, Running, Held, Told, Stopped, Closed
<1> QED BY <1>3, <1>4, <1>5, <1>6, <1>7, <1>8, <1>9, <1>10, <1>11, <1>12 DEF Inv, Types, Control

\* run_app_on_demand.
LEMMA StartRunInv ==
  ASSUME ~ModalProxy, Inv, StartRun
  PROVE  Inv'
<1>1. UNCHANGED <<mode, modal, tracking, inside, phase, launched, started,
                stop_on_launch, flow, timer, woken, signalled, pending, work, blocks, open,
                panicked, ops>>
  BY DEF StartRun, redraw_vars
<1>2. /\ at = "out" /\ pc = "idle" /\ handler = "unset" /\ mode = "run" /\ inside = "none"
      /\ runs' = runs + 1 /\ runs < MaxRuns /\ handler' = "available" /\ exit' = FALSE
      /\ wait_timeout' = FALSE /\ stop_before_wait' = FALSE
      /\ stop_after_wait' = FALSE /\ stop_on_redraw' = FALSE
      /\ \/ /\ launched = TRUE /\ running' = TRUE /\ pc' = "begin" /\ then' = "run"
            /\ UNCHANGED <<at, stop>>
         \/ /\ launched = FALSE /\ at' = "sources" /\ stop' = FALSE
            /\ UNCHANGED <<running, pc, then>>
  BY AppKitAssumption DEF StartRun, Out, SetHandler, Flags, Inv, Control, Held, Types, Calls,
         HandlerStates
<1>3. Flags'
  BY <1>1, <1>2 DEF Inv, Types, Flags
<1>4. Places'
  BY <1>1, <1>2 DEF Inv, Types, Places
<1>5. Calls'
  BY <1>1, <1>2 DEF Inv, Types, Calls, HandlerStates
<1>6. Stores'
  BY <1>1, <1>2 DEF Inv, Types, Stores
<1>7. Counted'
  BY <1>1, <1>2, AppKitAssumption DEF Inv, Types, Counted
<1>8. Placed'
  BY <1>1, <1>2 DEF Inv, Control, Types, Flags, Placed, Running
<1>9. Running'
  BY <1>1, <1>2 DEF Inv, Control, Types, Flags, Placed, Running, Held, Told
<1>10. Held'
  BY <1>1, <1>2 DEF Inv, Control, Types, Flags, Placed, Running, Held
<1>11. Told'
  BY <1>1, <1>2 DEF Inv, Control, Types, Flags, Placed, Running, Held, Told, Closed, Stopped
<1>12. Stopped'
  BY <1>1, <1>2 DEF Inv, Control, Types, Flags, Placed, Running, Held, Told, Stopped, Closed
<1> QED BY <1>3, <1>4, <1>5, <1>6, <1>7, <1>8, <1>9, <1>10, <1>11, <1>12 DEF Inv, Types, Control

\* pump_app_events.
LEMMA StartPumpInv ==
  ASSUME ~ModalProxy, Inv, StartPump
  PROVE  Inv'
<1>1. UNCHANGED <<mode, modal, tracking, inside, phase, launched, exit, started, flow,
                timer, woken, signalled, pending, work, blocks, open, panicked, ops>>
  BY DEF StartPump, redraw_vars
<1>2. /\ at = "out" /\ pc = "idle" /\ handler = "unset" /\ mode = "pump" /\ inside = "none"
      /\ runs' = runs + 1 /\ runs < MaxRuns /\ handler' = "available"
      /\ stop_on_launch' \in BOOLEAN /\ stop_before_wait' \in BOOLEAN /\ wait_timeout' \in BOOLEAN
      /\ stop_after_wait' \in BOOLEAN /\ stop_on_redraw' \in BOOLEAN
      /\ \/ /\ launched = FALSE /\ at' = "sources" /\ stop' = FALSE /\ UNCHANGED <<running, pc, then>>
         \/ /\ launched = TRUE /\ running = FALSE /\ running' = TRUE /\ pc' = "begin"
            /\ then' = "return" /\ UNCHANGED <<at, stop>>
         \/ /\ launched = TRUE /\ running = TRUE /\ at' = "sources" /\ stop' = FALSE
            /\ UNCHANGED <<running, pc, then>>
  BY AppKitAssumption DEF StartPump, Out, SetHandler, Timeout, flag_vars, Flags, Inv, Control, Held,
         Types, Calls, HandlerStates
<1>3. Flags'
  BY <1>1, <1>2 DEF Inv, Types, Flags
<1>4. Places'
  BY <1>1, <1>2 DEF Inv, Types, Places
<1>5. Calls'
  BY <1>1, <1>2 DEF Inv, Types, Calls, HandlerStates
<1>6. Stores'
  BY <1>1, <1>2 DEF Inv, Types, Stores
<1>7. Counted'
  BY <1>1, <1>2, AppKitAssumption DEF Inv, Types, Counted
<1>8. Placed'
  BY <1>1, <1>2 DEF Inv, Control, Types, Flags, Placed, Running
<1>9. Running'
  BY <1>1, <1>2 DEF Inv, Control, Types, Flags, Placed, Running, Held, Told
<1>10. Held'
  BY <1>1, <1>2 DEF Inv, Control, Types, Flags, Placed, Running, Held
<1>11. Told'
  BY <1>1, <1>2 DEF Inv, Control, Types, Flags, Placed, Running, Held, Told, Closed, Stopped
<1>12. Stopped'
  BY <1>1, <1>2 DEF Inv, Control, Types, Flags, Placed, Running, Held, Told, Stopped, Closed
<1> QED BY <1>3, <1>4, <1>5, <1>6, <1>7, <1>8, <1>9, <1>10, <1>11, <1>12 DEF Inv, Types, Control

\* An event; the application is not busy.
LEMMA AppKitEventInv ==
  ASSUME ~ModalProxy, Inv, AppKitEvent
  PROVE  Inv'
<1>1. UNCHANGED <<mode, at, modal, tracking, pc, then, launched, running, exit, started,
                stop_on_launch, stop_before_wait, stop_after_wait, stop_on_redraw, stop,
                flow, wait_timeout, timer, woken, signalled, pending, work, open, runs>>
  BY DEF AppKitEvent, flag_vars, run_vars, wake_vars, redraw_vars, place_vars
<1>2. /\ at = "sources" /\ pc = "idle" /\ inside = "none" /\ running = TRUE /\ blocks' = blocks
      /\ inside' = "event" /\ phase' = phase /\ handler' = "in use" /\ panicked' = FALSE
  BY AppKitAssumption DEF AppKitEvent, Loop, MaybeQueue, Flags, Inv, Control, Held, Types, Calls,
         HandlerStates, With, Enter, Ready, HandlePanics, InUse
<1>3. Flags'
  BY <1>1 DEF Inv, Types, Flags
<1>4. Places'
  BY <1>1, <1>2 DEF Inv, Types, Places
<1>5. Calls'
  BY <1>1, <1>2 DEF Inv, Types, Calls, HandlerStates
<1>6. Stores'
  BY <1>1, <1>2 DEF Inv, Types, Stores
<1>7. Counted'
  <2>1. Op
    BY DEF AppKitEvent
  <2>2. ops' \in 0 .. MaxOps /\ ops' = ops + 1 /\ blocks <= ops /\ blocks \in Nat /\ ops \in 0 .. MaxOps
    BY <2>1, OpCounted DEF Inv, Types, Counted
  <2>3. ops \in Nat /\ blocks' = blocks
    BY <1>1, <1>2, CountedIs DEF Inv, Types
  <2> QED BY <1>1, <2>2, <2>3 DEF Inv, Types, Counted
<1>8. Placed'
  BY <1>1, <1>2 DEF Inv, Control, Types, Flags, Placed, Running
<1>9. Running'
  BY <1>1, <1>2 DEF Inv, Control, Types, Flags, Placed, Running, Held, Told
<1>10. Held'
  BY <1>1, <1>2 DEF Inv, Control, Types, Flags, Placed, Running, Held
<1>11. Told'
  BY <1>1, <1>2 DEF Inv, Control, Types, Flags, Placed, Running, Held, Told, Closed, Stopped
<1>12. Stopped'
  BY <1>1, <1>2 DEF Inv, Control, Types, Flags, Placed, Running, Held, Told, Stopped, Closed
<1> QED BY <1>3, <1>4, <1>5, <1>6, <1>7, <1>8, <1>9, <1>10, <1>11, <1>12 DEF Inv, Types, Control

\* drawRect: of a window that there is.
LEMMA HandleRedrawInv ==
  ASSUME ~ModalProxy, Inv, HandleRedraw
  PROVE  Inv'
<1>1. UNCHANGED <<mode, at, modal, tracking, then, launched, running, exit, started,
                stop_on_launch, stop_before_wait, stop_after_wait, stop_on_redraw, stop,
                flow, wait_timeout, timer, woken, signalled, pending, work, blocks, open,
                runs>>
  BY DEF HandleRedraw, flag_vars, run_vars, wake_vars, redraw_vars, place_vars
<1>2. /\ at = "sources" /\ pc = "idle" /\ inside = "none" /\ open # {} /\ pc' = "drawn"
      /\ inside' = "event" /\ phase' = phase /\ handler' = "in use" /\ panicked' = FALSE
  BY AppKitAssumption DEF HandleRedraw, Loop, Op, Inv, Control, Held, Types, Calls, HandlerStates, With,
         Enter, Ready, HandlePanics, InUse
<1>3. Flags'
  BY <1>1 DEF Inv, Types, Flags
<1>4. Places'
  BY <1>1, <1>2 DEF Inv, Types, Places
<1>5. Calls'
  BY <1>1, <1>2 DEF Inv, Types, Calls, HandlerStates
<1>6. Stores'
  BY <1>1, <1>2 DEF Inv, Types, Stores
<1>7. Counted'
  <2>1. Op
    BY DEF HandleRedraw
  <2>2. ops' \in 0 .. MaxOps /\ ops' = ops + 1 /\ blocks <= ops /\ blocks \in Nat /\ ops \in 0 .. MaxOps
    BY <2>1, OpCounted DEF Inv, Types, Counted
  <2>3. ops \in Nat /\ blocks' = blocks
    BY <1>1, <1>2, CountedIs DEF Inv, Types
  <2> QED BY <1>1, <2>2, <2>3 DEF Inv, Types, Counted
<1>8. Placed'
  BY <1>1, <1>2 DEF Inv, Control, Types, Flags, Placed, Running
<1>9. Running'
  BY <1>1, <1>2 DEF Inv, Control, Types, Flags, Placed, Running, Held, Told
<1>10. Held'
  BY <1>1, <1>2 DEF Inv, Control, Types, Flags, Placed, Running, Held
<1>11. Told'
  BY <1>1, <1>2 DEF Inv, Control, Types, Flags, Placed, Running, Held, Told, Closed, Stopped
<1>12. Stopped'
  BY <1>1, <1>2 DEF Inv, Control, Types, Flags, Placed, Running, Held, Told, Stopped, Closed
<1> QED BY <1>3, <1>4, <1>5, <1>6, <1>7, <1>8, <1>9, <1>10, <1>11, <1>12 DEF Inv, Types, Control

\* A thread uses the proxy, and no modal loop runs.
LEMMA ProxyWakeUpInv ==
  ASSUME ~ModalProxy, ~EarlyProxy, Inv, ProxyWakeUp
  PROVE  Inv'
<1>1. UNCHANGED <<mode, at, modal, tracking, pc, inside, phase, handler, then, launched,
                running, exit, started, stop_on_launch, stop_before_wait, stop_after_wait,
                stop_on_redraw, stop, flow, wait_timeout, timer, woken, pending, work,
                blocks, open, panicked, runs>>
  BY DEF ProxyWakeUp, call_vars, flag_vars, run_vars, redraw_vars, place_vars
<1>2. launched = TRUE /\ signalled' = TRUE /\ modal = "no"
  BY AppKitAssumption DEF ProxyWakeUp, Flags, Inv, Control, Held, Types, Calls, HandlerStates
<1>3. Flags'
  BY <1>1, <1>2, ZenonT(40) DEF Inv, Types, Flags
<1>4. Places'
  BY <1>1, <1>2 DEF Inv, Types, Places
<1>5. Calls'
  BY <1>1, <1>2 DEF Inv, Types, Calls
<1>6. Stores'
  BY <1>1, <1>2 DEF Inv, Types, Stores
<1>7. Counted'
  BY <1>1, <1>2, OpCounted DEF Inv, Types, Counted, ProxyWakeUp
<1>8. Placed'
  BY <1>1, <1>2 DEF Inv, Control, Types, Flags, Placed, Running
<1>9. Running'
  BY <1>1, <1>2 DEF Inv, Control, Types, Flags, Placed, Running, Held, Told
<1>10. Held'
  BY <1>1, <1>2 DEF Inv, Control, Types, Flags, Placed, Running, Held
<1>11. Told'
  BY <1>1, <1>2 DEF Inv, Control, Types, Flags, Placed, Running, Held, Told, Closed, Stopped
<1>12. Stopped'
  BY <1>1, <1>2 DEF Inv, Control, Types, Flags, Placed, Running, Held, Told, Stopped, Closed
<1> QED BY <1>3, <1>4, <1>5, <1>6, <1>7, <1>8, <1>9, <1>10, <1>11, <1>12 DEF Inv, Types, Control

\* The process is asked to end.
LEMMA WillTerminateInv ==
  ASSUME ~ModalProxy, Inv, WillTerminate
  PROVE  Inv'
<1>1. UNCHANGED <<mode, at, modal, tracking, inside, phase, handler, launched, running,
                exit, started, stop_on_launch, stop_before_wait, stop_after_wait,
                stop_on_redraw, stop, flow, wait_timeout, timer, woken, signalled, pending,
                work, blocks, open, panicked, runs>>
  BY DEF WillTerminate, flag_vars, run_vars, wake_vars, redraw_vars, place_vars
<1>2. at = "sources" /\ pc = "idle" /\ inside = "none" /\ running = TRUE /\ pc' = "closing" /\ then' = "terminate"
  BY AppKitAssumption DEF WillTerminate, Loop, Flags, Inv, Control, Held, Types, Calls, HandlerStates
<1>3. Flags'
  BY <1>1 DEF Inv, Types, Flags
<1>4. Places'
  BY <1>1, <1>2 DEF Inv, Types, Places
<1>5. Calls'
  BY <1>1, <1>2 DEF Inv, Types, Calls
<1>6. Stores'
  BY <1>1, <1>2 DEF Inv, Types, Stores
<1>7. Counted'
  BY <1>1, <1>2, OpCounted DEF Inv, Types, Counted, WillTerminate
<1>8. Placed'
  BY <1>1, <1>2 DEF Inv, Control, Types, Flags, Placed, Running
<1>9. Running'
  BY <1>1, <1>2 DEF Inv, Control, Types, Flags, Placed, Running, Held, Told
<1>10. Held'
  BY <1>1, <1>2 DEF Inv, Control, Types, Flags, Placed, Running, Held
<1>11. Told'
  BY <1>1, <1>2 DEF Inv, Control, Types, Flags, Placed, Running, Held, Told, Closed, Stopped
<1>12. Stopped'
  BY <1>1, <1>2 DEF Inv, Control, Types, Flags, Placed, Running, Held, Told, Stopped, Closed
<1> QED BY <1>3, <1>4, <1>5, <1>6, <1>7, <1>8, <1>9, <1>10, <1>11, <1>12 DEF Inv, Types, Control

\* AppKit tracks a mouse in a loop of its own, ...
LEMMA BeginTrackingInv ==
  ASSUME ~ModalProxy, Inv, BeginTracking
  PROVE  Inv'
<1>1. UNCHANGED <<mode, at, modal, pc, inside, phase, handler, then, launched, running,
                exit, started, stop_on_launch, stop_before_wait, stop_after_wait,
                stop_on_redraw, stop, flow, wait_timeout, timer, woken, signalled, pending,
                work, blocks, open, panicked, runs>>
  BY DEF BeginTracking, call_vars, flag_vars, run_vars, wake_vars, redraw_vars
<1>2. tracking' = TRUE
  BY AppKitAssumption DEF BeginTracking, Inv
<1>3. Flags'
  BY <1>1, <1>2, ZenonT(40) DEF Inv, Types, Flags
<1>4. Places'
  BY <1>1, <1>2 DEF Inv, Types, Places
<1>5. Calls'
  BY <1>1, <1>2 DEF Inv, Types, Calls
<1>6. Stores'
  BY <1>1, <1>2 DEF Inv, Types, Stores
<1>7. Counted'
  BY <1>1, <1>2, OpCounted DEF Inv, Types, Counted, BeginTracking
<1>8. Placed'
  BY <1>1, <1>2 DEF Inv, Control, Types, Flags, Placed, Running
<1>9. Running'
  BY <1>1, <1>2 DEF Inv, Control, Types, Flags, Placed, Running, Held, Told
<1>10. Held'
  BY <1>1, <1>2 DEF Inv, Control, Types, Flags, Placed, Running, Held
<1>11. Told'
  BY <1>1, <1>2 DEF Inv, Control, Types, Flags, Placed, Running, Held, Told, Closed, Stopped
<1>12. Stopped'
  BY <1>1, <1>2 DEF Inv, Control, Types, Flags, Placed, Running, Held, Told, Stopped, Closed
<1> QED BY <1>3, <1>4, <1>5, <1>6, <1>7, <1>8, <1>9, <1>10, <1>11, <1>12 DEF Inv, Types, Control

\* ... and leaves it.
LEMMA EndTrackingInv ==
  ASSUME ~ModalProxy, Inv, EndTracking
  PROVE  Inv'
<1>1. UNCHANGED <<mode, at, modal, pc, inside, phase, handler, then, launched, running,
                exit, started, stop_on_launch, stop_before_wait, stop_after_wait,
                stop_on_redraw, stop, flow, wait_timeout, timer, woken, signalled, pending,
                work, blocks, open, panicked, ops, runs>>
  BY DEF EndTracking, call_vars, flag_vars, run_vars, wake_vars, redraw_vars
<1>2. tracking' = FALSE
  BY AppKitAssumption DEF EndTracking, Inv
<1>3. Flags'
  BY <1>1, <1>2, ZenonT(40) DEF Inv, Types, Flags
<1>4. Places'
  BY <1>1, <1>2 DEF Inv, Types, Places
<1>5. Calls'
  BY <1>1, <1>2 DEF Inv, Types, Calls
<1>6. Stores'
  BY <1>1, <1>2 DEF Inv, Types, Stores
<1>7. Counted'
  BY <1>1, <1>2 DEF Inv, Types, Counted
<1>8. Placed'
  BY <1>1, <1>2 DEF Inv, Control, Types, Flags, Placed, Running
<1>9. Running'
  BY <1>1, <1>2 DEF Inv, Control, Types, Flags, Placed, Running, Held, Told
<1>10. Held'
  BY <1>1, <1>2 DEF Inv, Control, Types, Flags, Placed, Running, Held
<1>11. Told'
  BY <1>1, <1>2 DEF Inv, Control, Types, Flags, Placed, Running, Held, Told, Closed, Stopped
<1>12. Stopped'
  BY <1>1, <1>2 DEF Inv, Control, Types, Flags, Placed, Running, Held, Told, Stopped, Closed
<1> QED BY <1>3, <1>4, <1>5, <1>6, <1>7, <1>8, <1>9, <1>10, <1>11, <1>12 DEF Inv, Types, Control

\* The application starts a modal loop; nobody uses the proxy around it.
LEMMA BeginModalInv ==
  ASSUME ~ModalProxy, Inv, BeginModal
  PROVE  Inv'
<1>1. UNCHANGED <<mode, at, tracking, pc, inside, phase, handler, then, launched,
                running, exit, started, stop_on_launch, stop_before_wait, stop_after_wait,
                stop_on_redraw, stop, flow, wait_timeout, timer, woken, signalled, pending,
                work, blocks, open, panicked, runs>>
  BY DEF BeginModal, call_vars, flag_vars, run_vars, wake_vars, redraw_vars
<1>2. inside # "none" /\ modal' = "sources" /\ signalled = FALSE
  BY AppKitAssumption DEF BeginModal, Inside, Flags, Inv, Control, Held, Types, Calls, HandlerStates
<1>3. Flags'
  BY <1>1 DEF Inv, Types, Flags
<1>4. Places'
  BY <1>1, <1>2 DEF Inv, Types, Places
<1>5. Calls'
  BY <1>1, <1>2 DEF Inv, Types, Calls
<1>6. Stores'
  BY <1>1, <1>2 DEF Inv, Types, Stores
<1>7. Counted'
  BY <1>1, <1>2, OpCounted DEF Inv, Types, Counted, BeginModal
<1>8. Placed'
  BY <1>1, <1>2 DEF Inv, Control, Types, Flags, Placed, Running
<1>9. Running'
  BY <1>1, <1>2 DEF Inv, Control, Types, Flags, Placed, Running, Held, Told
<1>10. Held'
  BY <1>1, <1>2 DEF Inv, Control, Types, Flags, Placed, Running, Held
<1>11. Told'
  BY <1>1, <1>2 DEF Inv, Control, Types, Flags, Placed, Running, Held, Told, Closed, Stopped
<1>12. Stopped'
  BY <1>1, <1>2 DEF Inv, Control, Types, Flags, Placed, Running, Held, Told, Stopped, Closed
<1> QED BY <1>3, <1>4, <1>5, <1>6, <1>7, <1>8, <1>9, <1>10, <1>11, <1>12 DEF Inv, Types, Control

\* Its observers do nothing, since a callback runs.
LEMMA ModalBeforeWaitingInv ==
  ASSUME ~ModalProxy, Inv, ModalBeforeWaiting
  PROVE  Inv'
<1>1. UNCHANGED <<mode, at, tracking, inside, phase, handler, then, launched, running,
                exit, started, stop_on_launch, stop_before_wait, stop_after_wait,
                stop_on_redraw, stop, flow, wait_timeout, timer, woken, signalled, blocks,
                open, panicked, ops, runs>>
  BY DEF ModalBeforeWaiting, flag_vars, run_vars, wake_vars
<1>2. /\ modal = "sources" /\ modal' = "sleep" /\ inside # "none"
      /\ UNCHANGED <<pc, pending, work>>
  BY AppKitAssumption DEF ModalBeforeWaiting, Modal, Cleared, Skips, Ready, redraw_vars, Inv, Control,
         Held, Types, Calls, HandlerStates
<1>3. Flags'
  BY <1>1 DEF Inv, Types, Flags
<1>4. Places'
  BY <1>1, <1>2 DEF Inv, Types, Places
<1>5. Calls'
  BY <1>1, <1>2 DEF Inv, Types, Calls
<1>6. Stores'
  BY <1>1, <1>2 DEF Inv, Types, Stores
<1>7. Counted'
  BY <1>1, <1>2 DEF Inv, Types, Counted
<1>8. Placed'
  BY <1>1, <1>2 DEF Inv, Control, Types, Flags, Placed, Running
<1>9. Running'
  BY <1>1, <1>2 DEF Inv, Control, Types, Flags, Placed, Running, Held, Told
<1>10. Held'
  BY <1>1, <1>2 DEF Inv, Control, Types, Flags, Placed, Running, Held
<1>11. Told'
  BY <1>1, <1>2 DEF Inv, Control, Types, Flags, Placed, Running, Held, Told, Closed, Stopped
<1>12. Stopped'
  BY <1>1, <1>2 DEF Inv, Control, Types, Flags, Placed, Running, Held, Told, Stopped, Closed
<1> QED BY <1>3, <1>4, <1>5, <1>6, <1>7, <1>8, <1>9, <1>10, <1>11, <1>12 DEF Inv, Types, Control

\* Nor after the wait.
LEMMA ModalAfterWaitingInv ==
  ASSUME ~ModalProxy, Inv, ModalAfterWaiting
  PROVE  Inv'
<1>1. UNCHANGED <<mode, at, tracking, pc, then, launched, running, exit, started,
                stop_on_launch, stop_before_wait, stop_after_wait, stop_on_redraw, stop,
                flow, wait_timeout, timer, woken, signalled, pending, work, blocks, open,
                ops, runs>>
  BY DEF ModalAfterWaiting, flag_vars, run_vars, wake_vars, redraw_vars
<1>2. /\ modal = "sleep" /\ modal' = "sources" /\ inside # "none"
      /\ UNCHANGED <<inside, phase, handler, panicked>>
  BY AppKitAssumption DEF ModalAfterWaiting, Modal, Skips, Ready, Inv, Control, Held, Types, Calls,
         HandlerStates
<1>3. Flags'
  BY <1>1 DEF Inv, Types, Flags
<1>4. Places'
  BY <1>1, <1>2 DEF Inv, Types, Places
<1>5. Calls'
  BY <1>1, <1>2 DEF Inv, Types, Calls, HandlerStates
<1>6. Stores'
  BY <1>1, <1>2 DEF Inv, Types, Stores
<1>7. Counted'
  BY <1>1, <1>2 DEF Inv, Types, Counted
<1>8. Placed'
  BY <1>1, <1>2 DEF Inv, Control, Types, Flags, Placed, Running
<1>9. Running'
  BY <1>1, <1>2 DEF Inv, Control, Types, Flags, Placed, Running, Held, Told
<1>10. Held'
  BY <1>1, <1>2 DEF Inv, Control, Types, Flags, Placed, Running, Held
<1>11. Told'
  BY <1>1, <1>2 DEF Inv, Control, Types, Flags, Placed, Running, Held, Told, Closed, Stopped
<1>12. Stopped'
  BY <1>1, <1>2 DEF Inv, Control, Types, Flags, Placed, Running, Held, Told, Stopped, Closed
<1> QED BY <1>3, <1>4, <1>5, <1>6, <1>7, <1>8, <1>9, <1>10, <1>11, <1>12 DEF Inv, Types, Control

\* The modal loop ends.
LEMMA EndModalInv ==
  ASSUME ~ModalProxy, Inv, EndModal
  PROVE  Inv'
<1>1. UNCHANGED <<mode, at, tracking, pc, inside, phase, handler, then, launched,
                running, exit, started, stop_on_launch, stop_before_wait, stop_after_wait,
                stop_on_redraw, stop, flow, wait_timeout, timer, woken, signalled, pending,
                work, blocks, open, panicked, ops, runs>>
  BY DEF EndModal, call_vars, flag_vars, run_vars, wake_vars, redraw_vars
<1>2. modal' = "no"
  BY AppKitAssumption DEF EndModal, Inv
<1>3. Flags'
  BY <1>1 DEF Inv, Types, Flags
<1>4. Places'
  BY <1>1, <1>2 DEF Inv, Types, Places
<1>5. Calls'
  BY <1>1, <1>2 DEF Inv, Types, Calls
<1>6. Stores'
  BY <1>1, <1>2 DEF Inv, Types, Stores
<1>7. Counted'
  BY <1>1, <1>2 DEF Inv, Types, Counted
<1>8. Placed'
  BY <1>1, <1>2 DEF Inv, Control, Types, Flags, Placed, Running
<1>9. Running'
  BY <1>1, <1>2 DEF Inv, Control, Types, Flags, Placed, Running, Held, Told
<1>10. Held'
  BY <1>1, <1>2 DEF Inv, Control, Types, Flags, Placed, Running, Held
<1>11. Told'
  BY <1>1, <1>2 DEF Inv, Control, Types, Flags, Placed, Running, Held, Told, Closed, Stopped
<1>12. Stopped'
  BY <1>1, <1>2 DEF Inv, Control, Types, Flags, Placed, Running, Held, Told, Stopped, Closed
<1> QED BY <1>3, <1>4, <1>5, <1>6, <1>7, <1>8, <1>9, <1>10, <1>11, <1>12 DEF Inv, Types, Control

\* The application creates a window, before it exits.
LEMMA CreateWindowInv ==
  ASSUME ~ModalProxy, Inv, CreateWindow
  PROVE  Inv'
<1>1. UNCHANGED <<mode, at, modal, tracking, pc, inside, phase, handler, then, launched,
                running, exit, started, stop_on_launch, stop_before_wait, stop_after_wait,
                stop_on_redraw, stop, flow, wait_timeout, timer, woken, signalled, pending,
                work, blocks, panicked, runs>>
  BY DEF CreateWindow, call_vars, flag_vars, run_vars, wake_vars, redraw_vars, place_vars
<1>2. inside # "none" /\ pc # "closing" /\ exit = FALSE /\ open' \subseteq Windows
  BY AppKitAssumption DEF CreateWindow, Inside, Stores, Flags, Inv, Control, Held, Types, Calls,
         HandlerStates
<1>3. Flags'
  BY <1>1 DEF Inv, Types, Flags
<1>4. Places'
  BY <1>1, <1>2 DEF Inv, Types, Places
<1>5. Calls'
  BY <1>1, <1>2 DEF Inv, Types, Calls
<1>6. Stores'
  BY <1>1, <1>2 DEF Inv, Types, Stores
<1>7. Counted'
  BY <1>1, <1>2, OpCounted DEF Inv, Types, Counted, CreateWindow
<1>8. Placed'
  BY <1>1, <1>2 DEF Inv, Control, Types, Flags, Placed, Running
<1>9. Running'
  BY <1>1, <1>2 DEF Inv, Control, Types, Flags, Placed, Running, Held, Told
<1>10. Held'
  BY <1>1, <1>2 DEF Inv, Control, Types, Flags, Placed, Running, Held
<1>11. Told'
  BY <1>1, <1>2 DEF Inv, Control, Types, Flags, Placed, Running, Held, Told, Closed, Stopped
<1>12. Stopped'
  BY <1>1, <1>2 DEF Inv, Control, Types, Flags, Placed, Running, Held, Told, Stopped, Closed
<1> QED BY <1>3, <1>4, <1>5, <1>6, <1>7, <1>8, <1>9, <1>10, <1>11, <1>12 DEF Inv, Types, Control

\* It drops one: Destroyed is queued.
LEMMA DropWindowInv ==
  ASSUME ~ModalProxy, Inv, DropWindow
  PROVE  Inv'
<1>1. UNCHANGED <<mode, at, modal, tracking, pc, then, launched, running, exit, started,
                stop_on_launch, stop_before_wait, stop_after_wait, stop_on_redraw, stop,
                flow, wait_timeout, timer, woken, signalled, pending, work, runs>>
  BY DEF DropWindow, flag_vars, run_vars, wake_vars, redraw_vars, place_vars
<1>2. /\ inside # "none" /\ open' \subseteq open /\ blocks' = blocks + 1
      /\ UNCHANGED <<handler, inside, phase, panicked>>
  BY AppKitAssumption DEF DropWindow, Inside, MaybeQueue, InUse, Inv, Control, Held, Types, Calls,
         HandlerStates
<1>3. Flags'
  BY <1>1 DEF Inv, Types, Flags
<1>4. Places'
  BY <1>1, <1>2 DEF Inv, Types, Places
<1>5. Calls'
  BY <1>1, <1>2 DEF Inv, Types, Calls, HandlerStates
<1>6. Stores'
  BY <1>1, <1>2 DEF Inv, Types, Stores
<1>7. Counted'
  BY <1>1, <1>2, OpCounted DEF Inv, Types, Counted, DropWindow
<1>8. Placed'
  BY <1>1, <1>2 DEF Inv, Control, Types, Flags, Placed, Running
<1>9. Running'
  BY <1>1, <1>2 DEF Inv, Control, Types, Flags, Placed, Running, Held, Told
<1>10. Held'
  BY <1>1, <1>2 DEF Inv, Control, Types, Flags, Placed, Running, Held
<1>11. Told'
  BY <1>1, <1>2 DEF Inv, Control, Types, Flags, Placed, Running, Held, Told, Closed, Stopped
<1>12. Stopped'
  BY <1>1, <1>2 DEF Inv, Control, Types, Flags, Placed, Running, Held, Told, Stopped, Closed
<1> QED BY <1>3, <1>4, <1>5, <1>6, <1>7, <1>8, <1>9, <1>10, <1>11, <1>12 DEF Inv, Types, Control

\* It fetches dropped data: what AppKit calls back is queued.
LEMMA FetchDataTransferInv ==
  ASSUME ~ModalProxy, Inv, FetchDataTransfer
  PROVE  Inv'
<1>1. UNCHANGED <<mode, at, modal, tracking, pc, then, launched, running, exit, started,
                stop_on_launch, stop_before_wait, stop_after_wait, stop_on_redraw, stop,
                flow, wait_timeout, timer, woken, signalled, pending, work, open, runs>>
  BY DEF FetchDataTransfer, flag_vars, run_vars, wake_vars, redraw_vars, place_vars
<1>2. /\ inside # "none" /\ blocks' = blocks + 1
      /\ UNCHANGED <<handler, inside, phase, panicked>>
  BY AppKitAssumption DEF FetchDataTransfer, Inside, MaybeQueue, InUse, Inv, Control, Held, Types, Calls,
         HandlerStates
<1>3. Flags'
  BY <1>1 DEF Inv, Types, Flags
<1>4. Places'
  BY <1>1, <1>2 DEF Inv, Types, Places
<1>5. Calls'
  BY <1>1, <1>2 DEF Inv, Types, Calls, HandlerStates
<1>6. Stores'
  BY <1>1, <1>2 DEF Inv, Types, Stores
<1>7. Counted'
  BY <1>1, <1>2, OpCounted DEF Inv, Types, Counted, FetchDataTransfer
<1>8. Placed'
  BY <1>1, <1>2 DEF Inv, Control, Types, Flags, Placed, Running
<1>9. Running'
  BY <1>1, <1>2 DEF Inv, Control, Types, Flags, Placed, Running, Held, Told
<1>10. Held'
  BY <1>1, <1>2 DEF Inv, Control, Types, Flags, Placed, Running, Held
<1>11. Told'
  BY <1>1, <1>2 DEF Inv, Control, Types, Flags, Placed, Running, Held, Told, Closed, Stopped
<1>12. Stopped'
  BY <1>1, <1>2 DEF Inv, Control, Types, Flags, Placed, Running, Held, Told, Stopped, Closed
<1> QED BY <1>3, <1>4, <1>5, <1>6, <1>7, <1>8, <1>9, <1>10, <1>11, <1>12 DEF Inv, Types, Control

\* It asks for a redraw.
LEMMA RequestRedrawInv ==
  ASSUME ~ModalProxy, Inv, RequestRedraw
  PROVE  Inv'
<1>1. UNCHANGED <<mode, at, modal, tracking, pc, inside, phase, handler, then, launched,
                running, exit, started, stop_on_launch, stop_before_wait, stop_after_wait,
                stop_on_redraw, stop, flow, wait_timeout, timer, signalled, work, blocks,
                open, panicked, runs>>
  BY DEF RequestRedraw, call_vars, flag_vars, run_vars, place_vars
<1>2. inside # "none" /\ pending' \subseteq Windows /\ woken' = TRUE
  BY AppKitAssumption DEF RequestRedraw, Inside, QueueRedraw, Stores, Inv, Control, Held, Types, Calls,
         HandlerStates
<1>3. Flags'
  BY <1>1, <1>2 DEF Inv, Types, Flags
<1>4. Places'
  BY <1>1, <1>2 DEF Inv, Types, Places
<1>5. Calls'
  BY <1>1, <1>2 DEF Inv, Types, Calls
<1>6. Stores'
  BY <1>1, <1>2 DEF Inv, Types, Stores
<1>7. Counted'
  BY <1>1, <1>2, OpCounted DEF Inv, Types, Counted, RequestRedraw
<1>8. Placed'
  BY <1>1, <1>2 DEF Inv, Control, Types, Flags, Placed, Running
<1>9. Running'
  BY <1>1, <1>2 DEF Inv, Control, Types, Flags, Placed, Running, Held, Told
<1>10. Held'
  BY <1>1, <1>2 DEF Inv, Control, Types, Flags, Placed, Running, Held
<1>11. Told'
  BY <1>1, <1>2 DEF Inv, Control, Types, Flags, Placed, Running, Held, Told, Closed, Stopped
<1>12. Stopped'
  BY <1>1, <1>2 DEF Inv, Control, Types, Flags, Placed, Running, Held, Told, Stopped, Closed
<1> QED BY <1>3, <1>4, <1>5, <1>6, <1>7, <1>8, <1>9, <1>10, <1>11, <1>12 DEF Inv, Types, Control

\* It sets the control flow.
LEMMA SetControlFlowInv ==
  ASSUME ~ModalProxy, Inv, SetControlFlow
  PROVE  Inv'
<1>1. UNCHANGED <<mode, at, modal, tracking, pc, inside, phase, handler, then, launched,
                running, exit, started, stop_on_launch, stop_before_wait, stop_after_wait,
                stop_on_redraw, stop, wait_timeout, timer, woken, signalled, pending, work,
                blocks, open, panicked, runs>>
  BY DEF SetControlFlow, call_vars, flag_vars, run_vars, redraw_vars, place_vars
<1>2. flow' \in {"poll", "wait", "until"}
  BY AppKitAssumption DEF SetControlFlow, Inv
<1>3. Flags'
  BY <1>1 DEF Inv, Types, Flags
<1>4. Places'
  BY <1>1, <1>2 DEF Inv, Types, Places
<1>5. Calls'
  BY <1>1, <1>2 DEF Inv, Types, Calls
<1>6. Stores'
  BY <1>1, <1>2 DEF Inv, Types, Stores
<1>7. Counted'
  BY <1>1, <1>2, OpCounted DEF Inv, Types, Counted, SetControlFlow
<1>8. Placed'
  BY <1>1, <1>2 DEF Inv, Control, Types, Flags, Placed, Running
<1>9. Running'
  BY <1>1, <1>2 DEF Inv, Control, Types, Flags, Placed, Running, Held, Told
<1>10. Held'
  BY <1>1, <1>2 DEF Inv, Control, Types, Flags, Placed, Running, Held
<1>11. Told'
  BY <1>1, <1>2 DEF Inv, Control, Types, Flags, Placed, Running, Held, Told, Closed, Stopped
<1>12. Stopped'
  BY <1>1, <1>2 DEF Inv, Control, Types, Flags, Placed, Running, Held, Told, Stopped, Closed
<1> QED BY <1>3, <1>4, <1>5, <1>6, <1>7, <1>8, <1>9, <1>10, <1>11, <1>12 DEF Inv, Types, Control

\* It exits.
LEMMA ExitInv ==
  ASSUME ~ModalProxy, Inv, Exit
  PROVE  Inv'
<1>1. UNCHANGED <<mode, at, modal, tracking, pc, inside, phase, handler, then, launched,
                running, started, stop_on_launch, stop_before_wait, stop_after_wait,
                stop_on_redraw, stop, flow, wait_timeout, timer, woken, signalled, pending,
                work, blocks, open, panicked, runs>>
  BY DEF Exit, call_vars, flag_vars, wake_vars, redraw_vars, place_vars
<1>2. inside # "none" /\ exit' = TRUE
  BY AppKitAssumption DEF Exit, Inside
<1>3. Flags'
  BY <1>1, <1>2 DEF Inv, Types, Flags
<1>4. Places'
  BY <1>1, <1>2 DEF Inv, Types, Places
<1>5. Calls'
  BY <1>1, <1>2 DEF Inv, Types, Calls
<1>6. Stores'
  BY <1>1, <1>2 DEF Inv, Types, Stores
<1>7. Counted'
  BY <1>1, <1>2, OpCounted DEF Inv, Types, Counted, Exit
<1>8. Placed'
  BY <1>1, <1>2 DEF Inv, Control, Types, Flags, Placed, Running
<1>9. Running'
  BY <1>1, <1>2 DEF Inv, Control, Types, Flags, Placed, Running, Held, Told
<1>10. Held'
  BY <1>1, <1>2 DEF Inv, Control, Types, Flags, Placed, Running, Held
<1>11. Told'
  BY <1>1, <1>2 DEF Inv, Control, Types, Flags, Placed, Running, Held, Told, Closed, Stopped
<1>12. Stopped'
  BY <1>1, <1>2 DEF Inv, Control, Types, Flags, Placed, Running, Held, Told, Stopped, Closed
<1> QED BY <1>3, <1>4, <1>5, <1>6, <1>7, <1>8, <1>9, <1>10, <1>11, <1>12 DEF Inv, Types, Control

\* The call returns; a run, or a pump that has exited, ends the event loop.
LEMMA ReturnInv ==
  ASSUME ~ModalProxy, Inv, Return
  PROVE  Inv'
<1>1. UNCHANGED <<mode, modal, tracking, then, inside, launched, exit, started, stop,
                stop_on_launch, flow, timer, woken, signalled, pending, work, blocks, open,
                panicked, ops, runs>>
  BY DEF Return, redraw_vars
<1>2. /\ inside = "none" /\ handler' = "unset" /\ at' = "out" /\ pc' = "idle"
      /\ \/ at = "sources" /\ pc = "idle" /\ stop = TRUE
         \/ pc = "inited" /\ then = "return"
      /\ \/ /\ mode = "run" \/ exit = TRUE
            /\ running' = FALSE /\ stop_on_redraw' = FALSE /\ stop_before_wait' = FALSE
            /\ stop_after_wait' = FALSE /\ wait_timeout' = FALSE /\ phase' = "Off"
         \/ /\ mode # "run" /\ exit = FALSE
            /\ UNCHANGED <<running, wait_timeout, phase, stop_on_redraw, stop_before_wait,
                           stop_after_wait>>
  BY AppKitAssumption DEF Return, Loop, Continue, ClearHandler, InternalExit, flag_vars, Flags, Places,
         Inv, Control, Held, Types, Calls, HandlerStates
<1>3. Flags'
  BY <1>1, <1>2, ZenonT(40) DEF Inv, Types, Flags
<1>4. Places'
  BY <1>1, <1>2 DEF Inv, Types, Places
<1>5. Calls'
  BY <1>1, <1>2 DEF Inv, Types, Calls, HandlerStates
<1>6. Stores'
  BY <1>1, <1>2 DEF Inv, Types, Stores
<1>7. Counted'
  BY <1>1, <1>2 DEF Inv, Types, Counted
<1>8. Placed'
  BY <1>1, <1>2 DEF Inv, Control, Types, Flags, Placed, Running
<1>9. Running'
  <2>1. CASE at = "sources" /\ pc = "idle"
    BY <1>1, <1>2, <2>1 DEF Inv, Control, Types, Flags, Places, Calls, Placed, Running, Told
  <2>2. CASE pc = "inited"
    BY <1>1, <1>2, <2>2 DEF Inv, Control, Types, Flags, Places, Calls, Placed, Running, Told
  <2> QED BY <1>2, <2>1, <2>2
<1>10. Held'
  BY <1>1, <1>2 DEF Inv, Control, Types, Flags, Placed, Running, Held
<1>11. Told'
  <2>1. CASE phase' = "Off" /\ running' = FALSE
    BY <1>2, <2>1 DEF Told
  <2>2. CASE UNCHANGED <<running, phase>>
    <3>1. CASE at = "sources" /\ pc = "idle"
      BY <1>2, <2>2, <3>1 DEF Inv, Control, Told, Closed
    <3>2. CASE pc = "inited"
      BY <1>2, <2>2, <3>2 DEF Inv, Control, Running, Told, Closed
    <3> QED BY <1>2, <3>1, <3>2
  <2> QED BY <1>2, <2>1, <2>2
<1>12. Stopped'
  BY <1>1, <1>2 DEF Inv, Control, Types, Flags, Placed, Running, Held, Told, Stopped, Closed
<1> QED BY <1>3, <1>4, <1>5, <1>6, <1>7, <1>8, <1>9, <1>10, <1>11, <1>12 DEF Inv, Types, Control

\* A closure that was queued runs.
LEMMA PerformBlockInv ==
  ASSUME ~ModalProxy, Inv, PerformBlock
  PROVE  Inv'
<1>1. UNCHANGED <<mode, at, modal, tracking, pc, then, launched, running, exit, started,
                stop_on_launch, stop_before_wait, stop_after_wait, stop_on_redraw, stop,
                flow, wait_timeout, timer, woken, signalled, pending, work, open, ops, runs>>
  BY DEF PerformBlock, flag_vars, run_vars, wake_vars, redraw_vars, place_vars
<1>2. /\ at = "sources" /\ pc = "idle" /\ inside = "none" /\ running = TRUE /\ blocks # 0 /\ blocks' = blocks - 1
      /\ inside' = "event" /\ phase' = phase /\ handler' = "in use" /\ panicked' = FALSE
  <2>1. at = "sources" /\ pc = "idle" /\ inside = "none" /\ blocks > 0 /\ blocks' = blocks - 1
    BY DEF PerformBlock, Loop
  <2>2. blocks # 0 /\ running = TRUE
    BY <2>1 DEF Inv, Types, Flags, Counted, Control, Running
  <2>3. handler = "available"
    BY <2>1, Available
  <2> QED BY <2>1, <2>2, <2>3 DEF PerformBlock, With, Enter, Ready, HandlePanics, InUse
<1>3. Flags'
  BY <1>1 DEF Inv, Types, Flags
<1>4. Places'
  BY <1>1, <1>2 DEF Inv, Types, Places
<1>5. Calls'
  BY <1>1, <1>2 DEF Inv, Types, Calls, HandlerStates
<1>6. Stores'
  BY <1>1, <1>2 DEF Inv, Types, Stores
<1>7. Counted'
  <2>1. blocks \in Nat /\ blocks # 0 /\ blocks <= ops /\ ops \in Nat
    BY <1>1, <1>2, CountedIs DEF Inv, Types
  <2>2. blocks - 1 \in Nat /\ blocks - 1 <= ops
    BY <2>1
  <2> QED BY <1>1, <1>2, <2>2 DEF Inv, Types, Counted
<1>8. Placed'
  BY <1>1, <1>2 DEF Inv, Control, Types, Flags, Placed, Running
<1>9. Running'
  BY <1>1, <1>2 DEF Inv, Control, Types, Flags, Placed, Running, Held, Told
<1>10. Held'
  BY <1>1, <1>2 DEF Inv, Control, Types, Flags, Placed, Running, Held
<1>11. Told'
  BY <1>1, <1>2 DEF Inv, Control, Types, Flags, Placed, Running, Held, Told, Closed, Stopped
<1>12. Stopped'
  BY <1>1, <1>2 DEF Inv, Control, Types, Flags, Placed, Running, Held, Told, Stopped, Closed
<1> QED BY <1>3, <1>4, <1>5, <1>6, <1>7, <1>8, <1>9, <1>10, <1>11, <1>12 DEF Inv, Types, Control

\* The source calls the application, in the main loop.
LEMMA ProxyPerformInv ==
  ASSUME ~ModalProxy, Inv, ProxyPerform
  PROVE  Inv'
<1>1. UNCHANGED <<mode, at, modal, tracking, pc, then, launched, running, exit, started,
                stop_on_launch, stop_before_wait, stop_after_wait, stop_on_redraw, stop,
                flow, wait_timeout, timer, woken, pending, work, blocks, open, ops, runs>>
  BY DEF ProxyPerform, flag_vars, run_vars, redraw_vars, place_vars
<1>2. /\ at = "sources" /\ pc = "idle" /\ inside = "none" /\ running = TRUE /\ signalled = TRUE /\ signalled' = FALSE
      /\ inside' = "proxy" /\ phase' = phase /\ handler' = "in use" /\ panicked' = FALSE
  BY AppKitAssumption DEF ProxyPerform, Loop, Modal, Running, Flags, Inv, Control, Held, Types, Calls,
         HandlerStates, With, Enter, Ready, HandlePanics, InUse
<1>3. Flags'
  BY <1>1, <1>2, ZenonT(40) DEF Inv, Types, Flags
<1>4. Places'
  BY <1>1, <1>2 DEF Inv, Types, Places
<1>5. Calls'
  BY <1>1, <1>2 DEF Inv, Types, Calls, HandlerStates
<1>6. Stores'
  BY <1>1, <1>2 DEF Inv, Types, Stores
<1>7. Counted'
  BY <1>1, <1>2 DEF Inv, Types, Counted
<1>8. Placed'
  BY <1>1, <1>2 DEF Inv, Control, Types, Flags, Placed, Running
<1>9. Running'
  BY <1>1, <1>2 DEF Inv, Control, Types, Flags, Placed, Running, Held, Told
<1>10. Held'
  BY <1>1, <1>2 DEF Inv, Control, Types, Flags, Placed, Running, Held
<1>11. Told'
  BY <1>1, <1>2 DEF Inv, Control, Types, Flags, Placed, Running, Held, Told, Closed, Stopped
<1>12. Stopped'
  BY <1>1, <1>2 DEF Inv, Control, Types, Flags, Placed, Running, Held, Told, Stopped, Closed
<1> QED BY <1>3, <1>4, <1>5, <1>6, <1>7, <1>8, <1>9, <1>10, <1>11, <1>12 DEF Inv, Types, Control

----
(* The invariant *)

\* It holds before the first call.
LEMMA InitInv ==
  ASSUME Init
  PROVE  Inv
<1>1. Flags /\ Places
  BY DEF Init, Fresh, Flags, Places
<1>2. Calls
  BY DEF Init, Fresh, Calls, HandlerStates
<1>3. Stores
  BY DEF Init, Fresh, Stores
<1>4. Counted
  BY AppKitAssumption DEF Init, Fresh, Counted
<1>5. Placed /\ Running /\ Held
  BY DEF Init, Fresh, Placed, Running, Held
<1>6. Told /\ Stopped
  BY DEF Init, Fresh, Told, Closed, Stopped
<1> QED BY <1>1, <1>2, <1>3, <1>4, <1>5, <1>6 DEF Inv, Types, Control

\* A step that changes nothing keeps it.
LEMMA StutterInv ==
  ASSUME Inv, UNCHANGED vars
  PROVE  Inv'
<1>1. UNCHANGED <<mode, at, modal, tracking, pc, inside, phase, handler, then, launched, running,
        exit, started, stop_on_launch, stop_before_wait, stop_after_wait, stop_on_redraw,
        stop, flow, wait_timeout, timer, woken, signalled, pending, work, blocks, open,
        panicked, ops, runs>>
  BY DEF vars, place_vars, call_vars, run_vars, flag_vars, wake_vars, redraw_vars
<1>2. Flags' /\ Places'
  BY <1>1 DEF Inv, Types, Flags, Places
<1>3. Calls' /\ Stores'
  BY <1>1 DEF Inv, Types, Calls, Stores
<1>4. Counted'
  BY <1>1 DEF Inv, Types, Counted
<1>5. Placed' /\ Running' /\ Held'
  BY <1>1 DEF Inv, Control, Placed, Running, Held
<1>6. Told' /\ Stopped'
  BY <1>1 DEF Inv, Control, Told, Closed, Stopped
<1> QED BY <1>2, <1>3, <1>4, <1>5, <1>6 DEF Inv, Types, Control

\* So does every step.
LEMMA NextInv ==
  ASSUME ~ModalProxy, ~EarlyProxy, Inv, [Next]_vars
  PROVE  Inv'
<1>1. CASE Handlers
  BY <1>1, InitEventsInv, CanCreateSurfacesInv, InitialisedInv, RedrawWindowInv, AboutToWaitInv,
     ExitingInv, CloseWindowInv, WindowsClosedInv, ArmInv, RedrawHandledInv, TerminatedInv,
     CallbackReturnsInv
     DEF Handlers
<1>2. CASE RunLoop \/ Return \/ PerformBlock \/ ProxyPerform
  BY <1>2, DidFinishLaunchingInv, BeforeWaitingInv, WakeupInv, ReturnInv, PerformBlockInv,
     ProxyPerformInv
     DEF RunLoop, WakeDue
<1>3. CASE Nested
  BY <1>3, BeginTrackingInv, EndTrackingInv, BeginModalInv, ModalBeforeWaitingInv,
     ModalAfterWaitingInv, EndModalInv
     DEF Nested
<1>4. CASE Environment
  BY <1>4, StartRunInv, StartPumpInv, WakeupInv, AppKitEventInv, HandleRedrawInv, ProxyWakeUpInv,
     WillTerminateInv
     DEF Environment, WakeByAppKit
<1>5. CASE Application
  BY <1>5, CreateWindowInv, DropWindowInv, FetchDataTransferInv, RequestRedrawInv,
     SetControlFlowInv, ExitInv
     DEF Application
<1>6. CASE UNCHANGED vars
  BY <1>6, StutterInv
<1> QED BY <1>1, <1>2, <1>3, <1>4, <1>5, <1>6 DEF Next

\* The invariant of the application state.
LEMMA Invariance == ASSUME ~ModalProxy, ~EarlyProxy PROVE Spec => []Inv
<1>1. Init => Inv
  BY InitInv
<1>2. Inv /\ [Next]_vars => Inv'
  BY NextInv
<1> QED BY <1>1, <1>2, PTL DEF Spec

----
(* What a step tells the application *)

\* A callback begins, in the phase in which it may, ...
Begun ==
  /\ inside = "none"
  /\ \/ phase = "Off" /\ phase' = "Init" /\ inside' = "new_events_init"
     \/ phase = "Init" /\ phase' = "Awake" /\ inside' = "can_create_surfaces"
     \/ phase = "Asleep" /\ phase' = "Awake" /\ inside' = "new_events"
     \/ phase = "Awake" /\ phase' = "Asleep" /\ inside' = "about_to_wait"
     \/ /\ phase \in {"Awake", "Asleep"} /\ phase' = phase
        /\ inside' \in {"event", "proxy", "redraw", "destroyed"}

\* ... or one returns, or the loop ends, or the step is none of its concern.
Tells ==
  \/ Begun
  \/ inside # "none" /\ inside' = "none" /\ phase' = phase
  \/ LeftAwake
  \/ UNCHANGED <<inside, phase>>

\* The handlers of winit.
LEMMA HandlersTell ==
  ASSUME Inv, Handlers
  PROVE  Tells
<1>1. CASE InitEvents
  <2>1. pc = "begin" /\ inside = "none" /\ phase = "Off" /\ at # "gone"
    BY <1>1 DEF InitEvents, Continue, Inv, Control, Placed, Told
  <2>2. handler = "available"
    BY <2>1, Available
  <2> QED BY <1>1, <2>1, <2>2 DEF InitEvents, With, Ready, Tells, Begun
<1>2. CASE CanCreateSurfaces
  <2>1. pc = "init" /\ inside = "none" /\ phase = "Init" /\ at # "gone"
    BY <1>2 DEF CanCreateSurfaces, Continue, Inv, Control, Placed, Told
  <2>2. handler = "available"
    BY <2>1, Available
  <2> QED BY <1>2, <2>1, <2>2 DEF CanCreateSurfaces, With, Ready, Tells, Begun
<1>3. CASE RedrawWindow \/ AboutToWait
  <2>1. pc = "redraws" /\ inside = "none" /\ at = "before"
    BY <1>3 DEF RedrawWindow, AboutToWait, Continue, Inv, Control, Placed
  <2>2. phase = "Awake"
    BY <2>1 DEF Inv, Control, Running, Told, Closed
  <2>3. handler = "available"
    BY <2>1, Available
  <2> QED BY <1>3, <2>1, <2>2, <2>3 DEF RedrawWindow, AboutToWait, With, Ready, Tells, Begun
<1>4. CASE CloseWindow
  <2>1. pc = "closing" /\ inside = "none" /\ at \in {"before", "sources"}
    BY <1>4 DEF CloseWindow, Continue, Inv, Control, Placed
  <2>2. phase \in {"Awake", "Asleep"}
    BY <2>1 DEF Inv, Control, Running, Told, Closed
  <2>3. handler = "available"
    BY <2>1, Available
  <2> QED BY <1>4, <2>1, <2>2, <2>3 DEF CloseWindow, MaybeQueue, InUse, With, Ready, Tells, Begun
<1>5. CASE Initialised \/ Exiting \/ WindowsClosed \/ Arm \/ RedrawHandled \/ Terminated
  BY <1>5 DEF Initialised, Exiting, WindowsClosed, Arm, RedrawHandled, Terminated, Tells
<1>6. CASE CallbackReturns
  BY <1>6 DEF CallbackReturns, Inside, Tells
<1> QED BY <1>1, <1>2, <1>3, <1>4, <1>5, <1>6 DEF Handlers

\* Who calls the application from the sources of the run loop.
LEMMA SourcesTell ==
  ASSUME Inv, at = "sources", pc = "idle", inside = "none", running,
         inside' \in {"event", "proxy"} /\ phase' = phase
  PROVE  Tells
<1>1. phase = "Awake"
  BY DEF Inv, Control, Told, Closed
<1> QED BY <1>1 DEF Tells, Begun

\* The observers, the sources and the call itself.
LEMMA RunLoopTells ==
  ASSUME ~ModalProxy, Inv, RunLoop \/ WakeByAppKit \/ Return \/ PerformBlock \/ ProxyPerform
  PROVE  Tells
<1>1. CASE DidFinishLaunching \/ BeforeWaiting
  BY <1>1 DEF DidFinishLaunching, BeforeWaiting, Tells
<1>2. CASE WakeDue \/ WakeByAppKit
  <2>1. Wakeup /\ at = "sleep" /\ pc = "idle" /\ inside = "none"
    BY <1>2 DEF WakeDue, WakeByAppKit, Loop
  <2>2. handler = "available"
    BY <2>1, Available
  <2>3. CASE running = TRUE
    <3>1. phase = "Asleep" /\ started
      BY <2>1, <2>3 DEF Inv, Control, Running, Told, Closed
    <3> QED BY <2>1, <2>2, <2>3, <3>1 DEF Wakeup, Skips, Ready, With, Tells, Begun
  <2>4. CASE running = FALSE
    BY <2>1, <2>4 DEF Wakeup, Skips, Tells
  <2> QED BY <2>3, <2>4 DEF Inv, Types, Flags
<1>3. CASE Return
  <2>1. inside = "none" /\ UNCHANGED inside
    BY <1>3 DEF Return, Loop, Continue
  <2>2. CASE mode = "run" \/ exit
    <3>1. phase' = "Off"
      BY <1>3, <2>2 DEF Return
    <3>2. CASE phase = "Off"
      BY <2>1, <3>1, <3>2 DEF Tells
    <3>3. CASE phase # "Off"
      <4>1. running = TRUE
        BY <1>3, <3>3 DEF Return, Loop, Continue, Inv, Control, Running, Told, Types, Flags
      <4>2. phase = "Awake"
        BY <1>3, <4>1 DEF Return, Loop, Continue, Inv, Control, Placed, Told, Closed
      <4>3. exit
        BY <1>3, <2>2 DEF Return, Loop, Continue, Inv, Control, Stopped
      <4> QED BY <2>1, <3>1, <4>2, <4>3 DEF Tells, LeftAwake
    <3> QED BY <3>2, <3>3
  <2>3. CASE ~(mode = "run" \/ exit)
    BY <1>3, <2>1, <2>3 DEF Return, Tells
  <2> QED BY <2>2, <2>3
<1>4. CASE PerformBlock
  <2>1. at = "sources" /\ pc = "idle" /\ inside = "none" /\ blocks # 0
    BY <1>4 DEF PerformBlock, Loop
  <2>2. running /\ handler = "available"
    BY <2>1, Available DEF Inv, Control, Running
  <2> QED BY <1>4, <2>1, <2>2, SourcesTell DEF PerformBlock, With, Ready
<1>5. CASE ProxyPerform
  <2>1. at = "sources" /\ pc = "idle" /\ inside = "none" /\ signalled
    BY <1>5 DEF ProxyPerform, Loop, Modal, Inv, Control, Held
  <2>2. running /\ handler = "available"
    BY <2>1, Available DEF Inv, Control, Running
  <2> QED BY <1>5, <2>1, <2>2, SourcesTell DEF ProxyPerform, With, Ready
<1> QED BY <1>1, <1>2, <1>3, <1>4, <1>5 DEF RunLoop

\* What AppKit, the threads and the application do.
LEMMA OthersTell ==
  ASSUME Inv, Nested \/ (Environment /\ ~WakeByAppKit) \/ Application
  PROVE  Tells
<1>1. CASE AppKitEvent
  <2>1. at = "sources" /\ pc = "idle" /\ inside = "none" /\ running
    BY <1>1 DEF AppKitEvent, Loop
  <2>2. handler = "available"
    BY <2>1, Available
  <2> QED BY <1>1, <2>1, <2>2, SourcesTell DEF AppKitEvent, MaybeQueue, InUse, With, Ready
<1>2. CASE HandleRedraw
  <2>1. at = "sources" /\ pc = "idle" /\ inside = "none" /\ open # {}
    BY <1>2 DEF HandleRedraw, Loop
  <2>2. running /\ handler = "available"
    BY <2>1, Available DEF Inv, Control, Running
  <2> QED BY <1>2, <2>1, <2>2, SourcesTell DEF HandleRedraw, With, Ready
<1>3. CASE StartRun \/ StartPump \/ ProxyWakeUp \/ WillTerminate
  BY <1>3 DEF StartRun, StartPump, ProxyWakeUp, WillTerminate, call_vars, Tells
<1>4. CASE ModalAfterWaiting
  <2>1. ~Ready
    BY <1>4 DEF ModalAfterWaiting, Modal, Ready, Inv, Control, Held
  <2> QED BY <1>4, <2>1 DEF ModalAfterWaiting, Skips, Tells
<1>5. CASE BeginTracking \/ EndTracking \/ BeginModal \/ ModalBeforeWaiting \/ EndModal
  BY <1>5 DEF BeginTracking, EndTracking, BeginModal, ModalBeforeWaiting, EndModal, call_vars, Tells
<1>6. CASE DropWindow \/ FetchDataTransfer
  <2>1. InUse
    BY <1>6 DEF DropWindow, FetchDataTransfer, Inside, InUse, Inv, Control, Held
  <2> QED BY <1>6, <2>1 DEF DropWindow, FetchDataTransfer, MaybeQueue, Tells
<1>7. CASE CreateWindow \/ RequestRedraw \/ SetControlFlow \/ Exit
  BY <1>7 DEF CreateWindow, RequestRedraw, SetControlFlow, Exit, call_vars, Tells
<1> QED BY <1>1, <1>2, <1>3, <1>4, <1>5, <1>6, <1>7 DEF Nested, Environment, Application

\* Every step.
LEMMA NextTells ==
  ASSUME ~ModalProxy, Inv, [Next]_vars
  PROVE  Tells
<1>1. CASE UNCHANGED vars
  BY <1>1 DEF vars, call_vars, Tells
<1>2. CASE RunLoop \/ WakeByAppKit \/ Return \/ PerformBlock \/ ProxyPerform
  BY <1>2, RunLoopTells
<1>3. CASE Nested \/ (Environment /\ ~WakeByAppKit) \/ Application
  BY <1>3, OthersTell
<1> QED BY <1>1, <1>2, <1>3, HandlersTell DEF Next

\* What is told is a step of AppLifecycle, the end of an exit, or nothing.
LEMMA TellsRefines ==
  ASSUME Inv, Tells
  PROVE  [Lifecycle!AppNext \/ LeftAwake]_<<phase, inside>>
<1>1. CASE Begun
  <2>1. CASE phase = "Off" /\ phase' = "Init" /\ inside' = "new_events_init"
    BY <1>1, <2>1 DEF Begun, Lifecycle!AppNext, Lifecycle!Begin, Lifecycle!Invoke
  <2>2. CASE phase = "Init" /\ phase' = "Awake" /\ inside' = "can_create_surfaces"
    BY <1>1, <2>2 DEF Begun, Lifecycle!AppNext, Lifecycle!CreateSurfaces, Lifecycle!Invoke
  <2>3. CASE phase = "Asleep" /\ phase' = "Awake" /\ inside' = "new_events"
    BY <1>1, <2>3 DEF Begun, Lifecycle!AppNext, Lifecycle!Wake, Lifecycle!Invoke
  <2>4. CASE phase = "Awake" /\ phase' = "Asleep" /\ inside' = "about_to_wait"
    BY <1>1, <2>4 DEF Begun, Lifecycle!AppNext, Lifecycle!Sleep, Lifecycle!Invoke
  <2>5. CASE /\ phase = "Awake" /\ phase' = phase
             /\ inside' \in {"event", "proxy", "redraw", "destroyed"}
    BY <1>1, <2>5 DEF Begun, Lifecycle!AppNext, Lifecycle!Deliver, Lifecycle!Invoke
  <2>6. CASE /\ phase = "Asleep" /\ phase' = phase
             /\ inside' \in {"event", "proxy", "redraw", "destroyed"}
    BY <1>1, <2>6 DEF Begun, Lifecycle!AppNext, Lifecycle!DeliverTrailing, Lifecycle!Invoke
  <2> QED BY <1>1, <2>1, <2>2, <2>3, <2>4, <2>5, <2>6 DEF Begun
<1>2. CASE inside # "none" /\ inside' = "none" /\ phase' = phase
  BY <1>2 DEF Lifecycle!AppNext, Lifecycle!Return
<1>3. CASE LeftAwake \/ UNCHANGED <<inside, phase>>
  BY <1>3
<1> QED BY <1>1, <1>2, <1>3 DEF Tells

----
(* Theorems *)

\* The variables keep their types, and no more closures are queued than operations
\* were made.
THEOREM TypeCorrectness == ASSUME ~ModalProxy, ~EarlyProxy PROVE Spec => []TypeOK
BY Invariance, Parts, PTL

\* The application is never entered while it executes, wakeup finds a start_time
\* in every turn, and run_app_on_demand returns with every window closed.
THEOREM IsIntact == ASSUME ~ModalProxy, ~EarlyProxy PROVE Spec => []Intact
<1>1. Inv => Intact
  BY DEF Inv, Control, Held, Stopped, Intact, NoPanic, NoWindowLingersAfterRun
<1> QED BY <1>1, Invariance, PTL

\* Every step is one of AppLifecycle for the application, or leaves it after an
\* exit without the last about_to_wait, in runs and pumps that follow each other,
\* with tracking loops, modal loops, closures and termination in between.
THEOREM KeepsOrder == ASSUME ~ModalProxy, ~EarlyProxy PROVE Spec => Order
<1>1. Init => Lifecycle!AppInit
  BY DEF Init, Fresh, Lifecycle!AppInit
<1>2. Inv /\ [Next]_vars => [Lifecycle!AppNext \/ LeftAwake]_<<phase, inside>>
  BY NextTells, TellsRefines
<1> QED BY <1>1, <1>2, Invariance, PTL DEF Spec, Order

----
(* Fullscreen *)

\* A window that animates is in transition, and so is one that is still fullscreen
\* after a failed exit; only then a target is kept.  A window that is not fullscreen
\* is not meant to be either, unless it is to be toggled once more.
Animated(s) ==
  /\ s.native \in {"entering", "exiting"} => s.in_fullscreen_transition = TRUE
  /\ s.in_fullscreen_transition = TRUE => s.native # "window"
  /\ s.target_fullscreen # "unset" => s.in_fullscreen_transition = TRUE
  /\ s.native = "entering" => s.fullscreen # "window"
  /\ s.native = "exiting" => s.fullscreen \notin Displays
  /\ s.native = "full" =>
       IF s.in_fullscreen_transition = TRUE THEN s.fullscreen \notin Displays
       ELSE s.fullscreen # "window"
  /\ s.native = "window" => (s.fullscreen = "window" <=> s.retry = FALSE)
  /\ s.retry = TRUE => s.native = "window"
  /\ s.is_simple_fullscreen = TRUE \/ s.auxiliary = TRUE =>
       s.native = "window" /\ s.fullscreen = "window" /\ s.deferred = <<>>

\* The display that is captured is the one the window is to be shown on.
Covers(s) == s.captured = {s.fullscreen} \cap Displays

\* The style the application gave the window is put aside while another is needed.
Framed(s) ==
  /\ s.saved_style = None => s.style = [decorated |-> s.decorations, resizable |-> s.resizable]
  /\ s.saved_style # None =>
       s.saved_style = [decorated |-> s.decorations, resizable |-> s.resizable]
  /\ s.native = "window" /\ s.fullscreen = "window" /\ s.is_simple_fullscreen = FALSE =>
       s.saved_style = None

\* The modes the window has, or was asked for: one display at most.
Asks(s) == {s.fullscreen, s.target_fullscreen} \cup {s.deferred[i] : i \in DOMAIN s.deferred}
Meets(s, m) == m \in Displays => \A n \in Displays : n \in Asks(s) => n = m
Single(s) == \A m, n \in Displays : m \in Asks(s) /\ n \in Asks(s) => m = n

Kept(s) == s \in Fullscreen!Window /\ s.closed = FALSE /\ Animated(s) /\ Covers(s) /\ Framed(s)

\* Until a window that was created fullscreen is, it animates or tries again.
Started(s) ==
  /\ s.initial_fullscreen = TRUE => s.native = "entering" \/ s.retry = TRUE
  /\ s.retry = TRUE => s.initial_fullscreen = TRUE

\* A window that was dropped has given its display back, or will when the run loop
\* comes to the call that was put off.
Gone(s) ==
  /\ s \in Fullscreen!Window /\ s.closed = TRUE /\ s.retry = FALSE
  /\ \/ s.deferred = <<>> /\ s.captured = {}
     \/ /\ s.deferred = <<"window">> /\ s.fullscreen \in Displays
        /\ s.captured = {s.fullscreen}
        /\ s.is_simple_fullscreen = FALSE /\ s.in_fullscreen_transition = FALSE

\* A careful application has at most one call put off, to a window at rest.
Heeds(s, e) ==
  e.careful = TRUE =>
    \/ s.deferred = <<>>
    \/ \E m \in Fullscreen!Modes :
         s.deferred = <<m>> /\ s.in_fullscreen_transition = FALSE /\ s.retry = FALSE

\* Where the window is heading: the mode asked for last, except after a failed exit.
Goal(s) ==
  IF s.deferred # <<>> THEN Head(s.deferred)
  ELSE IF s.target_fullscreen # "unset" THEN s.target_fullscreen
  ELSE IF s.native = "exiting" THEN "window"
  ELSE s.fullscreen
Stuck(s) == s.native = "full" /\ s.in_fullscreen_transition = TRUE
Heard(s, asked, e) == e.careful = TRUE => Stuck(s) \/ asked = Goal(s)

\* Entering fails only for a window that is created fullscreen and asked for nothing.
FailsEarly(s, e) ==
  /\ s.retry = TRUE => "enter" \in e.faults
  /\ "enter" \in e.faults =>
       /\ s.native = "entering" => s.initial_fullscreen = TRUE
       /\ s.deferred = <<>> /\ s.target_fullscreen = "unset" /\ s.native # "exiting"
       /\ s.native = "full" => s.in_fullscreen_transition = FALSE

Alive(s, asked, e) ==
  /\ Kept(s) /\ Single(s) /\ Started(s)
  /\ Heeds(s, e) /\ Heard(s, asked, e) /\ FailsEarly(s, e)

Shown ==
  /\ handling \in BOOLEAN /\ wanted \in Fullscreen!Modes /\ env \in Environments
  /\ Gone(window) \/ Alive(window, wanted, env)

\* Environments in which the delegate keeps up: video modes are found, entering fails
\* only as above, who is not careful does nothing but ask for modes, and nobody asks a
\* window to go from one display to another.
Sensible(e) ==
  /\ e.start \in Fullscreen!Modes /\ "mode" \notin e.faults /\ e.moves = FALSE
  /\ "enter" \in e.faults => e.careful = TRUE /\ e.ops \cap {"set", "remote", "user"} = {}
  /\ e.careful = TRUE \/ e.ops \cap {"decorate", "resizable", "simple", "auxiliary", "drop"} = {}

----
\* The modes are different things.
LEMMA ModesDiffer ==
  /\ "window" \notin Displays /\ "borderless" \notin Displays /\ "unset" \notin Displays
  /\ "window" \in Fullscreen!Modes /\ "borderless" \in Fullscreen!Modes /\ Displays \subseteq Fullscreen!Modes
  /\ Fullscreen!Modes = {"window", "borderless"} \cup Displays
BY DisplaysAssumption DEF Fullscreen!Modes

\* The window remains to be on one display if it meets what it is asked for.
LEMMA Singles ==
  ASSUME NEW s, NEW t, NEW m, Single(s), Meets(s, m), Asks(t) \subseteq Asks(s) \cup {m, "unset", "window"}
  PROVE  Single(t)
<1> SUFFICES ASSUME NEW n \in Displays, NEW k \in Displays, n \in Asks(t), k \in Asks(t)
             PROVE  n = k
  BY DEF Single
<1>1. n \in Asks(s) \cup {m} /\ k \in Asks(s) \cup {m}
  BY ModesDiffer
<1> QED BY <1>1 DEF Single, Meets

\* A window that asks for nothing new.
LEMMA AsksAlike ==
  ASSUME NEW s, NEW t, Single(s), t.fullscreen \in {s.fullscreen, "window", "borderless"},
         t.target_fullscreen \in {s.target_fullscreen, "unset"}, t.deferred = s.deferred
  PROVE  Single(t)
BY ModesDiffer DEF Single, Asks

\* What the window gets back is a style.
LEMMA StyleBack ==
  ASSUME None \notin Fullscreen!Styles, NEW s \in Fullscreen!Window, Framed(s)
  PROVE  Fullscreen!MaskRestored(s) = [decorated |-> s.decorations, resizable |-> s.resizable]
<1>1. s.style \in Fullscreen!Styles /\ (s.saved_style = None \/ s.saved_style \in Fullscreen!Styles)
  BY DEF Fullscreen!Window
<1> QED BY <1>1 DEF Fullscreen!MaskRestored, Framed, Fullscreen!Styles

\* Entering, from a window that was not fullscreen, or was meant to be.
LEMMA EnterKept ==
  ASSUME NEW s \in Fullscreen!Window, s.closed = FALSE, Covers(s), Framed(s), s.native = "window",
         s.target_fullscreen = "unset", s.is_simple_fullscreen = FALSE, s.auxiliary = FALSE,
         s.retry = FALSE
  PROVE  Kept(Fullscreen!WillEnter(s))
<1> DEFINE t == Fullscreen!WillEnter(s)
<1>1. t \in Fullscreen!Window
  BY ModesDiffer DEF Fullscreen!WillEnter, Fullscreen!Window
<1>2. t.closed = FALSE /\ Animated(t)
  BY ModesDiffer DEF Fullscreen!WillEnter, Fullscreen!Window, Animated
<1>3. Covers(t)
  BY ModesDiffer DEF Fullscreen!WillEnter, Fullscreen!Window, Covers
<1>4. Framed(t)
  BY ModesDiffer DEF Fullscreen!WillEnter, Fullscreen!Window, Framed
<1> QED BY <1>1, <1>2, <1>3, <1>4 DEF Kept

\* Leaving, from a window that is fullscreen and whose display was released.
LEMMA ExitKept ==
  ASSUME NEW s \in Fullscreen!Window, s.closed = FALSE, Covers(s), Framed(s), s.native = "full",
         s.fullscreen \notin Displays, s.is_simple_fullscreen = FALSE, s.auxiliary = FALSE,
         s.retry = FALSE
  PROVE  Kept(Fullscreen!WillExit(s))
<1> DEFINE t == Fullscreen!WillExit(s)
<1>1. t \in Fullscreen!Window
  BY ModesDiffer DEF Fullscreen!WillExit, Fullscreen!Window
<1>2. t.closed = FALSE /\ Animated(t)
  BY ModesDiffer DEF Fullscreen!WillExit, Fullscreen!Window, Animated
<1>3. Covers(t)
  BY ModesDiffer DEF Fullscreen!WillExit, Fullscreen!Window, Covers
<1>4. Framed(t)
  BY ModesDiffer DEF Fullscreen!WillExit, Fullscreen!Window, Framed
<1> QED BY <1>1, <1>2, <1>3, <1>4 DEF Kept

\* What Change does with a window at rest.
Changed(s, t, m) ==
  /\ t.deferred = s.deferred /\ t.target_fullscreen = "unset"
  /\ t.initial_fullscreen = s.initial_fullscreen /\ t.retry = FALSE
  /\ t.is_simple_fullscreen = FALSE /\ t.fullscreen = m
  /\ \/ t.native = "entering"
     \/ t.native = "exiting" /\ m = "window"
     \/ t.native = "full" /\ t.in_fullscreen_transition = FALSE

\* A window at rest becomes fullscreen: it is dressed, its display is captured.
LEMMA ChangeIn ==
  ASSUME None \notin Fullscreen!Styles, NEW s, NEW m \in Fullscreen!Modes, Kept(s),
         s.is_simple_fullscreen = FALSE, s.auxiliary = FALSE,
         s.in_fullscreen_transition = FALSE,
         s.retry = FALSE, s.fullscreen = "window", m # "window"
  PROVE  /\ Kept(Fullscreen!Change(s, m, TRUE)) /\ Changed(s, Fullscreen!Change(s, m, TRUE), m)
         /\ Fullscreen!Change(s, m, TRUE).native = "entering"
<1> DEFINE c == [s EXCEPT !.captured = s.captured \cup ({m} \cap Displays),
                          !.fullscreen = m]
           d == Fullscreen!Dressed(c)
<1>1. /\ s \in Fullscreen!Window /\ s.closed = FALSE /\ s.native = "window"
      /\ s.target_fullscreen = "unset" /\ s.captured = {} /\ s.saved_style = None
      /\ s.style = [decorated |-> s.decorations, resizable |-> s.resizable]
  <2>1. s \in Fullscreen!Window /\ s.closed = FALSE /\ Animated(s) /\ Covers(s) /\ Framed(s)
    BY DEF Kept
  <2>2. s.native \in {"window", "entering", "full", "exiting"}
    BY <2>1 DEF Fullscreen!Window
  <2>3. s.native = "window" /\ s.target_fullscreen = "unset"
    BY <2>1, <2>2 DEF Animated
  <2> QED BY <2>1, <2>3, ModesDiffer DEF Covers, Framed
<1>2. /\ c \in Fullscreen!Window /\ c.closed = FALSE /\ c.native = "window" /\ c.fullscreen = m
      /\ c.target_fullscreen = "unset" /\ c.captured = {m} \cap Displays
      /\ c.saved_style = None /\ c.style = s.style /\ c.decorations = s.decorations
      /\ c.resizable = s.resizable /\ c.is_simple_fullscreen = FALSE /\ c.retry = FALSE
      /\ c.auxiliary = FALSE
      /\ c.deferred = s.deferred /\ c.initial_fullscreen = s.initial_fullscreen
  BY <1>1, ModesDiffer DEF Fullscreen!Window
<1>3. Fullscreen!Change(s, m, TRUE) = Fullscreen!toggleFullScreen(d)
  <2>1. Fullscreen!Change(s, m, TRUE) = Fullscreen!Switch(c, s.fullscreen, m)
    BY <1>1 DEF Fullscreen!Change, Fullscreen!NoScreen, Fullscreen!Window
  <2> QED BY <2>1 DEF Fullscreen!Switch
<1>4. /\ d \in Fullscreen!Window /\ d.closed = FALSE /\ d.native = "window" /\ d.fullscreen = m
      /\ d.target_fullscreen = "unset" /\ d.captured = {m} \cap Displays
      /\ d.is_simple_fullscreen = FALSE /\ d.retry = FALSE /\ d.deferred = s.deferred
      /\ d.auxiliary = FALSE
      /\ d.initial_fullscreen = s.initial_fullscreen
      /\ d.decorations = s.decorations /\ d.resizable = s.resizable
  <2> HIDE DEF c
  <2>1. Fullscreen!required \in Fullscreen!Styles /\ c.style \in Fullscreen!Styles
    BY <1>2 DEF Fullscreen!required, Fullscreen!Styles, Fullscreen!Window
  <2> QED BY <1>2, <2>1 DEF Fullscreen!Dressed, Fullscreen!Window
<1>5. Framed(d)
  <2> HIDE DEF c
  <2>1. c.style \in Fullscreen!Styles /\ c.style # None
    BY <1>2 DEF Fullscreen!Window
  <2>2. \/ d = c
        \/ d.saved_style = c.style
    BY <1>2 DEF Fullscreen!Dressed, Fullscreen!Window
  <2> QED BY <1>1, <1>2, <1>4, <2>1, <2>2 DEF Framed
<1>6. Fullscreen!toggleFullScreen(d) = Fullscreen!WillEnter(d)
  <2> HIDE DEF d
  <2> QED BY <1>4 DEF Fullscreen!toggleFullScreen
<1>7. Kept(Fullscreen!WillEnter(d))
  <2> HIDE DEF d
  <2> QED BY <1>4, <1>5, EnterKept DEF Covers
<1>8. Changed(s, Fullscreen!WillEnter(d), m) /\ Fullscreen!WillEnter(d).native = "entering"
  <2> HIDE DEF d
  <2> QED BY <1>4 DEF Fullscreen!WillEnter, Fullscreen!Window, Changed
<1> HIDE DEF d
<1> QED BY <1>3, <1>6, <1>7, <1>8

\* A window at rest in fullscreen leaves it, or changes its mode without a toggle.
LEMMA ChangeOut ==
  ASSUME None \notin Fullscreen!Styles, NEW s, NEW m \in Fullscreen!Modes, Kept(s),
         s.is_simple_fullscreen = FALSE, s.in_fullscreen_transition = FALSE,
         s.retry = FALSE, s.fullscreen # "window", m # s.fullscreen, Meets(s, m)
  PROVE  Kept(Fullscreen!Change(s, m, TRUE)) /\ Changed(s, Fullscreen!Change(s, m, TRUE), m)
<1> DEFINE was == s.fullscreen
           c == [s EXCEPT !.captured = s.captured \cup ({m} \cap Displays),
                          !.fullscreen = m]
           d == IF was \in Displays /\ m \notin Displays THEN Fullscreen!Release(c, was) ELSE c
<1>1. /\ s \in Fullscreen!Window /\ s.closed = FALSE /\ s.native = "full"
      /\ s.target_fullscreen = "unset" /\ s.captured = {was} \cap Displays /\ Framed(s)
      /\ s.auxiliary = FALSE
  <2>1. s \in Fullscreen!Window /\ s.closed = FALSE /\ Animated(s) /\ Covers(s) /\ Framed(s)
    BY DEF Kept
  <2>2. s.native \in {"window", "entering", "full", "exiting"}
    BY <2>1 DEF Fullscreen!Window
  <2>3. s.native = "full" /\ s.target_fullscreen = "unset"
    BY <2>1, <2>2 DEF Animated
  <2>4. s.auxiliary = FALSE
    BY <2>1, <2>3 DEF Animated, Fullscreen!Window
  <2> QED BY <2>1, <2>3, <2>4 DEF Covers
<1>2. /\ c \in Fullscreen!Window /\ c.closed = FALSE /\ c.native = "full" /\ c.fullscreen = m
      /\ c.target_fullscreen = "unset" /\ c.captured = ({was} \cup {m}) \cap Displays
      /\ c.saved_style = s.saved_style /\ c.style = s.style /\ c.decorations = s.decorations
      /\ c.resizable = s.resizable /\ c.is_simple_fullscreen = FALSE /\ c.retry = FALSE
      /\ c.auxiliary = FALSE
      /\ c.deferred = s.deferred /\ c.initial_fullscreen = s.initial_fullscreen
      /\ c.in_fullscreen_transition = FALSE
  BY <1>1, ModesDiffer DEF Fullscreen!Window
<1>3. Fullscreen!Change(s, m, TRUE) =
        IF m = "window" THEN Fullscreen!toggleFullScreen(d) ELSE d
  <2>1. Fullscreen!Change(s, m, TRUE) = Fullscreen!Switch(c, was, m)
    BY <1>1 DEF Fullscreen!Change, Fullscreen!NoScreen, Fullscreen!Window
  <2> HIDE DEF c
  <2> QED BY <2>1, ModesDiffer DEF Fullscreen!Switch
<1>4. /\ d \in Fullscreen!Window /\ d.closed = FALSE /\ d.native = "full" /\ d.fullscreen = m
      /\ d.target_fullscreen = "unset" /\ Covers(d) /\ Framed(d)
      /\ d.is_simple_fullscreen = FALSE /\ d.retry = FALSE /\ d.deferred = s.deferred
      /\ d.auxiliary = FALSE
      /\ d.initial_fullscreen = s.initial_fullscreen /\ d.in_fullscreen_transition = FALSE
  <2> HIDE DEF c
  <2>1. CASE was \in Displays /\ m \notin Displays
    <3>1. d = Fullscreen!Release(c, was)
      BY <2>1
    <3>2. Fullscreen!Release(c, was).captured = {}
      BY <1>2, <2>1 DEF Fullscreen!Release, Fullscreen!Window
    <3>3. Fullscreen!Release(c, was) \in Fullscreen!Window /\ Framed(Fullscreen!Release(c, was))
      BY <1>1, <1>2, <2>1 DEF Fullscreen!Release, Fullscreen!Window, Framed
    <3>4. /\ Fullscreen!Release(c, was).closed = FALSE /\ Fullscreen!Release(c, was).native = "full"
          /\ Fullscreen!Release(c, was).fullscreen = m /\ Fullscreen!Release(c, was).target_fullscreen = "unset"
          /\ Fullscreen!Release(c, was).is_simple_fullscreen = FALSE /\ Fullscreen!Release(c, was).retry = FALSE
          /\ Fullscreen!Release(c, was).deferred = s.deferred
          /\ Fullscreen!Release(c, was).auxiliary = FALSE
          /\ Fullscreen!Release(c, was).initial_fullscreen = s.initial_fullscreen
          /\ Fullscreen!Release(c, was).in_fullscreen_transition = FALSE
      BY <1>2 DEF Fullscreen!Release, Fullscreen!Window
    <3>5. Covers(Fullscreen!Release(c, was))
      BY <2>1, <3>2, <3>4 DEF Covers
    <3> QED BY <3>1, <3>3, <3>4, <3>5
  <2>2. CASE ~(was \in Displays /\ m \notin Displays)
    <3>1. d = c
      BY <2>2
    <3>2. c.captured = {m} \cap Displays
      <4>1. was \in Displays => m # was /\ m \in Displays /\ was \in Asks(s)
        BY <2>2 DEF Asks
      <4> QED BY <1>2, <4>1 DEF Meets
    <3> QED BY <1>1, <1>2, <3>1, <3>2 DEF Covers, Framed
  <2> QED BY <2>1, <2>2
<1> HIDE DEF d
<1>5. CASE m = "window"
  <2>1. Fullscreen!toggleFullScreen(d) = Fullscreen!WillExit(d)
    BY <1>4 DEF Fullscreen!toggleFullScreen
  <2>2. Kept(Fullscreen!WillExit(d))
    BY <1>4, <1>5, ModesDiffer, ExitKept
  <2>3. Changed(s, Fullscreen!WillExit(d), m)
    BY <1>4, <1>5 DEF Fullscreen!WillExit, Fullscreen!Window, Changed
  <2> QED BY <1>3, <1>5, <2>1, <2>2, <2>3
<1>6. CASE m # "window"
  <2>1. Animated(d)
    BY <1>4, <1>6 DEF Animated
  <2> QED BY <1>3, <1>4, <1>6, <2>1 DEF Kept, Changed
<1> QED BY <1>5, <1>6

\* What set_fullscreen does with a window, by the state the window is in.
Sets(s, t, m, busy) ==
  \/ /\ t = s
     /\ \/ s.is_simple_fullscreen = TRUE \/ s.auxiliary = TRUE
        \/ s.in_fullscreen_transition = FALSE /\ m = s.fullscreen
  \/ /\ s.is_simple_fullscreen = FALSE /\ s.in_fullscreen_transition = TRUE
     /\ t = [s EXCEPT !.target_fullscreen = m]
  \/ /\ s.is_simple_fullscreen = FALSE /\ s.in_fullscreen_transition = FALSE
     /\ busy = TRUE /\ t = [s EXCEPT !.deferred = Append(s.deferred, m)]
  \/ /\ s.is_simple_fullscreen = FALSE /\ s.in_fullscreen_transition = FALSE
     /\ Changed(s, t, m)

\* Whatever the mode, set_fullscreen keeps the window in order.
LEMMA SetKept ==
  ASSUME None \notin Fullscreen!Styles, NEW s, NEW m \in Fullscreen!Modes, NEW busy \in BOOLEAN, Kept(s),
         s.retry = FALSE, Meets(s, m)
  PROVE  /\ Kept(Fullscreen!set_fullscreen(s, m, busy, TRUE))
         /\ Sets(s, Fullscreen!set_fullscreen(s, m, busy, TRUE), m, busy)
<1> DEFINE t == Fullscreen!set_fullscreen(s, m, busy, TRUE)
<1>0. /\ s \in Fullscreen!Window /\ s.closed = FALSE /\ Animated(s) /\ Covers(s) /\ Framed(s)
      /\ s.is_simple_fullscreen \in BOOLEAN /\ s.in_fullscreen_transition \in BOOLEAN
      /\ s.initial_fullscreen \in BOOLEAN /\ s.deferred \in Seq(Fullscreen!Modes)
      /\ s.auxiliary \in BOOLEAN
  BY DEF Kept, Fullscreen!Window
<1>1. CASE \/ Fullscreen!Refuses(s, m)
           \/ s.in_fullscreen_transition = FALSE /\ m = s.fullscreen
  <2>1. t = s
    BY <1>0, <1>1 DEF Fullscreen!set_fullscreen, Fullscreen!InTransition
  <2> QED BY <1>0, <1>1, <2>1 DEF Sets, Fullscreen!Refuses
<1>2. CASE ~Fullscreen!Refuses(s, m) /\ s.in_fullscreen_transition = TRUE
  <2>1. t = [s EXCEPT !.target_fullscreen = m]
    BY <1>0, <1>2 DEF Fullscreen!set_fullscreen, Fullscreen!InTransition
  <2>2. [s EXCEPT !.target_fullscreen = m] \in Fullscreen!Window
    BY <1>0 DEF Fullscreen!Window
  <2>3. Kept([s EXCEPT !.target_fullscreen = m])
    BY <1>0, <1>2, <2>2 DEF Kept, Animated, Covers, Framed, Fullscreen!Window
  <2> QED BY <1>0, <1>2, <2>1, <2>3 DEF Sets, Fullscreen!Refuses
<1>3. CASE /\ ~Fullscreen!Refuses(s, m) /\ s.in_fullscreen_transition = FALSE
           /\ m # s.fullscreen /\ busy = TRUE /\ s.initial_fullscreen = FALSE
  <2> DEFINE u == [s EXCEPT !.deferred = Append(s.deferred, m)]
  <2>1. t = u
    BY <1>0, <1>3 DEF Fullscreen!set_fullscreen, Fullscreen!InTransition
  <2>2. Append(s.deferred, m) \in Seq(Fullscreen!Modes)
    BY <1>0
  <2>3. u \in Fullscreen!Window
    BY <1>0, <2>2 DEF Fullscreen!Window
  <2>4. Kept(u)
    BY <1>0, <1>3, <2>3 DEF Kept, Animated, Covers, Framed, Fullscreen!Window, Fullscreen!Refuses
  <2> QED BY <1>0, <1>3, <2>1, <2>4 DEF Sets, Fullscreen!Refuses
<1>4. CASE /\ ~Fullscreen!Refuses(s, m) /\ s.in_fullscreen_transition = FALSE
           /\ m # s.fullscreen /\ (busy = FALSE \/ s.initial_fullscreen = TRUE)
  <2>1. t = Fullscreen!Change(s, m, TRUE)
    BY <1>0, <1>4 DEF Fullscreen!set_fullscreen, Fullscreen!InTransition
  <2>2. Kept(Fullscreen!Change(s, m, TRUE)) /\ Changed(s, Fullscreen!Change(s, m, TRUE), m)
    BY <1>0, <1>4, ChangeIn, ChangeOut DEF Fullscreen!Refuses
  <2> QED BY <1>0, <1>4, <2>1, <2>2 DEF Sets, Fullscreen!Refuses
<1> QED BY <1>0, <1>1, <1>2, <1>3, <1>4

\* The window asks for what it did, or for the mode.
LEMMA SetsAsk ==
  ASSUME NEW s \in Fullscreen!Window, NEW t, NEW m, NEW busy, Sets(s, t, m, busy), Single(s), Meets(s, m)
  PROVE  Single(t)
<1>1. s.deferred \in Seq(Fullscreen!Modes)
  BY DEF Fullscreen!Window
<1>2. CASE t = s
  BY <1>2
<1>3. CASE t = [s EXCEPT !.target_fullscreen = m]
  <2>1. t.fullscreen = s.fullscreen /\ t.target_fullscreen = m /\ t.deferred = s.deferred
    BY <1>3 DEF Fullscreen!Window
  <2>2. Asks(t) \subseteq Asks(s) \cup {m, "unset", "window"}
    BY <2>1 DEF Asks
  <2> QED BY <2>2, Singles
<1>4. CASE t = [s EXCEPT !.deferred = Append(s.deferred, m)]
  <2>1. /\ t.fullscreen = s.fullscreen /\ t.target_fullscreen = s.target_fullscreen
        /\ t.deferred = Append(s.deferred, m)
    BY <1>4 DEF Fullscreen!Window
  <2>2. \A i \in DOMAIN t.deferred :
          t.deferred[i] = m \/ \E j \in DOMAIN s.deferred : t.deferred[i] = s.deferred[j]
    BY <1>1, <2>1
  <2>3. Asks(t) \subseteq Asks(s) \cup {m, "unset", "window"}
    BY <2>1, <2>2 DEF Asks
  <2> QED BY <2>3, Singles
<1>5. CASE Changed(s, t, m)
  <2>1. t.fullscreen = m /\ t.target_fullscreen = "unset" /\ t.deferred = s.deferred
    BY <1>5 DEF Changed
  <2>2. Asks(t) \subseteq Asks(s) \cup {m, "unset", "window"}
    BY <2>1 DEF Asks
  <2> QED BY <2>2, Singles
<1> QED BY <1>2, <1>3, <1>4, <1>5 DEF Sets

\* The end of an animation, with the mode asked for during it.
Ended(s, u, t) ==
  /\ Kept(t) /\ t.initial_fullscreen = FALSE /\ t.retry = FALSE
  /\ IF s.target_fullscreen = "unset" THEN t = u
     ELSE /\ Sets(u, t, s.target_fullscreen, FALSE) /\ s.target_fullscreen \in Fullscreen!Modes
          /\ u.is_simple_fullscreen = FALSE /\ u.auxiliary = FALSE /\ u \in Fullscreen!Window
  /\ u.deferred = s.deferred /\ u.target_fullscreen = "unset"
  /\ u.in_fullscreen_transition = FALSE /\ u.native \in {"window", "full"}

\* Taking the target up from a window that has just come to rest.
LEMMA TakeKept ==
  ASSUME None \notin Fullscreen!Styles, NEW s \in Fullscreen!Window, NEW u,
         u = [s EXCEPT !.target_fullscreen = "unset"], Kept(u), u.retry = FALSE,
         u.initial_fullscreen = FALSE, u.is_simple_fullscreen = FALSE, u.auxiliary = FALSE,
         Meets(u, s.target_fullscreen), u.in_fullscreen_transition = FALSE, u.native \in {"window", "full"}
  PROVE  Ended(s, u, Fullscreen!TakeTarget(s, TRUE))
<1>1. u.target_fullscreen = "unset" /\ u.deferred = s.deferred
  BY DEF Fullscreen!Window
<1>2. CASE s.target_fullscreen = "unset"
  <2>1. Fullscreen!TakeTarget(s, TRUE) = s
    BY <1>2 DEF Fullscreen!TakeTarget
  <2>2. u = s
    BY <1>2 DEF Fullscreen!Window
  <2> QED BY <1>1, <1>2, <2>1, <2>2 DEF Ended
<1>3. CASE s.target_fullscreen # "unset"
  <2> DEFINE t == Fullscreen!set_fullscreen(u, s.target_fullscreen, FALSE, TRUE)
  <2>1. Fullscreen!TakeTarget(s, TRUE) = t
    BY <1>3 DEF Fullscreen!TakeTarget
  <2>2. s.target_fullscreen \in Fullscreen!Modes
    BY <1>3 DEF Fullscreen!Window
  <2>3. Kept(t) /\ Sets(u, t, s.target_fullscreen, FALSE) /\ u \in Fullscreen!Window
    BY <2>2, SetKept DEF Kept
  <2>4. t.initial_fullscreen = FALSE /\ t.retry = FALSE
    <3> HIDE DEF t
    <3> QED BY <2>3 DEF Sets, Changed
  <2> HIDE DEF t
  <2> QED BY <1>1, <1>3, <2>1, <2>2, <2>3, <2>4 DEF Ended
<1> QED BY <1>2, <1>3

\* windowDidEnterFullScreen: what was entered is fullscreen.
LEMMA DidEnterKept ==
  ASSUME None \notin Fullscreen!Styles, NEW s, Kept(s), Single(s), s.native = "entering"
  PROVE  \E u : /\ Ended(s, u, Fullscreen!DidEnter(s, TRUE)) /\ u.native = "full"
                /\ u.fullscreen = s.fullscreen
<1> DEFINE r == [s EXCEPT !.native = "full", !.initial_fullscreen = FALSE,
                          !.in_fullscreen_transition = FALSE]
           u == [r EXCEPT !.target_fullscreen = "unset"]
<1>1. /\ s \in Fullscreen!Window /\ s.closed = FALSE /\ Animated(s) /\ Covers(s) /\ Framed(s)
      /\ s.is_simple_fullscreen \in BOOLEAN /\ s.retry \in BOOLEAN
  BY DEF Kept, Fullscreen!Window
<1>2. /\ s.in_fullscreen_transition = TRUE /\ s.fullscreen # "window" /\ s.retry = FALSE
      /\ s.is_simple_fullscreen = FALSE /\ s.auxiliary = FALSE
  BY <1>1 DEF Animated, Fullscreen!Window
<1>3. r \in Fullscreen!Window /\ r.target_fullscreen = s.target_fullscreen /\ r.deferred = s.deferred
  BY <1>1 DEF Fullscreen!Window
<1>4. /\ u \in Fullscreen!Window /\ u.closed = FALSE /\ u.native = "full" /\ u.retry = FALSE
      /\ u.fullscreen = s.fullscreen /\ u.captured = s.captured /\ u.style = s.style
      /\ u.saved_style = s.saved_style /\ u.decorations = s.decorations
      /\ u.resizable = s.resizable /\ u.initial_fullscreen = FALSE
      /\ u.is_simple_fullscreen = FALSE /\ u.in_fullscreen_transition = FALSE
      /\ u.target_fullscreen = "unset" /\ u.auxiliary = FALSE /\ u.deferred = s.deferred
  BY <1>1, <1>2 DEF Fullscreen!Window
<1>5. Kept(u)
  <2> HIDE DEF u
  <2> QED BY <1>1, <1>2, <1>4 DEF Kept, Animated, Covers, Framed
<1>6. Ended(r, u, Fullscreen!TakeTarget(r, TRUE))
  <2>1. Meets(u, r.target_fullscreen)
    <3> HIDE DEF r, u
    <3> QED BY <1>3, <1>4, ModesDiffer DEF Meets, Asks, Single
  <2> HIDE DEF r
  <2> QED BY <1>3, <1>4, <1>5, <2>1, TakeKept
<1>7. Fullscreen!DidEnter(s, TRUE) = Fullscreen!TakeTarget(r, TRUE)
  BY DEF Fullscreen!DidEnter
<1>8. Ended(s, u, Fullscreen!DidEnter(s, TRUE))
  <2> HIDE DEF r, u
  <2> QED BY <1>3, <1>6, <1>7 DEF Ended
<1> HIDE DEF u
<1> QED BY <1>4, <1>8

\* windowDidExitFullScreen: the window has its frame back.
LEMMA DidExitKept ==
  ASSUME None \notin Fullscreen!Styles, NEW s, Kept(s), Single(s), Started(s), s.native = "exiting"
  PROVE  \E u : /\ Ended(s, u, Fullscreen!DidExit(s, TRUE)) /\ u.native = "window"
                /\ u.fullscreen = "window"
<1> DEFINE r == [Fullscreen!Restored(s) EXCEPT !.native = "window", !.in_fullscreen_transition = FALSE]
           u == [r EXCEPT !.target_fullscreen = "unset"]
           mask == [decorated |-> s.decorations, resizable |-> s.resizable]
<1>1. /\ s \in Fullscreen!Window /\ s.closed = FALSE /\ Animated(s) /\ Covers(s) /\ Framed(s)
      /\ s.is_simple_fullscreen \in BOOLEAN /\ s.retry \in BOOLEAN
      /\ s.initial_fullscreen \in BOOLEAN
  BY DEF Kept, Fullscreen!Window
<1>2. /\ s.in_fullscreen_transition = TRUE /\ s.fullscreen \notin Displays /\ s.retry = FALSE
      /\ s.is_simple_fullscreen = FALSE /\ s.initial_fullscreen = FALSE /\ s.captured = {}
      /\ s.auxiliary = FALSE
  BY <1>1 DEF Animated, Covers, Started, Fullscreen!Window
<1>3. /\ Fullscreen!Restored(s) = [s EXCEPT !.fullscreen = "window", !.style = mask,
                                  !.saved_style = None]
      /\ mask \in Fullscreen!Styles
  BY <1>1, StyleBack DEF Fullscreen!Restored, Fullscreen!restore_state_from_fullscreen, Fullscreen!Window, Fullscreen!Styles
<1>4. /\ r \in Fullscreen!Window /\ r.target_fullscreen = s.target_fullscreen /\ r.deferred = s.deferred
      /\ r.closed = FALSE /\ r.native = "window" /\ r.retry = FALSE
      /\ r.fullscreen = "window" /\ r.captured = {} /\ r.style = mask
      /\ r.saved_style = None /\ r.decorations = s.decorations
      /\ r.resizable = s.resizable /\ r.initial_fullscreen = FALSE
      /\ r.is_simple_fullscreen = FALSE /\ r.in_fullscreen_transition = FALSE
      /\ r.auxiliary = FALSE
  <2> DEFINE q == [s EXCEPT !.fullscreen = "window", !.style = mask, !.saved_style = None]
  <2> HIDE DEF mask
  <2>1. /\ q \in Fullscreen!Window /\ q.target_fullscreen = s.target_fullscreen
        /\ q.deferred = s.deferred /\ q.closed = FALSE /\ q.retry = FALSE
        /\ q.fullscreen = "window" /\ q.captured = {} /\ q.style = mask
        /\ q.saved_style = None /\ q.decorations = s.decorations
        /\ q.resizable = s.resizable /\ q.initial_fullscreen = FALSE
        /\ q.is_simple_fullscreen = FALSE /\ q.auxiliary = FALSE
    BY <1>1, <1>2, <1>3, ModesDiffer DEF Fullscreen!Window
  <2>2. r = [q EXCEPT !.native = "window", !.in_fullscreen_transition = FALSE]
    BY <1>3
  <2> HIDE DEF q, r
  <2> QED BY <2>1, <2>2 DEF Fullscreen!Window
<1>5. /\ u \in Fullscreen!Window /\ u.closed = FALSE /\ u.native = "window" /\ u.retry = FALSE
      /\ u.fullscreen = "window" /\ u.captured = {} /\ u.style = mask
      /\ u.saved_style = None /\ u.decorations = s.decorations
      /\ u.resizable = s.resizable /\ u.initial_fullscreen = FALSE
      /\ u.is_simple_fullscreen = FALSE /\ u.in_fullscreen_transition = FALSE
      /\ u.target_fullscreen = "unset" /\ u.auxiliary = FALSE /\ u.deferred = s.deferred
  <2> HIDE DEF r, mask
  <2> QED BY <1>4 DEF Fullscreen!Window
<1>6. Kept(u)
  <2> HIDE DEF u
  <2> QED BY <1>5, ModesDiffer DEF Kept, Animated, Covers, Framed
<1>7. Ended(r, u, Fullscreen!TakeTarget(r, TRUE))
  <2>1. Meets(u, r.target_fullscreen)
    <3> HIDE DEF r, u, mask
    <3> QED BY <1>4, <1>5, ModesDiffer DEF Meets, Asks, Single
  <2> HIDE DEF r
  <2> QED BY <1>4, <1>5, <1>6, <2>1, TakeKept
<1>8. Fullscreen!DidExit(s, TRUE) = Fullscreen!TakeTarget(r, TRUE)
  BY DEF Fullscreen!DidExit
<1>9. Ended(s, u, Fullscreen!DidExit(s, TRUE))
  <2> HIDE DEF r, u
  <2> QED BY <1>4, <1>7, <1>8 DEF Ended
<1> HIDE DEF u
<1> QED BY <1>5, <1>9

\* What the theorems assume of the constants.
Modest == None \notin Fullscreen!Styles /\ \A e \in Environments : Sensible(e)

\* set_fullscreen leaves a window that heads for the mode, if nothing was put off
\* before or the application is not careful.
LEMMA SetAlive ==
  ASSUME None \notin Fullscreen!Styles, NEW s, NEW m \in Fullscreen!Modes, NEW busy \in BOOLEAN, NEW e,
         Kept(s), Started(s), s.retry = FALSE, "enter" \notin e.faults,
         s.is_simple_fullscreen = FALSE, s.auxiliary = FALSE, Single(s), Meets(s, m),
         e.careful = TRUE => s.deferred = <<>>
  PROVE  Alive(Fullscreen!set_fullscreen(s, m, busy, TRUE), m, e)
<1> DEFINE t == Fullscreen!set_fullscreen(s, m, busy, TRUE)
<1>1. Kept(t) /\ Sets(s, t, m, busy)
  BY SetKept
<1>2. Animated(s) /\ s \in Fullscreen!Window /\ s.deferred \in Seq(Fullscreen!Modes)
  BY DEF Kept, Fullscreen!Window
<1> SUFFICES Alive(t, m, e)
  OBVIOUS
<1> HIDE DEF t
<1>7. Single(t)
  BY <1>1, <1>2, SetsAsk
<1>0. SUFFICES /\ Started(t) /\ t.retry = FALSE
               /\ e.careful = TRUE =>
                    /\ \/ t.deferred = <<>>
                       \/ t.deferred = <<m>> /\ t.in_fullscreen_transition = FALSE
                    /\ m = Goal(t)
  <2>1. Heeds(t, e)
    BY <1>0 DEF Heeds
  <2>2. Heard(t, m, e)
    BY <1>0 DEF Heard
  <2>3. FailsEarly(t, e)
    BY <1>0 DEF FailsEarly
  <2> QED BY <1>1, <1>0, <1>7, <2>1, <2>2, <2>3 DEF Alive
<1>3. CASE t = s /\ s.in_fullscreen_transition = FALSE /\ m = s.fullscreen
  <2>1. s.target_fullscreen = "unset" /\ s.native # "exiting"
    BY <1>2, <1>3 DEF Animated
  <2> QED BY <1>3, <2>1 DEF Goal
<1>4. CASE s.in_fullscreen_transition = TRUE /\ t = [s EXCEPT !.target_fullscreen = m]
  <2>1. /\ t.deferred = s.deferred /\ t.target_fullscreen = m /\ t.native = s.native
        /\ t.retry = s.retry /\ t.initial_fullscreen = s.initial_fullscreen
    BY <1>2, <1>4 DEF Fullscreen!Window
  <2>2. m # "unset"
    BY ModesDiffer
  <2> QED BY <2>1, <2>2 DEF Started, Goal
<1>5. CASE s.in_fullscreen_transition = FALSE /\ t = [s EXCEPT !.deferred = Append(s.deferred, m)]
  <2>1. /\ t.deferred = Append(s.deferred, m) /\ t.native = s.native
        /\ t.retry = s.retry /\ t.initial_fullscreen = s.initial_fullscreen
        /\ t.in_fullscreen_transition = FALSE
    BY <1>2, <1>5 DEF Fullscreen!Window
  <2>2. Append(<<>>, m) = <<m>> /\ <<m>> # <<>> /\ Head(<<m>>) = m
    OBVIOUS
  <2> QED BY <2>1, <2>2 DEF Started, Goal
<1>6. CASE s.in_fullscreen_transition = FALSE /\ Changed(s, t, m)
  <2>1. s.initial_fullscreen = FALSE
    BY <1>2, <1>6 DEF Animated, Started, Fullscreen!Window
  <2> QED BY <1>6, <2>1 DEF Changed, Started, Goal
<1> QED BY <1>1, <1>3, <1>4, <1>5, <1>6 DEF Sets

\* The end of an animation leaves a window that heads where it did.
LEMMA EndedAlive ==
  ASSUME NEW s, NEW u, NEW t, NEW asked, NEW e, Alive(s, asked, e), Ended(s, u, t),
         \/ s.native = "entering" /\ u.fullscreen = s.fullscreen /\ u.native = "full"
         \/ s.native = "exiting" /\ u.fullscreen = "window" /\ u.native = "window"
  PROVE  Alive(t, asked, e)
<1>1. s.in_fullscreen_transition = TRUE
  BY DEF Alive, Kept, Animated
<1>2. Kept(t) /\ Started(t)
  BY DEF Ended, Started
<1>3. ASSUME e.careful = TRUE PROVE t.deferred = <<>> /\ asked = Goal(t)
  <2>1. s.deferred = <<>>
    BY <1>1, <1>3 DEF Alive, Heeds
  <2>2. asked = Goal(s)
    BY <1>3 DEF Alive, Heard, Stuck
  <2>3. CASE s.target_fullscreen = "unset"
    <3>1. t = u /\ u.deferred = <<>> /\ u.target_fullscreen = "unset"
      BY <2>1, <2>3 DEF Ended
    <3> QED BY <2>1, <2>2, <2>3, <3>1 DEF Goal
  <2>4. CASE s.target_fullscreen # "unset"
    <3>1. /\ Sets(u, t, s.target_fullscreen, FALSE) /\ u.in_fullscreen_transition = FALSE
          /\ u.is_simple_fullscreen = FALSE /\ u.deferred = <<>>
          /\ u.target_fullscreen = "unset"
      BY <2>1, <2>4 DEF Ended
    <3>3. u.auxiliary = FALSE
      BY <2>4 DEF Ended
    <3>2. asked = s.target_fullscreen
      BY <2>1, <2>2, <2>4 DEF Goal
    <3> QED BY <3>1, <3>2, <3>3 DEF Sets, Changed, Goal
  <2> QED BY <2>3, <2>4
<1>4. FailsEarly(t, e)
  <2>1. t.retry = FALSE
    BY DEF Ended
  <2>2. ASSUME "enter" \in e.faults
        PROVE  t = u /\ u.deferred = <<>> /\ u.native = "full"
    BY <2>2 DEF Alive, FailsEarly, Ended
  <2> QED BY <2>1, <2>2 DEF FailsEarly, Ended
<1>5. Single(t)
  <2>1. Single(s) /\ s.target_fullscreen \in Asks(s)
    BY DEF Alive, Asks
  <2>2. u.deferred = s.deferred /\ u.target_fullscreen = "unset"
    BY DEF Ended
  <2>3. Single(u) /\ Meets(u, s.target_fullscreen)
    <3>1. Single(u)
      BY <2>1, <2>2, AsksAlike
    <3>2. \A n \in Displays : n \in Asks(u) => n \in Asks(s)
      BY <2>2, ModesDiffer DEF Asks
    <3> QED BY <2>1, <3>1, <3>2 DEF Meets, Single
  <2>4. CASE s.target_fullscreen = "unset"
    BY <2>3, <2>4 DEF Ended
  <2>5. CASE s.target_fullscreen # "unset"
    <3>1. Sets(u, t, s.target_fullscreen, FALSE) /\ u \in Fullscreen!Window
      BY <2>5 DEF Ended
    <3> QED BY <2>3, <3>1, SetsAsk
  <2> QED BY <2>4, <2>5
<1> QED BY <1>2, <1>3, <1>4, <1>5 DEF Alive, Heeds, Heard

----
\* The last step of each of the following proofs.
LEMMA ShownNext ==
  ASSUME Shown, env' = env, handling' \in BOOLEAN, wanted' \in Fullscreen!Modes,
         Gone(window') \/ Alive(window', wanted', env)
  PROVE  Shown'
BY DEF Shown, Alive

\* In the environments of the theorems.
LEMMA EnvironmentIs ==
  ASSUME Modest, Shown
  PROVE  /\ Sensible(env) /\ None \notin Fullscreen!Styles /\ Fullscreen!HasMode = {TRUE}
         /\ handling \in BOOLEAN /\ wanted \in Fullscreen!Modes /\ window \in Fullscreen!Window
BY DEF Modest, Shown, Sensible, Fullscreen!HasMode, Gone, Alive, Kept

\* Who acts on the window has not dropped it.
LEMMA MayAct ==
  ASSUME Shown, NEW op, Fullscreen!May(op)
  PROVE  op \in env.ops /\ Alive(window, wanted, env)
<1>1. window.closed # TRUE
  BY DEF Fullscreen!May
<1> QED BY <1>1 DEF Fullscreen!May, Shown, Gone

\* At rest nothing is under way.
LEMMA AtRest ==
  ASSUME Alive(window, wanted, env), Fullscreen!Settled
  PROVE  /\ window.native \in {"window", "full"} /\ window.in_fullscreen_transition = FALSE
         /\ window.deferred = <<>> /\ window.target_fullscreen = "unset"
         /\ window.retry = FALSE /\ window.initial_fullscreen = FALSE
         /\ Goal(window) = window.fullscreen
         /\ (window.native = "window" <=> window.fullscreen = "window")
         /\ (env.careful = TRUE => wanted = window.fullscreen)
<1>1. /\ window.retry \in BOOLEAN /\ window.in_fullscreen_transition \in BOOLEAN
      /\ window.initial_fullscreen \in BOOLEAN
  BY DEF Alive, Kept, Fullscreen!Window
<1>2. /\ window.native \in {"window", "full"} /\ window.in_fullscreen_transition = FALSE
      /\ window.deferred = <<>> /\ window.target_fullscreen = "unset" /\ window.retry = FALSE
  BY <1>1 DEF Fullscreen!Settled
<1>3. window.initial_fullscreen = FALSE
  BY <1>1, <1>2 DEF Alive, Started
<1>4. Goal(window) = window.fullscreen
  BY <1>2 DEF Goal
<1>5. window.native = "window" <=> window.fullscreen = "window"
  BY <1>2 DEF Alive, Kept, Animated
<1>6. env.careful = TRUE => wanted = window.fullscreen
  BY <1>2, <1>4 DEF Alive, Heard, Stuck
<1> QED BY <1>2, <1>3, <1>4, <1>5, <1>6

\* set_fullscreen, from a callback or another thread.
LEMMA SetFullscreenShown == ASSUME Modest, Shown, Fullscreen!SetFullscreen PROVE Shown'
<1>1. PICK m \in Fullscreen!Modes, has_mode \in Fullscreen!HasMode :
        /\ Fullscreen!May(IF handling THEN "set" ELSE "remote")
        /\ env.careful => window.deferred = <<>> /\ ~window.retry
        /\ window' = Fullscreen!set_fullscreen(window, m, handling, has_mode)
        /\ wanted' = IF Fullscreen!Refuses(window, m) THEN wanted ELSE m
        /\ env.moves \/ ~Fullscreen!Elsewhere(m)
        /\ UNCHANGED <<handling, env>>
  BY DEF Fullscreen!SetFullscreen
<1>2. /\ Sensible(env) /\ None \notin Fullscreen!Styles /\ has_mode = TRUE
      /\ handling \in BOOLEAN /\ wanted \in Fullscreen!Modes /\ window \in Fullscreen!Window
  BY <1>1, EnvironmentIs
<1>3. Alive(window, wanted, env) /\ "enter" \notin env.faults
  BY <1>1, <1>2, MayAct DEF Sensible
<1>4. /\ window.retry = FALSE /\ window.is_simple_fullscreen \in BOOLEAN
      /\ window.auxiliary \in BOOLEAN
  BY <1>2, <1>3 DEF Alive, FailsEarly, Fullscreen!Window
<1>7. Meets(window, m)
  BY <1>1, <1>2 DEF Sensible, Fullscreen!Elsewhere, Fullscreen!Asked, Meets, Asks
<1>5. CASE Fullscreen!Refuses(window, m)
  <2>1. window' = window /\ wanted' = wanted
    BY <1>1, <1>5 DEF Fullscreen!set_fullscreen
  <2> QED BY <1>1, <1>2, <1>3, <2>1, ShownNext
<1>8. CASE ~Fullscreen!Refuses(window, m) /\ window.auxiliary = TRUE
  <2>1. window.fullscreen = "window" /\ window.native = "window" /\ m = "window"
    BY <1>3, <1>8 DEF Alive, Kept, Animated, Fullscreen!Refuses
  <2>2. window.in_fullscreen_transition = FALSE
    BY <1>2, <1>3, <2>1 DEF Alive, Kept, Animated, Fullscreen!Window
  <2>3. window' = window /\ wanted' = "window"
    BY <1>1, <1>8, <2>1, <2>2 DEF Fullscreen!set_fullscreen, Fullscreen!InTransition
  <2>4. Heard(window, "window", env)
    BY <1>3, <1>4, <1>8, <2>1, <2>2 DEF Heard, Goal, Alive, Kept, Animated
  <2> QED BY <1>1, <1>2, <1>3, <2>1, <2>3, <2>4, ShownNext DEF Alive
<1>6. CASE ~Fullscreen!Refuses(window, m) /\ window.auxiliary = FALSE
  <2>1. wanted' = m /\ window' = Fullscreen!set_fullscreen(window, m, handling, TRUE)
    BY <1>1, <1>2, <1>6
  <2>2. /\ Kept(window) /\ Single(window) /\ Started(window)
        /\ env.careful = TRUE => window.deferred = <<>>
        /\ window.is_simple_fullscreen = FALSE
    BY <1>1, <1>3, <1>4, <1>6 DEF Alive, Fullscreen!Refuses
  <2>3. Alive(Fullscreen!set_fullscreen(window, m, handling, TRUE), m, env)
    BY <1>2, <1>3, <1>4, <1>6, <1>7, <2>2, SetAlive
  <2> QED BY <1>1, <1>2, <2>1, <2>3, ShownNext
<1> QED BY <1>4, <1>5, <1>6, <1>8

\* The user, by the green button.
LEMMA UserTogglesShown == ASSUME Modest, Shown, Fullscreen!UserToggles PROVE Shown'
<1>1. /\ Sensible(env) /\ handling \in BOOLEAN /\ wanted \in Fullscreen!Modes /\ window \in Fullscreen!Window
  BY EnvironmentIs
<1>2. /\ Fullscreen!May("user") /\ ~window.is_simple_fullscreen /\ ~window.auxiliary
      /\ window.native \in {"window", "full"} /\ window.fullscreen \notin Displays
      /\ env.careful => Fullscreen!Settled
      /\ window' = Fullscreen!toggleFullScreen(window)
      /\ wanted' = IF window.native = "window" THEN "borderless" ELSE "window"
      /\ UNCHANGED <<handling, env>>
  BY DEF Fullscreen!UserToggles
<1>3. Alive(window, wanted, env) /\ "enter" \notin env.faults
  BY <1>1, <1>2, MayAct DEF Sensible
<1>4. /\ window.retry = FALSE /\ window.is_simple_fullscreen = FALSE
      /\ window.auxiliary = FALSE /\ Single(window) /\ window.closed = FALSE /\ Animated(window) /\ Covers(window) /\ Framed(window)
  BY <1>1, <1>2, <1>3 DEF Alive, Kept, FailsEarly, Fullscreen!Window
<1>5. env.careful = TRUE => window.deferred = <<>> /\ window.target_fullscreen = "unset"
  BY <1>2, <1>3, AtRest
<1>6. CASE window.native = "window"
  <2> DEFINE t == Fullscreen!WillEnter(window)
  <2>1. window' = t /\ wanted' = "borderless"
    BY <1>2, <1>4, <1>6 DEF Fullscreen!toggleFullScreen
  <2>2. window.target_fullscreen = "unset" /\ window.fullscreen = "window"
        /\ window.initial_fullscreen = FALSE
    BY <1>1, <1>3, <1>4, <1>6 DEF Animated, Alive, Started, Fullscreen!Window
  <2>3. Kept(t)
    BY <1>1, <1>4, <1>6, <2>2, EnterKept
  <2>4. /\ t.deferred = window.deferred /\ t.target_fullscreen = "unset"
        /\ t.native = "entering" /\ t.fullscreen = "borderless" /\ t.retry = FALSE
        /\ t.initial_fullscreen = FALSE
    BY <1>1, <1>4, <2>2 DEF Fullscreen!WillEnter, Fullscreen!Window
  <2> HIDE DEF t
  <2>5. Started(t) /\ Heeds(t, env) /\ Heard(t, "borderless", env) /\ FailsEarly(t, env)
    BY <1>3, <1>5, <2>4 DEF Started, Heeds, Heard, Goal, FailsEarly
  <2>6. Alive(t, "borderless", env)
    BY <1>4, <2>3, <2>4, <2>5, AsksAlike DEF Alive
  <2> QED BY <1>1, <1>2, <2>1, <2>6, ModesDiffer, ShownNext
<1>7. CASE window.native = "full"
  <2> DEFINE t == Fullscreen!WillExit(window)
  <2>1. window' = t /\ wanted' = "window"
    BY <1>2, <1>4, <1>7 DEF Fullscreen!toggleFullScreen
  <2>2. window.initial_fullscreen = FALSE
    BY <1>1, <1>3, <1>4, <1>7 DEF Alive, Started, Fullscreen!Window
  <2>3. Kept(t)
    BY <1>1, <1>2, <1>4, <1>7, ExitKept
  <2>4. /\ t.deferred = window.deferred /\ t.target_fullscreen = window.target_fullscreen
        /\ t.native = "exiting" /\ t.retry = FALSE /\ t.initial_fullscreen = FALSE
        /\ t.fullscreen = window.fullscreen
    BY <1>1, <1>4, <2>2 DEF Fullscreen!WillExit, Fullscreen!Window
  <2> HIDE DEF t
  <2>5. Started(t) /\ Heeds(t, env) /\ Heard(t, "window", env) /\ FailsEarly(t, env)
    BY <1>3, <1>5, <2>4 DEF Started, Heeds, Heard, Goal, FailsEarly
  <2>6. Alive(t, "window", env)
    BY <1>4, <2>3, <2>4, <2>5, AsksAlike DEF Alive
  <2> QED BY <1>1, <1>2, <2>1, <2>6, ModesDiffer, ShownNext
<1> QED BY <1>2, <1>6, <1>7

\* The style of a window that is not fullscreen is the one it is given.
LEMMA DecorateShown == ASSUME Modest, Shown, Fullscreen!Decorate PROVE Shown'
<1>1. /\ Sensible(env) /\ handling \in BOOLEAN /\ wanted \in Fullscreen!Modes /\ window \in Fullscreen!Window
      /\ None \notin Fullscreen!Styles
  BY EnvironmentIs
<1>2. PICK on \in BOOLEAN :
        /\ (env.careful => Fullscreen!Plain) /\ UNCHANGED <<handling, wanted, env>>
        /\ \/ Fullscreen!May("decorate") /\ window' = Fullscreen!set_decorations(window, on)
           \/ Fullscreen!May("resizable") /\ window' = Fullscreen!set_resizable(window, on)
  BY DEF Fullscreen!Decorate
<1>3. Alive(window, wanted, env) /\ env.careful = TRUE
  BY <1>1, <1>2, MayAct DEF Sensible
<1>4. Fullscreen!Settled /\ window.fullscreen = "window" /\ window.is_simple_fullscreen = FALSE
  BY <1>1, <1>2, <1>3 DEF Fullscreen!Plain, Fullscreen!Window
<1>5. /\ window.native = "window" /\ window.closed = FALSE /\ window.saved_style = None
      /\ window.style = [decorated |-> window.decorations, resizable |-> window.resizable]
  BY <1>3, <1>4, AtRest DEF Alive, Kept, Framed
<1>6. \E d, r \in BOOLEAN :
        window' = [window EXCEPT !.decorations = d, !.resizable = r,
                                 !.style = [decorated |-> d, resizable |-> r]]
  <2>1. window.decorations \in BOOLEAN /\ window.resizable \in BOOLEAN
    BY <1>1 DEF Fullscreen!Window
  <2>2. CASE window' = Fullscreen!set_decorations(window, on)
    <3>1. window' = [window EXCEPT !.decorations = on, !.resizable = window.resizable,
                                   !.style = [decorated |-> on, resizable |-> window.resizable]]
      BY <1>1, <1>4, <1>5, <2>2 DEF Fullscreen!set_decorations, Fullscreen!Window
    <3> QED BY <2>1, <3>1
  <2>3. CASE window' = Fullscreen!set_resizable(window, on)
    <3>1. window' = [window EXCEPT !.decorations = window.decorations, !.resizable = on,
                                   !.style = [decorated |-> window.decorations, resizable |-> on]]
      <4>1. [window.style EXCEPT !.resizable = on]
              = [decorated |-> window.decorations, resizable |-> on]
        BY <1>5
      <4>2. window' = [window EXCEPT !.resizable = on,
                                     !.style = [window.style EXCEPT !.resizable = on]]
        BY <1>1, <1>4, <2>3 DEF Fullscreen!set_resizable, Fullscreen!Window
      <4> QED BY <1>1, <4>1, <4>2 DEF Fullscreen!Window
    <3> QED BY <2>1, <3>1
  <2> QED BY <1>2, <2>2, <2>3
<1>7. PICK d \in BOOLEAN, r \in BOOLEAN :
        window' = [window EXCEPT !.decorations = d, !.resizable = r,
                                 !.style = [decorated |-> d, resizable |-> r]]
  BY <1>6
<1> DEFINE t == [window EXCEPT !.decorations = d, !.resizable = r,
                               !.style = [decorated |-> d, resizable |-> r]]
<1>8. [decorated |-> d, resizable |-> r] \in Fullscreen!Styles
  BY DEF Fullscreen!Styles
<1>9. /\ t \in Fullscreen!Window /\ t.closed = FALSE /\ t.saved_style = None
      /\ t.style = [decorated |-> t.decorations, resizable |-> t.resizable]
      /\ t.native = window.native /\ t.fullscreen = window.fullscreen /\ t.retry = window.retry
      /\ t.in_fullscreen_transition = window.in_fullscreen_transition
      /\ t.initial_fullscreen = window.initial_fullscreen
      /\ t.is_simple_fullscreen = window.is_simple_fullscreen /\ t.deferred = window.deferred
      /\ t.target_fullscreen = window.target_fullscreen /\ t.captured = window.captured
      /\ t.auxiliary = window.auxiliary
  BY <1>1, <1>5, <1>8 DEF Fullscreen!Window
<1> HIDE DEF t
<1>10. Kept(t)
  BY <1>3, <1>9 DEF Alive, Kept, Animated, Covers, Framed
<1>11. /\ Single(t) /\ Started(t) /\ Heeds(t, env) /\ Heard(t, wanted, env)
       /\ FailsEarly(t, env)
  BY <1>3, <1>9, AsksAlike DEF Alive, Started, Heeds, Heard, Stuck, Goal, FailsEarly
<1>12. window' = t
  BY <1>7 DEF t
<1> QED BY <1>1, <1>2, <1>10, <1>11, <1>12, ShownNext DEF Alive

\* Simple fullscreen puts the style aside and back.
LEMMA SimpleShown == ASSUME Modest, Shown, Fullscreen!Simple PROVE Shown'
<1>1. /\ Sensible(env) /\ handling \in BOOLEAN /\ wanted \in Fullscreen!Modes /\ window \in Fullscreen!Window
      /\ None \notin Fullscreen!Styles
  BY EnvironmentIs
<1>2. PICK on \in BOOLEAN :
        /\ Fullscreen!May("simple") /\ (env.careful => Fullscreen!Settled) /\ UNCHANGED <<handling, wanted, env>>
        /\ window' = Fullscreen!set_simple_fullscreen(window, on)
  BY DEF Fullscreen!Simple
<1>3. Alive(window, wanted, env) /\ env.careful = TRUE /\ Fullscreen!Settled
  BY <1>1, <1>2, MayAct DEF Sensible
<1>4. CASE window.fullscreen # "window" \/ window.is_simple_fullscreen = on
  <2>1. window' = window
    BY <1>2, <1>4 DEF Fullscreen!set_simple_fullscreen
  <2> QED BY <1>1, <1>2, <1>3, <2>1, ShownNext
<1>5. CASE window.fullscreen = "window" /\ window.is_simple_fullscreen # on
  <2>0. /\ window.closed = FALSE /\ Animated(window) /\ Covers(window) /\ Framed(window)
        /\ window.is_simple_fullscreen \in BOOLEAN /\ window.native = "window"
        /\ window.deferred = <<>> /\ window.style \in Fullscreen!Styles
    BY <1>1, <1>3, <1>5, AtRest DEF Alive, Kept, Fullscreen!Window
  <2>1. \E a \in BOOLEAN, z \in Fullscreen!Styles \cup {None}, y \in Fullscreen!Styles :
          /\ window' = [window EXCEPT !.is_simple_fullscreen = a, !.saved_style = z, !.style = y]
          /\ LET own == [decorated |-> window.decorations, resizable |-> window.resizable]
             IN IF z = None THEN y = own ELSE z = own
          /\ a = FALSE => z = None
    <3>1. CASE on = TRUE
      <4> DEFINE bare == [decorated |-> FALSE, resizable |-> FALSE]
      <4>1. window.saved_style = None
        BY <1>5, <2>0, <3>1 DEF Framed
      <4>2. window' = [window EXCEPT !.is_simple_fullscreen = TRUE,
                                     !.saved_style = window.style, !.style = bare]
        BY <1>1, <1>2, <1>5, <3>1 DEF Fullscreen!set_simple_fullscreen
      <4>3. window.style = [decorated |-> window.decorations, resizable |-> window.resizable]
        BY <2>0, <4>1 DEF Framed
      <4>4. bare \in Fullscreen!Styles /\ window.style # None
        BY <1>1, <2>0 DEF Fullscreen!Styles
      <4> HIDE DEF bare
      <4> QED BY <2>0, <4>2, <4>3, <4>4
    <3>2. CASE on = FALSE
      <4> DEFINE own == [decorated |-> window.decorations, resizable |-> window.resizable]
      <4>1. window' = [window EXCEPT !.is_simple_fullscreen = FALSE,
                                     !.style = own, !.saved_style = None]
        BY <1>1, <1>2, <1>5, <2>0, <3>2, StyleBack DEF Fullscreen!set_simple_fullscreen
      <4>2. own \in Fullscreen!Styles
        BY <1>1 DEF Fullscreen!Styles, Fullscreen!Window
      <4>3. window' = [window EXCEPT !.is_simple_fullscreen = FALSE,
                                     !.saved_style = None, !.style = own]
        <5> HIDE DEF own
        <5> QED BY <4>1
      <4> QED BY <4>2, <4>3
    <3> QED BY <1>2, <3>1, <3>2
  <2>2. PICK a \in BOOLEAN, z \in Fullscreen!Styles \cup {None}, y \in Fullscreen!Styles :
          /\ window' = [window EXCEPT !.is_simple_fullscreen = a, !.saved_style = z, !.style = y]
          /\ LET own == [decorated |-> window.decorations, resizable |-> window.resizable]
             IN IF z = None THEN y = own ELSE z = own
          /\ a = FALSE => z = None
    BY <2>1
  <2> DEFINE t == [window EXCEPT !.is_simple_fullscreen = a, !.saved_style = z, !.style = y]
  <2>3. /\ t \in Fullscreen!Window /\ t.closed = FALSE /\ t.saved_style = z /\ t.style = y
        /\ t.decorations = window.decorations /\ t.resizable = window.resizable
        /\ t.native = "window" /\ t.fullscreen = "window" /\ t.retry = window.retry
        /\ t.in_fullscreen_transition = window.in_fullscreen_transition
        /\ t.initial_fullscreen = window.initial_fullscreen
        /\ t.is_simple_fullscreen = a /\ t.deferred = <<>>
        /\ t.target_fullscreen = window.target_fullscreen /\ t.captured = window.captured
        /\ t.auxiliary = window.auxiliary
    BY <1>1, <1>5, <2>0, <2>2 DEF Fullscreen!Window
  <2> HIDE DEF t
  <2>4. Framed(t)
    BY <2>2, <2>3 DEF Framed
  <2>5. Kept(t)
    BY <1>5, <2>0, <2>3, <2>4 DEF Kept, Animated, Covers
  <2>6. /\ Single(t) /\ Started(t) /\ Heeds(t, env) /\ Heard(t, wanted, env)
        /\ FailsEarly(t, env)
    BY <1>3, <1>5, <2>0, <2>3, AsksAlike DEF Alive, Started, Heeds, Heard, Stuck, Goal, FailsEarly
  <2>7. window' = t
    BY <2>2 DEF t
  <2> QED BY <1>1, <1>2, <2>5, <2>6, <2>7, ShownNext DEF Alive
<1> QED BY <1>4, <1>5

\* A window at rest that is not fullscreen is marked, or no longer.
LEMMA AuxiliaryShown == ASSUME Modest, Shown, Fullscreen!Auxiliary PROVE Shown'
<1>1. /\ Sensible(env) /\ handling \in BOOLEAN /\ wanted \in Fullscreen!Modes /\ window \in Fullscreen!Window
  BY EnvironmentIs
<1>2. PICK on \in BOOLEAN :
        /\ Fullscreen!May("auxiliary") /\ (env.careful => Fullscreen!Plain)
        /\ UNCHANGED <<handling, wanted, env>> /\ window' = [window EXCEPT !.auxiliary = on]
  BY DEF Fullscreen!Auxiliary
<1>3. Alive(window, wanted, env) /\ env.careful = TRUE
  BY <1>1, <1>2, MayAct DEF Sensible
<1>4. Fullscreen!Settled /\ window.fullscreen = "window"
  BY <1>1, <1>2, <1>3 DEF Fullscreen!Plain, Fullscreen!Window
<1>5. window.native = "window" /\ window.closed = FALSE /\ window.deferred = <<>>
  BY <1>3, <1>4, AtRest DEF Alive, Kept
<1> DEFINE t == [window EXCEPT !.auxiliary = on]
<1>6. /\ t \in Fullscreen!Window /\ t.closed = FALSE /\ t.saved_style = window.saved_style
      /\ t.style = window.style /\ t.decorations = window.decorations
      /\ t.resizable = window.resizable
      /\ t.native = "window" /\ t.fullscreen = "window" /\ t.retry = window.retry
      /\ t.in_fullscreen_transition = window.in_fullscreen_transition
      /\ t.initial_fullscreen = window.initial_fullscreen
      /\ t.is_simple_fullscreen = window.is_simple_fullscreen /\ t.deferred = window.deferred
      /\ t.target_fullscreen = window.target_fullscreen /\ t.captured = window.captured
  BY <1>1, <1>4, <1>5 DEF Fullscreen!Window
<1> HIDE DEF t
<1>7. Kept(t)
  BY <1>3, <1>4, <1>5, <1>6 DEF Alive, Kept, Animated, Covers, Framed
<1>8. /\ Single(t) /\ Started(t) /\ Heeds(t, env) /\ Heard(t, wanted, env)
      /\ FailsEarly(t, env)
  BY <1>3, <1>4, <1>5, <1>6, AsksAlike DEF Alive, Started, Heeds, Heard, Stuck, Goal, FailsEarly
<1>9. window' = t
  BY <1>2 DEF t
<1> QED BY <1>1, <1>2, <1>7, <1>8, <1>9, ShownNext DEF Alive

\* A window that is dropped while it has a display gives it back later.
LEMMA DropShown == ASSUME Modest, Shown, Fullscreen!Drop PROVE Shown'
<1>1. /\ Sensible(env) /\ handling \in BOOLEAN /\ wanted \in Fullscreen!Modes /\ window \in Fullscreen!Window
      /\ None \notin Fullscreen!Styles
  BY EnvironmentIs
<1>2. /\ handling = TRUE /\ Fullscreen!May("drop") /\ (env.careful => Fullscreen!Settled)
      /\ window' = Fullscreen!Dropped(window, handling) /\ UNCHANGED <<handling, wanted, env>>
  BY <1>1 DEF Fullscreen!Drop
<1>3. Alive(window, wanted, env) /\ env.careful = TRUE /\ Fullscreen!Settled
  BY <1>1, <1>2, MayAct DEF Sensible
<1>4. /\ window.in_fullscreen_transition = FALSE /\ window.deferred = <<>>
      /\ window.retry = FALSE /\ window.initial_fullscreen = FALSE
      /\ Animated(window) /\ Covers(window) /\ window.is_simple_fullscreen \in BOOLEAN
  BY <1>1, <1>3, AtRest DEF Alive, Kept, Fullscreen!Window
<1>5. CASE window.fullscreen \in Displays
  <2> DEFINE q == [window EXCEPT !.deferred = Append(window.deferred, "window")]
             t == [q EXCEPT !.closed = TRUE]
  <2>1. window.is_simple_fullscreen = FALSE /\ "window" # window.fullscreen
    BY <1>4, <1>5, ModesDiffer DEF Animated
  <2>2. Fullscreen!set_fullscreen(window, "window", handling, TRUE) = q
    BY <1>2, <1>4, <2>1 DEF Fullscreen!set_fullscreen, Fullscreen!InTransition, Fullscreen!Refuses
  <2>3. window' = t
    <3> HIDE DEF q
    <3> QED BY <1>2, <1>5, <2>2 DEF Fullscreen!Dropped
  <2>4. Append(window.deferred, "window") = <<"window">> /\ <<"window">> \in Seq(Fullscreen!Modes)
    BY <1>4, ModesDiffer
  <2>5. t \in Fullscreen!Window /\ t.closed = TRUE /\ t.retry = FALSE /\ t.deferred = <<"window">>
    BY <1>1, <1>4, <2>4 DEF Fullscreen!Window
  <2>6. t.fullscreen \in Displays /\ t.captured = {t.fullscreen}
    BY <1>1, <1>4, <1>5 DEF Covers, Fullscreen!Window
  <2>7. t.is_simple_fullscreen = FALSE /\ t.in_fullscreen_transition = FALSE
    BY <1>1, <1>4, <2>1 DEF Fullscreen!Window
  <2>8. Gone(t)
    <3> HIDE DEF t
    <3> QED BY <2>5, <2>6, <2>7 DEF Gone
  <2> QED BY <1>1, <1>2, <2>3, <2>8, ShownNext
<1>6. CASE window.fullscreen \notin Displays
  <2>1. window' = [window EXCEPT !.closed = TRUE]
    BY <1>2, <1>6 DEF Fullscreen!Dropped
  <2> DEFINE t == [window EXCEPT !.closed = TRUE]
  <2>2. window.captured = {}
    BY <1>4, <1>6 DEF Covers
  <2>3. t \in Fullscreen!Window /\ t.closed = TRUE /\ t.retry = FALSE /\ t.deferred = <<>> /\ t.captured = {}
    BY <1>1, <1>4, <2>2 DEF Fullscreen!Window
  <2>4. Gone(t)
    <3> HIDE DEF t
    <3> QED BY <2>3 DEF Gone
  <2> QED BY <1>1, <1>2, <2>1, <2>4, ShownNext
<1> QED BY <1>5, <1>6

\* The call that was put off: to a window that is gone, it gives the display back.
LEMMA RunDeferredShown == ASSUME Modest, Shown, Fullscreen!RunDeferred PROVE Shown'
<1>1. /\ Sensible(env) /\ handling \in BOOLEAN /\ wanted \in Fullscreen!Modes /\ window \in Fullscreen!Window
      /\ None \notin Fullscreen!Styles /\ Fullscreen!HasMode = {TRUE}
  BY EnvironmentIs
<1> DEFINE m == Head(window.deferred)
           s == [window EXCEPT !.deferred = Tail(window.deferred)]
<1>2. /\ window.deferred # <<>> /\ UNCHANGED <<handling, wanted, env>>
      /\ window' = Fullscreen!set_fullscreen(s, m, FALSE, TRUE)
  BY <1>1 DEF Fullscreen!RunDeferred, Fullscreen!Step
<1>3. m \in Fullscreen!Modes /\ Tail(window.deferred) \in Seq(Fullscreen!Modes)
  BY <1>1, <1>2 DEF Fullscreen!Window
<1>4. /\ s \in Fullscreen!Window /\ s.deferred = Tail(window.deferred) /\ s.closed = window.closed
      /\ s.fullscreen = window.fullscreen /\ s.target_fullscreen = window.target_fullscreen
      /\ s.in_fullscreen_transition = window.in_fullscreen_transition
      /\ s.initial_fullscreen = window.initial_fullscreen /\ s.native = window.native
      /\ s.is_simple_fullscreen = window.is_simple_fullscreen /\ s.retry = window.retry
      /\ s.saved_style = window.saved_style /\ s.style = window.style
      /\ s.decorations = window.decorations /\ s.resizable = window.resizable
      /\ s.captured = window.captured /\ s.auxiliary = window.auxiliary
  BY <1>1, <1>3 DEF Fullscreen!Window
<1>5. CASE Alive(window, wanted, env)
  <2>1. window.is_simple_fullscreen = FALSE /\ window.auxiliary = FALSE
    BY <1>1, <1>2, <1>5 DEF Alive, Kept, Animated, Fullscreen!Window
  <2>2. "enter" \notin env.faults /\ window.retry = FALSE
    BY <1>1, <1>2, <1>5 DEF Alive, FailsEarly, Fullscreen!Window
  <2>3. env.careful = TRUE => s.deferred = <<>> /\ wanted = m
    <3> HIDE DEF s
    <3>1. ASSUME env.careful = TRUE
          PROVE  /\ \E n \in Fullscreen!Modes : window.deferred = <<n>>
                 /\ window.in_fullscreen_transition = FALSE
      BY <1>2, <1>5, <3>1 DEF Alive, Heeds
    <3>2. ASSUME env.careful = TRUE PROVE wanted = m
      BY <1>2, <1>5, <3>1, <3>2 DEF Alive, Heard, Stuck, Goal
    <3>3. \A n : Tail(<<n>>) = <<>>
      OBVIOUS
    <3> QED BY <1>4, <3>1, <3>2, <3>3
  <2>4. Kept(s) /\ Started(s)
    <3> HIDE DEF s
    <3> QED BY <1>4, <1>5, <2>1 DEF Alive, Kept, Started, Animated, Covers, Framed
  <2>7. Single(s) /\ Meets(s, m)
    <3>1. window.deferred \in Seq(Fullscreen!Modes) /\ window.deferred # <<>>
      BY <1>1, <1>2 DEF Fullscreen!Window
    <3>2. m = window.deferred[1] /\ 1 \in DOMAIN window.deferred
      BY <3>1
    <3>3. \A i \in DOMAIN Tail(window.deferred) :
            \E j \in DOMAIN window.deferred : Tail(window.deferred)[i] = window.deferred[j]
      BY <3>1
    <3> HIDE DEF s, m
    <3>4. m \in Asks(window) /\ Asks(s) \subseteq Asks(window)
      BY <1>4, <3>2, <3>3 DEF Asks
    <3> QED BY <1>5, <3>4 DEF Alive, Single, Meets
  <2>5. Alive(Fullscreen!set_fullscreen(s, m, FALSE, TRUE), m, env)
    <3> HIDE DEF s, m
    <3> QED BY <1>1, <1>3, <1>4, <2>1, <2>2, <2>3, <2>4, <2>7, SetAlive
  <2>6. Alive(window', wanted, env)
    <3> HIDE DEF s, m
    <3> QED BY <1>2, <2>3, <2>5 DEF Alive, Heard
  <2> HIDE DEF s, m
  <2> QED BY <1>1, <1>2, <2>6, ShownNext
<1>6. CASE Gone(window)
  <2> DEFINE c == [s EXCEPT !.captured = s.captured \cup ({"window"} \cap Displays),
                            !.fullscreen = "window"]
  <2>1. /\ m = "window" /\ s.deferred = <<>> /\ window.fullscreen \in Displays
        /\ window.captured = {window.fullscreen} /\ window.is_simple_fullscreen = FALSE
        /\ window.in_fullscreen_transition = FALSE /\ window.closed = TRUE
        /\ window.retry = FALSE
    <3> HIDE DEF s
    <3>1. window.deferred = <<"window">>
      BY <1>2, <1>6 DEF Gone
    <3>2. Head(<<"window">>) = "window" /\ Tail(<<"window">>) = <<>>
      OBVIOUS
    <3>3. m = "window" /\ s.deferred = <<>>
      BY <1>4, <3>1, <3>2
    <3> QED BY <1>2, <1>6, <3>3 DEF Gone
  <2> HIDE DEF s, m
  <2>2. "window" # window.fullscreen
    BY <2>1, ModesDiffer
  <2>3. Fullscreen!set_fullscreen(s, m, FALSE, TRUE) = Fullscreen!Change(s, "window", TRUE)
    BY <1>4, <2>1, <2>2 DEF Fullscreen!set_fullscreen, Fullscreen!InTransition, Fullscreen!Refuses
  <2>4. /\ c \in Fullscreen!Window /\ c.closed = TRUE /\ c.captured = {s.fullscreen}
        /\ c.deferred = <<>> /\ c.retry = FALSE
    <3>1. s.captured \cup ({"window"} \cap Displays) = {s.fullscreen}
      BY <1>4, <2>1, ModesDiffer
    <3> QED BY <1>4, <2>1, <3>1, ModesDiffer DEF Fullscreen!Window
  <2>5. Fullscreen!Change(s, "window", TRUE) = Fullscreen!Switch(c, s.fullscreen, "window")
    BY DEF Fullscreen!Change, Fullscreen!NoScreen
  <2> HIDE DEF c
  <2>6. Fullscreen!Switch(c, s.fullscreen, "window") = Fullscreen!Release(c, s.fullscreen)
    <3>1. Fullscreen!Release(c, s.fullscreen).closed = TRUE
      BY <2>4 DEF Fullscreen!Release, Fullscreen!Window
    <3> QED BY <1>4, <2>1, <2>2, <3>1 DEF Fullscreen!Switch, Fullscreen!toggleFullScreen
  <2>7. Gone(Fullscreen!Release(c, s.fullscreen))
    BY <2>4 DEF Fullscreen!Release, Gone, Fullscreen!Window
  <2> QED BY <1>1, <1>2, <2>3, <2>5, <2>6, <2>7, ShownNext
<1> QED BY <1>5, <1>6 DEF Shown

\* The toggle that is tried again.
LEMMA RetryShown == ASSUME Modest, Shown, Fullscreen!Retry PROVE Shown'
<1>1. /\ Sensible(env) /\ handling \in BOOLEAN /\ wanted \in Fullscreen!Modes /\ window \in Fullscreen!Window
  BY EnvironmentIs
<1> DEFINE s == [window EXCEPT !.retry = FALSE]
           t == Fullscreen!WillEnter(s)
<1>2. /\ window.retry = TRUE /\ UNCHANGED <<handling, wanted, env>>
      /\ window' = Fullscreen!toggleFullScreen(s)
  BY <1>1 DEF Fullscreen!Retry, Fullscreen!Step, Fullscreen!Window
<1>3. Alive(window, wanted, env)
  BY <1>2 DEF Shown, Gone
<1>4. /\ window.closed = FALSE /\ Animated(window) /\ Covers(window) /\ Framed(window)
      /\ window.native = "window" /\ window.initial_fullscreen = TRUE
      /\ window.fullscreen # "window" /\ window.target_fullscreen = "unset"
      /\ window.is_simple_fullscreen = FALSE /\ "enter" \in env.faults
      /\ window.auxiliary = FALSE /\ Single(window) /\ window.deferred = <<>>
  BY <1>1, <1>2, <1>3 DEF Alive, Kept, Animated, Started, FailsEarly, Fullscreen!Window
<1>5. /\ s \in Fullscreen!Window /\ s.closed = FALSE /\ s.native = "window" /\ s.retry = FALSE
      /\ s.fullscreen = window.fullscreen /\ s.target_fullscreen = "unset"
      /\ s.is_simple_fullscreen = FALSE /\ s.deferred = <<>> /\ s.initial_fullscreen = TRUE
      /\ s.saved_style = window.saved_style /\ s.style = window.style
      /\ s.decorations = window.decorations /\ s.resizable = window.resizable
      /\ s.captured = window.captured /\ s.auxiliary = FALSE
  BY <1>1, <1>4 DEF Fullscreen!Window
<1> HIDE DEF s
<1>6. window' = t
  BY <1>2, <1>5 DEF Fullscreen!toggleFullScreen
<1>7. Kept(t)
  BY <1>4, <1>5, EnterKept DEF Covers, Framed
<1>8. /\ t.native = "entering" /\ t.fullscreen = window.fullscreen /\ t.deferred = <<>>
      /\ t.target_fullscreen = "unset" /\ t.retry = FALSE /\ t.initial_fullscreen = TRUE
  BY <1>4, <1>5 DEF Fullscreen!WillEnter, Fullscreen!Window
<1> HIDE DEF t
<1>9. Single(t) /\ Started(t) /\ Heeds(t, env) /\ FailsEarly(t, env)
  BY <1>4, <1>8, AsksAlike DEF Started, Heeds, FailsEarly
<1>10. Heard(t, wanted, env)
  BY <1>3, <1>4, <1>8 DEF Alive, Heard, Stuck, Goal
<1> QED BY <1>1, <1>2, <1>6, <1>7, <1>9, <1>10, ShownNext DEF Alive

\* The end of an animation.
LEMMA AnimationEndsShown == ASSUME Modest, Shown, Fullscreen!AnimationEnds PROVE Shown'
<1>1. /\ Sensible(env) /\ handling \in BOOLEAN /\ wanted \in Fullscreen!Modes /\ window \in Fullscreen!Window
      /\ None \notin Fullscreen!Styles /\ Fullscreen!HasMode = {TRUE}
  BY EnvironmentIs
<1>2. /\ ~window.closed /\ UNCHANGED <<handling, wanted, env>>
      /\ \/ window.native = "entering" /\ window' = Fullscreen!DidEnter(window, TRUE)
         \/ window.native = "exiting" /\ window' = Fullscreen!DidExit(window, TRUE)
  BY <1>1 DEF Fullscreen!AnimationEnds, Fullscreen!Step
<1>3. Alive(window, wanted, env)
  BY <1>2 DEF Shown, Gone
<1>4. \E u : /\ Ended(window, u, window')
             /\ \/ /\ window.native = "entering" /\ u.fullscreen = window.fullscreen
                   /\ u.native = "full"
                \/ window.native = "exiting" /\ u.fullscreen = "window" /\ u.native = "window"
  <2>1. CASE window.native = "entering" /\ window' = Fullscreen!DidEnter(window, TRUE)
    BY <1>1, <1>3, <2>1, DidEnterKept DEF Alive
  <2>2. CASE window.native = "exiting" /\ window' = Fullscreen!DidExit(window, TRUE)
    BY <1>1, <1>3, <2>2, DidExitKept DEF Alive
  <2> QED BY <1>2, <2>1, <2>2
<1>5. Alive(window', wanted, env)
  BY <1>3, <1>4, EndedAlive
<1> QED BY <1>1, <1>2, <1>5, ShownNext

\* Its failure: the window that was to be created fullscreen tries again; one that was
\* to leave stays, for AppKit.
LEMMA AnimationFailsShown == ASSUME Modest, Shown, Fullscreen!AnimationFails PROVE Shown'
<1>1. /\ Sensible(env) /\ handling \in BOOLEAN /\ wanted \in Fullscreen!Modes /\ window \in Fullscreen!Window
  BY EnvironmentIs
<1>2. /\ ~window.closed /\ UNCHANGED <<handling, wanted, env>>
      /\ \/ window.native = "entering" /\ "enter" \in env.faults
            /\ window' = Fullscreen!DidFailToEnter(window)
         \/ window.native = "exiting" /\ window' = [window EXCEPT !.native = "full"]
  BY DEF Fullscreen!AnimationFails, Fullscreen!Step
<1>3. /\ Alive(window, wanted, env) /\ window.closed = FALSE /\ Animated(window)
      /\ Covers(window) /\ Framed(window)
  BY <1>2 DEF Shown, Gone, Alive, Kept
<1>4. CASE window.native = "entering" /\ "enter" \in env.faults
           /\ window' = Fullscreen!DidFailToEnter(window)
  <2> DEFINE t == [window EXCEPT !.native = "window", !.in_fullscreen_transition = FALSE,
                                 !.target_fullscreen = "unset", !.retry = TRUE]
  <2>1. /\ window.initial_fullscreen = TRUE /\ window.deferred = <<>>
        /\ window.target_fullscreen = "unset"
    BY <1>3, <1>4 DEF Alive, FailsEarly
  <2>2. window' = t
    BY <1>1, <1>4, <2>1 DEF Fullscreen!DidFailToEnter, Fullscreen!Window
  <2>3. /\ window.fullscreen # "window" /\ window.is_simple_fullscreen = FALSE
        /\ window.auxiliary = FALSE
    BY <1>1, <1>3, <1>4 DEF Animated, Fullscreen!Window
  <2>4. /\ t \in Fullscreen!Window /\ t.closed = FALSE /\ t.native = "window" /\ t.retry = TRUE
        /\ t.fullscreen = window.fullscreen /\ t.target_fullscreen = "unset"
        /\ t.is_simple_fullscreen = FALSE /\ t.deferred = <<>> /\ t.initial_fullscreen = TRUE
        /\ t.saved_style = window.saved_style /\ t.style = window.style
        /\ t.decorations = window.decorations /\ t.resizable = window.resizable
        /\ t.captured = window.captured /\ t.in_fullscreen_transition = FALSE
        /\ t.auxiliary = FALSE
    BY <1>1, <1>3, <2>1, <2>3 DEF Fullscreen!Window
  <2> HIDE DEF t
  <2>5. Kept(t)
    BY <1>3, <2>3, <2>4 DEF Kept, Animated, Covers, Framed
  <2>6. Single(t) /\ Started(t) /\ Heeds(t, env) /\ FailsEarly(t, env)
    BY <1>3, <1>4, <2>1, <2>4, AsksAlike DEF Alive, Started, Heeds, FailsEarly
  <2>7. Heard(t, wanted, env)
    BY <1>3, <1>4, <2>1, <2>4 DEF Alive, Heard, Stuck, Goal
  <2> QED BY <1>1, <1>2, <2>2, <2>5, <2>6, <2>7, ShownNext DEF Alive
<1>5. CASE window.native = "exiting" /\ window' = [window EXCEPT !.native = "full"]
  <2> DEFINE t == [window EXCEPT !.native = "full"]
  <2>1. /\ window.in_fullscreen_transition = TRUE /\ window.fullscreen \notin Displays
        /\ window.retry = FALSE /\ window.is_simple_fullscreen = FALSE
        /\ window.auxiliary = FALSE
    BY <1>1, <1>3, <1>5 DEF Animated, Fullscreen!Window
  <2>2. /\ t \in Fullscreen!Window /\ t.closed = FALSE /\ t.native = "full" /\ t.retry = FALSE
        /\ t.fullscreen = window.fullscreen /\ t.deferred = window.deferred
        /\ t.target_fullscreen = window.target_fullscreen
        /\ t.is_simple_fullscreen = FALSE
        /\ t.initial_fullscreen = window.initial_fullscreen
        /\ t.saved_style = window.saved_style /\ t.style = window.style
        /\ t.decorations = window.decorations /\ t.resizable = window.resizable
        /\ t.captured = window.captured /\ t.in_fullscreen_transition = TRUE
        /\ t.auxiliary = FALSE
    BY <1>1, <1>3, <2>1 DEF Fullscreen!Window
  <2> HIDE DEF t
  <2>3. Kept(t)
    BY <1>3, <2>1, <2>2 DEF Kept, Animated, Covers, Framed
  <2>4. Single(t) /\ Started(t)
    BY <1>3, <1>5, <2>1, <2>2, AsksAlike DEF Alive, Started
  <2>5. Heeds(t, env)
    BY <1>3, <2>1, <2>2 DEF Alive, Heeds
  <2>6. Heard(t, wanted, env)
    BY <2>2 DEF Heard, Stuck
  <2>7. FailsEarly(t, env)
    BY <1>3, <1>5, <2>2 DEF Alive, FailsEarly
  <2>8. window' = t
    BY <1>5 DEF t
  <2> QED BY <1>1, <1>2, <2>3, <2>4, <2>5, <2>6, <2>7, <2>8, ShownNext DEF Alive
<1> QED BY <1>2, <1>4, <1>5

\* Every step.
LEMMA FullscreenNext ==
  ASSUME Modest, Shown, Fullscreen!Next \/ UNCHANGED delegate
  PROVE  Shown'
<1>1. CASE UNCHANGED delegate
  BY <1>1 DEF delegate, Shown
<1>2. CASE Fullscreen!Callback \/ Fullscreen!Return
  <2>1. window' = window /\ wanted' = wanted /\ env' = env /\ handling' \in BOOLEAN
    BY <1>2 DEF Fullscreen!Callback, Fullscreen!Return
  <2> QED BY <2>1 DEF Shown
<1> QED BY <1>1, <1>2, SetFullscreenShown, UserTogglesShown, DecorateShown, SimpleShown,
           AuxiliaryShown, DropShown, RunDeferredShown, RetryShown, AnimationEndsShown, AnimationFailsShown
        DEF Fullscreen!Next

\* A window is created as its attributes ask.
LEMMA FullscreenStart ==
  ASSUME Modest, Fullscreen!Init
  PROVE  Shown
<1>1. /\ env \in Environments /\ handling = FALSE /\ wanted = env.start
      /\ Sensible(env) /\ env.start \in Fullscreen!Modes /\ None \notin Fullscreen!Styles
  BY DEF Fullscreen!Init, Modest, Sensible
<1>2. PICK style \in Fullscreen!Styles :
        window = IF env.start = "window" THEN Fullscreen!Created(style)
                 ELSE Fullscreen!set_fullscreen([Fullscreen!Created(style) EXCEPT !.initial_fullscreen = TRUE],
                                      env.start, TRUE, TRUE)
  BY DEF Fullscreen!Init
<1> DEFINE c == Fullscreen!Created(style)
           d == [c EXCEPT !.initial_fullscreen = TRUE]
<1>3. c \in Fullscreen!Window /\ style = [decorated |-> style.decorated, resizable |-> style.resizable]
  BY ModesDiffer DEF Fullscreen!Created, Fullscreen!Window, Fullscreen!Styles
<1>4. Kept(c)
  BY <1>3, ModesDiffer DEF Fullscreen!Created, Kept, Animated, Covers, Framed
<1>5. CASE env.start = "window"
  <2>1. Alive(c, "window", env)
    BY <1>4, ModesDiffer DEF Alive, Fullscreen!Created, Single, Asks, Started, Heeds, Heard, Goal, FailsEarly
  <2> QED BY <1>1, <1>2, <1>5, <2>1 DEF Shown
<1>6. CASE env.start # "window"
  <2>1. /\ d.in_fullscreen_transition = FALSE /\ d.is_simple_fullscreen = FALSE
        /\ d.retry = FALSE /\ d.fullscreen = "window" /\ d.initial_fullscreen = TRUE
        /\ d.deferred = <<>> /\ d.auxiliary = FALSE
    BY DEF Fullscreen!Created
  <2>2. Kept(d)
    <3>1. d \in Fullscreen!Window
      BY <1>3 DEF Fullscreen!Created, Fullscreen!Window
    <3> QED BY <1>3, <3>1, ModesDiffer DEF Fullscreen!Created, Kept, Animated, Covers, Framed
  <2> HIDE DEF d
  <2>3. window = Fullscreen!Change(d, env.start, TRUE)
    BY <1>2, <1>6, <2>1 DEF d, Fullscreen!set_fullscreen, Fullscreen!InTransition, Fullscreen!Refuses
  <2>4. Kept(window) /\ Changed(d, window, env.start) /\ window.native = "entering"
    BY <1>1, <1>6, <2>1, <2>2, <2>3, ChangeIn
  <2>5. Alive(window, env.start, env)
    <3>1. window.native = "entering" /\ window.fullscreen = env.start
      BY <1>6, <2>4 DEF Changed
    <3>2. Single(window)
      BY <2>1, <2>4, <3>1, ModesDiffer DEF Changed, Single, Asks
    <3> QED BY <2>1, <2>4, <3>1, <3>2 DEF Alive, Changed, Started, Heeds, Heard, Goal, FailsEarly
  <2> QED BY <1>1, <2>5 DEF Shown
<1> QED BY <1>5, <1>6

\* What the window, the user and the displays agree on follows.
LEMMA ShownAgrees ==
  ASSUME Modest, Shown
  PROVE  FullscreenAgrees
<1>1. window \in Fullscreen!Window
  BY EnvironmentIs
<1>2. CASE Gone(window)
  <2>1. window.closed = TRUE /\ (window.deferred = <<>> => window.captured = {})
    BY <1>2 DEF Gone
  <2> QED BY <2>1 DEF FullscreenAgrees, Fullscreen!Agreement, Fullscreen!LastRequestHolds, Fullscreen!NothingLeft,
                      Fullscreen!DisplayReleased, Fullscreen!StyleRestored, Fullscreen!Settled
<1>3. CASE Alive(window, wanted, env)
  <2>1. window.closed = FALSE /\ Covers(window) /\ Framed(window)
    BY <1>3 DEF Alive, Kept
  <2>2. Fullscreen!Agreement
    BY <1>3, AtRest DEF Fullscreen!Agreement
  <2>3. Fullscreen!LastRequestHolds
    <3>1. Sensible(env)
      BY EnvironmentIs
    <3> QED BY <1>3, <3>1, AtRest DEF Fullscreen!LastRequestHolds
  <2>4. Fullscreen!DisplayReleased
    BY <2>1 DEF Fullscreen!DisplayReleased, Covers
  <2>5. Fullscreen!StyleRestored
    <3>1. ASSUME Fullscreen!Plain
          PROVE  window.style = [decorated |-> window.decorations, resizable |-> window.resizable]
      <4>1. Fullscreen!Settled /\ window.fullscreen = "window" /\ window.is_simple_fullscreen = FALSE
        BY <1>1, <3>1 DEF Fullscreen!Plain, Fullscreen!Window
      <4>2. window.native = "window"
        BY <1>3, <4>1, AtRest
      <4> QED BY <2>1, <4>1, <4>2 DEF Framed
    <3> QED BY <3>1 DEF Fullscreen!StyleRestored
  <2> QED BY <2>2, <2>3, <2>4, <2>5 DEF FullscreenAgrees, Fullscreen!NothingLeft
<1> QED BY <1>2, <1>3 DEF Shown

\* The other parts of AppKit leave the window alone.
LEMMA ShownInvariance == ASSUME Modest PROVE AppKitSpec => []Shown
<1>1. AppKitInit => Shown
  BY FullscreenStart DEF AppKitInit
<1>2. Shown /\ [AppKitNext]_<<vars, delegate, text>> => Shown'
  <2> SUFFICES ASSUME Shown, [AppKitNext]_<<vars, delegate, text>> PROVE Shown'
    OBVIOUS
  <2>1. Fullscreen!Next \/ UNCHANGED delegate
    BY DEF AppKitNext
  <2> QED BY <2>1, FullscreenNext
<1> QED BY <1>1, <1>2, PTL DEF AppKitSpec

\* window.fullscreen() tells what the user sees and what was asked for last, the display
\* is released and the frame is back, whenever nothing is under way (FullscreenAgrees).
THEOREM FullscreenIsKept == ASSUME Modest PROVE AppKitSpec => []FullscreenAgrees
BY ShownInvariance, ShownAgrees, PTL

\* The delegate's variables keep their types, whatever overlaps.
THEOREM FullscreenTypeCorrectness == ASSUME Modest PROVE AppKitSpec => []Fullscreen!TypeOK
<1>1. Shown => Fullscreen!TypeOK
  <2>1. Shown => /\ window \in Fullscreen!Window /\ handling \in BOOLEAN /\ wanted \in Fullscreen!Modes
    BY DEF Shown, Gone, Alive, Kept
  <2> QED BY <2>1 DEF Fullscreen!TypeOK, Fullscreen!Window
<1> QED BY <1>1, ShownInvariance, PTL
----
(* The keyboard of a view.  winit queues what it has to say of the input *)
(* method while a callback runs, and interpretKeyEvents: calls back into the *)
(* view, so that it and the application agree only at rest. *)

\* What the theorems assume: the application turns the input method on or off only
\* between its callbacks or in those of Reactions, and candidates are not clicked.
Responsive(t) == t.react \subseteq Reactions /\ "candidate" \notin t.ops /\ t.max \in Nat

\* The method that is due.
Due == IF todo = <<>> THEN "idle" ELSE Head(todo)

\* What follows a method: in keyDown: it is known, and so it is in everything else, which
\* begins with "other".
Finally == <<"interpreted", "modifiers", "key">>
Methods == {"down", "interpret", "mark", "text", "clear", "unmark", "command", "preedit", "cleared",
            "unmarked", "committed", "interpreted", "modifiers", "key", "up", "press", "release",
            "left", "right", "resign"}
Called == {"interpret", "mark", "clear", "preedit", "cleared", "command", "unmark", "unmarked"}
Precedes(m, rest, typing) ==
  \/ typing /\ m \in Called /\ rest = Finally
  \/ typing /\ m \in {"text", "committed"}
            /\ rest \in {Finally, <<"mark">> \o Finally, <<"command">> \o Finally}
  \/ typing /\ m = "interpreted" /\ rest = <<"modifiers", "key">>
  \/ typing /\ m = "modifiers" /\ rest = <<"key">>
  \/ typing /\ m \in {"down", "key"} /\ rest = <<>>
  \/ ~typing /\ m \in {"unmark", "unmarked"} /\ rest \in {<<>>, <<"resign">>}
  \/ ~typing /\ m = "modifiers" /\ rest \in {<<"up">>, <<"press">>, <<"release">>}
  \/ ~typing /\ m \in {"up", "press", "release", "left", "right", "resign"} /\ rest = <<>>
Planned ==
  /\ todo \in Seq(Methods)
  /\ todo # <<>> => Precedes(Head(todo), Tail(todo), "other" \notin got)

\* The types, and that only Disabled is ever queued.
WellTyped ==
  /\ view \in View!View /\ app \in View!App /\ typist \in Typists
  /\ key \in {"a"} /\ old \in View!ImeStates /\ source \in {1, 2}
  /\ held \subseteq {"a"} /\ mods \subseteq View!Sides
  /\ got \subseteq View!Events \union {"Click", "other"}
  /\ {focused, missed, activating} \subseteq BOOLEAN /\ done \in 0 .. typist.max
  /\ queue \in Seq({View!Event("Disabled")})

\* The modifier is that of the last event, and its keys are those that are down, but for
\* the one that is about to be told.
Modified ==
  /\ app.modifiers = view.modifiers /\ app.sides = view.phys_modifiers
  /\ missed = FALSE /\ Due \notin View!Sides => view.phys_modifiers = mods
  /\ missed = FALSE /\ Due \in View!Sides =>
       mods = {} \/ view.phys_modifiers = (mods \ {Due}) \union ({Due} \ mods)

\* The view still knows whether the click activated the window.
Pressing == Due = "press" \/ (Due = "modifiers" /\ Tail(todo) = <<"press">>)
Clicked ==
  /\ Pressing => app.clicks = {} /\ view.next_click_is_activation = activating
  /\ ~Pressing =>
       \/ app.clicks = {} /\ view.next_click_is_activation = FALSE
       \/ app.clicks = {activating} /\ view.next_click_is_activation = activating

\* The view against the application, once that has been told what is queued, and against
\* the input method.
Tallied(v, a, q) ==
  /\ q = <<>> => a.ime = (v.ime_state # "Disabled") /\ a.preedit = v.marked_text
  /\ q # <<>> => v.ime_state = "Disabled" /\ v.marked_text = FALSE
Marked(v) ==
  /\ v.marked_text = v.composing
  /\ v.marked_text = TRUE => v.pending_commit = TRUE /\ v.ime_state \in {"Preedit", "Ground"}
Settled(v, a, q) == Tallied(v, a, q) /\ Marked(v) /\ (v.ime_state = "Preedit" => v.marked_text = TRUE)

\* Inside the calls of interpretKeyEvents:, which are made only with the input method on.
Within(v, a, q) ==
  /\ v.ime_capabilities = TRUE /\ v.forward_key_to_app = FALSE
  /\ q = <<>> /\ (v.ime_state # "Disabled" => v.input_source = source)
\* A call before which nothing was said.
First ==
  /\ Within(view, app, queue) /\ old = view.ime_state
  /\ got \subseteq {"Disabled"} /\ Settled(view, app, queue) /\ view.ime_state # "Committed"
\* A call that follows a text that was committed.
Committing ==
  /\ Within(view, app, queue) /\ old # "Disabled" /\ "Key" \notin got /\ "Commit" \in got
  /\ app.ime = TRUE /\ app.preedit = FALSE
  /\ view.composing = FALSE /\ view.pending_commit = FALSE /\ view.ime_state # "Disabled"
\* Text was marked; the application has still to be told.
Marking ==
  /\ Within(view, app, queue) /\ app.ime = TRUE /\ view.input_source = source
  /\ view.marked_text = (Due = "preedit") /\ view.composing = (Due = "preedit")
  /\ "Key" \notin got /\ ("Commit" \in got => Due = "preedit" /\ old # "Disabled")
Unmarking ==
  /\ Tallied(view, app, queue) /\ view.marked_text = FALSE /\ view.composing = FALSE
  /\ view.ime_state # "Committed"
  /\ "other" \notin got =>
       /\ "Key" \notin got /\ "Commit" \notin got /\ "Clear" \in got
       /\ view.forward_key_to_app = FALSE
\* What the key did decides who gets it.
HadInput == view.ime_state \in {"Committed", "Preedit"} \/ old # view.ime_state
Ending ==
  /\ Settled(view, app, queue) /\ "Key" \notin got
  /\ "Commit" \in got => view.forward_key_to_app = FALSE /\ HadInput
  /\ view.forward_key_to_app = FALSE /\ HadInput =>
       \E e \in {"Commit", "Preedit", "Clear"} : e \in got
\* Between the methods that deal with text.
Quiet ==
  /\ Settled(view, app, queue) /\ view.ime_state # "Committed"
  /\ Due \in {"down", "interpret"} => queue = <<>> /\ got \subseteq {"Disabled"}
  /\ Due = "interpret" => (view.ime_state # "Disabled" => view.input_source = source)
  /\ Due = "idle" /\ "other" \notin got =>
       /\ ~({"Key", "Commit"} \subseteq got)
       /\ \E e \in {"Key", "Commit", "Preedit", "Clear"} : e \in got

Composed ==
  /\ app.misled = FALSE
  /\ view.ime_state # "Disabled" => view.ime_capabilities = TRUE
  /\ view.marked_text = TRUE /\ Due # "unmark" => view.input_source = source
  /\ Due \in {"preedit", "cleared"} => Marking
  /\ Due = "unmarked" => Unmarking
  /\ Due = "committed" => Committing
  /\ Due \in {"text", "clear"} => First
  /\ Due \in {"mark", "command"} => First \/ (Committing /\ view.ime_state = "Committed")
  /\ Due = "unmark" => IF "other" \in got THEN Quiet ELSE First
  /\ Due = "interpreted" => Ending \/ (Committing /\ view.ime_state = "Committed")
  /\ Due = "modifiers" => IF "other" \in got THEN Quiet ELSE Ending
  /\ Due = "key" => Ending
  /\ Due \in {"idle", "down", "interpret", "up", "left", "right", "resign", "press", "release"} => Quiet

TypedInv == WellTyped /\ Planned /\ Modified /\ Clicked /\ Composed

----
(* Plans. *)

\* A method before others.
LEMMA MethodBefore ==
  ASSUME NEW m \in Methods, NEW rest \in Seq(Methods)
  PROVE  /\ <<m>> \o rest \in Seq(Methods) /\ <<m>> \o rest # <<>>
         /\ Head(<<m>> \o rest) = m /\ Tail(<<m>> \o rest) = rest
OBVIOUS

\* What is left of keyDown: once the key has been interpreted.
LEMMA FinallyPlans ==
  /\ Finally \in Seq(Methods) /\ Finally # <<>>
  /\ Head(Finally) = "interpreted" /\ Tail(Finally) = <<"modifiers", "key">>
  /\ <<"modifiers", "key">> \in Seq(Methods) /\ <<"modifiers", "key">> # <<>>
  /\ Head(<<"modifiers", "key">>) = "modifiers" /\ Tail(<<"modifiers", "key">>) = <<"key">>
  /\ \A m \in Methods : <<m>> \in Seq(Methods) /\ <<m>> # <<>> /\ Head(<<m>>) = m /\ Tail(<<m>>) = <<>>
  /\ <<"key">> # <<"press">> /\ <<"up">> # <<"press">> /\ <<"release">> # <<"press">>
<1> DEFINE m == "interpreted" n == "modifiers" k == "key"
<1>1. m \in Methods /\ n \in Methods /\ k \in Methods
  BY DEF Methods
<1>2. /\ <<m, n, k>> \in Seq(Methods) /\ <<m, n, k>> # <<>>
      /\ Head(<<m, n, k>>) = m /\ Tail(<<m, n, k>>) = <<n, k>>
      /\ <<n, k>> \in Seq(Methods) /\ <<n, k>> # <<>>
      /\ Head(<<n, k>>) = n /\ Tail(<<n, k>>) = <<k>>
  <2> HIDE DEF m, n, k
  <2> QED BY <1>1
<1>3. \A s \in Methods : <<s>> \in Seq(Methods) /\ <<s>> # <<>> /\ Head(<<s>>) = s /\ Tail(<<s>>) = <<>>
  OBVIOUS
<1>4. <<"key">> # <<"press">> /\ <<"up">> # <<"press">> /\ <<"release">> # <<"press">>
  OBVIOUS
<1> QED BY <1>2, <1>3, <1>4 DEF Finally

\* The due method returns.
LEMMA Returning ==
  ASSUME Planned, todo # <<>>, todo' = Tail(todo), "other" \in got' <=> "other" \in got
  PROVE  /\ Planned' /\ (Pressing' <=> Pressing /\ Due # "press")
         /\ Due = "interpreted" => Due' = "modifiers" /\ "other" \notin got
         /\ Due \in {"interpret", "mark", "clear", "preedit", "cleared", "command"} =>
              Due' = "interpreted" /\ "other" \notin got
         /\ Due \in {"unmark", "unmarked"} =>
              IF "other" \in got THEN Due' \in {"idle", "resign"} ELSE Due' = "interpreted"
         /\ Due \in {"text", "committed"} =>
              Due' \in {"interpreted", "mark", "command"} /\ "other" \notin got
         /\ Due = "modifiers" =>
              IF "other" \in got THEN Due' \in {"up", "press", "release"} ELSE Due' = "key"
         /\ Due \in {"down", "key"} => Due' = "idle" /\ "other" \notin got
         /\ Due \in {"up", "press", "release", "left", "right", "resign"} =>
              Due' = "idle" /\ "other" \in got
<1>1. /\ todo \in Seq(Methods) /\ Precedes(Head(todo), Tail(todo), "other" \notin got)
      /\ Due = Head(todo) /\ todo' \in Seq(Methods)
      /\ Due' = IF todo' = <<>> THEN "idle" ELSE Head(todo')
  BY DEF Planned, Due
<1> DEFINE typing == "other" \notin got
<1>2. typing \in BOOLEAN /\ ("other" \notin got') = typing
  OBVIOUS
<1>m. /\ "mark" \in Methods /\ "command" \in Methods
      /\ {"key", "resign", "up", "press", "release"} \subseteq Methods
  BY DEF Methods
<1>f. /\ Finally \in Seq(Methods) /\ Finally # <<>>
      /\ Head(Finally) = "interpreted" /\ Tail(Finally) = <<"modifiers", "key">>
  BY FinallyPlans
<1>3. CASE typing /\ Due \in Called /\ todo' = Finally
  <2>1. Due' = "interpreted" /\ Precedes(Head(todo'), Tail(todo'), typing)
    BY <1>1, <1>3, <1>f DEF Precedes
  <2> QED BY <1>1, <1>2, <1>3, <2>1 DEF Planned, Pressing, Called
<1>4. CASE typing /\ Due \in {"text", "committed"} /\ todo' = Finally
  <2>1. Due' = "interpreted" /\ Precedes(Head(todo'), Tail(todo'), typing)
    BY <1>1, <1>4, <1>f DEF Precedes
  <2> QED BY <1>1, <1>2, <1>4, <2>1 DEF Planned, Pressing
<1>5. ASSUME NEW m \in {"mark", "command"}, typing /\ Due \in {"text", "committed"} /\ todo' = <<m>> \o Finally
      PROVE  /\ Due' \in {"mark", "command"} /\ typing
             /\ Planned' /\ (Pressing' <=> Pressing /\ Due # "press") /\ Due \in {"text", "committed"}
  <2>1. m \in Methods
    BY <1>m
  <2>2. Head(todo') = m /\ Tail(todo') = Finally /\ todo' # <<>>
    BY <1>5, <1>f, <2>1, MethodBefore
  <2>3. Due' = m /\ Precedes(Head(todo'), Tail(todo'), typing)
    BY <1>1, <1>5, <2>2 DEF Precedes, Called
  <2> QED BY <1>1, <1>2, <1>5, <2>3 DEF Planned, Pressing
<1>6. CASE typing /\ Due = "interpreted" /\ todo' = <<"modifiers", "key">>
  <2>1. /\ Due' = "modifiers" /\ Precedes(Head(todo'), Tail(todo'), typing)
        /\ Tail(todo') # <<"press">>
    BY <1>1, <1>6, FinallyPlans DEF Precedes
  <2> QED BY <1>1, <1>2, <1>6, <2>1 DEF Planned, Pressing
<1>7. CASE typing /\ Due = "modifiers" /\ todo' = <<"key">>
  <2>1. /\ Due' = "key" /\ Precedes(Head(todo'), Tail(todo'), typing) /\ todo' # <<"press">>
    BY <1>1, <1>7, <1>m, FinallyPlans DEF Precedes
  <2> QED BY <1>1, <1>2, <1>7, <2>1 DEF Planned, Pressing
<1>8. CASE todo' = <<>> /\ Due \notin Called \union {"text", "committed", "modifiers", "interpreted"}
  <2>1. Due' = "idle"
    BY <1>1, <1>8
  <2>2. (Due \in {"down", "key"} /\ typing) \/ (Due \in {"up", "press", "release", "left", "right", "resign"} /\ ~typing)
    BY <1>1, <1>8 DEF Precedes, Called
  <2> QED BY <1>1, <1>2, <1>8, <2>1, <2>2 DEF Planned, Pressing, Called
<1>9. CASE ~typing /\ Due \in {"unmark", "unmarked"} /\ todo' = <<>>
  <2>1. Due' = "idle"
    BY <1>1, <1>9
  <2> QED BY <1>1, <1>2, <1>9, <2>1 DEF Planned, Pressing
<1>10. CASE ~typing /\ Due \in {"unmark", "unmarked"} /\ todo' = <<"resign">>
  <2>1. Due' = "resign" /\ Precedes(Head(todo'), Tail(todo'), typing)
    BY <1>1, <1>10, <1>m, FinallyPlans DEF Precedes
  <2> QED BY <1>1, <1>2, <1>10, <2>1 DEF Planned, Pressing
<1>11. ASSUME NEW m \in {"up", "press", "release"}, ~typing /\ Due = "modifiers" /\ todo' = <<m>>
       PROVE  /\ Due' \in {"up", "press", "release"} /\ ~typing /\ Due = "modifiers"
              /\ Planned' /\ (Pressing' <=> Pressing /\ Due # "press")
  <2>1. Due' = m /\ Precedes(Head(todo'), Tail(todo'), typing)
    BY <1>1, <1>11, <1>m, FinallyPlans DEF Precedes
  <2>2. Pressing' <=> m = "press"
    BY <2>1, <1>11 DEF Pressing
  <2>3. Pressing <=> <<m>> = <<"press">>
    BY <1>11 DEF Pressing
  <2>4. <<m>> = <<"press">> <=> m = "press"
    BY <1>11, FinallyPlans
  <2> QED BY <1>1, <1>2, <1>11, <2>1, <2>2, <2>3, <2>4 DEF Planned
<1>12. \/ typing /\ Due \in Called /\ todo' = Finally
       \/ typing /\ Due \in {"text", "committed"} /\ todo' = Finally
       \/ \E m \in {"mark", "command"} : typing /\ Due \in {"text", "committed"} /\ todo' = <<m>> \o Finally
       \/ typing /\ Due = "interpreted" /\ todo' = <<"modifiers", "key">>
       \/ typing /\ Due = "modifiers" /\ todo' = <<"key">>
       \/ todo' = <<>> /\ Due \in {"down", "key", "up", "press", "release", "left", "right", "resign"}
       \/ ~typing /\ Due \in {"unmark", "unmarked"} /\ todo' = <<>>
       \/ ~typing /\ Due \in {"unmark", "unmarked"} /\ todo' = <<"resign">>
       \/ \E m \in {"up", "press", "release"} : ~typing /\ Due = "modifiers" /\ todo' = <<m>>
  BY <1>1 DEF Precedes
<1>13. CASE \E m \in {"mark", "command"} : typing /\ Due \in {"text", "committed"} /\ todo' = <<m>> \o Finally
  BY <1>5, <1>13
<1>14. CASE \E m \in {"up", "press", "release"} : ~typing /\ Due = "modifiers" /\ todo' = <<m>>
  BY <1>11, <1>14
<1>15. CASE todo' = <<>> /\ Due \in {"down", "key", "up", "press", "release", "left", "right", "resign"}
  BY <1>8, <1>15 DEF Called
<1> QED BY <1>3, <1>4, <1>6, <1>7, <1>9, <1>10, <1>12, <1>13, <1>14, <1>15

\* The due method goes on after a call of the application, or another takes its place.
LEMMA Replacing ==
  ASSUME Planned, todo # <<>>, NEW m \in Methods, todo' = <<m>> \o Tail(todo),
         "other" \in got' <=> "other" \in got,
         Precedes(m, Tail(todo), "other" \notin got),
         m \notin {"press", "modifiers"}, Due \notin {"press", "modifiers"}
  PROVE  Planned' /\ Due' = m /\ ~Pressing' /\ ~Pressing
<1>1. todo \in Seq(Methods) /\ Tail(todo) \in Seq(Methods)
  BY DEF Planned
<1>2. todo' \in Seq(Methods) /\ todo' # <<>> /\ Head(todo') = m /\ Tail(todo') = Tail(todo)
  BY <1>1, MethodBefore
<1> QED BY <1>2 DEF Planned, Due, Pressing

----
(* The application is told. *)

\* What the theorems assume of the constant.
Typable == \A t \in Typists : Responsive(t)

\* The input method is turned on or off: u is what is left of v.
Resets(v, u) ==
  /\ u.ime_state = "Disabled" /\ u.marked_text = FALSE /\ u.pending_commit = FALSE
  /\ u.composing = TRUE => v.composing = TRUE /\ (v.marked_text = FALSE \/ v.ime_capabilities = FALSE)
  /\ u.forward_key_to_app = v.forward_key_to_app /\ u.input_source = v.input_source
  /\ u.modifiers = v.modifiers /\ u.phys_modifiers = v.phys_modifiers
  /\ u.next_click_is_activation = v.next_click_is_activation

\* What an event leaves of the view and the queue.
Outcome(kind, v, q, u, r) ==
  \/ u = v /\ r = q
  \/ kind \in Reactions /\ Resets(v, u) /\ (r = <<>> <=> q = <<>> /\ v.ime_state = "Disabled")

\* request_ime_update.
LEMMA Resetting ==
  ASSUME NEW v \in View!View, NEW q \in Seq({View!Event("Disabled")}), NEW u,
         u = IF v.ime_capabilities THEN View!disable_ime(v) ELSE View!enable_ime(v)
  PROVE  /\ u \in View!View /\ Resets(v, u) /\ q \o View!Saying(v) \in Seq({View!Event("Disabled")})
         /\ (q \o View!Saying(v) = <<>> <=> q = <<>> /\ v.ime_state = "Disabled")
<1>1. v.ime_capabilities \in BOOLEAN /\ v.composing \in BOOLEAN /\ v.marked_text \in BOOLEAN
  BY DEF View!View
<1>2. u \in View!View /\ Resets(v, u)
  <2>1. CASE v.ime_capabilities = TRUE
    <3>1. u = [v EXCEPT !.ime_state = "Disabled", !.ime_capabilities = FALSE, !.marked_text = FALSE,
                        !.pending_commit = FALSE, !.composing = @ /\ ~v.marked_text]
      BY <2>1 DEF View!disable_ime
    <3>2. u \in View!View
      BY <1>1, <3>1 DEF View!View, View!ImeStates
    <3>3. Resets(v, u)
      BY <1>1, <3>1 DEF Resets, View!View
    <3> QED BY <3>2, <3>3
  <2>2. CASE v.ime_capabilities = FALSE
    <3>1. u = [v EXCEPT !.ime_state = "Disabled", !.ime_capabilities = TRUE, !.marked_text = FALSE,
                        !.pending_commit = FALSE]
      BY <2>2 DEF View!enable_ime
    <3>2. u \in View!View
      BY <1>1, <3>1 DEF View!View, View!ImeStates
    <3>3. Resets(v, u)
      BY <1>1, <2>2, <3>1 DEF Resets, View!View
    <3> QED BY <3>2, <3>3
  <2> QED BY <1>1, <2>1, <2>2
<1> DEFINE d == View!Event("Disabled")
<1>4. View!Saying(v) = IF v.ime_state = "Disabled" THEN <<>> ELSE <<d>>
  BY DEF View!Saying
<1>5. q \o <<>> = q /\ q \o <<d>> \in Seq({d}) /\ q \o <<d>> # <<>>
  <2> HIDE DEF d
  <2>1. q \in Seq({d}) /\ <<d>> \in Seq({d}) /\ Len(<<d>>) = 1 /\ Len(q) \in Nat
    BY DEF d
  <2>2. q \o <<d>> \in Seq({d}) /\ Len(q \o <<d>>) = Len(q) + 1
    BY <2>1, ConcatProperties
  <2> QED BY <2>1, <2>2
<1>6. /\ q \o View!Saying(v) \in Seq({d})
      /\ (q \o View!Saying(v) = <<>> <=> q = <<>> /\ v.ime_state = "Disabled")
  <2> HIDE DEF d
  <2>1. CASE v.ime_state = "Disabled"
    <3>1. View!Saying(v) = <<>>
      BY <1>4, <2>1
    <3>2. q \in Seq({d})
      BY DEF d
    <3> QED BY <1>5, <2>1, <3>1, <3>2
  <2>2. CASE v.ime_state # "Disabled"
    <3>1. View!Saying(v) = <<d>>
      BY <1>4, <2>2
    <3> QED BY <1>5, <2>2, <3>1
  <2> QED BY <2>1, <2>2
<1> QED BY <1>2, <1>6

\* What an event leaves has the types.
LEMMA Reacting ==
  ASSUME WellTyped, Typable, NEW kind, NEW v \in View!View, View!Reacts(kind, v), typist' = typist
  PROVE  /\ view' \in View!View /\ queue' \in Seq({View!Event("Disabled")}) /\ done' \in 0 .. typist.max
         /\ Outcome(kind, v, queue, view', queue')
<1>1. /\ typist \in Typists /\ typist.max \in Nat /\ typist.react \subseteq Reactions
      /\ done \in 0 .. typist.max /\ queue \in Seq({View!Event("Disabled")})
  BY DEF WellTyped, Typable, Responsive
<1>2. CASE view' = v /\ UNCHANGED <<queue, done>>
  BY <1>1, <1>2 DEF Outcome
<1>3. CASE /\ kind \in typist.react /\ done < typist.max /\ done' = done + 1
           /\ view' = IF v.ime_capabilities THEN View!disable_ime(v) ELSE View!enable_ime(v)
           /\ queue' = queue \o View!Saying(v)
  <2>1. /\ view' \in View!View /\ Resets(v, view') /\ queue' \in Seq({View!Event("Disabled")})
        /\ (queue' = <<>> <=> queue = <<>> /\ v.ime_state = "Disabled")
    BY <1>1, <1>3, Resetting
  <2>2. done' \in 0 .. typist.max
    BY <1>1, <1>3
  <2> QED BY <1>1, <1>3, <2>1, <2>2 DEF Outcome
<1> QED BY <1>2, <1>3 DEF View!Reacts

\* The application is called at once.
LEMMA Telling ==
  ASSUME WellTyped, Typable, NEW e, NEW kind \in View!Events \union {"Click"}, e.kind = kind,
         NEW v \in View!View, View!Tell(e, v), typist' = typist
  PROVE  /\ app' = View!Told(app, e) /\ got' = got \union {kind}
         /\ got' \subseteq View!Events \union {"Click", "other"} /\ ("other" \in got' <=> "other" \in got)
         /\ view' \in View!View /\ queue' \in Seq({View!Event("Disabled")}) /\ done' \in 0 .. typist.max
         /\ Outcome(kind, v, queue, view', queue')
<1>1. app' = View!Told(app, e) /\ got' = got \union {kind} /\ View!Reacts(kind, v)
  BY DEF View!Tell
<1>2. got' \subseteq View!Events \union {"Click", "other"} /\ ("other" \in got' <=> "other" \in got)
  BY <1>1 DEF WellTyped, View!Events
<1> QED BY <1>1, <1>2, Reacting

\* What the events say.
LEMMA Saids ==
  ASSUME NEW a \in View!App
  PROVE  /\ View!Told(a, View!Event("Enabled")) = [a EXCEPT !.ime = TRUE]
         /\ View!Told(a, View!Event("Disabled")) = [a EXCEPT !.ime = FALSE, !.preedit = FALSE]
         /\ View!Told(a, View!Event("Preedit")) = [a EXCEPT !.preedit = TRUE, !.misled = @ \/ ~a.ime]
         /\ View!Told(a, View!Event("Clear")) = [a EXCEPT !.preedit = FALSE]
         /\ View!Told(a, View!Event("Commit")) = [a EXCEPT !.preedit = FALSE, !.misled = @ \/ ~a.ime]
         /\ View!Told(a, View!Event("Command")) = a
         /\ \A on : View!Told(a, View!Modifiers(on)) = [a EXCEPT !.modifiers = on]
         /\ \A k : /\ View!Told(a, View!KeyInput(k, TRUE)) = [a EXCEPT !.pressed = @ \union {k}]
                   /\ View!Told(a, View!KeyInput(k, FALSE)) = [a EXCEPT !.pressed = @ \ {k}]
         /\ \A on : /\ View!Told(a, View!Click(TRUE, on)) = [a EXCEPT !.clicks = {on}]
                    /\ View!Told(a, View!Click(FALSE, on)) = [a EXCEPT !.clicks = {}]
<1>1. /\ View!Told(a, View!Event("Enabled")) = [a EXCEPT !.ime = TRUE]
      /\ View!Told(a, View!Event("Disabled")) = [a EXCEPT !.ime = FALSE, !.preedit = FALSE]
  BY DEF View!Told, View!Event
<1>2. /\ View!Told(a, View!Event("Preedit")) = [a EXCEPT !.preedit = TRUE, !.misled = @ \/ ~a.ime]
      /\ View!Told(a, View!Event("Clear")) = [a EXCEPT !.preedit = FALSE]
  BY DEF View!Told, View!Event
<1>3. /\ View!Told(a, View!Event("Commit")) = [a EXCEPT !.preedit = FALSE, !.misled = @ \/ ~a.ime]
      /\ View!Told(a, View!Event("Command")) = a
  BY DEF View!Told, View!Event
<1>4. \A on : View!Told(a, View!Modifiers(on)) = [a EXCEPT !.modifiers = on]
  BY DEF View!Told, View!Modifiers
<1>5. \A k : /\ View!Told(a, View!KeyInput(k, TRUE)) = [a EXCEPT !.pressed = @ \union {k}]
             /\ View!Told(a, View!KeyInput(k, FALSE)) = [a EXCEPT !.pressed = @ \ {k}]
  BY DEF View!Told, View!KeyInput
<1>6. \A on : /\ View!Told(a, View!Click(TRUE, on)) = [a EXCEPT !.clicks = {on}]
              /\ View!Told(a, View!Click(FALSE, on)) = [a EXCEPT !.clicks = {}]
  BY DEF View!Told, View!Click
<1> QED BY <1>1, <1>2, <1>3, <1>4, <1>5, <1>6

\* A step that has to do with text.
Aside ==
  /\ app'.modifiers = app.modifiers /\ app'.sides = app.sides /\ app'.clicks = app.clicks
  /\ view'.modifiers = view.modifiers /\ view'.phys_modifiers = view.phys_modifiers
  /\ view'.next_click_is_activation = view.next_click_is_activation
  /\ UNCHANGED <<mods, missed, activating>>
LEMMA NotAside ==
  ASSUME Modified, Clicked, Aside, Due \notin View!Sides, Due' \notin View!Sides, Pressing' <=> Pressing
  PROVE  Modified' /\ Clicked'
<1>1. Modified'
  BY DEF Modified, Aside
<1>2. Clicked'
  BY DEF Clicked, Aside
<1> QED BY <1>1, <1>2

----
(* The calls of the input method. *)

\* What TypedInv says of types, in full.
LEMMA TypedFields ==
  ASSUME WellTyped
  PROVE  /\ view \in View!View /\ app \in View!App /\ queue \in Seq({View!Event("Disabled")})
         /\ view.ime_state \in View!ImeStates /\ view.input_source \in {1, 2}
         /\ {view.marked_text, view.pending_commit, view.ime_capabilities, view.forward_key_to_app,
             view.modifiers, view.next_click_is_activation, view.composing} \subseteq BOOLEAN
         /\ view.phys_modifiers \in SUBSET View!Sides
         /\ {app.ime, app.preedit, app.modifiers, app.misled} \subseteq BOOLEAN
         /\ app.sides \in SUBSET View!Sides /\ app.clicks \in SUBSET BOOLEAN
         /\ got \subseteq View!Events \union {"Click", "other"} /\ done \in 0 .. typist.max
BY DEF WellTyped, View!View, View!App

\* A call that is due.
LEMMA Stepping ==
  ASSUME NEW name, View!Step(name)
  PROVE  todo # <<>> /\ Due = name /\ Head(todo) = name
BY DEF View!Step, Due

\* A method that goes on as another.
LEMMA Continuing ==
  ASSUME Planned, NEW m \in Methods, todo # <<>>, todo' = <<m>> \o Tail(todo),
         "other" \in got' <=> "other" \in got,
         \/ m \in {"preedit", "cleared"} /\ Due \in {"mark", "clear"}
         \/ m = "unmarked" /\ Due = "unmark"
         \/ m = "committed" /\ Due = "text"
  PROVE  Planned' /\ Due' = m /\ ~Pressing' /\ ~Pressing /\ (m # "unmarked" => "other" \notin got)
<1>1. Precedes(Due, Tail(todo), "other" \notin got)
  BY DEF Planned, Due
<1>2. CASE m \in {"preedit", "cleared"} /\ Due \in {"mark", "clear"}
  <2>1. Precedes(m, Tail(todo), "other" \notin got) /\ "other" \notin got
    BY <1>1, <1>2 DEF Precedes, Called
  <2> QED BY <1>2, <2>1, Replacing
<1>3. CASE m = "unmarked" /\ Due = "unmark"
  <2>1. Precedes(m, Tail(todo), "other" \notin got)
    BY <1>1, <1>3 DEF Precedes, Called
  <2> QED BY <1>3, <2>1, Replacing
<1>4. CASE m = "committed" /\ Due = "text"
  <2>1. Precedes(m, Tail(todo), "other" \notin got) /\ "other" \notin got
    BY <1>1, <1>4 DEF Precedes, Called
  <2> QED BY <1>4, <2>1, Replacing
<1> QED BY <1>2, <1>3, <1>4

\* setMarkedText:, up to its event.
LEMMA SetMarkedTextKept ==
  ASSUME TypedInv, Typable, NEW name \in {"mark", "clear"}, View!SetMarkedText(name)
  PROVE  TypedInv'
<1> DEFINE m == IF name = "mark" THEN "preedit" ELSE "cleared"
           v == [view EXCEPT !.marked_text = name = "mark", !.composing = name = "mark"]
           u == [v EXCEPT !.input_source = source]
<1> USE DEF View!outside
<1>0. WellTyped /\ Planned /\ Modified /\ Clicked /\ Composed
  BY DEF TypedInv
<1>1. /\ todo # <<>> /\ Due = name /\ todo' = <<m>> \o Tail(todo)
      /\ UNCHANGED <<key, source, held, mods, focused, missed, activating, typist, old>>
  BY Stepping DEF View!SetMarkedText, View!Then
<1>2. \/ view.ime_state = "Disabled" /\ View!Tell(View!Event("Enabled"), u)
      \/ /\ view.ime_state # "Disabled" /\ view' = v /\ UNCHANGED <<app, got, queue, done>>
  BY DEF View!SetMarkedText
<1>3. v \in View!View /\ u \in View!View
  BY <1>0 DEF WellTyped, View!View
<1>4. /\ view.ime_state = "Disabled" => view' = u /\ app' = [app EXCEPT !.ime = TRUE] /\ got' = got \union {"Enabled"}
      /\ view.ime_state # "Disabled" => view' = v /\ app' = app /\ got' = got
      /\ queue' = queue /\ done' \in 0 .. typist.max
  <2>1. CASE view.ime_state = "Disabled"
    <3>1. /\ app' = View!Told(app, View!Event("Enabled")) /\ got' = got \union {"Enabled"} /\ done' \in 0 .. typist.max
          /\ Outcome("Enabled", u, queue, view', queue')
      <4> HIDE DEF u
      <4> QED BY <1>0, <1>1, <1>2, <1>3, <2>1, Telling DEF View!Event, View!Events
    <3>2. view' = u /\ queue' = queue
      BY <3>1 DEF Outcome, Reactions
    <3> QED BY <1>0, <2>1, <3>1, <3>2, Saids DEF WellTyped
  <2>2. CASE view.ime_state # "Disabled"
    BY <1>0, <1>2, <2>2, TypedFields
  <2> QED BY <2>1, <2>2
<1>5. /\ view' \in View!View /\ app' \in View!App /\ got' \subseteq View!Events \union {"Click", "other"}
      /\ ("other" \in got' <=> "other" \in got) /\ got' \subseteq got \union {"Enabled"}
  BY <1>0, <1>3, <1>4 DEF WellTyped, View!App, View!Events
<1>6. /\ view'.marked_text = (name = "mark") /\ view'.composing = (name = "mark")
      /\ view'.ime_state = view.ime_state /\ view'.ime_capabilities = view.ime_capabilities
      /\ view'.forward_key_to_app = view.forward_key_to_app
      /\ view'.input_source = IF view.ime_state = "Disabled" THEN source ELSE view.input_source
      /\ app'.ime = (IF view.ime_state = "Disabled" THEN TRUE ELSE app.ime)
      /\ app'.misled = app.misled
  BY <1>0, <1>4 DEF WellTyped, View!View, View!App
<1>7. WellTyped'
  BY <1>0, <1>1, <1>4, <1>5 DEF WellTyped
<1>8. m \in Methods /\ m \in {"preedit", "cleared"} /\ (m = "preedit" <=> name = "mark")
  BY DEF Methods
<1>9. Planned' /\ Due' = m /\ ~Pressing' /\ ~Pressing /\ "other" \notin got
  <2> HIDE DEF m
  <2> QED BY <1>0, <1>1, <1>5, <1>8, Continuing
<1>10. Modified' /\ Clicked'
  <2>1. Aside
    BY <1>0, <1>1, <1>4 DEF Aside, WellTyped, View!View, View!App
  <2>2. Due \notin View!Sides /\ Due' \notin View!Sides
    BY <1>1, <1>8, <1>9 DEF View!Sides
  <2> QED BY <1>0, <1>9, <2>1, <2>2, NotAside
<1>11. /\ Within(view, app, queue) /\ "Key" \notin got /\ app.misled = FALSE
       /\ view.ime_state # "Disabled" => app.ime = TRUE
       /\ "Commit" \in got => name = "mark" /\ old # "Disabled"
  BY <1>0, <1>1 DEF Composed, First, Committing, Settled, Tallied, Within
<1>12. Marking'
  <2>1. view'.input_source = source'
    BY <1>1, <1>6, <1>11 DEF Within
  <2>2. Within(view, app, queue)'
    BY <1>4, <1>6, <1>11, <2>1 DEF Within
  <2>3. app'.ime = TRUE /\ "Key" \notin got' /\ ("Commit" \in got' => name = "mark" /\ old' # "Disabled")
    BY <1>1, <1>5, <1>6, <1>11
  <2> QED BY <1>6, <1>8, <1>9, <2>1, <2>2, <2>3 DEF Marking
<1>13. Composed'
  <2> HIDE DEF m
  <2> QED BY <1>6, <1>8, <1>9, <1>11, <1>12 DEF Composed, Marking, Within
<1> QED BY <1>7, <1>9, <1>10, <1>13 DEF TypedInv

\* A method that has nothing more to do.
LEMMA Returns_ ==
  ASSUME Planned, todo # <<>>, View!Then(<<>>)
  PROVE  todo' = Tail(todo)
<1>1. todo \in Seq(Methods) /\ Tail(todo) \in Seq(Methods)
  BY DEF Planned
<1>2. todo' = <<>> \o Tail(todo)
  BY DEF View!Then
<1> QED BY <1>1, <1>2

\* A composition does not outlive the input method.
LEMMA NothingComposed ==
  ASSUME NEW v \in View!View, NEW u \in View!View, Resets(v, u), v.marked_text = v.composing,
         v.marked_text = TRUE => v.ime_capabilities = TRUE
  PROVE  u.composing = FALSE /\ u.marked_text = FALSE /\ u.ime_state = "Disabled" /\ Marked(u)
BY DEF Resets, View!View, Marked

\* What is known of what was told depends on little of the view and of the application.
LEMMA TalliedAlike ==
  ASSUME NEW v, NEW a, NEW q, NEW u, NEW b, NEW r, Tallied(v, a, q),
         u.ime_state = "Disabled" <=> v.ime_state = "Disabled", u.marked_text = v.marked_text,
         b.ime = a.ime, b.preedit = a.preedit, r = q
  PROVE  Tallied(u, b, r)
<1>1. (u.ime_state # "Disabled") = (v.ime_state # "Disabled")
  OBVIOUS
<1> QED BY <1>1 DEF Tallied

\* The input method was turned on or off: all is over, or Disabled is queued.
LEMMA SettledByReset ==
  ASSUME NEW v, NEW a, NEW q, NEW u, NEW b, NEW r, Tallied(v, a, q),
         v.ime_state = "Disabled" => v.marked_text = FALSE,
         b.ime = a.ime, b.preedit = a.preedit, r = <<>> => q = <<>> /\ v.ime_state = "Disabled",
         u.ime_state = "Disabled", u.marked_text = FALSE, Marked(u)
  PROVE  Settled(u, b, r)
<1>1. CASE r = <<>>
  <2>1. (v.ime_state # "Disabled") = FALSE /\ (u.ime_state # "Disabled") = FALSE
    BY <1>1
  <2>2. a.ime = FALSE /\ a.preedit = FALSE
    BY <1>1, <2>1 DEF Tallied
  <2> QED BY <1>1, <2>1, <2>2 DEF Settled, Tallied
<1>2. CASE r # <<>>
  BY <1>2 DEF Settled, Tallied
<1> QED BY <1>1, <1>2

\* setMarkedText:, its end.
LEMMA SetMarkedTextEndsKept ==
  ASSUME TypedInv, Typable, NEW name \in {"preedit", "cleared"}, View!SetMarkedTextEnds(name)
  PROVE  TypedInv'
<1> DEFINE v == [view EXCEPT !.ime_state = IF view.marked_text THEN "Preedit" ELSE "Ground",
                             !.pending_commit = TRUE]
           e == View!Event(IF name = "preedit" THEN "Preedit" ELSE "Clear")
           kind == IF name = "preedit" THEN "Preedit" ELSE "Clear"
<1> USE DEF View!outside
<1>0. WellTyped /\ Planned /\ Modified /\ Clicked /\ Composed
  BY DEF TypedInv
<1>1. /\ todo # <<>> /\ Due = name /\ todo' = Tail(todo) /\ View!Tell(e, v)
      /\ UNCHANGED <<key, source, held, mods, focused, missed, activating, typist, old>>
  BY <1>0, Stepping, Returns_ DEF View!SetMarkedTextEnds
<1>2. v \in View!View
  BY <1>0 DEF WellTyped, View!View, View!ImeStates
<1>3. e.kind = kind /\ kind \in View!Events \union {"Click"} /\ kind \in {"Preedit", "Clear"}
  BY DEF View!Event, View!Events
<1>4. /\ app' = View!Told(app, e) /\ got' = got \union {kind} /\ done' \in 0 .. typist.max
      /\ got' \subseteq View!Events \union {"Click", "other"} /\ ("other" \in got' <=> "other" \in got)
      /\ view' \in View!View /\ queue' \in Seq({View!Event("Disabled")})
      /\ Outcome(kind, v, queue, view', queue')
  <2> HIDE DEF v, e, kind
  <2> QED BY <1>0, <1>1, <1>2, <1>3, Telling
<1>5. /\ Within(view, app, queue) /\ app.ime = TRUE /\ view.input_source = source /\ app.misled = FALSE
      /\ view.marked_text = (name = "preedit") /\ view.composing = (name = "preedit")
      /\ "Key" \notin got /\ ("Commit" \in got => name = "preedit" /\ old # "Disabled")
  BY <1>0, <1>1 DEF Composed, Marking
<1>6. /\ app' \in View!App /\ app'.ime = TRUE /\ app'.misled = FALSE /\ app'.preedit = (name = "preedit")
      /\ app'.modifiers = app.modifiers /\ app'.sides = app.sides /\ app'.clicks = app.clicks
  <2>1. CASE name = "preedit"
    <3>1. app' = [app EXCEPT !.preedit = TRUE, !.misled = @ \/ ~app.ime]
      BY <1>0, <1>4, <2>1, Saids DEF WellTyped
    <3> QED BY <1>0, <1>5, <2>1, <3>1 DEF WellTyped, View!App
  <2>2. CASE name = "cleared"
    <3>1. app' = [app EXCEPT !.preedit = FALSE]
      BY <1>0, <1>4, <2>2, Saids DEF WellTyped
    <3> QED BY <1>0, <1>5, <2>2, <3>1 DEF WellTyped, View!App
  <2> QED BY <2>1, <2>2
<1>7. WellTyped'
  BY <1>0, <1>1, <1>4, <1>6 DEF WellTyped
<1>8. /\ v.marked_text = (name = "preedit") /\ v.composing = (name = "preedit")
      /\ v.ime_state = (IF name = "preedit" THEN "Preedit" ELSE "Ground") /\ v.pending_commit = TRUE
      /\ v.ime_capabilities = TRUE /\ v.forward_key_to_app = FALSE /\ v.input_source = source
      /\ v.modifiers = view.modifiers /\ v.phys_modifiers = view.phys_modifiers
      /\ v.next_click_is_activation = view.next_click_is_activation
  BY <1>0, <1>5 DEF WellTyped, View!View, Within
<1>9. Planned' /\ (Pressing' <=> Pressing) /\ Due' = "interpreted" /\ "other" \notin got
  BY <1>0, <1>1, <1>4, Returning
<1>10. queue = <<>>
  BY <1>5 DEF Within
<1> HIDE DEF v, e, kind
<1>11. Modified' /\ Clicked'
  <2>1. Aside
    BY <1>1, <1>4, <1>6, <1>8 DEF Aside, Outcome, Resets
  <2>2. Due \notin View!Sides /\ Due' \notin View!Sides
    BY <1>1, <1>9 DEF View!Sides
  <2> QED BY <1>0, <1>9, <2>1, <2>2, NotAside
<1>12. /\ Settled(view', app', queue') /\ view'.forward_key_to_app = FALSE
       /\ view'.input_source = source /\ (view'.ime_state # "Disabled" => view'.ime_capabilities = TRUE)
       /\ name = "preedit" => view'.ime_state \in {"Disabled", "Preedit"}
  <2>1. CASE view' = v /\ queue' = queue
    BY <1>6, <1>8, <1>10, <2>1 DEF Settled, Tallied, Marked
  <2>2. CASE Resets(v, view') /\ (queue' = <<>> <=> queue = <<>> /\ v.ime_state = "Disabled")
    <3>1. view'.composing = FALSE /\ view'.marked_text = FALSE /\ view'.ime_state = "Disabled" /\ Marked(view')
      BY <1>2, <1>4, <1>8, <2>2, NothingComposed
    <3> QED BY <1>8, <2>2, <3>1 DEF Settled, Tallied, Resets
  <2> QED BY <1>4, <2>1, <2>2 DEF Outcome
<1>13. Ending'
  <2>1. "Key" \notin got' /\ ("Commit" \in got' => name = "preedit" /\ old' # "Disabled") /\ kind \in got'
    BY <1>1, <1>3, <1>4, <1>5
  <2> QED BY <1>3, <1>12, <2>1 DEF Ending, HadInput
<1>14. Composed'
  BY <1>1, <1>6, <1>9, <1>12, <1>13 DEF Composed
<1> QED BY <1>7, <1>9, <1>11, <1>14 DEF TypedInv

\* unmarkText, up to its event.
LEMMA UnmarkTextKept ==
  ASSUME TypedInv, Typable, View!UnmarkText
  PROVE  TypedInv'
<1> DEFINE v == [view EXCEPT !.marked_text = FALSE, !.composing = FALSE]
           e == View!Event("Clear")
<1> USE DEF View!outside
<1>0. WellTyped /\ Planned /\ Modified /\ Clicked /\ Composed
  BY DEF TypedInv
<1>1. /\ todo # <<>> /\ Due = "unmark" /\ todo' = <<"unmarked">> \o Tail(todo) /\ View!Tell(e, v)
      /\ UNCHANGED <<key, source, held, mods, focused, missed, activating, typist, old>>
  BY Stepping DEF View!UnmarkText, View!Then
<1>2. v \in View!View
  BY <1>0 DEF WellTyped, View!View
<1>3. e.kind = "Clear" /\ "Clear" \in View!Events \union {"Click"}
  BY DEF View!Event, View!Events
<1>4. /\ app' = View!Told(app, e) /\ got' = got \union {"Clear"} /\ done' \in 0 .. typist.max
      /\ got' \subseteq View!Events \union {"Click", "other"} /\ ("other" \in got' <=> "other" \in got)
      /\ view' \in View!View /\ queue' \in Seq({View!Event("Disabled")})
      /\ Outcome("Clear", v, queue, view', queue')
  <2> HIDE DEF v, e
  <2> QED BY <1>0, <1>1, <1>2, <1>3, Telling
<1>5. /\ Settled(view, app, queue) /\ view.ime_state # "Committed" /\ app.misled = FALSE
      /\ view.ime_state # "Disabled" => view.ime_capabilities = TRUE
      /\ "other" \notin got => got \subseteq {"Disabled"} /\ view.forward_key_to_app = FALSE
  BY <1>0, <1>1 DEF Composed, First, Quiet, Within
<1>6. app' = [app EXCEPT !.preedit = FALSE]
  BY <1>0, <1>4, Saids DEF WellTyped
<1>7. /\ app' \in View!App /\ app'.ime = app.ime /\ app'.misled = FALSE /\ app'.preedit = FALSE
      /\ app'.modifiers = app.modifiers /\ app'.sides = app.sides /\ app'.clicks = app.clicks
  BY <1>0, <1>5, <1>6 DEF WellTyped, View!App
<1>8. WellTyped'
  BY <1>0, <1>1, <1>4, <1>7 DEF WellTyped
<1>9. /\ v.marked_text = FALSE /\ v.composing = FALSE /\ v.ime_state = view.ime_state
      /\ v.ime_capabilities = view.ime_capabilities /\ v.forward_key_to_app = view.forward_key_to_app
      /\ v.modifiers = view.modifiers /\ v.phys_modifiers = view.phys_modifiers
      /\ v.next_click_is_activation = view.next_click_is_activation
  BY <1>0 DEF WellTyped, View!View
<1>10. Planned' /\ ~Pressing' /\ ~Pressing /\ Due' = "unmarked"
  BY <1>0, <1>1, <1>4, Continuing DEF Methods
<1> HIDE DEF v, e
<1>11. Modified' /\ Clicked'
  <2>1. Aside
    BY <1>1, <1>4, <1>7, <1>9 DEF Aside, Outcome, Resets
  <2>2. Due \notin View!Sides /\ Due' \notin View!Sides
    BY <1>1, <1>10 DEF View!Sides
  <2> QED BY <1>0, <1>10, <2>1, <2>2, NotAside
<1>12. /\ Tallied(view', app', queue') /\ view'.marked_text = FALSE /\ view'.composing = FALSE
       /\ view'.ime_state # "Committed" /\ view'.forward_key_to_app = view.forward_key_to_app
       /\ view'.ime_state # "Disabled" => view'.ime_capabilities = TRUE
  <2>1. CASE view' = v /\ queue' = queue
    BY <1>5, <1>7, <1>9, <2>1 DEF Settled, Tallied
  <2>2. CASE Resets(v, view') /\ (queue' = <<>> <=> queue = <<>> /\ v.ime_state = "Disabled")
    <3>1. view'.composing = FALSE /\ view'.marked_text = FALSE /\ view'.ime_state = "Disabled"
      BY <1>2, <1>4, <1>9, <2>2, NothingComposed
    <3> QED BY <1>5, <1>7, <1>9, <2>2, <3>1 DEF Settled, Tallied, Resets
  <2> QED BY <1>4, <2>1, <2>2 DEF Outcome
<1>13. Unmarking'
  BY <1>4, <1>5, <1>12 DEF Unmarking
<1>14. Composed'
  BY <1>7, <1>10, <1>12, <1>13 DEF Composed
<1> QED BY <1>8, <1>10, <1>11, <1>14 DEF TypedInv

\* unmarkText, its end.
LEMMA UnmarkTextEndsKept ==
  ASSUME TypedInv, View!UnmarkTextEnds
  PROVE  TypedInv'
<1> USE DEF View!outside
<1>0. WellTyped /\ Planned /\ Modified /\ Clicked /\ Composed
  BY DEF TypedInv
<1>1. /\ todo # <<>> /\ Due = "unmarked" /\ todo' = Tail(todo)
      /\ view' = [view EXCEPT !.ime_state = IF @ = "Disabled" THEN @ ELSE "Ground"]
      /\ UNCHANGED <<key, source, held, mods, focused, missed, activating, typist, old, app, queue, got, done>>
  BY <1>0, Stepping, Returns_ DEF View!UnmarkTextEnds
<1>2. /\ view' \in View!View /\ view'.ime_state = (IF view.ime_state = "Disabled" THEN "Disabled" ELSE "Ground")
      /\ view'.marked_text = view.marked_text /\ view'.composing = view.composing
      /\ view'.ime_capabilities = view.ime_capabilities /\ view'.forward_key_to_app = view.forward_key_to_app
      /\ view'.modifiers = view.modifiers /\ view'.phys_modifiers = view.phys_modifiers
      /\ view'.next_click_is_activation = view.next_click_is_activation
  BY <1>0, <1>1 DEF WellTyped, View!View, View!ImeStates
<1>3. WellTyped'
  BY <1>0, <1>1, <1>2 DEF WellTyped
<1>4. Planned' /\ (Pressing' <=> Pressing)
      /\ IF "other" \in got THEN Due' \in {"idle", "resign"} ELSE Due' = "interpreted"
  BY <1>0, <1>1, Returning
<1>5. Modified' /\ Clicked'
  <2>1. Aside
    BY <1>1, <1>2 DEF Aside
  <2>2. Due \notin View!Sides /\ Due' \notin View!Sides
    BY <1>1, <1>4 DEF View!Sides
  <2> QED BY <1>0, <1>4, <2>1, <2>2, NotAside
<1>6. Unmarking /\ app.misled = FALSE /\ (view.ime_state # "Disabled" => view.ime_capabilities = TRUE)
  BY <1>0, <1>1 DEF Composed
<1>7. Settled(view', app', queue') /\ view'.marked_text = FALSE /\ view'.ime_state # "Committed"
  <2>1. Tallied(view, app, queue) /\ view.marked_text = FALSE /\ view.composing = FALSE
    BY <1>6 DEF Unmarking
  <2>2. Tallied(view', app', queue')
    <3>1. view'.ime_state = "Disabled" <=> view.ime_state = "Disabled"
      BY <1>2
    <3>2. /\ view'.marked_text = view.marked_text /\ app'.ime = app.ime
          /\ app'.preedit = app.preedit /\ queue' = queue
      BY <1>1, <1>2
    <3> QED BY <2>1, <3>1, <3>2, TalliedAlike
  <2> QED BY <1>2, <2>1, <2>2 DEF Settled, Marked
<1>8. CASE "other" \in got
  <2>1. Quiet'
    BY <1>1, <1>4, <1>7, <1>8 DEF Quiet
  <2>2. Composed'
    BY <1>1, <1>2, <1>4, <1>6, <1>7, <1>8, <2>1 DEF Composed
  <2> QED BY <1>3, <1>4, <1>5, <2>2 DEF TypedInv
<1>9. CASE "other" \notin got
  <2>1. Ending'
    BY <1>1, <1>2, <1>6, <1>7, <1>9 DEF Ending, Unmarking
  <2>2. Composed'
    BY <1>1, <1>2, <1>4, <1>6, <1>7, <1>9, <2>1 DEF Composed
  <2> QED BY <1>3, <1>4, <1>5, <2>2 DEF TypedInv
<1> QED BY <1>8, <1>9

\* Nothing was composed before, and what was to be told was told, so that a key that does
\* nothing reaches the application.
LEMMA NothingSaid ==
  ASSUME First, got' = got, old' = old, view'.ime_state = view.ime_state,
         view'.forward_key_to_app = view.forward_key_to_app, Settled(view', app', queue'),
         view.marked_text = FALSE
  PROVE  Ending'
BY DEF First, Ending, HadInput, Settled, Within

\* insertText: of text that the application has seen as marked, up to its event.
LEMMA InsertMarked ==
  ASSUME TypedInv, Typable, View!InsertText, view.pending_commit = TRUE, view.ime_state # "Disabled"
  PROVE  TypedInv'
<1> DEFINE v == [view EXCEPT !.composing = FALSE, !.pending_commit = FALSE]
           e == View!Event("Commit")
<1> USE DEF View!outside
<1>0. WellTyped /\ Planned /\ Modified /\ Clicked /\ Composed
  BY DEF TypedInv
<1>1. /\ todo # <<>> /\ Due = "text" /\ todo' = <<"committed">> \o Tail(todo) /\ View!Tell(e, v)
      /\ UNCHANGED <<key, source, held, mods, focused, missed, activating, typist, old>>
  BY Stepping DEF View!InsertText, View!Then
<1>2. v \in View!View
  BY <1>0 DEF WellTyped, View!View
<1>3. e.kind = "Commit" /\ "Commit" \in View!Events \union {"Click"}
  BY DEF View!Event, View!Events
<1>4. /\ app' = View!Told(app, e) /\ got' = got \union {"Commit"} /\ done' \in 0 .. typist.max
      /\ got' \subseteq View!Events \union {"Click", "other"} /\ ("other" \in got' <=> "other" \in got)
      /\ Outcome("Commit", v, queue, view', queue')
  <2> HIDE DEF v, e
  <2> QED BY <1>0, <1>1, <1>2, <1>3, Telling
<1>5. view' = v /\ queue' = queue
  BY <1>4 DEF Outcome, Reactions
<1>6. First /\ app.misled = FALSE /\ (view.marked_text = TRUE => view.input_source = source)
  BY <1>0, <1>1 DEF Composed
<1>7. app.ime = TRUE /\ queue = <<>>
  BY <1>6 DEF First, Settled, Tallied, Within
<1>8. app' = [app EXCEPT !.preedit = FALSE, !.misled = @ \/ ~app.ime]
  BY <1>0, <1>4, Saids DEF WellTyped
<1>9. /\ app' \in View!App /\ app'.ime = TRUE /\ app'.misled = FALSE /\ app'.preedit = FALSE
      /\ app'.modifiers = app.modifiers /\ app'.sides = app.sides /\ app'.clicks = app.clicks
  BY <1>0, <1>6, <1>7, <1>8 DEF WellTyped, View!App
<1>10. WellTyped'
  BY <1>0, <1>1, <1>2, <1>4, <1>5, <1>9 DEF WellTyped
<1>11. /\ view'.marked_text = view.marked_text /\ view'.composing = FALSE
       /\ view'.ime_state = view.ime_state /\ view'.pending_commit = FALSE
       /\ view'.ime_capabilities = view.ime_capabilities /\ view'.input_source = view.input_source
       /\ view'.forward_key_to_app = view.forward_key_to_app
       /\ view'.modifiers = view.modifiers /\ view'.phys_modifiers = view.phys_modifiers
       /\ view'.next_click_is_activation = view.next_click_is_activation
  BY <1>0, <1>5 DEF WellTyped, View!View
<1>12. Planned' /\ ~Pressing' /\ ~Pressing /\ Due' = "committed"
  BY <1>0, <1>1, <1>4, Continuing DEF Methods
<1> HIDE DEF v, e
<1>13. Modified' /\ Clicked'
  <2>1. Aside
    BY <1>1, <1>9, <1>11 DEF Aside
  <2>2. Due \notin View!Sides /\ Due' \notin View!Sides
    BY <1>1, <1>12 DEF View!Sides
  <2> QED BY <1>0, <1>12, <2>1, <2>2, NotAside
<1>14. Committing'
  <2>1. Within(view, app, queue)'
    BY <1>1, <1>5, <1>6, <1>11 DEF First, Within
  <2>2. old' # "Disabled" /\ "Key" \notin got' /\ "Commit" \in got'
    BY <1>1, <1>4, <1>6 DEF First
  <2> QED BY <1>9, <1>11, <2>1, <2>2 DEF Committing
<1>15. Composed'
  BY <1>1, <1>6, <1>9, <1>11, <1>12, <1>14 DEF Composed, Committing, Within
<1> QED BY <1>10, <1>12, <1>13, <1>15 DEF TypedInv

\* insertText: of any other text; none was marked.
LEMMA InsertUnmarked ==
  ASSUME TypedInv, Typable, View!InsertText, ~(view.pending_commit = TRUE /\ view.ime_state # "Disabled")
  PROVE  TypedInv'
<1> DEFINE v == [view EXCEPT !.composing = FALSE]
<1> USE DEF View!outside
<1>0. WellTyped /\ Planned /\ Modified /\ Clicked /\ Composed
  BY DEF TypedInv
<1>1. /\ todo # <<>> /\ Due = "text" /\ todo' = Tail(todo)
      /\ View!TellIf(view.marked_text, View!Event("Clear"), v)
      /\ UNCHANGED <<key, source, held, mods, focused, missed, activating, typist, old>>
  BY <1>0, Stepping, Returns_, TypedFields DEF View!InsertText
<1>2. First /\ app.misled = FALSE /\ (view.marked_text = TRUE => view.input_source = source)
      /\ (view.ime_state # "Disabled" => view.ime_capabilities = TRUE)
  BY <1>0, <1>1 DEF Composed
<1>3. view.marked_text = FALSE /\ view.composing = FALSE
  BY <1>0, <1>2, TypedFields DEF First, Settled, Marked
<1>4. view' = v /\ UNCHANGED <<app, got, queue, done>>
  BY <1>1, <1>3 DEF View!TellIf
<1>5. /\ view' \in View!View /\ view'.marked_text = FALSE /\ view'.composing = FALSE
      /\ view'.ime_state = view.ime_state /\ view'.pending_commit = view.pending_commit
      /\ view'.ime_capabilities = view.ime_capabilities /\ view'.input_source = view.input_source
      /\ view'.forward_key_to_app = view.forward_key_to_app
      /\ view'.modifiers = view.modifiers /\ view'.phys_modifiers = view.phys_modifiers
      /\ view'.next_click_is_activation = view.next_click_is_activation
  BY <1>0, <1>3, <1>4 DEF WellTyped, View!View
<1>6. WellTyped'
  BY <1>0, <1>1, <1>4, <1>5 DEF WellTyped
<1>7. /\ Planned' /\ (Pressing' <=> Pressing) /\ Due' \in {"interpreted", "mark", "command"}
      /\ "other" \notin got
  BY <1>0, <1>1, <1>4, Returning
<1> HIDE DEF v
<1>8. Modified' /\ Clicked'
  <2>1. Aside
    BY <1>1, <1>4, <1>5 DEF Aside
  <2>2. Due \notin View!Sides /\ Due' \notin View!Sides
    BY <1>1, <1>7 DEF View!Sides
  <2> QED BY <1>0, <1>7, <2>1, <2>2, NotAside
<1>9. Settled(view', app', queue')
  BY <1>2, <1>3, <1>4, <1>5 DEF First, Settled, Tallied, Marked
<1>10. First'
  BY <1>1, <1>2, <1>4, <1>5, <1>9 DEF First, Within
<1>11. Ending'
  BY <1>1, <1>2, <1>3, <1>4, <1>5, <1>9, NothingSaid
<1>12. Composed'
  BY <1>2, <1>4, <1>5, <1>7, <1>10, <1>11 DEF Composed
<1> QED BY <1>6, <1>7, <1>8, <1>12 DEF TypedInv

\* insertText:, its end.
LEMMA InsertTextEndsKept ==
  ASSUME TypedInv, View!InsertTextEnds
  PROVE  TypedInv'
<1> USE DEF View!outside
<1>0. WellTyped /\ Planned /\ Modified /\ Clicked /\ Composed
  BY DEF TypedInv
<1>1. /\ todo # <<>> /\ Due = "committed" /\ todo' = Tail(todo)
      /\ view' = [view EXCEPT !.ime_state = "Committed"]
      /\ UNCHANGED <<key, source, held, mods, focused, missed, activating, typist, old, app, queue, got, done>>
  BY <1>0, Stepping, Returns_ DEF View!InsertTextEnds
<1>2. /\ view' \in View!View /\ view'.ime_state = "Committed"
      /\ view'.marked_text = view.marked_text /\ view'.composing = view.composing
      /\ view'.ime_capabilities = view.ime_capabilities /\ view'.pending_commit = view.pending_commit
      /\ view'.forward_key_to_app = view.forward_key_to_app /\ view'.input_source = view.input_source
      /\ view'.modifiers = view.modifiers /\ view'.phys_modifiers = view.phys_modifiers
      /\ view'.next_click_is_activation = view.next_click_is_activation
  BY <1>0, <1>1 DEF WellTyped, View!View, View!ImeStates
<1>3. WellTyped'
  BY <1>0, <1>1, <1>2 DEF WellTyped
<1>4. /\ Planned' /\ (Pressing' <=> Pressing) /\ Due' \in {"interpreted", "mark", "command"}
      /\ "other" \notin got
  BY <1>0, <1>1, Returning
<1>5. Modified' /\ Clicked'
  <2>1. Aside
    BY <1>1, <1>2 DEF Aside
  <2>2. Due \notin View!Sides /\ Due' \notin View!Sides
    BY <1>1, <1>4 DEF View!Sides
  <2> QED BY <1>0, <1>4, <2>1, <2>2, NotAside
<1>6. Committing /\ app.misled = FALSE /\ (view.marked_text = TRUE => view.input_source = source)
  BY <1>0, <1>1 DEF Composed
<1>7. Committing'
  BY <1>1, <1>2, <1>6 DEF Committing, Within
<1>8. Composed'
  BY <1>1, <1>2, <1>4, <1>6, <1>7 DEF Composed, Committing, Within
<1> QED BY <1>3, <1>4, <1>5, <1>8 DEF TypedInv

\* doCommandBySelector: after a text.
LEMMA CommandAfterText ==
  ASSUME TypedInv, View!DoCommand, view.ime_state = "Committed"
  PROVE  TypedInv'
<1> USE DEF View!outside
<1>0. WellTyped /\ Planned /\ Modified /\ Clicked /\ Composed
  BY DEF TypedInv
<1>1. /\ todo # <<>> /\ Due = "command" /\ todo' = Tail(todo) /\ view' = view
      /\ UNCHANGED <<key, source, held, mods, focused, missed, activating, typist, old, app, queue, got, done>>
  BY <1>0, Stepping, Returns_ DEF View!DoCommand, View!TellIf
<1>2. WellTyped'
  BY <1>0, <1>1 DEF WellTyped
<1>3. Planned' /\ (Pressing' <=> Pressing) /\ Due' = "interpreted" /\ "other" \notin got
  BY <1>0, <1>1, Returning
<1>4. Modified' /\ Clicked'
  <2>1. Aside
    BY <1>1 DEF Aside
  <2>2. Due \notin View!Sides /\ Due' \notin View!Sides
    BY <1>1, <1>3 DEF View!Sides
  <2> QED BY <1>0, <1>3, <2>1, <2>2, NotAside
<1>5. Committing
  BY <1>0, <1>1 DEF Composed, First
<1>6. Committing'
  BY <1>1, <1>5 DEF Committing, Within
<1>7. Composed'
  BY <1>0, <1>1, <1>3, <1>6 DEF Composed
<1> QED BY <1>2, <1>3, <1>4, <1>7 DEF TypedInv

\* doCommandBySelector: of a key that is given back.
LEMMA CommandAlone ==
  ASSUME TypedInv, Typable, View!DoCommand, view.ime_state # "Committed"
  PROVE  TypedInv'
<1> DEFINE v == [view EXCEPT !.forward_key_to_app = TRUE,
                             !.ime_state = IF @ = "Preedit" /\ view.marked_text THEN "Ground" ELSE @]
           e == View!Event("Command")
<1> USE DEF View!outside
<1>0. WellTyped /\ Planned /\ Modified /\ Clicked /\ Composed
  BY DEF TypedInv
<1>1. /\ todo # <<>> /\ Due = "command" /\ todo' = Tail(todo) /\ View!Tell(e, v)
      /\ UNCHANGED <<key, source, held, mods, focused, missed, activating, typist, old>>
  BY <1>0, Stepping, Returns_ DEF View!DoCommand, View!TellIf
<1>2. v \in View!View
  BY <1>0 DEF WellTyped, View!View, View!ImeStates
<1>3. e.kind = "Command" /\ "Command" \in View!Events \union {"Click"}
  BY DEF View!Event, View!Events
<1>4. /\ app' = View!Told(app, e) /\ got' = got \union {"Command"} /\ done' \in 0 .. typist.max
      /\ got' \subseteq View!Events \union {"Click", "other"} /\ ("other" \in got' <=> "other" \in got)
      /\ view' \in View!View /\ queue' \in Seq({View!Event("Disabled")})
      /\ Outcome("Command", v, queue, view', queue')
  <2> HIDE DEF v, e
  <2> QED BY <1>0, <1>1, <1>2, <1>3, Telling
<1>5. app' = app
  BY <1>0, <1>4, Saids DEF WellTyped
<1>6. First /\ app.misled = FALSE /\ (view.marked_text = TRUE => view.input_source = source)
  BY <1>0, <1>1 DEF Composed
<1>7. WellTyped'
  BY <1>0, <1>1, <1>4, <1>5 DEF WellTyped
<1>8. /\ v.marked_text = view.marked_text /\ v.composing = view.composing
      /\ v.ime_state = (IF view.ime_state = "Preedit" /\ view.marked_text = TRUE THEN "Ground" ELSE view.ime_state)
      /\ v.pending_commit = view.pending_commit /\ v.forward_key_to_app = TRUE
      /\ v.ime_capabilities = view.ime_capabilities /\ v.input_source = view.input_source
      /\ v.modifiers = view.modifiers /\ v.phys_modifiers = view.phys_modifiers
      /\ v.next_click_is_activation = view.next_click_is_activation
  BY <1>0 DEF WellTyped, View!View
<1>9. Planned' /\ (Pressing' <=> Pressing) /\ Due' = "interpreted" /\ "other" \notin got
  BY <1>0, <1>1, <1>4, Returning
<1> HIDE DEF v, e
<1>10. Modified' /\ Clicked'
  <2>1. Aside
    BY <1>1, <1>4, <1>5, <1>8 DEF Aside, Outcome, Resets
  <2>2. Due \notin View!Sides /\ Due' \notin View!Sides
    BY <1>1, <1>9 DEF View!Sides
  <2> QED BY <1>0, <1>9, <2>1, <2>2, NotAside
<1>11. /\ Settled(view', app', queue') /\ view'.forward_key_to_app = TRUE
       /\ view'.marked_text = TRUE => view'.input_source = source
       /\ view'.ime_state # "Disabled" => view'.ime_capabilities = TRUE
  <2>1. CASE view' = v /\ queue' = queue
    BY <1>5, <1>6, <1>8, <2>1 DEF First, Settled, Tallied, Marked, Within
  <2>2. CASE Resets(v, view') /\ (queue' = <<>> <=> queue = <<>> /\ v.ime_state = "Disabled")
    <3>1. view'.composing = FALSE /\ view'.marked_text = FALSE /\ view'.ime_state = "Disabled" /\ Marked(view')
      BY <1>2, <1>4, <1>6, <1>8, <2>2, NothingComposed DEF First, Within, Settled, Marked
    <3>2. Tallied(view, app, queue) /\ (view.ime_state = "Disabled" => view.marked_text = FALSE)
      BY <1>0, <1>6, TypedFields DEF First, Settled, Marked
    <3>3. Tallied(v, app, queue) /\ (v.ime_state = "Disabled" => v.marked_text = FALSE)
      BY <1>8, <3>2, TalliedAlike
    <3>4. Settled(view', app', queue')
      BY <1>5, <2>2, <3>1, <3>3, SettledByReset
    <3> QED BY <1>8, <2>2, <3>1, <3>4 DEF Resets
  <2> QED BY <1>4, <2>1, <2>2 DEF Outcome
<1>12. Ending'
  BY <1>4, <1>6, <1>11 DEF First, Ending
<1>13. Composed'
  BY <1>1, <1>5, <1>6, <1>9, <1>11, <1>12 DEF Composed
<1> QED BY <1>7, <1>9, <1>10, <1>13 DEF TypedInv

----
(* keyDown: and keyUp:. *)

\* The input method has interpreted the key.
LEMMA InterpretedKept ==
  ASSUME TypedInv, View!Interpreted
  PROVE  TypedInv'
<1> USE DEF View!outside
<1>0. WellTyped /\ Planned /\ Modified /\ Clicked /\ Composed
  BY DEF TypedInv
<1>1. /\ todo # <<>> /\ Due = "interpreted" /\ todo' = Tail(todo)
      /\ view' = [view EXCEPT !.marked_text =
                    @ /\ ~(view.ime_capabilities /\ view.ime_state = "Committed")]
      /\ UNCHANGED <<key, source, held, mods, focused, missed, activating, typist, old, app, queue, got, done>>
  BY <1>0, Stepping, Returns_ DEF View!Interpreted
<1>2. /\ view' \in View!View /\ view'.ime_state = view.ime_state /\ view'.composing = view.composing
      /\ view'.ime_capabilities = view.ime_capabilities /\ view'.pending_commit = view.pending_commit
      /\ view'.forward_key_to_app = view.forward_key_to_app /\ view'.input_source = view.input_source
      /\ view'.modifiers = view.modifiers /\ view'.phys_modifiers = view.phys_modifiers
      /\ view'.next_click_is_activation = view.next_click_is_activation
      /\ view'.marked_text = IF view.ime_capabilities = TRUE /\ view.ime_state = "Committed" THEN FALSE
                             ELSE view.marked_text
  BY <1>0, <1>1 DEF WellTyped, View!View
<1>3. WellTyped'
  BY <1>0, <1>1, <1>2 DEF WellTyped
<1>4. Planned' /\ (Pressing' <=> Pressing) /\ Due' = "modifiers" /\ "other" \notin got
  BY <1>0, <1>1, Returning
<1>5. Modified' /\ Clicked'
  <2>1. Aside
    BY <1>1, <1>2 DEF Aside
  <2>2. Due \notin View!Sides /\ Due' \notin View!Sides
    BY <1>1, <1>4 DEF View!Sides
  <2> QED BY <1>0, <1>4, <2>1, <2>2, NotAside
<1>6. Ending'
  <2>1. CASE Ending
    <3>1. view'.marked_text = view.marked_text
      BY <1>0, <1>2, <2>1, TypedFields DEF Ending, Settled, Marked
    <3> QED BY <1>1, <1>2, <2>1, <3>1 DEF Ending, HadInput, Settled, Tallied, Marked
  <2>2. CASE Committing /\ view.ime_state = "Committed"
    BY <1>1, <1>2, <2>2 DEF Committing, Within, Ending, HadInput, Settled, Tallied, Marked
  <2> QED BY <1>0, <1>1, <2>1, <2>2 DEF Composed
<1>7. Composed'
  BY <1>0, <1>1, <1>2, <1>4, <1>6 DEF Composed
<1> QED BY <1>3, <1>4, <1>5, <1>7 DEF TypedInv

\* update_modifiers of a key or a click.
LEMMA UpdateModifiersKept ==
  ASSUME TypedInv, Typable, View!UpdateModifiers
  PROVE  TypedInv'
<1> DEFINE on == mods # {}
           v == [view EXCEPT !.modifiers = on]
           e == View!Modifiers(on)
<1> USE DEF View!outside
<1>0. WellTyped /\ Planned /\ Modified /\ Clicked /\ Composed
  BY DEF TypedInv
<1>1. /\ todo # <<>> /\ Due = "modifiers" /\ todo' = Tail(todo) /\ View!TellIf(view.modifiers # on, e, v)
      /\ UNCHANGED <<key, source, held, mods, focused, missed, activating, typist, old>>
  BY <1>0, Stepping, Returns_ DEF View!UpdateModifiers
<1>2. v \in View!View
  BY <1>0 DEF WellTyped, View!View
<1>3. e.kind = "Modifiers" /\ "Modifiers" \in View!Events \union {"Click"}
  BY DEF View!Modifiers, View!Events
<1>4. /\ app' \in View!App /\ app' = [app EXCEPT !.modifiers = on] /\ view' = v /\ queue' = queue
      /\ done' \in 0 .. typist.max /\ got \subseteq got' /\ got' \subseteq got \union {"Modifiers"}
      /\ got' \subseteq View!Events \union {"Click", "other"} /\ ("other" \in got' <=> "other" \in got)
  <2>1. CASE view.modifiers # on
    <3>1. /\ app' = View!Told(app, e) /\ got' = got \union {"Modifiers"} /\ done' \in 0 .. typist.max
          /\ got' \subseteq View!Events \union {"Click", "other"} /\ ("other" \in got' <=> "other" \in got)
          /\ Outcome("Modifiers", v, queue, view', queue')
      <4>1. View!Tell(e, v)
        BY <1>1, <2>1 DEF View!TellIf
      <4> HIDE DEF v, e
      <4> QED BY <1>0, <1>1, <1>2, <1>3, <4>1, Telling
    <3>2. view' = v /\ queue' = queue
      BY <3>1 DEF Outcome, Reactions
    <3>3. app' = [app EXCEPT !.modifiers = on]
      <4>1. app \in View!App
        BY <1>0 DEF WellTyped
      <4>2. \A m : View!Told(app, View!Modifiers(m)) = [app EXCEPT !.modifiers = m]
        BY <4>1, Saids
      <4> QED BY <3>1, <4>2
    <3> QED BY <1>0, <3>1, <3>2, <3>3 DEF WellTyped, View!App
  <2>2. CASE view.modifiers = on
    <3>1. view' = v /\ UNCHANGED <<app, got, queue, done>>
      BY <1>1, <2>2 DEF View!TellIf
    <3>2. app.modifiers = on
      BY <1>0, <2>2 DEF Modified
    <3> QED BY <1>0, <3>1, <3>2 DEF WellTyped, View!App
  <2> QED BY <2>1, <2>2
<1>5. /\ view'.marked_text = view.marked_text /\ view'.ime_state = view.ime_state
      /\ view'.composing = view.composing /\ view'.ime_capabilities = view.ime_capabilities
      /\ view'.pending_commit = view.pending_commit
      /\ view'.forward_key_to_app = view.forward_key_to_app /\ view'.input_source = view.input_source
      /\ view'.modifiers = on /\ view'.phys_modifiers = view.phys_modifiers
      /\ view'.next_click_is_activation = view.next_click_is_activation
      /\ app'.modifiers = on /\ app'.ime = app.ime /\ app'.preedit = app.preedit
      /\ app'.sides = app.sides /\ app'.clicks = app.clicks /\ app'.misled = app.misled
  BY <1>0, <1>4 DEF WellTyped, View!View, View!App
<1>6. WellTyped'
  BY <1>0, <1>1, <1>2, <1>4 DEF WellTyped
<1>7. /\ Planned' /\ (Pressing' <=> Pressing)
      /\ IF "other" \in got THEN Due' \in {"up", "press", "release"} ELSE Due' = "key"
  BY <1>0, <1>1, <1>4, Returning
<1> HIDE DEF v, e, on
<1>8. Modified'
  BY <1>0, <1>1, <1>5, <1>7 DEF Modified, View!Sides
<1>9. Clicked'
  BY <1>0, <1>1, <1>5, <1>7 DEF Clicked
<1>10. CASE "other" \in got
  <2>1. Quiet
    BY <1>0, <1>1, <1>10 DEF Composed
  <2>2. Quiet'
    BY <1>1, <1>4, <1>5, <1>7, <1>10, <2>1 DEF Quiet, Settled, Tallied, Marked
  <2>3. Composed'
    BY <1>0, <1>1, <1>4, <1>5, <1>7, <1>10, <2>2 DEF Composed
  <2> QED BY <1>6, <1>7, <1>8, <1>9, <2>3 DEF TypedInv
<1>11. CASE "other" \notin got
  <2>1. Ending
    BY <1>0, <1>1, <1>11 DEF Composed
  <2>2. Ending'
    BY <1>1, <1>4, <1>5, <2>1 DEF Ending, HadInput, Settled, Tallied, Marked
  <2>3. Composed'
    BY <1>0, <1>1, <1>4, <1>5, <1>7, <1>11, <2>2 DEF Composed
  <2> QED BY <1>6, <1>7, <1>8, <1>9, <2>3 DEF TypedInv
<1> QED BY <1>10, <1>11

\* keyDown:, its end: the key goes to the application if the input method had nothing to
\* do with it or gave it back.
LEMMA KeyDownEndsKept ==
  ASSUME TypedInv, Typable, View!KeyDownEnds
  PROVE  TypedInv'
<1> DEFINE v == [view EXCEPT !.ime_state = IF @ = "Committed" THEN "Ground" ELSE @]
           e == View!KeyInput(key, TRUE)
           told == ~HadInput \/ view.forward_key_to_app = TRUE
<1> USE DEF View!outside
<1>0. WellTyped /\ Planned /\ Modified /\ Clicked /\ Composed
  BY DEF TypedInv
<1>1. /\ todo # <<>> /\ Due = "key" /\ todo' = Tail(todo)
      /\ IF told THEN View!Tell(e, v) ELSE view' = v /\ UNCHANGED <<app, got, queue, done>>
      /\ UNCHANGED <<key, source, held, mods, focused, missed, activating, typist, old>>
  BY <1>0, Stepping, Returns_, TypedFields DEF View!KeyDownEnds, View!TellIf, HadInput
<1>2. v \in View!View
  BY <1>0 DEF WellTyped, View!View, View!ImeStates
<1>3. e.kind = "Key" /\ "Key" \in View!Events \union {"Click"}
  BY DEF View!KeyInput, View!Events
<1>4. /\ app' \in View!App /\ app'.ime = app.ime /\ app'.preedit = app.preedit /\ app'.misled = app.misled
      /\ app'.modifiers = app.modifiers /\ app'.sides = app.sides /\ app'.clicks = app.clicks
      /\ got' = (IF told THEN got \union {"Key"} ELSE got) /\ done' \in 0 .. typist.max
      /\ got' \subseteq View!Events \union {"Click", "other"} /\ ("other" \in got' <=> "other" \in got)
      /\ view' \in View!View /\ queue' \in Seq({View!Event("Disabled")})
      /\ Outcome("Key", v, queue, view', queue')
  <2>1. CASE told
    <3>1. /\ app' = View!Told(app, e) /\ got' = got \union {"Key"} /\ done' \in 0 .. typist.max
          /\ got' \subseteq View!Events \union {"Click", "other"} /\ ("other" \in got' <=> "other" \in got)
          /\ view' \in View!View /\ queue' \in Seq({View!Event("Disabled")})
          /\ Outcome("Key", v, queue, view', queue')
      <4>1. View!Tell(e, v)
        BY <1>1, <2>1
      <4> HIDE DEF v, e, told
      <4> QED BY <1>0, <1>1, <1>2, <1>3, <4>1, Telling
    <3>2. app' = [app EXCEPT !.pressed = @ \union {key}]
      BY <1>0, <3>1, Saids DEF WellTyped
    <3>3. /\ app' \in View!App /\ app'.ime = app.ime /\ app'.preedit = app.preedit /\ app'.misled = app.misled
          /\ app'.modifiers = app.modifiers /\ app'.sides = app.sides /\ app'.clicks = app.clicks
      BY <1>0, <3>2 DEF WellTyped, View!App
    <3> HIDE DEF v, e, told
    <3> QED BY <2>1, <3>1, <3>3
  <2>2. CASE ~told
    <3>1. view' = v /\ UNCHANGED <<app, got, queue, done>>
      BY <1>1, <2>2
    <3> HIDE DEF v, e, told
    <3> QED BY <1>0, <1>2, <2>2, <3>1 DEF WellTyped, Outcome
  <2> HIDE DEF v, e, told
  <2> QED BY <2>1, <2>2
<1>5. WellTyped'
  BY <1>0, <1>1, <1>4 DEF WellTyped
<1>6. /\ v.marked_text = view.marked_text /\ v.composing = view.composing
      /\ v.ime_state = (IF view.ime_state = "Committed" THEN "Ground" ELSE view.ime_state)
      /\ v.pending_commit = view.pending_commit
      /\ v.ime_capabilities = view.ime_capabilities /\ v.input_source = view.input_source
      /\ v.modifiers = view.modifiers /\ v.phys_modifiers = view.phys_modifiers
      /\ v.next_click_is_activation = view.next_click_is_activation
  BY <1>0 DEF WellTyped, View!View
<1>7. Planned' /\ (Pressing' <=> Pressing) /\ Due' = "idle" /\ "other" \notin got
  BY <1>0, <1>1, <1>4, Returning
<1>8. Ending /\ app.misled = FALSE /\ (view.marked_text = TRUE => view.input_source = source)
      /\ (view.ime_state # "Disabled" => view.ime_capabilities = TRUE)
  BY <1>0, <1>1 DEF Composed
<1>9. /\ ~({"Key", "Commit"} \subseteq got')
      /\ \E x \in {"Key", "Commit", "Preedit", "Clear"} : x \in got'
  BY <1>0, <1>4, <1>8, TypedFields DEF Ending
<1> HIDE DEF v, e, told
<1>10. Modified' /\ Clicked'
  <2>1. Aside
    BY <1>1, <1>4, <1>6 DEF Aside, Outcome, Resets
  <2>2. Due \notin View!Sides /\ Due' \notin View!Sides
    BY <1>1, <1>7 DEF View!Sides
  <2> QED BY <1>0, <1>7, <2>1, <2>2, NotAside
<1>11. /\ Settled(view', app', queue') /\ view'.ime_state # "Committed"
       /\ view'.marked_text = TRUE => view'.input_source = source
       /\ view'.ime_state # "Disabled" => view'.ime_capabilities = TRUE
  <2>1. CASE view' = v /\ queue' = queue
    BY <1>4, <1>6, <1>8, <2>1 DEF Ending, Settled, Tallied, Marked
  <2>2. CASE Resets(v, view') /\ (queue' = <<>> <=> queue = <<>> /\ v.ime_state = "Disabled")
    <3>1. view'.composing = FALSE /\ view'.marked_text = FALSE /\ view'.ime_state = "Disabled" /\ Marked(view')
      BY <1>2, <1>4, <1>6, <1>8, <2>2, NothingComposed DEF Ending, Settled, Marked
    <3>2. Tallied(view, app, queue) /\ (view.ime_state = "Disabled" => view.marked_text = FALSE)
      BY <1>0, <1>8, TypedFields DEF Ending, Settled, Marked
    <3>3. Tallied(v, app, queue) /\ (v.ime_state = "Disabled" => v.marked_text = FALSE)
      BY <1>6, <3>2, TalliedAlike
    <3>4. Settled(view', app', queue')
      BY <1>4, <2>2, <3>1, <3>3, SettledByReset
    <3> QED BY <3>1, <3>4
  <2> QED BY <1>4, <2>1, <2>2 DEF Outcome
<1>12. Quiet'
  BY <1>7, <1>9, <1>11 DEF Quiet
<1>13. Composed'
  BY <1>1, <1>4, <1>7, <1>8, <1>11, <1>12 DEF Composed
<1> QED BY <1>5, <1>7, <1>10, <1>13 DEF TypedInv

\* Two methods before others.
LEMMA TwoBefore ==
  ASSUME NEW m \in Methods, NEW n \in Methods, NEW rest \in Seq(Methods)
  PROVE  /\ <<m, n>> \o rest \in Seq(Methods) /\ <<m, n>> \o rest # <<>>
         /\ Head(<<m, n>> \o rest) = m /\ Tail(<<m, n>> \o rest) = <<n>> \o rest
<1> DEFINE s == <<m, n>> \o rest
           t == <<n>> \o rest
<1>1. /\ <<m, n>> \in Seq(Methods) /\ Len(<<m, n>>) = 2 /\ <<m, n>>[1] = m /\ <<m, n>>[2] = n
      /\ <<n>> \in Seq(Methods) /\ Len(<<n>>) = 1 /\ <<n>>[1] = n /\ Len(rest) \in Nat
  OBVIOUS
<1>2. /\ s \in Seq(Methods) /\ Len(s) = 2 + Len(rest)
      /\ \A i \in 1 .. 2 + Len(rest) : s[i] = IF i <= 2 THEN <<m, n>>[i] ELSE rest[i - 2]
  BY <1>1, ConcatProperties
<1>3. /\ t \in Seq(Methods) /\ Len(t) = 1 + Len(rest)
      /\ \A i \in 1 .. 1 + Len(rest) : t[i] = IF i <= 1 THEN <<n>>[i] ELSE rest[i - 1]
  BY <1>1, ConcatProperties
<1> SUFFICES s \in Seq(Methods) /\ s # <<>> /\ Head(s) = m /\ Tail(s) = t
  OBVIOUS
<1> HIDE DEF s, t
<1>4. s # <<>> /\ Head(s) = m
  BY <1>1, <1>2
<1>5. /\ Tail(s) \in Seq(Methods) /\ Len(Tail(s)) = 1 + Len(rest)
      /\ \A i \in 1 .. 1 + Len(rest) : Tail(s)[i] = s[i + 1]
  BY <1>1, <1>2, <1>4
<1>6. \A i \in 1 .. 1 + Len(rest) : Tail(s)[i] = t[i]
  <2> SUFFICES ASSUME NEW i \in 1 .. 1 + Len(rest) PROVE Tail(s)[i] = t[i]
    OBVIOUS
  <2>1. CASE i = 1
    BY <1>1, <1>2, <1>3, <1>5, <2>1
  <2>2. CASE i # 1
    <3>1. i + 1 \in 1 .. 2 + Len(rest) /\ ~(i + 1 <= 2) /\ ~(i <= 1) /\ i + 1 - 2 = i - 1
      BY <1>1, <2>2
    <3>2. s[i + 1] = rest[i + 1 - 2]
      BY <1>2, <3>1
    <3>3. t[i] = rest[i - 1]
      BY <1>3, <3>1
    <3> QED BY <1>5, <3>1, <3>2, <3>3
  <2> QED BY <2>1, <2>2
<1> DEFINE u == Tail(s)
<1>7. u \in Seq(Methods) /\ Len(u) = Len(t) /\ \A i \in 1 .. Len(u) : u[i] = t[i]
  BY <1>3, <1>5, <1>6
<1> HIDE DEF u
<1>8. u = t
  BY <1>3, <1>7, SeqEqual
<1> QED BY <1>2, <1>4, <1>8 DEF u

\* What the input method does with a key.
LEMMA Calling ==
  ASSUME Planned, todo # <<>>, Due = "interpret", got' = got,
         NEW called \in BOOLEAN,
         IF called = TRUE THEN \E made \in View!Interpretations : View!Then(made) ELSE View!Then(<<>>)
  PROVE  /\ Planned' /\ ~Pressing' /\ ~Pressing /\ "other" \notin got
         /\ called = FALSE => Due' = "interpreted"
         /\ called = TRUE => Due' \in {"mark", "text", "clear", "unmark", "command"}
<1>1. Head(todo) = "interpret" /\ Tail(todo) = Finally /\ "other" \notin got
  BY DEF Planned, Due, Precedes, Called
<1>2. CASE called = FALSE
  <2>1. todo' = Tail(todo)
    BY <1>2, Returns_
  <2>2. Planned' /\ Due' = "interpreted"
    BY <1>1, <2>1, Returning
  <2> QED BY <1>1, <1>2, <2>2 DEF Pressing
<1>3. CASE called = TRUE
  <2>1. PICK made \in View!Interpretations : todo' = made \o Finally
    BY <1>1, <1>3 DEF View!Then
  <2>2. \/ \E m \in {"mark", "text", "clear", "unmark", "command"} : made = <<m>>
        \/ \E n \in {"mark", "command"} : made = <<"text", n>>
    BY DEF View!Interpretations
  <2>3. CASE \E m \in {"mark", "text", "clear", "unmark", "command"} : made = <<m>>
    <3>1. PICK m \in {"mark", "text", "clear", "unmark", "command"} : made = <<m>>
      BY <2>3
    <3>2. m \in Methods /\ Finally \in Seq(Methods)
      BY FinallyPlans DEF Methods
    <3>3. todo' \in Seq(Methods) /\ todo' # <<>> /\ Head(todo') = m /\ Tail(todo') = Finally
      BY <2>1, <3>1, <3>2, MethodBefore
    <3>4. Precedes(m, Finally, "other" \notin got)
      BY <1>1 DEF Precedes, Called
    <3> QED BY <1>1, <1>3, <3>3, <3>4 DEF Planned, Due, Pressing
  <2>4. CASE \E n \in {"mark", "command"} : made = <<"text", n>>
    <3>1. PICK n \in {"mark", "command"} : made = <<"text", n>>
      BY <2>4
    <3>2. n \in Methods /\ "text" \in Methods /\ Finally \in Seq(Methods)
      BY FinallyPlans DEF Methods
    <3>3. todo' \in Seq(Methods) /\ todo' # <<>> /\ Head(todo') = "text" /\ Tail(todo') = <<n>> \o Finally
      BY <2>1, <3>1, <3>2, TwoBefore
    <3>4. Precedes("text", <<n>> \o Finally, "other" \notin got)
      BY <1>1, <3>1 DEF Precedes
    <3> QED BY <1>1, <1>3, <3>3, <3>4 DEF Planned, Due, Pressing
  <2> QED BY <2>2, <2>3, <2>4
<1> QED BY <1>2, <1>3

\* interpretKeyEvents:.
LEMMA InterpretKeyEventsKept ==
  ASSUME TypedInv, View!InterpretKeyEvents
  PROVE  TypedInv'
<1> USE DEF View!outside
<1>0. WellTyped /\ Planned /\ Modified /\ Clicked /\ Composed
  BY DEF TypedInv
<1>1. /\ todo # <<>> /\ Due = "interpret" /\ old' = view.ime_state
      /\ view' = [view EXCEPT !.forward_key_to_app = FALSE]
      /\ IF view.ime_capabilities = TRUE THEN \E made \in View!Interpretations : View!Then(made) ELSE View!Then(<<>>)
      /\ UNCHANGED <<key, source, held, mods, focused, missed, activating, typist, app, queue, got, done>>
  BY <1>0, Stepping, TypedFields DEF View!InterpretKeyEvents
<1>2. /\ view' \in View!View /\ view'.ime_state = view.ime_state /\ view'.composing = view.composing
      /\ view'.ime_capabilities = view.ime_capabilities /\ view'.pending_commit = view.pending_commit
      /\ view'.forward_key_to_app = FALSE /\ view'.input_source = view.input_source
      /\ view'.modifiers = view.modifiers /\ view'.phys_modifiers = view.phys_modifiers
      /\ view'.next_click_is_activation = view.next_click_is_activation
      /\ view'.marked_text = view.marked_text
  BY <1>0, <1>1 DEF WellTyped, View!View
<1>3. WellTyped'
  BY <1>0, <1>1, <1>2, TypedFields DEF WellTyped
<1>4. /\ Planned' /\ ~Pressing' /\ ~Pressing /\ "other" \notin got
      /\ view.ime_capabilities = FALSE => Due' = "interpreted"
      /\ view.ime_capabilities = TRUE => Due' \in {"mark", "text", "clear", "unmark", "command"}
  <2>1. view.ime_capabilities \in BOOLEAN
    BY <1>0, TypedFields
  <2> QED BY <1>0, <1>1, <2>1, Calling
<1>5. Modified' /\ Clicked'
  <2>1. Aside
    BY <1>1, <1>2 DEF Aside
  <2>2. Due \notin View!Sides /\ Due' \notin View!Sides
    BY <1>1, <1>4 DEF View!Sides
  <2> QED BY <1>0, <1>4, <2>1, <2>2, NotAside
<1>6. /\ Quiet /\ app.misled = FALSE /\ (view.marked_text = TRUE => view.input_source = source)
      /\ (view.ime_state # "Disabled" => view.ime_capabilities = TRUE)
  BY <1>0, <1>1 DEF Composed
<1>7. Settled(view', app', queue') /\ view'.ime_state # "Committed"
  BY <1>1, <1>2, <1>6 DEF Quiet, Settled, Tallied, Marked
<1>8. CASE view.ime_capabilities = FALSE
  <2>1. got' = got /\ got \subseteq {"Disabled"} /\ old' = "Disabled" /\ view'.ime_state = "Disabled"
    BY <1>1, <1>2, <1>6, <1>8 DEF Quiet
  <2>2. "Key" \notin got' /\ "Commit" \notin got'
    BY <2>1
  <2>3. Ending'
    BY <1>7, <2>1, <2>2 DEF Ending, HadInput
  <2>4. Composed'
    BY <1>1, <1>2, <1>4, <1>6, <1>8, <2>3 DEF Composed
  <2> QED BY <1>3, <1>4, <1>5, <2>4 DEF TypedInv
<1>9. CASE view.ime_capabilities = TRUE
  <2>1. First'
    BY <1>1, <1>2, <1>6, <1>7, <1>9 DEF Quiet, First, Within
  <2>2. Composed'
    BY <1>1, <1>2, <1>4, <1>6, <1>9, <2>1 DEF Composed
  <2> QED BY <1>3, <1>4, <1>5, <2>2 DEF TypedInv
<1> QED BY <1>0, <1>8, <1>9, TypedFields

\* keyDown:, up to the event about another input source.
LEMMA KeyDownKept ==
  ASSUME TypedInv, Typable, View!KeyDown
  PROVE  TypedInv'
<1> DEFINE changed == view.input_source # source /\ view.ime_state # "Disabled"
           v == IF changed THEN [view EXCEPT !.input_source = source, !.ime_state = "Disabled"] ELSE view
           e == View!Event("Disabled")
<1> USE DEF View!outside
<1>0. WellTyped /\ Planned /\ Modified /\ Clicked /\ Composed
  BY DEF TypedInv
<1>1. /\ todo # <<>> /\ Due = "down" /\ todo' = <<"interpret", "interpreted", "modifiers", "key">> \o Tail(todo)
      /\ View!TellIf(changed, e, v)
      /\ UNCHANGED <<key, source, held, mods, focused, missed, activating, typist, old>>
  BY <1>0, Stepping DEF View!KeyDown, View!Then
<1>2. v \in View!View
  BY <1>0 DEF WellTyped, View!View, View!ImeStates
<1>3. e.kind = "Disabled" /\ "Disabled" \in View!Events \union {"Click"}
  BY DEF View!Event, View!Events
<1>4. /\ Quiet /\ queue = <<>> /\ got \subseteq {"Disabled"} /\ app.misled = FALSE
      /\ (view.marked_text = TRUE => view.input_source = source)
      /\ (view.ime_state # "Disabled" => view.ime_capabilities = TRUE)
  BY <1>0, <1>1 DEF Composed, Quiet
<1>5. /\ v.ime_state = (IF changed THEN "Disabled" ELSE view.ime_state)
      /\ v.marked_text = view.marked_text /\ v.composing = view.composing
      /\ v.pending_commit = view.pending_commit /\ v.ime_capabilities = view.ime_capabilities
      /\ v.ime_state # "Disabled" => v.input_source = source
      /\ v.modifiers = view.modifiers /\ v.phys_modifiers = view.phys_modifiers
      /\ v.next_click_is_activation = view.next_click_is_activation
      /\ changed => v.marked_text = FALSE /\ view.ime_state # "Disabled"
  BY <1>0, <1>4, TypedFields DEF WellTyped, View!View
<1>6. /\ app' \in View!App /\ app'.misled = app.misled
      /\ app'.modifiers = app.modifiers /\ app'.sides = app.sides /\ app'.clicks = app.clicks
      /\ IF changed THEN app'.ime = FALSE /\ app'.preedit = FALSE ELSE app' = app
      /\ got' \subseteq {"Disabled"} /\ done' \in 0 .. typist.max
      /\ view' \in View!View /\ queue' \in Seq({View!Event("Disabled")})
      /\ Outcome("Disabled", v, queue, view', queue')
      /\ ~changed => view' = v /\ queue' = queue
  <2>1. CASE changed
    <3>1. /\ app' = View!Told(app, e) /\ got' = got \union {"Disabled"} /\ done' \in 0 .. typist.max
          /\ view' \in View!View /\ queue' \in Seq({View!Event("Disabled")})
          /\ Outcome("Disabled", v, queue, view', queue')
      <4>1. View!Tell(e, v)
        BY <1>1, <2>1 DEF View!TellIf
      <4> HIDE DEF v, e, changed
      <4> QED BY <1>0, <1>1, <1>2, <1>3, <4>1, Telling
    <3>2. app' = [app EXCEPT !.ime = FALSE, !.preedit = FALSE]
      BY <1>0, <3>1, Saids DEF WellTyped
    <3>3. /\ app' \in View!App /\ app'.ime = FALSE /\ app'.preedit = FALSE /\ app'.misled = app.misled
          /\ app'.modifiers = app.modifiers /\ app'.sides = app.sides /\ app'.clicks = app.clicks
      BY <1>0, <3>2 DEF WellTyped, View!App
    <3> HIDE DEF v, e, changed
    <3> QED BY <1>4, <2>1, <3>1, <3>3
  <2>2. CASE ~changed
    <3>1. view' = v /\ UNCHANGED <<app, got, queue, done>>
      BY <1>1, <2>2 DEF View!TellIf
    <3> HIDE DEF v, e, changed
    <3> QED BY <1>0, <1>2, <1>4, <2>2, <3>1 DEF WellTyped, Outcome
  <2> HIDE DEF v, e, changed
  <2> QED BY <2>1, <2>2
<1>7. got' \subseteq View!Events \union {"Click", "other"} /\ "other" \notin got' /\ "other" \notin got
  BY <1>4, <1>6 DEF View!Events
<1>8. WellTyped'
  BY <1>0, <1>1, <1>6, <1>7 DEF WellTyped
<1>9. Planned' /\ ~Pressing' /\ ~Pressing /\ Due' = "interpret"
  <2> DEFINE a == "interpret"
             b == <<"interpreted", "modifiers", "key">>
  <2>1. Tail(todo) = <<>>
    BY <1>0, <1>1 DEF Planned, Due, Precedes, Called
  <2>2. /\ a \in Methods /\ b \in Seq(Methods) /\ b = Finally
    BY FinallyPlans DEF Finally, Methods
  <2>3. <<"interpret", "interpreted", "modifiers", "key">> \o <<>> = <<"interpret", "interpreted", "modifiers", "key">>
    OBVIOUS
  <2>4. /\ <<"interpret", "interpreted", "modifiers", "key">> \in Seq(Methods)
        /\ <<"interpret", "interpreted", "modifiers", "key">> # <<>>
        /\ Head(<<"interpret", "interpreted", "modifiers", "key">>) = a
        /\ Tail(<<"interpret", "interpreted", "modifiers", "key">>) = b
    BY DEF Methods
  <2>5. todo' \in Seq(Methods) /\ todo' # <<>> /\ Head(todo') = a /\ Tail(todo') = Finally
    BY <1>1, <2>1, <2>2, <2>3, <2>4
  <2>6. Precedes(a, Finally, "other" \notin got')
    BY <1>7 DEF Precedes, Called
  <2> QED BY <1>1, <2>5, <2>6 DEF Planned, Due, Pressing
<1> HIDE DEF v, e, changed
<1>10. Modified' /\ Clicked'
  <2>1. Aside
    BY <1>1, <1>5, <1>6 DEF Aside, Outcome, Resets
  <2>2. Due \notin View!Sides /\ Due' \notin View!Sides
    BY <1>1, <1>9 DEF View!Sides
  <2> QED BY <1>0, <1>9, <2>1, <2>2, NotAside
<1>11. /\ Settled(view', app', queue') /\ view'.ime_state # "Committed" /\ queue' = <<>>
       /\ view'.marked_text = TRUE => view'.input_source = source
       /\ view'.ime_state # "Disabled" => view'.ime_capabilities = TRUE /\ view'.input_source = source
  <2>1. CASE ~changed
    <3>1. v.ime_state = view.ime_state /\ app' = app /\ view' = v /\ queue' = queue
      BY <1>5, <1>6, <2>1
    <3>2. v.marked_text = TRUE => v.ime_state # "Disabled"
      BY <1>4, <1>5, <3>1 DEF Quiet, Settled, Marked
    <3> QED BY <1>4, <1>5, <3>1, <3>2 DEF Quiet, Settled, Tallied, Marked
  <2>2. CASE changed
    <3>1. v.composing = FALSE /\ v.marked_text = FALSE /\ v.ime_state = "Disabled"
      BY <1>4, <1>5, <2>2 DEF Quiet, Settled, Marked
    <3>2. CASE view' = v /\ queue' = queue
      BY <1>4, <1>6, <2>2, <3>1, <3>2 DEF Settled, Tallied, Marked
    <3>3. CASE Resets(v, view') /\ (queue' = <<>> <=> queue = <<>> /\ v.ime_state = "Disabled")
      <4>1. view'.composing = FALSE /\ view'.marked_text = FALSE /\ view'.ime_state = "Disabled" /\ Marked(view')
        BY <1>2, <1>6, <3>1, <3>3, NothingComposed
      <4> QED BY <1>4, <1>6, <2>2, <3>1, <3>3, <4>1 DEF Settled, Tallied
    <3> QED BY <1>6, <3>2, <3>3 DEF Outcome
  <2> QED BY <2>1, <2>2
<1>12. Quiet'
  BY <1>1, <1>6, <1>9, <1>11 DEF Quiet
<1>13. Composed'
  BY <1>1, <1>4, <1>6, <1>9, <1>11, <1>12 DEF Composed
<1> QED BY <1>8, <1>9, <1>10, <1>13 DEF TypedInv

\* An event that has nothing to do with text leaves the view settled.
LEMMA StaysQuiet ==
  ASSUME WellTyped, Quiet, app'.ime = app.ime, app'.preedit = app.preedit, source' = source,
         NEW v \in View!View, NEW kind, view' \in View!View, Outcome(kind, v, queue, view', queue'),
         v.ime_state = view.ime_state, v.marked_text = view.marked_text, v.composing = view.composing,
         v.pending_commit = view.pending_commit, v.ime_capabilities = view.ime_capabilities,
         v.input_source = view.input_source,
         view.marked_text = TRUE => view.input_source = source,
         view.ime_state # "Disabled" => view.ime_capabilities = TRUE
  PROVE  /\ Settled(view', app', queue') /\ view'.ime_state # "Committed"
         /\ view'.marked_text = TRUE => view'.input_source = source'
         /\ view'.ime_state # "Disabled" => view'.ime_capabilities = TRUE
<1>1. CASE view' = v /\ queue' = queue
  BY <1>1 DEF Quiet, Settled, Tallied, Marked
<1>2. CASE Resets(v, view') /\ (queue' = <<>> <=> queue = <<>> /\ v.ime_state = "Disabled")
  <2>1. view'.composing = FALSE /\ view'.marked_text = FALSE /\ view'.ime_state = "Disabled" /\ Marked(view')
    BY <1>2, NothingComposed DEF Quiet, Settled, Marked
  <2>2. Tallied(view, app, queue) /\ (view.ime_state = "Disabled" => view.marked_text = FALSE)
    BY TypedFields DEF Quiet, Settled, Marked
  <2>3. Tallied(v, app, queue) /\ (v.ime_state = "Disabled" => v.marked_text = FALSE)
    BY <2>2, TalliedAlike
  <2>4. Settled(view', app', queue')
    BY <1>2, <2>1, <2>3, SettledByReset
  <2> QED BY <2>1, <2>4
<1> QED BY <1>1, <1>2 DEF Outcome

\* keyUp:.
LEMMA KeyUpKept ==
  ASSUME TypedInv, Typable, View!KeyUp
  PROVE  TypedInv'
<1> DEFINE e == View!KeyInput(key, FALSE)
           told == view.ime_state \in {"Ground", "Disabled"}
<1> USE DEF View!outside
<1>0. WellTyped /\ Planned /\ Modified /\ Clicked /\ Composed
  BY DEF TypedInv
<1>1. /\ todo # <<>> /\ Due = "up" /\ todo' = Tail(todo)
      /\ IF told THEN View!Tell(e, view) ELSE view' = view /\ UNCHANGED <<app, got, queue, done>>
      /\ UNCHANGED <<key, source, held, mods, focused, missed, activating, typist, old>>
  BY <1>0, Stepping, Returns_ DEF View!KeyUp, View!TellIf
<1>2. view \in View!View
  BY <1>0 DEF WellTyped
<1>3. e.kind = "Key" /\ "Key" \in View!Events \union {"Click"}
  BY DEF View!KeyInput, View!Events
<1>4. /\ app' \in View!App /\ app'.ime = app.ime /\ app'.preedit = app.preedit /\ app'.misled = app.misled
      /\ app'.modifiers = app.modifiers /\ app'.sides = app.sides /\ app'.clicks = app.clicks
      /\ done' \in 0 .. typist.max
      /\ got' \subseteq View!Events \union {"Click", "other"} /\ ("other" \in got' <=> "other" \in got)
      /\ view' \in View!View /\ queue' \in Seq({View!Event("Disabled")})
      /\ Outcome("Key", view, queue, view', queue')
  <2>1. CASE told
    <3>1. /\ app' = View!Told(app, e) /\ done' \in 0 .. typist.max
          /\ got' \subseteq View!Events \union {"Click", "other"} /\ ("other" \in got' <=> "other" \in got)
          /\ view' \in View!View /\ queue' \in Seq({View!Event("Disabled")})
          /\ Outcome("Key", view, queue, view', queue')
      <4>1. View!Tell(e, view)
        BY <1>1, <2>1
      <4> HIDE DEF e, told
      <4> QED BY <1>0, <1>1, <1>2, <1>3, <4>1, Telling
    <3>2. app' = [app EXCEPT !.pressed = @ \ {key}]
      BY <1>0, <3>1, Saids DEF WellTyped
    <3>3. /\ app' \in View!App /\ app'.ime = app.ime /\ app'.preedit = app.preedit /\ app'.misled = app.misled
          /\ app'.modifiers = app.modifiers /\ app'.sides = app.sides /\ app'.clicks = app.clicks
      BY <1>0, <3>2 DEF WellTyped, View!App
    <3> HIDE DEF e, told
    <3> QED BY <3>1, <3>3
  <2>2. CASE ~told
    <3>1. view' = view /\ UNCHANGED <<app, got, queue, done>>
      BY <1>1, <2>2
    <3> HIDE DEF e, told
    <3> QED BY <1>0, <1>2, <3>1 DEF WellTyped, Outcome
  <2> HIDE DEF e, told
  <2> QED BY <2>1, <2>2
<1>5. WellTyped'
  BY <1>0, <1>1, <1>4 DEF WellTyped
<1>6. Planned' /\ (Pressing' <=> Pressing) /\ Due' = "idle" /\ "other" \in got
  BY <1>0, <1>1, <1>4, Returning
<1> HIDE DEF e, told
<1>7. Modified' /\ Clicked'
  <2>1. Aside
    BY <1>1, <1>4 DEF Aside, Outcome, Resets
  <2>2. Due \notin View!Sides /\ Due' \notin View!Sides
    BY <1>1, <1>6 DEF View!Sides
  <2> QED BY <1>0, <1>6, <2>1, <2>2, NotAside
<1>8. /\ Quiet /\ app.misled = FALSE /\ (view.marked_text = TRUE => view.input_source = source)
      /\ (view.ime_state # "Disabled" => view.ime_capabilities = TRUE)
  BY <1>0, <1>1 DEF Composed
<1>9. /\ Settled(view', app', queue') /\ view'.ime_state # "Committed"
      /\ view'.marked_text = TRUE => view'.input_source = source'
      /\ view'.ime_state # "Disabled" => view'.ime_capabilities = TRUE
  BY <1>0, <1>1, <1>2, <1>4, <1>8, StaysQuiet
<1>10. Quiet'
  BY <1>4, <1>6, <1>9 DEF Quiet
<1>11. Composed'
  BY <1>1, <1>4, <1>6, <1>8, <1>9, <1>10 DEF Composed
<1> QED BY <1>5, <1>6, <1>7, <1>11 DEF TypedInv

----
(* Modifiers and clicks. *)

\* What flagsChanged: guesses is what the application hears, and right if only the key at
\* side has changed or all are up.
LEMMA GuessedRight ==
  ASSUME NEW side \in View!Sides, mods \subseteq View!Sides, view.phys_modifiers \subseteq View!Sides
  PROVE  LET g == View!Guessed(side)
         IN  /\ g.now \subseteq View!Sides
             /\ (view.phys_modifiers \ g.released) \union g.pressed = g.now
             /\ mods = {} \/ view.phys_modifiers = (mods \ {side}) \union ({side} \ mods) => g.now = mods
<1> DEFINE was == view.phys_modifiers
           g == View!Guessed(side)
<1>1. CASE mods = {}
  <2>1. g = [now |-> {}, released |-> was, pressed |-> {}]
    BY <1>1 DEF View!Guessed
  <2>2. g.now = {} /\ g.released = was /\ g.pressed = {}
    BY <2>1
  <2> QED BY <1>1, <2>2
<1>2. CASE mods # {} /\ was = {side}
  <2>1. g = [now |-> was, released |-> {}, pressed |-> {side}]
    BY <1>2 DEF View!Guessed
  <2>2. g.now = was /\ g.released = {} /\ g.pressed = {side}
    BY <2>1
  <2>3. was # (mods \ {side}) \union ({side} \ mods)
    <3> SUFFICES ASSUME was = (mods \ {side}) \union ({side} \ mods) PROVE FALSE
      OBVIOUS
    <3>1. side \notin mods /\ \A x \in mods : x = side
      BY <1>2
    <3> QED BY <1>2, <3>1
  <2> QED BY <1>2, <2>2, <2>3
<1>3. CASE mods # {} /\ was # {side} /\ side \in was
  <2>1. g = [now |-> was \ {side}, released |-> {side}, pressed |-> {}]
    BY <1>3 DEF View!Guessed
  <2>2. g.now = was \ {side} /\ g.released = {side} /\ g.pressed = {}
    BY <2>1
  <2>3. was = (mods \ {side}) \union ({side} \ mods) => was \ {side} = mods
    BY <1>3
  <2> QED BY <1>3, <2>2, <2>3
<1>4. CASE mods # {} /\ was # {side} /\ side \notin was
  <2>1. g = [now |-> was \union {side}, released |-> {}, pressed |-> {side}]
    BY <1>4 DEF View!Guessed
  <2>2. g.now = was \union {side} /\ g.released = {} /\ g.pressed = {side}
    BY <2>1
  <2>3. was = (mods \ {side}) \union ({side} \ mods) => was \union {side} = mods
    BY <1>4
  <2> QED BY <1>4, <2>2, <2>3
<1> QED BY <1>1, <1>2, <1>3, <1>4

\* flagsChanged:.
LEMMA FlagsChangedKept ==
  ASSUME TypedInv, Typable, NEW side \in View!Sides, View!FlagsChanged(side)
  PROVE  TypedInv'
<1> DEFINE g == View!Guessed(side)
           on == mods # {}
           told == [app EXCEPT !.sides = (@ \ g.released) \union g.pressed]
           v == [view EXCEPT !.phys_modifiers = g.now, !.modifiers = on]
<1> USE DEF View!outside
<1>0. WellTyped /\ Planned /\ Modified /\ Clicked /\ Composed
  BY DEF TypedInv
<1>1. /\ todo # <<>> /\ Due = side /\ todo' = Tail(todo)
      /\ IF view.modifiers = on
         THEN app' = told /\ view' = v /\ UNCHANGED <<queue, done, got>>
         ELSE app' = View!Told(told, View!Modifiers(on)) /\ UNCHANGED got /\ View!Reacts("Modifiers", v)
      /\ UNCHANGED <<key, source, held, mods, focused, missed, activating, typist, old>>
  BY <1>0, Stepping, Returns_ DEF View!FlagsChanged
<1>2. /\ g.now \subseteq View!Sides /\ (view.phys_modifiers \ g.released) \union g.pressed = g.now
      /\ mods = {} \/ view.phys_modifiers = (mods \ {side}) \union ({side} \ mods) => g.now = mods
  BY <1>0, GuessedRight, TypedFields DEF WellTyped
<1>3. told = [app EXCEPT !.sides = g.now] /\ told \in View!App
  BY <1>0, <1>2 DEF Modified, WellTyped, View!App
<1> HIDE DEF g
<1>4. v \in View!View
  BY <1>0, <1>2 DEF WellTyped, View!View
<1>5. /\ app' \in View!App /\ app' = [app EXCEPT !.sides = g.now, !.modifiers = on] /\ got' = got
      /\ view' = v /\ queue' = queue /\ done' \in 0 .. typist.max
  <2>1. CASE view.modifiers = on
    <3>1. app.modifiers = on
      BY <1>0, <2>1 DEF Modified
    <3> QED BY <1>0, <1>1, <1>3, <2>1, <3>1 DEF WellTyped, View!App
  <2>2. CASE view.modifiers # on
    <3>1. app' = View!Told(told, View!Modifiers(on)) /\ got' = got /\ View!Reacts("Modifiers", v)
      BY <1>1, <2>2
    <3>2. view' = v /\ queue' = queue /\ done' \in 0 .. typist.max
      <4> HIDE DEF v
      <4>1. Outcome("Modifiers", v, queue, view', queue') /\ done' \in 0 .. typist.max
        BY <1>0, <1>1, <1>4, <3>1, Reacting
      <4> QED BY <4>1 DEF Outcome, Reactions
    <3>3. app' = [told EXCEPT !.modifiers = on]
      <4> HIDE DEF told
      <4>1. \A m : View!Told(told, View!Modifiers(m)) = [told EXCEPT !.modifiers = m]
        BY <1>3, Saids
      <4> QED BY <3>1, <4>1
    <3> QED BY <1>0, <1>3, <3>1, <3>2, <3>3 DEF WellTyped, View!App
  <2> QED BY <2>1, <2>2
<1>6. /\ view'.marked_text = view.marked_text /\ view'.ime_state = view.ime_state
      /\ view'.composing = view.composing /\ view'.ime_capabilities = view.ime_capabilities
      /\ view'.pending_commit = view.pending_commit /\ view'.input_source = view.input_source
      /\ view'.modifiers = on /\ view'.phys_modifiers = g.now
      /\ view'.next_click_is_activation = view.next_click_is_activation
      /\ app'.modifiers = on /\ app'.sides = g.now /\ app'.ime = app.ime /\ app'.preedit = app.preedit
      /\ app'.clicks = app.clicks /\ app'.misled = app.misled
  BY <1>0, <1>5 DEF WellTyped, View!View, View!App
<1>7. WellTyped'
  BY <1>0, <1>1, <1>4, <1>5 DEF WellTyped
<1>8. Planned' /\ (Pressing' <=> Pressing) /\ Due' = "idle" /\ "other" \in got
  BY <1>0, <1>1, <1>5, Returning DEF View!Sides
<1> HIDE DEF v, told, on
<1>9. Modified'
  BY <1>0, <1>1, <1>2, <1>6, <1>8 DEF Modified, View!Sides
<1>10. Clicked'
  BY <1>0, <1>1, <1>6, <1>8 DEF Clicked
<1>11. /\ Quiet /\ app.misled = FALSE /\ (view.marked_text = TRUE => view.input_source = source)
       /\ (view.ime_state # "Disabled" => view.ime_capabilities = TRUE)
  BY <1>0, <1>1 DEF Composed, View!Sides
<1>12. Quiet'
  BY <1>5, <1>6, <1>8, <1>11 DEF Quiet, Settled, Tallied, Marked
<1>13. Composed'
  BY <1>1, <1>5, <1>6, <1>8, <1>11, <1>12 DEF Composed
<1> QED BY <1>7, <1>8, <1>9, <1>10, <1>13 DEF TypedInv

\* reset_modifiers.
LEMMA ResetModifiersKept ==
  ASSUME TypedInv, Typable, View!ResetModifiers
  PROVE  TypedInv'
<1> DEFINE v == [view EXCEPT !.modifiers = FALSE]
           e == View!Modifiers(FALSE)
<1> USE DEF View!outside
<1>0. WellTyped /\ Planned /\ Modified /\ Clicked /\ Composed
  BY DEF TypedInv
<1>1. /\ todo # <<>> /\ Due = "resign" /\ todo' = Tail(todo) /\ View!TellIf(view.modifiers, e, v)
      /\ UNCHANGED <<key, source, held, mods, focused, missed, activating, typist, old>>
  BY <1>0, Stepping, Returns_ DEF View!ResetModifiers
<1>2. v \in View!View
  BY <1>0 DEF WellTyped, View!View
<1>3. e.kind = "Modifiers" /\ "Modifiers" \in View!Events \union {"Click"}
  BY DEF View!Modifiers, View!Events
<1>4. /\ app' \in View!App /\ app' = [app EXCEPT !.modifiers = FALSE] /\ view' = v /\ queue' = queue
      /\ done' \in 0 .. typist.max
      /\ got' \subseteq View!Events \union {"Click", "other"} /\ ("other" \in got' <=> "other" \in got)
  <2>1. CASE view.modifiers = TRUE
    <3>1. /\ app' = View!Told(app, e) /\ done' \in 0 .. typist.max
          /\ got' \subseteq View!Events \union {"Click", "other"} /\ ("other" \in got' <=> "other" \in got)
          /\ Outcome("Modifiers", v, queue, view', queue')
      <4>1. View!Tell(e, v)
        BY <1>1, <2>1 DEF View!TellIf
      <4> HIDE DEF v, e
      <4> QED BY <1>0, <1>1, <1>2, <1>3, <4>1, Telling
    <3>2. view' = v /\ queue' = queue
      BY <3>1 DEF Outcome, Reactions
    <3>3. app' = [app EXCEPT !.modifiers = FALSE]
      BY <1>0, <3>1, Saids DEF WellTyped
    <3> QED BY <1>0, <3>1, <3>2, <3>3 DEF WellTyped, View!App
  <2>2. CASE view.modifiers = FALSE
    <3>1. view' = v /\ UNCHANGED <<app, got, queue, done>>
      BY <1>1, <2>2 DEF View!TellIf
    <3>2. app.modifiers = FALSE
      BY <1>0, <2>2 DEF Modified
    <3> QED BY <1>0, <3>1, <3>2 DEF WellTyped, View!App
  <2> QED BY <1>0, <2>1, <2>2, TypedFields
<1>5. /\ view'.marked_text = view.marked_text /\ view'.ime_state = view.ime_state
      /\ view'.composing = view.composing /\ view'.ime_capabilities = view.ime_capabilities
      /\ view'.pending_commit = view.pending_commit /\ view'.input_source = view.input_source
      /\ view'.modifiers = FALSE /\ view'.phys_modifiers = view.phys_modifiers
      /\ view'.next_click_is_activation = view.next_click_is_activation
      /\ app'.modifiers = FALSE /\ app'.ime = app.ime /\ app'.preedit = app.preedit
      /\ app'.sides = app.sides /\ app'.clicks = app.clicks /\ app'.misled = app.misled
  BY <1>0, <1>4 DEF WellTyped, View!View, View!App
<1>6. WellTyped'
  BY <1>0, <1>1, <1>2, <1>4 DEF WellTyped
<1>7. Planned' /\ (Pressing' <=> Pressing) /\ Due' = "idle" /\ "other" \in got
  BY <1>0, <1>1, <1>4, Returning
<1> HIDE DEF v, e
<1>8. Modified'
  BY <1>0, <1>1, <1>5, <1>7 DEF Modified, View!Sides
<1>9. Clicked'
  BY <1>0, <1>1, <1>5, <1>7 DEF Clicked
<1>10. Quiet
  BY <1>0, <1>1 DEF Composed
<1>11. Quiet'
  BY <1>1, <1>4, <1>5, <1>7, <1>10 DEF Quiet, Settled, Tallied, Marked
<1>12. Composed'
  BY <1>0, <1>1, <1>4, <1>5, <1>7, <1>11 DEF Composed
<1> QED BY <1>6, <1>7, <1>8, <1>9, <1>12 DEF TypedInv

\* mouseDown: and mouseUp:.
LEMMA MouseClickKept ==
  ASSUME TypedInv, Typable, NEW name \in {"press", "release"}, View!MouseClick(name)
  PROVE  TypedInv'
<1> DEFINE down == name = "press"
           was == view.next_click_is_activation
           v == [view EXCEPT !.next_click_is_activation = @ /\ down]
           e == View!Click(down, was)
<1> USE DEF View!outside
<1>0. WellTyped /\ Planned /\ Modified /\ Clicked /\ Composed
  BY DEF TypedInv
<1>1. /\ todo # <<>> /\ Due = name /\ todo' = Tail(todo) /\ View!Tell(e, v)
      /\ UNCHANGED <<key, source, held, mods, focused, missed, activating, typist, old>>
  BY <1>0, Stepping, Returns_ DEF View!MouseClick
<1>2. v \in View!View /\ was \in BOOLEAN /\ down \in BOOLEAN
  BY <1>0 DEF WellTyped, View!View
<1>3. e.kind = "Click" /\ "Click" \in View!Events \union {"Click"}
  BY DEF View!Click, View!Events
<1>4. /\ app' = View!Told(app, e) /\ done' \in 0 .. typist.max
      /\ got' \subseteq View!Events \union {"Click", "other"} /\ ("other" \in got' <=> "other" \in got)
      /\ Outcome("Click", v, queue, view', queue')
  <2> HIDE DEF v, e
  <2> QED BY <1>0, <1>1, <1>2, <1>3, Telling
<1>5. view' = v /\ queue' = queue
  BY <1>4 DEF Outcome, Reactions
<1>6. app' = [app EXCEPT !.clicks = IF down THEN {was} ELSE {}]
  <2>1. CASE name = "press"
    <3>1. down = TRUE /\ e = View!Click(TRUE, was)
      BY <2>1
    <3>2. app \in View!App
      BY <1>0 DEF WellTyped
    <3>3. View!Told(app, View!Click(TRUE, was)) = [app EXCEPT !.clicks = {was}]
      <4> HIDE DEF was
      <4> QED BY <3>2, Saids
    <3> QED BY <1>4, <3>1, <3>3
  <2>2. CASE name = "release"
    <3>1. down = FALSE /\ e = View!Click(FALSE, was)
      BY <2>2
    <3>2. app \in View!App
      BY <1>0 DEF WellTyped
    <3>3. View!Told(app, View!Click(FALSE, was)) = [app EXCEPT !.clicks = {}]
      <4> HIDE DEF was
      <4> QED BY <3>2, Saids
    <3> QED BY <1>4, <3>1, <3>3
  <2> QED BY <2>1, <2>2
<1>7. /\ app' \in View!App /\ app'.clicks = (IF name = "press" THEN {was} ELSE {})
      /\ app'.modifiers = app.modifiers /\ app'.ime = app.ime /\ app'.preedit = app.preedit
      /\ app'.sides = app.sides /\ app'.misled = app.misled
  BY <1>0, <1>2, <1>6 DEF WellTyped, View!App
<1>8. /\ view'.marked_text = view.marked_text /\ view'.ime_state = view.ime_state
      /\ view'.composing = view.composing /\ view'.ime_capabilities = view.ime_capabilities
      /\ view'.pending_commit = view.pending_commit /\ view'.input_source = view.input_source
      /\ view'.modifiers = view.modifiers /\ view'.phys_modifiers = view.phys_modifiers
      /\ view'.next_click_is_activation = (IF name = "press" THEN was ELSE FALSE)
  BY <1>0, <1>2, <1>5 DEF WellTyped, View!View
<1>9. WellTyped'
  BY <1>0, <1>1, <1>2, <1>4, <1>5, <1>7 DEF WellTyped
<1>10. Planned' /\ ~Pressing' /\ Due' = "idle" /\ "other" \in got /\ (Pressing <=> name = "press")
  <2>1. Planned' /\ (Pressing' <=> Pressing /\ Due # "press") /\ Due' = "idle" /\ "other" \in got
    BY <1>0, <1>1, <1>4, Returning
  <2> QED BY <1>1, <2>1 DEF Pressing
<1>11. Modified'
  BY <1>0, <1>1, <1>7, <1>8, <1>10 DEF Modified, View!Sides
<1>12. Clicked'
  <2>1. CASE name = "press"
    BY <1>0, <1>1, <1>7, <1>8, <1>10, <2>1 DEF Clicked
  <2>2. CASE name = "release"
    BY <1>7, <1>8, <1>10, <2>2 DEF Clicked
  <2> QED BY <2>1, <2>2
<1>13. Quiet
  BY <1>0, <1>1 DEF Composed
<1> HIDE DEF v, e, was, down
<1>14. Quiet'
  BY <1>1, <1>4, <1>5, <1>7, <1>8, <1>10, <1>13 DEF Quiet, Settled, Tallied, Marked
<1>15. Composed'
  BY <1>0, <1>1, <1>4, <1>5, <1>7, <1>8, <1>10, <1>14 DEF Composed
<1> QED BY <1>9, <1>10, <1>11, <1>12, <1>15 DEF TypedInv

----
(* The user, AppKit and the application between the calls. *)

\* Nothing is due.
LEMMA Idling ==
  ASSUME TypedInv, todo = <<>>
  PROVE  /\ Due = "idle" /\ ~Pressing /\ Quiet /\ Settled(view, app, queue) /\ view.ime_state # "Committed"
         /\ app.misled = FALSE /\ (view.marked_text = TRUE => view.input_source = source)
         /\ (view.ime_state # "Disabled" => view.ime_capabilities = TRUE)
         /\ app.modifiers = view.modifiers /\ app.sides = view.phys_modifiers
         /\ missed = FALSE => view.phys_modifiers = mods
         /\ \/ app.clicks = {} /\ view.next_click_is_activation = FALSE
            \/ app.clicks = {activating} /\ view.next_click_is_activation = activating
<1>1. Due = "idle"
  BY DEF Due
<1>2. ~Pressing
  BY <1>1 DEF Pressing
<1>3. Quiet /\ app.misled = FALSE /\ (view.marked_text = TRUE => view.input_source = source)
      /\ (view.ime_state # "Disabled" => view.ime_capabilities = TRUE)
  BY <1>1 DEF TypedInv, Composed
<1>4. /\ app.modifiers = view.modifiers /\ app.sides = view.phys_modifiers
      /\ missed = FALSE => view.phys_modifiers = mods
  BY <1>1 DEF TypedInv, Modified, View!Sides
<1>5. \/ app.clicks = {} /\ view.next_click_is_activation = FALSE
      \/ app.clicks = {activating} /\ view.next_click_is_activation = activating
  BY <1>2 DEF TypedInv, Clicked
<1> QED BY <1>1, <1>2, <1>3, <1>4, <1>5 DEF Quiet

\* What begins with one method or two.
LEMMA Beginning ==
  /\ "other" \in got' /\ todo' = <<>> => Planned' /\ Due' = "idle" /\ ~Pressing'
  /\ \A m \in {"left", "right", "resign", "unmark"} :
       "other" \in got' /\ todo' = <<m>> => Planned' /\ Due' = m /\ ~Pressing'
  /\ \A m \in {"up", "press", "release"} :
       "other" \in got' /\ todo' = <<"modifiers", m>> =>
         Planned' /\ Due' = "modifiers" /\ (Pressing' <=> m = "press")
  /\ "other" \in got' /\ todo' = <<"unmark">> \o <<"resign">> => Planned' /\ Due' = "unmark" /\ ~Pressing'
  /\ "other" \notin got' /\ todo' = <<"down">> => Planned' /\ Due' = "down" /\ ~Pressing'
<1>0. /\ {"left", "right", "resign", "unmark", "up", "press", "release", "down", "modifiers"} \subseteq Methods
      /\ <<>> \in Seq(Methods)
  BY DEF Methods
<1>1. "other" \in got' /\ todo' = <<>> => Planned' /\ Due' = "idle" /\ ~Pressing'
  BY <1>0 DEF Planned, Due, Pressing
<1>2. ASSUME NEW m \in {"left", "right", "resign", "unmark"}, "other" \in got', todo' = <<m>>
      PROVE  Planned' /\ Due' = m /\ ~Pressing'
  <2>1. todo' \in Seq(Methods) /\ todo' # <<>> /\ Head(todo') = m /\ Tail(todo') = <<>>
    BY <1>0, <1>2, FinallyPlans
  <2> QED BY <1>2, <2>1 DEF Planned, Due, Pressing, Precedes
<1>3. ASSUME NEW m \in {"up", "press", "release"}, "other" \in got', todo' = <<"modifiers", m>>
      PROVE  Planned' /\ Due' = "modifiers" /\ (Pressing' <=> m = "press")
  <2>1. /\ todo' \in Seq(Methods) /\ todo' # <<>> /\ Head(todo') = "modifiers" /\ Tail(todo') = <<m>>
    <3> DEFINE n == "modifiers"
    <3>1. n \in Methods /\ m \in Methods
      BY <1>0
    <3>2. <<n, m>> \in Seq(Methods) /\ <<n, m>> # <<>> /\ Head(<<n, m>>) = n /\ Tail(<<n, m>>) = <<m>>
      <4> HIDE DEF n
      <4> QED BY <3>1
    <3> QED BY <1>3, <3>2
  <2>2. <<m>> = <<"press">> <=> m = "press"
    BY FinallyPlans
  <2> QED BY <1>3, <2>1, <2>2 DEF Planned, Due, Pressing, Precedes
<1>4. ASSUME "other" \in got', todo' = <<"unmark">> \o <<"resign">>
      PROVE  Planned' /\ Due' = "unmark" /\ ~Pressing'
  <2>1. /\ todo' \in Seq(Methods) /\ todo' # <<>> /\ Head(todo') = "unmark" /\ Tail(todo') = <<"resign">>
    BY <1>0, <1>4, FinallyPlans, MethodBefore
  <2> QED BY <1>4, <2>1 DEF Planned, Due, Pressing, Precedes
<1>5. ASSUME "other" \notin got', todo' = <<"down">>
      PROVE  Planned' /\ Due' = "down" /\ ~Pressing'
  <2>1. todo' \in Seq(Methods) /\ todo' # <<>> /\ Head(todo') = "down" /\ Tail(todo') = <<>>
    BY <1>0, <1>5, FinallyPlans
  <2> QED BY <1>5, <2>1 DEF Planned, Due, Pressing, Precedes
<1> QED BY <1>1, <1>2, <1>3, <1>4, <1>5

\* What begins finds the view quiet.
LEMMA BeginsQuiet ==
  ASSUME TypedInv, todo = <<>>, got' = {"other"}, UNCHANGED <<app, queue>>,
         view'.ime_state = view.ime_state, view'.marked_text = view.marked_text,
         view'.composing = view.composing, view'.pending_commit = view.pending_commit,
         view'.ime_capabilities = view.ime_capabilities, view'.input_source = view.input_source,
         source' = source \/ Due' = "unmark" \/ view.marked_text = FALSE,
         Due' \in {"idle", "modifiers", "left", "right", "resign", "unmark"}
  PROVE  Composed'
<1>1. Quiet'
  BY Idling DEF Quiet, Settled, Tallied, Marked
<1> QED BY <1>1, Idling DEF Composed

\* A key goes down.
LEMMA PressKeyKept ==
  ASSUME TypedInv, Typable, View!PressKey
  PROVE  TypedInv'
<1>1. /\ todo = <<>> /\ queue = <<>> /\ done < typist.max /\ done' = done + 1
      /\ key' \in {"a"} /\ held' = held \union {key'} /\ got' = {} /\ todo' = <<"down">>
      /\ UNCHANGED <<view, app, old, queue, source, mods, focused, missed, activating, typist>>
  BY DEF View!PressKey, View!Does, View!Idle
<1>2. WellTyped'
  <2>1. done' \in 0 .. typist.max
    BY <1>1 DEF TypedInv, WellTyped, Typable, Responsive
  <2> QED BY <1>1, <2>1 DEF TypedInv, WellTyped
<1>3. Planned' /\ Due' = "down" /\ ~Pressing'
  BY <1>1, Beginning
<1>4. Modified' /\ Clicked'
  BY <1>1, <1>3, Idling DEF Modified, Clicked, View!Sides
<1>5. Quiet'
  BY <1>1, <1>3, Idling DEF Quiet
<1>6. Composed'
  BY <1>1, <1>3, <1>5, Idling DEF Composed
<1> QED BY <1>2, <1>3, <1>4, <1>6 DEF TypedInv

\* A key goes up.
LEMMA ReleaseKeyKept ==
  ASSUME TypedInv, View!ReleaseKey
  PROVE  TypedInv'
<1>1. /\ todo = <<>> /\ key' \in held /\ held' = held \ {key'} /\ got' = {"other"}
      /\ todo' = <<"modifiers", "up">>
      /\ UNCHANGED <<view, app, old, queue, source, mods, focused, missed, activating, done, typist>>
  BY DEF View!ReleaseKey, View!Idle, View!Calls
<1>2. WellTyped'
  BY <1>1 DEF TypedInv, WellTyped
<1>3. Planned' /\ Due' = "modifiers" /\ ~Pressing'
  BY <1>1, Beginning
<1>4. Modified' /\ Clicked'
  BY <1>1, <1>3, Idling DEF Modified, Clicked, View!Sides
<1>5. Composed'
  BY <1>1, <1>3, BeginsQuiet
<1> QED BY <1>2, <1>3, <1>4, <1>5 DEF TypedInv

\* A modifier key goes down or up.
LEMMA ModifierKeyKept ==
  ASSUME TypedInv, Typable, View!ModifierKey
  PROVE  TypedInv'
<1>1. PICK side \in View!Sides :
        /\ mods' = IF side \in mods THEN mods \ {side} ELSE mods \union {side}
        /\ todo' = (IF focused THEN <<side>> ELSE <<>>) /\ got' = {"other"}
  BY DEF View!ModifierKey, View!Calls
<1>2. /\ todo = <<>> /\ done < typist.max /\ done' = done + 1
      /\ missed' = IF focused THEN missed /\ mods' # {} ELSE TRUE
      /\ UNCHANGED <<view, app, key, old, queue, source, held, focused, activating, typist>>
  BY DEF View!ModifierKey, View!Does, View!Idle
<1>3. mods \subseteq View!Sides /\ focused \in BOOLEAN /\ missed \in BOOLEAN
  BY DEF TypedInv, WellTyped
<1>4. /\ mods' \subseteq View!Sides
      /\ mods = (mods' \ {side}) \union ({side} \ mods')
  BY <1>1, <1>3
<1>5. WellTyped'
  <2>1. done' \in 0 .. typist.max
    BY <1>2 DEF TypedInv, WellTyped, Typable, Responsive
  <2> QED BY <1>1, <1>2, <1>3, <1>4, <2>1 DEF TypedInv, WellTyped, View!Events
<1>6. Planned' /\ Due' = (IF focused THEN side ELSE "idle") /\ ~Pressing'
  BY <1>1, Beginning DEF View!Sides
<1>7. Modified'
  <2>1. CASE focused = TRUE
    <3>1. Due' = side /\ missed' = (missed /\ mods' # {})
      BY <1>2, <1>6, <2>1
    <3>2. missed' = FALSE => mods' = {} \/ view.phys_modifiers = (mods' \ {side}) \union ({side} \ mods')
      BY <1>2, <1>3, <1>4, <3>1, Idling
    <3> QED BY <1>2, <3>1, <3>2, Idling DEF Modified
  <2>2. CASE focused = FALSE
    BY <1>2, <2>2, Idling DEF Modified
  <2> QED BY <1>3, <2>1, <2>2
<1>8. Clicked'
  BY <1>2, <1>6, Idling DEF Clicked
<1>9. Composed'
  BY <1>1, <1>2, <1>6, BeginsQuiet DEF View!Sides
<1> QED BY <1>5, <1>6, <1>7, <1>8, <1>9 DEF TypedInv

\* The window resigns.
LEMMA ResignKept ==
  ASSUME TypedInv, Typable, View!Resign
  PROVE  TypedInv'
<1>1. /\ todo = <<>> /\ done < typist.max /\ done' = done + 1 /\ focused' = FALSE /\ got' = {"other"}
      /\ todo' = (IF view.composing THEN <<"unmark">> ELSE <<>>) \o <<"resign">>
      /\ UNCHANGED <<view, app, key, old, queue, source, held, mods, missed, activating, typist>>
  BY DEF View!Resign, View!Does, View!Idle, View!Calls
<1>2. WellTyped'
  <2>1. done' \in 0 .. typist.max
    BY <1>1 DEF TypedInv, WellTyped, Typable, Responsive
  <2> QED BY <1>1, <2>1 DEF TypedInv, WellTyped
<1>3. Planned' /\ Due' \in {"unmark", "resign"} /\ ~Pressing'
  <2>1. <<>> \o <<"resign">> = <<"resign">>
    OBVIOUS
  <2> QED BY <1>1, <2>1, Beginning
<1>4. Modified' /\ Clicked'
  BY <1>1, <1>3, Idling DEF Modified, Clicked, View!Sides
<1>5. Composed'
  BY <1>1, <1>3, BeginsQuiet
<1> QED BY <1>2, <1>3, <1>4, <1>5 DEF TypedInv

\* The window becomes key.
LEMMA BecomeKept ==
  ASSUME TypedInv, View!Become
  PROVE  TypedInv'
<1>1. /\ todo = <<>> /\ focused' = TRUE
      /\ UNCHANGED <<view, app, todo, key, old, queue, source, held, mods, missed, got, activating, done, typist>>
  BY DEF View!Become, View!Idle
<1>2. WellTyped' /\ Planned'
  BY <1>1 DEF TypedInv, WellTyped, Planned
<1>3. Due' = Due /\ (Pressing' <=> Pressing)
  BY <1>1 DEF Due, Pressing
<1>4. Modified' /\ Clicked'
  BY <1>1, <1>3 DEF TypedInv, Modified, Clicked
<1>5. Quiet'
  BY <1>1, <1>3, Idling DEF Quiet, Settled, Tallied, Marked
<1>6. Composed'
  BY <1>1, <1>3, <1>5, Idling DEF Composed
<1> QED BY <1>2, <1>4, <1>6 DEF TypedInv

\* Another input source.
LEMMA ChooseSourceKept ==
  ASSUME TypedInv, Typable, View!ChooseSource
  PROVE  TypedInv'
<1>1. /\ todo = <<>> /\ done < typist.max /\ done' = done + 1 /\ source' = 3 - source /\ got' = {"other"}
      /\ todo' = IF view.composing THEN <<"unmark">> ELSE <<>>
      /\ UNCHANGED <<view, app, key, old, queue, held, mods, focused, missed, activating, typist>>
  BY DEF View!ChooseSource, View!Does, View!Idle, View!Calls
<1>2. WellTyped'
  <2>1. done' \in 0 .. typist.max /\ source' \in {1, 2}
    BY <1>1 DEF TypedInv, WellTyped, Typable, Responsive
  <2> QED BY <1>1, <2>1 DEF TypedInv, WellTyped
<1>3. view.marked_text = view.composing /\ view.marked_text \in BOOLEAN
  BY <1>1, Idling, TypedFields DEF Settled, Marked, TypedInv
<1>4. Planned' /\ ~Pressing' /\ (Due' = "unmark" \/ (Due' = "idle" /\ view.marked_text = FALSE))
  BY <1>1, <1>3, Beginning
<1>5. Modified' /\ Clicked'
  BY <1>1, <1>4, Idling DEF Modified, Clicked, View!Sides
<1>6. Composed'
  BY <1>1, <1>4, BeginsQuiet
<1> QED BY <1>2, <1>4, <1>5, <1>6 DEF TypedInv

\* A button goes down.
LEMMA PressButtonKept ==
  ASSUME TypedInv, Typable, View!PressButton
  PROVE  TypedInv'
<1>1. /\ todo = <<>> /\ done < typist.max /\ done' = done + 1 /\ app.clicks = {} /\ got' = {"other"}
      /\ activating' = ~focused /\ focused' = TRUE
      /\ view' = [view EXCEPT !.next_click_is_activation = @ \/ ~focused]
      /\ todo' = <<"modifiers", "press">>
      /\ UNCHANGED <<app, key, old, queue, source, held, mods, missed, typist>>
  BY DEF View!PressButton, View!Does, View!Idle, View!Calls
<1>2. focused \in BOOLEAN /\ view.next_click_is_activation = FALSE
  BY <1>1, Idling DEF TypedInv, WellTyped
<1>3. /\ view' \in View!View /\ view'.next_click_is_activation = ~focused
      /\ view'.marked_text = view.marked_text /\ view'.ime_state = view.ime_state
      /\ view'.composing = view.composing /\ view'.ime_capabilities = view.ime_capabilities
      /\ view'.pending_commit = view.pending_commit /\ view'.input_source = view.input_source
      /\ view'.modifiers = view.modifiers /\ view'.phys_modifiers = view.phys_modifiers
  BY <1>1, <1>2 DEF TypedInv, WellTyped, View!View
<1>4. WellTyped'
  <2>1. done' \in 0 .. typist.max
    BY <1>1 DEF TypedInv, WellTyped, Typable, Responsive
  <2> QED BY <1>1, <1>2, <1>3, <2>1 DEF TypedInv, WellTyped
<1>5. Planned' /\ Due' = "modifiers" /\ Pressing'
  BY <1>1, Beginning
<1>6. Modified'
  BY <1>1, <1>3, <1>5, Idling DEF Modified, View!Sides
<1>7. Clicked'
  BY <1>1, <1>3, <1>5 DEF Clicked
<1>8. Composed'
  BY <1>1, <1>3, <1>5, BeginsQuiet
<1> QED BY <1>4, <1>5, <1>6, <1>7, <1>8 DEF TypedInv

\* A button goes up.
LEMMA ReleaseButtonKept ==
  ASSUME TypedInv, View!ReleaseButton
  PROVE  TypedInv'
<1>1. /\ todo = <<>> /\ got' = {"other"} /\ todo' = <<"modifiers", "release">>
      /\ UNCHANGED <<view, app, key, old, queue, source, held, mods, focused, missed, activating, done, typist>>
  BY DEF View!ReleaseButton, View!Idle, View!Calls
<1>2. WellTyped'
  BY <1>1 DEF TypedInv, WellTyped
<1>3. Planned' /\ Due' = "modifiers" /\ ~Pressing'
  BY <1>1, Beginning
<1>4. Modified' /\ Clicked'
  BY <1>1, <1>3, Idling DEF Modified, Clicked, View!Sides
<1>5. Composed'
  BY <1>1, <1>3, BeginsQuiet
<1> QED BY <1>2, <1>3, <1>4, <1>5 DEF TypedInv

\* The application turns the input method on or off.
LEMMA ToggleKept ==
  ASSUME TypedInv, Typable, View!Toggle
  PROVE  TypedInv'
<1>1. /\ todo = <<>> /\ done < typist.max /\ done' = done + 1
      /\ view' = IF view.ime_capabilities THEN View!disable_ime(view) ELSE View!enable_ime(view)
      /\ queue' = queue \o View!Saying(view)
      /\ UNCHANGED <<app, todo, key, old, source, held, mods, focused, missed, got, activating, typist>>
  BY DEF View!Toggle, View!Does, View!Idle
<1>2. view \in View!View /\ queue \in Seq({View!Event("Disabled")}) /\ WellTyped
  BY DEF TypedInv, WellTyped
<1>3. /\ view' \in View!View /\ Resets(view, view') /\ queue' \in Seq({View!Event("Disabled")})
      /\ (queue' = <<>> <=> queue = <<>> /\ view.ime_state = "Disabled")
  BY <1>1, <1>2, Resetting
<1>4. WellTyped'
  <2>1. done' \in 0 .. typist.max
    BY <1>1 DEF TypedInv, WellTyped, Typable, Responsive
  <2> QED BY <1>1, <1>3, <2>1 DEF TypedInv, WellTyped
<1>5. Planned'
  BY <1>1 DEF TypedInv, Planned
<1>6. Due' = Due /\ (Pressing' <=> Pressing) /\ Due = "idle"
  BY <1>1 DEF Due, Pressing
<1>7. Modified' /\ Clicked'
  BY <1>1, <1>3, <1>6 DEF TypedInv, Modified, Clicked, Resets
<1>8. Quiet /\ app.misled = FALSE /\ (view.marked_text = TRUE => view.input_source = source)
      /\ (view.ime_state # "Disabled" => view.ime_capabilities = TRUE)
  BY <1>1, Idling
<1>9. /\ Settled(view', app', queue') /\ view'.ime_state # "Committed"
      /\ view'.marked_text = TRUE => view'.input_source = source'
      /\ view'.ime_state # "Disabled" => view'.ime_capabilities = TRUE
  <2>1. view'.composing = FALSE /\ view'.marked_text = FALSE /\ view'.ime_state = "Disabled" /\ Marked(view')
    BY <1>2, <1>3, <1>8, NothingComposed DEF Quiet, Settled, Marked
  <2>2. Tallied(view, app, queue) /\ (view.ime_state = "Disabled" => view.marked_text = FALSE)
    BY <1>2, <1>8, TypedFields DEF Quiet, Settled, Marked
  <2>3. Settled(view', app', queue')
    BY <1>1, <1>3, <2>1, <2>2, SettledByReset
  <2> QED BY <2>1, <2>3
<1>10. Quiet'
  BY <1>1, <1>6, <1>8, <1>9 DEF Quiet
<1>11. Composed'
  BY <1>1, <1>6, <1>8, <1>9, <1>10 DEF Composed
<1> QED BY <1>4, <1>5, <1>7, <1>11 DEF TypedInv

\* What was queued is said.
LEMMA RunQueuedKept ==
  ASSUME TypedInv, View!RunQueued
  PROVE  TypedInv'
<1> DEFINE d == View!Event("Disabled")
<1>1. /\ todo = <<>> /\ queue # <<>> /\ app' = View!Told(app, Head(queue)) /\ queue' = Tail(queue)
      /\ UNCHANGED <<view, todo, key, old, source, held, mods, focused, missed, got, activating, done, typist>>
  BY DEF View!RunQueued, View!Idle
<1>2. WellTyped /\ app \in View!App /\ queue \in Seq({d})
  BY DEF TypedInv, WellTyped
<1>3. Head(queue) = d /\ queue' \in Seq({d})
  <2> HIDE DEF d
  <2> QED BY <1>1, <1>2
<1>4. app' = [app EXCEPT !.ime = FALSE, !.preedit = FALSE]
  BY <1>1, <1>2, <1>3, Saids
<1>5. /\ app' \in View!App /\ app'.ime = FALSE /\ app'.preedit = FALSE /\ app'.misled = app.misled
      /\ app'.modifiers = app.modifiers /\ app'.sides = app.sides /\ app'.clicks = app.clicks
  BY <1>2, <1>4 DEF View!App
<1>6. WellTyped' /\ Planned'
  BY <1>1, <1>3, <1>5 DEF TypedInv, WellTyped, Planned
<1>7. Due' = Due /\ (Pressing' <=> Pressing) /\ Due = "idle"
  BY <1>1 DEF Due, Pressing
<1>8. Modified' /\ Clicked'
  BY <1>1, <1>5, <1>7 DEF TypedInv, Modified, Clicked
<1>9. Quiet'
  BY <1>1, <1>5, <1>7, Idling DEF Quiet, Settled, Tallied, Marked
<1>10. Composed'
  BY <1>1, <1>5, <1>7, <1>9, Idling DEF Composed
<1> QED BY <1>6, <1>8, <1>10 DEF TypedInv

----
\* Nobody has typed anything.
LEMMA TypistStart == ASSUME Typable, View!Init PROVE TypedInv
<1>1. /\ view = [ime_state |-> "Disabled", marked_text |-> FALSE, pending_commit |-> FALSE,
                 ime_capabilities |-> FALSE, forward_key_to_app |-> FALSE, input_source |-> 1,
                 modifiers |-> FALSE, phys_modifiers |-> {}, next_click_is_activation |-> FALSE,
                 composing |-> FALSE]
      /\ app = [ime |-> FALSE, preedit |-> FALSE, modifiers |-> FALSE, sides |-> {},
                pressed |-> {}, clicks |-> {}, misled |-> FALSE]
      /\ todo = <<>> /\ key \in {"a"} /\ old = "Disabled" /\ queue = <<>> /\ source = 1
      /\ held = {} /\ mods = {} /\ focused = TRUE /\ missed = FALSE /\ got = {"other"}
      /\ activating = FALSE /\ done = 0 /\ typist \in Typists
  BY DEF View!Init
<1>2. view \in View!View /\ app \in View!App
  BY <1>1 DEF View!View, View!App, View!ImeStates
<1>3. /\ view.ime_state = "Disabled" /\ view.marked_text = FALSE /\ view.composing = FALSE
      /\ view.modifiers = FALSE /\ view.phys_modifiers = {} /\ view.next_click_is_activation = FALSE
      /\ app.ime = FALSE /\ app.preedit = FALSE /\ app.modifiers = FALSE /\ app.sides = {}
      /\ app.clicks = {} /\ app.misled = FALSE
  BY <1>1
<1>4. WellTyped
  <2>1. queue \in Seq({View!Event("Disabled")}) /\ old \in View!ImeStates
    BY <1>1 DEF View!ImeStates
  <2>2. done \in 0 .. typist.max
    BY <1>1 DEF Typable, Responsive
  <2> QED BY <1>1, <1>2, <2>1, <2>2 DEF WellTyped
<1>5. Planned /\ Due = "idle" /\ ~Pressing
  BY <1>1 DEF Planned, Due, Pressing
<1>6. Modified /\ Clicked
  BY <1>1, <1>3, <1>5 DEF Modified, Clicked
<1>7. Quiet
  BY <1>1, <1>3, <1>5 DEF Quiet, Settled, Tallied, Marked
<1>8. Composed
  BY <1>3, <1>5, <1>7 DEF Composed
<1> QED BY <1>4, <1>5, <1>6, <1>8 DEF TypedInv

\* Every step keeps it.
LEMMA TypistNext == ASSUME Typable, TypedInv, View!Next PROVE TypedInv'
<1>1. CASE \E name \in {"mark", "clear"} : View!SetMarkedText(name)
  BY <1>1, SetMarkedTextKept
<1>2. CASE \E name \in {"preedit", "cleared"} : View!SetMarkedTextEnds(name)
  BY <1>2, SetMarkedTextEndsKept
<1>3. CASE View!UnmarkText \/ View!UnmarkTextEnds
  BY <1>3, UnmarkTextKept, UnmarkTextEndsKept
<1>4. CASE View!InsertText \/ View!InsertTextEnds
  BY <1>4, InsertMarked, InsertUnmarked, InsertTextEndsKept
<1>5. CASE View!DoCommand
  BY <1>5, CommandAfterText, CommandAlone
<1>6. CASE View!KeyDown \/ View!InterpretKeyEvents \/ View!Interpreted \/ View!UpdateModifiers
  BY <1>6, KeyDownKept, InterpretKeyEventsKept, InterpretedKept, UpdateModifiersKept
<1>7. CASE View!KeyDownEnds \/ View!KeyUp
  BY <1>7, KeyDownEndsKept, KeyUpKept
<1>8. CASE \E side \in View!Sides : View!FlagsChanged(side)
  BY <1>8, FlagsChangedKept
<1>9. CASE (\E name \in {"press", "release"} : View!MouseClick(name)) \/ View!ResetModifiers
  BY <1>9, MouseClickKept, ResetModifiersKept
<1>10. CASE View!PressKey \/ View!ReleaseKey \/ View!ModifierKey
  BY <1>10, PressKeyKept, ReleaseKeyKept, ModifierKeyKept
<1>11. CASE View!Resign \/ View!Become \/ View!ChooseSource
  BY <1>11, ResignKept, BecomeKept, ChooseSourceKept
<1>12. CASE View!ChooseCandidate
  <2>1. "candidate" \in typist.ops /\ typist \in Typists
    BY <1>12 DEF View!ChooseCandidate, View!Does, TypedInv, WellTyped
  <2> QED BY <2>1 DEF Typable, Responsive
<1>13. CASE View!PressButton \/ View!ReleaseButton \/ View!Toggle \/ View!RunQueued
  BY <1>13, PressButtonKept, ReleaseButtonKept, ToggleKept, RunQueuedKept
<1> QED BY <1>1, <1>2, <1>3, <1>4, <1>5, <1>6, <1>7, <1>8, <1>9, <1>10, <1>11, <1>12, <1>13 DEF View!Next

\* Everything else leaves the view alone.
LEMMA TypistOther == ASSUME TypedInv, UNCHANGED text PROVE TypedInv'
<1>1. UNCHANGED <<view, app, todo, key, old, queue, source, held, mods, focused, missed, got,
                  activating, done, typist>>
  BY DEF text
<1>2. WellTyped' /\ Planned'
  BY <1>1 DEF TypedInv, WellTyped, Planned
<1>3. Due' = Due /\ (Pressing' <=> Pressing)
  BY <1>1 DEF Due, Pressing
<1>4. Modified' /\ Clicked'
  BY <1>1, <1>3 DEF TypedInv, Modified, Clicked
<1>5. /\ Quiet' <=> Quiet
      /\ First' <=> First
      /\ Committing' <=> Committing
      /\ Marking' <=> Marking
      /\ Unmarking' <=> Unmarking
      /\ Ending' <=> Ending
  <2>1. Settled(view, app, queue)' <=> Settled(view, app, queue)
    BY <1>1 DEF Settled, Tallied, Marked
  <2>2. Within(view, app, queue)' <=> Within(view, app, queue)
    BY <1>1 DEF Within
  <2>3. Quiet' <=> Quiet
    BY <1>1, <1>3, <2>1 DEF Quiet
  <2>4. First' <=> First
    BY <1>1, <2>1, <2>2 DEF First
  <2>5. (Committing' <=> Committing) /\ (Marking' <=> Marking)
    BY <1>1, <1>3, <2>2 DEF Committing, Marking
  <2>6. Unmarking' <=> Unmarking
    BY <1>1 DEF Unmarking, Tallied
  <2>7. Ending' <=> Ending
    BY <1>1, <2>1 DEF Ending, HadInput
  <2> QED BY <2>3, <2>4, <2>5, <2>6, <2>7
<1>6. Composed'
  BY <1>1, <1>3, <1>5 DEF TypedInv, Composed
<1> QED BY <1>2, <1>4, <1>6 DEF TypedInv

\* The inductive invariant.
LEMMA TypistInvariance == ASSUME Typable PROVE AppKitSpec => []TypedInv
<1>1. AppKitInit => TypedInv
  BY TypistStart DEF AppKitInit
<1>2. TypedInv /\ [AppKitNext]_<<vars, delegate, text>> => TypedInv'
  <2> SUFFICES ASSUME TypedInv, [AppKitNext]_<<vars, delegate, text>> PROVE TypedInv'
    OBVIOUS
  <2>1. View!Next \/ UNCHANGED text
    BY DEF AppKitNext
  <2> QED BY <2>1, TypistNext, TypistOther
<1> QED BY <1>1, <1>2, PTL DEF AppKitSpec

\* What TypedInv is for.
LEMMA TypistAgrees == TypedInv => TypingAgrees
<1> SUFFICES ASSUME TypedInv PROVE TypingAgrees
  OBVIOUS
<1>1. app.misled = FALSE
  BY DEF TypedInv, Composed
<1>2. CASE todo = <<>>
  <2>1. View!Composition
    BY <1>1, <1>2, Idling DEF View!Composition, View!AtRest, Settled, Tallied
  <2>2. View!KeysOnce
    BY <1>2, Idling DEF View!KeysOnce, Quiet
  <2>3. View!InputAgrees
    BY <1>2, Idling DEF View!InputAgrees, View!ModifiersAgree, View!ClicksAgree, TypedInv, WellTyped
  <2> QED BY <2>1, <2>2, <2>3 DEF TypingAgrees, View!TextArrives
<1>3. CASE todo # <<>>
  <2>1. View!Composition
    BY <1>1, <1>3 DEF View!Composition, View!AtRest, View!Idle
  <2>2. {"Key", "Commit"} \subseteq got => "other" \in got
    <3> SUFFICES ASSUME "other" \notin got PROVE ~({"Key", "Commit"} \subseteq got)
      OBVIOUS
    <3>1. Due \in Called \union {"text", "committed", "interpreted", "modifiers", "down", "key"}
      BY <1>3 DEF TypedInv, Planned, Due, Precedes
    <3>2. \/ Quiet /\ Due \in {"down", "interpret"}
          \/ First \/ Committing \/ Marking \/ Unmarking \/ Ending
      BY <3>1 DEF TypedInv, Composed, Called
    <3> QED BY <3>2 DEF Quiet, First, Committing, Marking, Unmarking, Ending
  <2>3. View!KeysOnce
    BY <1>3, <2>2 DEF View!KeysOnce, View!Idle
  <2>4. View!InputAgrees
    BY <1>3 DEF View!InputAgrees, View!ModifiersAgree, View!ClicksAgree, View!Idle
  <2> QED BY <2>1, <2>3, <2>4 DEF TypingAgrees, View!TextArrives
<1> QED BY <1>2, <1>3

\* What is typed arrives once, as keys or as text, and the application's idea of the
\* composition, the modifiers and the click is right whenever nothing is due (TypingAgrees).
THEOREM TypingIsHeard == ASSUME Typable PROVE AppKitSpec => []TypingAgrees
BY TypistInvariance, TypistAgrees, PTL

\* The view's variables keep their types.
THEOREM TypingTypeCorrectness == ASSUME Typable PROVE AppKitSpec => []View!TypeOK
<1>1. TypedInv => View!TypeOK
  BY DEF TypedInv, WellTyped, View!TypeOK
<1> QED BY <1>1, TypistInvariance, PTL
====
