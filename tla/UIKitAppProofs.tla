---- MODULE UIKitAppProofs ----
(*
What is proved of UIKitApp, for any windows and any number of acts.

Inv says, beside the types, where each thing stands between two steps:
  - Placed, Running, Begins, Ends: in which turn of the run loop each
    state of the state machine and each part of a handler can be met,
    so that no bug! arm is (app_state.rs:138-249);
  - Held: the application is in its cell exactly while no callback runs
    and the process has not terminated;
  - Told: the phase the application was told of, which is behind the
    state machine while main_events_cleared drains the queue;
  - Armed: the timer for the control flow that was last acted on;
  - Sized, Queued, Scaled: a window that needs no layout will have been
    told its size by what is queued, else by what is being handed out,
    or has been told it;
  - Leaving: terminated() has still a Destroyed for every window that
    was not given one.

Regular is needed: TLC finds ToldBeforeWait violated when UIKit lays
out in proxy_wake_up (the source drains no queue), TimerArmed when a
deadline is set before the loop runs (events_cleared_transition trusts
the timer that is there), and the lifecycle when a thread uses the
proxy before the launch (the source calls the application).
*)
EXTENDS UIKitApp, FiniteSetTheorems, TLAPS

\* No deadline before the run, no proxy before the launch, no layout in its callback.
Regular == InitialFlows \cap Deadlines = {} /\ EarlyProxy = FALSE /\ "proxy" \notin NestIn

\* Where the run loop is, by what winit does there.
Placed ==
  /\ at = "sleep" => pc = "idle" /\ inside = "none"
  /\ at = "main" => /\ pc = "batch" /\ then \in {"transition", "about", "draw"}
                    /\ then = "transition" => state = "ProcessingEvents"
                    /\ then # "transition" => state = "ProcessingRedraws"
  /\ pc = "batch" /\ then \in {"transition", "about", "draw"} => at = "main"
  /\ pc = "batch" /\ then = "terminate" => at = "sources" /\ state = "ProcessingEvents"
  /\ at = "sources" => state \in {"Initial", "ProcessingEvents", "Terminated"}
  /\ at = "draw" => state \in {"Initial", "ProcessingRedraws", "Terminated"}
  /\ at = "sleep" => \/ state \in {"Initial", "Terminated"}
                     \/ state = "PollFinished" /\ flow = "poll"
                     \/ state = "Waiting" /\ flow # "poll"

\* What the handlers have in hand.
Running ==
  /\ pc = "init" => /\ at = "sources" /\ state = "ProcessingEvents"
                    /\ inside \in {"none", "new_events_init"} /\ batch = <<>>
  /\ pc = "idle" => inside \in {"none", "proxy"} /\ batch = <<>>
  /\ pc = "batch" => inside \notin {"new_events_init", "proxy"}
  /\ inside = "proxy" => at = "sources"

\* The two ends of the application.
Begins ==
  state = "Initial" =>
    /\ pc = "idle" /\ inside = "none" /\ live = {} /\ queue = <<>>
    /\ ~signalled /\ flow \notin Deadlines
Ends ==
  state = "Terminated" =>
    /\ pc # "init" /\ inside = "none" /\ batch = <<>> /\ queue = <<>>
    /\ ~signalled /\ live \subseteq destroyed

\* Who has the application.
Held ==
  /\ panicked = FALSE
  /\ handler = "unset" <=> state = "Terminated"
  /\ handler = "in use" <=> inside # "none"

\* The iteration that about_to_wait has closed.
Closed == at \in {"draw", "sleep"} \/ (at = "main" /\ then = "draw")
\* What the application was last told of the loop.
Told ==
  /\ state = "Initial" => phase = "Off"
  /\ pc = "init" => phase = "Init"
  /\ state \notin {"Initial", "Terminated"} /\ pc # "init" =>
       /\ Closed => phase = "Asleep"
       /\ ~Closed => phase = "Awake"

\* The timer is, or was, for deadline d.
Due(d) == timer = d \/ (Passed(d) /\ timer = "now")
\* The timer is that of the control flow last acted on.
Armed ==
  /\ state \in {"ProcessingEvents", "ProcessingRedraws"} /\ active \in Deadlines => Due(active)
  /\ state = "Waiting" /\ flow = "wait" => timer = "off"
  /\ state = "Waiting" /\ flow \in Deadlines => Due(flow)

\* The size with which the events of es leave window w, and whether they do.
Silent(es, w) == \A i \in DOMAIN es : es[i].kind = "resized" => es[i].window # w
Leaves(es, w, s) ==
  \E i \in DOMAIN es :
    /\ es[i] = Resized(w, s)
    /\ \A j \in DOMAIN es : j > i /\ es[j].kind = "resized" => es[j].window # w

\* A window that is not to be laid out will have been told its size.
Sized ==
  \A w \in live \ layout :
    \/ state = "Terminated"
    \/ Leaves(queue, w, size[w])
    \/ Silent(queue, w) /\ Leaves(batch, w, size[w])
    \/ Silent(queue, w) /\ Silent(batch, w) /\ reported[w] = size[w]

\* What is queued waits for a handler, and no size waits for the next one.
Queued ==
  /\ queue # <<>> => pc # "idle" \/ at = "sources"
  /\ pc = "idle" => \A w \in Windows : Silent(queue, w)
  /\ at = "sleep" => layout = {}

\* A new scale factor comes with the size in it, and is never queued.
Scaled ==
  /\ \A i \in DOMAIN queue : queue[i].kind # "scale"
  /\ \A i \in DOMAIN batch : batch[i].kind = "scale" =>
       i = 1 /\ Len(batch) = 2 /\ batch[2].window \in live
  /\ inside = "scale" => batch # <<>> /\ batch[1].window \in live

\* Termination tells of every window.
Leaving ==
  /\ IsFiniteSet(live)
  /\ pc = "batch" /\ then = "terminate" =>
       \A w \in live \ destroyed : \E i \in DOMAIN batch : batch[i] = Event("destroyed", w)

\* What is of the loop, and what is of the views.
Control == Placed /\ Running /\ Begins /\ Ends /\ Held /\ Told /\ Armed
Views == Sized /\ Queued /\ Scaled /\ Leaving



----
(* Types *)

\* The parts of TypeOK: what is of the loop, of the views, and lists of events.
Flags ==
  /\ at \in {"sources", "main", "draw", "sleep"}
  /\ pc \in {"idle", "init", "batch", "drain"}
  /\ then \in {"idle", "transition", "about", "draw", "terminate"}
  /\ inside \in {"none", "new_events_init", "can_create_surfaces", "new_events",
                 "event", "proxy", "scale", "about_to_wait"}
  /\ phase \in {"Off", "Init", "Awake", "Asleep"} /\ handler \in HandlerStates
  /\ state \in States /\ active \in Flows /\ flow \in Flows
  /\ timer \in {"off", "now"} \cup Deadlines /\ clock \in 0 .. 2
  /\ signalled \in BOOLEAN
Stores ==
  /\ live \subseteq Windows /\ size \in [Windows -> Sizes]
  /\ layout \subseteq live /\ display \subseteq live
  /\ reported \in [Windows -> 0 .. 2] /\ destroyed \subseteq Windows
  /\ wanted \subseteq Windows
Lists == batch \in Seq(Events) /\ queue \in Seq(Events)
Bounded == ops \in 0 .. MaxOps

Inv == /\ Flags /\ Stores /\ Lists /\ Bounded
       /\ Control /\ Views

\* The types are part of the invariant.
LEMMA Parts == Inv => TypeOK
BY DEF Inv, Control, Held, TypeOK, Flags, Stores, Lists, Bounded

\* The list handed out after a callback is empty.
LEMMA EmptyList == <<>> \in Seq(Events)
OBVIOUS

\* An operation that is counted stays within its bound.
LEMMA OpBounded ==
  ASSUME Bounded, Op
  PROVE  Bounded'
BY UIKitAssumption DEF Op, Bounded

\* What Event and Resized build are events.
LEMMA EventIs ==
  ASSUME NEW w \in Windows
  PROVE  /\ \A k \in Kinds : Event(k, w) \in Events
         /\ \A s \in Sizes : Resized(w, s) \in Events
BY DEF Event, Resized, Events, Kinds, Sizes

----
(* What stays when a step has nothing to do with it *)

\* Windows, lists and sizes told stay: what will be told does too.
LEMMA SizedStays ==
  ASSUME Sized, state = "Terminated" => state' = "Terminated",
         UNCHANGED <<live, layout, size, queue, batch, reported>>
  PROVE  Sized'
BY DEF Sized, Silent, Leaves, Resized

\* The queue stays: a handler, or the turn for it, is still to come.
LEMMA QueuedStays ==
  ASSUME Queued, UNCHANGED queue, at' = "sleep" => UNCHANGED layout /\ layout = {},
         pc' = "idle" => pc = "idle" \/ queue = <<>>,
         pc' = "idle" /\ queue # <<>> => at' = "sources"
  PROVE  Queued'
BY DEF Queued, Silent

\* The lists and the windows stay, and no scale factor is being told.
LEMMA ScaledStays ==
  ASSUME Scaled, UNCHANGED <<queue, batch, live>>, inside' = "scale" => inside = "scale"
  PROVE  Scaled'
BY DEF Scaled

\* Termination has the same events left to hand out.
LEMMA LeavingStays ==
  ASSUME Leaving, UNCHANGED <<live, destroyed>>,
         pc' = "batch" /\ then' = "terminate" => UNCHANGED <<pc, then, batch>>
  PROVE  Leaving'
BY DEF Leaving, Event

----
(* What lists of events tell *)

\* What is left of a list, and what the head of it was.
LEMMA TailIs ==
  ASSUME NEW s \in Seq(Events), s # <<>>
  PROVE  /\ Tail(s) \in Seq(Events) /\ Head(s) \in Events /\ Head(s) = s[1]
         /\ Len(s) \in Nat \ {0} /\ DOMAIN s = 1 .. Len(s)
         /\ DOMAIN Tail(s) = 1 .. Len(s) - 1
         /\ \A i \in DOMAIN Tail(s) : i + 1 \in DOMAIN s /\ Tail(s)[i] = s[i + 1]
         /\ \A i \in DOMAIN s : i = 1 \/ (i - 1 \in DOMAIN Tail(s) /\ Tail(s)[i - 1] = s[i])
OBVIOUS

\* A list that tells no size of w tells none without its head.
LEMMA TailSilent ==
  ASSUME NEW s \in Seq(Events), s # <<>>, NEW w, Silent(s, w)
  PROVE  Silent(Tail(s), w) /\ (Head(s).kind = "resized" => Head(s).window # w)
<1>1. ASSUME NEW i \in DOMAIN Tail(s), Tail(s)[i].kind = "resized"
      PROVE  Tail(s)[i].window # w
  BY <1>1, TailIs DEF Silent
<1>2. Head(s) = s[1] /\ 1 \in DOMAIN s
  BY TailIs
<1> QED BY <1>1, <1>2 DEF Silent

\* The size a list leaves w with is that of its tail, or of its head.
LEMMA TailLeaves ==
  ASSUME NEW s \in Seq(Events), s # <<>>, NEW w, NEW z, Leaves(s, w, z)
  PROVE  \/ Leaves(Tail(s), w, z)
         \/ Silent(Tail(s), w) /\ Head(s) = Resized(w, z)
<1>1. PICK i \in DOMAIN s :
        /\ s[i] = Resized(w, z)
        /\ \A j \in DOMAIN s : j > i /\ s[j].kind = "resized" => s[j].window # w
  BY DEF Leaves
<1>2. ASSUME NEW j \in DOMAIN Tail(s), j > i - 1, Tail(s)[j].kind = "resized"
      PROVE  Tail(s)[j].window # w
  <2>1. j + 1 \in DOMAIN s /\ Tail(s)[j] = s[j + 1] /\ j \in Nat /\ i \in Nat
    BY TailIs
  <2>2. j + 1 > i
    BY <1>2, <2>1
  <2> QED BY <1>1, <1>2, <2>1, <2>2
<1>3. CASE i = 1
  <2>1. \A j \in DOMAIN Tail(s) : j > i - 1
    BY <1>3, TailIs
  <2> QED BY <1>1, <1>2, <1>3, <2>1, TailIs DEF Silent
<1>4. CASE i # 1
  <2>1. i - 1 \in DOMAIN Tail(s) /\ Tail(s)[i - 1] = s[i]
    BY <1>4, TailIs
  <2> QED BY <1>1, <1>2, <2>1 DEF Leaves
<1> QED BY <1>3, <1>4

\* One more event.
LEMMA OneMore ==
  ASSUME NEW s \in Seq(Events), NEW e \in Events
  PROVE  /\ s \o <<e>> \in Seq(Events) /\ s \o <<e>> # <<>>
         /\ Len(s) \in Nat /\ DOMAIN s = 1 .. Len(s)
         /\ DOMAIN (s \o <<e>>) = 1 .. Len(s) + 1
         /\ \A i \in DOMAIN s : (s \o <<e>>)[i] = s[i]
         /\ (s \o <<e>>)[Len(s) + 1] = e
OBVIOUS

\* A list that ends with a size of w leaves w with it.
LEMMA AppendLeaves ==
  ASSUME NEW s \in Seq(Events), NEW w, NEW z, Resized(w, z) \in Events
  PROVE  Leaves(s \o <<Resized(w, z)>>, w, z)
<1> DEFINE t == s \o <<Resized(w, z)>>
<1>1. /\ Len(s) \in Nat /\ DOMAIN t = 1 .. Len(s) + 1 /\ t[Len(s) + 1] = Resized(w, z)
  BY OneMore
<1> HIDE DEF t
<1>2. Len(s) + 1 \in DOMAIN t /\ \A j \in DOMAIN t : ~(j > Len(s) + 1)
  BY <1>1
<1> QED BY <1>1, <1>2 DEF Leaves, t

\* One more event that is no size of w changes nothing for w.
LEMMA AppendOther ==
  ASSUME NEW s \in Seq(Events), NEW e \in Events, NEW w, e.kind = "resized" => e.window # w
  PROVE  /\ Silent(s, w) => Silent(s \o <<e>>, w)
         /\ \A z : Leaves(s, w, z) => Leaves(s \o <<e>>, w, z)
<1> DEFINE t == s \o <<e>>
<1>1. /\ Len(s) \in Nat /\ DOMAIN s = 1 .. Len(s) /\ DOMAIN t = 1 .. Len(s) + 1
      /\ \A i \in DOMAIN s : t[i] = s[i]
      /\ t[Len(s) + 1] = e
  BY OneMore
<1> HIDE DEF t
<1>2. \A i \in DOMAIN t : i \in DOMAIN s \/ t[i] = e
  BY <1>1
<1>3. Silent(s, w) => Silent(t, w)
  BY <1>1, <1>2 DEF Silent
<1>4. ASSUME NEW z, Leaves(s, w, z) PROVE Leaves(t, w, z)
  <2>1. PICK i \in DOMAIN s :
          /\ s[i] = Resized(w, z)
          /\ \A j \in DOMAIN s : j > i /\ s[j].kind = "resized" => s[j].window # w
    BY <1>4 DEF Leaves
  <2>2. i \in DOMAIN t /\ t[i] = Resized(w, z)
    BY <1>1, <2>1
  <2>3. \A j \in DOMAIN t : j > i /\ t[j].kind = "resized" => t[j].window # w
    BY <1>1, <1>2, <2>1
  <2> QED BY <2>2, <2>3 DEF Leaves
<1> QED BY <1>3, <1>4 DEF t

\* A list with a size in it, and one without.
LEMMA OneSize ==
  ASSUME NEW w, NEW z
  PROVE  /\ Leaves(<<Resized(w, z)>>, w, z) /\ Leaves(<<Event("scale", w), Resized(w, z)>>, w, z)
         /\ \A v : v # w => /\ Silent(<<Resized(w, z)>>, v)
                            /\ Silent(<<Event("scale", w), Resized(w, z)>>, v)
BY DEF Leaves, Silent, Resized, Event

\* A list without a size in it.
LEMMA NoSize ==
  ASSUME NEW w, NEW k, k # "resized"
  PROVE  \A v : Silent(<<Event(k, w)>>, v)
BY DEF Silent, Event

\* did_finish_launching goes on with can_create_surfaces.
LEMMA CanCreateSurfacesInv ==
  ASSUME Regular, Inv, CanCreateSurfaces
  PROVE  Inv'
<1>1. UNCHANGED <<at, state, active, flow, timer, clock, queue, signalled, live, size, layout, display, reported, wanted, destroyed, ops>>
  BY DEF CanCreateSurfaces, state_vars, view_vars, told_vars
<1>2. /\ pc = "init" /\ inside = "none" /\ inside' = "can_create_surfaces" /\ phase' = "Awake"
      /\ handler' = "in use" /\ pc' = "batch" /\ then' = "idle" /\ batch' = <<>> /\ panicked' = FALSE
  BY DEF Inv, Control, Held, HandlerStates, Flags, CanCreateSurfaces, Continue, CallThenDrain, Call, Enter, Ready, HandlePanics, InUse, Running
<1>3. Placed' /\ Running'
  BY <1>1, <1>2 DEF Inv, Control, Placed, Running, Begins, Ends
<1>4. Begins' /\ Ends'
  BY <1>1, <1>2 DEF Inv, Control, Placed, Running, Begins, Ends, Views, Leaving
<1>5. Held'
  BY <1>1, <1>2 DEF Inv, Control, Placed, Running, Ends, Held
<1>6. Told'
  BY <1>1, <1>2 DEF Inv, Control, Placed, Running, Begins, Ends, Told, Closed
<1>7. Armed'
  BY <1>1, <1>2 DEF Inv, Control, Placed, Running, Begins, Armed, Due, Passed, Deadlines, Flows, Flags
<1>8. Flags'
  BY <1>1, <1>2, ZenonT(40) DEF Inv, Flags, HandlerStates
<1>9. Lists'
  BY <1>1, <1>2, EmptyList DEF Inv, Lists
<1>10. Stores'
  BY <1>1 DEF Inv, Stores
<1>11. Bounded'
  BY <1>1 DEF Inv, Bounded
<1>12. Sized'
  BY <1>1, <1>2, SizedStays DEF Inv, Views, Control, Running
<1>13. Queued'
  BY <1>1, <1>2, QueuedStays DEF Inv, Views, Control, Running, Placed, Queued
<1>14. Scaled'
  BY <1>1, <1>2, ScaledStays DEF Inv, Views, Control, Running
<1>15. Leaving'
  BY <1>1, <1>2, LeavingStays DEF Inv, Views, Control, Running
<1> QED BY <1>3, <1>4, <1>5, <1>6, <1>7, <1>8, <1>9, <1>10, <1>11, <1>12, <1>13, <1>14, <1>15
           DEF Inv, Control, Views

\* The whole queue becomes what is handed out.
LEMMA TakeQueueInv ==
  ASSUME Regular, Inv, TakeQueue
  PROVE  Inv'
<1>1. UNCHANGED <<at, pc, then, inside, phase, handler, state, active, flow, timer, clock, signalled, live, size, layout, display, reported, wanted, destroyed, panicked, ops>>
  BY DEF TakeQueue, app_vars, state_vars, view_vars, told_vars
<1>2. /\ pc = "batch" /\ inside = "none" /\ batch = <<>> /\ queue # <<>>
      /\ batch' = queue /\ queue' = <<>>
  BY DEF Inv, Control, Held, HandlerStates, Flags, TakeQueue, Continue
<1>3. Placed' /\ Running'
  BY <1>1, <1>2 DEF Inv, Control, Placed, Running, Begins, Ends
<1>4. Begins' /\ Ends'
  BY <1>1, <1>2 DEF Inv, Control, Placed, Running, Begins, Ends, Views, Leaving
<1>5. Held'
  BY <1>1, <1>2 DEF Inv, Control, Placed, Running, Ends, Held
<1>6. Told'
  BY <1>1, <1>2 DEF Inv, Control, Placed, Running, Begins, Ends, Told, Closed
<1>7. Armed'
  BY <1>1, <1>2 DEF Inv, Control, Placed, Running, Begins, Armed, Due, Passed, Deadlines, Flows, Flags
<1>8. Flags'
  BY <1>1, <1>2, SMTT(30) DEF Inv, Flags
<1>9. Lists'
  BY <1>1, <1>2, EmptyList DEF Inv, Lists
<1>10. Stores'
  BY <1>1 DEF Inv, Stores
<1>11. Bounded'
  BY <1>1 DEF Inv, Bounded
<1>12. Sized'
  BY <1>1, <1>2 DEF Inv, Views, Sized, Silent, Leaves
<1>13. Queued'
  BY <1>1, <1>2 DEF Inv, Views, Queued, Silent
<1>14. Scaled'
  BY <1>1, <1>2 DEF Inv, Views, Scaled
<1>15. Leaving'
  BY <1>1, <1>2 DEF Inv, Views, Leaving
<1> QED BY <1>3, <1>4, <1>5, <1>6, <1>7, <1>8, <1>9, <1>10, <1>11, <1>12, <1>13, <1>14, <1>15
           DEF Inv, Control, Views

\* A handler ends when the queue is empty.
LEMMA HandlerEndsInv ==
  ASSUME Regular, Inv, HandlerEnds
  PROVE  Inv'
<1>1. UNCHANGED <<at, then, batch, inside, phase, handler, state, active, flow, timer, clock, queue, signalled, live, size, layout, display, reported, wanted, destroyed, panicked, ops>>
  BY DEF HandlerEnds, app_vars, state_vars, view_vars, told_vars
<1>2. /\ pc = "batch" /\ inside = "none" /\ then = "idle" /\ batch = <<>> /\ queue = <<>>
      /\ pc' = "idle"
  BY DEF Inv, Control, Held, HandlerStates, Flags, HandlerEnds, Drained, Continue
<1>3. Placed' /\ Running'
  BY <1>1, <1>2 DEF Inv, Control, Placed, Running, Begins, Ends
<1>4. Begins' /\ Ends'
  BY <1>1, <1>2 DEF Inv, Control, Placed, Running, Begins, Ends, Views, Leaving
<1>5. Held'
  BY <1>1, <1>2 DEF Inv, Control, Placed, Running, Ends, Held
<1>6. Told'
  BY <1>1, <1>2 DEF Inv, Control, Placed, Running, Begins, Ends, Told, Closed
<1>7. Armed'
  BY <1>1, <1>2 DEF Inv, Control, Placed, Running, Begins, Armed, Due, Passed, Deadlines, Flows, Flags
<1>8. Flags'
  BY <1>1, <1>2, SMTT(30) DEF Inv, Flags
<1>9. Lists'
  BY <1>1, <1>2, EmptyList DEF Inv, Lists
<1>10. Stores'
  BY <1>1 DEF Inv, Stores
<1>11. Bounded'
  BY <1>1 DEF Inv, Bounded
<1>12. Sized'
  BY <1>1, <1>2, SizedStays DEF Inv, Views, Control, Running
<1>13. Queued'
  BY <1>1, <1>2, QueuedStays DEF Inv, Views, Control, Running, Placed, Queued
<1>14. Scaled'
  BY <1>1, <1>2, ScaledStays DEF Inv, Views, Control, Running
<1>15. Leaving'
  BY <1>1, <1>2, LeavingStays DEF Inv, Views, Control, Running
<1> QED BY <1>3, <1>4, <1>5, <1>6, <1>7, <1>8, <1>9, <1>10, <1>11, <1>12, <1>13, <1>14, <1>15
           DEF Inv, Control, Views

\* The launch: the timer is due, the application gets new_events(Init).
LEMMA DidFinishLaunchingInv ==
  ASSUME Regular, Inv, DidFinishLaunching
  PROVE  Inv'
<1>1. UNCHANGED <<at, then, batch, flow, clock, queue, signalled, live, size, layout, display, reported, wanted, destroyed, panicked, ops>>
  BY DEF DidFinishLaunching, view_vars, told_vars
<1>2. /\ at = "sources" /\ pc = "idle" /\ inside = "none" /\ state = "Initial"
      /\ state' = "ProcessingEvents" /\ active' = flow /\ timer' = "now" /\ pc' = "init"
      /\ inside' = "new_events_init" /\ phase' = "Init" /\ handler' = "in use"
  BY DEF Inv, Control, Held, HandlerStates, Flags, DidFinishLaunching, RunLoop, Call, Enter
<1>3. Placed' /\ Running'
  BY <1>1, <1>2 DEF Inv, Control, Placed, Running, Begins, Ends
<1>4. Begins' /\ Ends'
  BY <1>1, <1>2 DEF Inv, Control, Placed, Running, Begins, Ends, Views, Leaving
<1>5. Held'
  BY <1>1, <1>2 DEF Inv, Control, Placed, Running, Ends, Held
<1>6. Told'
  BY <1>1, <1>2 DEF Inv, Control, Placed, Running, Begins, Ends, Told, Closed
<1>7. Armed'
  BY <1>1, <1>2 DEF Inv, Control, Placed, Running, Begins, Armed, Due, Passed, Deadlines, Flows, Flags
<1>8. Flags'
  BY <1>1, <1>2, ZenonT(40) DEF Inv, Flags, States, HandlerStates, Flows, Deadlines
<1>9. Lists'
  BY <1>1, <1>2, EmptyList DEF Inv, Lists
<1>10. Stores'
  BY <1>1 DEF Inv, Stores
<1>11. Bounded'
  BY <1>1 DEF Inv, Bounded
<1>12. Sized'
  BY <1>1, <1>2, SizedStays DEF Inv, Views, Control, Running
<1>13. Queued'
  BY <1>1, <1>2, QueuedStays DEF Inv, Views, Control, Running, Placed, Queued
<1>14. Scaled'
  BY <1>1, <1>2, ScaledStays DEF Inv, Views, Control, Running
<1>15. Leaving'
  BY <1>1, <1>2, LeavingStays DEF Inv, Views, Control, Running
<1> QED BY <1>3, <1>4, <1>5, <1>6, <1>7, <1>8, <1>9, <1>10, <1>11, <1>12, <1>13, <1>14, <1>15
           DEF Inv, Control, Views

\* main_events_cleared_transition finds the state it knows.
LEMMA MainEventsClearedTransitionInv ==
  ASSUME Regular, Inv, MainEventsClearedTransition
  PROVE  Inv'
<1>1. UNCHANGED <<at, pc, batch, inside, phase, handler, active, flow, timer, clock, queue, signalled, live, size, layout, display, reported, wanted, destroyed, ops>>
  BY DEF MainEventsClearedTransition, app_vars, view_vars, told_vars
<1>2. /\ pc = "batch" /\ inside = "none" /\ then = "transition" /\ batch = <<>> /\ queue = <<>>
      /\ state' = "ProcessingRedraws" /\ then' = "about" /\ panicked' = FALSE
  BY DEF Inv, Control, Held, HandlerStates, Flags, MainEventsClearedTransition, Drained, Continue, Placed
<1>3. Placed' /\ Running'
  BY <1>1, <1>2 DEF Inv, Control, Placed, Running, Begins, Ends
<1>4. Begins' /\ Ends'
  BY <1>1, <1>2 DEF Inv, Control, Placed, Running, Begins, Ends, Views, Leaving
<1>5. Held'
  BY <1>1, <1>2 DEF Inv, Control, Placed, Running, Ends, Held
<1>6. Told'
  BY <1>1, <1>2 DEF Inv, Control, Placed, Running, Begins, Ends, Told, Closed
<1>7. Armed'
  BY <1>1, <1>2 DEF Inv, Control, Placed, Running, Begins, Armed, Due, Passed, Deadlines, Flows, Flags
<1>8. Flags'
  BY <1>1, <1>2, SMTT(30) DEF Inv, Flags, States
<1>9. Lists'
  BY <1>1, <1>2, EmptyList DEF Inv, Lists
<1>10. Stores'
  BY <1>1 DEF Inv, Stores
<1>11. Bounded'
  BY <1>1 DEF Inv, Bounded
<1>12. Sized'
  BY <1>1, <1>2, SizedStays DEF Inv, Views, Control, Running, Placed
<1>13. Queued'
  BY <1>1, <1>2, QueuedStays DEF Inv, Views, Control, Running, Placed, Queued
<1>14. Scaled'
  BY <1>1, <1>2, ScaledStays DEF Inv, Views, Control, Running
<1>15. Leaving'
  BY <1>1, <1>2, LeavingStays DEF Inv, Views, Control, Running
<1> QED BY <1>3, <1>4, <1>5, <1>6, <1>7, <1>8, <1>9, <1>10, <1>11, <1>12, <1>13, <1>14, <1>15
           DEF Inv, Control, Views

\* about_to_wait, before which the queue was drained.
LEMMA AboutToWaitInv ==
  ASSUME Regular, Inv, AboutToWait
  PROVE  Inv'
<1>1. UNCHANGED <<at, state, active, flow, timer, clock, queue, signalled, live, size, layout, display, reported, wanted, destroyed, ops>>
  BY DEF AboutToWait, state_vars, view_vars, told_vars
<1>2. /\ pc = "batch" /\ inside = "none" /\ then = "about" /\ batch = <<>> /\ queue = <<>> /\ state = "ProcessingRedraws"
      /\ inside' = "about_to_wait" /\ phase' = "Asleep" /\ handler' = "in use"
      /\ pc' = "batch" /\ then' = "draw" /\ batch' = <<>> /\ panicked' = FALSE
  BY DEF Inv, Control, Held, HandlerStates, Flags, AboutToWait, Drained, Continue, CallThenDrain, Call, Enter, Ready, HandlePanics, InUse, Placed
<1>3. Placed' /\ Running'
  BY <1>1, <1>2 DEF Inv, Control, Placed, Running, Begins, Ends
<1>4. Begins' /\ Ends'
  BY <1>1, <1>2 DEF Inv, Control, Placed, Running, Begins, Ends, Views, Leaving
<1>5. Held'
  BY <1>1, <1>2 DEF Inv, Control, Placed, Running, Ends, Held
<1>6. Told'
  BY <1>1, <1>2 DEF Inv, Control, Placed, Running, Begins, Ends, Told, Closed
<1>7. Armed'
  BY <1>1, <1>2 DEF Inv, Control, Placed, Running, Begins, Armed, Due, Passed, Deadlines, Flows, Flags
<1>8. Flags'
  BY <1>1, <1>2, ZenonT(40) DEF Inv, Flags, HandlerStates
<1>9. Lists'
  BY <1>1, <1>2, EmptyList DEF Inv, Lists
<1>10. Stores'
  BY <1>1 DEF Inv, Stores
<1>11. Bounded'
  BY <1>1 DEF Inv, Bounded
<1>12. Sized'
  BY <1>1, <1>2, SizedStays DEF Inv, Views, Control, Running
<1>13. Queued'
  BY <1>1, <1>2, QueuedStays DEF Inv, Views, Control, Running, Placed, Queued
<1>14. Scaled'
  BY <1>1, <1>2, ScaledStays DEF Inv, Views, Control, Running
<1>15. Leaving'
  BY <1>1, <1>2, LeavingStays DEF Inv, Views, Control, Running
<1> QED BY <1>3, <1>4, <1>5, <1>6, <1>7, <1>8, <1>9, <1>10, <1>11, <1>12, <1>13, <1>14, <1>15
           DEF Inv, Control, Views

\* The first observer returns: layout and drawing follow.
LEMMA MainEventsClearedEndsInv ==
  ASSUME Regular, Inv, MainEventsClearedEnds
  PROVE  Inv'
<1>1. UNCHANGED <<then, batch, inside, phase, handler, state, active, flow, timer, clock, queue, signalled, live, size, layout, display, reported, wanted, destroyed, panicked, ops>>
  BY DEF MainEventsClearedEnds, app_vars, state_vars, view_vars, told_vars
<1>2. /\ pc = "batch" /\ inside = "none" /\ then = "draw" /\ batch = <<>> /\ queue = <<>>
      /\ at' = "draw" /\ pc' = "idle"
  BY DEF Inv, Control, Held, HandlerStates, Flags, MainEventsClearedEnds, Drained, Continue
<1>3. Placed' /\ Running'
  BY <1>1, <1>2 DEF Inv, Control, Placed, Running, Begins, Ends
<1>4. Begins' /\ Ends'
  BY <1>1, <1>2 DEF Inv, Control, Placed, Running, Begins, Ends, Views, Leaving
<1>5. Held'
  BY <1>1, <1>2 DEF Inv, Control, Placed, Running, Ends, Held
<1>6. Told'
  BY <1>1, <1>2 DEF Inv, Control, Placed, Running, Begins, Ends, Told, Closed
<1>7. Armed'
  BY <1>1, <1>2 DEF Inv, Control, Placed, Running, Begins, Armed, Due, Passed, Deadlines, Flows, Flags
<1>8. Flags'
  BY <1>1, <1>2, SMTT(30) DEF Inv, Flags
<1>9. Lists'
  BY <1>1, <1>2, EmptyList DEF Inv, Lists
<1>10. Stores'
  BY <1>1 DEF Inv, Stores
<1>11. Bounded'
  BY <1>1 DEF Inv, Bounded
<1>12. Sized'
  BY <1>1, <1>2, SizedStays DEF Inv, Views, Control, Running
<1>13. Queued'
  BY <1>1, <1>2, QueuedStays DEF Inv, Views, Control, Running, Placed, Queued
<1>14. Scaled'
  BY <1>1, <1>2, ScaledStays DEF Inv, Views, Control, Running
<1>15. Leaving'
  BY <1>1, <1>2, LeavingStays DEF Inv, Views, Control, Running
<1> QED BY <1>3, <1>4, <1>5, <1>6, <1>7, <1>8, <1>9, <1>10, <1>11, <1>12, <1>13, <1>14, <1>15
           DEF Inv, Control, Views

\* The application sets a control flow; the timer waits for the transition.
LEMMA SetControlFlowInv ==
  ASSUME Regular, Inv, SetControlFlow
  PROVE  Inv'
<1>1. UNCHANGED <<at, pc, then, batch, inside, phase, handler, state, active, timer, clock, queue, signalled, live, size, layout, display, reported, wanted, destroyed, panicked>>
  BY DEF SetControlFlow, loop_vars, app_vars, view_vars, told_vars
<1>2. /\ inside # "none" /\ flow' \in Flows
  BY DEF Inv, Control, Held, HandlerStates, Flags, SetControlFlow, Inside, Op
<1>3. Placed' /\ Running'
  BY <1>1, <1>2 DEF Inv, Control, Placed, Running, Begins, Ends
<1>4. Begins' /\ Ends'
  BY <1>1, <1>2 DEF Inv, Control, Placed, Running, Begins, Ends, Views, Leaving
<1>5. Held'
  BY <1>1, <1>2 DEF Inv, Control, Placed, Running, Ends, Held
<1>6. Told'
  BY <1>1, <1>2 DEF Inv, Control, Placed, Running, Begins, Ends, Told, Closed
<1>7. Armed'
  BY <1>1, <1>2 DEF Inv, Control, Placed, Running, Begins, Armed, Due, Passed, Deadlines, Flows, Flags
<1>8. Flags'
  BY <1>1, <1>2, SMTT(30) DEF Inv, Flags, Flows, Deadlines
<1>9. Lists'
  BY <1>1, <1>2, EmptyList DEF Inv, Lists
<1>10. Stores'
  BY <1>1 DEF Inv, Stores
<1>11. Bounded'
  BY Parts, OpBounded DEF Inv, SetControlFlow
<1>12. Sized'
  BY <1>1, <1>2, SizedStays DEF Inv, Views, Control, Running
<1>13. Queued'
  BY <1>1, <1>2, QueuedStays DEF Inv, Views, Control, Running, Placed, Queued
<1>14. Scaled'
  BY <1>1, <1>2, ScaledStays DEF Inv, Views, Control, Running
<1>15. Leaving'
  BY <1>1, <1>2, LeavingStays DEF Inv, Views, Control, Running
<1> QED BY <1>3, <1>4, <1>5, <1>6, <1>7, <1>8, <1>9, <1>10, <1>11, <1>12, <1>13, <1>14, <1>15
           DEF Inv, Control, Views

\* The application asks for a redraw.
LEMMA RequestRedrawInv ==
  ASSUME Regular, Inv, RequestRedraw
  PROVE  Inv'
<1>1. UNCHANGED <<at, pc, then, batch, inside, phase, handler, state, active, flow, timer, clock, queue, signalled, live, size, layout, reported, destroyed, panicked>>
  BY DEF RequestRedraw, loop_vars, app_vars, state_vars
<1>2. /\ inside # "none"
  BY DEF Inv, Control, Held, HandlerStates, Flags, RequestRedraw, Inside, Op
<1>3. Placed' /\ Running'
  BY <1>1, <1>2 DEF Inv, Control, Placed, Running, Begins, Ends
<1>4. Begins' /\ Ends'
  BY <1>1, <1>2 DEF Inv, Control, Placed, Running, Begins, Ends, Views, Leaving
<1>5. Held'
  BY <1>1, <1>2 DEF Inv, Control, Placed, Running, Ends, Held
<1>6. Told'
  BY <1>1, <1>2 DEF Inv, Control, Placed, Running, Begins, Ends, Told, Closed
<1>7. Armed'
  BY <1>1, <1>2 DEF Inv, Control, Placed, Running, Begins, Armed, Due, Passed, Deadlines, Flows, Flags
<1>8. Flags'
  BY <1>1, <1>2, SMTT(30) DEF Inv, Flags
<1>9. Lists'
  BY <1>1, <1>2, EmptyList DEF Inv, Lists
<1>10. Stores'
  BY <1>1 DEF Inv, Stores, RequestRedraw
<1>11. Bounded'
  BY Parts, OpBounded DEF Inv, RequestRedraw
<1>12. Sized'
  BY <1>1, <1>2, SizedStays DEF Inv, Views, Control, Running
<1>13. Queued'
  BY <1>1, <1>2, QueuedStays DEF Inv, Views, Control, Running, Placed, Queued
<1>14. Scaled'
  BY <1>1, <1>2, ScaledStays DEF Inv, Views, Control, Running
<1>15. Leaving'
  BY <1>1, <1>2, LeavingStays DEF Inv, Views, Control, Running
<1> QED BY <1>3, <1>4, <1>5, <1>6, <1>7, <1>8, <1>9, <1>10, <1>11, <1>12, <1>13, <1>14, <1>15
           DEF Inv, Control, Views

\* A callback returns.
LEMMA ReturnInv ==
  ASSUME Regular, Inv, Return
  PROVE  Inv'
<1>1. UNCHANGED <<at, pc, then, batch, phase, state, active, flow, timer, clock, queue, signalled, live, size, layout, display, reported, wanted, destroyed, panicked, ops>>
  BY DEF Return, loop_vars, state_vars, view_vars, told_vars
<1>2. /\ inside # "none" /\ inside # "scale" /\ inside' = "none"
      /\ handler = "in use" /\ handler' = "available"
  BY DEF Inv, Control, Held, HandlerStates, Flags, Return, Inside, Leave, InUse
<1>3. Placed' /\ Running'
  BY <1>1, <1>2 DEF Inv, Control, Placed, Running, Begins, Ends
<1>4. Begins' /\ Ends'
  BY <1>1, <1>2 DEF Inv, Control, Placed, Running, Begins, Ends, Views, Leaving
<1>5. Held'
  BY <1>1, <1>2 DEF Inv, Control, Placed, Running, Ends, Held
<1>6. Told'
  BY <1>1, <1>2 DEF Inv, Control, Placed, Running, Begins, Ends, Told, Closed
<1>7. Armed'
  BY <1>1, <1>2 DEF Inv, Control, Placed, Running, Begins, Armed, Due, Passed, Deadlines, Flows, Flags
<1>8. Flags'
  BY <1>1, <1>2, ZenonT(40) DEF Inv, Flags, HandlerStates
<1>9. Lists'
  BY <1>1, <1>2, EmptyList DEF Inv, Lists
<1>10. Stores'
  BY <1>1 DEF Inv, Stores
<1>11. Bounded'
  BY <1>1 DEF Inv, Bounded
<1>12. Sized'
  BY <1>1, <1>2, SizedStays DEF Inv, Views, Control, Running
<1>13. Queued'
  BY <1>1, <1>2, QueuedStays DEF Inv, Views, Control, Running, Placed, Queued
<1>14. Scaled'
  BY <1>1, <1>2, ScaledStays DEF Inv, Views, Control, Running
<1>15. Leaving'
  BY <1>1, <1>2, LeavingStays DEF Inv, Views, Control, Running
<1> QED BY <1>3, <1>4, <1>5, <1>6, <1>7, <1>8, <1>9, <1>10, <1>11, <1>12, <1>13, <1>14, <1>15
           DEF Inv, Control, Views

\* A thread signals the proxy, after the launch.
LEMMA ProxyWakeUpInv ==
  ASSUME Regular, Inv, ProxyWakeUp
  PROVE  Inv'
<1>1. UNCHANGED <<at, pc, then, batch, inside, phase, handler, state, active, flow, timer, clock, queue, live, size, layout, display, reported, wanted, destroyed, panicked>>
  BY DEF ProxyWakeUp, loop_vars, app_vars, state_vars, view_vars, told_vars
<1>2. /\ state # "Initial" /\ state # "Terminated" /\ signalled' = TRUE
  BY DEF Inv, Control, Held, HandlerStates, Flags, ProxyWakeUp, has_launched, has_terminated, Regular
<1>3. Placed' /\ Running'
  BY <1>1, <1>2 DEF Inv, Control, Placed, Running, Begins, Ends
<1>4. Begins' /\ Ends'
  BY <1>1, <1>2 DEF Inv, Control, Placed, Running, Begins, Ends, Views, Leaving
<1>5. Held'
  BY <1>1, <1>2 DEF Inv, Control, Placed, Running, Ends, Held
<1>6. Told'
  BY <1>1, <1>2 DEF Inv, Control, Placed, Running, Begins, Ends, Told, Closed
<1>7. Armed'
  BY <1>1, <1>2 DEF Inv, Control, Placed, Running, Begins, Armed, Due, Passed, Deadlines, Flows, Flags
<1>8. Flags'
  BY <1>1, <1>2, SMTT(30) DEF Inv, Flags
<1>9. Lists'
  BY <1>1, <1>2, EmptyList DEF Inv, Lists
<1>10. Stores'
  BY <1>1 DEF Inv, Stores
<1>11. Bounded'
  BY Parts, OpBounded DEF Inv, ProxyWakeUp
<1>12. Sized'
  BY <1>1, <1>2, SizedStays DEF Inv, Views, Control, Running
<1>13. Queued'
  BY <1>1, <1>2, QueuedStays DEF Inv, Views, Control, Running, Placed, Queued
<1>14. Scaled'
  BY <1>1, <1>2, ScaledStays DEF Inv, Views, Control, Running
<1>15. Leaving'
  BY <1>1, <1>2, LeavingStays DEF Inv, Views, Control, Running
<1> QED BY <1>3, <1>4, <1>5, <1>6, <1>7, <1>8, <1>9, <1>10, <1>11, <1>12, <1>13, <1>14, <1>15
           DEF Inv, Control, Views

\* The source calls proxy_wake_up; nothing was queued.
LEMMA ProxyPerformInv ==
  ASSUME Regular, Inv, ProxyPerform
  PROVE  Inv'
<1>1. UNCHANGED <<at, pc, then, batch, state, active, flow, timer, clock, queue, live, size, layout, display, reported, wanted, destroyed, ops>>
  BY DEF ProxyPerform, loop_vars, state_vars, view_vars, told_vars
<1>2. /\ at = "sources" /\ pc = "idle" /\ inside = "none" /\ signalled /\ signalled' = FALSE /\ panicked' = FALSE
      /\ state \notin {"Initial", "Terminated"}
      /\ inside' = "proxy" /\ handler' = "in use" /\ phase' = phase
  BY DEF Inv, Control, Held, HandlerStates, Flags, ProxyPerform, RunLoop, Call, Enter, Ready, HandlePanics, InUse, Begins, Ends
<1>3. Placed' /\ Running'
  BY <1>1, <1>2 DEF Inv, Control, Placed, Running, Begins, Ends
<1>4. Begins' /\ Ends'
  BY <1>1, <1>2 DEF Inv, Control, Placed, Running, Begins, Ends, Views, Leaving
<1>5. Held'
  BY <1>1, <1>2 DEF Inv, Control, Placed, Running, Ends, Held
<1>6. Told'
  BY <1>1, <1>2 DEF Inv, Control, Placed, Running, Begins, Ends, Told, Closed
<1>7. Armed'
  BY <1>1, <1>2 DEF Inv, Control, Placed, Running, Begins, Armed, Due, Passed, Deadlines, Flows, Flags
<1>8. Flags'
  BY <1>1, <1>2, ZenonT(40) DEF Inv, Flags, HandlerStates
<1>9. Lists'
  BY <1>1, <1>2, EmptyList DEF Inv, Lists
<1>10. Stores'
  BY <1>1 DEF Inv, Stores
<1>11. Bounded'
  BY <1>1 DEF Inv, Bounded
<1>12. Sized'
  BY <1>1, <1>2, SizedStays DEF Inv, Views, Control, Running
<1>13. Queued'
  BY <1>1, <1>2, QueuedStays DEF Inv, Views, Control, Running, Placed, Queued
<1>14. Scaled'
  BY <1>1, <1>2, ScaledStays DEF Inv, Views, Control, Running
<1>15. Leaving'
  BY <1>1, <1>2, LeavingStays DEF Inv, Views, Control, Running
<1> QED BY <1>3, <1>4, <1>5, <1>6, <1>7, <1>8, <1>9, <1>10, <1>11, <1>12, <1>13, <1>14, <1>15
           DEF Inv, Control, Views

\* terminated() ends: each window was given Destroyed by what was handed out.
LEMMA TerminatedInv ==
  ASSUME Regular, Inv, Terminated
  PROVE  Inv'
<1>1. UNCHANGED <<at, then, batch, inside, phase, active, flow, timer, clock, queue, live, size, layout, display, reported, wanted, destroyed, ops>>
  BY DEF Terminated, view_vars, told_vars
<1>2. /\ pc = "batch" /\ inside = "none" /\ then = "terminate" /\ batch = <<>> /\ queue = <<>> /\ state = "ProcessingEvents"
      /\ state' = "Terminated" /\ signalled' = FALSE /\ handler' = "unset" /\ pc' = "idle" /\ panicked' = FALSE
  BY DEF Inv, Control, Held, HandlerStates, Flags, Terminated, Drained, Continue, Terminate, InUse, Placed
<1>2a. live \subseteq destroyed
  BY DEF Inv, Views, Leaving, Terminated, Drained, Continue
<1>3. Placed' /\ Running'
  BY <1>1, <1>2 DEF Inv, Control, Placed, Running, Begins, Ends
<1>4. Begins' /\ Ends'
  BY <1>1, <1>2, <1>2a DEF Inv, Control, Placed, Running, Begins, Ends, Views, Leaving
<1>5. Held'
  BY <1>1, <1>2 DEF Inv, Control, Placed, Running, Ends, Held
<1>6. Told'
  BY <1>1, <1>2 DEF Inv, Control, Placed, Running, Begins, Ends, Told, Closed
<1>7. Armed'
  BY <1>1, <1>2, <1>2a DEF Inv, Control, Placed, Running, Begins, Armed, Due, Passed, Deadlines, Flows, Flags
<1>8. Flags'
  BY <1>1, <1>2, <1>2a, ZenonT(40) DEF Inv, Flags, States, HandlerStates
<1>9. Lists'
  BY <1>1, <1>2, EmptyList DEF Inv, Lists
<1>10. Stores'
  BY <1>1 DEF Inv, Stores
<1>11. Bounded'
  BY <1>1 DEF Inv, Bounded
<1>12. Sized'
  BY <1>1, <1>2, SizedStays DEF Inv, Views, Control, Running
<1>13. Queued'
  BY <1>1, <1>2, QueuedStays DEF Inv, Views, Control, Running, Placed, Queued
<1>14. Scaled'
  BY <1>1, <1>2, ScaledStays DEF Inv, Views, Control, Running
<1>15. Leaving'
  BY <1>1, <1>2, LeavingStays DEF Inv, Views, Control, Running
<1> QED BY <1>3, <1>4, <1>5, <1>6, <1>7, <1>8, <1>9, <1>10, <1>11, <1>12, <1>13, <1>14, <1>15
           DEF Inv, Control, Views

\* Time passes: a timer for a deadline is one that is due.
LEMMA TickInv ==
  ASSUME Regular, Inv, Tick
  PROVE  Inv'
<1>1. UNCHANGED <<at, pc, then, batch, inside, phase, handler, state, active, flow, timer, queue, signalled, live, size, layout, display, reported, wanted, destroyed, panicked, ops>>
  BY DEF Tick, loop_vars, app_vars, state_vars, view_vars, told_vars
<1>2. /\ clock' = clock + 1 /\ clock < 2
  BY DEF Inv, Control, Held, HandlerStates, Flags, Tick
<1>2a. clock \in 0 .. 2
  BY DEF Inv, Flags
<1>3. Placed' /\ Running'
  BY <1>1, <1>2 DEF Inv, Control, Placed, Running, Begins, Ends
<1>4. Begins' /\ Ends'
  BY <1>1, <1>2, <1>2a DEF Inv, Control, Placed, Running, Begins, Ends, Views, Leaving
<1>5. Held'
  BY <1>1, <1>2 DEF Inv, Control, Placed, Running, Ends, Held
<1>6. Told'
  BY <1>1, <1>2 DEF Inv, Control, Placed, Running, Begins, Ends, Told, Closed
<1>7. Armed'
  BY <1>1, <1>2, <1>2a DEF Inv, Control, Placed, Running, Begins, Armed, Due, Passed, Deadlines, Flows, Flags
<1>8. Flags'
  BY <1>1, <1>2, <1>2a, SMTT(30) DEF Inv, Flags
<1>9. Lists'
  BY <1>1, <1>2, EmptyList DEF Inv, Lists
<1>10. Stores'
  BY <1>1 DEF Inv, Stores
<1>11. Bounded'
  BY <1>1 DEF Inv, Bounded
<1>12. Sized'
  BY <1>1, <1>2, SizedStays DEF Inv, Views, Control, Running
<1>13. Queued'
  BY <1>1, <1>2, QueuedStays DEF Inv, Views, Control, Running, Placed, Queued
<1>14. Scaled'
  BY <1>1, <1>2, ScaledStays DEF Inv, Views, Control, Running
<1>15. Leaving'
  BY <1>1, <1>2, LeavingStays DEF Inv, Views, Control, Running
<1> QED BY <1>3, <1>4, <1>5, <1>6, <1>7, <1>8, <1>9, <1>10, <1>11, <1>12, <1>13, <1>14, <1>15
           DEF Inv, Control, Views

\* wakeup_transition finds a pair of control flow and state it knows.
LEMMA WakeupInv ==
  ASSUME Regular, Inv, RunLoop("sleep"), Wakeup
  PROVE  Inv'
<1>1. UNCHANGED <<timer, clock, queue, signalled, live, size, layout, display, reported, wanted, destroyed, ops>>
  BY DEF Wakeup, view_vars, told_vars
<1>2. /\ at = "sleep" /\ pc = "idle" /\ inside = "none" /\ at' = "sources" /\ panicked' = FALSE
      /\ \/ state \in {"Initial", "Terminated"} /\ UNCHANGED <<pc, then, batch, inside, phase, handler, state, active, flow>>
         \/ /\ state \notin {"Initial", "Terminated"} /\ state' = "ProcessingEvents"
            /\ active' = flow /\ flow' = flow /\ phase' = "Awake"
            /\ inside' = "new_events" /\ handler' = "in use"
            /\ pc' = "batch" /\ then' = "idle" /\ batch' = <<>>
  BY DEF Inv, Control, Held, HandlerStates, Flags, Wakeup, RunLoop, Expected, has_launched, has_terminated, CallThenDrain, Call, Enter, Ready, HandlePanics, InUse, Placed, app_vars, state_vars
<1>3. Placed' /\ Running'
  BY <1>1, <1>2 DEF Inv, Control, Placed, Running, Begins, Ends
<1>4. Begins' /\ Ends'
  BY <1>1, <1>2 DEF Inv, Control, Placed, Running, Begins, Ends, Views, Leaving
<1>5. Held'
  BY <1>1, <1>2 DEF Inv, Control, Placed, Running, Ends, Held
<1>6. Told'
  BY <1>1, <1>2 DEF Inv, Control, Placed, Running, Begins, Ends, Told, Closed
<1>7. Armed'
  BY <1>1, <1>2 DEF Inv, Control, Placed, Running, Begins, Armed, Due, Passed, Deadlines, Flows, Flags
<1>8. Flags'
  BY <1>1, <1>2, ZenonT(40) DEF Inv, Flags, States, HandlerStates, Flows, Deadlines
<1>9. Lists'
  BY <1>1, <1>2, EmptyList DEF Inv, Lists
<1>10. Stores'
  BY <1>1 DEF Inv, Stores
<1>11. Bounded'
  BY <1>1 DEF Inv, Bounded
<1>12. Sized'
  BY <1>1, <1>2, SizedStays DEF Inv, Views, Control, Running
<1>13. Queued'
  BY <1>1, <1>2, QueuedStays DEF Inv, Views, Control, Running, Placed, Queued
<1>14. Scaled'
  BY <1>1, <1>2, ScaledStays DEF Inv, Views, Control, Running
<1>15. Leaving'
  BY <1>1, <1>2, LeavingStays DEF Inv, Views, Control, Running
<1> QED BY <1>3, <1>4, <1>5, <1>6, <1>7, <1>8, <1>9, <1>10, <1>11, <1>12, <1>13, <1>14, <1>15
           DEF Inv, Control, Views

\* The first observer starts, in ProcessingEvents.
LEMMA MainEventsClearedInv ==
  ASSUME Regular, Inv, MainEventsCleared
  PROVE  Inv'
<1>1. UNCHANGED <<inside, phase, handler, state, active, flow, timer, clock, queue, signalled, live, size, layout, display, reported, wanted, destroyed, ops>>
  BY DEF MainEventsCleared, app_vars, state_vars, view_vars, told_vars
<1>2. /\ at = "sources" /\ pc = "idle" /\ inside = "none" /\ panicked' = FALSE
      /\ \/ state \in {"Initial", "Terminated"} /\ at' = "draw" /\ UNCHANGED <<pc, then, batch>> /\ queue = <<>>
         \/ /\ state = "ProcessingEvents" /\ at' = "main"
            /\ pc' = "batch" /\ then' = "transition" /\ batch' = <<>>
  BY DEF Inv, Control, Held, HandlerStates, Flags, MainEventsCleared, RunLoop, has_launched, has_terminated, Placed, Begins, Ends
<1>3. Placed' /\ Running'
  BY <1>1, <1>2 DEF Inv, Control, Placed, Running, Begins, Ends
<1>4. Begins' /\ Ends'
  BY <1>1, <1>2 DEF Inv, Control, Placed, Running, Begins, Ends, Views, Leaving
<1>5. Held'
  BY <1>1, <1>2 DEF Inv, Control, Placed, Running, Ends, Held
<1>6. Told'
  BY <1>1, <1>2 DEF Inv, Control, Placed, Running, Begins, Ends, Told, Closed
<1>7. Armed'
  BY <1>1, <1>2 DEF Inv, Control, Placed, Running, Begins, Armed, Due, Passed, Deadlines, Flows, Flags
<1>8. Flags'
  BY <1>1, <1>2, SMTT(30) DEF Inv, Flags
<1>9. Lists'
  BY <1>1, <1>2, EmptyList DEF Inv, Lists
<1>10. Stores'
  BY <1>1 DEF Inv, Stores
<1>11. Bounded'
  BY <1>1 DEF Inv, Bounded
<1>12. Sized'
  BY <1>1, <1>2, SizedStays DEF Inv, Views, Control, Running
<1>13. Queued'
  BY <1>1, <1>2, QueuedStays DEF Inv, Views, Control, Running, Placed, Queued
<1>14. Scaled'
  BY <1>1, <1>2, ScaledStays DEF Inv, Views, Control, Running
<1>15. Leaving'
  BY <1>1, <1>2, LeavingStays DEF Inv, Views, Control, Running
<1> QED BY <1>3, <1>4, <1>5, <1>6, <1>7, <1>8, <1>9, <1>10, <1>11, <1>12, <1>13, <1>14, <1>15
           DEF Inv, Control, Views

\* events_cleared_transition arms the timer, or trusts the one that is there.
LEMMA EventsClearedInv ==
  ASSUME Regular, Inv, EventsCleared
  PROVE  Inv'
<1>1. UNCHANGED <<pc, then, batch, inside, phase, handler, active, flow, clock, queue, signalled, live, size, layout, display, reported, wanted, destroyed, ops>>
  BY DEF EventsCleared, app_vars, view_vars, told_vars
<1>2. /\ at = "draw" /\ pc = "idle" /\ inside = "none" /\ at' = "sleep" /\ panicked' = FALSE /\ layout = {}
      /\ \/ state \in {"Initial", "Terminated"} /\ UNCHANGED <<state, timer>>
         \/ /\ state = "ProcessingRedraws" /\ timer' = Rearm
            /\ state' = IF flow = "poll" THEN "PollFinished" ELSE "Waiting"
  BY DEF Inv, Control, Held, HandlerStates, Flags, EventsCleared, RunLoop, has_launched, has_terminated, Placed
<1>3. Placed' /\ Running'
  BY <1>1, <1>2 DEF Inv, Control, Placed, Running, Begins, Ends
<1>4. Begins' /\ Ends'
  BY <1>1, <1>2 DEF Inv, Control, Placed, Running, Begins, Ends, Views, Leaving
<1>5. Held'
  BY <1>1, <1>2 DEF Inv, Control, Placed, Running, Ends, Held
<1>6. Told'
  BY <1>1, <1>2 DEF Inv, Control, Placed, Running, Begins, Ends, Told, Closed
<1>7. Armed'
  BY <1>1, <1>2 DEF Inv, Control, Placed, Running, Begins, Armed, Due, Passed, Deadlines, Flows, Flags, Rearm, Fires
<1>8. Flags'
  BY <1>1, <1>2, SMTT(30) DEF Inv, Flags, States, Flows, Deadlines, Rearm, Fires
<1>9. Lists'
  BY <1>1, <1>2, EmptyList DEF Inv, Lists
<1>10. Stores'
  BY <1>1 DEF Inv, Stores
<1>11. Bounded'
  BY <1>1 DEF Inv, Bounded
<1>12. Sized'
  BY <1>1, <1>2, SizedStays DEF Inv, Views, Control, Running
<1>13. Queued'
  BY <1>1, <1>2, QueuedStays DEF Inv, Views, Control, Running, Placed, Queued
<1>14. Scaled'
  BY <1>1, <1>2, ScaledStays DEF Inv, Views, Control, Running
<1>15. Leaving'
  BY <1>1, <1>2, LeavingStays DEF Inv, Views, Control, Running
<1> QED BY <1>3, <1>4, <1>5, <1>6, <1>7, <1>8, <1>9, <1>10, <1>11, <1>12, <1>13, <1>14, <1>15
           DEF Inv, Control, Views

\* Resumed, Suspended, MemoryWarning.
LEMMA NotificationInv ==
  ASSUME Regular, Inv, Notification
  PROVE  Inv'
<1>1. UNCHANGED <<at, state, active, flow, timer, clock, queue, signalled, live, size, layout, display, reported, wanted, destroyed>>
  BY DEF Notification, state_vars, view_vars, told_vars
<1>2. /\ at = "sources" /\ pc = "idle" /\ inside = "none" /\ state # "Initial" /\ panicked' = FALSE
      /\ pc' = "batch" /\ then' = "idle" /\ batch' = <<>> /\ phase' = phase
      /\ \/ state = "Terminated" /\ UNCHANGED <<inside, handler>>
         \/ state # "Terminated" /\ inside' = "event" /\ handler' = "in use"
  BY DEF Inv, Control, Held, HandlerStates, Flags, Notification, RunLoop, has_launched, CallThenDrain, Call, NoCall, Enter, Ready, HandlePanics, InUse, app_vars
<1>3. Placed' /\ Running'
  BY <1>1, <1>2 DEF Inv, Control, Placed, Running, Begins, Ends
<1>4. Begins' /\ Ends'
  BY <1>1, <1>2 DEF Inv, Control, Placed, Running, Begins, Ends, Views, Leaving
<1>5. Held'
  BY <1>1, <1>2 DEF Inv, Control, Placed, Running, Ends, Held
<1>6. Told'
  BY <1>1, <1>2 DEF Inv, Control, Placed, Running, Begins, Ends, Told, Closed
<1>7. Armed'
  BY <1>1, <1>2 DEF Inv, Control, Placed, Running, Begins, Armed, Due, Passed, Deadlines, Flows, Flags
<1>8. Flags'
  BY <1>1, <1>2, ZenonT(40) DEF Inv, Flags, HandlerStates
<1>9. Lists'
  BY <1>1, <1>2, EmptyList DEF Inv, Lists
<1>10. Stores'
  BY <1>1 DEF Inv, Stores
<1>11. Bounded'
  BY Parts, OpBounded DEF Inv, Notification
<1>12. Sized'
  BY <1>1, <1>2, SizedStays DEF Inv, Views, Control, Running
<1>13. Queued'
  BY <1>1, <1>2, QueuedStays DEF Inv, Views, Control, Running, Placed, Queued
<1>14. Scaled'
  BY <1>1, <1>2, ScaledStays DEF Inv, Views, Control, Running
<1>15. Leaving'
  BY <1>1, <1>2, LeavingStays DEF Inv, Views, Control, Running
<1> QED BY <1>3, <1>4, <1>5, <1>6, <1>7, <1>8, <1>9, <1>10, <1>11, <1>12, <1>13, <1>14, <1>15
           DEF Inv, Control, Views

\* The head of what is handed out: a size told is the last unless the tail has one.
LEMMA DeliverInv ==
  ASSUME Regular, Inv, Deliver
  PROVE  Inv'
<1>1. UNCHANGED <<at, pc, then, state, active, flow, timer, clock, queue, signalled, live, size, layout, display, ops>>
  BY DEF Deliver, state_vars, view_vars
<1>2. /\ pc = "batch" /\ inside = "none" /\ batch # <<>> /\ state # "Terminated" /\ panicked' = FALSE
      /\ inside' \in {"event", "scale"} /\ handler' = "in use" /\ phase' = phase
  BY DEF Inv, Control, Held, HandlerStates, Flags, Deliver, Continue, Call, Enter, Ready, NoCall, HandlePanics, InUse, Ends
<1>2b. handler = "available" /\ handler \in HandlerStates
  <2>1. handler # "unset" /\ handler # "in use"
    BY <1>2 DEF Inv, Control, Held
  <2> QED BY <2>1 DEF Inv, Flags, HandlerStates
<1>2d. /\ batch' = Tail(batch) /\ UNCHANGED <<live, size, layout, display>>
       /\ inside' = (IF Head(batch).kind = "scale" THEN "scale" ELSE "event")
  BY <1>2b DEF Deliver, view_vars, Call, Ready
<1>2e. /\ reported' = IF Head(batch).kind = "resized"
                      THEN [reported EXCEPT ![Head(batch).window] = Head(batch).size]
                      ELSE reported
       /\ wanted' = IF Head(batch).kind = "redraw" THEN wanted \ {Head(batch).window} ELSE wanted
       /\ destroyed' = IF Head(batch).kind = "destroyed"
                       THEN destroyed \cup {Head(batch).window} ELSE destroyed
  BY DEF Deliver
<1>2c. batch \in Seq(Events) /\ batch # <<>> /\ Head(batch) \in Events /\ Head(batch) = batch[1]
  BY <1>2, TailIs DEF Inv, Lists
<1>3. Placed' /\ Running'
  BY <1>1, <1>2 DEF Inv, Control, Placed, Running, Begins, Ends
<1>4. Begins' /\ Ends'
  BY <1>1, <1>2 DEF Inv, Control, Placed, Running, Begins, Ends, Views, Leaving
<1>5. Held'
  BY <1>1, <1>2 DEF Inv, Control, Placed, Running, Ends, Held
<1>6. Told'
  BY <1>1, <1>2 DEF Inv, Control, Placed, Running, Begins, Ends, Told, Closed
<1>7. Armed'
  BY <1>1, <1>2 DEF Inv, Control, Placed, Running, Begins, Armed, Due, Passed, Deadlines, Flows, Flags
<1>8. Flags'
  BY <1>1, <1>2, ZenonT(40) DEF Inv, Flags, HandlerStates
<1>9. Lists'
  BY <1>1, <1>2d, <1>2e, <1>2c, TailIs DEF Inv, Lists
<1>10. Stores'
  <2>1. /\ Head(batch).window \in Windows /\ Head(batch).size \in 0 .. 2
        /\ reported \in [Windows -> 0 .. 2] /\ destroyed \subseteq Windows /\ wanted \subseteq Windows
    BY <1>2c DEF Inv, Stores, Events
  <2>2. reported' \in [Windows -> 0 .. 2] /\ destroyed' \subseteq Windows /\ wanted' \subseteq Windows
    BY <1>2d, <1>2e, <2>1
  <2> QED BY <1>2d, <1>2e, <2>2 DEF Inv, Stores
<1>11. Bounded'
  BY <1>1 DEF Inv, Bounded
<1>12. Sized'
  <2> SUFFICES ASSUME state' # "Terminated", NEW v \in live' \ layout'
               PROVE  \/ Leaves(queue, v, size[v])'
                      \/ Silent(queue, v)' /\ Leaves(batch, v, size[v])'
                      \/ Silent(queue, v)' /\ Silent(batch, v)' /\ reported'[v] = size'[v]
    BY DEF Sized
  <2>1. v \in live \ layout /\ size'[v] = size[v] /\ state # "Terminated" /\ v \in Windows
    BY <1>1, <1>2d, <1>2e DEF Inv, Stores
  <2>2. \/ Leaves(queue, v, size[v])
        \/ Silent(queue, v) /\ Leaves(batch, v, size[v])
        \/ Silent(queue, v) /\ Silent(batch, v) /\ reported[v] = size[v]
    BY <2>1 DEF Inv, Views, Sized
  <2>3. /\ Silent(queue, v) => Silent(queue, v)'
        /\ Leaves(queue, v, size[v]) => Leaves(queue, v, size[v])'
    BY <1>1, <2>1 DEF Silent, Leaves
  <2>4. ASSUME Leaves(batch, v, size[v])
        PROVE  Leaves(batch, v, size[v])' \/ (Silent(batch, v)' /\ reported'[v] = size[v])
    <3>1. \/ Leaves(Tail(batch), v, size[v])
          \/ Silent(Tail(batch), v) /\ Head(batch) = Resized(v, size[v])
      BY <1>2c, <2>4, TailLeaves
    <3>2. Leaves(Tail(batch), v, size[v]) => Leaves(batch, v, size[v])'
      BY <1>2d, <1>2e, <2>1 DEF Leaves
    <3>3. Silent(Tail(batch), v) => Silent(batch, v)'
      BY <1>2d, <1>2e DEF Silent
    <3>4. Head(batch) = Resized(v, size[v]) => reported'[v] = size[v]
      BY <1>2d, <1>2e, <2>1 DEF Resized, Inv, Stores
    <3> QED BY <3>1, <3>2, <3>3, <3>4
  <2>5. ASSUME Silent(batch, v)
        PROVE  Silent(batch, v)' /\ reported'[v] = reported[v]
    <3>1. Silent(Tail(batch), v) /\ (Head(batch).kind = "resized" => Head(batch).window # v)
      BY <1>2c, <2>5, TailSilent
    <3>2. Head(batch).window \in Windows
      BY <1>2c DEF Events
    <3> QED BY <1>2d, <1>2e, <2>1, <3>1, <3>2 DEF Silent, Inv, Stores
  <2> QED BY <2>1, <2>2, <2>3, <2>4, <2>5
<1>13. Queued'
  BY <1>1, <1>2, QueuedStays DEF Inv, Views, Control, Running, Placed, Queued
<1>14. Scaled'
  <2>1. \A i \in DOMAIN batch' : batch'[i].kind # "scale"
    <3> SUFFICES ASSUME NEW i \in DOMAIN batch', batch'[i].kind = "scale" PROVE FALSE
      OBVIOUS
    <3>1. i + 1 \in DOMAIN batch /\ batch[i + 1].kind = "scale" /\ i \in Nat \ {0}
      BY <1>2d, <1>2e, <1>2c, TailIs
    <3> QED BY <3>1 DEF Inv, Views, Scaled
  <2>2. ASSUME inside' = "scale" PROVE batch' # <<>> /\ batch'[1].window \in live
    <3>1. Head(batch).kind = "scale" /\ 1 \in DOMAIN batch
      BY <1>2d, <1>2e, <1>2c, <2>2, TailIs
    <3>2. Len(batch) = 2 /\ batch[2].window \in live
      BY <1>2c, <3>1 DEF Inv, Views, Scaled
    <3>3. 1 \in DOMAIN Tail(batch) /\ Tail(batch)[1] = batch[2]
      BY <1>2c, <3>2, TailIs, SMTT(30)
    <3> QED BY <1>2d, <1>2e, <3>2, <3>3
  <2> QED BY <1>1, <1>2d, <1>2e, <2>1, <2>2 DEF Inv, Views, Scaled
<1>15. Leaving'
  <2>1. ASSUME pc = "batch", then = "terminate", NEW w \in live \ destroyed'
        PROVE  \E i \in DOMAIN batch' : batch'[i] = Event("destroyed", w)
    <3>1. PICK i \in DOMAIN batch : batch[i] = Event("destroyed", w)
      BY <1>2d, <1>2e, <2>1 DEF Inv, Views, Leaving
    <3>2. i # 1
      BY <1>2d, <1>2e, <1>2c, <2>1, <3>1 DEF Event
    <3>3. i - 1 \in DOMAIN Tail(batch) /\ Tail(batch)[i - 1] = batch[i]
      BY <1>2c, <3>2, TailIs, SMTT(30)
    <3> QED BY <1>2d, <1>2e, <3>1, <3>3
  <2> QED BY <1>1, <1>2d, <1>2e, <2>1 DEF Inv, Views, Leaving, Event
<1> QED BY <1>3, <1>4, <1>5, <1>6, <1>7, <1>8, <1>9, <1>10, <1>11, <1>12, <1>13, <1>14, <1>15
           DEF Inv, Control, Views

\* terminated(): an order of the windows has each of them in it.
LEMMA WillTerminateInv ==
  ASSUME Regular, Inv, WillTerminate
  PROVE  Inv'
<1>1. UNCHANGED <<at, inside, phase, handler, state, active, flow, timer, clock, queue, signalled, live, size, layout, display, reported, wanted, destroyed, panicked, ops>>
  BY DEF WillTerminate, app_vars, state_vars, view_vars, told_vars
<1>2. /\ at = "sources" /\ pc = "idle" /\ inside = "none" /\ state \notin {"Initial", "Terminated"}
      /\ pc' = "batch" /\ then' = "terminate"
  BY DEF Inv, Control, Held, HandlerStates, Flags, WillTerminate, RunLoop, has_launched, has_terminated
<1>2b. PICK order \in [1 .. Cardinality(live) -> live] :
         /\ \A i, j \in DOMAIN order : order[i] = order[j] => i = j
         /\ batch' = [i \in DOMAIN order |-> Event("destroyed", order[i])]
  BY DEF WillTerminate
<1>2c. IsFiniteSet(live) /\ Cardinality(live) \in Nat /\ live \subseteq Windows
  BY FS_CardinalityType DEF Inv, Views, Leaving, Stores
<1>2d. DOMAIN order = 1 .. Cardinality(live) /\ \A i \in DOMAIN order : order[i] \in live
  BY <1>2b
<1>2e. \A w \in live : \E i \in DOMAIN order : order[i] = w
  <2>1. order \in Injection(1 .. Cardinality(live), live)
    <3>1. IsInjective(order)
      BY <1>2b DEF IsInjective
    <3>2. order \in [1 .. Cardinality(live) -> live]
      BY <1>2b
    <3> QED BY <3>1, <3>2 DEF Injection
  <2>2. Cardinality(1 .. Cardinality(live)) = Cardinality(live)
    BY <1>2c, FS_Interval
  <2>3. order \in Surjection(1 .. Cardinality(live), live)
    BY <1>2c, <2>1, <2>2, FS_Injection
  <2> QED BY <1>2d, <2>3 DEF Surjection
<1>2f. /\ DOMAIN batch' = 1 .. Cardinality(live)
       /\ \A i \in DOMAIN batch' : batch'[i] = Event("destroyed", order[i])
  BY <1>2b, <1>2d
<1>3. Placed' /\ Running'
  BY <1>1, <1>2 DEF Inv, Control, Placed, Running, Begins, Ends
<1>4. Begins' /\ Ends'
  BY <1>1, <1>2 DEF Inv, Control, Placed, Running, Begins, Ends, Views, Leaving
<1>5. Held'
  BY <1>1, <1>2 DEF Inv, Control, Placed, Running, Ends, Held
<1>6. Told'
  BY <1>1, <1>2 DEF Inv, Control, Placed, Running, Begins, Ends, Told, Closed
<1>7. Armed'
  BY <1>1, <1>2 DEF Inv, Control, Placed, Running, Begins, Armed, Due, Passed, Deadlines, Flows, Flags
<1>8. Flags'
  BY <1>1, <1>2, SMTT(30) DEF Inv, Flags
<1>9. Lists'
  <2>1. \A i \in DOMAIN batch' : batch'[i] \in Events
    BY <1>2c, <1>2d, <1>2f, EventIs DEF Kinds
  <2>2. batch' \in [1 .. Cardinality(live) -> Events]
    BY <1>2b, <1>2d, <1>2f, <2>1
  <2>3. batch' \in Seq(Events)
    BY <1>2c, <2>2
  <2> QED BY <1>1, <2>3 DEF Inv, Lists
<1>10. Stores'
  BY <1>1 DEF Inv, Stores
<1>11. Bounded'
  BY <1>1 DEF Inv, Bounded
<1>12. Sized'
  <2>1. \A w \in Windows : Silent(batch', w)
    BY <1>2f DEF Silent, Event
  <2>2. \A w \in live : ~Leaves(batch, w, size[w])
    BY <1>2 DEF Inv, Control, Running, Leaves
  <2>3. \A w \in live : Silent(queue, w) => Silent(queue, w)'
    BY <1>1 DEF Silent
  <2>4. \A w \in live : Leaves(queue, w, size[w]) => Leaves(queue, w, size[w])'
    BY <1>1 DEF Leaves
  <2> QED BY <1>1, <1>2, <1>2c, <2>1, <2>2, <2>3, <2>4 DEF Inv, Views, Sized, Silent
<1>13. Queued'
  BY <1>1, <1>2, QueuedStays DEF Inv, Views, Control, Running, Placed, Queued
<1>14. Scaled'
  <2>1. \A i \in DOMAIN batch' : batch'[i].kind # "scale"
    BY <1>2f DEF Event
  <2> QED BY <1>1, <1>2, <2>1 DEF Inv, Views, Scaled
<1>15. Leaving'
  <2>1. \A w \in live : \E i \in DOMAIN batch' : batch'[i] = Event("destroyed", w)
    BY <1>2d, <1>2e, <1>2f
  <2> QED BY <1>1, <1>2c, <2>1 DEF Leaving, Event
<1> QED BY <1>3, <1>4, <1>5, <1>6, <1>7, <1>8, <1>9, <1>10, <1>11, <1>12, <1>13, <1>14, <1>15
           DEF Inv, Control, Views

\* A window has another size, and is to be laid out.
LEMMA RotateInv ==
  ASSUME Regular, Inv, Rotate
  PROVE  Inv'
<1>1. UNCHANGED <<at, pc, then, batch, inside, phase, handler, state, active, flow, timer, clock, queue, signalled, live, display, reported, wanted, destroyed, panicked>>
  BY DEF Rotate, loop_vars, app_vars, state_vars, told_vars
<1>2. /\ at = "sources" /\ pc = "idle" /\ live # {}
  BY DEF Inv, Control, Held, HandlerStates, Flags, Rotate, RunLoop, Op
<1>2b. PICK w \in live, s \in Sizes :
         size' = [size EXCEPT ![w] = s] /\ layout' = layout \cup {w}
  BY DEF Rotate
<1>2c. w \in Windows /\ size \in [Windows -> Sizes] /\ live \subseteq Windows
  BY DEF Inv, Stores
<1>2d. \A v \in live \ layout' : v \in live \ layout /\ size'[v] = size[v]
  BY <1>2b, <1>2c
<1>3. Placed' /\ Running'
  BY <1>1, <1>2 DEF Inv, Control, Placed, Running, Begins, Ends
<1>4. Begins' /\ Ends'
  BY <1>1, <1>2 DEF Inv, Control, Placed, Running, Begins, Ends, Views, Leaving
<1>5. Held'
  BY <1>1, <1>2 DEF Inv, Control, Placed, Running, Ends, Held
<1>6. Told'
  BY <1>1, <1>2 DEF Inv, Control, Placed, Running, Begins, Ends, Told, Closed
<1>7. Armed'
  BY <1>1, <1>2 DEF Inv, Control, Placed, Running, Begins, Armed, Due, Passed, Deadlines, Flows, Flags
<1>8. Flags'
  BY <1>1, <1>2, SMTT(30) DEF Inv, Flags
<1>9. Lists'
  BY <1>1, <1>2, EmptyList DEF Inv, Lists
<1>10. Stores'
  BY <1>1, <1>2b, <1>2c DEF Inv, Stores
<1>11. Bounded'
  BY Parts, OpBounded DEF Inv, Rotate
<1>12. Sized'
  <2> SUFFICES ASSUME state' # "Terminated", NEW v \in live' \ layout'
               PROVE  \/ Leaves(queue, v, size[v])'
                      \/ Silent(queue, v)' /\ Leaves(batch, v, size[v])'
                      \/ Silent(queue, v)' /\ Silent(batch, v)' /\ reported'[v] = size'[v]
    BY DEF Sized
  <2>1. v \in live \ layout /\ size'[v] = size[v] /\ state # "Terminated" /\ v \in Windows
    BY <1>1, <1>2d DEF Inv, Stores
  <2>2. \/ Leaves(queue, v, size[v])
        \/ Silent(queue, v) /\ Leaves(batch, v, size[v])
        \/ Silent(queue, v) /\ Silent(batch, v) /\ reported[v] = size[v]
    BY <2>1 DEF Inv, Views, Sized
  <2>3. /\ Silent(queue, v) => Silent(queue, v)'
        /\ Leaves(queue, v, size[v]) => Leaves(queue, v, size[v])'
    BY <1>1, <2>1 DEF Silent, Leaves
  <2>4. /\ Silent(batch, v) => Silent(batch, v)'
        /\ Leaves(batch, v, size[v]) => Leaves(batch, v, size[v])'
    BY <1>1, <2>1 DEF Silent, Leaves
  <2> QED BY <1>1, <2>1, <2>2, <2>3, <2>4
<1>13. Queued'
  BY <1>1, <1>2 DEF Inv, Views, Queued, Silent
<1>14. Scaled'
  BY <1>1, <1>2, ScaledStays DEF Inv, Views, Control, Running
<1>15. Leaving'
  BY <1>1, <1>2, LeavingStays DEF Inv, Views, Control, Running
<1> QED BY <1>3, <1>4, <1>5, <1>6, <1>7, <1>8, <1>9, <1>10, <1>11, <1>12, <1>13, <1>14, <1>15
           DEF Inv, Control, Views

\* The size of the SurfaceSizeWriter is applied; a new one is to be laid out.
LEMMA ReturnScaleInv ==
  ASSUME Regular, Inv, ReturnScale
  PROVE  Inv'
<1>1. UNCHANGED <<at, pc, then, batch, phase, state, active, flow, timer, clock, queue, signalled, live, display, reported, wanted, destroyed, panicked, ops>>
  BY DEF ReturnScale, loop_vars, state_vars, told_vars
<1>2. /\ inside = "scale" /\ inside' = "none"
      /\ handler = "in use" /\ handler' = "available"
  BY DEF Inv, Control, Held, HandlerStates, Flags, ReturnScale, Inside, Leave, InUse
<1>2b. batch # <<>> /\ batch[1].window \in live /\ Head(batch) = batch[1]
  BY <1>2, TailIs DEF Inv, Views, Scaled, Lists
<1>2c. PICK s \in Sizes :
         /\ size' = [size EXCEPT ![batch[1].window] = s]
         /\ layout' = IF s = size[batch[1].window] THEN layout ELSE layout \cup {batch[1].window}
  BY <1>2b DEF ReturnScale
<1>2d. size \in [Windows -> Sizes] /\ live \subseteq Windows /\ layout \subseteq live
  BY DEF Inv, Stores
<1>2e. \A v \in live \ layout' : v \in live \ layout /\ size'[v] = size[v]
  <2>1. CASE s = size[batch[1].window]
    BY <1>2b, <1>2c, <1>2d, <2>1
  <2>2. CASE s # size[batch[1].window]
    BY <1>2b, <1>2c, <1>2d, <2>2
  <2> QED BY <2>1, <2>2
<1>3. Placed' /\ Running'
  BY <1>1, <1>2 DEF Inv, Control, Placed, Running, Begins, Ends
<1>4. Begins' /\ Ends'
  BY <1>1, <1>2 DEF Inv, Control, Placed, Running, Begins, Ends, Views, Leaving
<1>5. Held'
  BY <1>1, <1>2 DEF Inv, Control, Placed, Running, Ends, Held
<1>6. Told'
  BY <1>1, <1>2 DEF Inv, Control, Placed, Running, Begins, Ends, Told, Closed
<1>7. Armed'
  BY <1>1, <1>2 DEF Inv, Control, Placed, Running, Begins, Armed, Due, Passed, Deadlines, Flows, Flags
<1>8. Flags'
  BY <1>1, <1>2, ZenonT(40) DEF Inv, Flags, HandlerStates
<1>9. Lists'
  BY <1>1, <1>2, EmptyList DEF Inv, Lists
<1>10. Stores'
  BY <1>1, <1>2b, <1>2c, <1>2d DEF Inv, Stores
<1>11. Bounded'
  BY <1>1 DEF Inv, Bounded
<1>12. Sized'
  <2> SUFFICES ASSUME state' # "Terminated", NEW v \in live' \ layout'
               PROVE  \/ Leaves(queue, v, size[v])'
                      \/ Silent(queue, v)' /\ Leaves(batch, v, size[v])'
                      \/ Silent(queue, v)' /\ Silent(batch, v)' /\ reported'[v] = size'[v]
    BY DEF Sized
  <2>1. v \in live \ layout /\ size'[v] = size[v] /\ state # "Terminated" /\ v \in Windows
    BY <1>1, <1>2e DEF Inv, Stores
  <2>2. \/ Leaves(queue, v, size[v])
        \/ Silent(queue, v) /\ Leaves(batch, v, size[v])
        \/ Silent(queue, v) /\ Silent(batch, v) /\ reported[v] = size[v]
    BY <2>1 DEF Inv, Views, Sized
  <2>3. /\ Silent(queue, v) => Silent(queue, v)'
        /\ Leaves(queue, v, size[v]) => Leaves(queue, v, size[v])'
    BY <1>1, <2>1 DEF Silent, Leaves
  <2>4. /\ Silent(batch, v) => Silent(batch, v)'
        /\ Leaves(batch, v, size[v]) => Leaves(batch, v, size[v])'
    BY <1>1, <2>1 DEF Silent, Leaves
  <2> QED BY <1>1, <2>1, <2>2, <2>3, <2>4
<1>13. Queued'
  BY <1>1, <1>2 DEF Inv, Views, Queued, Silent, Control, Placed
<1>14. Scaled'
  BY <1>1, <1>2, ScaledStays DEF Inv, Views, Control, Running
<1>15. Leaving'
  BY <1>1, <1>2, LeavingStays DEF Inv, Views, Control, Running
<1> QED BY <1>3, <1>4, <1>5, <1>6, <1>7, <1>8, <1>9, <1>10, <1>11, <1>12, <1>13, <1>14, <1>15
           DEF Inv, Control, Views

\* What handle_nonuser_events does where it is called.
LEMMA Hands ==
  ASSUME Flags, Control, NEW es, NonuserEvents(es)
  PROVE  \/ state = "Terminated" /\ UNCHANGED <<pc, then, batch, queue>>
         \/ /\ state # "Terminated" /\ inside # "none"
            /\ queue' = queue \o es /\ UNCHANGED <<pc, then, batch>>
         \/ /\ state # "Terminated" /\ inside = "none" /\ UNCHANGED queue
            /\ pc' = "batch" /\ then' = "idle" /\ batch' = es
BY DEF NonuserEvents, has_terminated, Ready, Control, Held, Flags, HandlerStates

\* Nonuser events outside of a callback are handed out at once.
LEMMA HandsOutControl ==
  ASSUME Flags, Control, NEW es, NonuserEvents(es), live # {},
         RunLoop("sources") \/ RunLoop("draw"),
         UNCHANGED <<at, inside, phase, handler, state, active, flow, timer, clock,
                     signalled, live, destroyed, panicked>>
  PROVE  Control'
<1>1. at \in {"sources", "draw"} /\ pc = "idle" /\ inside = "none" /\ state # "Initial"
  BY DEF RunLoop, Control, Begins
<1>2. \/ state = "Terminated" /\ UNCHANGED <<pc, then, batch, queue>>
      \/ /\ state # "Terminated" /\ UNCHANGED queue
         /\ pc' = "batch" /\ then' = "idle" /\ batch' = es
  BY <1>1, Hands
<1>3. Placed' /\ Running'
  BY <1>1, <1>2 DEF Control, Placed, Running
<1>4. Begins' /\ Ends'
  BY <1>1, <1>2 DEF Control, Begins, Ends
<1>5. Held'
  BY DEF Control, Held
<1>6. Told'
  BY <1>1, <1>2 DEF Control, Told, Closed
<1>7. Armed'
  BY <1>1, <1>2 DEF Control, Armed, Due, Passed
<1> QED BY <1>3, <1>4, <1>5, <1>6, <1>7 DEF Control

\* Nonuser events in a callback are queued.
LEMMA QueuesControl ==
  ASSUME Flags, Control, NEW es, NonuserEvents(es), Inside,
         UNCHANGED <<at, inside, phase, handler, state, active, flow, timer, clock,
                     signalled, destroyed, panicked>>
  PROVE  Control' /\ queue' = queue \o es /\ UNCHANGED <<pc, then, batch>>
<1>1. inside # "none" /\ state \notin {"Initial", "Terminated"}
  BY DEF Inside, Control, Begins, Ends
<1>2. queue' = queue \o es /\ UNCHANGED <<pc, then, batch>>
  BY <1>1, Hands
<1>3. Placed' /\ Running'
  BY <1>1, <1>2 DEF Control, Placed, Running
<1>4. Begins' /\ Ends'
  BY <1>1 DEF Control, Begins, Ends
<1>5. Held'
  BY DEF Control, Held
<1>6. Told'
  BY <1>1, <1>2 DEF Control, Told, Closed
<1>7. Armed'
  BY <1>1, <1>2 DEF Control, Armed, Due, Passed
<1> QED BY <1>2, <1>3, <1>4, <1>5, <1>6, <1>7 DEF Control


\* Events that are handed out: es tells the size of each window that needs no layout.
LEMMA HandsOutInv ==
  ASSUME Inv, NEW es \in Seq(Events), NonuserEvents(es), live # {},
         RunLoop("sources") \/ RunLoop("draw"),
         UNCHANGED <<at, inside, phase, handler, state, active, flow, timer, clock,
                     signalled, live, reported, destroyed, panicked>>,
         Stores', Bounded', layout' # {} => at = "sources" \/ at = "draw",
         \A v \in live \ layout' : \/ Leaves(es, v, size'[v])
                                   \/ Silent(es, v) /\ v \notin layout /\ size'[v] = size[v],
         \A i \in DOMAIN es : es[i].kind = "scale" => i = 1 /\ Len(es) = 2 /\ es[2].window \in live
  PROVE  Inv'
<1>1. at \in {"sources", "draw"} /\ pc = "idle" /\ inside = "none" /\ batch = <<>>
  BY DEF RunLoop, Inv, Control, Running
<1>2. Control'
  BY HandsOutControl DEF Inv
<1>3. \/ state = "Terminated" /\ UNCHANGED <<pc, then, batch, queue>> /\ queue = <<>>
      \/ /\ state # "Terminated" /\ UNCHANGED queue
         /\ pc' = "batch" /\ then' = "idle" /\ batch' = es
  BY <1>1, Hands DEF Inv, Control, Ends
<1>4. Flags' /\ Lists'
  BY <1>3 DEF Inv, Flags, Lists
<1>5. Sized'
  <2>1. CASE state = "Terminated"
    BY <2>1 DEF Sized
  <2>2. CASE state # "Terminated"
    <3> SUFFICES ASSUME NEW v \in live' \ layout'
                 PROVE  \/ Leaves(queue, v, size[v])'
                        \/ Silent(queue, v)' /\ Leaves(batch, v, size[v])'
                        \/ Silent(queue, v)' /\ Silent(batch, v)' /\ reported'[v] = size'[v]
      BY DEF Sized
    <3>1. v \in live /\ v \in Windows /\ queue' = queue /\ batch' = es
      BY <1>3, <2>2 DEF Inv, Stores
    <3>2. Silent(queue, v)'
      BY <1>1, <3>1 DEF Inv, Views, Queued, Silent
    <3>3. CASE Leaves(es, v, size'[v])
      BY <3>1, <3>2, <3>3 DEF Leaves
    <3>4. CASE Silent(es, v) /\ v \notin layout /\ size'[v] = size[v]
      <4>1. reported[v] = size[v]
        <5>1. Silent(queue, v) /\ ~Leaves(batch, v, size[v])
          BY <1>1, <3>1 DEF Inv, Views, Queued, Leaves
        <5>2. ~Leaves(queue, v, size[v])
          BY <5>1 DEF Silent, Leaves, Resized
        <5> QED BY <2>2, <3>1, <3>4, <5>1, <5>2 DEF Inv, Views, Sized
      <4>2. Silent(batch, v)'
        BY <3>1, <3>4 DEF Silent
      <4> QED BY <3>2, <3>4, <4>1, <4>2
    <3> QED BY <3>1, <3>3, <3>4
  <2> QED BY <2>1, <2>2
<1>6. Queued'
  BY <1>1, <1>3 DEF Inv, Views, Queued, Silent
<1>7. Scaled'
  <2>1. \A i \in DOMAIN queue' : queue'[i].kind # "scale"
    BY <1>3 DEF Inv, Views, Scaled
  <2>2. \A i \in DOMAIN batch' : batch'[i].kind = "scale" =>
          i = 1 /\ Len(batch') = 2 /\ batch'[2].window \in live'
    BY <1>1, <1>3
  <2> QED BY <1>1, <2>1, <2>2 DEF Scaled
<1>8. Leaving'
  BY <1>1, <1>3 DEF Inv, Views, Leaving
<1> QED BY <1>2, <1>4, <1>5, <1>6, <1>7, <1>8 DEF Inv, Views

\* Focus, touches, keys.
LEMMA WindowInputInv ==
  ASSUME Inv, WindowInput
  PROVE  Inv'
<1>1. PICK w \in live : NonuserEvents(<<Event("input", w)>>)
  BY DEF WindowInput
<1>2. RunLoop("sources") /\ UNCHANGED <<at, inside, phase, handler, state, active, flow, timer,
        clock, signalled, live, size, layout, display, reported, wanted, destroyed, panicked>>
  BY DEF WindowInput, app_vars, state_vars, view_vars, told_vars
<1>3. <<Event("input", w)>> \in Seq(Events) /\ \A v : Silent(<<Event("input", w)>>, v)
  BY EventIs, NoSize DEF Inv, Stores, Kinds
<1>4. \A i \in DOMAIN <<Event("input", w)>> : <<Event("input", w)>>[i].kind # "scale"
  BY DEF Event
<1>5. Stores' /\ Bounded'
  BY <1>2, OpBounded DEF Inv, Stores, WindowInput
<1>6. live # {} /\ (layout' # {} => at = "sources")
  BY <1>2 DEF RunLoop
<1> QED BY <1>1, <1>2, <1>3, <1>4, <1>5, <1>6, HandsOutInv

\* A view is laid out, and its size told.
LEMMA LayoutSubviewsInv ==
  ASSUME Inv, LayoutSubviews
  PROVE  Inv'
<1>1. PICK w \in layout : layout' = layout \ {w} /\ NonuserEvents(<<Resized(w, size[w])>>)
  BY DEF LayoutSubviews
<1>2. /\ RunLoop("sources") \/ RunLoop("draw")
      /\ UNCHANGED <<at, inside, phase, handler, state, active, flow, timer,
           clock, signalled, live, size, display, reported, wanted, destroyed, panicked, ops>>
  BY DEF LayoutSubviews, app_vars, state_vars, told_vars
<1>3. w \in live /\ w \in Windows /\ size[w] \in Sizes
  BY DEF Inv, Stores
<1>4. <<Resized(w, size[w])>> \in Seq(Events)
  BY <1>3, EventIs
<1>5. \A i \in DOMAIN <<Resized(w, size[w])>> : <<Resized(w, size[w])>>[i].kind # "scale"
  BY DEF Resized
<1>6. Stores' /\ Bounded'
  BY <1>1, <1>2 DEF Inv, Stores, Bounded
<1>7. \A v \in live \ layout' :
         \/ Leaves(<<Resized(w, size[w])>>, v, size'[v])
         \/ Silent(<<Resized(w, size[w])>>, v) /\ v \notin layout /\ size'[v] = size[v]
  BY <1>1, <1>2, OneSize
<1>8. live # {} /\ (at = "sources" \/ at = "draw")
  BY <1>2, <1>3 DEF RunLoop
<1> QED BY <1>1, <1>2, <1>4, <1>5, <1>6, <1>7, <1>8, HandsOutInv

\* A view is drawn, and the redraw told.
LEMMA DrawRectInv ==
  ASSUME Inv, DrawRect
  PROVE  Inv'
<1>1. PICK w \in display : display' = display \ {w} /\ NonuserEvents(<<Event("redraw", w)>>)
  BY DEF DrawRect
<1>2. /\ RunLoop("sources") \/ RunLoop("draw")
      /\ UNCHANGED <<at, inside, phase, handler, state, active, flow, timer,
           clock, signalled, live, size, layout, reported, wanted, destroyed, panicked, ops>>
  BY DEF DrawRect, app_vars, state_vars, told_vars
<1>3. w \in live /\ w \in Windows
  BY DEF Inv, Stores
<1>4. <<Event("redraw", w)>> \in Seq(Events) /\ \A v : Silent(<<Event("redraw", w)>>, v)
  BY <1>3, EventIs, NoSize DEF Kinds
<1>5. \A i \in DOMAIN <<Event("redraw", w)>> : <<Event("redraw", w)>>[i].kind # "scale"
  BY DEF Event
<1>6. Stores' /\ Bounded'
  BY <1>1, <1>2 DEF Inv, Stores, Bounded
<1>7. live # {} /\ (at = "sources" \/ at = "draw")
  BY <1>2, <1>3 DEF RunLoop
<1> QED BY <1>1, <1>2, <1>4, <1>5, <1>6, <1>7, HandsOutInv

\* A new scale factor, with the size it leaves behind it.
LEMMA SetContentScaleFactorInv ==
  ASSUME Inv, SetContentScaleFactor
  PROVE  Inv'
<1>1. PICK w \in live, s \in Sizes :
        /\ size' = [size EXCEPT ![w] = s]
        /\ NonuserEvents(<<Event("scale", w), Resized(w, s)>>)
  BY DEF SetContentScaleFactor
<1> DEFINE es == <<Event("scale", w), Resized(w, s)>>
<1>2. /\ RunLoop("sources")
      /\ UNCHANGED <<at, inside, phase, handler, state, active, flow, timer,
           clock, signalled, live, layout, display, reported, wanted, destroyed, panicked>>
  BY DEF SetContentScaleFactor, app_vars, state_vars, told_vars
<1>3. w \in Windows /\ size \in [Windows -> Sizes]
  BY DEF Inv, Stores
<1>4. es \in Seq(Events)
  BY <1>3, EventIs DEF Kinds
<1>5. \A i \in DOMAIN es : es[i].kind = "scale" => i = 1 /\ Len(es) = 2 /\ es[2].window \in live
  BY DEF Resized, Event
<1>6. Stores' /\ Bounded'
  BY <1>1, <1>2, <1>3, OpBounded DEF Inv, Stores, SetContentScaleFactor
<1>7. size'[w] = s /\ \A v \in live : v # w => size'[v] = size[v]
  BY <1>1, <1>3 DEF Inv, Stores
<1>8. \A v \in live \ layout' :
         \/ Leaves(es, v, size'[v])
         \/ Silent(es, v) /\ v \notin layout /\ size'[v] = size[v]
  BY <1>2, <1>7, OneSize
<1>9. live # {} /\ (at = "sources" \/ at = "draw")
  BY <1>2 DEF RunLoop
<1> HIDE DEF es
<1>10. NonuserEvents(es)
  BY <1>1 DEF es
<1> QED BY <1>2, <1>4, <1>5, <1>6, <1>8, <1>9, <1>10, HandsOutInv

\* An event that is queued by a call of the application.
LEMMA QueuesInv ==
  ASSUME Inv, NEW e \in Events, NonuserEvents(<<e>>), Inside,
         UNCHANGED <<at, inside, phase, handler, state, active, flow, timer, clock,
                     signalled, reported, destroyed, panicked>>,
         Stores', Bounded', e.kind # "scale", e.kind = "resized" => inside # "proxy",
         live \subseteq live', IsFiniteSet(live'), then = "terminate" => live' = live,
         \A v \in live' \ layout' :
            \/ e = Resized(v, size'[v])
            \/ /\ v \in live \ layout /\ size'[v] = size[v]
               /\ e.kind = "resized" => e.window # v
  PROVE  Inv'
<1>1. Control' /\ queue' = queue \o <<e>> /\ UNCHANGED <<pc, then, batch>>
  BY QueuesControl DEF Inv
<1>2. Flags' /\ Lists'
  BY <1>1, OneMore DEF Inv, Flags, Lists
<1>3. queue \in Seq(Events)
  BY DEF Inv, Lists
<1>4. inside # "none" /\ state # "Terminated" /\ at # "sleep" /\ (pc = "idle" => inside = "proxy" /\ at = "sources")
  BY DEF Inside, Inv, Control, Ends, Placed, Running
<1>5. Sized'
  <2> SUFFICES ASSUME NEW v \in live' \ layout'
               PROVE  \/ Leaves(queue, v, size[v])'
                      \/ Silent(queue, v)' /\ Leaves(batch, v, size[v])'
                      \/ Silent(queue, v)' /\ Silent(batch, v)' /\ reported'[v] = size'[v]
    BY DEF Sized
  <2>1. CASE e = Resized(v, size'[v])
    <3>1. Leaves(queue \o <<e>>, v, size'[v])
      BY <1>3, <2>1, AppendLeaves
    <3> QED BY <1>1, <3>1 DEF Leaves
  <2>2. CASE /\ v \in live \ layout /\ size'[v] = size[v]
             /\ e.kind = "resized" => e.window # v
    <3>1. /\ Silent(queue, v) => Silent(queue \o <<e>>, v)
          /\ Leaves(queue, v, size[v]) => Leaves(queue \o <<e>>, v, size[v])
      BY <1>3, <2>2, AppendOther
    <3>2. /\ Silent(queue, v) => Silent(queue, v)'
          /\ Leaves(queue, v, size[v]) => Leaves(queue, v, size[v])'
      BY <1>1, <2>2, <3>1 DEF Silent, Leaves
    <3>3. /\ Silent(batch, v) => Silent(batch, v)'
          /\ Leaves(batch, v, size[v]) => Leaves(batch, v, size[v])'
      BY <1>1, <2>2 DEF Silent, Leaves
    <3>4. \/ Leaves(queue, v, size[v])
          \/ Silent(queue, v) /\ Leaves(batch, v, size[v])
          \/ Silent(queue, v) /\ Silent(batch, v) /\ reported[v] = size[v]
      BY <1>4, <2>2 DEF Inv, Views, Sized
    <3> QED BY <2>2, <3>2, <3>3, <3>4
  <2> QED BY <2>1, <2>2
<1>6. Queued'
  <2>1. ASSUME pc' = "idle", NEW w \in Windows
        PROVE  Silent(queue', w)
    <3>1. Silent(queue, w) /\ e.kind # "resized"
      BY <1>1, <1>4, <2>1 DEF Inv, Views, Queued
    <3>2. Silent(queue \o <<e>>, w)
      BY <1>3, <3>1, AppendOther
    <3> QED BY <1>1, <3>2
  <2> QED BY <1>1, <1>4, <2>1 DEF Queued, Silent
<1>7. Scaled'
  <2>1. \A i \in DOMAIN queue' : queue'[i].kind # "scale"
    <3>1. \A i \in DOMAIN (queue \o <<e>>) : i \in DOMAIN queue \/ (queue \o <<e>>)[i] = e
      BY <1>3, OneMore
    <3>2. \A i \in DOMAIN queue : (queue \o <<e>>)[i] = queue[i] /\ queue[i].kind # "scale"
      BY <1>3, OneMore DEF Inv, Views, Scaled
    <3> QED BY <1>1, <3>1, <3>2
  <2> QED BY <1>1, <2>1 DEF Inv, Views, Scaled
<1>8. Leaving'
  BY <1>1 DEF Inv, Views, Leaving
<1> QED BY <1>1, <1>2, <1>5, <1>6, <1>7, <1>8 DEF Inv, Views

\* A new window is to be laid out before the wait.
LEMMA CreateWindowInv ==
  ASSUME Inv, CreateWindow
  PROVE  Inv'
<1>1. PICK w \in Windows \ live :
        /\ live' = live \cup {w} /\ layout' = layout \cup {w} /\ display' = display \cup {w}
        /\ NonuserEvents(<<Event("focused", w)>>)
  BY DEF CreateWindow
<1>2. /\ Inside /\ then # "terminate"
      /\ UNCHANGED <<at, inside, phase, handler, state, active, flow, timer, clock,
           signalled, size, reported, wanted, destroyed, panicked>>
  BY DEF CreateWindow, app_vars, state_vars, told_vars
<1>3. Event("focused", w) \in Events /\ Event("focused", w).kind = "focused"
  BY EventIs DEF Event, Kinds
<1>4. IsFiniteSet(live')
  BY <1>1, FS_AddElement DEF Inv, Views, Leaving
<1>5. Stores' /\ Bounded'
  BY <1>1, <1>2, OpBounded DEF Inv, Stores, CreateWindow
<1>6. \A v \in live' \ layout' : v \in live \ layout /\ size'[v] = size[v]
  BY <1>1, <1>2
<1> QED BY <1>1, <1>2, <1>3, <1>4, <1>5, <1>6, QueuesInv

\* A layout in a callback queues the size for the handler that runs.
LEMMA LayoutNowInv ==
  ASSUME Regular, Inv, LayoutNow
  PROVE  Inv'
<1>1. PICK w \in live, s \in Sizes :
        /\ size' = [size EXCEPT ![w] = s] /\ layout' = layout \ {w}
        /\ NonuserEvents(<<Resized(w, s)>>)
  BY DEF LayoutNow
<1>2. /\ Inside /\ inside # "proxy"
      /\ UNCHANGED <<at, inside, phase, handler, state, active, flow, timer, clock,
           signalled, live, display, reported, wanted, destroyed, panicked>>
  BY DEF LayoutNow, Regular, app_vars, state_vars, told_vars
<1>3. w \in Windows /\ size \in [Windows -> Sizes]
  BY DEF Inv, Stores
<1>4. Resized(w, s) \in Events /\ Resized(w, s).kind = "resized" /\ Resized(w, s).window = w
  BY <1>3, EventIs DEF Resized
<1>5. Stores' /\ Bounded'
  BY <1>1, <1>2, <1>3, OpBounded DEF Inv, Stores, LayoutNow
<1>6. size'[w] = s /\ \A v \in live : v # w => size'[v] = size[v]
  BY <1>1, <1>3 DEF Inv, Stores
<1>7. IsFiniteSet(live') /\ live' = live
  BY <1>2 DEF Inv, Views, Leaving
<1>8. \A v \in live' \ layout' : v # w => v \in live \ layout
  BY <1>1, <1>7
<1> QED BY <1>1, <1>2, <1>4, <1>5, <1>6, <1>7, <1>8, QueuesInv

----
(* The invariant *)

\* It holds at first: before the launch nothing is queued and no window exists.
LEMMA InitInv ==
  ASSUME Regular, Init
  PROVE  Inv
<1>0. flow \in Flows /\ active \in Flows /\ 0 \in 0 .. MaxOps
  BY UIKitAssumption DEF Init
<1>1. Flags
  <2>1. state \in States /\ clock \in 0 .. 2
    BY DEF Init, States
  <2>2. handler \in HandlerStates
    BY DEF Init, HandlerStates
  <2>3. signalled \in BOOLEAN
    BY DEF Init
  <2> QED BY <1>0, <2>1, <2>2, <2>3 DEF Init, Flags
<1>2. Stores /\ Bounded
  BY <1>0 DEF Init, Stores, Sizes, Bounded
<1>3. Lists
  BY EmptyList DEF Init, Lists
<1>4. Placed /\ Running /\ Begins /\ Ends
  BY DEF Init, Regular, Placed, Running, Begins, Ends
<1>5. Held /\ Told /\ Armed
  BY DEF Init, Held, Told, Closed, Armed
<1>6. Sized /\ Queued /\ Scaled
  BY DEF Init, Sized, Queued, Silent, Scaled
<1>7. Leaving
  BY FS_EmptySet DEF Init, Leaving
<1> QED BY <1>1, <1>2, <1>3, <1>4, <1>5, <1>6, <1>7 DEF Inv, Control, Views

\* A step that changes nothing keeps it.
LEMMA StutterInv ==
  ASSUME Inv, UNCHANGED vars
  PROVE  Inv'
<1>1. UNCHANGED <<at, pc, then, batch, inside, phase, handler, state, active, flow, timer,
        clock, queue, signalled, live, size, layout, display, reported, wanted, destroyed,
        panicked, ops>>
  BY DEF vars, loop_vars, app_vars, state_vars, view_vars, told_vars
<1>2. Flags' /\ Stores' /\ Lists' /\ Bounded'
  BY <1>1 DEF Inv, Flags, Stores, Lists, Bounded
<1>3. Placed' /\ Running' /\ Begins' /\ Ends'
  BY <1>1 DEF Inv, Control, Placed, Running, Begins, Ends
<1>4. Held' /\ Told' /\ Armed'
  BY <1>1 DEF Inv, Control, Held, Told, Closed, Armed, Due, Passed
<1>5. Sized' /\ Scaled' /\ Leaving'
  BY <1>1, SizedStays, ScaledStays, LeavingStays DEF Inv, Views
<1>6. Queued'
  BY <1>1 DEF Inv, Views, Queued, Silent
<1> QED BY <1>2, <1>3, <1>4, <1>5, <1>6 DEF Inv, Control, Views

\* So does every step of UIKit, of winit and of the application.
LEMMA NextInv ==
  ASSUME Regular, Inv, [Next]_vars
  PROVE  Inv'
<1>1. CASE Handlers
  BY <1>1, CanCreateSurfacesInv, DeliverInv, TakeQueueInv, HandlerEndsInv,
     MainEventsClearedTransitionInv, AboutToWaitInv, MainEventsClearedEndsInv, TerminatedInv,
     ReturnInv, ReturnScaleInv
     DEF Handlers
<1>2. CASE RunLoopSteps
  BY <1>2, DidFinishLaunchingInv, MainEventsClearedInv, LayoutSubviewsInv, DrawRectInv,
     EventsClearedInv, WakeupInv, ProxyPerformInv
     DEF RunLoopSteps, WakeDue
<1>3. CASE Environment
  BY <1>3, WakeupInv, WillTerminateInv, WindowInputInv, RotateInv, SetContentScaleFactorInv,
     NotificationInv, ProxyWakeUpInv
     DEF Environment, WakeByUIKit
<1>4. CASE Application
  BY <1>4, SetControlFlowInv, RequestRedrawInv, CreateWindowInv, LayoutNowInv DEF Application
<1>5. CASE Tick
  BY <1>5, TickInv
<1>6. CASE UNCHANGED vars
  BY <1>6, StutterInv
<1> QED BY <1>1, <1>2, <1>3, <1>4, <1>5, <1>6 DEF Next

\* The invariant of the application state.
LEMMA Invariance == ASSUME Regular PROVE Spec => []Inv
<1>1. Init => Inv
  BY InitInv
<1>2. Inv /\ [Next]_vars => Inv'
  BY NextInv
<1> QED BY <1>1, <1>2, PTL DEF Spec

----
(* What a step tells the application *)

\* A callback begins, in the phase in which it may, ...
Begun ==
  /\ inside = "none"
  /\ \/ phase = "Off" /\ phase' = "Init" /\ inside' = "new_events_init"
     \/ phase = "Init" /\ phase' = "Awake" /\ inside' = "can_create_surfaces"
     \/ phase = "Asleep" /\ phase' = "Awake" /\ inside' = "new_events"
     \/ phase = "Awake" /\ phase' = "Asleep" /\ inside' = "about_to_wait"
     \/ /\ phase \in {"Awake", "Asleep"} /\ phase' = phase
        /\ inside' \in {"event", "proxy", "scale"}

\* ... or one returns, or the step is none of the application's concern.
Tells ==
  \/ Begun
  \/ inside # "none" /\ inside' = "none" /\ phase' = phase
  \/ UNCHANGED <<inside, phase>>

\* Where the application is when the loop is up.
LEMMA Up ==
  ASSUME Inv, state \notin {"Initial", "Terminated"}, pc # "init"
  PROVE  phase \in {"Awake", "Asleep"} /\ (inside = "none" => handler = "available")
<1>1. handler # "unset" /\ (inside = "none" => handler # "in use")
  BY DEF Inv, Control, Held
<1> QED BY <1>1 DEF Inv, Flags, HandlerStates, Control, Told

\* The handlers of winit.
LEMMA HandlersTell ==
  ASSUME Inv, Handlers
  PROVE  Tells
<1>1. CASE CanCreateSurfaces
  <2>1. pc = "init" /\ inside = "none" /\ state = "ProcessingEvents"
    BY <1>1 DEF CanCreateSurfaces, Continue, Inv, Control, Running
  <2>2. phase = "Init" /\ handler = "available"
    BY <2>1 DEF Inv, Flags, HandlerStates, Control, Told, Held
  <2> QED BY <1>1, <2>1, <2>2 DEF CanCreateSurfaces, CallThenDrain, Call, Ready, Tells, Begun
<1>2. CASE Deliver
  <2>1. pc = "batch" /\ inside = "none" /\ state \notin {"Initial", "Terminated"}
    BY <1>2 DEF Deliver, Continue, Inv, Control, Begins, Ends
  <2>2. phase \in {"Awake", "Asleep"} /\ handler = "available"
    BY <2>1, Up
  <2>3. inside' \in {"event", "scale"} /\ phase' = phase
    BY <1>2, <2>2 DEF Deliver, Call, Ready
  <2> QED BY <2>1, <2>2, <2>3 DEF Tells, Begun
<1>3. CASE AboutToWait
  <2>1. pc = "batch" /\ inside = "none" /\ then = "about"
    BY <1>3 DEF AboutToWait, Drained, Continue
  <2>2. at = "main" /\ state = "ProcessingRedraws"
    BY <2>1 DEF Inv, Control, Placed
  <2>3. phase = "Awake" /\ handler = "available"
    BY <2>1, <2>2, Up DEF Inv, Control, Told, Closed
  <2> QED BY <1>3, <2>1, <2>3 DEF AboutToWait, CallThenDrain, Call, Ready, Tells, Begun
<1>4. CASE Return \/ ReturnScale
  BY <1>4 DEF Return, ReturnScale, Inside, Tells
<1>5. CASE \/ TakeQueue \/ HandlerEnds \/ MainEventsClearedTransition
           \/ MainEventsClearedEnds \/ Terminated
  BY <1>5 DEF TakeQueue, HandlerEnds, MainEventsClearedTransition, MainEventsClearedEnds,
              Terminated, app_vars, Tells
<1> QED BY <1>1, <1>2, <1>3, <1>4, <1>5 DEF Handlers

\* The end of a wait.
LEMMA WakeupTells ==
  ASSUME Inv, RunLoop("sleep"), Wakeup
  PROVE  Tells
<1>1. CASE state \in {"Initial", "Terminated"}
  BY <1>1 DEF Wakeup, has_launched, has_terminated, app_vars, Tells
<1>2. CASE state \notin {"Initial", "Terminated"}
  <2>1. at = "sleep" /\ pc = "idle" /\ inside = "none" /\ Expected
    BY <1>2 DEF RunLoop, Inv, Control, Placed, Expected
  <2>2. phase = "Asleep" /\ handler = "available"
    BY <1>2, <2>1, Up DEF Inv, Control, Told, Closed
  <2> QED BY <1>2, <2>1, <2>2
          DEF Wakeup, has_launched, has_terminated, CallThenDrain, Call, Ready, Tells, Begun
<1> QED BY <1>1, <1>2

\* What the run loop and the rest of UIKit do.
LEMMA RunLoopTells ==
  ASSUME Regular, Inv, RunLoopSteps \/ Environment \/ Application \/ Tick
  PROVE  Tells
<1>1. CASE DidFinishLaunching
  BY <1>1 DEF DidFinishLaunching, RunLoop, Call, Inv, Control, Told, Tells, Begun
<1>2. CASE ProxyPerform
  <2>1. pc = "idle" /\ inside = "none" /\ state \notin {"Initial", "Terminated"}
    BY <1>2 DEF ProxyPerform, RunLoop, Inv, Control, Begins, Ends
  <2>2. phase \in {"Awake", "Asleep"} /\ handler = "available"
    BY <2>1, Up
  <2> QED BY <1>2, <2>1, <2>2 DEF ProxyPerform, Call, Ready, Tells, Begun
<1>3. CASE Notification
  <2>1. pc = "idle" /\ inside = "none" /\ state # "Initial"
    BY <1>3 DEF Notification, RunLoop, has_launched
  <2>2. CASE state = "Terminated"
    <3>1. handler = "unset"
      BY <2>2 DEF Inv, Control, Held
    <3> QED BY <1>3, <3>1 DEF Notification, CallThenDrain, Ready, NoCall, app_vars, Tells
  <2>3. CASE state # "Terminated"
    <3>1. phase \in {"Awake", "Asleep"} /\ handler = "available"
      BY <2>1, <2>3, Up
    <3> QED BY <1>3, <2>1, <3>1 DEF Notification, CallThenDrain, Call, Ready, Tells, Begun
  <2> QED BY <2>2, <2>3
<1>4. CASE WakeDue \/ WakeByUIKit
  BY <1>4, WakeupTells DEF WakeDue, WakeByUIKit
<1>5. CASE MainEventsCleared \/ LayoutSubviews \/ DrawRect \/ EventsCleared
  BY <1>5 DEF MainEventsCleared, LayoutSubviews, DrawRect, EventsCleared, app_vars, Tells
<1>6. CASE WillTerminate \/ WindowInput \/ Rotate \/ SetContentScaleFactor \/ ProxyWakeUp
  BY <1>6 DEF WillTerminate, WindowInput, Rotate, SetContentScaleFactor, ProxyWakeUp,
              app_vars, Tells
<1>7. CASE Application \/ Tick
  BY <1>7 DEF Application, SetControlFlow, RequestRedraw, CreateWindow, LayoutNow, Tick,
              app_vars, Tells
<1> QED BY <1>1, <1>2, <1>3, <1>4, <1>5, <1>6, <1>7 DEF RunLoopSteps, Environment

\* Every step.
LEMMA NextTells ==
  ASSUME Regular, Inv, [Next]_vars
  PROVE  Tells
<1>1. CASE UNCHANGED vars
  BY <1>1 DEF vars, app_vars, Tells
<1> QED BY <1>1, HandlersTell, RunLoopTells DEF Next

\* What is told is a step of AppLifecycle, or nothing to it.
LEMMA TellsRefines ==
  ASSUME Inv, Tells
  PROVE  [Lifecycle!AppNext]_(Lifecycle!app_vars)
<1>1. CASE Begun
  <2>1. CASE phase = "Off" /\ phase' = "Init" /\ inside' = "new_events_init"
    BY <1>1, <2>1 DEF Begun, Lifecycle!AppNext, Lifecycle!Begin, Lifecycle!Invoke
  <2>2. CASE phase = "Init" /\ phase' = "Awake" /\ inside' = "can_create_surfaces"
    BY <1>1, <2>2 DEF Begun, Lifecycle!AppNext, Lifecycle!CreateSurfaces, Lifecycle!Invoke
  <2>3. CASE phase = "Asleep" /\ phase' = "Awake" /\ inside' = "new_events"
    BY <1>1, <2>3 DEF Begun, Lifecycle!AppNext, Lifecycle!Wake, Lifecycle!Invoke
  <2>4. CASE phase = "Awake" /\ phase' = "Asleep" /\ inside' = "about_to_wait"
    BY <1>1, <2>4 DEF Begun, Lifecycle!AppNext, Lifecycle!Sleep, Lifecycle!Invoke
  <2>5. CASE phase = "Awake" /\ phase' = phase /\ inside' \in {"event", "proxy", "scale"}
    BY <1>1, <2>5 DEF Begun, Lifecycle!AppNext, Lifecycle!Deliver, Lifecycle!Invoke
  <2>6. CASE phase = "Asleep" /\ phase' = phase /\ inside' \in {"event", "proxy", "scale"}
    BY <1>1, <2>6 DEF Begun, Lifecycle!AppNext, Lifecycle!DeliverTrailing, Lifecycle!Invoke
  <2> QED BY <1>1, <2>1, <2>2, <2>3, <2>4, <2>5, <2>6 DEF Begun
<1>2. CASE inside # "none" /\ inside' = "none" /\ phase' = phase
  BY <1>2 DEF Lifecycle!AppNext, Lifecycle!Return
<1>3. CASE UNCHANGED <<inside, phase>>
  BY <1>3 DEF Lifecycle!app_vars
<1> QED BY <1>1, <1>2, <1>3 DEF Tells

\* No step leaves the state Terminated.
LEMMA TerminatedForGood ==
  ASSUME Inv, state = "Terminated", Next
  PROVE  state' = "Terminated"
<1>1. pc # "init" /\ (pc = "batch" /\ then \in {"transition", "about"} => FALSE)
  BY DEF Inv, Control, Ends, Placed
<1>2. CASE Handlers
  BY <1>1, <1>2 DEF Handlers, CanCreateSurfaces, Deliver, TakeQueue, HandlerEnds, Drained, Continue,
     MainEventsClearedTransition, AboutToWait, MainEventsClearedEnds, Terminated, Return,
     ReturnScale, state_vars
<1>3. CASE RunLoopSteps
  BY <1>3 DEF RunLoopSteps, DidFinishLaunching, MainEventsCleared, LayoutSubviews, DrawRect,
     EventsCleared, WakeDue, Wakeup, ProxyPerform, has_launched, has_terminated, state_vars
<1>4. CASE Environment
  BY <1>4 DEF Environment, WakeByUIKit, Wakeup, WillTerminate, WindowInput, Rotate,
     SetContentScaleFactor, Notification, ProxyWakeUp, has_launched, has_terminated, state_vars
<1>5. CASE Application \/ Tick
  BY <1>5 DEF Application, SetControlFlow, RequestRedraw, CreateWindow, LayoutNow, Tick, state_vars
<1> QED BY <1>2, <1>3, <1>4, <1>5 DEF Next

----
(* Theorems *)

\* The variables keep their types, the lists of events included, whatever UIKit,
\* the application and its threads do.
THEOREM TypeCorrectness == ASSUME Regular PROVE Spec => []TypeOK
BY Invariance, Parts, PTL

\* No bug! arm of the state machine is reached and the application is never
\* entered while it executes; a loop that waits has told each window's size and
\* left nothing queued; and its timer is the one the control flow asks for.
THEOREM IsPrepared == ASSUME Regular PROVE Spec => []Prepared
<1>1. Inv => NoPanic
  BY DEF Inv, Control, Held, NoPanic
<1>2. Inv => ToldBeforeWait
  <2> SUFFICES ASSUME Inv, at = "sleep", has_launched, ~has_terminated
               PROVE  queue = <<>> /\ \A w \in live : reported[w] = size[w]
    BY DEF ToldBeforeWait
  <2>1. pc = "idle" /\ batch = <<>> /\ queue = <<>> /\ layout = {}
    BY DEF Inv, Control, Placed, Running, Views, Queued
  <2>2. \A w \in live : ~Leaves(queue, w, size[w]) /\ ~Leaves(batch, w, size[w])
    BY <2>1 DEF Leaves
  <2> QED BY <2>1, <2>2 DEF Inv, Views, Sized, has_terminated
<1>3. Inv => TimerArmed
  BY DEF Inv, Control, Placed, Armed, Due, TimerArmed, Flags, Flows
<1> QED BY <1>1, <1>2, <1>3, Invariance, PTL DEF Prepared

\* The application is called in the order AppLifecycle states, with what Core
\* Animation draws after about_to_wait, and once terminated() has run it has been
\* given Destroyed for every window and is never entered again.
THEOREM ImplementsContract == ASSUME Regular PROVE Spec => Contract
<1>1. Init => Lifecycle!AppInit
  BY DEF Init, Lifecycle!AppInit
<1>2. Inv /\ [Next]_vars => [Lifecycle!AppNext]_(Lifecycle!app_vars)
  BY NextTells, TellsRefines
<1>3. Inv /\ Inv' /\ [Next]_vars => [has_terminated => UNCHANGED inside /\ live \subseteq destroyed]_vars
  <2> SUFFICES ASSUME Inv, Inv', Next, has_terminated
               PROVE  UNCHANGED inside /\ live \subseteq destroyed
    BY DEF vars
  <2>1. state = "Terminated" /\ inside = "none" /\ live \subseteq destroyed
    BY DEF has_terminated, Inv, Control, Ends
  <2>2. state' = "Terminated"
    BY <2>1, TerminatedForGood
  <2>3. inside' = "none"
    BY <2>2 DEF Inv, Control, Ends
  <2> QED BY <2>1, <2>3
<1>4. Spec => LifecycleSpec
  BY <1>1, <1>2, Invariance, PTL DEF Spec, LifecycleSpec, Lifecycle!AppSpec
<1>5. Spec => GoneAfterTermination
  BY <1>3, Invariance, PTL DEF Spec, GoneAfterTermination
<1> QED BY <1>4, <1>5 DEF Contract
====
