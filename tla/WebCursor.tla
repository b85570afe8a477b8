---- MODULE WebCursor ----
(*
Custom cursors of winit-web (cursor.rs): CustomCursor and its tasks,
the CursorHandler of one canvas and what it shows.

A CustomCursor loads in a task of its own; set_cursor of one that still
loads leaves the previous cursor on screen and spawns a task that waits
for the Notifier. Dropping a DropAbortHandle makes its task end at the
next poll. Tasks and calls run one after the other on the main thread,
except that a worker may drop the last CustomCursor, whose state is
then sent to the main thread and dropped there (main_thread.rs).
*)
EXTENDS Naturals, FiniteSets

CONSTANTS
  Icons, Default,   \* icons, and the default one among them
  Images,           \* custom cursors made from an image or a url
  Animations,       \* custom cursors made from others ...
  FramesOf,         \* ... by animation, the images it is made from
  Async,            \* those that may be made with new_async
  Shared,           \* those that workers may hold
  EarlyDrops,       \* a worker may drop a cursor that still loads
  None,             \* no cursor
  MaxCalls          \* bound: calls of set_cursor and set_cursor_visible

Customs == Images \cup Animations
Names == Icons \cup Customs

ASSUME CursorAssumption ==
  /\ Default \in Icons
  /\ Icons \cap Customs = {} /\ Images \cap Animations = {}
  /\ FramesOf \in [Animations -> SUBSET Images]
  /\ None \notin Names
  /\ Async \subseteq Customs /\ Shared \subseteq Customs
  /\ EarlyDrops \in BOOLEAN /\ MaxCalls \in Nat

VARIABLES
  image,     \* the ImageState of each custom cursor
  life,      \* of each: unborn, live, dropping (on its way to main), dropped
  held,      \* who of the application holds it: a future, main, a worker
  load,      \* the task of build_spawn
  handler,   \* the CursorHandler's Inner lives
  shown,     \* SelectedCursor, or its previous when it is Loading
  loading,   \* the cursor of SelectedCursor::Loading, or None
  anim,      \* which WebAnimation the AnimationDropper of shown owns
  watchers,  \* tasks of set_cursor: the cursor, and whether not aborted
  visible,
  css,       \* the cursor property of the canvas
  playing,   \* the WebAnimations of the canvas that play
  panicked,  \* an unreachable! or expect was reached
  wanted,    \* history: the cursor set last
  calls

image_vars   == <<image, life, held, load>>
handler_vars == <<handler, shown, loading, anim, watchers, visible, css, playing>>
cursor_vars == <<image_vars, handler_vars, panicked, wanted, calls>>

CursorTypeOK ==
  /\ image \in [Customs -> {"Loading", "Failed", "Loaded"}]
  /\ life \in [Customs -> {"unborn", "live", "dropping", "dropped"}]
  /\ held \in [Customs -> {"none", "future", "main", "worker"}]
  /\ load \in [Customs -> {"none", "running", "ended"}]
  /\ handler \in BOOLEAN /\ visible \in BOOLEAN /\ panicked \in BOOLEAN
  /\ shown \in Names /\ loading \in Customs \cup {None} /\ wanted \in Names
  /\ anim \in {0, 1} /\ playing \subseteq {0, 1}
  /\ watchers \subseteq [cursor : Customs, live : BOOLEAN]
  /\ css \in Names \cup {"removed", "none"}
  /\ calls \in 0..MaxCalls

CursorInit ==
  /\ image = [c \in Customs |-> "Loading"]
  /\ life = [c \in Customs |-> "unborn"]
  /\ held = [c \in Customs |-> "none"]
  /\ load = [c \in Customs |-> "none"]
  /\ handler = TRUE /\ shown = Default /\ loading = None /\ anim = 0
  /\ watchers = {} /\ visible = TRUE /\ css = "removed" /\ playing = {}
  /\ panicked = FALSE /\ wanted = Default /\ calls = 0

Call == calls < MaxCalls /\ calls' = calls + 1

----
(* Ownership: Arc<MainThreadSafe<RefCell<ImageState>>> *)

\* What nobody refers to after the step is dropped: at once on the main thread,
\* in two steps by a worker. The frames of an animation are kept by its loading
\* task until that ends, and by its state.
Drops(lf, how) ==
  LET direct == {c \in Customs : held'[c] # "none"}
                  \cup (IF handler' THEN {shown', loading'} \cap Customs ELSE {})
      gone(c) == lf[c] = "live" /\ c \notin direct
      keeps(a) == \/ load'[a] = "running"
                  \/ image'[a] = "Loaded" /\ lf[a] \in {"live", "dropping"}
                       /\ (how = "dropping" \/ ~gone(a))
      framed == UNION {FramesOf[a] : a \in {b \in Animations : keeps(b)}}
  IN  life' = [c \in Customs |-> IF gone(c) /\ c \notin framed THEN how ELSE lf[c]]
Release == Drops(life, "dropped")

\* The task of MainThreadSafe::new drops what workers sent.
ReceiveDrop(c) ==
  /\ life[c] = "dropping"
  /\ UNCHANGED <<image, held, load, handler_vars, panicked, wanted, calls>>
  /\ Drops([life EXCEPT ![c] = "dropped"], "dropped")

----
(* The application's cursors *)

\* CustomCursor::new and new_async; build_spawn spawns the task that loads.
New(c) ==
  /\ life[c] = "unborn"
  /\ c \in Animations => \A f \in FramesOf[c] : held[f] \in {"main", "worker"}
  /\ life' = [life EXCEPT ![c] = "live"]
  /\ load' = [load EXCEPT ![c] = "running"]
  /\ \E by \in {"main"} \cup (IF c \in Async THEN {"future"} ELSE {}) :
       held' = [held EXCEPT ![c] = by]
  /\ UNCHANGED <<image, handler_vars, panicked, wanted, calls>>

\* CustomCursorFuture::poll, when the Notifier of the state has gone. A mutant:
\* only success is notified.
FutureReadyOnSuccess(c) ==
  /\ held[c] = "future" /\ image[c] = "Loaded"
  /\ held' = [held EXCEPT ![c] = "main"]
  /\ UNCHANGED <<image, life, load, handler_vars, panicked, wanted, calls>>
FutureReady(c) ==
  /\ held[c] = "future" /\ image[c] # "Loading"
  /\ held' = [held EXCEPT ![c] = IF image[c] = "Failed" THEN "none" ELSE "main"]
  /\ UNCHANGED <<image, load, handler_vars, panicked, wanted, calls>>
  /\ Release

ToWorker(c) ==
  /\ c \in Shared /\ held[c] = "main"
  /\ held' = [held EXCEPT ![c] = "worker"]
  /\ UNCHANGED <<image, life, load, handler_vars, panicked, wanted, calls>>

\* The application drops a cursor, or the future of one.
Drop(c) ==
  /\ held[c] # "none"
  /\ held[c] = "worker" /\ image[c] = "Loading" => EarlyDrops
  /\ held' = [held EXCEPT ![c] = "none"]
  /\ UNCHANGED <<image, load, handler_vars, panicked, wanted, calls>>
  /\ Drops(life, IF held[c] = "worker" THEN "dropping" ELSE "dropped")

----
(* The loading task: Abortable around from_rgba, from_url, from_animation *)

\* What from_animation waits for: a frame that still loads.
Awaits(c) == c \in Animations /\ \E f \in FramesOf[c] : image[f] = "Loading"
Outcomes(c) ==
  IF c \in Animations
  THEN IF \E f \in FramesOf[c] : image[f] = "Failed" THEN {"Failed"} ELSE {"Loaded"}
  ELSE {"Failed", "Loaded"}

\* The browser has answered and the task is polled; it stores the new state and
\* drops the Notifier.
Loads(c) ==
  /\ load[c] = "running" /\ life[c] # "dropped"
  /\ ~Awaits(c)
  /\ load' = [load EXCEPT ![c] = "ended"]
  /\ IF life[c] = "live"
     THEN /\ \E s \in Outcomes(c) : image' = [image EXCEPT ![c] = s]
          /\ UNCHANGED panicked
     ELSE panicked' = TRUE /\ UNCHANGED image
  /\ UNCHANGED <<held, handler_vars, wanted, calls>>
  /\ Release

\* The handle in the state was dropped with it: Aborted. A mutant: abort does not
\* wake the task.
LoadAbortedUnwoken(c) == FALSE
LoadAborted(c) ==
  /\ load[c] = "running" /\ life[c] = "dropped"
  /\ load' = [load EXCEPT ![c] = "ended"]
  /\ UNCHANGED <<image, held, handler_vars, panicked, wanted, calls>>
  /\ Release

----
(* CursorHandler *)

\* Replacing the SelectedCursor drops its handle. A mutant does not abort.
AbortedWatchersNone == watchers
AbortedWatchers == {[w EXCEPT !.live = FALSE] : w \in watchers}

\* set_style. A mutant does not look at visible.
SetStyleAlways(s, a, others) ==
  /\ css' = IF s = Default \/ s \in Animations THEN "removed" ELSE s
  /\ playing' = others \cup (IF s \in Animations THEN {a} ELSE {})
SetStyle(s, a, others) ==
  IF visible
  THEN /\ css' = IF s = Default \/ s \in Animations THEN "removed" ELSE s
       /\ playing' = others \cup (IF s \in Animations THEN {a} ELSE {})
  ELSE playing' = others /\ UNCHANGED css

\* The WebAnimations that still play when shown and its dropper are replaced:
\* a mutant has no AnimationDropper.
AfterDropperNone == playing
AfterDropper == IF shown \in Animations THEN playing \ {anim} ELSE playing

\* s becomes the SelectedCursor; an animation is started, on a WebAnimation of
\* its own, and cancelled at once if the cursor is hidden.
Select(s) ==
  /\ shown' = s /\ loading' = None
  /\ anim' = IF s \in Animations THEN 1 - anim ELSE anim
  /\ SetStyle(s, anim', AfterDropper)

SetIcon(i) ==
  /\ Call /\ handler /\ wanted' = i
  /\ IF shown = i THEN UNCHANGED <<shown, loading, anim, watchers, css, playing>>
     ELSE Select(i) /\ watchers' = AbortedWatchers
  /\ UNCHANGED <<image, held, load, handler, visible, panicked>>
  /\ Release

\* set_cursor of a custom cursor, by its state. A mutant forgets the watcher.
StartLoadingUnwatched(c) ==
  /\ loading' = c
  /\ watchers' = AbortedWatchers
  /\ UNCHANGED <<shown, anim, css, playing>>
StartLoading(c) ==
  /\ loading' = c
  /\ watchers' = AbortedWatchers \cup {[cursor |-> c, live |-> TRUE]}
  /\ UNCHANGED <<shown, anim, css, playing>>

SetCustom(c) ==
  /\ Call /\ handler /\ held[c] \in {"main", "worker"} /\ wanted' = c
  /\ \/ /\ \/ loading = c \/ image[c] = "Failed"
           \/ loading = None /\ shown = c
        /\ UNCHANGED <<shown, loading, anim, watchers, css, playing>>
     \/ /\ loading # c /\ (loading # None \/ shown # c)
        /\ \/ image[c] = "Loading" /\ StartLoading(c)
           \/ image[c] = "Loaded" /\ Select(c) /\ watchers' = AbortedWatchers
  /\ UNCHANGED <<image, held, load, handler, visible, panicked>>
  /\ Release

\* set_cursor_visible; hiding cancels the animation of SelectedCursor::Animation.
SetVisible(v) ==
  /\ Call /\ handler /\ v # visible
  /\ visible' = v
  /\ IF v THEN /\ css' = IF shown = Default \/ shown \in Animations
                         THEN "removed" ELSE shown
               /\ playing' = playing \cup (IF shown \in Animations THEN {anim} ELSE {})
     ELSE /\ css' = "none"
          /\ playing' = IF loading = None THEN AfterDropper ELSE playing
  /\ UNCHANGED <<image_vars, handler, shown, loading, anim, watchers, panicked, wanted>>

\* The task of set_cursor: aborted, or notified. Inner::notify, whose arms that
\* cannot be are panics.
WatcherAborted ==
  /\ \E w \in watchers : ~w.live /\ watchers' = watchers \ {w}
  /\ UNCHANGED <<image_vars, handler, shown, loading, anim, visible, css,
                 playing, panicked, wanted, calls>>

Notify(c) ==
  LET w == [cursor |-> c, live |-> TRUE] IN
  /\ w \in watchers /\ image[c] # "Loading"
  /\ watchers' = watchers \ {w}
  /\ IF ~handler \/ loading = None \/ (loading # None /\ image[loading] = "Loading")
     THEN panicked' = TRUE /\ UNCHANGED <<shown, loading, anim, css, playing>>
     ELSE /\ \/ image[loading] = "Loaded" /\ Select(loading)
             \/ /\ image[loading] = "Failed"
                /\ loading' = None
                              /\ UNCHANGED <<shown, anim, css, playing>>
          /\ UNCHANGED panicked
  /\ UNCHANGED <<image, held, load, handler, visible, wanted, calls>>
  /\ Release

\* The canvas goes, and with it the handler, its cursor and its handle.
DropHandler ==
  /\ handler /\ handler' = FALSE
  /\ watchers' = AbortedWatchers
  /\ playing' = AfterDropper
  /\ UNCHANGED <<image, held, load, shown, loading, anim, visible, css,
                 panicked, wanted, calls>>
  /\ Release

----
CursorTasks ==
  \/ \E c \in Customs :
       Loads(c) \/ LoadAborted(c) \/ ReceiveDrop(c) \/ Notify(c) \/ FutureReady(c)
  \/ WatcherAborted
CursorCalls == \/ \E c \in Customs : New(c) \/ ToWorker(c) \/ Drop(c) \/ SetCustom(c)
               \/ \E i \in Icons : SetIcon(i)
               \/ \E v \in BOOLEAN : SetVisible(v)
               \/ DropHandler
CursorNext == ~panicked /\ (CursorTasks \/ CursorCalls)

CursorSpec == CursorInit /\ [][CursorNext]_cursor_vars

\* The browser answers, and the executor polls what is queued: there are finitely
\* many tasks, so one condition does for all.
CursorFairSpec == CursorSpec /\ WF_cursor_vars(~panicked /\ CursorTasks)

----
(* Properties *)

\* No unreachable! and no expect is reached: "found wrong state", "notified
\* without being ready", "`CursorHandler` invalidated without aborting".
NoPanic == ~panicked

\* What the canvas shows is what the handler says: the cursor, or the previous
\* one while it loads, "found invalid saved state" excluded; nothing is styled
\* while it is hidden; and no animation outlives its dropper.
Consistent ==
  /\ shown \in Customs /\ handler => image[shown] = "Loaded" /\ life[shown] = "live"
  /\ css = IF ~visible THEN "none"
           ELSE IF shown = Default \/ shown \in Animations THEN "removed" ELSE shown
  /\ playing \subseteq IF handler /\ shown \in Animations THEN {anim} ELSE {}
  /\ visible /\ handler /\ shown \in Animations => anim \in playing

\* Exactly the task of the cursor that is loading may still notify.
OneWatcher ==
  {w \in watchers : w.live} =
    IF handler /\ loading # None THEN {[cursor |-> loading, live |-> TRUE]} ELSE {}

\* The state machine of the handler and the tasks that notify it agree.
HandlerSound == NoPanic /\ Consistent /\ OneWatcher

\* A custom cursor that was set is shown once it is loaded, unless it fails or
\* the application sets another or the canvas goes.
CustomShown ==
  \A c \in Customs :
    handler /\ wanted = c /\ image[c] # "Failed"
      ~> shown = c \/ wanted # c \/ image[c] = "Failed" \/ ~handler

\* A CustomCursorFuture completes.
FutureCompletes == \A c \in Customs : held[c] = "future" ~> held[c] # "future"

\* Every task ends, and the state of a cursor nobody has is dropped.
NothingLeaks ==
  \A c \in Customs :
    held[c] = "none" /\ life[c] # "unborn" /\ ~handler
      /\ c \notin UNION {FramesOf[a] : a \in Animations}
      ~> load[c] = "ended" /\ life[c] = "dropped"

\* Futures and tasks end, whatever is aborted, dropped or fails to load.
TasksEnd == FutureCompletes /\ NothingLeaks

----
(* What the code does not keep *)

\* The cursor set last is the one that is shown when nothing loads.
LastRequestWins ==
  handler /\ loading = None /\ wanted \in Icons => shown = wanted

\* A hidden cursor is hidden: no animation shows one.
HiddenIsHidden == ~visible => playing = {}
====
