---- MODULE MCAppKit ----
(*
The event loop of winit-appkit, the fullscreen of a window, and the
keyboard input of its view.  They share no state, so that their
interleavings add nothing: a behaviour exercises one of them, while the
application of the others never starts the loop, or never touches its
window, and nobody types.
*)
EXTENDS AppKitLoop

CONSTANTS None, Displays, Environments, Typists

ASSUME DisplaysAssumption == Displays \intersect {"window", "borderless", "unset"} = {}

VARIABLES window, handling, wanted, calls, env
delegate == <<window, handling, wanted, calls, env>>

VARIABLES view, app, todo, key, old, queue, source, held, mods, focused, missed, got, activating,
          done, typist
text == <<view, app, todo, key, old, queue, source, held, mods, focused, missed, got, activating,
          done, typist>>

Fullscreen == INSTANCE AppKitFullscreen WITH w <- window

\* An environment of AppKitFullscreen, see its Env.
Around(asks, faults_, starts, calm, limit) ==
  [ops |-> asks, faults |-> faults_, start |-> starts, careful |-> calm, moves |-> FALSE,
   max |-> limit]

Untouched == Around({}, {}, "window", TRUE, 0)

\* A window that is asked, toggled by the user, created fullscreen, redecorated and
\* dropped.
Requests(mode_) == Around({"set", "remote", "drop"}, {}, mode_, TRUE, 6)
Users == Around({"set", "user", "decorate", "resizable", "simple", "auxiliary"}, {}, "window",
                TRUE, 6)
Created_(mode_) == Around({"decorate", "resizable"}, {"enter"}, mode_, TRUE, 2)
Overlapping(failing) == Around({"set", "remote", "user"}, failing, "window", FALSE, 4)
Touched ==
  {Requests("window"), Users, Overlapping({"exit"})}
    \union {Created_(m) : m \in {"borderless"} \union Displays}
Regular == {Untouched} \union Touched

\* What the delegate does not keep.
Twice == {Around({"set"}, {}, "window", FALSE, 2)}
Redecorated == {Around({"set", "decorate"}, {}, "window", FALSE, 3)}
Failing == {Around({"set", "remote"}, {"enter"}, "window", TRUE, 2)}
FailingExit == {Around({"set", "remote"}, {"exit"}, "window", TRUE, 2)}
Dropping == {Around({"set", "drop"}, {}, "window", FALSE, 2)}
Displaced == {[Around({"remote"}, {}, "window", TRUE, 2) EXCEPT !.moves = TRUE]}
Relabelled == {Around({"set", "auxiliary"}, {}, "window", FALSE, 3)}
NoMode == {Around({"remote"}, {"mode"}, "window", TRUE, 1)}

\* Environments of AppKitView.  The application turns the input method on and off in its
\* callbacks, except where the delegate does not keep up with that.
View == INSTANCE AppKitView WITH Keys <- {"a"}, Environments <- Typists, env <- typist
Typing(asks, reactions, limit) == [ops |-> asks, react |-> reactions, max |-> limit]
Reactions == {"Disabled", "Preedit", "Clear", "Key", "Command"}
Nobody == Typing({}, {}, 0)
Typed ==
  {Nobody, Typing({"type", "toggle", "source"}, Reactions, 7),
   Typing({"modifier", "focus", "click", "type"}, {}, 7)}

\* What the view does not keep.
Candidates == {Nobody, Typing({"type", "toggle", "candidate"}, {}, 4)}
InEnabled == {Nobody, Typing({"type", "toggle"}, {"Enabled"}, 5)}
InCommit == {Nobody, Typing({"type", "toggle"}, {"Commit"}, 5)}

Resting == Fresh /\ mode = "run" /\ ops = MaxOps /\ runs = MaxRuns
AppKitInit ==
  /\ Fullscreen!Init /\ View!Init
  /\ \/ Init /\ env = Untouched /\ window.style = Fullscreen!required /\ typist = Nobody
     \/ Resting /\ env # Untouched /\ typist = Nobody
     \/ Resting /\ env = Untouched /\ window.style = Fullscreen!required /\ typist # Nobody

AppKitNext ==
  \/ Next /\ UNCHANGED <<delegate, text>>
  \/ Fullscreen!Next /\ UNCHANGED <<vars, text>>
  \/ View!Next /\ UNCHANGED <<vars, delegate>>

AppKitSpec ==
  /\ AppKitInit /\ [][AppKitNext]_<<vars, delegate, text>>
  /\ Fairness

\* A window without the loop's turns, for what must happen to it in the end.
FullscreenSpec ==
  AppKitInit /\ [][AppKitNext]_<<vars, delegate, text>> /\ Fullscreen!Fairness

\* window.fullscreen() tells what the user sees, and that is what was asked for last;
\* after it the display is released and the frame restored.
FullscreenAgrees == Fullscreen!Agreement /\ Fullscreen!LastRequestHolds /\ Fullscreen!NothingLeft

\* AppKitView: text arrives once, and modifiers and clicks are those of the user.
TypingAgrees == View!TextArrives /\ View!InputAgrees

\* The turns of the loop deliver what was asked for, and its functions return.
Serves == Delivered /\ Returns

\* The last request is done in the end; and so is the last call, however close to the
\* one before (not kept: Twice).
FullscreenLastRequestWins == Fullscreen!LastRequestWins
FullscreenLastCallWins == Fullscreen!LastCallWins
====
