---- MODULE MCX11Loop ----
(* What happens around the loop: windows that get and lose the focus, fingers *)
(* on them, and what has to wake the loop, with and without a bound of its wait. *)
EXTENDS X11Loop

Env(srv, callbacks, thread, how, bounded, n) ==
  [server |-> srv, app |-> callbacks, remote |-> thread, mode |-> how,
   limited |-> bounded, max |-> n]

Keyboard == Env({"focus", "key", "motion", "kill"}, {"drop"}, {}, "run", FALSE, 4)
Screen == Env({"touch"}, {"drop"}, {}, "run", FALSE, 3)
Scale == Env({"dpi", "configure", "mods", "button"}, {"drop"}, {}, "run", FALSE, 2)
Waking(how, bounded, n) ==
  Env({"expose", "fail"}, {"exit", "drop", "redraw", "token", "wake_up"},
      {"redraw", "token"}, how, bounded, n)
\* Another thread, while no wait is without a bound.
Remote == Env({"close"}, {}, {"round_trip", "drop"}, "run", TRUE, 3)
\* What the code does not keep, and the round trips of another thread.
Touched == {Env({"touch"}, {"drop"}, {}, "run", FALSE, 3)}
Tokens == {Env({}, {"token"}, {}, "run", FALSE, 1)}
Scaled == {Env({"dpi"}, {}, {}, "run", FALSE, 1)}
Stale == {Env({"expose"}, {"drop"}, {}, "run", FALSE, 3)}
Unfiltered == {Env({"focus"}, {"drop"}, {}, "run", FALSE, 2)}
RoundTrips == {Env({"close"}, {}, {"round_trip"}, "run", FALSE, 2)}
RemoteDrops == {Env({}, {}, {"drop"}, "run", FALSE, 1)}
Environments_ == 
  {Keyboard, Screen, Scale, Waking("run", FALSE, 3), Waking("pump", TRUE, 2), Remote}
====
