---- MODULE MCWebRunner ----
\* Instances of WebRunner for TLC: what the applications of its runs do.
EXTENDS WebRunner

\* Everything the model has.
AnyApp == {"exit", "wake", "create", "drop", "redraw", "focus"}

\* No call of the DOM that fires a listener before it returns.
AppWithoutFocus == AnyApp \ {"focus"}

\* A window, and the end of the loop.
ExitingApp == {"exit", "create"}

\* Wake-ups and redraws arrive, and an exit is the end of the loop, its application and its
\* windows.
Served == Delivered /\ Ended
====
