---- MODULE MCWin32Runner ----
\* Instances of Win32Runner for TLC: what the applications of its runs do.
EXTENDS Win32Runner

\* Everything the model has.
AnyApp == AllActs

\* Painting, on this thread and another, with re-entrant messages and modal
\* loops, but neither drags nor panics.
PaintingApp == {"redraw", "sync", "thread", "exit", "modal"}

\* The same without the other thread.
SingleThreadedApp == PaintingApp \ {"thread"}
====
