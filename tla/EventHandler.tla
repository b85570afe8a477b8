---- MODULE EventHandler ----
(*
winit-common's EventHandler, the cell in which the two Apple backends
keep the application: it is set for the time the loop runs, borrowed
while a callback executes, and emptied when the process terminates.
*)

VARIABLE handler

HandlerStates == {"unset", "available", "in use"}

\* in_use and ready: what the backends ask before they enter the application.
InUse == handler = "in use"
Ready == handler = "available"

\* set(): the application is there until the end of the closure (ClearOnDrop).
SetHandler == handler = "unset" /\ handler' = "available"
ClearHandler == handler # "in use" /\ handler' = "unset"

\* handle(): runs the callback with the cell borrowed ...
Enter == Ready /\ handler' = "in use"
Leave == InUse /\ handler' = "available"

\* ... or only logs when no application is set, or panics when one is running.
HandleIgnored == handler = "unset"
HandlePanics == InUse

\* terminate() drops the application; it panics while one is running.
Terminate == ~InUse /\ handler' = "unset"
====
