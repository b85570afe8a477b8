---- MODULE AppLifecycle ----
(*
What every winit backend promises to the application: the order in
which the callbacks of ApplicationHandler are invoked, that they never
overlap, and that none is invoked on an application that panicked.

winit-core/src/event_loop/mod.rs (run_app, "Event loop flow") states
the contract; the modules of the backends refine this one.
*)

CONSTANT Trailing   \* BOOLEAN: whether events may still follow about_to_wait

VARIABLES
  phase,    \* where the application stands between its start and its end
  inside    \* the callback being executed, "none" between two callbacks

app_vars == <<phase, inside>>

Phases == {"Off", "Init", "Awake", "Asleep", "Dead"}
Callbacks == {"new_events_init", "new_events", "can_create_surfaces",
              "event", "about_to_wait"}

AppTypeOK == phase \in Phases /\ inside \in Callbacks \cup {"none"}

AppInit == phase = "Off" /\ inside = "none"

\* The backend invokes callback cb in phase from, which leads to phase to.
Invoke(cb, from, to) ==
  /\ inside = "none" /\ phase = from
  /\ inside' = cb    /\ phase' = to

\* new_events(StartCause::Init) is the first callback of every run ...
Begin == Invoke("new_events_init", "Off", "Init")

\* ... and can_create_surfaces the second.
CreateSurfaces == Invoke("can_create_surfaces", "Init", "Awake")

\* After a wait, new_events comes before anything else.
Wake == Invoke("new_events", "Asleep", "Awake")

\* window_event, device_event and proxy_wake_up.
Deliver == Invoke("event", "Awake", "Awake")

\* Such an event belongs to the iteration that about_to_wait seemed to close.
DeliverTrailing == Trailing /\ Invoke("event", "Asleep", "Asleep")

\* about_to_wait closes an iteration.
Sleep == Invoke("about_to_wait", "Awake", "Asleep")

Return == inside # "none" /\ inside' = "none" /\ UNCHANGED phase

\* A callback unwinds: the application is not called again in this run.
Unwind == inside # "none" /\ inside' = "none" /\ phase' = "Dead"

\* The loop gives the application up: after its last about_to_wait, or after
\* the panic.
Stop ==
  /\ inside = "none" /\ phase \in {"Asleep", "Dead"}
  /\ phase' = "Off"  /\ UNCHANGED inside

AppNext == \/ Begin \/ CreateSurfaces \/ Wake \/ Deliver
           \/ DeliverTrailing \/ Sleep
           \/ Return \/ Unwind \/ Stop

AppSpec == AppInit /\ [][AppNext]_app_vars
====
