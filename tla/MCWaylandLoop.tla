---- MODULE MCWaylandLoop ----
(* A toplevel with a popup, and for the longer chain a popup of the popup. *)
EXTENDS WaylandLoop

Toplevels_ == {"w"}
Popups_ == {"p"}
Nested_ == {"p", "q"}
Surfaces == {"can_create_surfaces"}
Later == {"event", "about_to_wait"}
CreateIn_ == [w |-> Surfaces, p |-> Later]
NestedCreateIn == [w |-> Surfaces, p |-> {"new_events"}, q |-> {"event"}]
ParentOf_ == [p |-> "w"]
NestedParentOf_ == [p |-> "w", q |-> "p"]
====
