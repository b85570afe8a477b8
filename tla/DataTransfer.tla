---- MODULE DataTransfer ----
(*
What winit-core promises the application about an incoming drag: the
events of one transfer are DragEntered, any number of DragPosition and
then DragLeft or DragDropped; what is fetched before the end is
answered, in the order of the calls and once each, unless the drag
leaves; after a drop the transfer lives until everything asked was
answered.
*)
EXTENDS Naturals, Sequences, SequencesExt

CONSTANTS Transfers, None

VARIABLES
  stage,    \* of each transfer: "none", "over", "dropped", "ended"
  waiting,  \* fetches not answered: a sequence of [kind, id, serial]
  event     \* the callback the application is in, or None

vars == <<stage, waiting, event>>

Plain(kind, id) == [kind |-> kind, id |-> id, serial |-> 0]

Init ==
  /\ stage = [t \in Transfers |-> "none"]
  /\ waiting = <<>>
  /\ event = None

Begin(kind, t) == event = None /\ event' = Plain(kind, t)

DragEntered(t) ==
  /\ stage[t] = "none" /\ \A u \in Transfers : stage[u] \in {"none", "ended"}
  /\ stage' = [stage EXCEPT ![t] = "over"]
  /\ Begin("DragEntered", t)
  /\ UNCHANGED waiting

DragPosition(t) ==
  /\ stage[t] = "over"
  /\ Begin("DragPosition", t)
  /\ UNCHANGED <<stage, waiting>>

DragLeft(t) ==
  /\ stage[t] = "over"
  /\ stage' = [stage EXCEPT ![t] = "ended"]
  /\ Begin("DragLeft", t)
  /\ waiting' = <<>>

DragDropped(t) ==
  /\ stage[t] = "over"
  /\ stage' = [stage EXCEPT ![t] = "dropped"]
  /\ Begin("DragDropped", t)
  /\ UNCHANGED waiting

\* The data of the oldest fetch that waits.
DataTransferReceived(t) ==
  /\ stage[t] \in {"over", "dropped"}
  /\ waiting # <<>> /\ Head(waiting).id = t
  /\ event = None
  /\ event' = [Head(waiting) EXCEPT !.kind = "DataTransferReceived"]
  /\ waiting' = Tail(waiting)
  /\ UNCHANGED stage

\* fetch_data_transfer, from inside a callback.
Fetch(t) ==
  /\ event # None /\ stage[t] \in {"over", "dropped"}
  /\ waiting' # <<>> /\ Front(waiting') = waiting /\ Last(waiting').id = t
  /\ \A i \in DOMAIN waiting : waiting[i].serial < Last(waiting').serial
  /\ UNCHANGED <<stage, event>>

Returned ==
  /\ event # None /\ event' = None
  /\ UNCHANGED <<stage, waiting>>

\* A dropped transfer ends when nothing waits, not before.
Ended(t) ==
  /\ stage[t] = "dropped" /\ waiting = <<>>
  /\ stage' = [stage EXCEPT ![t] = "ended"]
  /\ event # None /\ event' = None
  /\ UNCHANGED waiting

\* A callback that is about something else.
Other == event = None /\ event' = Plain("other", 0) /\ UNCHANGED <<stage, waiting>>

Next ==
  \/ Returned \/ Other
  \/ \E t \in Transfers :
       \/ DragEntered(t) \/ DragPosition(t) \/ DragLeft(t) \/ DragDropped(t)
       \/ DataTransferReceived(t) \/ Fetch(t) \/ Ended(t)

Spec == Init /\ [][Next]_vars
====
