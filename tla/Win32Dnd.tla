---- MODULE Win32Dnd ----
(*
Drag and drop on Windows: the IDropTarget of each window (dnd.rs), the
transfer the runner keeps for the application, and a drag of the
application's own, which runs in DoDragDrop after the window procedure.
A method of the drop target calls the application in its middle, and
the application answers with calls that read and write drag_state.

External: OLE, which makes one call at a time on behalf of a drag, and
calls Drop only where the last effect was not DROPEFFECT_NONE.
*)
EXTENDS Naturals, Sequences, FiniteSets, SequencesExt

CONSTANTS
  Windows, None,
  Offers,                \* the effects sources allow: sets of Effects
  Drags, Moves, Calls,   \* bounds: drags, DragEnter and DragOver of each, calls of the application
  Environments

Effects == {"move", "copy"}
Preferences == {<<>>, <<"copy">>, <<"move", "copy">>}

VARIABLES
  drag_state,     \* [id, window, actions], or None
  source_drag,    \* the id of the drag in DoDragDrop, or None
  pending_drag,   \* [id, allowed], or None
  pending_source_drag_cleanup,
  event_buffer,
  active,         \* of each window: active_data_transfer_id
  registered,     \* the window has its drop target
  ids,            \* COUNTER of next_data_transfer_id
  panicked,
  stack,          \* the calls under way, innermost first
  ole,            \* the drag OLE carries: [own, allowed, over, effect, moves], or None
  env, drags, calls,
  answer,         \* history: the actions the application set last for the transfer
  waiting         \* history: own drags whose end the application has not heard of

runner == <<drag_state, source_drag, pending_drag, pending_source_drag_cleanup>>
targets == <<active, registered, ids>>
world == <<ole, drags>>
app == <<env, calls, answer, waiting>>
vars == <<runner, event_buffer, targets, panicked, stack, world, app>>

Init ==
  /\ drag_state = None /\ source_drag = None /\ pending_drag = None
  /\ pending_source_drag_cleanup = None /\ event_buffer = <<>>
  /\ active = [w \in Windows |-> None] /\ registered = [w \in Windows |-> TRUE]
  /\ ids = 0 /\ panicked = FALSE /\ stack = <<>>
  /\ ole = None /\ drags = 0 /\ calls = 0
  /\ env \in Environments /\ answer = <<>> /\ waiting = {}

----
(* Frames and events. *)

Event(kind, w, id, action) == [kind |-> kind, window |-> w, id |-> id, action |-> action]
Frame(op, e, more) == [op |-> op, event |-> e, effect |-> more, keys |-> {}, allowed |-> {}]
Callback(e) == Frame("callback", e, None)
Push(f, rest) == <<f>> \o rest
Top(op) == stack # <<>> /\ Head(stack).op = op /\ ~panicked
TheEvent == Head(stack).event

Busy == \E i \in DOMAIN stack : stack[i].op = "callback"

\* Drop keeps the Ref of current_drag_actions over its last event.
Held == \E i \in DOMAIN stack : stack[i].op = "dropping"

\* The thread takes calls from outside: it waits for a message, OLE waits for
\* one in DoDragDrop, or the application runs a message loop in its callback.
Pumps ==
  /\ ~panicked
  /\ \/ stack = <<>>
     \/ Top("DoDragDrop") /\ Head(stack).effect = None
     \/ Top("callback") /\ TheEvent.kind \in env.pumps

\* No method of a drop target runs for the drag OLE carries.
Quiet == \A i \in DOMAIN stack : stack[i].op \notin {"entered", "moved", "left"}

\* send_event and, where the handler is free, dispatch_buffered_events.
SendEvent(e, rest) ==
  IF Busy
  THEN /\ event_buffer' = Append(event_buffer, e)
       /\ stack' = rest
  ELSE /\ stack' = Push(Callback(e), Push(Frame("drain", e, None), rest))
       /\ UNCHANGED event_buffer

Known(id) == drag_state # None /\ drag_state.id = id
CurrentActions(id) == IF Known(id) THEN drag_state.actions ELSE <<>>

\* The first of the application's actions that is among these.
FirstOf(actions, these) ==
  LET i == SelectInSeq(actions, LAMBDA a : a \in these)
  IN IF i = 0 THEN "none" ELSE actions[i]

\* proposed_dnd_action: the first the source offers, whatever keys are down.
Proposed(id, offered) == FirstOf(CurrentActions(id), offered)

\* pick_effect: Ctrl rules out a move and Shift a copy, unless nothing is left.
Without(effects, action, held) ==
  IF held /\ effects \ {action} # {} THEN effects \ {action} ELSE effects
PickEffect(actions, keys, offered) ==
  LET allowed == ToSet(actions) \cap offered
      moved == Without(allowed, "move", "ctrl" \in keys)
  IN FirstOf(actions, Without(moved, "copy", "shift" \in keys))

RemoveDataTransfer(id) == drag_state' = IF Known(id) THEN None ELSE drag_state

Panic == panicked' = TRUE /\ UNCHANGED <<runner, event_buffer, targets, stack, world, app>>

----
(* IDropTarget: each method up to its event, and what it does after it. *)

Begins ==
  /\ ole = None /\ drags < Drags /\ "outside" \in env.sources
  /\ env.patient => pending_drag = None
  /\ \E offered \in Offers :
       ole' = [own |-> FALSE, allowed |-> offered, over |-> None, effect |-> "none", moves |-> 0]
  /\ drags' = drags + 1
  /\ UNCHANGED <<runner, event_buffer, targets, panicked, stack, app>>

Reaches(w) ==
  /\ Pumps /\ Quiet /\ ole # None /\ ole.over = None /\ registered[w] /\ ole.moves < Moves
  /\ ole.own => Top("DoDragDrop")

DragEnter(w) ==
  /\ Reaches(w)
  /\ IF Held
     THEN Panic
     ELSE LET id == IF source_drag # None THEN source_drag ELSE ids + 1 IN
          /\ ids' = IF source_drag # None THEN ids ELSE ids + 1
          /\ active' = [active EXCEPT ![w] = id]
          /\ drag_state' = [id |-> id, window |-> w, actions |-> <<>>]
          /\ answer' = <<>>
          /\ ole' = [ole EXCEPT !.over = w, !.moves = @ + 1]
          /\ \E keys \in env.keys :
               SendEvent(Event("DragEntered", w, id, None),
                         Push([Frame("entered", Event("DragEntered", w, id, None), None)
                                 EXCEPT !.keys = keys], stack))
          /\ UNCHANGED <<source_drag, pending_drag, pending_source_drag_cleanup, registered,
                         panicked, drags, env, calls, waiting>>

\* After the event of DragEnter or DragOver: what the application said by now.
Answered_Early ==   \* mutant: read before the event
  /\ Top("entered") \/ Top("moved")
  /\ ole' = [ole EXCEPT !.effect = IF Top("entered") THEN "none" ELSE ole.effect]
  /\ stack' = Tail(stack)
  /\ UNCHANGED <<runner, event_buffer, targets, panicked, drags, app>>
Answered ==
  /\ Top("entered") \/ Top("moved")
  /\ ole' = [ole EXCEPT !.effect =
               PickEffect(CurrentActions(TheEvent.id), Head(stack).keys, ole.allowed)]
  /\ stack' = Tail(stack)
  /\ UNCHANGED <<runner, event_buffer, targets, panicked, drags, app>>

\* A method that finds no active transfer says E_ABORT: OLE makes no such call.
Over(w) ==
  /\ Pumps /\ Quiet /\ ole # None /\ ole.over = w /\ active[w] # None
  /\ ole.own => Top("DoDragDrop")

DragOver(w) ==
  /\ Over(w) /\ ole.moves < Moves
  /\ ole' = [ole EXCEPT !.moves = @ + 1]
  /\ LET e == Event("DragPosition", w, active[w], Proposed(active[w], ole.allowed)) IN
     \E keys \in env.keys :
       SendEvent(e, Push([Frame("moved", e, None) EXCEPT !.keys = keys], stack))
  /\ UNCHANGED <<runner, targets, panicked, drags, app>>

DragLeave(w) ==
  /\ Over(w)
  /\ active' = [active EXCEPT ![w] = None]
  /\ LET e == Event("DragLeft", w, active[w], None)
     IN SendEvent(e, Push(Frame("left", e, None), stack))
  /\ UNCHANGED <<runner, registered, ids, panicked, world, app>>

LeaveEnds_Kept ==   \* mutant: the transfer is not removed
  /\ Top("left") /\ ~Held
  /\ ole' = [ole EXCEPT !.over = None, !.effect = "none"]
  /\ stack' = Tail(stack)
  /\ UNCHANGED <<runner, event_buffer, targets, panicked, drags, app>>
LeaveEnds ==
  /\ Top("left")
  /\ IF Held
     THEN Panic
     ELSE /\ RemoveDataTransfer(TheEvent.id)
          /\ ole' = [ole EXCEPT !.over = None, !.effect = "none"]
          /\ stack' = Tail(stack)
          /\ UNCHANGED <<source_drag, pending_drag, pending_source_drag_cleanup, event_buffer,
                         targets, panicked, drags, app>>

\* Drop up to its DragPosition. For OLE the drag is over: another may start.
Drop(w) ==
  /\ Over(w) /\ ole.effect # "none"
  /\ active' = [active EXCEPT ![w] = None]
  /\ ole' = None
  /\ LET e == Event("DragPosition", w, active[w], Proposed(active[w], ole.allowed)) IN
     \E keys \in env.keys :
       SendEvent(e, Push([Frame("decide", e, None) EXCEPT !.keys = keys, !.allowed = ole.allowed],
                         stack))
  /\ UNCHANGED <<runner, registered, ids, panicked, drags, app>>

\* The effect is settled first; it decides between DragDropped and DragLeft.
Decide_Dropped ==   \* mutant: DragDropped whatever the application set
  /\ Top("decide")
  /\ LET f == Head(stack)
         effect == PickEffect(CurrentActions(f.event.id), f.keys, f.allowed)
         e == Event("DragDropped", f.event.window, f.event.id, Proposed(f.event.id, f.allowed))
     IN SendEvent(e, Push(Frame("dropping", e, effect), Tail(stack)))
  /\ UNCHANGED <<runner, targets, panicked, world, app>>
Decide_Removed ==   \* mutant: the transfer goes before the application hears of the drop
  /\ Top("decide")
  /\ LET f == Head(stack)
         effect == PickEffect(CurrentActions(f.event.id), f.keys, f.allowed)
         e == IF effect = "none"
              THEN Event("DragLeft", f.event.window, f.event.id, None)
              ELSE Event("DragDropped", f.event.window, f.event.id, Proposed(f.event.id, f.allowed))
     IN SendEvent(e, Push(Frame("dropping", e, effect), Tail(stack)))
  /\ drag_state' = None
  /\ UNCHANGED <<source_drag, pending_drag, pending_source_drag_cleanup, targets, panicked, world, app>>
Decide ==
  /\ Top("decide")
  /\ LET f == Head(stack)
         effect == PickEffect(CurrentActions(f.event.id), f.keys, f.allowed)
         e == IF effect = "none"
              THEN Event("DragLeft", f.event.window, f.event.id, None)
              ELSE Event("DragDropped", f.event.window, f.event.id, Proposed(f.event.id, f.allowed))
     IN SendEvent(e, Push(Frame("dropping", e, effect), Tail(stack)))
  /\ UNCHANGED <<runner, targets, panicked, world, app>>

\* Drop ends: DoDragDrop, if it is the application's, learns the effect.
Report(effect, rest) ==
  IF rest # <<>> /\ Head(rest).op = "DoDragDrop"
  THEN Push([Head(rest) EXCEPT !.effect = effect], Tail(rest))
  ELSE rest
HeldBelow == \E i \in DOMAIN Tail(stack) : Tail(stack)[i].op = "dropping"

DropEnds_Deferred ==   \* mutant: always deferred
  /\ Top("dropping")
  /\ pending_source_drag_cleanup' = TheEvent.id
  /\ stack' = Report(Head(stack).effect, Tail(stack))
  /\ UNCHANGED <<drag_state, source_drag, pending_drag, event_buffer, targets, panicked, world, app>>
DropEnds ==
  /\ Top("dropping")
  /\ IF source_drag # None
     THEN /\ pending_source_drag_cleanup' = TheEvent.id
          /\ stack' = Report(Head(stack).effect, Tail(stack))
          /\ UNCHANGED <<drag_state, source_drag, pending_drag, event_buffer, targets, panicked,
                         world, app>>
     ELSE IF HeldBelow
     THEN Panic
     ELSE /\ RemoveDataTransfer(TheEvent.id)
          /\ stack' = Report(Head(stack).effect, Tail(stack))
          /\ UNCHANGED <<source_drag, pending_drag, pending_source_drag_cleanup, event_buffer,
                         targets, panicked, world, app>>

\* The drag ends away from every window.
EndsOutside ==
  /\ ole # None /\ ~ole.own /\ ole.over = None /\ Quiet
  /\ ole' = None
  /\ UNCHANGED <<runner, event_buffer, targets, panicked, stack, drags, app>>

\* WM_DESTROY and WM_NCDESTROY: RevokeDragDrop and the last Release, no DragLeave.
Destroy_NoRelease(w) ==   \* mutant: the transfer outlives the drop target
  /\ Pumps /\ env.drops /\ registered[w]
  /\ \A i \in DOMAIN stack : stack[i].op \in {"entered", "moved", "left", "decide", "dropping"} =>
       stack[i].event.window # w
  /\ registered' = [registered EXCEPT ![w] = FALSE]
  /\ active' = [active EXCEPT ![w] = None]
  /\ ole' = IF ole # None /\ ole.over = w THEN [ole EXCEPT !.over = None, !.effect = "none"] ELSE ole
  /\ UNCHANGED <<runner, event_buffer, ids, panicked, stack, drags, app>>
Destroy(w) ==
  /\ Pumps /\ env.drops /\ registered[w]
  /\ \A i \in DOMAIN stack : stack[i].op \in {"entered", "moved", "left", "decide", "dropping"} =>
       stack[i].event.window # w
  /\ registered' = [registered EXCEPT ![w] = FALSE]
  /\ active' = [active EXCEPT ![w] = None]
  /\ IF active[w] = None THEN UNCHANGED drag_state ELSE ~Held /\ RemoveDataTransfer(active[w])
  /\ ole' = IF ole # None /\ ole.over = w THEN [ole EXCEPT !.over = None, !.effect = "none"] ELSE ole
  /\ UNCHANGED <<source_drag, pending_drag, pending_source_drag_cleanup, event_buffer, ids,
                 panicked, stack, drags, app>>

----
(* The application's own drags: try_execute_drag_drop. *)

\* A window message: the application handles an event of the window, and at its
\* end the window procedure starts the drag that was asked for.
WindowMessage(w) ==
  /\ Pumps /\ registered[w] /\ Len(event_buffer) < Calls
  /\ SendEvent(Event("other", w, 0, None), Push(Frame("try_drag", Event("other", w, 0, None), None), stack))
  /\ UNCHANGED <<runner, targets, panicked, world, app>>

\* A DoDragDrop inside the one that runs fails, as one may at any time.
TryExecuteDragDrop ==
  /\ Top("try_drag")
  /\ IF pending_drag = None
     THEN stack' = Tail(stack) /\ UNCHANGED <<source_drag, pending_drag, ole>>
     ELSE /\ pending_drag' = None /\ source_drag' = pending_drag.id
          /\ LET call == Frame("DoDragDrop", Event("outgoing", TheEvent.window, pending_drag.id, None), None)
             IN \/ /\ ole = None
                   /\ ole' = [own |-> TRUE, allowed |-> pending_drag.allowed, over |-> None,
                              effect |-> "none", moves |-> 0]
                   /\ stack' = Push(call, Tail(stack))
                \/ /\ ole # None \/ env.fails
                   /\ stack' = Push([call EXCEPT !.op = "clear"], Tail(stack))
                   /\ UNCHANGED ole
  /\ UNCHANGED <<drag_state, pending_source_drag_cleanup, event_buffer, targets, panicked, drags, app>>

\* DRAGDROP_S_DROP with the effect of the target, here or elsewhere, or
\* DRAGDROP_S_CANCEL; source_drag is cleared last.
DoDragDropReturns_Silent ==   \* mutant: a cancelled drag is not reported
  /\ Top("DoDragDrop")
  /\ LET e == TheEvent
         Clear == Push([Head(stack) EXCEPT !.op = "clear"], Tail(stack))
     IN \/ /\ Head(stack).effect # None
           /\ SendEvent([e EXCEPT !.kind = "OutgoingDragDropped", !.action = Head(stack).effect], Clear)
           /\ UNCHANGED ole
        \/ /\ Head(stack).effect = None /\ ole.over = None
           /\ ole' = None /\ stack' = Clear /\ UNCHANGED event_buffer
  /\ UNCHANGED <<runner, targets, panicked, drags, app>>
DoDragDropReturns ==
  /\ Top("DoDragDrop")
  /\ LET e == TheEvent
         Clear == Push([Head(stack) EXCEPT !.op = "clear"], Tail(stack))
     IN \/ /\ Head(stack).effect # None
           /\ SendEvent([e EXCEPT !.kind = "OutgoingDragDropped", !.action = Head(stack).effect], Clear)
           /\ UNCHANGED ole
        \/ /\ Head(stack).effect = None /\ ole.over = None
           /\ ole' = None
           /\ \/ SendEvent([e EXCEPT !.kind = "OutgoingDragCanceled"], Clear)
              \/ \E effect \in ole.allowed \cup {"none"} :
                   SendEvent([e EXCEPT !.kind = "OutgoingDragDropped", !.action = effect], Clear)
  /\ UNCHANGED <<runner, targets, panicked, drags, app>>

ClearOnDrop_Not ==   \* mutant: the flag stays
  /\ Top("clear") /\ stack' = Tail(stack)
  /\ UNCHANGED <<runner, event_buffer, targets, panicked, world, app>>
ClearOnDrop ==
  /\ Top("clear")
  /\ source_drag' = None /\ stack' = Tail(stack)
  /\ UNCHANGED <<drag_state, pending_drag, pending_source_drag_cleanup, event_buffer, targets,
                 panicked, world, app>>

----
(* The runner and the application. *)

\* dispatch_buffered_events, and the removal that waited for it.
Drain_Kept ==   \* mutant: the deferred removal is forgotten
  /\ Top("drain")
  /\ IF event_buffer # <<>>
     THEN stack' = Push(Callback(Head(event_buffer)), stack) /\ event_buffer' = Tail(event_buffer)
     ELSE stack' = Tail(stack) /\ UNCHANGED event_buffer
  /\ UNCHANGED <<runner, targets, panicked, world, app>>
Drain ==
  /\ Top("drain")
  /\ IF event_buffer # <<>>
     THEN /\ stack' = Push(Callback(Head(event_buffer)), stack)
          /\ event_buffer' = Tail(event_buffer)
          /\ UNCHANGED <<drag_state, pending_source_drag_cleanup>>
     ELSE /\ stack' = Tail(stack)
          /\ pending_source_drag_cleanup' = None
          /\ IF pending_source_drag_cleanup = None
             THEN UNCHANGED drag_state
             ELSE ~Held /\ RemoveDataTransfer(pending_source_drag_cleanup)
          /\ UNCHANGED event_buffer
  /\ UNCHANGED <<source_drag, pending_drag, targets, panicked, world, app>>

Calling(kinds) == Top("callback") /\ TheEvent.kind \in kinds /\ calls < Calls /\ calls' = calls + 1

SetValidDndActions ==
  /\ Calling(env.answers)
  /\ IF Held
     THEN panicked' = TRUE /\ UNCHANGED <<drag_state, answer>>
     ELSE /\ Known(TheEvent.id) /\ UNCHANGED panicked
          /\ \E actions \in Preferences :
               drag_state' = [drag_state EXCEPT !.actions = actions] /\ answer' = actions
  /\ UNCHANGED <<source_drag, pending_drag, pending_source_drag_cleanup, event_buffer, targets,
                 stack, world, env, waiting>>

\* The data was read when the drag entered: it comes with the next event.
FetchDataTransfer ==
  /\ Calling(env.fetches) /\ Known(TheEvent.id)
  /\ event_buffer' = Append(event_buffer,
       Event("DataTransferReceived", drag_state.window, TheEvent.id, None))
  /\ UNCHANGED <<runner, targets, panicked, stack, world, env, answer, waiting>>

StartDrag ==
  /\ Calling({"other"}) /\ drags < Drags /\ "own" \in env.sources
  /\ env.patient => waiting = {} /\ ole = None
  /\ \E offered \in Offers :
       pending_drag' = [id |-> ids + 1, allowed |-> offered]
  /\ ids' = ids + 1 /\ drags' = drags + 1 /\ waiting' = waiting \cup {ids + 1}
  /\ UNCHANGED <<drag_state, source_drag, pending_source_drag_cleanup, event_buffer, active,
                 registered, panicked, stack, ole, env, answer>>

Returned ==
  /\ Top("callback") /\ stack' = Tail(stack)
  /\ waiting' = IF TheEvent.kind \in {"OutgoingDragDropped", "OutgoingDragCanceled"}
                THEN waiting \ {TheEvent.id} ELSE waiting
  /\ UNCHANGED <<runner, event_buffer, targets, panicked, world, env, calls, answer>>

Continues == Answered \/ LeaveEnds \/ Decide \/ DropEnds \/ TryExecuteDragDrop \/ ClearOnDrop \/ Drain
LetGo == DoDragDropReturns \/ EndsOutside

Next ==
  \/ Begins \/ LetGo \/ Continues
  \/ \E w \in Windows :
       DragEnter(w) \/ DragOver(w) \/ DragLeave(w) \/ Drop(w) \/ Destroy(w) \/ WindowMessage(w)
  \/ SetValidDndActions \/ FetchDataTransfer \/ StartDrag \/ Returned

\* Calls end, callbacks return, and the user lets go of what is dragged.
Fairness ==
  /\ WF_vars(Continues) /\ WF_vars(Returned)
  /\ SF_vars(\E w \in Windows : DragLeave(w)) /\ SF_vars(LetGo)

Spec == Init /\ [][Next]_vars /\ Fairness

----

TypeOK ==
  /\ \A i \in DOMAIN stack : stack[i].op \in
       {"callback", "drain", "entered", "moved", "left", "decide", "dropping", "try_drag",
        "DoDragDrop", "clear"}
  /\ ids \in Nat /\ waiting \subseteq 1 .. ids /\ answer \in Preferences
  /\ drag_state # None => drag_state.id \in 1 .. ids /\ drag_state.actions \in Preferences

\* While the application handles an event of a drag over its window, the transfer
\* is there to be read and fetched, also when the drag is its own and the drop has
\* been carried out (runner.rs:86, core event_loop/mod.rs:221).
Reachable ==
  Top("callback") /\ TheEvent.kind \in {"DragEntered", "DragPosition", "DragDropped"} =>
    Known(TheEvent.id)

\* The effect OLE was told is one the application set, last of all, and the source
\* allows; it is none only where there is no such action.
Negotiated ==
  Quiet /\ ~panicked /\ ole # None /\ ole.over # None =>
    LET common == ToSet(answer) \cap ole.allowed
    IN IF common = {} THEN ole.effect = "none" ELSE ole.effect \in common

\* Source and target learn the same of a drop: the target hears of DragDropped
\* exactly where OLE, and so the source, gets an effect (dnd.rs:660).
Agreed ==
  \A i \in DOMAIN stack : stack[i].op = "dropping" =>
    (stack[i].effect = "none") = (stack[i].event.kind = "DragLeft")

\* With no call under way, no drag and no own drag waiting to start, nothing is kept.
NothingLeft ==
  stack = <<>> /\ ole = None /\ ~panicked =>
    /\ drag_state = None /\ pending_source_drag_cleanup = None /\ event_buffer = <<>>
    /\ source_drag = None /\ \A w \in Windows : active[w] = None

\* A drag is taken for the application's own exactly while it is.
OwnIsOwn == (source_drag # None) =
  (\E i \in DOMAIN stack : stack[i].op \in {"DoDragDrop", "clear"})

\* The action the target is told at the drop is the one the source is told
\* (event.rs:129 "... and the held modifier keys").
SameAction ==
  \A i \in DOMAIN stack :
    stack[i].op = "dropping" /\ stack[i].event.kind = "DragDropped" =>
      stack[i].event.action = stack[i].effect

NoPanic == ~panicked

\* A drop is settled alike for OLE, for the target and for the source.
DropSettled == Negotiated /\ Agreed

\* A transfer lives as long as there is something to read, and no longer.
TransferLives == Reachable /\ NothingLeft /\ OwnIsOwn

\* Every drag the application started ends in an OutgoingDragDropped or
\* OutgoingDragCanceled, and everything fetched is received.
OutgoingHeard == waiting # {} /\ pending_drag = None ~> waiting = {}
Received == event_buffer # <<>> ~> event_buffer = <<>>
Heard == OutgoingHeard /\ Received
====
