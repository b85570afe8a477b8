---- MODULE X11Dnd ----
(*
Incoming drags on X11: the XDND handlers of EventProcessor and the
fetch queue of dnd.rs. One conversion is asked of the source at a time;
the others wait in pending_fetch_types, and the handler of each
SelectionNotify asks for the next one. All answers arrive in the same
property of the window, whoever wrote it.

External: the drag sources, which follow XDND (a position waits for the
status of the one before, a drop for an accepted one), and the server.
*)
EXTENDS Naturals, Sequences, FiniteSets, SequencesExt

CONSTANTS
  Types, None,
  Drags, Moves, Fetches,   \* bounds: drags, positions of each, fetches in all
  Environments

Kinds == {"DragEntered", "DragPosition", "DragDropped", "DataTransferReceived",
          "DragLeft", "other"}

\* What the variables hold, beside None.
Sources == 1 .. Drags
Contents == [source : 0 .. Drags, type : Types]
Queued == [serial : Nat, type : Types]
DragStates == [id : Nat, source_window : 0 .. Drags, pending_fetch_types : Seq(Queued),
               finished : (0 .. Drags) \union {None}, accepted : BOOLEAN]
Callbacks == [kind : Kinds, id : Nat, serial : Nat, content : Contents \union {None}]
Messages == [kind : {"enter", "position", "leave", "drop", "notify", "refusal"},
             source : 0 .. Drags, type : Types \union {None}]

\* refuses: the types the sources will not convert. hasty: a drag starts while messages
\* of the last one, or its conversions, are outstanding, or its drop is not finished. fetches: the
\* events in whose callback the application fetches. drops: when it drops the window,
\* between drags or at any time.
ASSUME X11DndAssumption ==
  /\ Drags \in Nat /\ Moves \in Nat /\ Fetches \in Nat
  /\ None \notin Nat /\ None \notin Types /\ None \notin Contents
  /\ None \notin DragStates /\ None \notin Callbacks
  /\ None \notin [kind : Kinds, id : Nat, serial : Nat]
  /\ Environments \subseteq [refuses : SUBSET Types, hasty : BOOLEAN,
                             fetches : SUBSET Kinds, drops : {"between", "anytime"}]

VARIABLES
  state,     \* Dnd::state: the DragState, or None
  ids,       \* DATA_TRANSFER_ID
  inside,    \* the callback the application is in, or None
  panicked,
  exists,    \* the window does
  asked,     \* history: the fetches that gave a serial, [id, type]
  env,
  phase,     \* of each drag: "none", "over", "left", "dropped", "finished"
  current,   \* the drag under way: who owns the selection
  status, moves,       \* the last XdndStatus it got, its positions
  wire,      \* X events to the window
  requests,  \* conversions asked of the sources: [source, type]
  property   \* the content of XdndSelection on the window, or None

app == <<ids, inside, panicked, exists, asked>>
source == <<phase, current, status, moves>>
world == <<wire, requests, property, env>>
vars == <<state, app, source, world>>

Init ==
  /\ state = None /\ ids = 0 /\ inside = None /\ panicked = FALSE /\ exists = TRUE
  /\ asked = <<>> /\ env \in Environments
  /\ phase = [d \in Sources |-> "none"] /\ current = 0
  /\ status = "rejected" /\ moves = 0
  /\ wire = <<>> /\ requests = <<>> /\ property = None

Callback(kind, id) == [kind |-> kind, id |-> id, serial |-> 0, content |-> None]

----
(* The sources and the server. *)

Message(kind, type) == [kind |-> kind, source |-> current, type |-> type]
Tell(kind) == wire' = Append(wire, Message(kind, None))

Enter ==
  /\ current < Drags /\ exists
  /\ current > 0 =>
       /\ phase[current] \in {"left", "finished"} \/ (env.hasty /\ phase[current] = "dropped")
       /\ (requests = <<>> /\ wire = <<>>) \/ env.hasty
  /\ current' = current + 1
  /\ phase' = [phase EXCEPT ![current + 1] = "over"]
  /\ wire' = Append(wire, [kind |-> "enter", source |-> current + 1, type |-> None])
  /\ status' = "rejected" /\ moves' = 0
  /\ UNCHANGED <<state, app, requests, property, env>>

Over == current > 0 /\ phase[current] = "over"

Move ==
  /\ Over /\ status # "waiting" /\ moves < Moves
  /\ moves' = moves + 1 /\ status' = "waiting"
  /\ Tell("position")
  /\ UNCHANGED <<state, app, phase, current, requests, property, env>>

Leave ==
  /\ Over
  /\ phase' = [phase EXCEPT ![current] = "left"]
  /\ Tell("leave")
  /\ UNCHANGED <<state, app, current, status, moves, requests, property, env>>

Release ==
  /\ Over /\ status = "accepted"
  /\ phase' = [phase EXCEPT ![current] = "dropped"]
  /\ Tell("drop")
  /\ UNCHANGED <<state, app, current, status, moves, requests, property, env>>

\* A source converts, or says that it does not, in the order it was asked.
Answer ==
  \E i \in DOMAIN requests :
    LET r == requests[i]
        refused == r.type \in env.refuses
    IN /\ \A j \in 1 .. i - 1 : requests[j].source # r.source
       /\ requests' = RemoveAt(requests, i)
       /\ property' = IF refused THEN property ELSE r
       /\ wire' = Append(wire, [kind |-> IF refused THEN "refusal" ELSE "notify",
                                source |-> r.source, type |-> r.type])
       /\ UNCHANGED <<state, app, source, env>>

----
(* The application. *)

\* With the id of another transfer, the current one's queue would be used.
KnownAny(id) == state # None  \* mutant
Known(id) == state # None /\ state.id = id

convert_selection(type) == Append(requests, [source |-> current, type |-> type])

\* fetch_data_transfer: asked at once if nothing else is.
Fetch(id, type) ==
  /\ Known(id) /\ Len(asked) < Fetches
  /\ asked' = Append(asked, [id |-> id, type |-> type])
  /\ state' = [state EXCEPT !.pending_fetch_types =
                              Append(@, [serial |-> Len(asked) + 1, type |-> type])]
  /\ requests' = IF state.pending_fetch_types = <<>> THEN convert_selection(type)
                 ELSE requests
  /\ UNCHANGED <<ids, inside, panicked, exists, source, wire, property, env>>

set_valid_dnd_actions(id, accepted) ==
  /\ Known(id) /\ state.accepted # accepted
  /\ state' = [state EXCEPT !.accepted = accepted]
  /\ UNCHANGED <<app, source, world>>

DropWindow ==
  /\ exists /\ exists' = FALSE
  /\ env.drops = "between" => state = None /\ wire = <<>> /\ ~Over
  /\ UNCHANGED <<state, ids, inside, panicked, asked, source, world>>

Call ==
  /\ inside # None /\ ~panicked
  /\ \/ DropWindow
     \/ \E id \in 1 .. ids :
          \/ inside.kind \in env.fetches /\ \E type \in Types : Fetch(id, type)
          \/ \E accepted \in BOOLEAN : set_valid_dnd_actions(id, accepted)

\* A callback of the loop that is about something else.
OtherCallback ==
  /\ inside = None /\ ~panicked /\ "other" \in env.fetches /\ Len(asked) < Fetches
  /\ state # None
  /\ inside' = Callback("other", 0)
  /\ UNCHANGED <<state, ids, panicked, exists, asked, source, world>>

----
(* EventProcessor::client_message and selection_notify: the head of the wire. *)

Handle(kind) ==
  /\ inside = None /\ ~panicked
  /\ wire # <<>> /\ Head(wire).kind = kind
  /\ wire' = Tail(wire)
  /\ UNCHANGED <<exists, asked, requests, property, env, phase, current, moves>>

XdndEnter ==
  /\ Handle("enter")
  /\ ids' = ids + 1
  /\ state' = [id |-> ids + 1, source_window |-> Head(wire).source,
               pending_fetch_types |-> <<>>, finished |-> None, accepted |-> FALSE]
  /\ inside' = Callback("DragEntered", ids + 1)
  /\ UNCHANGED <<panicked, status>>

\* translate_coords is asked before the state is looked at, and must not fail. The
\* status tells what the application said before it hears of this position.
XdndPosition ==
  /\ Handle("position")
  /\ panicked' = ~exists
  /\ IF exists /\ state # None
     THEN /\ inside' = Callback("DragPosition", state.id)
          /\ status' = IF Head(wire).source # current THEN status
                       ELSE IF state.accepted THEN "accepted" ELSE "rejected"
     ELSE UNCHANGED <<inside, status>>
  /\ UNCHANGED <<state, ids>>

XdndDrop ==
  /\ Handle("drop")
  /\ inside' = IF state = None THEN None ELSE Callback("DragDropped", state.id)
  /\ UNCHANGED <<state, ids, panicked, status>>

XdndLeave ==
  /\ Handle("leave")
  /\ inside' = IF state = None THEN None ELSE Callback("DragLeft", state.id)
  /\ state' = None
  /\ UNCHANGED <<ids, panicked, status>>

\* Dnd::read_data: the property must have the type that is expected.
Reads(type) == exists /\ property # None /\ property.type = type

Pending == state # None /\ state.pending_fetch_types # <<>>

\* A refusal has no property and ends here; an answer to no fetch too.
Nothing ==
  /\ \/ Handle("refusal")
     \/ Handle("notify") /\ ~Pending
  /\ UNCHANGED <<state, ids, inside, panicked, status>>

\* The oldest fetch takes what the property holds; on an error nothing follows.
SelectionNotify ==
  /\ Handle("notify")
  /\ Pending
  /\ LET fetch == Head(state.pending_fetch_types)
     IN inside' = IF Reads(fetch.type)
                  THEN [kind |-> "DataTransferReceived", id |-> state.id,
                        serial |-> fetch.serial, content |-> property]
                  ELSE None
  /\ state' = [state EXCEPT !.pending_fetch_types = Tail(@)]
  /\ UNCHANGED <<ids, panicked, status>>

----
(* The ends of the handlers, after the callback. *)

Return(kinds) ==
  /\ inside # None /\ inside.kind \in kinds /\ ~panicked
  /\ inside' = None
  /\ UNCHANGED <<ids, panicked, exists, asked, current, status, moves,
                 wire, property, env>>

ReturnPlain ==
  /\ Return({"DragEntered", "DragPosition", "DragLeft", "other"})
  /\ UNCHANGED <<state, phase, requests>>

\* send_finished and reset_state, although fetches wait.
NeverWaits == FALSE  \* mutant
Waiting == Pending

send_finished(d) ==
  /\ phase' = [phase EXCEPT ![d] = IF @ = "dropped" THEN "finished" ELSE @]
  /\ state' = None

\* After DragDropped: not finished while fetches wait.
ReturnDropped ==
  /\ Return({"DragDropped"})
  /\ IF Waiting
     THEN /\ state' = [state EXCEPT !.finished = state.source_window]
          /\ UNCHANGED phase
     ELSE send_finished(state.source_window)
  /\ UNCHANGED requests

\* The next fetch is not asked for.
AsksNothing == FALSE  \* mutant
AsksNext == Pending

FinishNow == state # None /\ state.finished # None

\* After DataTransferReceived: ask for the next, or finish the drop.
ReturnReceived ==
  /\ Return({"DataTransferReceived"})
  /\ \/ /\ AsksNext
        /\ requests' = convert_selection(Head(state.pending_fetch_types).type)
        /\ UNCHANGED <<state, phase>>
     \/ /\ ~AsksNext /\ FinishNow
        /\ send_finished(state.finished)
        /\ UNCHANGED requests
     \/ /\ ~AsksNext /\ ~FinishNow
        /\ UNCHANGED <<state, phase, requests>>

Handlers ==
  \/ XdndEnter \/ XdndPosition \/ XdndDrop \/ XdndLeave \/ Nothing \/ SelectionNotify
Returns == ReturnPlain \/ ReturnDropped \/ ReturnReceived
Drag == Enter \/ Move \/ Leave \/ Release
Next == Drag \/ Answer \/ Call \/ OtherCallback \/ Handlers \/ Returns

Spec == Init /\ [][Next]_vars

\* Each iteration of the loop drains the X events, whatever other callbacks it makes;
\* callbacks return, sources answer what they are asked. Nobody has to move, leave or
\* release.
Fairness ==
  /\ SF_vars(Handlers) /\ WF_vars(Returns) /\ WF_vars(Answer)

----
TypeOK ==
  /\ state \in DragStates \union {None} /\ ids \in Nat
  /\ inside \in Callbacks \union {None} /\ panicked \in BOOLEAN /\ exists \in BOOLEAN
  /\ asked \in Seq([id : Nat, type : Types]) /\ env \in Environments
  /\ phase \in [Sources -> {"none", "over", "left", "dropped", "finished"}]
  /\ current \in 0 .. Drags /\ status \in {"waiting", "accepted", "rejected"}
  /\ moves \in Nat /\ wire \in Seq(Messages)
  /\ requests \in Seq(Contents) /\ property \in Contents \union {None}

\* What fetch_data_transfer was asked for is what DataTransferReceived brings: the
\* type of that serial, written by the source of that transfer, though all answers
\* are read from one property (dnd.rs read_data, selection_notify).
AnswerMatches ==
  inside # None /\ inside.kind = "DataTransferReceived" =>
    /\ asked[inside.serial].id = inside.id
    /\ inside.content = [source |-> inside.id, type |-> asked[inside.serial].type]

\* The contract of winit-core: the order of a transfer's events, each fetch answered
\* once and in order, the end of a drop after the last answer.
Stage == [t \in Sources |->
            IF Known(t)
            THEN IF state.finished # None \/ (inside # None /\ inside.kind = "DragDropped")
                 THEN "dropped" ELSE "over"
            ELSE IF t <= ids THEN "ended" ELSE "none"]
Unanswered == IF state = None THEN <<>>
              ELSE [i \in DOMAIN state.pending_fetch_types |->
                      [kind |-> "fetch", id |-> state.id,
                       serial |-> state.pending_fetch_types[i].serial]]
Event == IF inside = None THEN None
         ELSE [kind |-> inside.kind, id |-> inside.id, serial |-> inside.serial]

Transfer == INSTANCE DataTransfer WITH
  Transfers <- Sources, stage <- Stage, waiting <- Unanswered, event <- Event

Contract == Transfer!Spec

Waits(n) == Pending /\ \E i \in DOMAIN state.pending_fetch_types :
                          state.pending_fetch_types[i].serial = n

Refused == \E n \in DOMAIN asked : asked[n].type \in env.refuses

\* No fetch waits for ever, unless the source refused one: the conversions are asked
\* one after the other, each from the handler of the answer before.
FetchAnswered == \A n \in 1 .. Fetches : Waits(n) ~> ~Waits(n) \/ Refused

\* A source that dropped hears XdndFinished, also when fetches were outstanding: it
\* keeps its data until then.
DropFinished ==
  \A d \in Sources : phase[d] = "dropped" ~> phase[d] = "finished" \/ Refused

\* Neither the application nor the source of a drop is left waiting.
NobodyWaits == FetchAnswered /\ DropFinished

\* What fetch_data_transfer says (winit-core event_loop/mod.rs:221): data that can be
\* converted is supplied, also when the source refuses another type.
ConvertibleAnswered ==
  \A n \in 1 .. Fetches :
    Waits(n) /\ asked[n].type \notin env.refuses ~> ~Waits(n)

\* What set_valid_dnd_actions says (winit-core event_loop/mod.rs:250): a drag that is
\* rejected when the user lets go gives DragLeft instead of DragDropped.
RejectedLeaves ==
  [][inside' # inside /\ inside' # None => (inside'.kind = "DragDropped" => state.accepted)]_vars

\* translate_coords is told to succeed.
NoPanic == ~panicked
====
