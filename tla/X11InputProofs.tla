---- MODULE X11InputProofs ----
(*
Incoming drags on X11: each answer is that of its fetch, and the
handlers implement the contract of winit-core (DataTransfer).

The invariant is InOrder. All answers are read from one property of the
window, so that what makes the oldest fetch the one that is answered is
that at most one conversion is under way (Single), that it is the one
at the head of the queue (Awaited), that the wire holds the messages of
the current drag in their order (Wired), and that the state is that of
this drag (Owned). A fetch in the callback of an answer, or a drag that
starts while the last one is outstanding, breaks the first: the
theorems are about environments that do neither.

And input methods on X11: they are replaced without harm, contexts
follow the requests (Held), and what is taken for a composition is one
(Sane). The first two need Xlib to tell of the end of a server before
anything else happens and no window to go with its context while the
server does (Calm); the last also that nothing else happens to windows,
servers and the focus while one composes (Sober).
*)
EXTENDS MCX11Input, SequenceTheorems, TLAPS

(* The invariant. *)

Answers == {"notify", "refusal"}
Carries(kind) == \E i \in DOMAIN wire : wire[i].kind = kind

Polite == ~env.hasty /\ "DataTransferReceived" \notin env.fetches

Inside(kind) == inside # None /\ inside.kind = kind

\* At most one conversion is under way, and what it is for is known.
Asks(source_, type) ==
  \/ \E i \in DOMAIN requests : requests[i].source = source_ /\ requests[i].type = type
  \/ \E i \in DOMAIN wire : /\ wire[i].kind \in Answers
                            /\ wire[i].source = source_ /\ wire[i].type = type
Single ==
  /\ Len(requests) <= 1
  /\ requests # <<>> => \A i \in DOMAIN wire : wire[i].kind \notin Answers
  /\ \A i, j \in DOMAIN wire : wire[i].kind \in Answers /\ wire[j].kind \in Answers => i = j
  /\ \A i \in DOMAIN wire : wire[i].kind = "notify" =>
        property = [source |-> wire[i].source, type |-> wire[i].type]
  /\ \A i \in DOMAIN wire : wire[i].kind \in Answers => wire[i].type \in Types
Awaited ==
  \A z \in 0 .. Drags, y \in Types : Asks(z, y) =>
     /\ ~Carries("enter")
     /\ state # None =>
        /\ state.pending_fetch_types # <<>> /\ Head(state.pending_fetch_types).type = y
        /\ z = state.id /\ ~Inside("DataTransferReceived")
\* The messages of a drag.
Wired ==
  /\ \A i \in DOMAIN wire : wire[i].kind = "enter" =>
        i = 1 /\ state = None /\ wire[i].source = current /\ ids = current - 1
  /\ ~Carries("enter") => ids = current
  /\ Carries("enter") => /\ current \in Sources /\ phase[current] \in {"over", "left", "dropped"}
                         /\ phase[current] = "left" => Carries("leave")
  /\ current = 0 => wire = <<>> /\ requests = <<>>
  /\ \A i, j \in DOMAIN wire : i < j /\ wire[i].kind \in {"leave", "drop"} => wire[j].kind \in Answers
  /\ Carries("leave") => current > 0 /\ phase[current] = "left"
  /\ Carries("drop") => current > 0 /\ phase[current] = "dropped"
Owned ==
  /\ state # None =>
       /\ state.id = ids /\ state.source_window = ids /\ ids \in Sources /\ ids = current
       /\ phase[ids] \in {"over", "left", "dropped"}
       /\ phase[ids] = "left" => Carries("leave")
       /\ state.finished \in {None, ids}
       /\ \A i \in DOMAIN state.pending_fetch_types :
            LET p == state.pending_fetch_types[i]
            IN  p.serial \in DOMAIN asked /\ asked[p.serial] = [id |-> ids, type |-> p.type]
       /\ state.finished # None \/ Inside("DragDropped") =>
            /\ phase[ids] = "dropped"
            /\ \A i \in DOMAIN wire : wire[i].kind \in Answers
  /\ Inside("DragDropped") => state # None /\ inside.id = ids
  /\ Inside("DataTransferReceived") => state # None /\ inside.id = ids /\ inside.serial \in DOMAIN asked /\ AnswerMatches

InOrder == Single /\ Awaited /\ Wired /\ Owned
Placed == ~exists => state = None /\ ~Carries("enter")

\* What is left of a sequence, and what the head of it was.
LEMMA TailIs ==
  ASSUME NEW S, NEW s \in Seq(S), s # <<>>
  PROVE  /\ Tail(s) \in Seq(S) /\ Head(s) \in S /\ Head(s) = s[1]
         /\ Len(s) \in Nat \ {0} /\ DOMAIN s = 1 .. Len(s)
         /\ DOMAIN Tail(s) = 1 .. Len(s) - 1 /\ Len(Tail(s)) = Len(s) - 1
         /\ \A i \in DOMAIN Tail(s) : i + 1 \in DOMAIN s /\ Tail(s)[i] = s[i + 1]
         /\ \A i \in DOMAIN s : i = 1 \/ (i - 1 \in DOMAIN Tail(s) /\ Tail(s)[i - 1] = s[i])
OBVIOUS

\* A sequence and one element more.
LEMMA AppendIs ==
  ASSUME NEW S, NEW s \in Seq(S), NEW e \in S
  PROVE  /\ Append(s, e) \in Seq(S)
         /\ Len(s) \in Nat /\ DOMAIN s = 1 .. Len(s)
         /\ Len(Append(s, e)) = Len(s) + 1
         /\ DOMAIN Append(s, e) = 1 .. Len(s) + 1
         /\ \A i \in DOMAIN s : Append(s, e)[i] = s[i]
         /\ Append(s, e)[Len(s) + 1] = e
         /\ s # <<>> => Head(Append(s, e)) = Head(s)
         /\ s = <<>> => Head(Append(s, e)) = e
OBVIOUS

\* A sequence without one of its elements.
LEMMA RemoveType ==
  ASSUME NEW S, NEW s \in Seq(S), NEW i \in DOMAIN s
  PROVE  /\ RemoveAt(s, i) \in Seq(S)
         /\ Len(s) <= 1 => RemoveAt(s, i) = <<>>
<1>1. SubSeq(s, 1, i - 1) \in Seq(S) /\ SubSeq(s, i + 1, Len(s)) \in Seq(S)
  OBVIOUS
<1>2. RemoveAt(s, i) \in Seq(S)
  BY <1>1 DEF RemoveAt
<1>3. ASSUME Len(s) <= 1 PROVE RemoveAt(s, i) = <<>>
  <2>1. i = 1 /\ Len(s) = 1
    <3>1. DOMAIN s = 1 .. Len(s) /\ Len(s) \in Nat
      OBVIOUS
    <3> QED BY <1>3, <3>1
  <2>2. SubSeq(s, 1, 0) = <<>> /\ SubSeq(s, 2, 1) = <<>>
    OBVIOUS
  <2> QED BY <2>1, <2>2 DEF RemoveAt
<1> QED BY <1>2, <1>3

\* The first states are typed.
LEMMA InitType == Init => TypeOK
<1>1. <<>> \in Seq([id : Nat, type : Types]) /\ <<>> \in Seq(Messages) /\ <<>> \in Seq(Contents)
  OBVIOUS
<1> SUFFICES ASSUME Init PROVE TypeOK
  OBVIOUS
<1>2. phase \in [Sources -> {"none", "over", "left", "dropped", "finished"}]
  BY DEF Init
<1>3. /\ asked \in Seq([id : Nat, type : Types]) /\ wire \in Seq(Messages)
      /\ requests \in Seq(Contents)
  BY <1>1 DEF Init
<1>4. ids \in Nat /\ current \in 0 .. Drags /\ moves \in Nat
  BY X11DndAssumption DEF Init
<1>5. /\ state \in DragStates \union {None} /\ inside \in Callbacks \union {None}
      /\ property \in Contents \union {None}
  BY DEF Init
<1>6. /\ panicked \in BOOLEAN /\ exists \in BOOLEAN /\ env \in Environments
      /\ status \in {"waiting", "accepted", "rejected"}
  BY DEF Init
<1> QED BY <1>2, <1>3, <1>4, <1>5, <1>6 DEF TypeOK

\* Every step keeps the types.
LEMMA NextType == TypeOK /\ [Next]_vars => TypeOK'
<1> SUFFICES ASSUME TypeOK, [Next]_vars PROVE TypeOK'
  OBVIOUS
<1> USE X11DndAssumption DEF TypeOK
<1>1. /\ wire # <<>> => Tail(wire) \in Seq(Messages) /\ Head(wire) \in Messages
      /\ state # None => state \in DragStates
      /\ inside # None => inside \in Callbacks
  BY TailIs
<1>2. ASSUME NEW m \in Messages PROVE Append(wire, m) \in Seq(Messages)
  BY AppendIs
<1>3. ASSUME NEW kind \in {"enter", "position", "leave", "drop", "notify", "refusal"}, Tell(kind)
      PROVE  wire' \in Seq(Messages)
  BY <1>2, <1>3 DEF Tell, Message, Messages
<1>4. CASE Enter
  <2>1. wire' \in Seq(Messages)
    BY <1>2, <1>4 DEF Enter, Messages
  <2>2. current' \in 0 .. Drags
    BY <1>4 DEF Enter
  <2> QED BY <1>4, <2>1, <2>2 DEF Enter, app
<1>5. CASE Move \/ Leave \/ Release
  <2>1. wire' \in Seq(Messages)
    BY <1>3, <1>5 DEF Move, Leave, Release
  <2>2. CASE Move
    BY <2>1, <2>2 DEF Move, app
  <2>3. CASE Leave
    BY <2>1, <2>3 DEF Leave, app
  <2>4. CASE Release
    BY <2>1, <2>4 DEF Release, app
  <2> QED BY <1>5, <2>2, <2>3, <2>4
<1>6. CASE Answer
  <2>1. PICK i \in DOMAIN requests :
          LET r == requests[i]
              refused == r.type \in env.refuses
          IN /\ requests' = RemoveAt(requests, i)
             /\ property' = IF refused THEN property ELSE r
             /\ wire' = Append(wire, [kind |-> IF refused THEN "refusal" ELSE "notify",
                                      source |-> r.source, type |-> r.type])
             /\ UNCHANGED <<state, app, source, env>>
    BY <1>6 DEF Answer
  <2>2. requests[i] \in Contents /\ requests' \in Seq(Contents)
    BY <2>1, RemoveType
  <2>3. wire' \in Seq(Messages) /\ property' \in Contents \union {None}
    BY <1>2, <2>1, <2>2 DEF Contents, Messages
  <2> QED BY <2>1, <2>2, <2>3 DEF app, source
<1>7. CASE Call
  <2>1. CASE DropWindow
    BY <2>1 DEF DropWindow, source, world
  <2>2. ASSUME NEW id \in 1 .. ids, NEW type \in Types, Fetch(id, type)
        PROVE  TypeOK'
    <3>1. asked' \in Seq([id : Nat, type : Types])
      BY <2>2, AppendIs DEF Fetch
    <3>2. state' \in DragStates
      <4>1. [serial |-> Len(asked) + 1, type |-> type] \in Queued
        BY DEF Queued
      <4>2. Append(state.pending_fetch_types, [serial |-> Len(asked) + 1, type |-> type]) \in Seq(Queued)
        BY <1>1, <2>2, <4>1, AppendIs DEF Fetch, Known, DragStates
      <4> QED BY <1>1, <2>2, <4>2 DEF Fetch, Known, DragStates
    <3>3. requests' \in Seq(Contents)
      <4>1. [source |-> current, type |-> type] \in Contents
        BY DEF Contents
      <4> QED BY <2>2, <4>1, AppendIs DEF Fetch, convert_selection
    <3> QED BY <2>2, <3>1, <3>2, <3>3 DEF Fetch, source
  <2>3. ASSUME NEW id \in 1 .. ids, NEW accepted \in BOOLEAN, set_valid_dnd_actions(id, accepted)
        PROVE  TypeOK'
    BY <1>1, <2>3 DEF set_valid_dnd_actions, Known, DragStates, app, source, world
  <2>4. CASE \E id \in 1 .. ids : inside.kind \in env.fetches /\ \E type \in Types : Fetch(id, type)
    BY <2>2, <2>4
  <2>5. CASE \E id \in 1 .. ids : \E accepted \in BOOLEAN : set_valid_dnd_actions(id, accepted)
    <3>1. PICK id \in 1 .. ids, accepted \in BOOLEAN : set_valid_dnd_actions(id, accepted)
      BY <2>5
    <3> QED BY <2>3, <3>1
  <2>6. \/ DropWindow
        \/ \E id \in 1 .. ids : inside.kind \in env.fetches /\ \E type \in Types : Fetch(id, type)
        \/ \E id \in 1 .. ids : \E accepted \in BOOLEAN : set_valid_dnd_actions(id, accepted)
    BY <1>7 DEF Call
  <2> QED BY <2>1, <2>4, <2>5, <2>6
<1>8. CASE OtherCallback
  BY <1>8 DEF OtherCallback, source, world, Callback, Callbacks, Kinds
<1>9. CASE XdndEnter
  <2>1. state' \in DragStates
    BY <1>1, <1>9 DEF XdndEnter, Handle, DragStates, Messages
  <2> QED BY <1>1, <1>9, <2>1 DEF XdndEnter, Handle, Callback, Callbacks, Kinds
<1>10. CASE XdndPosition
  BY <1>1, <1>10 DEF XdndPosition, Handle, Callback, Callbacks, Kinds, DragStates
<1>11. CASE XdndDrop \/ XdndLeave
  <2>1. CASE XdndDrop
    BY <1>1, <2>1 DEF XdndDrop, Handle, Callback, Callbacks, Kinds, DragStates
  <2>2. CASE XdndLeave
    BY <1>1, <2>2 DEF XdndLeave, Handle, Callback, Callbacks, Kinds, DragStates
  <2> QED BY <1>11, <2>1, <2>2
<1>12. CASE Nothing
  BY <1>1, <1>12 DEF Nothing, Handle
<1>13. CASE SelectionNotify
  <2>1. /\ Head(state.pending_fetch_types) \in Queued /\ Tail(state.pending_fetch_types) \in Seq(Queued)
        /\ state \in DragStates
    BY <1>1, <1>13, TailIs DEF SelectionNotify, Pending, DragStates
  <2>2. state' \in DragStates
    BY <1>13, <2>1 DEF SelectionNotify, DragStates
  <2>3. inside' \in Callbacks \union {None}
    BY <1>13, <2>1 DEF SelectionNotify, DragStates, Queued, Callbacks, Kinds
  <2> QED BY <1>1, <1>13, <2>2, <2>3 DEF SelectionNotify, Handle
<1>14. CASE ReturnPlain
  BY <1>14 DEF ReturnPlain, Return
<1>15. CASE ReturnDropped
  <2>1. state' \in DragStates \union {None}
    BY <1>1, <1>15, ZenonT(40) DEF ReturnDropped, Waiting, Pending, send_finished, DragStates
  <2> QED BY <1>15, <2>1 DEF ReturnDropped, Return, send_finished
<1>16. CASE ReturnReceived
  <2>1. state' \in DragStates \union {None}
    BY <1>1, <1>16 DEF ReturnReceived, send_finished
  <2>2. requests' \in Seq(Contents)
    <3>1. CASE AsksNext /\ requests' = convert_selection(Head(state.pending_fetch_types).type)
      <4>1. Head(state.pending_fetch_types) \in Queued
        BY <1>1, <3>1, TailIs DEF AsksNext, Pending, DragStates
      <4>2. [source |-> current, type |-> Head(state.pending_fetch_types).type] \in Contents
        BY <4>1 DEF Contents, Queued
      <4> QED BY <3>1, <4>2, AppendIs DEF convert_selection
    <3> QED BY <1>16, <3>1 DEF ReturnReceived
  <2> QED BY <1>16, <2>1, <2>2, ZenonT(40) DEF ReturnReceived, Return, send_finished
<1>17. CASE UNCHANGED vars
  BY <1>17 DEF vars, app, source, world
<1> QED
  BY <1>4, <1>5, <1>6, <1>7, <1>8, <1>9, <1>10, <1>11, <1>12, <1>13, <1>14, <1>15, <1>16, <1>17
     DEF Next, Drag, Handlers, Returns

----
\* The first states have no drag.
LEMMA InitOrderly == Init => InOrder /\ Placed
BY X11DndAssumption DEF Init, InOrder, Single, Awaited, Wired, Owned, Placed, Asks, Carries, Inside

\* Where nothing is asked of a source, no request and no answer is on its way.
LEMMA NoAsks ==
  ASSUME TypeOK, Single, \A z \in 0 .. Drags, y \in Types : ~Asks(z, y)
  PROVE  requests = <<>> /\ \A i \in DOMAIN wire : wire[i].kind \notin Answers
<1>1. \A i \in DOMAIN wire : wire[i] \in Messages
  BY DEF TypeOK
<1>2. \A i \in DOMAIN wire : wire[i].kind \notin Answers
  BY <1>1 DEF Single, Asks, Messages
<1>3. ASSUME requests # <<>> PROVE FALSE
  <2>1. 1 \in DOMAIN requests /\ requests[1] \in Contents
    BY <1>3 DEF TypeOK
  <2> QED BY <2>1 DEF Asks, Contents
<1> QED BY <1>2, <1>3

\* What the event that is handled leaves on the wire.
LEMMA HandleWire ==
  ASSUME TypeOK, InOrder, NEW kind, Handle(kind)
  PROVE  /\ wire # <<>> /\ Head(wire) = wire[1] /\ 1 \in DOMAIN wire /\ Head(wire).kind = kind
         /\ \A i \in DOMAIN wire' : i + 1 \in DOMAIN wire /\ wire'[i] = wire[i + 1]
         /\ Single'
         /\ ids' = current => Wired'
         /\ IF kind = "enter" THEN state = None /\ Head(wire).source = current /\ ids = current - 1
            ELSE ids = current
         /\ \A k : k # kind /\ Carries(k) => \E i \in DOMAIN wire' : wire'[i].kind = k
         /\ \A z, y : Asks(z, y)' => Asks(z, y)
         /\ \A i \in DOMAIN wire' : wire'[i].kind # "enter"
         /\ kind \in Answers =>
              /\ \A z, y : ~Asks(z, y)'
              /\ Asks(Head(wire).source, Head(wire).type) /\ Head(wire).type \in Types
         /\ kind \in {"leave", "drop"} \/ (\A i \in DOMAIN wire : wire[i].kind \in Answers) =>
              \A i \in DOMAIN wire' : wire'[i].kind \in Answers
<1> USE DEF InOrder
<1>1. /\ wire # <<>> /\ Head(wire) = wire[1] /\ wire[1].kind = kind /\ wire' = Tail(wire)
      /\ UNCHANGED <<requests, property, phase, current>>
      /\ wire \in Seq(Messages)
  BY DEF Handle, TypeOK
<1>2. /\ Len(wire) \in Nat /\ Len(wire) > 0 /\ DOMAIN wire = 1 .. Len(wire) /\ DOMAIN wire' = 1 .. Len(wire) - 1
      /\ \A i \in DOMAIN wire' : i + 1 \in DOMAIN wire /\ wire'[i] = wire[i + 1] /\ i + 1 # 1
      /\ \A i \in DOMAIN wire : i = 1 \/ (i - 1 \in DOMAIN wire' /\ wire'[i - 1] = wire[i])
  BY <1>1, TailIs
<1>3. 1 \in DOMAIN wire
  BY <1>2
<1>4. \A i \in DOMAIN wire' : wire'[i].kind # "enter"
  BY <1>2 DEF Wired
<1>5. \A z, y : Asks(z, y)' => Asks(z, y)
  BY <1>1, <1>2 DEF Asks
<1>6. \A k : k # kind /\ Carries(k) => \E i \in DOMAIN wire' : wire'[i].kind = k
  BY <1>1, <1>2, ZenonT(40) DEF Carries
<1>7. Single'
  <2>1. ASSUME NEW i \in DOMAIN wire', NEW j \in DOMAIN wire', wire'[i].kind \in Answers, wire'[j].kind \in Answers
        PROVE  i = j
    <3>1. i + 1 = j + 1
      BY <1>2, <2>1 DEF Single
    <3> QED BY <1>2, <3>1
  <2> QED BY <1>1, <1>2, <2>1 DEF Single
<1>8. ASSUME ids' = current PROVE Wired'
  <2>1. ASSUME NEW i \in DOMAIN wire', NEW j \in DOMAIN wire', i < j, wire'[i].kind \in {"leave", "drop"}
        PROVE  wire'[j].kind \in Answers
    <3>1. i + 1 < j + 1
      BY <1>2, <2>1
    <3> QED BY <1>2, <2>1, <3>1 DEF Wired
  <2>2. /\ Carries("leave")' => Carries("leave")
        /\ Carries("drop")' => Carries("drop")
    BY <1>2 DEF Carries
  <2>3. current # 0
    BY <1>1 DEF Wired
  <2> QED BY <1>1, <1>4, <1>8, <2>1, <2>2, <2>3 DEF Wired, Carries
<1>9. IF kind = "enter" THEN state = None /\ Head(wire).source = current /\ ids = current - 1
      ELSE ids = current
  BY <1>1, <1>2, <1>3 DEF Wired, Carries
<1>10. ASSUME kind \in Answers
       PROVE  /\ \A z, y : ~Asks(z, y)'
              /\ Asks(Head(wire).source, Head(wire).type) /\ Head(wire).type \in Types
  <2>1. requests = <<>>
    BY <1>1, <1>3, <1>10 DEF Single
  <2>2. \A i \in DOMAIN wire' : wire'[i].kind \notin Answers
    BY <1>1, <1>2, <1>3, <1>10 DEF Single
  <2> QED BY <1>1, <1>3, <1>10, <2>1, <2>2 DEF Asks, Single
<1>11. ASSUME kind \in {"leave", "drop"} \/ \A i \in DOMAIN wire : wire[i].kind \in Answers
       PROVE  \A i \in DOMAIN wire' : wire'[i].kind \in Answers
  <2>1. \A i \in DOMAIN wire' : 1 < i + 1
    BY <1>2
  <2> QED BY <1>1, <1>2, <1>3, <1>11, <2>1 DEF Wired
<1> QED BY <1>1, <1>2, <1>3, <1>4, <1>5, <1>6, <1>7, <1>8, <1>9, <1>10, <1>11

\* What another event than the end of a drag or an answer leaves as it was.
LEMMA HandleKeeps ==
  ASSUME TypeOK, InOrder, NEW kind, Handle(kind), kind \notin {"enter", "leave"},
         UNCHANGED <<state, ids>>,
         inside' = None \/ inside'.kind \notin {"DataTransferReceived", "DragDropped"}
  PROVE  InOrder'
<1>1. /\ Single' /\ Wired' /\ ids = current
      /\ \A z, y : Asks(z, y)' => Asks(z, y)
      /\ \A i \in DOMAIN wire' : wire'[i].kind # "enter"
      /\ Carries("leave") => Carries("leave")'
      /\ (\A i \in DOMAIN wire : wire[i].kind \in Answers) =>
            \A i \in DOMAIN wire' : wire'[i].kind \in Answers
  <2>1. Carries("leave") => Carries("leave")'
    BY HandleWire DEF Carries
  <2> QED BY <2>1, HandleWire
<1>2. UNCHANGED <<phase, current, asked>> /\ inside = None
  BY DEF Handle
<1>3. Awaited'
  BY <1>1 DEF InOrder, Awaited, Carries, Inside
<1>4. Owned'
  BY <1>1, <1>2 DEF InOrder, Owned, Inside
<1> QED BY <1>1, <1>3, <1>4 DEF InOrder

\* A message of the current drag joins the wire.
LEMMA TellKeeps ==
  ASSUME TypeOK, InOrder, Over, NEW kind \in {"position", "leave", "drop"}, Tell(kind),
         UNCHANGED <<state, ids, inside, asked, current, requests, property>>,
         phase' = IF kind = "position" THEN phase
                  ELSE [phase EXCEPT ![current] = IF kind = "leave" THEN "left" ELSE "dropped"]
  PROVE  InOrder'
<1> DEFINE m == Message(kind, None)
<1>1. m \in Messages /\ m.kind = kind /\ kind \notin Answers /\ kind # "enter"
  BY DEF TypeOK, Message, Messages, Answers
<1>2. wire' = Append(wire, m)
  BY DEF Tell
<1>3. wire \in Seq(Messages) /\ phase \in [Sources -> {"none", "over", "left", "dropped", "finished"}]
      /\ current \in Sources /\ phase[current] = "over" /\ current > 0
  BY X11DndAssumption DEF TypeOK, Over, Sources
<1> HIDE DEF m
<1>4. /\ Len(wire) \in Nat /\ DOMAIN wire = 1 .. Len(wire) /\ DOMAIN wire' = 1 .. Len(wire) + 1
      /\ \A i \in DOMAIN wire : wire'[i] = wire[i]
      /\ wire'[Len(wire) + 1] = m
  BY <1>1, <1>2, <1>3, AppendIs
<1>5. /\ \A i \in DOMAIN wire' : i \in DOMAIN wire \/ (i = Len(wire) + 1 /\ wire'[i].kind = kind)
      /\ \A i \in DOMAIN wire : i \in DOMAIN wire'
      /\ Len(wire) + 1 \in DOMAIN wire' /\ wire'[Len(wire) + 1].kind = kind
  BY <1>1, <1>4
<1>6. Single'
  BY <1>1, <1>4, <1>5 DEF InOrder, Single
<1>7. \A z, y : Asks(z, y)' => Asks(z, y)
  BY <1>1, <1>4, <1>5 DEF Asks
<1>8. \A k : Carries(k)' <=> Carries(k) \/ k = kind
  BY <1>1, <1>4, <1>5 DEF Carries
<1>9. Awaited'
  BY <1>1, <1>7, <1>8 DEF InOrder, Awaited, Inside
<1>10. ~Carries("leave") /\ ~Carries("drop")
  BY <1>3 DEF InOrder, Wired
<1>11. Wired'
  <2>1. \A i, j \in DOMAIN wire' : i < j => i \in DOMAIN wire
    BY <1>4
  <2>2. \A i, j \in DOMAIN wire' : i < j /\ wire'[i].kind \in {"leave", "drop"} => wire'[j].kind \in Answers
    BY <1>4, <1>10, <2>1 DEF Carries
  <2>3. \A i \in DOMAIN wire' : wire'[i].kind = "enter" => i \in DOMAIN wire /\ wire[i].kind = "enter"
    BY <1>1, <1>4, <1>5
  <2>4. /\ Carries("leave")' => phase'[current] = "left"
        /\ Carries("drop")' => phase'[current] = "dropped"
        /\ phase'[current] \in {"over", "left", "dropped"}
        /\ phase'[current] = "left" => Carries("leave")'
    BY <1>3, <1>8, <1>10
  <2>5. \A i \in DOMAIN wire' : wire'[i].kind = "enter" =>
          i = 1 /\ state' = None /\ wire'[i].source = current' /\ ids' = current' - 1
    BY <1>4, <2>3 DEF InOrder, Wired
  <2>6. ~Carries("enter")' => ids' = current'
    BY <1>1, <1>8 DEF InOrder, Wired
  <2> QED BY <1>3, <2>2, <2>4, <2>5, <2>6 DEF Wired
<1>12. Owned'
  <2>1. state # None => ids = current /\ state.finished = None /\ ~Inside("DragDropped")
    BY <1>3 DEF InOrder, Owned
  <2>2. /\ phase'[current] \in {"over", "left", "dropped"}
        /\ phase'[current] = "left" => Carries("leave")'
    BY <1>3, <1>8, <1>10
  <2> QED BY <2>1, <2>2 DEF InOrder, Owned, Inside, AnswerMatches
<1> QED BY <1>6, <1>9, <1>11, <1>12 DEF InOrder

\* A source enters when the drag before it is over and answered.
LEMMA EnterKeeps ==
  ASSUME TypeOK, InOrder, Polite, Enter
  PROVE  InOrder'
<1>1. wire = <<>> /\ requests = <<>>
  BY DEF Enter, Polite, InOrder, Wired, TypeOK
<1>2. state = None
  BY <1>1, X11DndAssumption DEF Enter, InOrder, Owned, Sources, Polite, Carries
<1> DEFINE m == [kind |-> "enter", source |-> current + 1, type |-> None]
<1>3. wire' = <<m>> /\ m.kind = "enter" /\ m.source = current + 1
  BY <1>1 DEF Enter
<1> HIDE DEF m
<1>4. DOMAIN wire' = {1} /\ wire'[1] = m
  BY <1>3
<1>5. /\ current' = current + 1 /\ requests' = <<>> /\ state' = None
      /\ UNCHANGED <<ids, inside, asked, property>>
      /\ current' \in Sources /\ phase'[current'] = "over"
  BY <1>1, <1>2, X11DndAssumption DEF Enter, app, TypeOK, Sources
<1>6. ids = current
  BY <1>1 DEF InOrder, Wired, Carries
<1>7. Single' /\ \A z, y : ~Asks(z, y)'
  BY <1>3, <1>4, <1>5 DEF Single, Asks, Answers
<1>8. Wired'
  <2>1. Carries("enter")' /\ ~Carries("leave")' /\ ~Carries("drop")'
    BY <1>3, <1>4 DEF Carries
  <2>2. current' - 1 = ids' /\ current' # 0
    BY <1>5, <1>6 DEF TypeOK
  <2>3. \A i, j \in DOMAIN wire' : ~(i < j)
    BY <1>4
  <2> QED BY <1>3, <1>4, <1>5, <2>1, <2>2, <2>3 DEF Wired
<1>9. Owned'
  BY <1>2, <1>5 DEF InOrder, Owned, Inside
<1> QED BY <1>7, <1>8, <1>9 DEF InOrder, Awaited

\* An answer joins the wire.
LEMMA AnsweredKeeps ==
  ASSUME TypeOK, InOrder, NEW r \in Contents, Asks(r.source, r.type), requests # <<>>,
         requests' = <<>>,
         NEW m \in Messages, m.kind \in Answers, m.source = r.source, m.type = r.type,
         m.kind = "notify" => property' = r, wire' = Append(wire, m),
         UNCHANGED <<state, ids, inside, asked, phase, current>>
  PROVE  InOrder'
<1>3. m.type \in Types /\ r.source \in 0 .. Drags /\ r = [source |-> r.source, type |-> r.type]
  BY DEF Contents
<1>6. wire \in Seq(Messages) /\ \A j \in DOMAIN wire : wire[j].kind \notin Answers
  BY DEF InOrder, Single, TypeOK
<1>7. /\ Len(wire) \in Nat /\ DOMAIN wire = 1 .. Len(wire) /\ DOMAIN wire' = 1 .. Len(wire) + 1
      /\ \A j \in DOMAIN wire : wire'[j] = wire[j]
      /\ wire'[Len(wire) + 1] = m
  BY <1>6, AppendIs
<1>8. \A j \in DOMAIN wire' : (j \in DOMAIN wire /\ wire'[j] = wire[j]) \/ (j = Len(wire) + 1 /\ wire'[j] = m)
  BY <1>7
<1>9. Single'
  BY <1>3, <1>6, <1>8 DEF Single, Answers
<1>10. \A z, y : Asks(z, y)' => Asks(z, y)
  BY <1>3, <1>6, <1>8 DEF Asks
<1>11. \A k : k \notin Answers => (Carries(k)' <=> Carries(k))
  BY <1>3, <1>7, <1>8 DEF Carries
<1>12. ~Carries("enter")
  BY <1>3 DEF InOrder, Awaited
<1>13. Awaited'
  BY <1>10, <1>11, <1>12 DEF InOrder, Awaited, Inside, Answers
<1>14. Wired'
  <2>1. \A k, j \in DOMAIN wire' : k < j => k \in DOMAIN wire /\ wire'[k] = wire[k]
    BY <1>7
  <2>2. \A k, j \in DOMAIN wire' : k < j /\ wire'[k].kind \in {"leave", "drop"} => wire'[j].kind \in Answers
    BY <1>3, <1>8, <2>1 DEF InOrder, Wired
  <2>3. /\ ~Carries("enter")' /\ ids' = current'
        /\ Carries("leave")' => current' > 0 /\ phase'[current'] = "left"
        /\ Carries("drop")' => current' > 0 /\ phase'[current'] = "dropped"
        /\ current' # 0
    BY <1>11, <1>12 DEF InOrder, Wired, Answers
  <2> QED BY <2>2, <2>3 DEF Wired, Carries
<1>15. Owned'
  <2>1. Carries("leave") => Carries("leave")'
    BY <1>11 DEF Answers
  <2>2. (\A j \in DOMAIN wire : wire[j].kind \in Answers) => \A j \in DOMAIN wire' : wire'[j].kind \in Answers
    BY <1>3, <1>8
  <2> QED BY <2>1, <2>2 DEF InOrder, Owned, Inside, AnswerMatches
<1> QED BY <1>9, <1>13, <1>14, <1>15 DEF InOrder

\* A source converts, or refuses, the one conversion that is asked of it.
LEMMA AnswerKeeps ==
  ASSUME TypeOK, InOrder, Answer
  PROVE  InOrder'
<1>1. PICK i \in DOMAIN requests :
        LET r == requests[i]
            refused == r.type \in env.refuses
        IN /\ requests' = RemoveAt(requests, i)
           /\ property' = IF refused THEN property ELSE r
           /\ wire' = Append(wire, [kind |-> IF refused THEN "refusal" ELSE "notify",
                                    source |-> r.source, type |-> r.type])
           /\ UNCHANGED <<state, app, source, env>>
  BY DEF Answer
<1> DEFINE r == requests[i]
           m == [kind |-> IF r.type \in env.refuses THEN "refusal" ELSE "notify",
                 source |-> r.source, type |-> r.type]
<1>2. /\ r \in Contents /\ requests # <<>> /\ requests' = <<>>
  <2>1. requests \in Seq(Contents) /\ requests # <<>> /\ Len(requests) <= 1
    BY <1>1 DEF TypeOK, InOrder, Single
  <2> QED BY <1>1, <2>1, RemoveType
<1>3. /\ m \in Messages /\ m.kind \in Answers /\ m.source = r.source /\ m.type = r.type
      /\ m.kind = "notify" => property' = r
  BY <1>1, <1>2 DEF Contents, Messages, Answers
<1>4. wire' = Append(wire, m) /\ UNCHANGED <<state, ids, inside, asked, phase, current>>
  BY <1>1 DEF app, source
<1>5. Asks(r.source, r.type)
  BY <1>2 DEF Asks
<1> HIDE DEF m, r
<1>6. PICK c \in Contents, e \in Messages : c = r /\ e = m
  BY <1>2, <1>3
<1> QED BY <1>2, <1>3, <1>4, <1>5, <1>6, AnsweredKeeps

\* The next conversion is asked of the source.
LEMMA AskKeeps ==
  ASSUME TypeOK, InOrder, NEW type \in Types, requests' = convert_selection(type),
         \A z \in 0 .. Drags, y \in Types : ~Asks(z, y),
         UNCHANGED <<wire, property, ids, phase, current>>,
         state # None, state' # None, state'.id = state.id,
         state'.pending_fetch_types # <<>>, Head(state'.pending_fetch_types).type = type,
         ~Inside("DataTransferReceived")'
  PROVE  Single' /\ Awaited' /\ Wired'
<1>1. requests = <<>> /\ \A i \in DOMAIN wire : wire[i].kind \notin Answers
  BY NoAsks DEF InOrder
<1> DEFINE r == [source |-> current, type |-> type]
<1>2. r.source = current /\ r.type = type /\ requests' = <<r>>
  BY <1>1 DEF convert_selection
<1> HIDE DEF r
<1>3. DOMAIN requests' = {1} /\ requests'[1] = r /\ Len(requests') = 1
  BY <1>2
<1>4. ~Carries("enter") /\ ids = current /\ state.id = ids /\ current # 0
  BY X11DndAssumption DEF InOrder, Wired, Owned, Carries, Sources
<1>5. \A z, y : Asks(z, y)' => z = current /\ y = type
  BY <1>1, <1>2, <1>3 DEF Asks
<1>6. Single'
  BY <1>1, <1>3 DEF InOrder, Single
<1>7. Awaited'
  BY <1>4, <1>5 DEF Awaited, Carries
<1>8. Wired'
  BY <1>4 DEF InOrder, Wired, Carries
<1> QED BY <1>6, <1>7, <1>8

\* fetch_data_transfer asks only when nothing waits: one conversion is under way.
LEMMA FetchKeeps ==
  ASSUME TypeOK, InOrder, Polite, inside # None, inside.kind \in env.fetches,
         NEW id \in 1 .. ids, NEW type \in Types, Fetch(id, type)
  PROVE  InOrder'
<1> DEFINE q == [serial |-> Len(asked) + 1, type |-> type]
           a == [id |-> id, type |-> type]
           old == state.pending_fetch_types
           new == Append(old, q)
<1>1. /\ state # None /\ state \in DragStates /\ old \in Seq(Queued) /\ q \in Queued
      /\ asked \in Seq([id : Nat, type : Types]) /\ a \in [id : Nat, type : Types]
  BY DEF Fetch, Known, TypeOK, DragStates, Queued
<1>2. /\ state' = [state EXCEPT !.pending_fetch_types = new] /\ asked' = Append(asked, a)
      /\ requests' = IF old = <<>> THEN convert_selection(type) ELSE requests
      /\ UNCHANGED <<ids, inside, exists, phase, current, wire, property>>
      /\ state.id = id
  BY <1>1 DEF Fetch, source, Known
<1>3. q.type = type /\ q.serial = Len(asked) + 1 /\ a.id = id /\ a.type = type
  OBVIOUS
<1>4. /\ state' # None /\ state'.pending_fetch_types = new /\ state'.id = state.id
      /\ state'.source_window = state.source_window /\ state'.finished = state.finished
  <2>1. new \in Seq(Queued)
    BY <1>1, AppendIs
  <2> HIDE DEF new
  <2>2. state' \in DragStates
    BY <1>1, <1>2, <2>1 DEF DragStates
  <2> QED BY <1>1, <1>2, <2>2, X11DndAssumption DEF DragStates
<1> HIDE DEF q, a, new
<1>5. /\ Len(old) \in Nat /\ DOMAIN old = 1 .. Len(old) /\ DOMAIN new = 1 .. Len(old) + 1
      /\ \A i \in DOMAIN old : new[i] = old[i]
      /\ new[Len(old) + 1] = q /\ new # <<>>
      /\ Head(new) = IF old = <<>> THEN q ELSE Head(old)
  BY <1>1, AppendIs DEF new
<1>6. /\ Len(asked) \in Nat /\ DOMAIN asked = 1 .. Len(asked) /\ DOMAIN asked' = 1 .. Len(asked) + 1
      /\ \A i \in DOMAIN asked : asked'[i] = asked[i]
      /\ asked'[Len(asked) + 1] = a
  BY <1>1, <1>2, AppendIs
<1>7. ~Inside("DataTransferReceived")
  BY DEF Polite, Inside
<1>8. Single' /\ Awaited' /\ Wired'
  <2>1. CASE old = <<>>
    <3>1. \A z \in 0 .. Drags, y \in Types : ~Asks(z, y)
      BY <1>1, <2>1 DEF InOrder, Awaited
    <3>2. ~Inside("DataTransferReceived")'
      BY <1>2, <1>7 DEF Inside
    <3> QED BY <1>1, <1>2, <1>3, <1>4, <1>5, <2>1, <3>1, <3>2, AskKeeps
  <2>2. CASE old # <<>>
    <3>1. \A z, y : Asks(z, y)' <=> Asks(z, y)
      BY <1>2, <2>2 DEF Asks
    <3>2. Awaited'
      BY <1>1, <1>2, <1>4, <1>5, <2>2, <3>1 DEF InOrder, Awaited, Carries, Inside
    <3>3. Single' /\ Wired'
      BY <1>1, <1>2, <1>4, <2>2 DEF InOrder, Single, Wired, Carries
    <3> QED BY <3>2, <3>3
  <2> QED BY <2>1, <2>2
<1>9. Owned'
  <2>1. id = ids
    BY <1>1, <1>2 DEF InOrder, Owned
  <2>2. \A i \in DOMAIN new : new[i].serial \in DOMAIN asked' /\ asked'[new[i].serial] = [id |-> ids, type |-> new[i].type]
    <3>1. \A i \in DOMAIN old : old[i].serial \in DOMAIN asked /\ asked[old[i].serial] = [id |-> ids, type |-> old[i].type]
      BY <1>1 DEF InOrder, Owned
    <3>2. \A i \in DOMAIN new : i \in DOMAIN old \/ new[i] = q
      BY <1>5
    <3>3. a = [id |-> ids, type |-> q.type]
      BY <2>1, <1>3 DEF a
    <3>4. \A j \in DOMAIN asked : j \in DOMAIN asked'
      BY <1>6
    <3>5. Len(asked) + 1 \in DOMAIN asked'
      BY <1>6
    <3>6. q.serial \in DOMAIN asked' /\ asked'[q.serial] = [id |-> ids, type |-> q.type]
      BY <1>3, <1>6, <3>3, <3>5
    <3> HIDE DEF old
    <3>7. ASSUME NEW i \in DOMAIN old
          PROVE  new[i].serial \in DOMAIN asked' /\ asked'[new[i].serial] = [id |-> ids, type |-> new[i].type]
      BY <1>5, <1>6, <3>1, <3>4
    <3> QED BY <3>2, <3>6, <3>7
  <2>3. Inside("DragDropped")' <=> Inside("DragDropped")
    BY <1>2 DEF Inside
  <2>4. ~Inside("DataTransferReceived")'
    BY <1>2, <1>7 DEF Inside
  <2>5. Carries("leave")' <=> Carries("leave")
    BY <1>2 DEF Carries
  <2> QED BY <1>1, <1>2, <1>4, <2>2, <2>3, <2>4, <2>5 DEF InOrder, Owned
<1> QED BY <1>8, <1>9 DEF InOrder

\* Steps that neither ask, answer nor send.
LEMMA QuietKeeps ==
  ASSUME TypeOK, InOrder, UNCHANGED <<ids, asked, phase, current, wire, requests, property>>,
         \/ state' = state
         \/ state # None /\ state' # None /\ state'.id = state.id
            /\ state'.source_window = state.source_window
            /\ state'.pending_fetch_types = state.pending_fetch_types
            /\ \/ state'.finished = state.finished
               \/ state'.finished = state.source_window /\ Inside("DragDropped"),
         \/ inside' = inside
         \/ inside' = None
         \/ inside' # None /\ inside'.kind \notin {"DragDropped", "DataTransferReceived"}
  PROVE  InOrder'
<1>1. \A k : Carries(k)' <=> Carries(k)
  BY DEF Carries
<1>2. \A z, y : Asks(z, y)' <=> Asks(z, y)
  BY DEF Asks
<1>3. Single'
  BY DEF InOrder, Single
<1>4. Awaited'
  BY <1>1, <1>2 DEF InOrder, Awaited, Inside
<1>5. Wired'
  BY <1>1 DEF InOrder, Wired
<1>6. Owned'
  BY <1>1 DEF InOrder, Owned, Inside, AnswerMatches
<1> QED BY <1>3, <1>4, <1>5, <1>6 DEF InOrder

\* The state is that of the source that enters.
LEMMA XdndEnterKeeps ==
  ASSUME TypeOK, InOrder, XdndEnter
  PROVE  InOrder'
<1>1. Handle("enter")
  BY DEF XdndEnter
<1>2. UNCHANGED <<phase, current, asked, requests>> /\ inside = None
  BY <1>1 DEF Handle
<1>3. /\ state = None /\ Head(wire).source = current /\ ids = current - 1 /\ Single'
      /\ ids' = current => Wired'
      /\ Carries("leave") => Carries("leave")'
      /\ Carries("enter")
      /\ \A z, y : Asks(z, y)' => Asks(z, y)
  <2>1. Carries("leave") => Carries("leave")'
    BY <1>1, HandleWire DEF Carries
  <2>2. Carries("enter")
    BY <1>1, HandleWire DEF Carries
  <2> QED BY <1>1, <2>1, <2>2, HandleWire
<1>4. ids' = current /\ current \in Sources
  BY <1>3 DEF XdndEnter, InOrder, Wired, TypeOK, Sources
<1>5. /\ state' = [id |-> current, source_window |-> current,
                   pending_fetch_types |-> <<>>, finished |-> None, accepted |-> FALSE]
      /\ inside'.kind = "DragEntered"
  BY <1>3, <1>4 DEF XdndEnter, Callback
<1>6. Awaited'
  BY <1>2, <1>3 DEF InOrder, Awaited
<1>7. Owned'
  <2>1. /\ phase[current] \in {"over", "left", "dropped"}
        /\ phase[current] = "left" => Carries("leave")'
    BY <1>3 DEF InOrder, Wired
  <2>2. /\ state'.id = current /\ state'.source_window = current /\ state'.finished = None
        /\ DOMAIN state'.pending_fetch_types = {}
    BY <1>5
  <2> QED BY <1>2, <1>4, <1>5, <2>1, <2>2 DEF Owned, Inside
<1> QED BY <1>3, <1>4, <1>6, <1>7 DEF InOrder

\* The state is reset, and the answers to its fetches are nobody's.
LEMMA XdndLeaveKeeps ==
  ASSUME TypeOK, InOrder, XdndLeave
  PROVE  InOrder'
<1>1. Handle("leave") /\ state' = None /\ ids' = ids
      /\ (inside' = None \/ inside'.kind = "DragLeft")
  BY DEF XdndLeave, Callback
<1>2. /\ Single' /\ Wired'
      /\ \A z, y : Asks(z, y)' => Asks(z, y)
      /\ ~Carries("enter")'
  <2>1. ids' = current
    BY <1>1, HandleWire
  <2>2. ~Carries("enter")'
    BY <1>1, HandleWire DEF Carries
  <2> QED BY <1>1, <2>1, <2>2, HandleWire
<1>3. Awaited' /\ Owned'
  BY <1>1, <1>2 DEF Awaited, Owned, Inside
<1> QED BY <1>2, <1>3 DEF InOrder

\* The drop is the last message of its source.
LEMMA XdndDropKeeps ==
  ASSUME TypeOK, InOrder, XdndDrop
  PROVE  InOrder'
<1>1. Handle("drop") /\ UNCHANGED <<state, ids>>
  BY DEF XdndDrop
<1>2. CASE state = None
  BY <1>1, <1>2, HandleKeeps DEF XdndDrop
<1>3. CASE state # None
  <2>1. inside' = Callback("DragDropped", state.id)
    BY <1>3 DEF XdndDrop
  <2>2. inside'.kind = "DragDropped" /\ inside'.id = state.id
    BY <2>1 DEF Callback
  <2>3. UNCHANGED <<phase, current, asked>>
    BY <1>1 DEF Handle
  <2>4. /\ Single' /\ Wired' /\ ids = current
        /\ \A z, y : Asks(z, y)' => Asks(z, y)
        /\ ~Carries("enter")' /\ Carries("drop")
        /\ \A i \in DOMAIN wire' : wire'[i].kind \in Answers
    <3>1. ids' = current
      BY <1>1, HandleWire
    <3>2. ~Carries("enter")' /\ Carries("drop")
      BY <1>1, HandleWire DEF Carries
    <3>3. \A i \in DOMAIN wire' : wire'[i].kind \in Answers
      BY <1>1, HandleWire
    <3> QED BY <1>1, <3>1, <3>2, <3>3, HandleWire
  <2>5. Awaited'
    BY <1>1, <2>2, <2>4 DEF InOrder, Awaited, Inside
  <2>6. phase[ids] = "dropped"
    BY <2>4 DEF InOrder, Wired
  <2>7. Owned'
    BY <1>1, <1>3, <2>2, <2>3, <2>4, <2>6 DEF InOrder, Owned, Inside
  <2> QED BY <2>4, <2>5, <2>7 DEF InOrder
<1> QED BY <1>2, <1>3

\* The answer that is read is that of the oldest fetch.
LEMMA AnswerIs ==
  ASSUME TypeOK, InOrder, SelectionNotify
  PROVE  LET fetch == Head(state.pending_fetch_types)
         IN  /\ state # None /\ state.id = ids /\ ids = current
             /\ property = [source |-> ids, type |-> fetch.type]
             /\ fetch.serial \in DOMAIN asked
             /\ asked[fetch.serial] = [id |-> ids, type |-> fetch.type]
<1>1. Handle("notify") /\ state # None /\ state.pending_fetch_types # <<>>
  BY DEF SelectionNotify, Pending
<1>2. state \in DragStates /\ state.pending_fetch_types \in Seq(Queued)
  BY <1>1 DEF TypeOK, DragStates
<1>3. 1 \in DOMAIN state.pending_fetch_types
      /\ Head(state.pending_fetch_types) = state.pending_fetch_types[1]
  BY <1>1, <1>2
<1>4. state.id = ids /\ ids = current
      /\ \A i \in DOMAIN state.pending_fetch_types :
           LET p == state.pending_fetch_types[i]
           IN  p.serial \in DOMAIN asked /\ asked[p.serial] = [id |-> ids, type |-> p.type]
  BY <1>1 DEF InOrder, Owned
<1>5. /\ wire[1].kind = "notify" /\ 1 \in DOMAIN wire /\ Head(wire) = wire[1]
      /\ Asks(Head(wire).source, Head(wire).type) /\ Head(wire).type \in Types
  BY <1>1, HandleWire DEF Answers
<1>6. Head(wire).source \in 0 .. Drags
  <2>1. wire[1] \in Messages
    BY <1>5 DEF TypeOK
  <2> QED BY <1>5, <2>1 DEF Messages
<1>7. Head(wire).source = ids /\ Head(wire).type = Head(state.pending_fetch_types).type
  BY <1>1, <1>4, <1>5, <1>6 DEF InOrder, Awaited
<1>8. property = [source |-> Head(wire).source, type |-> Head(wire).type]
  BY <1>5 DEF InOrder, Single
<1> QED BY <1>1, <1>3, <1>4, <1>7, <1>8

\* The oldest fetch takes the answer, and the next is not asked for yet.
LEMMA NotifyKeeps ==
  ASSUME TypeOK, InOrder, SelectionNotify
  PROVE  InOrder'
<1> DEFINE old == state.pending_fetch_types
           fetch == Head(old)
<1>1. /\ Handle("notify") /\ state # None /\ old # <<>> /\ ids' = ids
      /\ state' = [state EXCEPT !.pending_fetch_types = Tail(old)]
      /\ inside' = IF Reads(fetch.type)
                   THEN [kind |-> "DataTransferReceived", id |-> state.id,
                         serial |-> fetch.serial, content |-> property]
                   ELSE None
  BY DEF SelectionNotify, Pending
<1>2. /\ state \in DragStates /\ old \in Seq(Queued)
      /\ UNCHANGED <<phase, current, asked>>
  BY <1>1 DEF TypeOK, DragStates, Handle
<1>3. /\ state' # None /\ state'.pending_fetch_types = Tail(old) /\ state'.id = state.id
      /\ state'.source_window = state.source_window /\ state'.finished = state.finished
  <2>1. state' \in DragStates
    BY <1>1, <1>2, TailIs DEF DragStates
  <2> QED BY <1>1, <1>2, <2>1, X11DndAssumption DEF DragStates
<1>4. /\ Single' /\ Wired' /\ \A z, y : ~Asks(z, y)'
      /\ Carries("leave") => Carries("leave")'
      /\ (\A i \in DOMAIN wire : wire[i].kind \in Answers) =>
            \A i \in DOMAIN wire' : wire'[i].kind \in Answers
  <2>1. ids' = current
    BY <1>1, HandleWire
  <2>2. \A k : k # "notify" /\ Carries(k) => \E i \in DOMAIN wire' : wire'[i].kind = k
    BY <1>1, HandleWire
  <2>3. Carries("leave") => Carries("leave")'
    BY <2>2 DEF Carries
  <2> QED BY <1>1, <2>1, <2>3, HandleWire DEF Answers
<1>5. Awaited'
  BY <1>4 DEF Awaited
<1>6. /\ state.id = ids /\ property = [source |-> ids, type |-> fetch.type]
      /\ fetch.serial \in DOMAIN asked
      /\ asked[fetch.serial] = [id |-> ids, type |-> fetch.type]
  BY AnswerIs
<1>7. \A i \in DOMAIN Tail(old) : i + 1 \in DOMAIN old /\ Tail(old)[i] = old[i + 1]
  BY <1>1, <1>2, TailIs
<1>8. Owned'
  <2>1. \A i \in DOMAIN state'.pending_fetch_types :
          LET p == state'.pending_fetch_types[i]
          IN  p.serial \in DOMAIN asked' /\ asked'[p.serial] = [id |-> ids', type |-> p.type]
    <3>1. \A i \in DOMAIN old :
            old[i].serial \in DOMAIN asked /\ asked[old[i].serial] = [id |-> ids, type |-> old[i].type]
      BY <1>1 DEF InOrder, Owned
    <3>2. ids' = ids /\ asked' = asked /\ state'.pending_fetch_types = Tail(old)
      BY <1>1, <1>2, <1>3
    <3> HIDE DEF old
    <3> QED BY <1>7, <3>1, <3>2
  <2>2. Inside("DataTransferReceived")' =>
          inside'.id = ids' /\ inside'.serial \in DOMAIN asked' /\ AnswerMatches'
    BY <1>1, <1>2, <1>6 DEF Inside, AnswerMatches
  <2>3. ~Inside("DragDropped")'
    BY <1>1 DEF Inside
  <2> QED BY <1>1, <1>2, <1>3, <1>4, <2>1, <2>2, <2>3 DEF InOrder, Owned
<1> QED BY <1>4, <1>5, <1>8 DEF InOrder

\* A drop is finished with: its source is told and nothing is asked of it.
LEMMA FinishKeeps ==
  ASSUME TypeOK, InOrder, state # None, NEW d, d = ids, send_finished(d), ~Pending,
         state.finished # None \/ Inside("DragDropped"),
         UNCHANGED <<ids, asked, current, wire, requests, property>>, inside' = None
  PROVE  InOrder'
<1>1. /\ ids = current /\ phase[ids] = "dropped" /\ ids \in Sources
      /\ \A i \in DOMAIN wire : wire[i].kind \in Answers
  BY DEF InOrder, Owned
<1>2. \A z \in 0 .. Drags, y \in Types : ~Asks(z, y)
  BY DEF InOrder, Awaited, Pending
<1>3. \A i \in DOMAIN wire : FALSE
  BY <1>1, <1>2, NoAsks DEF InOrder
<1>4. requests = <<>>
  BY <1>2, NoAsks DEF InOrder
<1>5. Single'
  BY <1>3, <1>4 DEF Single
<1>6. \A z, y : ~Asks(z, y)'
  BY <1>3, <1>4 DEF Asks
<1>7. Wired'
  BY <1>1, <1>3 DEF InOrder, Wired, Carries
<1>8. Awaited' /\ Owned'
  BY <1>6 DEF Awaited, Owned, send_finished, Inside
<1> QED BY <1>5, <1>7, <1>8 DEF InOrder

\* A drop whose fetches wait is finished by the last of them.
LEMMA ReturnDroppedKeeps ==
  ASSUME TypeOK, InOrder, ReturnDropped
  PROVE  InOrder'
<1>1. /\ Inside("DragDropped") /\ inside' = None
      /\ UNCHANGED <<ids, asked, current, wire, requests, property>>
  BY DEF ReturnDropped, Return, Inside
<1>2. state # None /\ state.source_window = ids /\ state \in DragStates
  BY <1>1 DEF InOrder, Owned, TypeOK
<1>3. CASE Waiting
  <2>1. state' = [state EXCEPT !.finished = state.source_window] /\ UNCHANGED phase
    BY <1>3 DEF ReturnDropped
  <2>2. state' \in DragStates /\ state'.id = state.id /\ state'.source_window = state.source_window
        /\ state'.pending_fetch_types = state.pending_fetch_types
        /\ state'.finished = state.source_window
    BY <1>2, <2>1 DEF DragStates
  <2> QED BY <1>1, <1>2, <2>1, <2>2, QuietKeeps, X11DndAssumption
<1>4. CASE ~Waiting
  BY <1>1, <1>2, <1>4, FinishKeeps DEF ReturnDropped, Waiting
<1> QED BY <1>3, <1>4

\* After an answer the next fetch is asked for.
LEMMA ReturnReceivedKeeps ==
  ASSUME TypeOK, InOrder, ReturnReceived
  PROVE  InOrder'
<1>1. /\ Inside("DataTransferReceived") /\ inside' = None
      /\ UNCHANGED <<ids, asked, current, wire, property>>
  BY DEF ReturnReceived, Return, Inside
<1>2. state # None /\ state \in DragStates
  BY <1>1 DEF InOrder, Owned, TypeOK
<1>3. CASE AsksNext /\ requests' = convert_selection(Head(state.pending_fetch_types).type)
           /\ UNCHANGED <<state, phase>>
  <2>1. Head(state.pending_fetch_types).type \in Types /\ state.pending_fetch_types # <<>>
    <3>1. state.pending_fetch_types \in Seq(Queued) /\ state.pending_fetch_types # <<>>
      BY <1>2, <1>3 DEF AsksNext, Pending, DragStates
    <3>2. Head(state.pending_fetch_types) \in Queued
      BY <3>1
    <3> QED BY <3>1, <3>2 DEF Queued
  <2>2. \A z \in 0 .. Drags, y \in Types : ~Asks(z, y)
    BY <1>1, <1>2 DEF InOrder, Awaited
  <2>3. ~Inside("DataTransferReceived")' /\ ~Inside("DragDropped")'
    BY <1>1 DEF Inside
  <2>4. Single' /\ Awaited' /\ Wired'
    BY <1>1, <1>2, <1>3, <2>1, <2>2, <2>3, AskKeeps
  <2>5. Carries("leave")' <=> Carries("leave")
    BY <1>1 DEF Carries
  <2>6. Owned'
    BY <1>1, <1>2, <1>3, <2>3, <2>5 DEF InOrder, Owned
  <2> QED BY <2>4, <2>6 DEF InOrder
<1>4. CASE ~AsksNext /\ FinishNow /\ send_finished(state.finished) /\ UNCHANGED requests
  <2>1. state.finished = ids
    BY <1>2, <1>4 DEF InOrder, Owned, FinishNow
  <2> QED BY <1>1, <1>2, <1>4, <2>1, FinishKeeps DEF AsksNext, FinishNow
<1>5. CASE UNCHANGED <<state, phase, requests>>
  BY <1>1, <1>5, QuietKeeps
<1> QED BY <1>3, <1>4, <1>5 DEF ReturnReceived

\* The window may go at any time.
LEMMA DropKeeps ==
  ASSUME TypeOK, InOrder, DropWindow
  PROVE  InOrder'
BY QuietKeeps DEF DropWindow, source, world

\* Every step keeps the order of the drag.
LEMMA NextOrderly ==
  ASSUME TypeOK, InOrder, Polite, [Next]_vars
  PROVE  InOrder'
<1>1. CASE Enter
  BY <1>1, EnterKeeps
<1>2. CASE Move \/ Leave \/ Release
  BY <1>2, TellKeeps DEF Move, Leave, Release, app
<1>3. CASE Answer
  BY <1>3, AnswerKeeps
<1>4. CASE Call
  <2>1. ASSUME NEW id \in 1 .. ids, NEW accepted \in BOOLEAN, set_valid_dnd_actions(id, accepted)
        PROVE  InOrder'
    <3>1. /\ state # None /\ state \in DragStates /\ state' = [state EXCEPT !.accepted = accepted]
          /\ UNCHANGED <<ids, asked, phase, current, wire, requests, property, inside>>
      BY <2>1 DEF set_valid_dnd_actions, Known, app, source, world, TypeOK
    <3>2. state' \in DragStates /\ state'.id = state.id /\ state'.source_window = state.source_window
          /\ state'.pending_fetch_types = state.pending_fetch_types
          /\ state'.finished = state.finished
      BY <3>1 DEF DragStates
    <3> QED BY <3>1, <3>2, QuietKeeps, X11DndAssumption
  <2>2. CASE \E id \in 1 .. ids : inside.kind \in env.fetches /\ \E type \in Types : Fetch(id, type)
    <3>1. PICK id \in 1 .. ids, type \in Types : inside.kind \in env.fetches /\ Fetch(id, type)
      BY <2>2
    <3> QED BY <1>4, <3>1, FetchKeeps DEF Call
  <2>3. CASE \E id \in 1 .. ids : \E accepted \in BOOLEAN : set_valid_dnd_actions(id, accepted)
    <3>1. PICK id \in 1 .. ids, accepted \in BOOLEAN : set_valid_dnd_actions(id, accepted)
      BY <2>3
    <3> QED BY <2>1, <3>1
  <2>4. \/ DropWindow
        \/ \E id \in 1 .. ids : inside.kind \in env.fetches /\ \E type \in Types : Fetch(id, type)
        \/ \E id \in 1 .. ids : \E accepted \in BOOLEAN : set_valid_dnd_actions(id, accepted)
    BY <1>4 DEF Call
  <2> QED BY <2>2, <2>3, <2>4, DropKeeps
<1>5. CASE OtherCallback
  BY <1>5, QuietKeeps DEF OtherCallback, Callback, source, world
<1>6. CASE XdndEnter \/ XdndDrop \/ XdndLeave \/ SelectionNotify
  BY <1>6, XdndEnterKeeps, XdndDropKeeps, XdndLeaveKeeps, NotifyKeeps
<1>7. CASE XdndPosition
  <2>1. /\ Handle("position") /\ UNCHANGED <<state, ids>>
        /\ inside' = inside \/ inside' = Callback("DragPosition", state.id)
    BY <1>7 DEF XdndPosition
  <2>2. inside' = None \/ inside'.kind = "DragPosition"
    BY <2>1 DEF Handle, Callback
  <2> QED BY <2>1, <2>2, HandleKeeps
<1>8. CASE Nothing
  <2>1. /\ Handle("refusal") \/ Handle("notify")
        /\ UNCHANGED <<state, ids, inside>>
    BY <1>8 DEF Nothing
  <2>2. inside' = None
    BY <2>1 DEF Handle
  <2> QED BY <2>1, <2>2, HandleKeeps
<1>9. CASE ReturnPlain
  BY <1>9, QuietKeeps DEF ReturnPlain, Return
<1>10. CASE ReturnDropped \/ ReturnReceived
  BY <1>10, ReturnDroppedKeeps, ReturnReceivedKeeps
<1>11. CASE UNCHANGED vars
  BY <1>11, QuietKeeps DEF vars, app, source, world
<1> QED BY <1>1, <1>2, <1>3, <1>4, <1>5, <1>6, <1>7, <1>8, <1>9, <1>10, <1>11
           DEF Next, Drag, Handlers, Returns

\* Where the application drops its window only between drags, there is one
\* while a drag is on.
LEMMA NextPlaced ==
  ASSUME TypeOK, InOrder, Placed, env.drops = "between", [Next]_vars
  PROVE  Placed'
<1>1. CASE DropWindow
  BY <1>1 DEF DropWindow, source, world, Placed, Carries
<1>2. ASSUME UNCHANGED <<wire, exists>>, state = None => state' = None
      PROVE  Placed'
  BY <1>2 DEF Placed, Carries
<1>3. ASSUME NEW m \in Messages, m.kind # "enter", wire' = Append(wire, m), UNCHANGED <<exists, state>>
      PROVE  Placed'
  BY <1>3, AppendIs DEF TypeOK, Placed, Carries
<1>4. ASSUME NEW kind, Handle(kind), kind # "enter", state = None => state' = None
      PROVE  Placed'
  <2>1. ~Carries("enter")'
    BY <1>4, HandleWire DEF Carries
  <2> QED BY <1>4, <2>1 DEF Placed, Handle
<1>5. ASSUME NEW kind \in {"position", "leave", "drop"}, Tell(kind), UNCHANGED <<exists, state>>
      PROVE  Placed'
  <2>1. Message(kind, None) \in Messages /\ Message(kind, None).kind # "enter"
    BY DEF TypeOK, Message, Messages
  <2> QED BY <1>3, <1>5, <2>1 DEF Tell
<1>6. CASE Enter
  BY <1>6 DEF Enter, app, Placed
<1>7. CASE Move \/ Leave \/ Release
  BY <1>5, <1>7 DEF Move, Leave, Release, app
<1>8. CASE Answer
  <2>1. PICK i \in DOMAIN requests :
          /\ wire' = Append(wire, [kind |-> IF requests[i].type \in env.refuses THEN "refusal" ELSE "notify",
                                   source |-> requests[i].source, type |-> requests[i].type])
          /\ UNCHANGED <<state, app>>
    BY <1>8 DEF Answer
  <2>2. requests[i] \in Contents
    BY DEF TypeOK
  <2>3. PICK m \in Messages : m.kind # "enter" /\ wire' = Append(wire, m)
    BY <2>1, <2>2 DEF Contents, Messages
  <2> QED BY <1>3, <2>1, <2>3 DEF app
<1>9. CASE Call
  BY <1>1, <1>2, <1>9 DEF Call, Fetch, Known, set_valid_dnd_actions, app, source, world
<1>10. CASE OtherCallback
  BY <1>2, <1>10 DEF OtherCallback, source, world
<1>11. CASE XdndEnter
  <2>1. Carries("enter")
    BY <1>11, HandleWire DEF XdndEnter, Carries
  <2> QED BY <1>11, <2>1 DEF Placed, XdndEnter, Handle
<1>12. CASE XdndPosition \/ XdndDrop \/ XdndLeave \/ Nothing
  BY <1>4, <1>12 DEF XdndPosition, XdndDrop, XdndLeave, Nothing
<1>13. CASE SelectionNotify
  BY <1>4, <1>13 DEF SelectionNotify, Pending
<1>14. CASE Returns
  <2>1. state = None => state' = None
    BY <1>14 DEF Returns, ReturnPlain, ReturnDropped, ReturnReceived, Return, InOrder, Owned, Inside,
          send_finished
  <2> QED BY <1>2, <1>14, <2>1 DEF Returns, ReturnPlain, ReturnDropped, ReturnReceived, Return
<1>15. CASE UNCHANGED vars
  BY <1>2, <1>15 DEF vars, app, source, world
<1> QED BY <1>6, <1>7, <1>8, <1>9, <1>10, <1>11, <1>12, <1>13, <1>14, <1>15
           DEF Next, Drag, Handlers

----
(* The refinement *)

Fetched == [kind : {"fetch"}, id : Nat, serial : Nat]

\* The fetches of a queue as the contract sees them.
LEMMA MappedIs ==
  ASSUME NEW q \in Seq(Queued), NEW k \in Nat,
         NEW m, m = [i \in DOMAIN q |-> [kind |-> "fetch", id |-> k, serial |-> q[i].serial]]
  PROVE  /\ m \in Seq(Fetched) /\ Len(m) = Len(q)
         /\ \A i \in 1 .. Len(q) :
              m[i] = [kind |-> "fetch", id |-> k, serial |-> q[i].serial]
<1> DEFINE n == Len(q)
           e(i) == [kind |-> "fetch", id |-> k, serial |-> q[i].serial]
<1>1. n \in Nat /\ DOMAIN q = 1 .. n
  OBVIOUS
<1>2. \A i \in 1 .. n : e(i) \in Fetched
  <2> TAKE i \in 1 .. n
  <2>1. q[i] \in Queued
    BY <1>1
  <2> QED BY <2>1 DEF Queued, Fetched
<1>3. m = [i \in 1 .. n |-> e(i)]
  BY <1>1
<1> HIDE DEF n, e
<1>4. m \in Seq(Fetched) /\ Len(m) = n
  <2>1. m \in [1 .. n -> Fetched]
    BY <1>2, <1>3
  <2>2. m \in Seq(Fetched)
    BY <1>1, <2>1
  <2>3. Len(m) = n
    BY <1>1, <2>1, <2>2
  <2> QED BY <2>2, <2>3
<1>5. \A i \in 1 .. n : m[i] = e(i)
  BY <1>3
<1> QED BY <1>4, <1>5 DEF n, e

\* What waits, as the queue of the drag tells it.
LEMMA UnansweredIs ==
  ASSUME TypeOK
  PROVE  /\ Unanswered \in Seq(Fetched)
         /\ state = None => Unanswered = <<>>
         /\ state # None =>
              /\ Len(Unanswered) = Len(state.pending_fetch_types)
              /\ \A i \in 1 .. Len(Unanswered) :
                   Unanswered[i] = [kind |-> "fetch", id |-> state.id,
                                    serial |-> state.pending_fetch_types[i].serial]
<1>1. CASE state = None
  BY <1>1 DEF Unanswered
<1>2. CASE state # None
  <2>1. state.pending_fetch_types \in Seq(Queued) /\ state.id \in Nat
    BY <1>2 DEF TypeOK, DragStates
  <2> QED BY <1>2, <2>1, MappedIs DEF Unanswered
<1> QED BY <1>1, <1>2

\* The stage of every transfer, as the state of the drag tells it.
LEMMA StageIs ==
  ASSUME TypeOK
  PROVE  /\ DOMAIN Stage = Sources
         /\ \A t \in Sources :
              Stage[t] = IF state # None /\ state.id = t
                         THEN IF state.finished # None \/ Inside("DragDropped")
                              THEN "dropped" ELSE "over"
                         ELSE IF t <= ids THEN "ended" ELSE "none"
BY DEF Stage, Known, Inside

\* A step that leaves what the contract speaks of in the state of the drag as
\* it was.
LEMMA SameTransfer ==
  ASSUME ids' = ids, state = None => state' = None,
         state # None =>
           /\ state' # None /\ state'.id = state.id
           /\ state'.pending_fetch_types = state.pending_fetch_types
           /\ (state'.finished # None \/ Inside("DragDropped")')
                <=> (state.finished # None \/ Inside("DragDropped"))
  PROVE  Stage' = Stage /\ Unanswered' = Unanswered
<1>1. Unanswered' = Unanswered
  BY DEF Unanswered
<1>2. Stage' = Stage
  BY DEF Stage, Known, Inside
<1> QED BY <1>1, <1>2

\* The event of a callback.
LEMMA EventIs ==
  ASSUME TypeOK
  PROVE  /\ inside = None => Event = None
         /\ inside # None =>
              /\ Event # None
              /\ Event = [kind |-> inside.kind, id |-> inside.id, serial |-> inside.serial]
<1>1. ASSUME inside # None PROVE Event # None
  <2>1. inside \in Callbacks
    BY <1>1 DEF TypeOK
  <2>2. [kind |-> inside.kind, id |-> inside.id, serial |-> inside.serial]
          \in [kind : Kinds, id : Nat, serial : Nat]
    BY <2>1 DEF Callbacks
  <2>3. [kind |-> inside.kind, id |-> inside.id, serial |-> inside.serial] # None
    BY <2>2, X11DndAssumption
  <2> QED BY <1>1, <2>3 DEF Event
<1> QED BY <1>1 DEF Event

\* A callback begins: nothing else is told of the application.
LEMMA Begins ==
  ASSUME TypeOK, TypeOK', inside = None, NEW kind \in Kinds, NEW id \in Nat,
         inside' = Callback(kind, id)
  PROVE  Transfer!Begin(kind, id)
<1>1. Callback(kind, id) \in Callbacks
  BY DEF Callback, Callbacks
<1>2. inside' # None
  BY <1>1, X11DndAssumption
<1>3. /\ Event = None
      /\ Event' = [kind |-> inside'.kind, id |-> inside'.id, serial |-> inside'.serial]
  BY <1>2 DEF Event
<1>4. inside'.kind = kind /\ inside'.id = id /\ inside'.serial = 0
  BY DEF Callback
<1> QED BY <1>3, <1>4 DEF Transfer!Begin, Transfer!Plain

\* A callback about something else.
LEMMA OtherRefines ==
  ASSUME TypeOK, TypeOK', OtherCallback
  PROVE  Transfer!Other
<1>1. /\ inside = None /\ inside' = Callback("other", 0) /\ UNCHANGED <<state, ids>>
  BY DEF OtherCallback
<1>2. Transfer!Begin("other", 0)
  BY <1>1, Begins DEF Kinds
<1>3. ~Inside("DragDropped") /\ ~Inside("DragDropped")'
  BY <1>1 DEF Inside, Callback
<1>4. Stage' = Stage /\ Unanswered' = Unanswered
  BY <1>1, <1>3, SameTransfer
<1> QED BY <1>2, <1>4 DEF Transfer!Other, Transfer!Begin

\* The drag begins: its id is the one after the last, and no other lives.
LEMMA EnterRefines ==
  ASSUME TypeOK, TypeOK', InOrder, XdndEnter
  PROVE  ids + 1 \in Sources /\ Transfer!DragEntered(ids + 1)
<1> DEFINE t == ids + 1
<1>1. /\ Handle("enter") /\ ids' = t /\ inside' = Callback("DragEntered", t)
      /\ state' = [id |-> t, source_window |-> Head(wire).source,
                   pending_fetch_types |-> <<>>, finished |-> None, accepted |-> FALSE]
  BY DEF XdndEnter
<1>2. 1 \in DOMAIN wire /\ wire[1].kind = "enter" /\ inside = None
  BY <1>1, TailIs DEF Handle, TypeOK
<1>3. state = None /\ ids = current - 1 /\ current \in Sources
  BY <1>2 DEF InOrder, Wired, Carries
<1>4. t \in Sources /\ t = current /\ ids \in Nat
  BY <1>3 DEF TypeOK, Sources
<1>5. state' # None /\ state'.id = t /\ state'.finished = None /\ state'.pending_fetch_types = <<>>
  <2>1. t \in Nat
    BY <1>4
  <2>2. wire[1] \in Messages /\ Head(wire) = wire[1]
    BY <1>1, <1>2, TailIs DEF TypeOK, Handle
  <2>3. <<>> \in Seq(Queued) /\ Head(wire).source \in 0 .. Drags
    BY <2>2 DEF Messages
  <2>4. state' \in DragStates
    BY <1>1, <2>1, <2>3 DEF DragStates
  <2>5. state' # None
    BY <2>4, X11DndAssumption
  <2> QED BY <1>1, <2>5
<1>6. ~Inside("DragDropped")'
  BY <1>1 DEF Inside, Callback
<1> HIDE DEF t
<1>7. \A u \in Sources : Stage[u] = IF u <= ids THEN "ended" ELSE "none"
  BY <1>3, StageIs
<1>8. DOMAIN Stage' = Sources
      /\ \A u \in Sources : Stage'[u] = IF u = t THEN "over" ELSE IF u <= t THEN "ended" ELSE "none"
  BY <1>1, <1>5, <1>6 DEF Stage, Known, Inside
<1>9. \A u \in Sources : u # t => (u <= t <=> u <= ids)
  BY <1>4 DEF Sources, t
<1>10. Stage' = [Stage EXCEPT ![t] = "over"]
  <2>1. DOMAIN Stage = Sources
    BY StageIs
  <2>2. Stage = [u \in Sources |-> Stage[u]] /\ Stage' = [u \in Sources |-> Stage'[u]]
    BY DEF Stage
  <2>3. \A u \in Sources : Stage'[u] = [Stage EXCEPT ![t] = "over"][u]
    BY <1>7, <1>8, <1>9, <2>1
  <2> QED BY <2>1, <2>2, <2>3
<1>11. Stage[t] = "none"
  BY <1>4, <1>7 DEF t
<1>12. Unanswered' = Unanswered
  <2>1. Unanswered = <<>>
    BY <1>3 DEF Unanswered
  <2>2. Unanswered' = [i \in DOMAIN <<>> |-> [kind |-> "fetch", id |-> t,
                                                serial |-> (<<>>)[i].serial]]
    BY <1>5 DEF Unanswered
  <2>3. t \in Nat /\ <<>> \in Seq(Queued)
    BY <1>4 DEF t
  <2>4. Unanswered' \in Seq(Fetched) /\ Len(Unanswered') = 0
    BY <2>2, <2>3, MappedIs
  <2> QED BY <2>1, <2>4
<1>13. Transfer!Begin("DragEntered", t)
  BY <1>1, <1>2, <1>4, Begins DEF Kinds, t
<1> QED BY <1>4, <1>7, <1>10, <1>11, <1>12, <1>13 DEF Transfer!DragEntered, t

\* What the source of a drag says of it before the drop is answered: the
\* transfer has not been dropped.
LEMMA OverIs ==
  ASSUME TypeOK, InOrder, NEW kind \in {"position", "drop", "leave"}, Handle(kind), state # None
  PROVE  /\ state.id = ids /\ ids \in Sources /\ state.finished = None
         /\ inside = None /\ Stage[ids] = "over"
<1>1. 1 \in DOMAIN wire /\ wire[1].kind = kind /\ inside = None
  BY TailIs DEF Handle, TypeOK
<1>2. state.finished = None
  BY <1>1 DEF InOrder, Owned, Answers
<1>3. state.id = ids /\ ids \in Sources
  BY DEF InOrder, Owned
<1> QED BY <1>1, <1>2, <1>3, StageIs DEF Inside

\* A position is told of while the drag is over the window.
LEMMA PositionRefines ==
  ASSUME TypeOK, TypeOK', InOrder, Placed, XdndPosition
  PROVE  \/ ids \in Sources /\ Transfer!DragPosition(ids)
         \/ UNCHANGED <<Stage, Unanswered, Event>>
<1>1. Handle("position") /\ UNCHANGED <<state, ids>>
  BY DEF XdndPosition
<1>2. CASE state = None
  <2>1. UNCHANGED inside
    BY <1>2 DEF XdndPosition
  <2> QED BY <1>1, <1>2, <2>1, SameTransfer DEF Event
<1>3. CASE state # None
  <2>1. /\ state.id = ids /\ ids \in Sources /\ state.finished = None
        /\ inside = None /\ Stage[ids] = "over"
    BY <1>1, <1>3, OverIs
  <2>2. inside' = Callback("DragPosition", ids)
    BY <1>3, <2>1 DEF XdndPosition, Placed
  <2>3. Transfer!Begin("DragPosition", ids)
    BY <2>1, <2>2, Begins DEF Kinds, TypeOK
  <2>4. ~Inside("DragDropped") /\ ~Inside("DragDropped")'
    BY <2>1, <2>2 DEF Inside, Callback
  <2>5. Stage' = Stage /\ Unanswered' = Unanswered
    BY <1>1, <2>4, SameTransfer
  <2> QED BY <2>1, <2>3, <2>5 DEF Transfer!DragPosition
<1> QED BY <1>2, <1>3

\* A drop is told of once: the transfer was over the window.
LEMMA DropRefines ==
  ASSUME TypeOK, TypeOK', InOrder, XdndDrop
  PROVE  \/ ids \in Sources /\ Transfer!DragDropped(ids)
         \/ UNCHANGED <<Stage, Unanswered, Event>>
<1>1. Handle("drop") /\ UNCHANGED <<state, ids>>
  BY DEF XdndDrop
<1>2. CASE state = None
  <2>1. UNCHANGED inside
    BY <1>1, <1>2 DEF XdndDrop, Handle
  <2> QED BY <1>1, <1>2, <2>1, SameTransfer DEF Event
<1>3. CASE state # None
  <2>1. /\ state.id = ids /\ ids \in Sources /\ state.finished = None
        /\ inside = None /\ Stage[ids] = "over"
    BY <1>1, <1>3, OverIs
  <2>2. inside' = Callback("DragDropped", ids)
    BY <1>3, <2>1 DEF XdndDrop
  <2>3. Transfer!Begin("DragDropped", ids)
    BY <2>1, <2>2, Begins DEF Kinds, TypeOK
  <2>4. inside' \in Callbacks \union {None} /\ inside'.kind = "DragDropped"
    BY <2>2 DEF TypeOK, Callback
  <2>5. inside' # None
    <3>1. Callback("DragDropped", ids) \in Callbacks
      BY DEF Callback, Callbacks, Kinds, TypeOK
    <3> QED BY <2>2, <3>1, X11DndAssumption
  <2>6. \A t \in Sources : Stage'[t] = IF t = ids THEN "dropped" ELSE IF t <= ids THEN "ended" ELSE "none"
    BY <1>1, <1>3, <2>1, <2>4, <2>5 DEF Stage, Known
  <2>7. \A t \in Sources : Stage[t] = IF t = ids THEN "over" ELSE IF t <= ids THEN "ended" ELSE "none"
    BY <1>3, <2>1, StageIs DEF Inside
  <2>8. Stage' = [Stage EXCEPT ![ids] = "dropped"]
    <3>1. DOMAIN Stage = Sources
      BY StageIs
    <3>2. Stage = [u \in Sources |-> Stage[u]] /\ Stage' = [u \in Sources |-> Stage'[u]]
      BY DEF Stage
    <3>3. \A u \in Sources : Stage'[u] = [Stage EXCEPT ![ids] = "dropped"][u]
      BY <2>6, <2>7, <3>1
    <3> QED BY <3>1, <3>2, <3>3
  <2>9. Unanswered' = Unanswered
    BY <1>1 DEF Unanswered
  <2> QED BY <2>1, <2>3, <2>8, <2>9 DEF Transfer!DragDropped
<1> QED BY <1>2, <1>3

\* Where the state of the drag is reset, its transfer ends.
LEMMA Resets ==
  ASSUME TypeOK, InOrder, state # None, state' = None, ids' = ids
  PROVE  /\ state.id = ids /\ ids \in Sources
         /\ Stage' = [Stage EXCEPT ![ids] = "ended"] /\ Unanswered' = <<>>
<1>1. state.id = ids /\ ids \in Sources
  BY DEF InOrder, Owned
<1>2. \A t \in Sources : Stage'[t] = IF t <= ids THEN "ended" ELSE "none"
  BY DEF Stage, Known
<1>3. \A t \in Sources : t # ids => Stage[t] = IF t <= ids THEN "ended" ELSE "none"
  BY <1>1, StageIs
<1>4. DOMAIN Stage = Sources
  BY StageIs
<1>5. Stage = [u \in Sources |-> Stage[u]] /\ Stage' = [u \in Sources |-> Stage'[u]]
  BY DEF Stage
<1>6. ids <= ids
  BY DEF TypeOK
<1>7. \A u \in Sources : Stage'[u] = [Stage EXCEPT ![ids] = "ended"][u]
  BY <1>1, <1>2, <1>3, <1>4, <1>6
<1>8. Stage' = [Stage EXCEPT ![ids] = "ended"]
  BY <1>4, <1>5, <1>7
<1> QED BY <1>1, <1>8 DEF Unanswered

\* A drag that leaves ends its transfer and its fetches.
LEMMA LeaveRefines ==
  ASSUME TypeOK, TypeOK', InOrder, XdndLeave
  PROVE  \/ ids \in Sources /\ Transfer!DragLeft(ids)
         \/ UNCHANGED <<Stage, Unanswered, Event>>
<1>1. Handle("leave") /\ ids' = ids /\ state' = None
  BY DEF XdndLeave
<1>2. CASE state = None
  <2>1. UNCHANGED inside
    BY <1>1, <1>2 DEF XdndLeave, Handle
  <2> QED BY <1>1, <1>2, <2>1, SameTransfer DEF Event
<1>3. CASE state # None
  <2>1. /\ state.id = ids /\ ids \in Sources /\ inside = None /\ Stage[ids] = "over"
    BY <1>1, <1>3, OverIs
  <2>2. inside' = Callback("DragLeft", ids)
    BY <1>3, <2>1 DEF XdndLeave
  <2>3. Transfer!Begin("DragLeft", ids)
    BY <2>1, <2>2, Begins DEF Kinds, TypeOK
  <2> QED BY <1>1, <1>3, <2>1, <2>3, Resets DEF Transfer!DragLeft
<1> QED BY <1>2, <1>3

\* The oldest fetch is answered: the property holds what it asked for.
LEMMA NotifyRefines ==
  ASSUME TypeOK, TypeOK', InOrder, Placed, SelectionNotify
  PROVE  ids \in Sources /\ Transfer!DataTransferReceived(ids)
<1> DEFINE old == state.pending_fetch_types
           new == Tail(old)
<1>1. /\ Handle("notify") /\ state # None /\ old # <<>> /\ ids' = ids
      /\ state' = [state EXCEPT !.pending_fetch_types = new]
      /\ inside = None
  BY DEF SelectionNotify, Pending, Handle
<1>2. /\ state.id = ids /\ ids \in Sources /\ ids \in Nat
      /\ property = [source |-> ids, type |-> Head(old).type]
  BY <1>1, AnswerIs DEF InOrder, Owned, TypeOK
<1>3. state \in DragStates /\ old \in Seq(Queued)
  BY <1>1 DEF TypeOK, DragStates
<1>4. /\ new \in Seq(Queued) /\ Head(old) \in Queued /\ Head(old) = old[1]
      /\ Len(old) \in Nat \ {0} /\ DOMAIN old = 1 .. Len(old)
      /\ DOMAIN new = 1 .. Len(old) - 1 /\ Len(new) = Len(old) - 1
      /\ \A i \in DOMAIN new : i + 1 \in DOMAIN old /\ new[i] = old[i + 1]
  BY <1>1, <1>3, TailIs
<1>5. inside' = [kind |-> "DataTransferReceived", id |-> ids,
                 serial |-> Head(old).serial, content |-> property]
  <2>1. exists
    BY <1>1 DEF Placed
  <2>2. [source |-> ids, type |-> Head(old).type] \in Contents
    BY <1>2, <1>4 DEF Contents, Sources, Queued
  <2>3. property # None
    BY <1>2, <2>2, X11DndAssumption
  <2> QED BY <1>1, <1>2, <2>1, <2>3 DEF SelectionNotify, Reads
<1>6. /\ state' # None /\ state'.pending_fetch_types = new /\ state'.id = ids
      /\ state'.finished = state.finished
  <2>1. state' \in DragStates
    BY <1>1, <1>3, <1>4 DEF DragStates
  <2> QED BY <1>1, <1>2, <1>3, <2>1, X11DndAssumption DEF DragStates
<1>7. inside' # None
  <2>1. inside' \in [kind : Kinds, id : Nat, serial : Nat, content : Contents \union {None}]
    BY <1>2, <1>4, <1>5 DEF Kinds, Queued, TypeOK
  <2> QED BY <2>1, X11DndAssumption DEF Callbacks
<1> HIDE DEF old, new
<1>8. Stage' = Stage /\ Stage[ids] \in {"over", "dropped"}
  <2>1. ~Inside("DragDropped") /\ ~(inside' # None /\ inside'.kind = "DragDropped")
    BY <1>1, <1>5 DEF Inside
  <2>2. Stage' = Stage
    BY <1>1, <1>2, <1>6, <2>1 DEF Stage, Known, Inside
  <2> QED BY <1>1, <1>2, <2>2, StageIs
<1>9. /\ Unanswered \in Seq(Fetched) /\ Len(Unanswered) = Len(old)
      /\ \A i \in 1 .. Len(old) :
           Unanswered[i] = [kind |-> "fetch", id |-> ids, serial |-> old[i].serial]
  BY <1>1, <1>2, UnansweredIs DEF old
<1>10. /\ Unanswered' \in Seq(Fetched) /\ Len(Unanswered') = Len(old) - 1
       /\ \A i \in 1 .. Len(old) - 1 :
            Unanswered'[i] = [kind |-> "fetch", id |-> ids, serial |-> new[i].serial]
  <2>1. Unanswered' = [i \in DOMAIN new |-> [kind |-> "fetch", id |-> ids, serial |-> new[i].serial]]
    BY <1>6 DEF Unanswered
  <2> DEFINE m == Unanswered'
  <2>2. /\ m \in Seq(Fetched) /\ Len(m) = Len(new)
        /\ \A i \in 1 .. Len(new) : m[i] = [kind |-> "fetch", id |-> ids, serial |-> new[i].serial]
    <3>1. new \in Seq(Queued) /\ ids \in Nat
      BY <1>2, <1>4
    <3> QED BY <2>1, <3>1, MappedIs
  <2> QED BY <1>4, <2>2
<1>11. Unanswered # <<>>
  BY <1>4, <1>9
<1>12. /\ Tail(Unanswered) \in Seq(Fetched) /\ Head(Unanswered) = Unanswered[1]
       /\ Len(Tail(Unanswered)) = Len(old) - 1
       /\ \A i \in 1 .. Len(old) - 1 : Tail(Unanswered)[i] = Unanswered[i + 1]
  <2>1. DOMAIN Tail(Unanswered) = 1 .. Len(old) - 1
    BY <1>9, <1>11, TailIs
  <2> QED BY <1>4, <1>9, <1>11, <2>1, TailIs
<1>13. \A i \in 1 .. Len(old) - 1 : Unanswered'[i] = Tail(Unanswered)[i]
  <2> TAKE i \in 1 .. Len(old) - 1
  <2>1. new[i] = old[i + 1] /\ i + 1 \in 1 .. Len(old)
    BY <1>4
  <2> QED BY <1>9, <1>10, <1>12, <2>1
<1>14. Unanswered' = Tail(Unanswered)
  BY <1>10, <1>12, <1>13, SeqEqual
<1>15. Head(Unanswered) = [kind |-> "fetch", id |-> ids, serial |-> old[1].serial]
  <2>1. 1 \in 1 .. Len(old)
    BY <1>4
  <2> QED BY <1>9, <1>12, <2>1
<1>16. Event = None /\ Event' = [kind |-> "DataTransferReceived", id |-> ids, serial |-> old[1].serial]
  BY <1>1, <1>4, <1>5, <1>7 DEF Event, old
<1>17. Event' = [Head(Unanswered) EXCEPT !.kind = "DataTransferReceived"]
  BY <1>15, <1>16
<1> QED BY <1>2, <1>8, <1>11, <1>14, <1>15, <1>16, <1>17 DEF Transfer!DataTransferReceived

\* A callback that is over, the drag being as it was.
LEMMA PlainRefines ==
  ASSUME TypeOK, ReturnPlain
  PROVE  Transfer!Returned
<1>1. /\ inside # None /\ inside' = None /\ inside.kind # "DragDropped"
      /\ UNCHANGED <<state, ids>>
  BY DEF ReturnPlain, Return
<1>2. Stage' = Stage /\ Unanswered' = Unanswered
  BY <1>1, SameTransfer DEF Inside
<1>3. Event # None /\ Event' = None
  BY <1>1, EventIs DEF Event
<1> QED BY <1>2, <1>3 DEF Transfer!Returned

\* The transfer ends with the callback that answered what was left.
LEMMA EndRefines ==
  ASSUME TypeOK, InOrder, state # None, ~Pending, state' = None, ids' = ids,
         inside # None, inside' = None,
         state.finished # None \/ Inside("DragDropped")
  PROVE  ids \in Sources /\ Transfer!Ended(ids)
<1>1. /\ state.id = ids /\ ids \in Sources
      /\ Stage' = [Stage EXCEPT ![ids] = "ended"] /\ Unanswered' = <<>>
  BY Resets
<1>2. Unanswered = <<>>
  <2>1. state.pending_fetch_types = <<>>
    BY DEF Pending
  <2>2. Unanswered \in Seq(Fetched) /\ Len(Unanswered) = 0
    BY <2>1, UnansweredIs
  <2> QED BY <2>2
<1>3. Event # None /\ Event' = None
  BY EventIs DEF Event
<1>4. Stage[ids] = "dropped"
  BY <1>1, StageIs
<1> QED BY <1>1, <1>2, <1>3, <1>4 DEF Transfer!Ended

\* After DragDropped the transfer ends if nothing waits, and else lives on.
LEMMA DroppedRefines ==
  ASSUME TypeOK, InOrder, ReturnDropped
  PROVE  \/ Transfer!Returned
         \/ ids \in Sources /\ Transfer!Ended(ids)
<1>1. /\ Inside("DragDropped") /\ inside' = None /\ ids' = ids
      /\ state # None /\ state.source_window = ids /\ ids \in Sources
  BY DEF ReturnDropped, Return, InOrder, Owned, Inside
<1>2. CASE Pending
  <2>1. state \in DragStates /\ state' = [state EXCEPT !.finished = ids] /\ ids \in 0 .. Drags
    BY <1>1, <1>2 DEF ReturnDropped, Waiting, TypeOK, Sources
  <2>2. /\ state' # None /\ state'.id = state.id /\ state'.finished = ids /\ ids # None
        /\ state'.pending_fetch_types = state.pending_fetch_types
    <3>1. state' \in DragStates
      BY <2>1 DEF DragStates
    <3> QED BY <2>1, <3>1, X11DndAssumption DEF DragStates
  <2>3. Stage' = Stage /\ Unanswered' = Unanswered
    BY <1>1, <2>2, SameTransfer
  <2>4. Event # None /\ Event' = None
    BY <1>1, EventIs DEF Event, Inside
  <2> QED BY <2>3, <2>4 DEF Transfer!Returned
<1>3. CASE ~Pending
  <2>1. state' = None
    BY <1>3 DEF ReturnDropped, Waiting, send_finished
  <2> QED BY <1>1, <1>3, <2>1, EndRefines DEF Inside
<1> QED BY <1>2, <1>3

\* After DataTransferReceived a dropped transfer ends with the last fetch.
LEMMA ReceivedRefines ==
  ASSUME TypeOK, InOrder, ReturnReceived
  PROVE  \/ Transfer!Returned
         \/ ids \in Sources /\ Transfer!Ended(ids)
<1>1. /\ Inside("DataTransferReceived") /\ inside' = None /\ ids' = ids /\ inside # None
      /\ ~Inside("DragDropped")
  BY DEF ReturnReceived, Return, Inside
<1>2. CASE state' = state
  <2>1. Stage' = Stage /\ Unanswered' = Unanswered
    BY <1>1, <1>2, SameTransfer DEF Inside
  <2>2. Event # None /\ Event' = None
    BY <1>1, EventIs DEF Event
  <2> QED BY <2>1, <2>2 DEF Transfer!Returned
<1>3. CASE ~Pending /\ FinishNow /\ state' = None
  BY <1>1, <1>3, EndRefines DEF FinishNow
<1> QED BY <1>2, <1>3 DEF ReturnReceived, AsksNext, send_finished

\* Every step of the handlers is a step of the contract, or none.
LEMMA StepRefines ==
  ASSUME TypeOK, TypeOK', InOrder, Placed, [Next]_vars
  PROVE  [Transfer!Next]_(Transfer!vars)
<1> USE DEF Transfer!vars
<1>1. ASSUME UNCHANGED <<state, ids, inside>>
      PROVE  UNCHANGED <<Stage, Unanswered, Event>>
  <2>1. Inside("DragDropped")' <=> Inside("DragDropped")
    BY <1>1 DEF Inside
  <2> QED BY <1>1, <2>1, SameTransfer DEF Event
<1>2. CASE Enter \/ Move \/ Leave \/ Release \/ Answer
  BY <1>1, <1>2 DEF Enter, Move, Leave, Release, Answer, app
<1>3. CASE DropWindow
  BY <1>1, <1>3 DEF DropWindow
<1>4. ASSUME NEW id \in 1 .. ids, NEW accepted \in BOOLEAN, set_valid_dnd_actions(id, accepted)
      PROVE  UNCHANGED <<Stage, Unanswered, Event>>
  <2>1. /\ state # None /\ state \in DragStates /\ state' = [state EXCEPT !.accepted = accepted]
        /\ UNCHANGED <<ids, inside>>
    BY <1>4 DEF set_valid_dnd_actions, Known, app, TypeOK
  <2>2. /\ state' # None /\ state'.id = state.id
        /\ state'.pending_fetch_types = state.pending_fetch_types
        /\ state'.finished = state.finished
    <3>1. state' \in DragStates
      BY <2>1 DEF DragStates
    <3> QED BY <2>1, <3>1, X11DndAssumption DEF DragStates
  <2>3. Stage' = Stage /\ Unanswered' = Unanswered
    BY <2>1, <2>2, SameTransfer DEF Inside
  <2> QED BY <2>1, <2>3 DEF Event
<1>5. ASSUME inside # None, NEW id \in 1 .. ids, NEW type \in Types, Fetch(id, type)
      PROVE  Transfer!Next
  <2> DEFINE q == [serial |-> Len(asked) + 1, type |-> type]
             old == state.pending_fetch_types
             new == Append(old, q)
  <2>1. /\ state # None /\ state \in DragStates /\ old \in Seq(Queued) /\ q \in Queued
        /\ state.id = id /\ state' = [state EXCEPT !.pending_fetch_types = new]
        /\ UNCHANGED <<ids, inside>>
    BY <1>5 DEF Fetch, Known, TypeOK, DragStates, Queued
  <2>2. new \in Seq(Queued)
    BY <2>1, AppendIs
  <2>3. q.serial = Len(asked) + 1 /\ asked \in Seq([id : Nat, type : Types])
    BY DEF TypeOK
  <2> HIDE DEF q, new
  <2>4. /\ state' # None /\ state'.pending_fetch_types = new /\ state'.id = id
        /\ state'.finished = state.finished
    <3>1. state' \in DragStates
      BY <2>1, <2>2 DEF DragStates
    <3> QED BY <2>1, <3>1, X11DndAssumption DEF DragStates
  <2>5. /\ Len(old) \in Nat /\ Len(new) = Len(old) + 1 /\ DOMAIN old = 1 .. Len(old)
        /\ \A i \in DOMAIN old : new[i] = old[i]
        /\ new[Len(old) + 1] = q
    BY <2>1, AppendIs DEF new
  <2> HIDE DEF old
  <2>6. /\ Unanswered \in Seq(Fetched) /\ Len(Unanswered) = Len(old)
        /\ \A i \in 1 .. Len(old) : Unanswered[i] = [kind |-> "fetch", id |-> id, serial |-> old[i].serial]
    BY <2>1, UnansweredIs DEF old
  <2>7. /\ Unanswered' \in Seq(Fetched) /\ Len(Unanswered') = Len(old) + 1
        /\ \A i \in 1 .. Len(old) + 1 :
             Unanswered'[i] = [kind |-> "fetch", id |-> id, serial |-> new[i].serial]
    <3>1. /\ Unanswered' \in Seq(Fetched) /\ Len(Unanswered') = Len(new)
          /\ \A i \in 1 .. Len(Unanswered') :
               Unanswered'[i] = [kind |-> "fetch", id |-> id, serial |-> new[i].serial]
      <4>1. Unanswered' = [i \in DOMAIN new |-> [kind |-> "fetch", id |-> id, serial |-> new[i].serial]]
        BY <2>4 DEF Unanswered
      <4>2. new \in Seq(Queued) /\ id \in Nat
        BY <2>2, <2>1 DEF DragStates
      <4> QED BY <4>1, <4>2, MappedIs
    <3> QED BY <2>5, <3>1
  <2>8. Transfer!Front(Unanswered') = Unanswered
    <3>1. SubSeq(Unanswered', 1, Len(old)) \in Seq(Fetched) /\ Len(SubSeq(Unanswered', 1, Len(old))) = Len(old)
          /\ \A i \in 1 .. Len(old) : SubSeq(Unanswered', 1, Len(old))[i] = Unanswered'[i]
      BY <2>5, <2>7
    <3>2. ASSUME NEW i \in 1 .. Len(old)
          PROVE  SubSeq(Unanswered', 1, Len(old))[i] = Unanswered[i]
      <4>1. i \in 1 .. Len(old) + 1 /\ i \in DOMAIN old
        BY <2>5
      <4>2. Unanswered'[i] = [kind |-> "fetch", id |-> id, serial |-> new[i].serial]
        BY <2>7, <4>1
      <4>3. Unanswered[i] = [kind |-> "fetch", id |-> id, serial |-> new[i].serial]
        BY <2>5, <2>6, <4>1
      <4> QED BY <3>1, <4>2, <4>3
    <3>3. SubSeq(Unanswered', 1, Len(old)) = Unanswered
      BY <2>6, <3>1, <3>2, SeqEqual
    <3>4. Len(Unanswered') - 1 = Len(old)
      BY <2>5, <2>7
    <3> QED BY <3>3, <3>4 DEF Transfer!Front
  <2>9. /\ Transfer!Last(Unanswered').id = id /\ Transfer!Last(Unanswered').serial = Len(asked) + 1
        /\ Unanswered' # <<>>
    BY <2>3, <2>5, <2>7 DEF Transfer!Last
  <2>10. \A i \in DOMAIN Unanswered : Unanswered[i].serial < Len(asked) + 1
    <3>1. \A i \in 1 .. Len(old) : old[i].serial \in DOMAIN asked
      BY <2>1, <2>5 DEF InOrder, Owned, old
    <3>2. \A i \in 1 .. Len(old) : old[i].serial < Len(asked) + 1
      BY <2>3, <3>1
    <3>3. DOMAIN Unanswered = 1 .. Len(old)
      BY <2>6
    <3> QED BY <2>6, <3>2, <3>3
  <2>11. Stage' = Stage
    BY <2>1, <2>4 DEF Stage, Known
  <2>12. id \in Sources /\ Stage[id] \in {"over", "dropped"}
    <3>1. id = ids /\ ids \in Sources
      BY <2>1 DEF InOrder, Owned
    <3> QED BY <2>1, <3>1, StageIs
  <2>13. Event # None /\ Event' = Event
    <3>1. inside \in Callbacks
      BY <1>5 DEF TypeOK
    <3>2. [kind |-> inside.kind, id |-> inside.id, serial |-> inside.serial]
            \in [kind : Kinds, id : Nat, serial : Nat]
      BY <3>1 DEF Callbacks
    <3>3. [kind |-> inside.kind, id |-> inside.id, serial |-> inside.serial] # None
      BY <3>2, X11DndAssumption
    <3> QED BY <1>5, <2>1, <3>3 DEF Event
  <2>14. Transfer!Fetch(id)
    BY <2>8, <2>9, <2>10, <2>11, <2>12, <2>13 DEF Transfer!Fetch
  <2> QED BY <2>12, <2>14 DEF Transfer!Next
<1>6. CASE Call
  <2>1. CASE \E id \in 1 .. ids : inside.kind \in env.fetches /\ \E type \in Types : Fetch(id, type)
    <3>1. PICK id \in 1 .. ids, type \in Types : Fetch(id, type)
      BY <2>1
    <3> QED BY <1>5, <1>6, <3>1 DEF Call
  <2>2. CASE \E id \in 1 .. ids : \E accepted \in BOOLEAN : set_valid_dnd_actions(id, accepted)
    <3>1. PICK id \in 1 .. ids, accepted \in BOOLEAN : set_valid_dnd_actions(id, accepted)
      BY <2>2
    <3> QED BY <1>4, <3>1
  <2>3. \/ DropWindow
        \/ \E id \in 1 .. ids : inside.kind \in env.fetches /\ \E type \in Types : Fetch(id, type)
        \/ \E id \in 1 .. ids : \E accepted \in BOOLEAN : set_valid_dnd_actions(id, accepted)
    BY <1>6 DEF Call
  <2> QED BY <1>3, <2>1, <2>2, <2>3
<1>7. CASE OtherCallback
  BY <1>7, OtherRefines DEF Transfer!Next
<1>8. CASE XdndEnter
  BY <1>8, EnterRefines DEF Transfer!Next
<1>9. CASE XdndPosition
  BY <1>9, PositionRefines DEF Transfer!Next
<1>10. CASE XdndDrop
  BY <1>10, DropRefines DEF Transfer!Next
<1>11. CASE XdndLeave
  BY <1>11, LeaveRefines DEF Transfer!Next
<1>12. CASE Nothing
  BY <1>1, <1>12 DEF Nothing
<1>13. CASE SelectionNotify
  BY <1>13, NotifyRefines DEF Transfer!Next
<1>14. CASE ReturnPlain
  BY <1>14, PlainRefines DEF Transfer!Next
<1>15. CASE ReturnDropped
  BY <1>15, DroppedRefines DEF Transfer!Next
<1>16. CASE ReturnReceived
  BY <1>16, ReceivedRefines DEF Transfer!Next
<1>17. CASE UNCHANGED vars
  BY <1>1, <1>17 DEF vars, app
<1> QED BY <1>2, <1>6, <1>7, <1>8, <1>9, <1>10, <1>11, <1>12, <1>13, <1>14, <1>15, <1>16, <1>17
           DEF Next, Drag, Handlers, Returns

----
(* The theorems. *)

\* The state of the drag, the wire and the callbacks keep their types.
THEOREM TypeCorrectness == Spec => []TypeOK
BY InitType, NextType, PTL DEF Spec

\* The application fetches in any callback but that of an answer, and no drag
\* starts while the one before it is unfinished.
Courteous == \A e \in Environments : ~e.hasty /\ "DataTransferReceived" \notin e.fetches

\* The window is dropped between drags only.
Between == \A e \in Environments : e.drops = "between"

\* Courtesy of the environments, in a state.
LEMMA CourteousIs == ASSUME TypeOK, Courteous PROVE Polite
BY DEF TypeOK, Courteous, Polite

\* The order of the drag holds in every state.
LEMMA Invariance == ASSUME Courteous PROVE Spec => [](TypeOK /\ InOrder)
<1>1. Init => TypeOK /\ InOrder
  BY InitType, InitOrderly
<1>2. TypeOK /\ InOrder /\ [Next]_vars => (TypeOK /\ InOrder)'
  BY NextType, NextOrderly, CourteousIs
<1> QED BY <1>1, <1>2, PTL DEF Spec

\* Each DataTransferReceived brings what its fetch asked for (dnd.rs read_data,
\* selection_notify): the type of that serial, from the source of that transfer.
THEOREM AnswersMatch == ASSUME Courteous PROVE Spec => []AnswerMatches
<1>1. TypeOK /\ InOrder => AnswerMatches
  BY DEF InOrder, Owned, Inside, AnswerMatches
<1> QED BY <1>1, Invariance, PTL

\* The drags keep the contract of winit-core: the order of the events of a
\* transfer, each fetch answered once and in order, the end of a drop after
\* the last answer.
THEOREM ImplementsContract == ASSUME Courteous, Between PROVE Spec => Contract
<1>1. Init => Transfer!Init
  BY DEF Init, Transfer!Init, Stage, Known, Unanswered, Event, Sources
<1>2. Init => Placed
  BY DEF Init, Placed
<1>3. TypeOK /\ InOrder /\ Placed /\ [Next]_vars => Placed'
  BY NextPlaced DEF TypeOK, Between
<1>4. TypeOK /\ TypeOK' /\ InOrder /\ Placed /\ [Next]_vars
        => [Transfer!Next]_(Transfer!vars)
  BY StepRefines
<1> QED BY <1>1, <1>2, <1>3, <1>4, Invariance, PTL DEF Spec, Contract, Transfer!Spec

----
(* Input methods. *)

Record == [ic : BOOLEAN, allowed : BOOLEAN, preedit : BOOLEAN]
Asked == Windows \X BOOLEAN
Heard == Windows \X {"Enabled", "Disabled", "Start", "End"}
Lives == {"none", "alive", "dropped", "gone"}

\* None is neither a window nor a context.
Distinct == None \notin Windows /\ None \notin Record

\* Types, part by part.
LEMMA ImeTyped ==
  ASSUME Ime!TypeOK
  PROVE  /\ is_destroyed \in BOOLEAN /\ is_fallback \in BOOLEAN /\ watching \in BOOLEAN
         /\ is_composing \in BOOLEAN /\ ime_panicked \in BOOLEAN /\ frozen \in BOOLEAN
         /\ unwanted \in BOOLEAN /\ server \in BOOLEAN /\ lost \in BOOLEAN /\ freed \in BOOLEAN
         /\ im \in {"server", "local"} /\ pc \in {"xevent", "requests", "events"}
         /\ contexts \in [Windows -> {None} \union Record]
         /\ ime_requests \in Seq(Asked) /\ events \in Seq(Heard)
         /\ active \in Windows \union {None} /\ life \in [Windows -> Lives]
         /\ capabilities \subseteq Windows /\ told \in [Windows -> {"enabled", "disabled"}]
         /\ typing \in ImeEnvironments /\ done \in Nat /\ due \in BOOLEAN
BY DEF Ime!TypeOK, Record, Asked, Heard, Lives

\* The elements of the two channels.
LEMMA ChannelsTyped ==
  ASSUME Ime!TypeOK
  PROVE  /\ \A i \in DOMAIN ime_requests :
              ime_requests[i][1] \in Windows /\ ime_requests[i][2] \in BOOLEAN
         /\ \A i \in DOMAIN events :
              /\ events[i][1] \in Windows
              /\ events[i][2] \in {"Enabled", "Disabled", "Start", "End"}
              /\ events[i] = <<events[i][1], events[i][2]>>
<1>1. ime_requests \in Seq(Asked) /\ events \in Seq(Heard)
  BY ImeTyped
<1>2. \A i \in DOMAIN ime_requests : ime_requests[i] \in Asked
  BY <1>1
<1>3. \A i \in DOMAIN events : events[i] \in Heard
  BY <1>1
<1> QED BY <1>2, <1>3 DEF Asked, Heard

\* A fresh context.
LEMMA ContextIs ==
  ASSUME NEW on \in BOOLEAN
  PROVE  /\ Ime!Context(on) \in Record /\ Ime!Context(on).ic = TRUE
         /\ Ime!Context(on).allowed = on /\ Ime!Context(on).preedit = FALSE
         /\ Ime!Empty \in Record
BY DEF Ime!Context, Ime!Empty, Record

\* What has a context is typed.
LEMMA ContextTyped ==
  ASSUME Ime!TypeOK, NEW w \in Windows
  PROVE  contexts[w] # None => contexts[w] \in Record
BY ImeTyped

\* The contexts after a rebuild.
LEMMA RebuiltType ==
  ASSUME Ime!TypeOK, NEW f, f = [w \in Windows |-> IF contexts[w] = None THEN None
                                                ELSE Ime!Rebuilt(contexts[w])]
  PROVE  f \in [Windows -> {None} \union Record]
<1>1. \A w \in Windows : contexts[w] # None => Ime!Rebuilt(contexts[w]) \in Record
  <2> SUFFICES ASSUME NEW w \in Windows, contexts[w] # None PROVE Ime!Rebuilt(contexts[w]) \in Record
    OBVIOUS
  <2>1. contexts[w].allowed \in BOOLEAN
    BY ContextTyped DEF Record
  <2> QED BY <2>1, ContextIs DEF Ime!Rebuilt
<1> QED BY <1>1

\* The types after a step.
Good ==
  /\ is_destroyed \in BOOLEAN /\ is_fallback \in BOOLEAN /\ watching \in BOOLEAN
  /\ is_composing \in BOOLEAN /\ ime_panicked \in BOOLEAN /\ frozen \in BOOLEAN
  /\ unwanted \in BOOLEAN /\ server \in BOOLEAN /\ lost \in BOOLEAN /\ freed \in BOOLEAN
  /\ im \in {"server", "local"} /\ pc \in {"xevent", "requests", "events"}
  /\ contexts \in [Windows -> {None} \union Record]
  /\ ime_requests \in Seq(Asked) /\ events \in Seq(Heard)
  /\ active \in Windows \union {None} /\ life \in [Windows -> Lives]
  /\ capabilities \subseteq Windows /\ told \in [Windows -> {"enabled", "disabled"}]
  /\ typing \in ImeEnvironments /\ done \in Nat

----
(* What an environment never does, and what holds between the steps.  Xlib tells of the *)
(* end of the server before anything else happens, and no server goes while a dropped *)
(* window has its context. *)

Calm == \A e \in ImeEnvironments :
  /\ "unseen" \notin e.races /\ "dying" \notin e.races
  /\ "late" \in e.races => "server" \notin e.ops

LeavesLate == "late" \in typing.races

\* The input method that is open, and what is known of it.
Connected ==
  /\ is_destroyed = FALSE /\ freed = FALSE /\ ime_panicked = FALSE /\ frozen = FALSE
  /\ is_fallback => im = "local"
  /\ watching => im = "local"
  /\ lost => /\ im = "server" /\ server = FALSE /\ ~LeavesLate /\ ime_requests = <<>>
             /\ \A w \in Windows : life[w] # "dropped"

\* Which windows have contexts, and which of them ask for something.
Housed ==
  /\ \A w \in Windows : Ime!HasIc(w) \/ contexts[w] = None
  /\ \A w \in Windows : life[w] = "none" => contexts[w] = None /\ w \notin capabilities
  /\ \A i \in DOMAIN ime_requests : life[ime_requests[i][1]] # "none"
  /\ ~LeavesLate => /\ \A w \in Windows : contexts[w] # None => life[w] \in {"alive", "dropped"}
               /\ \A i \in DOMAIN ime_requests : life[ime_requests[i][1]] = "alive"

\* What a window's context allows, with its requests, is what it asked for last.
Obeyed(w) ==
  /\ Ime!HasIc(w)
  /\ \A i \in DOMAIN ime_requests :
       \/ ime_requests[i][1] # w
       \/ \E j \in DOMAIN ime_requests : i < j /\ ime_requests[j][1] = w
       \/ ime_requests[i][2] = (w \in capabilities)
  /\ \/ \E i \in DOMAIN ime_requests : ime_requests[i][1] = w
     \/ contexts[w].allowed = (w \in capabilities)

Followed == \A w \in Windows : life[w] = "alive" => Obeyed(w)

----
(* The steps, as these find them. *)

Creates(w) ==
  /\ life[w] = "none" /\ lost = FALSE /\ Ime!Nobody
  /\ life' = [life EXCEPT ![w] = "alive"]
  /\ contexts' = [contexts EXCEPT ![w] = Ime!Context(FALSE)]
  /\ events' = Append(events, <<w, "Disabled">>)
  /\ UNCHANGED <<im, is_destroyed, is_fallback, watching, freed, ime_requests, is_composing,
                 active, pc, ime_panicked, frozen, capabilities, told, unwanted,
                 server, lost, typing>>
  /\ done' \in Nat

Requests(w, on) ==
  /\ life[w] = "alive" /\ lost = FALSE /\ Ime!Alone(w)
  /\ capabilities' = IF on THEN capabilities \union {w} ELSE capabilities \ {w}
  /\ ime_requests' = Append(ime_requests, <<w, on>>)
  /\ UNCHANGED <<im, contexts, is_destroyed, is_fallback, watching, freed, events,
                 is_composing, active, pc, ime_panicked, frozen, life, told, unwanted,
                 server, lost, typing>>
  /\ done' \in Nat

Drops(w) ==
  /\ life[w] = "alive" /\ lost = FALSE /\ Ime!Nobody
  /\ LeavesLate \/ Ime!Quiet
  /\ life' = [life EXCEPT ![w] = "dropped"]
  /\ UNCHANGED <<im, contexts, is_destroyed, is_fallback, watching, freed, ime_requests,
                 events, is_composing, active, pc, ime_panicked, frozen, capabilities,
                 told, unwanted, server, lost, typing>>
  /\ done' \in Nat

Goes ==
  /\ Ime!Nobody /\ ~LeavesLate /\ ime_requests = <<>> /\ (\A w \in Windows : life[w] # "dropped")
  /\ server' = FALSE /\ lost' = (lost \/ im = "server")
  /\ UNCHANGED <<im, contexts, is_destroyed, is_fallback, watching, freed, ime_requests,
                 events, is_composing, active, pc, ime_panicked, frozen, life, capabilities,
                 told, unwanted, typing>>
  /\ done' \in Nat

Comes ==
  /\ lost = FALSE /\ server' = TRUE
  /\ UNCHANGED <<im, contexts, is_destroyed, is_fallback, watching, freed, ime_requests,
                 events, is_composing, active, pc, ime_panicked, frozen, life, capabilities,
                 told, unwanted, lost, typing>>
  /\ done' \in Nat

Falls ==
  /\ pc = "xevent" /\ pc' = "requests"
  /\ lost = TRUE /\ lost' = FALSE /\ im' = "local"
  /\ contexts' = [w \in Windows |-> IF contexts[w] = None THEN None
                                    ELSE Ime!Rebuilt(contexts[w])]
  /\ is_fallback' = TRUE /\ watching' = TRUE
  /\ UNCHANGED <<is_destroyed, freed, ime_requests, events, is_composing, active,
                 ime_panicked, frozen, life, capabilities, told, unwanted, server, typing, done>>

Reopens ==
  /\ pc = "xevent" /\ pc' = "requests" /\ lost = FALSE /\ watching = TRUE
  /\ im' \in {"server", "local"}
  /\ contexts' = [w \in Windows |-> IF contexts[w] = None THEN None
                                    ELSE Ime!Rebuilt(contexts[w])]
  /\ is_fallback' = FALSE /\ watching' = FALSE
  /\ UNCHANGED <<is_destroyed, freed, ime_requests, events, is_composing, active, lost,
                 ime_panicked, frozen, life, capabilities, told, unwanted, server, typing, done>>

Passes ==
  /\ pc = "xevent" /\ pc' = "requests" /\ lost = FALSE
  /\ UNCHANGED <<im, contexts, is_destroyed, is_fallback, watching, freed, ime_requests,
                 events, is_composing, active, ime_panicked, frozen, life, capabilities,
                 told, unwanted, server, lost, typing, done>>

Toggles ==
  /\ pc = "xevent" /\ pc' = "requests" /\ lost = FALSE /\ im = "server"
  /\ "preedit" \in typing.ops
  /\ active \in Windows /\ Ime!HasIc(active) /\ contexts[active].allowed = TRUE
  /\ LeavesLate \/ life[active] = "alive"
  /\ "composing" \in typing.races \/ \A i \in DOMAIN ime_requests : ime_requests[i][1] = active
  /\ contexts' = [contexts EXCEPT ![active].preedit = ~@]
  /\ events' = Append(events, <<active, IF contexts[active].preedit THEN "End" ELSE "Start">>)
  /\ UNCHANGED <<im, is_destroyed, is_fallback, watching, freed, ime_requests,
                 is_composing, active, ime_panicked, frozen, life, capabilities,
                 told, unwanted, server, lost, typing>>
  /\ done' \in Nat

Focuses(w) ==
  /\ pc = "xevent" /\ pc' = "requests" /\ lost = FALSE /\ Ime!Nobody
  /\ life[w] = "alive" /\ active' \in {w, None}
  /\ UNCHANGED <<im, contexts, is_destroyed, is_fallback, watching, freed, ime_requests,
                 events, is_composing, ime_panicked, frozen, life, capabilities,
                 told, unwanted, server, lost, typing>>
  /\ done' \in Nat

Keys(composed) ==
  /\ pc = "xevent" /\ pc' = "requests" /\ lost = FALSE /\ active \in Windows
  /\ composed => Ime!HasIc(active) /\ contexts[active].allowed
  /\ is_composing' = (is_composing /\ ~Ime!HasIc(active))
  /\ unwanted' = (unwanted \/ /\ composed \/ is_composing
                              /\ Ime!HasIc(active)
                              /\ told[active] = "disabled")
  /\ UNCHANGED <<im, contexts, is_destroyed, is_fallback, watching, freed, ime_requests,
                 events, active, ime_panicked, frozen, life, capabilities,
                 told, server, lost, typing>>
  /\ done' \in Nat

Vanishes(w) ==
  /\ pc = "xevent" /\ pc' = "requests" /\ lost = FALSE
  /\ life[w] = "dropped" /\ life' = [life EXCEPT ![w] = "gone"]
  /\ contexts' = [contexts EXCEPT ![w] = None]
  /\ UNCHANGED <<im, is_destroyed, is_fallback, watching, freed, ime_requests,
                 events, is_composing, active, ime_panicked, frozen, capabilities,
                 told, unwanted, server, lost, typing, done>>

\* What the drains leave as it is.
Unstirred == UNCHANGED <<im, is_destroyed, is_fallback, watching, freed, is_composing, active,
                         ime_panicked, frozen, life, capabilities, told, unwanted, server,
                         lost, typing, done>>

Handles(w, on) ==
  /\ pc = "requests" /\ ime_requests # <<>> /\ Head(ime_requests) = <<w, on>>
  /\ lost = FALSE /\ ime_requests' = Tail(ime_requests)
  /\ \/ Ime!HasIc(w) /\ contexts[w].allowed = on /\ UNCHANGED <<contexts, events>>
     \/ /\ ~(Ime!HasIc(w) /\ contexts[w].allowed = on)
        /\ contexts' = [contexts EXCEPT ![w] = Ime!Context(on)]
        /\ events' = Append(events, <<w, Ime!Enabling(on)>>)
     \/ /\ life[w] # "alive" /\ contexts' = [contexts EXCEPT ![w] = None]
        /\ UNCHANGED events
  /\ UNCHANGED pc /\ Unstirred

Turns(from, to) ==
  /\ pc = from /\ pc' = to
  /\ from = "requests" => ime_requests = <<>>
  /\ from = "events" => events = <<>>
  /\ UNCHANGED <<contexts, ime_requests, events>> /\ Unstirred

Delivers(w, kind) ==
  /\ pc = "events" /\ events # <<>> /\ Head(events) = <<w, kind>>
  /\ events' = Tail(events)
  /\ is_composing' = (kind = "Start" \/ (is_composing /\ kind \notin {"End", "Disabled"}))
  /\ told' = IF kind = "Enabled" THEN [told EXCEPT ![w] = "enabled"]
             ELSE IF kind = "Disabled" THEN [told EXCEPT ![w] = "disabled"]
             ELSE told
  /\ UNCHANGED <<contexts, ime_requests, pc, im, is_destroyed, is_fallback, watching, freed,
                 active, ime_panicked, frozen, life, capabilities, unwanted, server,
                 lost, typing, done>>

\* The environment of a behaviour is calm.
LEMMA EnvironmentIs ==
  ASSUME Ime!TypeOK, Calm
  PROVE  /\ "unseen" \notin typing.races /\ "dying" \notin typing.races
         /\ LeavesLate => "server" \notin typing.ops
BY ImeTyped DEF Calm, LeavesLate

\* CreateWindow.
LEMMA CreateIs ==
  ASSUME Ime!TypeOK, Connected, Ime!CreateWindow
  PROVE  \E w \in Windows : Creates(w)
<1>1. PICK w \in Windows :
    /\ done \in Nat /\ done' = done + 1 /\ life[w] = "none" /\ ~lost /\ Ime!Nobody
    /\ life' = [life EXCEPT ![w] = "alive"]
    /\ contexts' = [contexts EXCEPT ![w] = Ime!Context(FALSE)]
    /\ events' = Append(events, <<w, "Disabled">>)
    /\ UNCHANGED <<im, is_destroyed, is_fallback, watching, freed, ime_requests, is_composing,
                   active, pc, ime_panicked, frozen, capabilities, told, unwanted,
                   server, lost, typing>>
  BY ImeTyped DEF Ime!CreateWindow, Ime!May, Ime!Created, Ime!Enabling, Connected
<1>2. lost = FALSE /\ done' \in Nat
  BY <1>1, ImeTyped
<1>3. Creates(w)
  BY <1>1, <1>2 DEF Creates
<1> QED BY <1>3

\* Request.
LEMMA RequestIs ==
  ASSUME Ime!TypeOK, Calm, Ime!Request
  PROVE  \E w \in Windows, on \in BOOLEAN : Requests(w, on)
<1>1. lost = FALSE
  BY ImeTyped, EnvironmentIs DEF Ime!Request, Ime!Seen, Ime!Unless
<1>2. done' \in Nat
  BY ImeTyped DEF Ime!Request, Ime!May
<1> QED BY <1>1, <1>2 DEF Ime!Request, Requests, Ime!inner

\* DropWindow.
LEMMA DropIs ==
  ASSUME Ime!TypeOK, Calm, Ime!DropWindow
  PROVE  \E w \in Windows : Drops(w)
<1>1. lost = FALSE
  BY ImeTyped, EnvironmentIs DEF Ime!DropWindow, Ime!Seen, Ime!Unless
<1>2. done' \in Nat
  BY ImeTyped DEF Ime!DropWindow, Ime!May
<1> QED BY <1>1, <1>2 DEF Ime!DropWindow, Drops, Ime!inner, Ime!queues, Ime!Unless, LeavesLate

\* ServerGoes.
LEMMA GoesIs ==
  ASSUME Ime!TypeOK, Calm, Connected, Ime!ServerGoes
  PROVE  Goes
<1>1. done' \in Nat /\ "server" \in typing.ops
  BY ImeTyped DEF Ime!ServerGoes, Ime!May
<1> QED BY <1>1, EnvironmentIs
        DEF Ime!ServerGoes, Goes, Ime!inner, Ime!queues, Ime!app, Ime!Unless, Connected

\* ServerComes.
LEMMA ComesIs ==
  ASSUME Ime!TypeOK, Calm, Ime!ServerComes
  PROVE  Comes
<1>1. done' \in Nat /\ lost = FALSE
  BY ImeTyped, EnvironmentIs DEF Ime!ServerComes, Ime!May, Ime!Seen, Ime!Unless
<1> QED BY <1>1 DEF Ime!ServerComes, Comes, Ime!inner, Ime!queues, Ime!app

\* Nothing was freed behind the back of the code.
LEMMA NothingFrozen ==
  ASSUME Ime!TypeOK, NEW W, NEW g, NEW d, g = FALSE \/ d = TRUE, Ime!Frees(W, g, d)
  PROVE  frozen' = frozen
BY ImeTyped DEF Ime!Frees

\* XimDestroyed: a fallback is there for every context.
LEMMA FallsIs ==
  ASSUME Ime!TypeOK, Connected, Housed, Ime!XimDestroyed
  PROVE  Falls
<1>1. lost = TRUE /\ is_fallback = FALSE /\ server = FALSE
  BY ImeTyped DEF Ime!XimDestroyed, Connected
<1>2. \A w \in Ime!Entries : life[w] = "alive"
  BY <1>1 DEF Ime!Entries, Connected, Housed
<1>3. Ime!AllCreated = {TRUE}
  BY <1>2 DEF Ime!AllCreated
<1>4. watching' = TRUE /\ is_fallback' = TRUE /\ UNCHANGED ime_panicked
      /\ Ime!Replace(TRUE, TRUE)
  <2>1. watching' = Ime!Watches
    BY <1>1 DEF Ime!XimDestroyed
  <2>2. \E ok \in Ime!AllCreated :
          \/ /\ ok /\ Ime!Replace(TRUE, Ime!DestroyedFirst)
             /\ is_fallback' = TRUE /\ UNCHANGED ime_panicked
          \/ ~ok
    BY <1>1 DEF Ime!XimDestroyed
  <2> QED BY <1>3, <2>1, <2>2 DEF Ime!Watches, Ime!DestroyedFirst
<1>5. im' = "local"
  BY <1>1, <1>4 DEF Ime!Replace, Ime!Opened
<1>6. frozen' = frozen
  BY <1>4, NothingFrozen DEF Ime!Replace
<1> QED BY <1>1, <1>4, <1>5, <1>6
        DEF Ime!XimDestroyed, Ime!XEvent, Ime!Replace, Falls, Connected

\* XimInstantiated: the contexts are created anew, or it stays as it is.
LEMMA ReopensIs ==
  ASSUME Ime!TypeOK, Calm, Connected, Ime!XimInstantiated
  PROVE  Reopens \/ Passes
<1>1. lost = FALSE /\ watching = TRUE
  BY ImeTyped, EnvironmentIs DEF Ime!XimInstantiated, Ime!Seen, Ime!Unless
<1>2. \/ /\ Ime!Replace(FALSE, FALSE)
         /\ watching' = FALSE /\ is_fallback' = FALSE /\ UNCHANGED ime_panicked
      \/ /\ ime_panicked' = FALSE
         /\ UNCHANGED <<im, contexts, is_destroyed, is_fallback, watching, freed, frozen>>
  BY DEF Ime!XimInstantiated, Connected
<1>3. Ime!XEvent /\ UNCHANGED <<events, life, is_composing, active, told, unwanted, lost, done>>
  BY DEF Ime!XimInstantiated
<1>4. CASE Ime!Replace(FALSE, FALSE) /\ watching' = FALSE /\ is_fallback' = FALSE
           /\ UNCHANGED ime_panicked
  <2>1. frozen' = frozen
    BY <1>4, NothingFrozen DEF Ime!Replace
  <2>2. im' \in {"server", "local"}
    BY <1>4 DEF Ime!Replace, Ime!Opened
  <2> QED BY <1>1, <1>3, <1>4, <2>1, <2>2 DEF Ime!XEvent, Ime!Replace, Reopens, Connected
<1>5. CASE /\ ime_panicked' = FALSE
           /\ UNCHANGED <<im, contexts, is_destroyed, is_fallback, watching, freed, frozen>>
  BY <1>1, <1>3, <1>5 DEF Ime!XEvent, Passes, Connected
<1> QED BY <1>2, <1>4, <1>5

\* The other X events.
LEMMA OtherIs ==
  ASSUME Ime!TypeOK, Calm, Ime!OtherXEvent
  PROVE  /\ pc = "xevent" /\ pc' = "requests" /\ lost = FALSE
         /\ UNCHANGED <<im, is_destroyed, is_fallback, watching, freed, ime_panicked, lost,
                        told, ime_requests, capabilities, server, typing>>
BY ImeTyped, EnvironmentIs DEF Ime!OtherXEvent, Ime!XEvent, Ime!Seen, Ime!Unless

\* Preedit.
LEMMA TogglesIs ==
  ASSUME Ime!TypeOK, Calm, None \notin Windows, Ime!Preedit
  PROVE  Toggles
<1>1. Ime!OtherXEvent
  BY DEF Ime!Preedit
<1>2. active \in Windows /\ done' \in Nat /\ "preedit" \in typing.ops
  BY ImeTyped DEF Ime!Preedit, Ime!May
<1>3. Ime!HasIc(active) /\ contexts[active].allowed = TRUE
  <2>1. Ime!HasIc(active) /\ contexts[active].allowed
    BY DEF Ime!Preedit
  <2>2. contexts[active].allowed \in BOOLEAN
    BY <1>2, <2>1, ContextTyped DEF Ime!HasIc, Record
  <2> QED BY <2>1, <2>2
<1>4. active \in Ime!Composing <=> contexts[active].preedit
  BY <1>2, <1>3 DEF Ime!Composing
<1>5. events' = Append(events, <<active, IF contexts[active].preedit THEN "End" ELSE "Start">>)
  BY <1>4 DEF Ime!Preedit
<1>6. /\ LeavesLate \/ life[active] = "alive"
      /\ "composing" \in typing.races \/ \A i \in DOMAIN ime_requests : ime_requests[i][1] = active
      /\ im = "server"
      /\ contexts' = [contexts EXCEPT ![active].preedit = ~@]
      /\ UNCHANGED <<is_composing, active, frozen, life, unwanted>>
  BY DEF Ime!Preedit, Ime!Unless, LeavesLate
<1> QED BY <1>1, <1>2, <1>3, <1>5, <1>6, OtherIs DEF Toggles

\* Focus.
LEMMA FocusesIs ==
  ASSUME Ime!TypeOK, Calm, Ime!Focus
  PROVE  \E w \in Windows : Focuses(w)
<1>1. Ime!OtherXEvent
  BY DEF Ime!Focus
<1>2. done' \in Nat
  BY ImeTyped DEF Ime!Focus, Ime!May
<1>3. \E w \in Windows : life[w] = "alive" /\ active' \in {w, None}
  BY DEF Ime!Focus
<1>4. Ime!Nobody /\ UNCHANGED <<contexts, events, is_composing, frozen, life, unwanted>>
  BY DEF Ime!Focus
<1> QED BY <1>1, <1>2, <1>3, <1>4, OtherIs DEF Focuses

\* Key.
LEMMA KeysIs ==
  ASSUME Ime!TypeOK, Calm, Connected, None \notin Windows, Ime!Key
  PROVE  \E composed \in BOOLEAN : Keys(composed)
<1>1. Ime!OtherXEvent
  BY DEF Ime!Key
<1>2. done' \in Nat /\ active \in Windows
  BY ImeTyped DEF Ime!Key, Ime!May
<1>3. UNCHANGED <<contexts, events, active, frozen, life>>
  BY DEF Ime!Key
<1>4. PICK composed \in BOOLEAN :
       /\ composed => Ime!HasIc(active) /\ contexts[active].allowed
       /\ is_composing' = (is_composing
                           /\ ~((composed \/ is_composing) /\ ~is_destroyed /\ Ime!HasIc(active)))
       /\ unwanted' = (unwanted \/ (((composed \/ is_composing) /\ ~is_destroyed /\ Ime!HasIc(active))
                                    /\ told[active] = "disabled"))
  BY DEF Ime!Key
<1>5. is_composing' = (is_composing /\ ~Ime!HasIc(active))
  BY <1>4, ImeTyped, ZenonT(30) DEF Connected
<1>6. unwanted' = (unwanted \/ /\ composed \/ is_composing
                               /\ Ime!HasIc(active)
                               /\ told[active] = "disabled")
  BY <1>4, ImeTyped, ZenonT(30) DEF Connected
<1>7. Keys(composed)
  BY <1>1, <1>2, <1>3, <1>4, <1>5, <1>6, OtherIs DEF Keys
<1> QED BY <1>7

\* DestroyNotify.
LEMMA VanishesIs ==
  ASSUME Ime!TypeOK, Calm, Connected, Ime!DestroyNotify
  PROVE  \E w \in Windows : Vanishes(w)
<1>1. Ime!OtherXEvent
  BY DEF Ime!DestroyNotify
<1>2. PICK w \in Windows :
       /\ life[w] = "dropped" /\ life' = [life EXCEPT ![w] = "gone"]
       /\ Ime!Frees({w}, freed, is_destroyed)
       /\ contexts' = [contexts EXCEPT ![w] = None]
  BY DEF Ime!DestroyNotify
<1>3. frozen' = frozen
  BY <1>2, NothingFrozen DEF Connected
<1>4. UNCHANGED <<events, is_composing, active, unwanted, done>>
  BY DEF Ime!DestroyNotify
<1> QED BY <1>1, <1>2, <1>3, <1>4, OtherIs DEF Vanishes

\* Unrelated.
LEMMA PassesIs ==
  ASSUME Ime!TypeOK, Calm, Ime!Unrelated
  PROVE  Passes
<1>1. Ime!OtherXEvent
  BY DEF Ime!Unrelated
<1> QED BY <1>1, OtherIs DEF Ime!Unrelated, Passes

\* HandleRequest.
LEMMA HandlesIs ==
  ASSUME Ime!TypeOK, Connected, Ime!HandleRequest
  PROVE  \E w \in Windows, on \in BOOLEAN : Handles(w, on)
<1>1. /\ pc = "requests" /\ ime_requests # <<>> /\ ime_requests' = Tail(ime_requests)
      /\ UNCHANGED <<is_composing, told, unwanted, pc, im, is_destroyed, is_fallback, watching,
                     freed, active, ime_panicked, life, capabilities, server, lost, done, typing>>
  BY DEF Ime!HandleRequest, Ime!Draining
<1>2. PICK w \in Windows, on \in BOOLEAN : ime_requests[1] = <<w, on>>
  <2>1. ime_requests[1] \in Windows \X BOOLEAN
    BY <1>1, ImeTyped, TailIs DEF Asked
  <2> QED BY <2>1
<1>3. Head(ime_requests) = <<w, on>>
  BY <1>1, <1>2, ImeTyped, TailIs
<1>4. lost = FALSE
  BY <1>1, ImeTyped DEF Connected
<1>5. is_destroyed = FALSE /\ freed = FALSE
  BY DEF Connected
<1>6. \/ Ime!HasIc(w) /\ contexts[w].allowed = on /\ UNCHANGED <<contexts, events, frozen>>
      \/ /\ ~(Ime!HasIc(w) /\ contexts[w].allowed = on)
         /\ Ime!Frees({w}, freed, is_destroyed)
         /\ \E ok \in Ime!Creatable(w) :
              \/ ok /\ Ime!Created(w, on)
              \/ ~ok /\ contexts' = [contexts EXCEPT ![w] = None] /\ UNCHANGED events
  BY <1>2, <1>5 DEF Ime!HandleRequest
<1>7. CASE Ime!HasIc(w) /\ contexts[w].allowed = on /\ UNCHANGED <<contexts, events, frozen>>
  BY <1>1, <1>3, <1>4, <1>7 DEF Handles, Unstirred
<1>8. CASE /\ ~(Ime!HasIc(w) /\ contexts[w].allowed = on)
           /\ Ime!Frees({w}, freed, is_destroyed)
           /\ \E ok \in Ime!Creatable(w) :
                \/ ok /\ Ime!Created(w, on)
                \/ ~ok /\ contexts' = [contexts EXCEPT ![w] = None] /\ UNCHANGED events
  <2>1. frozen' = frozen
    BY <1>5, <1>8, NothingFrozen
  <2>2. \/ Ime!Created(w, on)
        \/ /\ life[w] # "alive" /\ contexts' = [contexts EXCEPT ![w] = None]
           /\ UNCHANGED events
    BY <1>4, <1>8 DEF Ime!Creatable
  <2> QED BY <1>1, <1>3, <1>4, <1>8, <2>1, <2>2 DEF Handles, Unstirred, Ime!Created
<1> QED BY <1>6, <1>7, <1>8

\* RequestsDrained and EventsDrained.
LEMMA TurnsIs ==
  /\ Ime!RequestsDrained => Turns("requests", "events")
  /\ Ime!EventsDrained => Turns("events", "xevent")
BY DEF Ime!RequestsDrained, Ime!EventsDrained, Ime!Draining, Ime!queues, Turns, Unstirred

\* HandleEvent.
LEMMA DeliversIs ==
  ASSUME Ime!TypeOK, Ime!HandleEvent
  PROVE  \E w \in Windows, kind \in {"Enabled", "Disabled", "Start", "End"} : Delivers(w, kind)
<1>1. /\ pc = "events" /\ events # <<>> /\ events' = Tail(events)
      /\ UNCHANGED <<contexts, ime_requests, unwanted, pc, frozen, im, is_destroyed, is_fallback,
                     watching, freed, active, ime_panicked, life, capabilities, server, lost,
                     done, typing>>
  BY DEF Ime!HandleEvent, Ime!Draining
<1>2. PICK w \in Windows, kind \in {"Enabled", "Disabled", "Start", "End"} :
        events[1] = <<w, kind>>
  <2>1. events[1] \in Windows \X {"Enabled", "Disabled", "Start", "End"}
    BY <1>1, ImeTyped, TailIs DEF Heard
  <2> QED BY <2>1
<1>3. Head(events) = <<w, kind>>
  BY <1>1, <1>2, ImeTyped, TailIs
<1>4. /\ is_composing' = (kind = "Start" \/ (is_composing /\ kind \notin {"End", "Disabled"}))
      /\ told' = IF kind = "Enabled" THEN [told EXCEPT ![w] = "enabled"]
                 ELSE IF kind = "Disabled" THEN [told EXCEPT ![w] = "disabled"]
                 ELSE told
  BY <1>2 DEF Ime!HandleEvent, Ime!EndsComposing
<1> QED BY <1>1, <1>3, <1>4 DEF Delivers

----
(* Types. *)

\* The parts make the whole.
LEMMA GoodIs == Good' /\ due' \in BOOLEAN => Ime!TypeOK'
BY DEF Good, Ime!TypeOK, Record, Asked, Heard, Lives

\* The functions and channels after a step.
LEMMA StoresTyped ==
  ASSUME Ime!TypeOK, NEW w \in Windows
  PROVE  /\ \A l \in Lives : [life EXCEPT ![w] = l] \in [Windows -> Lives]
         /\ \A c \in {None} \union Record :
              [contexts EXCEPT ![w] = c] \in [Windows -> {None} \union Record]
         /\ \A t \in {"enabled", "disabled"} :
              [told EXCEPT ![w] = t] \in [Windows -> {"enabled", "disabled"}]
         /\ \A kind \in {"Enabled", "Disabled", "Start", "End"} :
              Append(events, <<w, kind>>) \in Seq(Heard)
         /\ \A on \in BOOLEAN : Append(ime_requests, <<w, on>>) \in Seq(Asked)
<1>1. \A kind \in {"Enabled", "Disabled", "Start", "End"} : <<w, kind>> \in Heard
  BY DEF Heard
<1>2. \A on \in BOOLEAN : <<w, on>> \in Asked
  BY DEF Asked
<1> QED BY <1>1, <1>2, ImeTyped

\* The application's steps.
LEMMA AppTyped ==
  ASSUME Ime!TypeOK, NEW w \in Windows
  PROVE  (\/ Creates(w) \/ (\E on \in BOOLEAN : Requests(w, on)) \/ Drops(w)) => Good'
<1>1. Creates(w) => Good'
  <2> SUFFICES ASSUME Creates(w) PROVE Good'
    OBVIOUS
  <2>1. life' \in [Windows -> Lives] /\ contexts' \in [Windows -> {None} \union Record]
        /\ events' \in Seq(Heard)
    BY StoresTyped, ContextIs DEF Creates, Lives
  <2>2. /\ UNCHANGED <<im, is_destroyed, is_fallback, watching, freed, ime_requests, is_composing,
                      active, pc, ime_panicked, frozen, capabilities, told, unwanted,
                      server, lost, typing>>
        /\ done' \in Nat
    BY DEF Creates
  <2> QED BY <2>1, <2>2, ImeTyped DEF Good
<1>2. ASSUME NEW on \in BOOLEAN, Requests(w, on) PROVE Good'
  <2>1. ime_requests' \in Seq(Asked)
    BY <1>2, StoresTyped DEF Requests
  <2>2. capabilities' \subseteq Windows
    BY <1>2, ImeTyped DEF Requests
  <2> QED BY <1>2, <2>1, <2>2, ImeTyped DEF Requests, Good
<1>3. Drops(w) => Good'
  <2> SUFFICES ASSUME Drops(w) PROVE Good'
    OBVIOUS
  <2>1. life' \in [Windows -> Lives]
    BY StoresTyped DEF Drops, Lives
  <2> QED BY <2>1, ImeTyped DEF Drops, Good
<1> QED BY <1>1, <1>2, <1>3

\* The server, and Xlib's callbacks.
LEMMA ServerTyped ==
  ASSUME Ime!TypeOK
  PROVE  (Goes \/ Comes \/ Falls \/ Reopens \/ Passes) => Good'
<1>1. Goes => Good'
  BY ImeTyped DEF Goes, Good
<1>2. Comes => Good'
  BY ImeTyped DEF Comes, Good
<1>3. Falls => Good'
  BY ImeTyped, RebuiltType DEF Falls, Good
<1>4. Reopens => Good'
  BY ImeTyped, RebuiltType DEF Reopens, Good
<1>5. Passes => Good'
  BY ImeTyped DEF Passes, Good
<1> QED BY <1>1, <1>2, <1>3, <1>4, <1>5

\* The context of the active window after Preedit.
LEMMA ToggledIs ==
  ASSUME Ime!TypeOK, Distinct, Toggles
  PROVE  /\ contexts[active] \in Record /\ contexts[active] # None
         /\ contexts' = [contexts EXCEPT ![active] =
                           [contexts[active] EXCEPT !.preedit = ~contexts[active].preedit]]
         /\ [contexts[active] EXCEPT !.preedit = ~contexts[active].preedit] \in Record
         /\ contexts' \in [Windows -> {None} \union Record]
<1>1. active \in Windows /\ contexts[active] \in Record /\ contexts[active] # None
  BY ContextTyped DEF Toggles, Ime!HasIc
<1>2. [contexts[active] EXCEPT !.preedit = ~contexts[active].preedit] \in Record
  BY <1>1 DEF Record
<1>3. contexts' = [contexts EXCEPT ![active] =
                     [contexts[active] EXCEPT !.preedit = ~contexts[active].preedit]]
  BY DEF Toggles
<1>4. contexts' \in [Windows -> {None} \union Record]
  BY <1>1, <1>2, <1>3, StoresTyped
<1> QED BY <1>1, <1>2, <1>3, <1>4

\* The other X events.
LEMMA OtherTyped ==
  ASSUME Ime!TypeOK, Distinct
  PROVE  /\ Toggles => Good'
         /\ \A w \in Windows : Focuses(w) \/ Vanishes(w) => Good'
         /\ \A composed \in BOOLEAN : Keys(composed) => Good'
<1>1. ASSUME Toggles PROVE Good'
  <2>1. contexts' \in [Windows -> {None} \union Record]
    BY <1>1, ToggledIs
  <2>2. events' \in Seq(Heard)
    <3>1. active \in Windows
      BY <1>1 DEF Toggles
    <3>2. \/ events' = Append(events, <<active, "Start">>)
          \/ events' = Append(events, <<active, "End">>)
      BY <1>1 DEF Toggles
    <3> QED BY <3>1, <3>2, StoresTyped
  <2> QED BY <1>1, <2>1, <2>2, ImeTyped DEF Toggles, Good
<1>2. ASSUME NEW w \in Windows, Focuses(w) PROVE Good'
  BY <1>2, ImeTyped DEF Focuses, Good
<1>3. ASSUME NEW w \in Windows, Vanishes(w) PROVE Good'
  <2>1. life' \in [Windows -> Lives] /\ contexts' \in [Windows -> {None} \union Record]
    BY <1>3, StoresTyped DEF Vanishes, Lives
  <2> QED BY <1>3, <2>1, ImeTyped DEF Vanishes, Good
<1>4. ASSUME NEW composed \in BOOLEAN, Keys(composed) PROVE Good'
  <2>1. is_composing' \in BOOLEAN /\ unwanted' \in BOOLEAN
    BY <1>4, ZenonT(30) DEF Keys
  <2> QED BY <1>4, <2>1, ImeTyped DEF Keys, Good
<1> QED BY <1>1, <1>2, <1>3, <1>4

\* The drains.
LEMMA DrainTyped ==
  ASSUME Ime!TypeOK, Distinct
  PROVE  /\ \A w \in Windows, on \in BOOLEAN : Handles(w, on) => Good'
         /\ \A w \in Windows, kind \in {"Enabled", "Disabled", "Start", "End"} :
              Delivers(w, kind) => Good'
         /\ Turns("requests", "events") \/ Turns("events", "xevent") => Good'
<1>1. ASSUME NEW w \in Windows, NEW on \in BOOLEAN, Handles(w, on) PROVE Good'
  <2>1. ime_requests' \in Seq(Asked)
    BY <1>1, ImeTyped, TailIs DEF Handles
  <2>2. contexts' \in [Windows -> {None} \union Record]
    <3>1. \/ contexts' = contexts
          \/ contexts' = [contexts EXCEPT ![w] = Ime!Context(on)]
          \/ contexts' = [contexts EXCEPT ![w] = None]
      BY <1>1 DEF Handles
    <3> QED BY <3>1, StoresTyped, ContextIs, ImeTyped
  <2>3. events' \in Seq(Heard)
    <3>1. \/ events' = events
          \/ events' = Append(events, <<w, "Enabled">>)
          \/ events' = Append(events, <<w, "Disabled">>)
      BY <1>1 DEF Handles, Ime!Enabling
    <3> QED BY <3>1, StoresTyped, ImeTyped
  <2> QED BY <1>1, <2>1, <2>2, <2>3, ImeTyped DEF Handles, Unstirred, Good
<1>2. ASSUME NEW w \in Windows, NEW kind \in {"Enabled", "Disabled", "Start", "End"},
             Delivers(w, kind)
      PROVE  Good'
  <2>1. events' \in Seq(Heard)
    BY <1>2, ImeTyped, TailIs DEF Delivers
  <2>2. told' \in [Windows -> {"enabled", "disabled"}]
    BY <1>2, ImeTyped, StoresTyped DEF Delivers
  <2>3. is_composing' \in BOOLEAN
    BY <1>2, ZenonT(30) DEF Delivers
  <2> QED BY <1>2, <2>1, <2>2, <2>3, ImeTyped DEF Delivers, Good
<1>3. ASSUME Turns("requests", "events") \/ Turns("events", "xevent") PROVE Good'
  BY <1>3, ImeTyped DEF Turns, Unstirred, Good
<1> QED BY <1>1, <1>2, <1>3

----
(* The input method that is open. *)

\* No step breaks what is known of it.
LEMMA ConnectedKept ==
  ASSUME Ime!TypeOK, Connected
  PROVE  /\ \A w \in Windows :
              \/ Creates(w) \/ (\E on \in BOOLEAN : Requests(w, on)) \/ Drops(w) \/ Focuses(w)
              \/ Vanishes(w) \/ (\E on \in BOOLEAN : Handles(w, on))
              \/ (\E kind \in {"Enabled", "Disabled", "Start", "End"} : Delivers(w, kind))
              => Connected'
         /\ (\/ Goes \/ Comes \/ Falls \/ Reopens \/ Passes \/ Toggles
             \/ (\E composed \in BOOLEAN : Keys(composed))
             \/ Turns("requests", "events") \/ Turns("events", "xevent"))
            => Connected'
<1>1. ASSUME NEW w \in Windows, Creates(w) PROVE Connected'
  BY <1>1, ImeTyped DEF Connected, Creates, LeavesLate
<1>2. ASSUME NEW w \in Windows, NEW on \in BOOLEAN, Requests(w, on) PROVE Connected'
  BY <1>2, ImeTyped DEF Connected, Requests, LeavesLate
<1>3. ASSUME NEW w \in Windows, Drops(w) PROVE Connected'
  BY <1>3, ImeTyped DEF Connected, Drops, LeavesLate
<1>4. ASSUME NEW w \in Windows, Focuses(w) PROVE Connected'
  BY <1>4, ImeTyped DEF Connected, Focuses, LeavesLate
<1>5. ASSUME NEW w \in Windows, Vanishes(w) PROVE Connected'
  BY <1>5, ImeTyped DEF Connected, Vanishes, LeavesLate
<1>6. ASSUME NEW w \in Windows, NEW on \in BOOLEAN, Handles(w, on) PROVE Connected'
  BY <1>6, ImeTyped DEF Connected, Handles, Unstirred, LeavesLate
<1>7. ASSUME NEW w \in Windows, NEW kind \in {"Enabled", "Disabled", "Start", "End"},
             Delivers(w, kind)
      PROVE  Connected'
  BY <1>7, ImeTyped DEF Connected, Delivers, LeavesLate
<1>8. ASSUME Goes PROVE Connected'
  BY <1>8, ImeTyped DEF Connected, Goes, LeavesLate
<1>9. ASSUME Comes PROVE Connected'
  BY <1>9, ImeTyped DEF Connected, Comes, LeavesLate
<1>10. ASSUME Falls PROVE Connected'
  BY <1>10, ImeTyped DEF Connected, Falls, LeavesLate
<1>11. ASSUME Reopens PROVE Connected'
  BY <1>11, ImeTyped DEF Connected, Reopens, LeavesLate
<1>12. ASSUME Passes PROVE Connected'
  BY <1>12, ImeTyped DEF Connected, Passes, LeavesLate
<1>13. ASSUME Toggles PROVE Connected'
  BY <1>13, ImeTyped DEF Connected, Toggles, LeavesLate
<1>14. ASSUME NEW composed \in BOOLEAN, Keys(composed) PROVE Connected'
  BY <1>14, ImeTyped DEF Connected, Keys, LeavesLate
<1>15. ASSUME Turns("requests", "events") \/ Turns("events", "xevent") PROVE Connected'
  BY <1>15, ImeTyped DEF Connected, Turns, Unstirred, LeavesLate
<1>16. ASSUME NEW w \in Windows
       PROVE  \/ Creates(w) \/ (\E on \in BOOLEAN : Requests(w, on)) \/ Drops(w) \/ Focuses(w)
              \/ Vanishes(w) \/ (\E on \in BOOLEAN : Handles(w, on))
              \/ (\E kind \in {"Enabled", "Disabled", "Start", "End"} : Delivers(w, kind))
              => Connected'
  BY <1>1, <1>2, <1>3, <1>4, <1>5, <1>6, <1>7, Zenon
<1> QED BY <1>8, <1>9, <1>10, <1>11, <1>12, <1>13, <1>14, <1>15, <1>16, Zenon

----
(* Which windows have contexts. *)

\* What a rebuild leaves of the contexts.
LEMMA RebuiltIs ==
  ASSUME Ime!TypeOK, Distinct, NEW w \in Windows,
         contexts' = [v \in Windows |-> IF contexts[v] = None THEN None
                                        ELSE Ime!Rebuilt(contexts[v])]
  PROVE  /\ contexts'[w] = None <=> contexts[w] = None
         /\ contexts[w] # None => /\ contexts'[w].ic = TRUE /\ contexts'[w].preedit = FALSE
                                  /\ contexts'[w].allowed = contexts[w].allowed
         /\ (Ime!HasIc(w) \/ contexts[w] = None) => (Ime!HasIc(w)' <=> Ime!HasIc(w))
<1>1. contexts[w] = None => contexts'[w] = None
  OBVIOUS
<1>2. ASSUME contexts[w] # None
      PROVE  /\ contexts'[w] # None /\ contexts'[w].ic = TRUE /\ contexts'[w].preedit = FALSE
             /\ contexts'[w].allowed = contexts[w].allowed
  <2>1. contexts[w].allowed \in BOOLEAN
    BY <1>2, ContextTyped DEF Record
  <2>2. contexts'[w] = Ime!Context(contexts[w].allowed)
    BY <1>2 DEF Ime!Rebuilt
  <2> QED BY <2>1, <2>2, ContextIs DEF Distinct
<1> QED BY <1>1, <1>2 DEF Ime!HasIc

\* What a change of one context leaves of the contexts.
LEMMA ChangedIs ==
  ASSUME Ime!TypeOK, Distinct, NEW w \in Windows, NEW c \in {None} \union Record,
         contexts' = [contexts EXCEPT ![w] = c]
  PROVE  /\ contexts'[w] = c
         /\ \A v \in Windows : v # w => contexts'[v] = contexts[v] /\ (Ime!HasIc(v)' <=> Ime!HasIc(v))
BY ImeTyped DEF Ime!HasIc

\* A step that changes neither contexts nor the windows nor their requests.
LEMMA HousedStays ==
  ASSUME Housed, UNCHANGED <<contexts, life, ime_requests, capabilities, typing>>
  PROVE  Housed'
BY DEF Housed, Ime!HasIc, LeavesLate

\* The application's steps.
LEMMA AppHoused ==
  ASSUME Ime!TypeOK, Distinct, Housed, NEW w \in Windows
  PROVE  /\ Creates(w) => Housed'
         /\ \A on \in BOOLEAN : Requests(w, on) => Housed'
         /\ Drops(w) => Housed'
<1>1. ASSUME Creates(w) PROVE Housed'
  <2>1. /\ contexts' = [contexts EXCEPT ![w] = Ime!Context(FALSE)] /\ life[w] = "none"
        /\ life' = [life EXCEPT ![w] = "alive"]
        /\ UNCHANGED <<ime_requests, capabilities, typing>>
    BY <1>1 DEF Creates
  <2>2. contexts'[w] = Ime!Context(FALSE) /\ Ime!HasIc(w)'
    <3>1. contexts'[w] = Ime!Context(FALSE)
      BY <2>1, ChangedIs, ContextIs
    <3> QED BY <3>1, ContextIs DEF Ime!HasIc, Distinct
  <2>3. \A v \in Windows : v # w => contexts'[v] = contexts[v] /\ (Ime!HasIc(v)' <=> Ime!HasIc(v))
    BY <2>1, ChangedIs, ContextIs
  <2>4. life'[w] = "alive" /\ \A v \in Windows : v # w => life'[v] = life[v]
    BY <2>1, ImeTyped
  <2>5. \A v \in Windows : (Ime!HasIc(v) \/ contexts[v] = None)'
    BY <2>2, <2>3 DEF Housed
  <2>6. \A v \in Windows : life'[v] = "none" => contexts'[v] = None /\ v \notin capabilities'
    BY <2>1, <2>3, <2>4 DEF Housed
  <2>7. \A i \in DOMAIN ime_requests' : ime_requests'[i][1] \in Windows \ {w}
                                        /\ life'[ime_requests'[i][1]] = life[ime_requests[i][1]]
    BY <2>1, <2>4, ChannelsTyped DEF Housed
  <2>8. ~LeavesLate' => \A v \in Windows : contexts'[v] # None => life'[v] \in {"alive", "dropped"}
    BY <2>1, <2>3, <2>4 DEF Housed, LeavesLate
  <2> QED BY <2>1, <2>5, <2>6, <2>7, <2>8 DEF Housed, LeavesLate
<1>2. ASSUME NEW on \in BOOLEAN, Requests(w, on) PROVE Housed'
  <2>1. /\ life[w] = "alive" /\ UNCHANGED <<contexts, life, typing>>
        /\ ime_requests' = Append(ime_requests, <<w, on>>)
        /\ \A v \in Windows : v \in capabilities' => v = w \/ v \in capabilities
    BY <1>2 DEF Requests
  <2>2. \A i \in DOMAIN ime_requests' :
           ime_requests'[i][1] = w \/ (i \in DOMAIN ime_requests
                                       /\ ime_requests'[i] = ime_requests[i])
    <3>1. <<w, on>> \in Asked /\ ime_requests \in Seq(Asked)
      BY ImeTyped DEF Asked
    <3> QED BY <2>1, <3>1, AppendIs
  <2>3. \A v \in Windows : life'[v] = "none" => contexts'[v] = None /\ v \notin capabilities'
    BY <2>1 DEF Housed
  <2>4. \A i \in DOMAIN ime_requests' :
          /\ life'[ime_requests'[i][1]] # "none"
          /\ ~LeavesLate => life'[ime_requests'[i][1]] = "alive"
    BY <2>1, <2>2 DEF Housed
  <2>5. \A v \in Windows : (Ime!HasIc(v) \/ contexts[v] = None)'
    BY <2>1 DEF Housed, Ime!HasIc
  <2> QED BY <2>1, <2>3, <2>4, <2>5 DEF Housed, LeavesLate
<1>3. ASSUME Drops(w) PROVE Housed'
  <2>1. /\ life[w] = "alive" /\ life' = [life EXCEPT ![w] = "dropped"]
        /\ LeavesLate \/ ime_requests = <<>>
        /\ UNCHANGED <<contexts, ime_requests, capabilities, typing>>
    BY <1>3 DEF Drops, Ime!Quiet
  <2>2. life'[w] = "dropped" /\ \A v \in Windows : v # w => life'[v] = life[v]
    BY <2>1, ImeTyped
  <2>3. \A v \in Windows : (Ime!HasIc(v) \/ contexts[v] = None)'
    BY <2>1 DEF Housed, Ime!HasIc
  <2>4. \A v \in Windows : life'[v] = "none" => contexts'[v] = None /\ v \notin capabilities'
    BY <2>1, <2>2 DEF Housed
  <2>5. \A i \in DOMAIN ime_requests' : life'[ime_requests'[i][1]] # "none"
    BY <2>1, <2>2, ChannelsTyped DEF Housed
  <2>6. ~LeavesLate' => DOMAIN ime_requests' = {}
    BY <2>1 DEF LeavesLate
  <2>7. ~LeavesLate' => \A v \in Windows : contexts'[v] # None => life'[v] \in {"alive", "dropped"}
    BY <2>1, <2>2 DEF Housed, LeavesLate
  <2> QED BY <2>3, <2>4, <2>5, <2>6, <2>7 DEF Housed
<1> QED BY <1>1, <1>2, <1>3

\* The server, and Xlib's callbacks.
LEMMA ServerHoused ==
  ASSUME Ime!TypeOK, Distinct, Housed
  PROVE  /\ Goes \/ Comes \/ Passes => Housed'
         /\ Falls \/ Reopens => Housed'
<1>1. ASSUME Goes \/ Comes \/ Passes PROVE Housed'
  BY <1>1, HousedStays DEF Goes, Comes, Passes
<1>2. ASSUME Falls \/ Reopens PROVE Housed'
  <2>1. UNCHANGED <<life, ime_requests, capabilities, typing>>
    BY <1>2 DEF Falls, Reopens
  <2>2. contexts' = [v \in Windows |-> IF contexts[v] = None THEN None
                                       ELSE Ime!Rebuilt(contexts[v])]
    BY <1>2 DEF Falls, Reopens
  <2>3. \A v \in Windows : (contexts'[v] = None <=> contexts[v] = None)
                           /\ (Ime!HasIc(v)' <=> Ime!HasIc(v))
    BY <2>2, RebuiltIs DEF Housed
  <2>4. \A v \in Windows : (Ime!HasIc(v) \/ contexts[v] = None)'
    BY <2>3 DEF Housed
  <2> QED BY <2>1, <2>3, <2>4 DEF Housed, LeavesLate
<1> QED BY <1>1, <1>2

\* The other X events.
LEMMA OtherHoused ==
  ASSUME Ime!TypeOK, Distinct, Housed
  PROVE  /\ Toggles => Housed'
         /\ \A w \in Windows : Focuses(w) => Housed'
         /\ \A w \in Windows : Vanishes(w) => Housed'
         /\ \A composed \in BOOLEAN : Keys(composed) => Housed'
<1>1. ASSUME Toggles PROVE Housed'
  <2> DEFINE c == [contexts[active] EXCEPT !.preedit = ~contexts[active].preedit]
  <2>1. active \in Windows /\ contexts[active] # None /\ contexts[active] \in Record
        /\ c \in Record /\ contexts' = [contexts EXCEPT ![active] = c]
        /\ UNCHANGED <<life, ime_requests, capabilities, typing>> /\ contexts[active].ic
    <3>1. active \in Windows /\ UNCHANGED <<life, ime_requests, capabilities, typing>>
          /\ contexts[active].ic
      BY <1>1 DEF Toggles, Ime!HasIc
    <3> QED BY <1>1, <3>1, ToggledIs
  <2>2. c # None /\ c.ic = contexts[active].ic
    BY <2>1 DEF Distinct, Record
  <2> HIDE DEF c
  <2>3. contexts'[active] = c
        /\ \A v \in Windows : v # active => contexts'[v] = contexts[v] /\ (Ime!HasIc(v)' <=> Ime!HasIc(v))
    BY <2>1, ChangedIs
  <2>4. \A v \in Windows : (contexts'[v] = None <=> contexts[v] = None)
                           /\ (Ime!HasIc(v)' <=> Ime!HasIc(v))
    BY <2>1, <2>2, <2>3 DEF Ime!HasIc
  <2>5. \A v \in Windows : (Ime!HasIc(v) \/ contexts[v] = None)'
    BY <2>4 DEF Housed
  <2> QED BY <2>1, <2>4, <2>5 DEF Housed, LeavesLate
<1>2. ASSUME NEW w \in Windows, Focuses(w) PROVE Housed'
  BY <1>2, HousedStays DEF Focuses
<1>3. ASSUME NEW w \in Windows, Vanishes(w) PROVE Housed'
  <2>1. /\ life[w] = "dropped" /\ life' = [life EXCEPT ![w] = "gone"]
        /\ contexts' = [contexts EXCEPT ![w] = None]
        /\ UNCHANGED <<ime_requests, capabilities, typing>>
    BY <1>3 DEF Vanishes
  <2>2. contexts'[w] = None
        /\ \A v \in Windows : v # w => contexts'[v] = contexts[v] /\ (Ime!HasIc(v)' <=> Ime!HasIc(v))
    BY <2>1, ChangedIs
  <2>3. life'[w] = "gone" /\ \A v \in Windows : v # w => life'[v] = life[v]
    BY <2>1, ImeTyped
  <2>4. \A v \in Windows : (Ime!HasIc(v) \/ contexts[v] = None)'
    BY <2>2 DEF Housed
  <2>5. \A v \in Windows : life'[v] = "none" => contexts'[v] = None /\ v \notin capabilities'
    BY <2>1, <2>2, <2>3 DEF Housed
  <2>6. \A i \in DOMAIN ime_requests' :
          /\ life'[ime_requests'[i][1]] # "none"
          /\ ~LeavesLate => life'[ime_requests'[i][1]] = "alive"
    BY <2>1, <2>3, ChannelsTyped DEF Housed
  <2>7. ~LeavesLate' => \A v \in Windows : contexts'[v] # None => life'[v] \in {"alive", "dropped"}
    BY <2>1, <2>2, <2>3 DEF Housed, LeavesLate
  <2> QED BY <2>1, <2>4, <2>5, <2>6, <2>7 DEF Housed, LeavesLate
<1>4. ASSUME NEW composed \in BOOLEAN, Keys(composed) PROVE Housed'
  BY <1>4, HousedStays DEF Keys
<1> QED BY <1>1, <1>2, <1>3, <1>4

\* The drains.
LEMMA DrainHoused ==
  ASSUME Ime!TypeOK, Distinct, Housed
  PROVE  /\ \A w \in Windows, on \in BOOLEAN : Handles(w, on) => Housed'
         /\ \A w \in Windows, kind \in {"Enabled", "Disabled", "Start", "End"} :
              Delivers(w, kind) => Housed'
         /\ Turns("requests", "events") \/ Turns("events", "xevent") => Housed'
<1>1. ASSUME NEW w \in Windows, NEW on \in BOOLEAN, Handles(w, on) PROVE Housed'
  <2>1. /\ UNCHANGED <<life, capabilities, typing>> /\ ime_requests # <<>>
        /\ ime_requests' = Tail(ime_requests) /\ Head(ime_requests) = <<w, on>>
    BY <1>1 DEF Handles, Unstirred
  <2>2. /\ 1 \in DOMAIN ime_requests /\ ime_requests[1][1] = w
        /\ \A i \in DOMAIN ime_requests' :
             i + 1 \in DOMAIN ime_requests /\ ime_requests'[i] = ime_requests[i + 1]
    <3>1. ime_requests \in Seq(Asked)
      BY ImeTyped
    <3>2. ime_requests[1] = <<w, on>> /\ DOMAIN ime_requests = 1 .. Len(ime_requests)
          /\ Len(ime_requests) \in Nat \ {0}
      BY <2>1, <3>1, TailIs
    <3> QED BY <2>1, <3>1, <3>2, TailIs
  <2>3. /\ \A v \in Windows : v # w => contexts'[v] = contexts[v] /\ (Ime!HasIc(v)' <=> Ime!HasIc(v))
        /\ (Ime!HasIc(w) \/ contexts[w] = None)'
        /\ contexts'[w] # None => contexts[w] # None \/ life[w] # "none"
    <3>1. \/ UNCHANGED contexts
          \/ contexts' = [contexts EXCEPT ![w] = Ime!Context(on)]
          \/ contexts' = [contexts EXCEPT ![w] = None]
      BY <1>1 DEF Handles
    <3>2. life[w] # "none"
      BY <2>2 DEF Housed
    <3>3. CASE UNCHANGED contexts
      BY <3>3, <3>2 DEF Housed, Ime!HasIc
    <3>4. CASE contexts' = [contexts EXCEPT ![w] = Ime!Context(on)]
      <4>1. contexts'[w] = Ime!Context(on)
            /\ \A v \in Windows : v # w => contexts'[v] = contexts[v] /\ (Ime!HasIc(v)' <=> Ime!HasIc(v))
        BY <3>4, ChangedIs, ContextIs
      <4>2. Ime!HasIc(w)'
        BY <4>1, ContextIs DEF Ime!HasIc, Distinct
      <4> QED BY <3>2, <4>1, <4>2
    <3>5. CASE contexts' = [contexts EXCEPT ![w] = None]
      BY <3>5, ChangedIs
    <3> QED BY <3>1, <3>3, <3>4, <3>5
  <2>4. \A v \in Windows : (Ime!HasIc(v) \/ contexts[v] = None)'
    BY <2>3 DEF Housed
  <2>5. \A v \in Windows : life'[v] = "none" => contexts'[v] = None /\ v \notin capabilities'
    BY <2>1, <2>2, <2>3 DEF Housed
  <2>6. \A i \in DOMAIN ime_requests' :
          /\ life'[ime_requests'[i][1]] # "none"
          /\ ~LeavesLate => life'[ime_requests'[i][1]] = "alive"
    BY <2>1, <2>2 DEF Housed
  <2>7. ~LeavesLate' => \A v \in Windows : contexts'[v] # None => life'[v] \in {"alive", "dropped"}
    <3>1. ~LeavesLate => life[w] = "alive"
      BY <2>2 DEF Housed
    <3> QED BY <2>1, <2>3, <3>1 DEF Housed, LeavesLate
  <2> QED BY <2>1, <2>4, <2>5, <2>6, <2>7 DEF Housed, LeavesLate
<1>2. ASSUME NEW w \in Windows, NEW kind \in {"Enabled", "Disabled", "Start", "End"},
             Delivers(w, kind)
      PROVE  Housed'
  BY <1>2, HousedStays DEF Delivers
<1>3. ASSUME Turns("requests", "events") \/ Turns("events", "xevent") PROVE Housed'
  BY <1>3, HousedStays DEF Turns, Unstirred
<1> QED BY <1>1, <1>2, <1>3

----
(* Contexts follow the requests. *)

\* A window whose context, requests and wish stay.
LEMMA ObeyedStays ==
  ASSUME NEW w \in Windows, Obeyed(w), UNCHANGED ime_requests,
         w \in capabilities' <=> w \in capabilities,
         Ime!HasIc(w)', contexts'[w].allowed = contexts[w].allowed
  PROVE  Obeyed(w)'
<1>1. (w \in capabilities)' = (w \in capabilities)
  OBVIOUS
<1> QED BY <1>1 DEF Obeyed

\* A step that changes none of it, but for windows that go.
LEMMA FollowedStays ==
  ASSUME Followed, UNCHANGED <<contexts, ime_requests, capabilities>>,
         \A w \in Windows : life'[w] = "alive" => life[w] = "alive"
  PROVE  Followed'
<1> SUFFICES ASSUME NEW w \in Windows, life'[w] = "alive" PROVE Obeyed(w)'
  BY DEF Followed
<1>1. Obeyed(w)
  BY DEF Followed
<1> QED BY <1>1, ObeyedStays DEF Obeyed, Ime!HasIc

\* The application's steps.
LEMMA AppFollowed ==
  ASSUME Ime!TypeOK, Distinct, Housed, Followed, NEW w \in Windows
  PROVE  /\ Creates(w) => Followed'
         /\ \A on \in BOOLEAN : Requests(w, on) => Followed'
         /\ Drops(w) => Followed'
<1>1. ASSUME Creates(w) PROVE Followed'
  <2>1. /\ contexts' = [contexts EXCEPT ![w] = Ime!Context(FALSE)] /\ life[w] = "none"
        /\ life' = [life EXCEPT ![w] = "alive"]
        /\ UNCHANGED <<ime_requests, capabilities>>
    BY <1>1 DEF Creates
  <2>2. contexts'[w] = Ime!Context(FALSE)
        /\ \A v \in Windows : v # w => contexts'[v] = contexts[v] /\ (Ime!HasIc(v)' <=> Ime!HasIc(v))
    BY <2>1, ChangedIs, ContextIs
  <2>3. \A v \in Windows : v # w => life'[v] = life[v]
    BY <2>1, ImeTyped
  <2>4. ASSUME NEW v \in Windows, v # w, life'[v] = "alive" PROVE Obeyed(v)'
    <3>1. Obeyed(v)
      BY <2>3, <2>4 DEF Followed
    <3>2. Ime!HasIc(v)
      BY <3>1 DEF Obeyed
    <3> QED BY <2>1, <2>2, <2>4, <3>1, <3>2, ObeyedStays
  <2>5. Obeyed(w)'
    <3>1. \A i \in DOMAIN ime_requests : ime_requests[i][1] # w
      BY <2>1 DEF Housed
    <3>2. Ime!HasIc(w)' /\ contexts'[w].allowed = FALSE
      BY <2>2, ContextIs DEF Ime!HasIc, Distinct
    <3>3. w \notin capabilities
      BY <2>1 DEF Housed
    <3>4. contexts'[w].allowed = (w \in capabilities)
      <4>1. contexts'[w].allowed \in BOOLEAN /\ ~contexts'[w].allowed
        BY <3>2
      <4> QED BY <3>3, <4>1
    <3> QED BY <2>1, <3>1, <3>2, <3>4 DEF Obeyed
  <2> QED BY <2>4, <2>5 DEF Followed
<1>2. ASSUME NEW on \in BOOLEAN, Requests(w, on) PROVE Followed'
  <2>1. /\ UNCHANGED <<contexts, life>> /\ ime_requests' = Append(ime_requests, <<w, on>>)
        /\ capabilities' = IF on THEN capabilities \union {w} ELSE capabilities \ {w}
    BY <1>2 DEF Requests
  <2>2. /\ DOMAIN ime_requests = 1 .. Len(ime_requests) /\ Len(ime_requests) \in Nat
        /\ DOMAIN ime_requests' = 1 .. Len(ime_requests) + 1
        /\ \A i \in DOMAIN ime_requests : ime_requests'[i] = ime_requests[i]
        /\ ime_requests'[Len(ime_requests) + 1] = <<w, on>>
    <3>1. <<w, on>> \in Asked /\ ime_requests \in Seq(Asked)
      BY ImeTyped DEF Asked
    <3> QED BY <2>1, <3>1, AppendIs
  <2> SUFFICES ASSUME NEW v \in Windows, life'[v] = "alive" PROVE Obeyed(v)'
    BY DEF Followed
  <2>3. Obeyed(v)
    BY <2>1 DEF Followed
  <2>4. Ime!HasIc(v)'
    BY <2>1, <2>3 DEF Obeyed, Ime!HasIc
  <2> DEFINE n == Len(ime_requests) + 1
  <2>5. /\ n \in DOMAIN ime_requests' /\ ime_requests'[n][1] = w /\ ime_requests'[n][2] = on
        /\ \A i \in DOMAIN ime_requests' :
             i = n \/ (i \in DOMAIN ime_requests /\ i < n /\ ime_requests'[i] = ime_requests[i])
        /\ \A i \in DOMAIN ime_requests : i \in DOMAIN ime_requests'
    BY <2>2
  <2> HIDE DEF n
  <2>6. CASE v = w
    <3>1. on = (v \in capabilities')
      BY <2>1, <2>6
    <3>2. \A i \in DOMAIN ime_requests' :
           \/ ime_requests'[i][1] # v
           \/ \E j \in DOMAIN ime_requests' : i < j /\ ime_requests'[j][1] = v
           \/ ime_requests'[i][2] = (v \in capabilities')
      BY <2>5, <2>6, <3>1
    <3> QED BY <2>4, <2>5, <2>6, <3>2 DEF Obeyed
  <2>7. CASE v # w
    <3>1. (v \in capabilities') = (v \in capabilities)
      BY <2>1, <2>7
    <3>2. ASSUME NEW i \in DOMAIN ime_requests'
          PROVE  \/ ime_requests'[i][1] # v
                 \/ \E j \in DOMAIN ime_requests' : i < j /\ ime_requests'[j][1] = v
                 \/ ime_requests'[i][2] = (v \in capabilities')
      <4>1. CASE i = n
        BY <2>5, <2>7, <4>1
      <4>2. CASE i # n
        <5>1. i \in DOMAIN ime_requests /\ ime_requests'[i] = ime_requests[i]
          BY <2>5, <4>2
        <5>2. \/ ime_requests[i][1] # v
              \/ \E j \in DOMAIN ime_requests : i < j /\ ime_requests[j][1] = v
              \/ ime_requests[i][2] = (v \in capabilities)
          BY <2>3, <5>1 DEF Obeyed
        <5>3. CASE \E j \in DOMAIN ime_requests : i < j /\ ime_requests[j][1] = v
          BY <2>2, <2>5, <5>3
        <5> QED BY <3>1, <5>1, <5>2, <5>3
      <4> QED BY <4>1, <4>2
    <3>3. \/ \E i \in DOMAIN ime_requests' : ime_requests'[i][1] = v
          \/ contexts'[v].allowed = (v \in capabilities')
      <4>1. \/ \E i \in DOMAIN ime_requests : ime_requests[i][1] = v
            \/ contexts[v].allowed = (v \in capabilities)
        BY <2>3 DEF Obeyed
      <4>2. CASE \E i \in DOMAIN ime_requests : ime_requests[i][1] = v
        BY <2>2, <2>5, <4>2
      <4> QED BY <2>1, <3>1, <4>1, <4>2
    <3> QED BY <2>4, <3>2, <3>3 DEF Obeyed
  <2> QED BY <2>6, <2>7
<1>3. ASSUME Drops(w) PROVE Followed'
  <2>1. \A v \in Windows : life'[v] = "alive" => life[v] = "alive"
    BY <1>3, ImeTyped DEF Drops
  <2> QED BY <1>3, <2>1, FollowedStays DEF Drops
<1> QED BY <1>1, <1>2, <1>3

\* The server, and Xlib's callbacks.
LEMMA ServerFollowed ==
  ASSUME Ime!TypeOK, Distinct, Housed, Followed
  PROVE  /\ Goes \/ Comes \/ Passes => Followed'
         /\ Falls \/ Reopens => Followed'
<1>1. ASSUME Goes \/ Comes \/ Passes PROVE Followed'
  BY <1>1, FollowedStays DEF Goes, Comes, Passes
<1>2. ASSUME Falls \/ Reopens PROVE Followed'
  <2>1. UNCHANGED <<life, ime_requests, capabilities>>
    BY <1>2 DEF Falls, Reopens
  <2>2. contexts' = [v \in Windows |-> IF contexts[v] = None THEN None
                                       ELSE Ime!Rebuilt(contexts[v])]
    BY <1>2 DEF Falls, Reopens
  <2> SUFFICES ASSUME NEW w \in Windows, life'[w] = "alive" PROVE Obeyed(w)'
    BY DEF Followed
  <2>3. Obeyed(w)
    BY <2>1 DEF Followed
  <2>4. Ime!HasIc(w) /\ contexts[w] # None
    BY <2>3 DEF Obeyed, Ime!HasIc
  <2>5. Ime!HasIc(w)' /\ contexts'[w].allowed = contexts[w].allowed
    BY <2>2, <2>4, RebuiltIs
  <2> QED BY <2>1, <2>3, <2>5, ObeyedStays
<1> QED BY <1>1, <1>2

\* The other X events.
LEMMA OtherFollowed ==
  ASSUME Ime!TypeOK, Distinct, Housed, Followed
  PROVE  /\ Toggles => Followed'
         /\ \A w \in Windows : Focuses(w) => Followed'
         /\ \A w \in Windows : Vanishes(w) => Followed'
         /\ \A composed \in BOOLEAN : Keys(composed) => Followed'
<1>1. ASSUME Toggles PROVE Followed'
  <2> DEFINE c == [contexts[active] EXCEPT !.preedit = ~contexts[active].preedit]
  <2>1. active \in Windows /\ contexts[active] # None /\ contexts[active] \in Record
        /\ c \in Record /\ contexts' = [contexts EXCEPT ![active] = c]
        /\ UNCHANGED <<life, ime_requests, capabilities>>
    <3>1. active \in Windows /\ UNCHANGED <<life, ime_requests, capabilities>>
      BY <1>1 DEF Toggles
    <3> QED BY <1>1, <3>1, ToggledIs
  <2>2. c # None /\ c.ic = contexts[active].ic /\ c.allowed = contexts[active].allowed
    BY <2>1 DEF Distinct, Record
  <2> HIDE DEF c
  <2>3. contexts'[active] = c
        /\ \A v \in Windows : v # active => contexts'[v] = contexts[v] /\ (Ime!HasIc(v)' <=> Ime!HasIc(v))
    BY <2>1, ChangedIs
  <2>4. \A v \in Windows : (Ime!HasIc(v)' <=> Ime!HasIc(v)) /\ contexts'[v].allowed = contexts[v].allowed
    BY <2>1, <2>2, <2>3 DEF Ime!HasIc
  <2> SUFFICES ASSUME NEW w \in Windows, life'[w] = "alive" PROVE Obeyed(w)'
    BY DEF Followed
  <2>5. Obeyed(w)
    BY <2>1 DEF Followed
  <2>6. Ime!HasIc(w)
    BY <2>5 DEF Obeyed
  <2> QED BY <2>1, <2>4, <2>5, <2>6, ObeyedStays
<1>2. ASSUME NEW w \in Windows, Focuses(w) PROVE Followed'
  BY <1>2, FollowedStays DEF Focuses
<1>3. ASSUME NEW w \in Windows, Vanishes(w) PROVE Followed'
  <2>1. /\ life' = [life EXCEPT ![w] = "gone"]
        /\ contexts' = [contexts EXCEPT ![w] = None]
        /\ UNCHANGED <<ime_requests, capabilities>>
    BY <1>3 DEF Vanishes
  <2>2. \A v \in Windows : v # w => contexts'[v] = contexts[v] /\ (Ime!HasIc(v)' <=> Ime!HasIc(v))
    BY <2>1, ChangedIs
  <2>3. life'[w] = "gone" /\ \A v \in Windows : v # w => life'[v] = life[v]
    BY <2>1, ImeTyped
  <2> SUFFICES ASSUME NEW v \in Windows, life'[v] = "alive" PROVE Obeyed(v)'
    BY DEF Followed
  <2>4. v # w
    BY <2>3
  <2>5. Obeyed(v)
    BY <2>3, <2>4 DEF Followed
  <2>6. Ime!HasIc(v)
    BY <2>5 DEF Obeyed
  <2> QED BY <2>1, <2>2, <2>4, <2>5, <2>6, ObeyedStays
<1>4. ASSUME NEW composed \in BOOLEAN, Keys(composed) PROVE Followed'
  BY <1>4, FollowedStays DEF Keys
<1> QED BY <1>1, <1>2, <1>3, <1>4

\* The drains.
LEMMA DrainFollowed ==
  ASSUME Ime!TypeOK, Distinct, Housed, Followed
  PROVE  /\ \A w \in Windows, on \in BOOLEAN : Handles(w, on) => Followed'
         /\ \A w \in Windows, kind \in {"Enabled", "Disabled", "Start", "End"} :
              Delivers(w, kind) => Followed'
         /\ Turns("requests", "events") \/ Turns("events", "xevent") => Followed'
<1>1. ASSUME NEW w \in Windows, NEW on \in BOOLEAN, Handles(w, on) PROVE Followed'
  <2>1. /\ UNCHANGED <<life, capabilities, typing>> /\ ime_requests # <<>>
        /\ ime_requests' = Tail(ime_requests) /\ Head(ime_requests) = <<w, on>>
    BY <1>1 DEF Handles, Unstirred
  <2>2. /\ 1 \in DOMAIN ime_requests /\ ime_requests[1] = <<w, on>>
        /\ \A i \in DOMAIN ime_requests' : /\ i + 1 \in DOMAIN ime_requests
                                           /\ ime_requests'[i] = ime_requests[i + 1] /\ i \in Nat
        /\ \A i \in DOMAIN ime_requests :
             /\ i \in Nat \ {0}
             /\ i = 1 \/ (i - 1 \in DOMAIN ime_requests'
                          /\ ime_requests'[i - 1] = ime_requests[i])
    <3>1. ime_requests \in Seq(Asked)
      BY ImeTyped
    <3>2. ime_requests[1] = <<w, on>> /\ DOMAIN ime_requests = 1 .. Len(ime_requests)
          /\ Len(ime_requests) \in Nat \ {0}
          /\ DOMAIN Tail(ime_requests) = 1 .. Len(ime_requests) - 1
      BY <2>1, <3>1, TailIs
    <3>3. /\ \A i \in DOMAIN Tail(ime_requests) :
                i + 1 \in DOMAIN ime_requests /\ Tail(ime_requests)[i] = ime_requests[i + 1]
          /\ \A i \in DOMAIN ime_requests :
                i = 1 \/ (i - 1 \in DOMAIN Tail(ime_requests)
                          /\ Tail(ime_requests)[i - 1] = ime_requests[i])
      BY <2>1, <3>1, TailIs
    <3> QED BY <2>1, <3>2, <3>3
  <2>3. /\ \A v \in Windows : v # w => contexts'[v] = contexts[v] /\ (Ime!HasIc(v)' <=> Ime!HasIc(v))
        /\ life[w] = "alive" => Ime!HasIc(w)' /\ contexts'[w].allowed = on
    <3>1. \/ Ime!HasIc(w) /\ contexts[w].allowed = on /\ UNCHANGED contexts
          \/ contexts' = [contexts EXCEPT ![w] = Ime!Context(on)]
          \/ life[w] # "alive" /\ contexts' = [contexts EXCEPT ![w] = None]
      BY <1>1 DEF Handles
    <3>2. CASE Ime!HasIc(w) /\ contexts[w].allowed = on /\ UNCHANGED contexts
      BY <3>2 DEF Ime!HasIc
    <3>3. CASE contexts' = [contexts EXCEPT ![w] = Ime!Context(on)]
      <4>1. contexts'[w] = Ime!Context(on)
            /\ \A v \in Windows : v # w => contexts'[v] = contexts[v] /\ (Ime!HasIc(v)' <=> Ime!HasIc(v))
        BY <3>3, ChangedIs, ContextIs
      <4>2. Ime!HasIc(w)' /\ contexts'[w].allowed = on
        BY <4>1, ContextIs DEF Ime!HasIc, Distinct
      <4> QED BY <4>1, <4>2
    <3>4. CASE life[w] # "alive" /\ contexts' = [contexts EXCEPT ![w] = None]
      BY <3>4, ChangedIs
    <3> QED BY <3>1, <3>2, <3>3, <3>4
  <2> SUFFICES ASSUME NEW v \in Windows, life'[v] = "alive" PROVE Obeyed(v)'
    BY DEF Followed
  <2>4. Obeyed(v) /\ life[v] = "alive"
    BY <2>1 DEF Followed
  <2>5. Ime!HasIc(v)'
    BY <2>3, <2>4 DEF Obeyed
  <2>6. ASSUME NEW i \in DOMAIN ime_requests'
        PROVE  \/ ime_requests'[i][1] # v
               \/ \E j \in DOMAIN ime_requests' : i < j /\ ime_requests'[j][1] = v
               \/ ime_requests'[i][2] = (v \in capabilities')
    <3>1. i + 1 \in DOMAIN ime_requests /\ ime_requests'[i] = ime_requests[i + 1] /\ i \in Nat
      BY <2>2
    <3>2. \/ ime_requests[i + 1][1] # v
          \/ \E j \in DOMAIN ime_requests : i + 1 < j /\ ime_requests[j][1] = v
          \/ ime_requests[i + 1][2] = (v \in capabilities)
      BY <2>4, <3>1 DEF Obeyed
    <3>3. ASSUME NEW j \in DOMAIN ime_requests, i + 1 < j, ime_requests[j][1] = v
          PROVE  \E k \in DOMAIN ime_requests' : i < k /\ ime_requests'[k][1] = v
      <4>1. j - 1 \in DOMAIN ime_requests' /\ ime_requests'[j - 1] = ime_requests[j] /\ i < j - 1
        BY <2>2, <3>1, <3>3
      <4> QED BY <3>3, <4>1
    <3> QED BY <2>1, <3>1, <3>2, <3>3
  <2>7. \/ \E i \in DOMAIN ime_requests' : ime_requests'[i][1] = v
        \/ contexts'[v].allowed = (v \in capabilities')
    <3>1. ASSUME NEW i \in DOMAIN ime_requests, i # 1, ime_requests[i][1] = v
          PROVE  \E k \in DOMAIN ime_requests' : ime_requests'[k][1] = v
      BY <2>2, <3>1
    <3>2. CASE v = w
      <4>1. \/ \E j \in DOMAIN ime_requests : 1 < j /\ ime_requests[j][1] = v
            \/ on = (v \in capabilities)
        BY <2>2, <2>4, <3>2 DEF Obeyed
      <4>2. CASE \E j \in DOMAIN ime_requests : 1 < j /\ ime_requests[j][1] = v
        BY <2>2, <3>1, <4>2
      <4>3. CASE on = (v \in capabilities)
        BY <2>1, <2>3, <2>4, <3>2, <4>3
      <4> QED BY <4>1, <4>2, <4>3
    <3>3. CASE v # w
      <4>1. \/ \E i \in DOMAIN ime_requests : ime_requests[i][1] = v
            \/ contexts[v].allowed = (v \in capabilities)
        BY <2>4 DEF Obeyed
      <4>2. CASE \E i \in DOMAIN ime_requests : ime_requests[i][1] = v
        BY <2>2, <3>1, <3>3, <4>2
      <4> QED BY <2>1, <2>3, <3>3, <4>1, <4>2
    <3> QED BY <3>2, <3>3
  <2> QED BY <2>5, <2>6, <2>7 DEF Obeyed
<1>2. ASSUME NEW w \in Windows, NEW kind \in {"Enabled", "Disabled", "Start", "End"},
             Delivers(w, kind)
      PROVE  Followed'
  BY <1>2, FollowedStays DEF Delivers
<1>3. ASSUME Turns("requests", "events") \/ Turns("events", "xevent") PROVE Followed'
  BY <1>3, FollowedStays DEF Turns, Unstirred
<1> QED BY <1>1, <1>2, <1>3

----
(* The input method is replaced without harm, and contexts follow the requests. *)

Held == Ime!TypeOK /\ Connected /\ Housed /\ Followed

\* What a step of the module does is one of these.
WindowSteps(w) ==
  \/ Creates(w) \/ (\E on \in BOOLEAN : Requests(w, on)) \/ Drops(w) \/ Focuses(w)
  \/ Vanishes(w) \/ (\E on \in BOOLEAN : Handles(w, on))
  \/ (\E kind \in {"Enabled", "Disabled", "Start", "End"} : Delivers(w, kind))
PlainSteps ==
  \/ Goes \/ Comes \/ Falls \/ Reopens \/ Passes \/ Toggles
  \/ (\E composed \in BOOLEAN : Keys(composed))
  \/ Turns("requests", "events") \/ Turns("events", "xevent")
Steps == due' \in BOOLEAN /\ ((\E w \in Windows : WindowSteps(w)) \/ PlainSteps)

\* What Xlib is about to call.
LEMMA DueTyped == ASSUME Ime!TypeOK, Ime!Next PROVE due' \in BOOLEAN
<1>1. due \in BOOLEAN /\ server \in BOOLEAN /\ watching \in BOOLEAN
  BY ImeTyped
<1>2. CASE Ime!Application \/ Ime!ServerGoes \/ Ime!ServerComes
  BY <1>1, <1>2 DEF Ime!Application, Ime!CreateWindow, Ime!Request, Ime!DropWindow,
     Ime!ServerGoes, Ime!ServerComes
<1>3. CASE Ime!Xlib
  BY <1>1, <1>3 DEF Ime!Xlib, Ime!XimDestroyed, Ime!XimInstantiated
<1>4. CASE Ime!Preedit \/ Ime!Focus \/ Ime!Key \/ Ime!DestroyNotify \/ Ime!Unrelated
  BY <1>1, <1>4 DEF Ime!Preedit, Ime!Focus, Ime!Key, Ime!DestroyNotify, Ime!Unrelated,
     Ime!OtherXEvent
<1>5. CASE Ime!Drain
  BY <1>1, <1>5 DEF Ime!Drain, Ime!HandleRequest, Ime!RequestsDrained, Ime!HandleEvent,
     Ime!EventsDrained, Ime!Draining
<1> QED BY <1>2, <1>3, <1>4, <1>5 DEF Ime!Next

\* The steps of the module.
LEMMA StepsAre ==
  ASSUME Calm, Distinct, Held, Ime!Next
  PROVE  Steps
<1> USE DEF Held
<1>0. due' \in BOOLEAN
  BY DueTyped
<1>1. CASE Ime!CreateWindow
  BY <1>0, <1>1, CreateIs DEF Steps, WindowSteps, PlainSteps
<1>2. CASE Ime!Request
  BY <1>0, <1>2, RequestIs DEF Steps, WindowSteps, PlainSteps
<1>3. CASE Ime!DropWindow
  BY <1>0, <1>3, DropIs DEF Steps, WindowSteps, PlainSteps
<1>4. CASE Ime!ServerGoes
  BY <1>0, <1>4, GoesIs DEF Steps, WindowSteps, PlainSteps
<1>5. CASE Ime!ServerComes
  BY <1>0, <1>5, ComesIs DEF Steps, WindowSteps, PlainSteps
<1>6. CASE Ime!XimDestroyed
  BY <1>0, <1>6, FallsIs DEF Steps, WindowSteps, PlainSteps
<1>7. CASE Ime!XimInstantiated
  BY <1>0, <1>7, ReopensIs DEF Steps, WindowSteps, PlainSteps
<1>8. CASE Ime!Preedit
  BY <1>0, <1>8, TogglesIs DEF Steps, WindowSteps, PlainSteps, Distinct
<1>9. CASE Ime!Focus
  BY <1>0, <1>9, FocusesIs DEF Steps, WindowSteps, PlainSteps
<1>10. CASE Ime!Key
  BY <1>0, <1>10, KeysIs DEF Steps, WindowSteps, PlainSteps, Distinct
<1>11. CASE Ime!DestroyNotify
  BY <1>0, <1>11, VanishesIs DEF Steps, WindowSteps, PlainSteps
<1>12. CASE Ime!Unrelated
  BY <1>0, <1>12, PassesIs DEF Steps, WindowSteps, PlainSteps
<1>13. CASE Ime!HandleRequest
  BY <1>0, <1>13, HandlesIs DEF Steps, WindowSteps, PlainSteps
<1>14. CASE Ime!RequestsDrained
  BY <1>0, <1>14, TurnsIs DEF Steps, WindowSteps, PlainSteps
<1>15. CASE Ime!HandleEvent
  BY <1>0, <1>15, DeliversIs DEF Steps, WindowSteps, PlainSteps
<1>16. CASE Ime!EventsDrained
  BY <1>0, <1>16, TurnsIs DEF Steps, WindowSteps, PlainSteps
<1> QED
  BY <1>1, <1>2, <1>3, <1>4, <1>5, <1>6, <1>7, <1>8, <1>9, <1>10, <1>11, <1>12, <1>13, <1>14,
     <1>15, <1>16 DEF Ime!Next, Ime!Application, Ime!Xlib, Ime!Drain

\* Such a step keeps all of it.
LEMMA HeldKept ==
  ASSUME Distinct, Held, Steps
  PROVE  Held'
<1>1. Ime!TypeOK /\ Connected /\ Housed /\ Followed
  BY DEF Held
<1>2. Good'
  <2>1. ASSUME NEW w \in Windows, WindowSteps(w) PROVE Good'
    BY <1>1, <2>1, AppTyped, OtherTyped, DrainTyped DEF WindowSteps
  <2>2. ASSUME PlainSteps PROVE Good'
    BY <1>1, <2>2, ServerTyped, OtherTyped, DrainTyped DEF PlainSteps
  <2> QED BY <2>1, <2>2 DEF Steps
<1>3. Connected'
  BY <1>1, ConnectedKept, Zenon DEF Steps, WindowSteps, PlainSteps
<1>4. Housed'
  <2>1. ASSUME NEW w \in Windows, WindowSteps(w) PROVE Housed'
    BY <1>1, <2>1, AppHoused, OtherHoused, DrainHoused DEF WindowSteps
  <2>2. ASSUME PlainSteps PROVE Housed'
    BY <1>1, <2>2, ServerHoused, OtherHoused, DrainHoused DEF PlainSteps
  <2> QED BY <2>1, <2>2 DEF Steps
<1>5. Followed'
  <2>1. ASSUME NEW w \in Windows, WindowSteps(w) PROVE Followed'
    BY <1>1, <2>1, AppFollowed, OtherFollowed, DrainFollowed DEF WindowSteps
  <2>2. ASSUME PlainSteps PROVE Followed'
    BY <1>1, <2>2, ServerFollowed, OtherFollowed, DrainFollowed DEF PlainSteps
  <2> QED BY <2>1, <2>2 DEF Steps
<1>6. Ime!TypeOK'
  BY <1>2, GoodIs DEF Steps
<1> QED BY <1>3, <1>4, <1>5, <1>6 DEF Held

\* A step of the specification leaves what the input methods are made of alone, or is one
\* of theirs.
LEMMA ImeSteps == [Next_]_<<part, vars, ime>> => Ime!Next \/ UNCHANGED ime
BY DEF Next_

\* Nothing changes.
LEMMA HeldStays == Held /\ UNCHANGED ime => Held'
<1> SUFFICES ASSUME Held, UNCHANGED ime PROVE Held'
  OBVIOUS
<1> USE DEF ime
<1>1. Ime!TypeOK'
  BY DEF Held, Ime!TypeOK
<1>2. Connected'
  BY DEF Held, Connected, LeavesLate
<1>3. Housed'
  BY HousedStays DEF Held
<1>4. Followed'
  BY FollowedStays DEF Held
<1> QED BY <1>1, <1>2, <1>3, <1>4 DEF Held

\* It holds at first.
LEMMA HeldFirst == Init_ => Held
<1> SUFFICES ASSUME Init_ PROVE Held
  OBVIOUS
<1> USE DEF Init_, Ime!Init
<1>1. Ime!TypeOK
  <2>1. contexts \in [Windows -> {None} \union Record] /\ life \in [Windows -> Lives]
        /\ told \in [Windows -> {"enabled", "disabled"}]
    BY DEF Lives
  <2>2. ime_requests \in Seq(Asked) /\ events \in Seq(Heard)
    OBVIOUS
  <2>3. im \in {"server", "local"} /\ server \in BOOLEAN /\ watching \in BOOLEAN
        /\ is_fallback \in BOOLEAN
    OBVIOUS
  <2> QED BY <2>1, <2>2, <2>3 DEF Ime!TypeOK, Record, Lives, Asked, Heard
<1>2. Connected
  BY DEF Connected
<1>3. Housed
  BY DEF Housed
<1>4. Followed
  BY DEF Followed
<1> QED BY <1>1, <1>2, <1>3, <1>4 DEF Held

\* The types of the variables of the input methods.
THEOREM ImeTypeCorrectness == ASSUME Calm, Distinct PROVE InputSpec => []Ime!TypeOK
<1>1. Init_ => Held
  BY HeldFirst
<1>2. Held /\ [Next_]_<<part, vars, ime>> => Held'
  BY ImeSteps, StepsAre, HeldKept, HeldStays
<1>3. Held => Ime!TypeOK
  BY DEF Held
<1> QED BY <1>1, <1>2, <1>3, PTL DEF InputSpec

\* Replacing the input method never panics, and nothing that Xlib freed with a dead server
\* is freed again.
THEOREM IsReplacedSafely == ASSUME Calm, Distinct PROVE InputSpec => []Ime!ReplacedSafely
<1>1. Init_ => Held
  BY HeldFirst
<1>2. Held /\ [Next_]_<<part, vars, ime>> => Held'
  BY ImeSteps, StepsAre, HeldKept, HeldStays
<1>3. Held => Ime!ReplacedSafely
  BY DEF Held, Connected, Ime!ReplacedSafely
<1> QED BY <1>1, <1>2, <1>3, PTL DEF InputSpec

\* Once the requests are drained, the context of a window allows input exactly if the
\* application's last request was to.
THEOREM ContextsFollowRequests == ASSUME Calm, Distinct PROVE InputSpec => []Ime!ContextsFollow
<1>1. Init_ => Held
  BY HeldFirst
<1>2. Held /\ [Next_]_<<part, vars, ime>> => Held'
  BY ImeSteps, StepsAre, HeldKept, HeldStays
<1>3. Held => Ime!ContextsFollow
  <2> SUFFICES ASSUME Held, ime_requests = <<>>, NEW w \in Windows, life[w] = "alive"
               PROVE  contexts[w] # None /\ contexts[w].allowed = (w \in capabilities)
    BY DEF Ime!ContextsFollow
  <2>1. Obeyed(w)
    BY DEF Held, Followed
  <2> QED BY <2>1 DEF Obeyed, Ime!HasIc
<1> QED BY <1>1, <1>2, <1>3, PTL DEF InputSpec

----
(* What is taken for a composition. *)

\* While one composes, the server and the windows stay, the focus stays where it is and no
\* other window asks for anything; where windows go with what is on its way, none composes.
Sober ==
  /\ Calm
  /\ \A e \in ImeEnvironments :
       /\ "composing" \notin e.races
       /\ "late" \in e.races => "preedit" \notin e.ops

Busy(w) == Ime!HasIc(w) /\ contexts[w].preedit
Allows(w) == Ime!HasIc(w) /\ contexts[w].allowed = TRUE
IsStart(i) == events[i][2] = "Start"
Ends(i) == events[i][2] \in {"End", "Disabled"}

\* A window that may compose has heard that it may, or will before it composes.
Informed(w) ==
  Allows(w) =>
    /\ told[w] = "disabled" => \E i \in DOMAIN events : events[i] = <<w, "Enabled">>
    /\ \A i \in DOMAIN events : events[i] = <<w, "Disabled">> =>
         \E j \in DOMAIN events : i < j /\ events[j] = <<w, "Enabled">>
AllInformed == \A w \in Windows : Informed(w)

\* Between the drains only Disabled, of new windows, is on its way.
Drained == pc = "xevent" => \A i \in DOMAIN events : events[i][2] = "Disabled"

\* Only the active window composes, with the server there, and nobody else asks for anything.
Exclusive ==
  \A w \in Windows : Busy(w) =>
    /\ w = active /\ im = "server" /\ lost = FALSE /\ life[w] = "alive"
    /\ contexts[w].allowed = TRUE
    /\ \A i \in DOMAIN ime_requests : ime_requests[i][1] = w

\* When none composes, what says so is on its way; while one does, no such event would end it.
Ending ==
  (\A w \in Windows : ~Busy(w)) =>
    /\ \A i \in DOMAIN events : IsStart(i) => \E j \in DOMAIN events : i < j /\ Ends(j)
    /\ is_composing => \E j \in DOMAIN events : Ends(j)
Ongoing ==
  (\E w \in Windows : Busy(w)) =>
    \A j \in DOMAIN events : Ends(j) =>
      is_composing = FALSE /\ \A i \in DOMAIN events : i < j => ~IsStart(i)

\* A composition the application knows of is one of the active window, which is enabled.
Recognized ==
  /\ is_composing => active \in Windows /\ told[active] = "enabled" /\ life[active] = "alive"
  /\ pc = "xevent" /\ is_composing => events = <<>>

\* A start on its way is the first thing the active window hears.
Starting ==
  \A i \in DOMAIN events : IsStart(i) =>
    /\ events[i][1] = active /\ told[active] = "enabled" /\ life[active] = "alive"
    /\ \A j \in DOMAIN events : j < i => events[j][1] # active

\* Where nothing composes.
Meek ==
  "preedit" \notin typing.ops =>
    /\ \A w \in Windows : ~Busy(w)
    /\ is_composing = FALSE
    /\ \A i \in DOMAIN events : ~IsStart(i)

Sane == /\ AllInformed /\ Drained /\ Exclusive /\ Ending /\ Ongoing /\ Recognized /\ Starting /\ Meek
        /\ unwanted = FALSE

----
(* The guards and the steps, seen from there. *)

\* The guards, where the environment is sober.
LEMMA SoberIs ==
  ASSUME Ime!TypeOK, Sober
  PROVE  /\ Calm /\ "composing" \notin typing.races
         /\ LeavesLate => "preedit" \notin typing.ops
         /\ Ime!Nobody => is_composing = FALSE /\ \A w \in Windows : ~Busy(w)
         /\ \A w \in Windows : Ime!Alone(w) => \A v \in Windows : Busy(v) => v = w
<1>1. "composing" \notin typing.races /\ (LeavesLate => "preedit" \notin typing.ops)
  BY ImeTyped DEF Sober, LeavesLate
<1>2. Ime!Nobody => is_composing = FALSE /\ \A w \in Windows : ~Busy(w)
  BY <1>1, ImeTyped DEF Ime!Nobody, Ime!Unless, Ime!Composing, Busy
<1>3. \A w \in Windows : Ime!Alone(w) => \A v \in Windows : Busy(v) => v = w
  BY <1>1, ImeTyped DEF Ime!Alone, Ime!Unless, Ime!Composing, Busy
<1> QED BY <1>1, <1>2, <1>3 DEF Sober

\* What is the same.
LEMMA SameContexts ==
  UNCHANGED contexts => \A w \in Windows : (Busy(w)' <=> Busy(w)) /\ (Allows(w)' <=> Allows(w))
BY DEF Busy, Allows, Ime!HasIc

\* A change of one context.
LEMMA OtherContexts ==
  ASSUME Ime!TypeOK, Distinct, NEW w \in Windows, NEW c \in {None} \union Record,
         contexts' = [contexts EXCEPT ![w] = c]
  PROVE  /\ Busy(w)' <=> (c # None /\ c.ic /\ c.preedit)
         /\ Allows(w)' <=> (c # None /\ c.ic /\ c.allowed = TRUE)
         /\ \A v \in Windows : v # w => (Busy(v)' <=> Busy(v)) /\ (Allows(v)' <=> Allows(v))
BY ChangedIs DEF Busy, Allows, Ime!HasIc

\* A rebuild.
LEMMA RebuiltContexts ==
  ASSUME Ime!TypeOK, Distinct, Housed,
         contexts' = [v \in Windows |-> IF contexts[v] = None THEN None
                                        ELSE Ime!Rebuilt(contexts[v])]
  PROVE  \A w \in Windows : ~Busy(w)' /\ (Allows(w)' <=> Allows(w))
<1> SUFFICES ASSUME NEW w \in Windows PROVE ~Busy(w)' /\ (Allows(w)' <=> Allows(w))
  OBVIOUS
<1>1. CASE contexts[w] = None
  BY <1>1, RebuiltIs DEF Busy, Allows, Ime!HasIc
<1>2. CASE contexts[w] # None
  <2>1. /\ contexts'[w] # None /\ contexts'[w].ic = TRUE /\ contexts'[w].preedit = FALSE
        /\ contexts'[w].allowed = contexts[w].allowed
    BY <1>2, RebuiltIs
  <2>2. Ime!HasIc(w)
    BY <1>2 DEF Housed
  <2> QED BY <2>1, <2>2 DEF Busy, Allows, Ime!HasIc
<1> QED BY <1>1, <1>2

\* The steps that the queue of events, the contexts' input and what the application was told
\* survive.
Silent ==
  /\ UNCHANGED <<events, told>>
  /\ is_composing' => is_composing
  /\ \A w \in Windows : (Busy(w)' <=> Busy(w)) /\ (Allows(w)' => Allows(w))

\* These are they.
LEMMA SilentSteps ==
  ASSUME Ime!TypeOK, Distinct, Sober, Connected, Housed, Exclusive
  PROVE  /\ \A w \in Windows, on \in BOOLEAN : Requests(w, on) => Silent
         /\ \A w \in Windows : Drops(w) \/ Focuses(w) \/ Vanishes(w) => Silent
         /\ Goes \/ Comes \/ Falls \/ Reopens \/ Passes => Silent
         /\ \A composed \in BOOLEAN : Keys(composed) => Silent
         /\ Turns("requests", "events") \/ Turns("events", "xevent") => Silent
<1>1. ASSUME NEW w \in Windows, NEW on \in BOOLEAN, Requests(w, on) PROVE Silent
  BY <1>1, SameContexts DEF Requests, Silent
<1>2. ASSUME NEW w \in Windows, Drops(w) PROVE Silent
  BY <1>2, SameContexts DEF Drops, Silent
<1>3. ASSUME NEW w \in Windows, Focuses(w) PROVE Silent
  BY <1>3, SameContexts DEF Focuses, Silent
<1>4. ASSUME NEW w \in Windows, Vanishes(w) PROVE Silent
  <2>1. contexts' = [contexts EXCEPT ![w] = None] /\ life[w] = "dropped"
        /\ UNCHANGED <<events, told, is_composing>>
    BY <1>4 DEF Vanishes
  <2>2. ~Busy(w)
    BY <2>1 DEF Exclusive
  <2> QED BY <2>1, <2>2, OtherContexts DEF Silent
<1>5. ASSUME Goes \/ Comes \/ Passes PROVE Silent
  BY <1>5, SameContexts DEF Goes, Comes, Passes, Silent
<1>6. ASSUME Falls \/ Reopens PROVE Silent
  <2>1. /\ contexts' = [v \in Windows |-> IF contexts[v] = None THEN None
                                          ELSE Ime!Rebuilt(contexts[v])]
        /\ lost = TRUE \/ watching = TRUE
        /\ UNCHANGED <<events, told, is_composing>>
    BY <1>6 DEF Falls, Reopens
  <2>2. \A w \in Windows : ~Busy(w)
    BY <2>1 DEF Exclusive, Connected
  <2> QED BY <2>1, <2>2, RebuiltContexts DEF Silent
<1>7. ASSUME NEW composed \in BOOLEAN, Keys(composed) PROVE Silent
  BY <1>7, SameContexts DEF Keys, Silent
<1>8. ASSUME Turns("requests", "events") \/ Turns("events", "xevent") PROVE Silent
  BY <1>8, SameContexts DEF Turns, Unstirred, Silent
<1> QED BY <1>1, <1>2, <1>3, <1>4, <1>5, <1>6, <1>7, <1>8

\* Such a step keeps what is only of those.
LEMMA SilentKeeps ==
  ASSUME Ime!TypeOK, AllInformed, Ending, Ongoing, Silent
  PROVE  AllInformed' /\ Ending' /\ Ongoing'
<1>1. AllInformed'
  BY DEF AllInformed, Informed, Silent
<1>2. Ending'
  BY DEF Ending, Silent, IsStart, Ends
<1>3. Ongoing'
  BY ImeTyped DEF Ongoing, Silent, IsStart, Ends
<1> QED BY <1>1, <1>2, <1>3

\* One event more, the n-th.
Longer(n, w, kind) ==
  /\ n \in DOMAIN events' /\ events'[n] = <<w, kind>>
  /\ \A i \in DOMAIN events : i \in DOMAIN events' /\ i < n /\ events'[i] = events[i]
  /\ \A i \in DOMAIN events' :
       i = n \/ (i \in DOMAIN events /\ i < n /\ events'[i] = events[i])
LEMMA OneMore ==
  ASSUME Ime!TypeOK, NEW w \in Windows, NEW kind \in {"Enabled", "Disabled", "Start", "End"},
         events' = Append(events, <<w, kind>>)
  PROVE  \E n \in Nat \ {0} : Longer(n, w, kind)
<1>1. <<w, kind>> \in Heard /\ events \in Seq(Heard)
  BY ImeTyped DEF Heard
<1>2. /\ Len(events) \in Nat /\ DOMAIN events = 1 .. Len(events)
      /\ DOMAIN events' = 1 .. Len(events) + 1
      /\ \A i \in DOMAIN events : events'[i] = events[i]
      /\ events'[Len(events) + 1] = <<w, kind>>
  BY <1>1, AppendIs
<1>3. Len(events) + 1 \in Nat \ {0} /\ Longer(Len(events) + 1, w, kind)
  BY <1>2 DEF Longer
<1> QED BY <1>3

\* One event less.
LEMMA OneLess ==
  ASSUME Ime!TypeOK, NEW w \in Windows, NEW kind \in {"Enabled", "Disabled", "Start", "End"},
         events # <<>>, Head(events) = <<w, kind>>, events' = Tail(events)
  PROVE  /\ 1 \in DOMAIN events /\ events[1] = <<w, kind>>
         /\ \A i \in DOMAIN events' :
              i \in Nat \ {0} /\ i + 1 \in DOMAIN events /\ events'[i] = events[i + 1]
         /\ \A i \in DOMAIN events :
              /\ i \in Nat \ {0}
              /\ i = 1 \/ (i - 1 \in DOMAIN events' /\ events'[i - 1] = events[i])
<1>1. events \in Seq(Heard)
  BY ImeTyped
<1>2. events[1] = <<w, kind>> /\ DOMAIN events = 1 .. Len(events)
      /\ Len(events) \in Nat \ {0} /\ DOMAIN Tail(events) = 1 .. Len(events) - 1
  BY <1>1, TailIs
<1>3. /\ \A i \in DOMAIN Tail(events) :
            i + 1 \in DOMAIN events /\ Tail(events)[i] = events[i + 1]
      /\ \A i \in DOMAIN events :
            i = 1 \/ (i - 1 \in DOMAIN Tail(events) /\ Tail(events)[i - 1] = events[i])
  BY <1>1, TailIs
<1> QED BY <1>2, <1>3

\* A new context in the place of another, and Enabled or Disabled for it.
Swaps(w, on) ==
  /\ events' = Append(events, <<w, Ime!Enabling(on)>>)
  /\ UNCHANGED <<is_composing, told>>
  /\ \A v \in Windows : ~Busy(v)' /\ (Busy(v) => on = FALSE)
  /\ Allows(w)' => on = TRUE
  /\ \A v \in Windows : v # w => (Allows(v)' => Allows(v))

\* CreateWindow is such a step.
LEMMA CreatesSwaps ==
  ASSUME Ime!TypeOK, Distinct, Sober, NEW w \in Windows, Creates(w)
  PROVE  Swaps(w, FALSE) /\ is_composing = FALSE /\ (\A v \in Windows : ~Busy(v))
<1>1. is_composing = FALSE /\ \A v \in Windows : ~Busy(v)
  BY SoberIs DEF Creates
<1>2. /\ contexts' = [contexts EXCEPT ![w] = Ime!Context(FALSE)]
      /\ events' = Append(events, <<w, "Disabled">>) /\ UNCHANGED <<is_composing, told>>
  BY DEF Creates
<1>3. /\ Busy(w)' <=> (Ime!Context(FALSE) # None /\ Ime!Context(FALSE).ic /\ Ime!Context(FALSE).preedit)
      /\ Allows(w)' <=> (Ime!Context(FALSE) # None /\ Ime!Context(FALSE).ic
                         /\ Ime!Context(FALSE).allowed = TRUE)
      /\ \A v \in Windows : v # w => (Busy(v)' <=> Busy(v)) /\ (Allows(v)' <=> Allows(v))
  BY <1>2, OtherContexts, ContextIs
<1>4. ~Busy(w)' /\ ~Allows(w)'
  BY <1>3, ContextIs
<1> QED BY <1>1, <1>2, <1>3, <1>4 DEF Swaps, Ime!Enabling

\* HandleRequest is, or leaves it all alone.
LEMMA HandlesSwaps ==
  ASSUME Ime!TypeOK, Distinct, Exclusive, NEW w \in Windows, NEW on \in BOOLEAN, Handles(w, on)
  PROVE  Silent \/ Swaps(w, on)
<1>1. /\ ime_requests # <<>> /\ Head(ime_requests) = <<w, on>> /\ UNCHANGED <<is_composing, told>>
      /\ \/ UNCHANGED <<contexts, events>>
         \/ /\ ~(Ime!HasIc(w) /\ contexts[w].allowed = on)
            /\ contexts' = [contexts EXCEPT ![w] = Ime!Context(on)]
            /\ events' = Append(events, <<w, Ime!Enabling(on)>>)
         \/ /\ life[w] # "alive" /\ contexts' = [contexts EXCEPT ![w] = None]
            /\ UNCHANGED events
  BY DEF Handles, Unstirred
<1>2. \A v \in Windows : Busy(v) => v = w
  <2>1. 1 \in DOMAIN ime_requests /\ ime_requests[1][1] = w
    <3>1. ime_requests[1] = <<w, on>> /\ 1 \in DOMAIN ime_requests
      BY <1>1, ImeTyped, TailIs
    <3> QED BY <3>1
  <2> QED BY <2>1 DEF Exclusive
<1>3. CASE UNCHANGED <<contexts, events>>
  BY <1>1, <1>3, SameContexts DEF Silent
<1>4. CASE /\ ~(Ime!HasIc(w) /\ contexts[w].allowed = on)
           /\ contexts' = [contexts EXCEPT ![w] = Ime!Context(on)]
           /\ events' = Append(events, <<w, Ime!Enabling(on)>>)
  <2>1. /\ Busy(w)' <=> (Ime!Context(on) # None /\ Ime!Context(on).ic /\ Ime!Context(on).preedit)
        /\ Allows(w)' <=> (Ime!Context(on) # None /\ Ime!Context(on).ic
                           /\ Ime!Context(on).allowed = TRUE)
        /\ \A v \in Windows : v # w => (Busy(v)' <=> Busy(v)) /\ (Allows(v)' <=> Allows(v))
    BY <1>4, OtherContexts, ContextIs
  <2>2. ~Busy(w)' /\ (Allows(w)' => on = TRUE)
    BY <2>1, ContextIs
  <2>3. Busy(w) => on = FALSE
    BY <1>4 DEF Exclusive, Busy
  <2> QED BY <1>1, <1>2, <1>4, <2>1, <2>2, <2>3 DEF Swaps
<1>5. CASE /\ life[w] # "alive" /\ contexts' = [contexts EXCEPT ![w] = None]
           /\ UNCHANGED events
  <2>1. ~Busy(w)
    BY <1>5 DEF Exclusive
  <2> QED BY <1>1, <1>5, <2>1, OtherContexts DEF Silent
<1> QED BY <1>1, <1>3, <1>4, <1>5

\* Such a step keeps what is of events and contexts.
LEMMA SwapsKeeps ==
  ASSUME Ime!TypeOK, AllInformed, Ending, NEW w \in Windows, NEW on \in BOOLEAN, Swaps(w, on)
  PROVE  AllInformed' /\ Ending' /\ Ongoing'
<1>1. Ime!Enabling(on) \in {"Enabled", "Disabled"} /\ (on = TRUE <=> Ime!Enabling(on) = "Enabled")
  BY DEF Ime!Enabling
<1>6. PICK n \in Nat \ {0} : Longer(n, w, Ime!Enabling(on))
  <2>1. events' = Append(events, <<w, Ime!Enabling(on)>>)
    BY DEF Swaps
  <2> QED BY <1>1, <2>1, OneMore
<1>2. /\ n \in DOMAIN events' /\ events'[n] = <<w, Ime!Enabling(on)>>
      /\ \A i \in DOMAIN events : i \in DOMAIN events' /\ i < n /\ events'[i] = events[i]
      /\ \A i \in DOMAIN events' :
           i = n \/ (i \in DOMAIN events /\ i < n /\ events'[i] = events[i])
  BY <1>6 DEF Longer
<1>3. ASSUME NEW v \in Windows PROVE Informed(v)'
  <2>1. CASE v = w
    <3> SUFFICES ASSUME Allows(w)'
                 PROVE  /\ \E i \in DOMAIN events' : events'[i] = <<w, "Enabled">>
                        /\ \A i \in DOMAIN events' : events'[i] = <<w, "Disabled">> =>
                             \E j \in DOMAIN events' : i < j /\ events'[j] = <<w, "Enabled">>
      BY <2>1 DEF Informed
    <3>1. events'[n] = <<w, "Enabled">>
      BY <1>1, <1>2 DEF Swaps
    <3>2. \A i \in DOMAIN events' : events'[i] = <<w, "Disabled">> => i < n
      BY <1>2, <3>1
    <3> QED BY <1>2, <3>1, <3>2
  <2>2. CASE v # w
    <3> SUFFICES ASSUME Allows(v)'
                 PROVE  /\ told'[v] = "disabled" =>
                             \E i \in DOMAIN events' : events'[i] = <<v, "Enabled">>
                        /\ \A i \in DOMAIN events' : events'[i] = <<v, "Disabled">> =>
                             \E j \in DOMAIN events' : i < j /\ events'[j] = <<v, "Enabled">>
      BY DEF Informed
    <3>1. /\ told[v] = "disabled" => \E i \in DOMAIN events : events[i] = <<v, "Enabled">>
          /\ \A i \in DOMAIN events : events[i] = <<v, "Disabled">> =>
               \E j \in DOMAIN events : i < j /\ events[j] = <<v, "Enabled">>
          /\ told' = told
      BY <2>2 DEF Swaps, AllInformed, Informed
    <3>2. ASSUME NEW i \in DOMAIN events', events'[i] = <<v, "Disabled">>
          PROVE  \E j \in DOMAIN events' : i < j /\ events'[j] = <<v, "Enabled">>
      <4>1. i # n
        BY <1>2, <2>2, <3>2
      <4>2. i \in DOMAIN events /\ events[i] = <<v, "Disabled">>
        BY <1>2, <3>2, <4>1
      <4> QED BY <1>2, <3>1, <4>2
    <3> QED BY <1>2, <3>1, <3>2
  <2> QED BY <2>1, <2>2
<1>4. Ending'
  <2> SUFFICES /\ \A i \in DOMAIN events' : IsStart(i)' => \E j \in DOMAIN events' : i < j /\ Ends(j)'
               /\ is_composing' => \E j \in DOMAIN events' : Ends(j)'
    BY DEF Ending
  <2>1. \A i \in DOMAIN events : (IsStart(i)' <=> IsStart(i)) /\ (Ends(i)' <=> Ends(i))
    BY <1>2 DEF IsStart, Ends
  <2>2. ~IsStart(n)'
    BY <1>1, <1>2 DEF IsStart
  <2>3. CASE on = FALSE
    <3>1. Ends(n)'
      BY <1>1, <1>2, <2>3 DEF Ends, Ime!Enabling
    <3> QED BY <1>2, <2>2, <3>1
  <2>4. CASE on = TRUE
    <3>1. \A v \in Windows : ~Busy(v)
      BY <2>4 DEF Swaps
    <3>2. /\ \A i \in DOMAIN events : IsStart(i) => \E j \in DOMAIN events : i < j /\ Ends(j)
          /\ is_composing => \E j \in DOMAIN events : Ends(j)
          /\ is_composing' = is_composing
      BY <3>1 DEF Ending, Swaps
    <3> QED BY <1>2, <2>1, <2>2, <3>2
  <2> QED BY <2>3, <2>4
<1>5. Ongoing'
  BY DEF Ongoing, Swaps
<1> QED BY <1>3, <1>4, <1>5 DEF AllInformed

\* What Preedit makes of the contexts.
LEMMA TogglesContexts ==
  ASSUME Ime!TypeOK, Distinct, Exclusive, Toggles
  PROVE  /\ active \in Windows /\ Allows(active)
         /\ \A v \in Windows : v = active => (Busy(v)' <=> ~Busy(v))
         /\ \A v \in Windows : v # active => ~Busy(v) /\ ~Busy(v)'
         /\ \A v \in Windows : Allows(v)' <=> Allows(v)
         /\ events' = Append(events, <<active, IF Busy(active) THEN "End" ELSE "Start">>)
<1> DEFINE c == [contexts[active] EXCEPT !.preedit = ~contexts[active].preedit]
<1>1. active \in Windows /\ Ime!HasIc(active) /\ contexts[active].allowed = TRUE
      /\ contexts[active].ic
  BY DEF Toggles, Ime!HasIc
<1>2. contexts[active] \in Record /\ c \in Record /\ contexts' = [contexts EXCEPT ![active] = c]
  BY ToggledIs
<1>3. c # None /\ c.ic = contexts[active].ic /\ c.allowed = contexts[active].allowed
      /\ (c.preedit <=> ~contexts[active].preedit)
  BY <1>2 DEF Distinct, Record
<1> HIDE DEF c
<1>4. PICK w \in Windows : w = active
  BY <1>1
<1>5. /\ Busy(w)' <=> (c # None /\ c.ic /\ c.preedit)
      /\ Allows(w)' <=> (c # None /\ c.ic /\ c.allowed = TRUE)
      /\ \A v \in Windows : v # w => (Busy(v)' <=> Busy(v)) /\ (Allows(v)' <=> Allows(v))
  <2>1. c \in {None} \union Record /\ contexts' = [contexts EXCEPT ![w] = c]
    BY <1>2, <1>4
  <2> QED BY <2>1, OtherContexts
<1>6. Allows(w) /\ Allows(w)' /\ (Busy(w) <=> contexts[w].preedit)
  BY <1>1, <1>3, <1>4, <1>5 DEF Allows, Busy
<1>7. Busy(w)' <=> ~Busy(w)
  BY <1>1, <1>3, <1>4, <1>5, <1>6
<1>8. events' = Append(events, <<active, IF Busy(active) THEN "End" ELSE "Start">>)
  BY <1>4, <1>6 DEF Toggles
<1>9. \A v \in Windows : v # w => ~Busy(v)
  BY <1>4 DEF Exclusive
<1> QED BY <1>1, <1>4, <1>5, <1>6, <1>7, <1>8, <1>9

\* What is on its way then, and what the application knows.
LEMMA TogglesEvents ==
  ASSUME Ime!TypeOK, Distinct, Exclusive, AllInformed, Drained, Recognized, Toggles
  PROVE  /\ \A i \in DOMAIN events : ~IsStart(i) /\ Ends(i) /\ events[i][1] # active
                                     /\ is_composing = FALSE
         /\ told[active] = "enabled"
<1>1. pc = "xevent" /\ \A i \in DOMAIN events : events[i][2] = "Disabled"
  BY DEF Toggles, Drained
<1>2. active \in Windows /\ Informed(active) /\ Allows(active)
  BY TogglesContexts DEF AllInformed
<1>3. \A i \in DOMAIN events : events[i] # <<active, "Enabled">>
  BY <1>1
<1>4. told[active] = "enabled"
  BY <1>2, <1>3, ImeTyped DEF Informed
<1>5. \A i \in DOMAIN events : events[i][1] # active
  <2> SUFFICES ASSUME NEW i \in DOMAIN events, events[i][1] = active PROVE FALSE
    OBVIOUS
  <2>1. events[i] = <<active, "Disabled">>
    BY <1>1, ChannelsTyped
  <2> QED BY <1>2, <1>3, <2>1 DEF Informed
<1>6. is_composing => DOMAIN events = {}
  BY <1>1 DEF Recognized
<1> QED BY <1>1, <1>4, <1>5, <1>6, ImeTyped DEF IsStart, Ends

\* Preedit keeps what is of events and contexts.
LEMMA TogglesKeeps ==
  ASSUME Ime!TypeOK, Distinct, Exclusive, AllInformed, Drained, Recognized, Toggles
  PROVE  AllInformed' /\ Ending' /\ Ongoing'
<1> DEFINE kind == IF Busy(active) THEN "End" ELSE "Start"
<1>1. active \in Windows /\ kind \in {"Enabled", "Disabled", "Start", "End"}
      /\ events' = Append(events, <<active, kind>>) /\ (kind = "End" <=> Busy(active))
      /\ (kind = "Start" <=> ~Busy(active)) /\ kind \notin {"Enabled", "Disabled"}
  BY TogglesContexts
<1> HIDE DEF kind
<1>7. PICK n \in Nat \ {0} : Longer(n, active, kind)
  BY <1>1, OneMore
<1>2. /\ n \in DOMAIN events' /\ events'[n] = <<active, kind>>
      /\ \A i \in DOMAIN events : i \in DOMAIN events' /\ i < n /\ events'[i] = events[i]
      /\ \A i \in DOMAIN events' :
           i = n \/ (i \in DOMAIN events /\ i < n /\ events'[i] = events[i])
  BY <1>7 DEF Longer
<1>3. UNCHANGED <<told, is_composing>>
  BY DEF Toggles
<1>4. ASSUME NEW v \in Windows PROVE Informed(v)'
  <2> SUFFICES ASSUME Allows(v)'
               PROVE  /\ told'[v] = "disabled" =>
                           \E i \in DOMAIN events' : events'[i] = <<v, "Enabled">>
                      /\ \A i \in DOMAIN events' : events'[i] = <<v, "Disabled">> =>
                           \E j \in DOMAIN events' : i < j /\ events'[j] = <<v, "Enabled">>
    BY DEF Informed
  <2>1. /\ told[v] = "disabled" => \E i \in DOMAIN events : events[i] = <<v, "Enabled">>
        /\ \A i \in DOMAIN events : events[i] = <<v, "Disabled">> =>
             \E j \in DOMAIN events : i < j /\ events[j] = <<v, "Enabled">>
    BY TogglesContexts DEF AllInformed, Informed
  <2>2. ASSUME NEW i \in DOMAIN events', events'[i] = <<v, "Disabled">>
        PROVE  i \in DOMAIN events /\ events[i] = <<v, "Disabled">>
    <3>1. events'[n] # <<v, "Disabled">>
      BY <1>1, <1>2
    <3> QED BY <1>2, <2>2, <3>1
  <2> QED BY <1>2, <1>3, <2>1, <2>2
<1>5. Ending'
  <2> SUFFICES ASSUME \A v \in Windows : ~Busy(v)'
               PROVE  /\ \A i \in DOMAIN events' :
                           IsStart(i)' => \E j \in DOMAIN events' : i < j /\ Ends(j)'
                      /\ is_composing' => \E j \in DOMAIN events' : Ends(j)'
    BY DEF Ending
  <2>1. kind = "End"
    BY <1>1, TogglesContexts
  <2>2. Ends(n)' /\ ~IsStart(n)'
    BY <1>2, <2>1 DEF Ends, IsStart
  <2> QED BY <1>2, <2>2
<1>6. Ongoing'
  <2> SUFFICES ASSUME NEW v \in Windows, Busy(v)', NEW j \in DOMAIN events', Ends(j)'
               PROVE  is_composing' = FALSE /\ \A i \in DOMAIN events' : i < j => ~IsStart(i)'
    BY DEF Ongoing
  <2>1. kind = "Start"
    BY <1>1, TogglesContexts
  <2>2. j # n
    BY <1>2, <2>1 DEF Ends
  <2>3. j \in DOMAIN events /\ j < n
    BY <1>2, <2>2
  <2>4. is_composing = FALSE
    BY <2>3, TogglesEvents
  <2>5. ASSUME NEW i \in DOMAIN events', i < j PROVE ~IsStart(i)'
    <3>2. j \in Nat
      <4>1. DOMAIN events = 1 .. Len(events) /\ Len(events) \in Nat
        BY ImeTyped
      <4> QED BY <2>3, <4>1
    <3>3. i # n
      BY <2>3, <2>5, <3>2
    <3>1. i \in DOMAIN events /\ events'[i] = events[i]
      BY <1>2, <3>3
    <3> QED BY <3>1, TogglesEvents DEF IsStart
  <2> QED BY <1>3, <2>4, <2>5
<1> QED BY <1>4, <1>5, <1>6 DEF AllInformed

\* A delivery: what becomes of the contexts and of what was told.
LEMMA DeliversContexts ==
  ASSUME NEW w \in Windows, NEW kind \in {"Enabled", "Disabled", "Start", "End"},
         Delivers(w, kind)
  PROVE  /\ \A v \in Windows : (Busy(v)' <=> Busy(v)) /\ (Allows(v)' <=> Allows(v))
         /\ UNCHANGED <<ime_requests, pc, im, lost, life, active, typing, unwanted>>
BY SameContexts DEF Delivers

\* HandleEvent keeps what is of events and contexts.
LEMMA DeliversKeeps ==
  ASSUME Ime!TypeOK, AllInformed, Ending, Ongoing,
         NEW w \in Windows, NEW kind \in {"Enabled", "Disabled", "Start", "End"},
         Delivers(w, kind)
  PROVE  AllInformed' /\ Ending' /\ Ongoing'
<1>1. events # <<>> /\ Head(events) = <<w, kind>> /\ events' = Tail(events)
  BY DEF Delivers
<1>2. /\ 1 \in DOMAIN events /\ events[1] = <<w, kind>>
      /\ \A i \in DOMAIN events' :
           i \in Nat \ {0} /\ i + 1 \in DOMAIN events /\ events'[i] = events[i + 1]
      /\ \A i \in DOMAIN events :
           /\ i \in Nat \ {0}
           /\ i = 1 \/ (i - 1 \in DOMAIN events' /\ events'[i - 1] = events[i])
  BY <1>1, OneLess
<1>3. /\ is_composing' = (kind = "Start" \/ (is_composing /\ kind \notin {"End", "Disabled"}))
      /\ told' = IF kind = "Enabled" THEN [told EXCEPT ![w] = "enabled"]
                 ELSE IF kind = "Disabled" THEN [told EXCEPT ![w] = "disabled"]
                 ELSE told
  BY DEF Delivers
<1>4. ASSUME NEW v \in Windows PROVE Informed(v)'
  <2> SUFFICES ASSUME Allows(v)'
               PROVE  /\ told'[v] = "disabled" =>
                           \E i \in DOMAIN events' : events'[i] = <<v, "Enabled">>
                      /\ \A i \in DOMAIN events' : events'[i] = <<v, "Disabled">> =>
                           \E j \in DOMAIN events' : i < j /\ events'[j] = <<v, "Enabled">>
    BY DEF Informed
  <2>1. /\ told[v] = "disabled" => \E i \in DOMAIN events : events[i] = <<v, "Enabled">>
        /\ \A i \in DOMAIN events : events[i] = <<v, "Disabled">> =>
             \E j \in DOMAIN events : i < j /\ events[j] = <<v, "Enabled">>
    BY DeliversContexts DEF AllInformed, Informed
  <2>2. ASSUME NEW i \in DOMAIN events, i # 1, events[i] = <<v, "Enabled">>
        PROVE  \E k \in DOMAIN events' : events'[k] = <<v, "Enabled">>
    BY <1>2, <2>2
  <2>3. ASSUME told'[v] = "disabled"
        PROVE  \E k \in DOMAIN events' : events'[k] = <<v, "Enabled">>
    <3>1. CASE kind = "Disabled" /\ w = v
      <4>1. PICK j \in DOMAIN events : 1 < j /\ events[j] = <<v, "Enabled">>
        BY <1>2, <2>1, <3>1
      <4> QED BY <1>2, <2>2, <4>1
    <3>2. CASE ~(kind = "Disabled" /\ w = v)
      <4>1. told[v] = "disabled" /\ ~(kind = "Enabled" /\ w = v)
        BY <1>3, <2>3, <3>2, ImeTyped
      <4>2. PICK i \in DOMAIN events : events[i] = <<v, "Enabled">>
        BY <2>1, <4>1
      <4>3. i # 1
        BY <1>2, <4>1, <4>2
      <4> QED BY <2>2, <4>2, <4>3
    <3> QED BY <3>1, <3>2
  <2>4. ASSUME NEW i \in DOMAIN events', events'[i] = <<v, "Disabled">>
        PROVE  \E k \in DOMAIN events' : i < k /\ events'[k] = <<v, "Enabled">>
    <3>1. i \in Nat /\ i + 1 \in DOMAIN events /\ events[i + 1] = <<v, "Disabled">>
      BY <1>2, <2>4
    <3>2. PICK j \in DOMAIN events : i + 1 < j /\ events[j] = <<v, "Enabled">>
      BY <2>1, <3>1
    <3>3. j - 1 \in DOMAIN events' /\ events'[j - 1] = events[j] /\ i < j - 1
      BY <1>2, <3>1, <3>2
    <3> QED BY <3>2, <3>3
  <2> QED BY <2>3, <2>4
<1>5. \A i \in DOMAIN events' : (IsStart(i)' <=> IsStart(i + 1)) /\ (Ends(i)' <=> Ends(i + 1))
  BY <1>2 DEF IsStart, Ends
<1>6. \A j \in DOMAIN events : j # 1 => (Ends(j - 1)' <=> Ends(j))
  BY <1>2 DEF Ends
<1>7. (IsStart(1) <=> kind = "Start") /\ (Ends(1) <=> kind \in {"End", "Disabled"})
  BY <1>2 DEF IsStart, Ends
<1>8. Ending'
  <2> SUFFICES ASSUME \A v \in Windows : ~Busy(v)'
               PROVE  /\ \A i \in DOMAIN events' :
                           IsStart(i)' => \E j \in DOMAIN events' : i < j /\ Ends(j)'
                      /\ is_composing' => \E j \in DOMAIN events' : Ends(j)'
    BY DEF Ending
  <2>1. /\ \A i \in DOMAIN events : IsStart(i) => \E j \in DOMAIN events : i < j /\ Ends(j)
        /\ is_composing => \E j \in DOMAIN events : Ends(j)
    BY DeliversContexts DEF Ending
  <2>2. ASSUME NEW i \in DOMAIN events', IsStart(i)'
        PROVE  \E j \in DOMAIN events' : i < j /\ Ends(j)'
    <3>1. PICK j \in DOMAIN events : i + 1 < j /\ Ends(j)
      BY <1>2, <1>5, <2>1, <2>2
    <3>2. j - 1 \in DOMAIN events' /\ i < j - 1 /\ j # 1
      BY <1>2, <3>1
    <3> QED BY <1>6, <3>1, <3>2
  <2>3. ASSUME is_composing' PROVE \E j \in DOMAIN events' : Ends(j)'
    <3>1. PICK j \in DOMAIN events : j # 1 /\ Ends(j)
      <4>1. CASE kind = "Start"
        BY <1>2, <1>7, <2>1, <4>1
      <4>2. CASE kind # "Start"
        BY <1>3, <1>7, <2>1, <2>3, <4>2
      <4> QED BY <4>1, <4>2
    <3>2. j - 1 \in DOMAIN events'
      BY <1>2, <3>1
    <3> QED BY <1>6, <3>1, <3>2
  <2> QED BY <2>2, <2>3
<1>9. Ongoing'
  <2> SUFFICES ASSUME NEW v \in Windows, Busy(v)', NEW j \in DOMAIN events', Ends(j)'
               PROVE  is_composing' = FALSE /\ \A i \in DOMAIN events' : i < j => ~IsStart(i)'
    BY DEF Ongoing
  <2>1. Busy(v)
    BY DeliversContexts
  <2>2. j \in Nat \ {0} /\ j + 1 \in DOMAIN events /\ Ends(j + 1)
    BY <1>2, <1>5
  <2>3. is_composing = FALSE /\ \A i \in DOMAIN events : i < j + 1 => ~IsStart(i)
    BY <2>1, <2>2 DEF Ongoing
  <2>4. ~IsStart(1)
    BY <1>2, <2>2, <2>3
  <2>5. is_composing' = FALSE
    BY <1>3, <1>7, <2>3, <2>4
  <2>6. ASSUME NEW i \in DOMAIN events', i < j PROVE ~IsStart(i)'
    <3>1. i + 1 \in DOMAIN events /\ i + 1 < j + 1
      BY <1>2, <2>2, <2>6
    <3> QED BY <1>5, <2>3, <3>1
  <2> QED BY <2>5, <2>6
<1> QED BY <1>4, <1>8, <1>9 DEF AllInformed

\* What is on its way between the drains.
LEMMA DrainedKept ==
  ASSUME Ime!TypeOK, Drained, Steps
  PROVE  Drained'
<1> SUFFICES ASSUME pc' = "xevent" PROVE \A i \in DOMAIN events' : events'[i][2] = "Disabled"
  BY DEF Drained
<1>1. ASSUME NEW w \in Windows, Creates(w)
      PROVE  \A i \in DOMAIN events' : events'[i][2] = "Disabled"
  <2>1. events' = Append(events, <<w, "Disabled">>) /\ pc = "xevent"
    BY <1>1 DEF Creates
  <2>2. PICK n \in Nat \ {0} : Longer(n, w, "Disabled")
    BY <2>1, OneMore
  <2> QED BY <2>1, <2>2 DEF Longer, Drained
<1>2. CASE UNCHANGED events /\ pc = "xevent"
  BY <1>2 DEF Drained
<1>3. CASE UNCHANGED events /\ events = <<>>
  BY <1>3
<1>4. ASSUME NEW w \in Windows, WindowSteps(w)
      PROVE  Creates(w) \/ (UNCHANGED events /\ pc = "xevent")
  BY <1>4 DEF WindowSteps, Requests, Drops, Focuses, Vanishes, Handles, Delivers
<1>5. ASSUME PlainSteps
      PROVE  UNCHANGED events /\ (pc = "xevent" \/ events = <<>>)
  BY <1>5 DEF PlainSteps, Goes, Comes, Falls, Reopens, Passes, Toggles, Keys, Turns
<1> QED BY <1>1, <1>2, <1>3, <1>4, <1>5 DEF Steps

\* What composes and who asks for something are the same, or less.
LEMMA ExclusiveStays ==
  ASSUME Exclusive,
         \A v \in Windows : Busy(v)' =>
           /\ Busy(v) /\ active' = active /\ im' = im /\ lost' = lost /\ life'[v] = "alive"
           /\ contexts'[v].allowed = contexts[v].allowed
           /\ \A i \in DOMAIN ime_requests' : ime_requests'[i][1] = v
  PROVE  Exclusive'
BY DEF Exclusive

\* Nobody composes.
LEMMA NobodyExclusive == (\A v \in Windows : ~Busy(v)') => Exclusive'
BY DEF Exclusive

\* Only the active window composes, on the server.
LEMMA ExclusiveKept ==
  ASSUME Ime!TypeOK, Distinct, Sober, Connected, Housed, Exclusive, Steps
  PROVE  Exclusive'
<1>1. ASSUME NEW w \in Windows, Creates(w) PROVE Exclusive'
  BY <1>1, CreatesSwaps, NobodyExclusive DEF Swaps
<1>2. ASSUME NEW w \in Windows, NEW on \in BOOLEAN, Requests(w, on) PROVE Exclusive'
  <2>1. UNCHANGED <<contexts, active, im, lost, life>>
        /\ ime_requests' = Append(ime_requests, <<w, on>>)
        /\ \A v \in Windows : Busy(v) => v = w
    BY <1>2, SoberIs DEF Requests
  <2>2. <<w, on>> \in Asked /\ ime_requests \in Seq(Asked)
    BY ImeTyped DEF Asked
  <2>3. \A i \in DOMAIN ime_requests' :
          ime_requests'[i][1] = w \/ (i \in DOMAIN ime_requests
                                      /\ ime_requests'[i] = ime_requests[i])
    BY <2>1, <2>2, AppendIs
  <2>4. \A v \in Windows : Busy(v)' =>
           /\ Busy(v) /\ life[v] = "alive"
           /\ \A i \in DOMAIN ime_requests' : ime_requests'[i][1] = v
    BY <2>1, <2>3, SameContexts DEF Exclusive
  <2> QED BY <2>1, <2>4, ExclusiveStays
<1>3. ASSUME NEW w \in Windows, Drops(w) PROVE Exclusive'
  BY <1>3, SoberIs, SameContexts, NobodyExclusive DEF Drops
<1>4. ASSUME NEW w \in Windows, Focuses(w) PROVE Exclusive'
  BY <1>4, SoberIs, SameContexts, NobodyExclusive DEF Focuses
<1>5. ASSUME NEW w \in Windows, Vanishes(w) PROVE Exclusive'
  <2>1. /\ life[w] = "dropped" /\ life' = [life EXCEPT ![w] = "gone"]
        /\ contexts' = [contexts EXCEPT ![w] = None]
        /\ UNCHANGED <<im, lost, ime_requests, active>>
    BY <1>5 DEF Vanishes
  <2>2. ~Busy(w)' /\ \A v \in Windows : v # w => (Busy(v)' <=> Busy(v))
    BY <2>1, OtherContexts
  <2>3. \A v \in Windows : v # w => contexts'[v] = contexts[v] /\ life'[v] = life[v]
    BY <2>1, ImeTyped
  <2>4. ASSUME NEW v \in Windows, Busy(v)'
        PROVE  /\ Busy(v) /\ active' = active /\ im' = im /\ lost' = lost /\ life'[v] = "alive"
               /\ contexts'[v].allowed = contexts[v].allowed
               /\ \A i \in DOMAIN ime_requests' : ime_requests'[i][1] = v
    <3>1. v # w /\ Busy(v)
      BY <2>2, <2>4
    <3>2. v = active /\ life[v] = "alive" /\ \A i \in DOMAIN ime_requests : ime_requests[i][1] = v
      BY <3>1 DEF Exclusive
    <3> QED BY <2>1, <2>3, <3>1, <3>2
  <2> QED BY <2>4, ExclusiveStays
<1>6. ASSUME NEW w \in Windows, NEW on \in BOOLEAN, Handles(w, on) PROVE Exclusive'
  <2>1. CASE Swaps(w, on)
    BY <2>1, NobodyExclusive DEF Swaps
  <2>2. CASE Silent
    <3>1. ime_requests # <<>> /\ ime_requests' = Tail(ime_requests)
          /\ UNCHANGED <<active, im, lost, life>>
      BY <1>6 DEF Handles, Unstirred
    <3>2. \A i \in DOMAIN ime_requests' :
            i + 1 \in DOMAIN ime_requests /\ ime_requests'[i] = ime_requests[i + 1]
      BY <3>1, ImeTyped, TailIs
    <3>3. ASSUME NEW v \in Windows, Busy(v)'
          PROVE  /\ Busy(v) /\ active' = active /\ im' = im /\ lost' = lost /\ life'[v] = "alive"
                 /\ contexts'[v].allowed = TRUE
                 /\ \A i \in DOMAIN ime_requests' : ime_requests'[i][1] = v
      <4>1. Busy(v)
        BY <2>2, <3>3 DEF Silent
      <4>2. life[v] = "alive" /\ (\A i \in DOMAIN ime_requests : ime_requests[i][1] = v)
            /\ contexts[v].allowed = TRUE
        BY <4>1 DEF Exclusive
      <4>3. contexts'[v].allowed = TRUE
        <5>1. \/ UNCHANGED contexts
              \/ contexts' = [contexts EXCEPT ![w] = Ime!Context(on)]
              \/ contexts' = [contexts EXCEPT ![w] = None]
          BY <1>6 DEF Handles
        <5>2. CASE UNCHANGED contexts
          BY <4>2, <5>2
        <5>3. ASSUME NEW c \in {None} \union Record, contexts' = [contexts EXCEPT ![w] = c],
                     c = None \/ c.preedit = FALSE
              PROVE  contexts'[v].allowed = TRUE
          <6>1. ~Busy(w)' /\ \A u \in Windows : u # w => contexts'[u] = contexts[u]
            BY <5>3, OtherContexts, ChangedIs
          <6> QED BY <3>3, <4>2, <6>1
        <5> QED BY <5>1, <5>2, <5>3, ContextIs
      <4> QED BY <3>1, <3>2, <4>1, <4>2, <4>3
    <3> QED BY <3>3 DEF Exclusive
  <2> QED BY <1>6, <2>1, <2>2, HandlesSwaps
<1>7. ASSUME NEW w \in Windows, NEW kind \in {"Enabled", "Disabled", "Start", "End"},
             Delivers(w, kind)
      PROVE  Exclusive'
  <2>1. UNCHANGED <<contexts, ime_requests, im, lost, life, active>>
    BY <1>7 DEF Delivers
  <2> QED BY <2>1, SameContexts DEF Exclusive
<1>8. ASSUME Goes PROVE Exclusive'
  BY <1>8, SoberIs, SameContexts, NobodyExclusive DEF Goes
<1>9. ASSUME Comes \/ Passes \/ (\E composed \in BOOLEAN : Keys(composed))
             \/ Turns("requests", "events") \/ Turns("events", "xevent")
      PROVE  Exclusive'
  <2>1. UNCHANGED <<contexts, ime_requests, im, lost, life, active>>
    BY <1>9 DEF Comes, Passes, Keys, Turns, Unstirred
  <2> QED BY <2>1, SameContexts DEF Exclusive
<1>10. ASSUME Falls \/ Reopens PROVE Exclusive'
  <2>1. contexts' = [v \in Windows |-> IF contexts[v] = None THEN None
                                       ELSE Ime!Rebuilt(contexts[v])]
    BY <1>10 DEF Falls, Reopens
  <2> QED BY <2>1, RebuiltContexts, NobodyExclusive
<1>11. ASSUME Toggles PROVE Exclusive'
  <2>1. "preedit" \in typing.ops /\ im = "server" /\ lost = FALSE
        /\ UNCHANGED <<im, lost, life, active, ime_requests>>
    BY <1>11 DEF Toggles
  <2>2. life[active] = "alive" /\ \A i \in DOMAIN ime_requests : ime_requests[i][1] = active
    BY <1>11, <2>1, SoberIs DEF Toggles
  <2>3. \A v \in Windows : Busy(v)' => v = active
    BY <1>11, TogglesContexts
  <2>4. ASSUME NEW v \in Windows, v = active PROVE contexts'[v].allowed = TRUE
    <3>1. Allows(v)'
      BY <1>11, <2>4, TogglesContexts
    <3> QED BY <3>1 DEF Allows
  <2> QED BY <2>1, <2>2, <2>3, <2>4 DEF Exclusive
<1>12. ASSUME NEW w \in Windows, WindowSteps(w) PROVE Exclusive'
  BY <1>1, <1>2, <1>3, <1>4, <1>5, <1>6, <1>7, <1>12 DEF WindowSteps
<1>13. ASSUME PlainSteps PROVE Exclusive'
  BY <1>8, <1>9, <1>10, <1>11, <1>13 DEF PlainSteps
<1> QED BY <1>12, <1>13 DEF Steps

\* The composition the application knows of.
LEMMA RecognizedKept ==
  ASSUME Ime!TypeOK, Distinct, Sober, Exclusive, Recognized, Starting, Steps
  PROVE  Recognized'
<1> DEFINE Stays == /\ UNCHANGED <<told, life, active>> /\ (is_composing' => is_composing)
                    /\ pc' = "xevent" => (UNCHANGED events /\ pc = "xevent") \/ events' = <<>>
<1>1. CASE Stays
  BY <1>1 DEF Recognized
<1>2. CASE is_composing' = FALSE
  BY <1>2 DEF Recognized
<1> HIDE DEF Stays
<1>3. ASSUME NEW w \in Windows, Creates(w) \/ Drops(w) \/ Focuses(w) PROVE Recognized'
  <2>1. Ime!Nobody /\ UNCHANGED is_composing
    BY <1>3 DEF Creates, Drops, Focuses
  <2> QED BY <1>2, <2>1, SoberIs
<1>4. ASSUME NEW w \in Windows, NEW on \in BOOLEAN, Requests(w, on) PROVE Recognized'
  BY <1>1, <1>4 DEF Requests, Stays
<1>5. ASSUME NEW w \in Windows, Vanishes(w) PROVE Recognized'
  <2>1. /\ life[w] = "dropped" /\ life' = [life EXCEPT ![w] = "gone"]
        /\ UNCHANGED <<told, is_composing, active>> /\ pc' = "requests"
    BY <1>5 DEF Vanishes
  <2> SUFFICES ASSUME is_composing
               PROVE  active' \in Windows /\ told'[active'] = "enabled" /\ life'[active'] = "alive"
    BY <2>1 DEF Recognized
  <2>2. active \in Windows /\ told[active] = "enabled" /\ life[active] = "alive"
    BY DEF Recognized
  <2>3. active # w /\ active' = active /\ life'[active] = life[active]
    BY <2>1, <2>2, ImeTyped
  <2> QED BY <2>1, <2>2, <2>3
<1>6. ASSUME NEW w \in Windows, NEW on \in BOOLEAN, Handles(w, on) PROVE Recognized'
  BY <1>1, <1>6 DEF Handles, Unstirred, Stays
<1>7. ASSUME NEW w \in Windows, NEW kind \in {"Enabled", "Disabled", "Start", "End"},
             Delivers(w, kind)
      PROVE  Recognized'
  <2>1. /\ pc = "events" /\ events # <<>> /\ Head(events) = <<w, kind>> /\ events' = Tail(events)
        /\ is_composing' = (kind = "Start" \/ (is_composing /\ kind \notin {"End", "Disabled"}))
        /\ told' = IF kind = "Enabled" THEN [told EXCEPT ![w] = "enabled"]
                   ELSE IF kind = "Disabled" THEN [told EXCEPT ![w] = "disabled"]
                   ELSE told
        /\ UNCHANGED <<pc, active, life>>
    BY <1>7 DEF Delivers
  <2> SUFFICES ASSUME is_composing'
               PROVE  active \in Windows /\ told'[active] = "enabled" /\ life[active] = "alive"
    BY <2>1 DEF Recognized
  <2>2. CASE kind = "Start"
    <3>1. 1 \in DOMAIN events /\ events[1] = <<w, kind>>
      BY <2>1, OneLess
    <3>2. w = active /\ told[active] = "enabled" /\ life[active] = "alive"
      BY <2>2, <3>1 DEF Starting, IsStart
    <3> QED BY <2>1, <2>2, <3>2
  <2>3. CASE kind # "Start"
    <3>1. is_composing /\ kind \notin {"End", "Disabled"}
      BY <2>1, <2>3
    <3>2. active \in Windows /\ told[active] = "enabled" /\ life[active] = "alive"
      BY <3>1 DEF Recognized
    <3>3. told'[active] = "enabled"
      BY <2>1, <2>3, <3>1, <3>2, ImeTyped
    <3> QED BY <3>2, <3>3
  <2> QED BY <2>2, <2>3
<1>8. ASSUME PlainSteps PROVE Stays
  <2>1. UNCHANGED <<told, life, active>>
    BY <1>8 DEF PlainSteps, Goes, Comes, Falls, Reopens, Passes, Toggles, Keys, Turns, Unstirred
  <2>2. is_composing' => is_composing
    BY <1>8 DEF PlainSteps, Goes, Comes, Falls, Reopens, Passes, Toggles, Keys, Turns, Unstirred
  <2>3. pc' = "xevent" => (UNCHANGED events /\ pc = "xevent") \/ events' = <<>>
    BY <1>8 DEF PlainSteps, Goes, Comes, Falls, Reopens, Passes, Toggles, Keys, Turns, Unstirred
  <2> QED BY <2>1, <2>2, <2>3 DEF Stays
<1>9. ASSUME NEW w \in Windows, WindowSteps(w) PROVE Recognized'
  BY <1>3, <1>4, <1>5, <1>6, <1>7, <1>9 DEF WindowSteps
<1> QED BY <1>1, <1>8, <1>9 DEF Steps

\* No start is on its way.
LEMMA NoneStarting == (\A i \in DOMAIN events' : ~IsStart(i)') => Starting'
BY DEF Starting

\* What happens to the starts when another event goes on its way.
LEMMA StartingGrows ==
  ASSUME Ime!TypeOK, Starting, NEW n \in Nat, NEW w, NEW kind, kind # "Start", Longer(n, w, kind),
         UNCHANGED <<told, active>>,
         active \in Windows /\ life[active] = "alive" => life'[active] = "alive"
  PROVE  Starting'
<1>1. /\ events'[n] = <<w, kind>>
      /\ \A i \in DOMAIN events' :
           i = n \/ (i \in DOMAIN events /\ i < n /\ events'[i] = events[i])
  BY DEF Longer
<1>2. \A i \in DOMAIN events : i \in Nat
  <2>1. DOMAIN events = 1 .. Len(events) /\ Len(events) \in Nat
    BY ImeTyped
  <2> QED BY <2>1
<1> SUFFICES ASSUME NEW i \in DOMAIN events', IsStart(i)'
             PROVE  /\ events'[i][1] = active' /\ told'[active'] = "enabled"
                    /\ life'[active'] = "alive"
                    /\ \A j \in DOMAIN events' : j < i => events'[j][1] # active'
  BY DEF Starting
<1>3. i # n
  BY <1>1 DEF IsStart
<1>4. i \in DOMAIN events /\ i < n /\ events'[i] = events[i]
  BY <1>1, <1>3
<1>5. IsStart(i)
  BY <1>4 DEF IsStart
<1>6. /\ events[i][1] = active /\ told[active] = "enabled" /\ life[active] = "alive"
      /\ \A j \in DOMAIN events : j < i => events[j][1] # active
  BY <1>4, <1>5 DEF Starting
<1>8. active \in Windows
  BY <1>4, <1>6, ChannelsTyped
<1>7. ASSUME NEW j \in DOMAIN events', j < i PROVE events'[j][1] # active
  <2>1. j # n
    BY <1>2, <1>4, <1>7
  <2>2. j \in DOMAIN events /\ events'[j] = events[j]
    BY <1>1, <2>1
  <2> QED BY <1>6, <1>7, <2>2
<1> QED BY <1>4, <1>6, <1>7, <1>8

\* A start is the first thing the active window hears.
LEMMA StartingKept ==
  ASSUME Ime!TypeOK, Distinct, Sober, AllInformed, Drained, Exclusive, Recognized, Starting, Meek,
         Steps
  PROVE  Starting'
<1>1. CASE UNCHANGED <<events, told, active, life>>
  BY <1>1 DEF Starting, IsStart
<1>2. CASE UNCHANGED events /\ pc = "xevent"
  BY <1>2, NoneStarting DEF Drained, IsStart
<1>3. ASSUME NEW w \in Windows, Creates(w) PROVE Starting'
  <2>1. /\ events' = Append(events, <<w, "Disabled">>) /\ UNCHANGED <<told, active>>
        /\ life' = [life EXCEPT ![w] = "alive"]
    BY <1>3 DEF Creates
  <2>2. PICK n \in Nat \ {0} : Longer(n, w, "Disabled")
    BY <2>1, OneMore
  <2>3. active \in Windows /\ life[active] = "alive" => life'[active] = "alive"
    BY <2>1, ImeTyped
  <2> QED BY <2>1, <2>2, <2>3, StartingGrows
<1>4. ASSUME NEW w \in Windows, Drops(w) PROVE Starting'
  <2>1. UNCHANGED events
    BY <1>4 DEF Drops
  <2>2. LeavesLate \/ events = <<>>
    BY <1>4 DEF Drops, Ime!Quiet
  <2>3. \A i \in DOMAIN events : ~IsStart(i)
    BY <2>2, SoberIs DEF Meek
  <2> QED BY <2>1, <2>3, NoneStarting DEF IsStart
<1>5. ASSUME NEW w \in Windows, NEW on \in BOOLEAN, Handles(w, on) PROVE Starting'
  <2>1. UNCHANGED <<told, active, life>>
    BY <1>5 DEF Handles, Unstirred
  <2>2. CASE Silent
    BY <1>1, <2>1, <2>2 DEF Silent
  <2>3. CASE Swaps(w, on)
    <3>1. Ime!Enabling(on) \in {"Enabled", "Disabled"}
      BY DEF Ime!Enabling
    <3>2. PICK n \in Nat \ {0} : Longer(n, w, Ime!Enabling(on))
      <4>1. events' = Append(events, <<w, Ime!Enabling(on)>>)
        BY <2>3 DEF Swaps
      <4> QED BY <3>1, <4>1, OneMore
    <3>3. Ime!Enabling(on) # "Start"
      BY <3>1
    <3> QED BY <2>1, <3>2, <3>3, StartingGrows
  <2> QED BY <1>5, <2>2, <2>3, HandlesSwaps
<1>6. ASSUME NEW w \in Windows, NEW kind \in {"Enabled", "Disabled", "Start", "End"},
             Delivers(w, kind)
      PROVE  Starting'
  <2>1. /\ events # <<>> /\ Head(events) = <<w, kind>> /\ events' = Tail(events)
        /\ told' = IF kind = "Enabled" THEN [told EXCEPT ![w] = "enabled"]
                   ELSE IF kind = "Disabled" THEN [told EXCEPT ![w] = "disabled"]
                   ELSE told
        /\ UNCHANGED <<active, life>>
    BY <1>6 DEF Delivers
  <2>2. /\ 1 \in DOMAIN events /\ events[1] = <<w, kind>>
        /\ \A i \in DOMAIN events' :
             i \in Nat \ {0} /\ i + 1 \in DOMAIN events /\ events'[i] = events[i + 1]
    BY <2>1, OneLess
  <2> SUFFICES ASSUME NEW i \in DOMAIN events', IsStart(i)'
               PROVE  /\ events'[i][1] = active /\ told'[active] = "enabled"
                      /\ life[active] = "alive"
                      /\ \A j \in DOMAIN events' : j < i => events'[j][1] # active
    BY <2>1 DEF Starting
  <2>3. i \in Nat \ {0} /\ i + 1 \in DOMAIN events /\ IsStart(i + 1)
    BY <2>2 DEF IsStart
  <2>4. /\ events[i + 1][1] = active /\ told[active] = "enabled" /\ life[active] = "alive"
        /\ \A j \in DOMAIN events : j < i + 1 => events[j][1] # active
    BY <2>3 DEF Starting
  <2>5. w # active
    BY <2>2, <2>3, <2>4
  <2>6. active \in Windows
    BY <2>3, <2>4, ChannelsTyped
  <2>7. told'[active] = "enabled"
    BY <2>1, <2>4, <2>5, <2>6, ImeTyped
  <2>8. ASSUME NEW j \in DOMAIN events', j < i PROVE events'[j][1] # active
    <3>1. j + 1 \in DOMAIN events /\ j + 1 < i + 1 /\ events'[j] = events[j + 1]
      BY <2>2, <2>3, <2>8
    <3> QED BY <2>4, <3>1
  <2> QED BY <2>2, <2>4, <2>7, <2>8
<1>7. ASSUME Toggles PROVE Starting'
  <2>1. UNCHANGED <<told, life, active>> /\ "preedit" \in typing.ops
    BY <1>7 DEF Toggles
  <2>2. active \in Windows
        /\ events' = Append(events, <<active, IF Busy(active) THEN "End" ELSE "Start">>)
    BY <1>7, TogglesContexts
  <2>3. \A i \in DOMAIN events : ~IsStart(i) /\ events[i][1] # active
    BY <1>7, TogglesEvents
  <2>4. CASE Busy(active)
    <3>1. PICK n \in Nat \ {0} : Longer(n, active, "End")
      BY <2>2, <2>4, OneMore
    <3> QED BY <2>1, <3>1, StartingGrows
  <2>5. CASE ~Busy(active)
    <3>1. PICK n \in Nat \ {0} : Longer(n, active, "Start")
      BY <2>2, <2>5, OneMore
    <3>2. told[active] = "enabled" /\ life[active] = "alive"
      BY <1>7, <2>1, SoberIs, TogglesEvents DEF Toggles
    <3> SUFFICES ASSUME NEW i \in DOMAIN events', IsStart(i)'
                 PROVE  /\ events'[i][1] = active
                        /\ \A j \in DOMAIN events' : j < i => events'[j][1] # active
      BY <2>1, <3>2 DEF Starting
    <3>3. i = n
      <4>1. i = n \/ (i \in DOMAIN events /\ events'[i] = events[i])
        BY <3>1 DEF Longer
      <4> QED BY <2>3, <4>1 DEF IsStart
    <3>4. events'[i][1] = active
      BY <3>1, <3>3 DEF Longer
    <3>5. ASSUME NEW j \in DOMAIN events', j < i PROVE events'[j][1] # active
      <4>1. j \in DOMAIN events /\ events'[j] = events[j]
        BY <3>1, <3>3, <3>5 DEF Longer
      <4> QED BY <2>3, <4>1
    <3> QED BY <3>4, <3>5
  <2> QED BY <2>4, <2>5
<1>8. ASSUME NEW w \in Windows, WindowSteps(w) PROVE Starting'
  <2>1. CASE \E on \in BOOLEAN : Requests(w, on)
    BY <1>1, <2>1 DEF Requests
  <2>2. CASE Focuses(w) \/ Vanishes(w)
    BY <1>2, <2>2 DEF Focuses, Vanishes
  <2> QED BY <1>3, <1>4, <1>5, <1>6, <1>8, <2>1, <2>2 DEF WindowSteps
<1>9. ASSUME PlainSteps PROVE Starting'
  <2>1. Toggles \/ UNCHANGED <<events, told, active, life>>
    BY <1>9 DEF PlainSteps, Goes, Comes, Falls, Reopens, Passes, Keys, Turns, Unstirred
  <2> QED BY <1>1, <1>7, <2>1
<1> QED BY <1>8, <1>9 DEF Steps

\* Where nothing composes.
LEMMA MeekKept ==
  ASSUME Ime!TypeOK, Distinct, Sober, Connected, Housed, Exclusive, Meek, Steps
  PROVE  Meek'
<1>1. typing' = typing
  BY DEF Steps, WindowSteps, PlainSteps, Creates, Requests, Drops, Focuses, Vanishes, Handles,
         Delivers, Goes, Comes, Falls, Reopens, Passes, Toggles, Keys, Turns, Unstirred
<1> SUFFICES ASSUME "preedit" \notin typing.ops
             PROVE  /\ \A w \in Windows : ~Busy(w)'
                    /\ is_composing' = FALSE
                    /\ \A i \in DOMAIN events' : ~IsStart(i)'
  BY <1>1 DEF Meek
<1>2. /\ \A w \in Windows : ~Busy(w)
      /\ is_composing = FALSE
      /\ \A i \in DOMAIN events : ~IsStart(i)
  BY DEF Meek
<1> DEFINE Aim == /\ \A w \in Windows : ~Busy(w)'
                  /\ is_composing' = FALSE
                  /\ \A i \in DOMAIN events' : ~IsStart(i)'
<1>3. CASE Silent
  <2>1. is_composing' = FALSE
    <3>1. is_composing' \in BOOLEAN
      <4>1. Good'
        BY AppTyped, ServerTyped, OtherTyped, DrainTyped DEF Steps, WindowSteps, PlainSteps
      <4> QED BY <4>1 DEF Good
    <3> QED BY <1>2, <1>3, <3>1 DEF Silent
  <2> QED BY <1>2, <1>3, <2>1 DEF Silent, IsStart
<1>4. ASSUME NEW w \in Windows, NEW on \in BOOLEAN, Swaps(w, on) PROVE Aim
  <2>1. Ime!Enabling(on) \in {"Enabled", "Disabled"}
    BY DEF Ime!Enabling
  <2>2. events' = Append(events, <<w, Ime!Enabling(on)>>) /\ is_composing' = is_composing
        /\ \A v \in Windows : ~Busy(v)'
    BY <1>4 DEF Swaps
  <2>3. PICK n \in Nat \ {0} : Longer(n, w, Ime!Enabling(on))
    BY <2>1, <2>2, OneMore
  <2>4. \A i \in DOMAIN events' : ~IsStart(i)'
    <3>1. events'[n][2] # "Start"
      BY <2>1, <2>3 DEF Longer
    <3> QED BY <1>2, <2>3, <3>1 DEF Longer, IsStart
  <2> QED BY <1>2, <2>2, <2>4
<1>5. ASSUME NEW w \in Windows, NEW kind \in {"Enabled", "Disabled", "Start", "End"},
             Delivers(w, kind)
      PROVE  Aim
  <2>1. events # <<>> /\ Head(events) = <<w, kind>> /\ events' = Tail(events)
        /\ is_composing' = (kind = "Start" \/ (is_composing /\ kind \notin {"End", "Disabled"}))
    BY <1>5 DEF Delivers
  <2>2. /\ 1 \in DOMAIN events /\ events[1] = <<w, kind>>
        /\ \A i \in DOMAIN events' :
             i \in Nat \ {0} /\ i + 1 \in DOMAIN events /\ events'[i] = events[i + 1]
    BY <2>1, OneLess
  <2>3. kind # "Start"
    BY <1>2, <2>2 DEF IsStart
  <2>4. is_composing' = FALSE
    BY <1>2, <2>1, <2>3
  <2>5. \A i \in DOMAIN events' : ~IsStart(i)'
    BY <1>2, <2>2 DEF IsStart
  <2>6. \A v \in Windows : ~Busy(v)'
    BY <1>2, <1>5, DeliversContexts
  <2> QED BY <2>4, <2>5, <2>6
<1>6. ~Toggles
  BY DEF Toggles
<1> HIDE DEF Aim
<1>7. Aim
  <2>1. ASSUME Silent PROVE Aim
    BY <1>3, <2>1 DEF Aim
  <2>2. ASSUME NEW w \in Windows, WindowSteps(w) PROVE Aim
    <3>1. CASE Creates(w)
      BY <1>4, <3>1, CreatesSwaps
    <3>2. CASE \E on \in BOOLEAN : Handles(w, on)
      BY <1>4, <2>1, <3>2, HandlesSwaps
    <3> QED BY <1>5, <2>1, <2>2, <3>1, <3>2, SilentSteps DEF WindowSteps
  <2>3. ASSUME PlainSteps PROVE Aim
    BY <1>6, <2>1, <2>3, SilentSteps DEF PlainSteps
  <2> QED BY <2>2, <2>3 DEF Steps
<1> QED BY <1>7 DEF Aim

\* No text is committed to a window that holds its input method disabled.
LEMMA WantedKept ==
  ASSUME Ime!TypeOK, unwanted = FALSE, AllInformed, Drained, Recognized, Steps
  PROVE  unwanted' = FALSE
<1>1. ASSUME NEW composed \in BOOLEAN, Keys(composed) PROVE unwanted' = FALSE
  <2>1. /\ pc = "xevent" /\ active \in Windows
        /\ composed => Ime!HasIc(active) /\ contexts[active].allowed
        /\ unwanted' = (unwanted \/ /\ composed \/ is_composing
                                    /\ Ime!HasIc(active)
                                    /\ told[active] = "disabled")
    BY <1>1 DEF Keys
  <2>2. is_composing => told[active] # "disabled"
    BY DEF Recognized
  <2>3. ASSUME composed PROVE told[active] # "disabled"
    <3>1. Ime!HasIc(active) /\ contexts[active].allowed
      BY <2>1, <2>3
    <3>2. contexts[active].allowed \in BOOLEAN
      BY <2>1, <3>1, ContextTyped DEF Ime!HasIc, Record
    <3>3. Allows(active)
      BY <3>1, <3>2 DEF Allows
    <3>4. \A i \in DOMAIN events : events[i] # <<active, "Enabled">>
      BY <2>1 DEF Drained
    <3> QED BY <2>1, <3>3, <3>4 DEF AllInformed, Informed
  <2>4. ~(/\ composed \/ is_composing
          /\ Ime!HasIc(active)
          /\ told[active] = "disabled")
    BY <2>2, <2>3
  <2> QED BY <2>1, <2>4
<1>2. (\E composed \in BOOLEAN : Keys(composed)) \/ unwanted' = unwanted
  BY DEF Steps, WindowSteps, PlainSteps, Creates, Requests, Drops, Focuses, Vanishes, Handles,
         Delivers, Goes, Comes, Falls, Reopens, Passes, Toggles, Turns, Unstirred
<1> QED BY <1>1, <1>2

\* What is of events and contexts.
LEMMA EventsKept ==
  ASSUME Ime!TypeOK, Distinct, Sober, Connected, Housed, AllInformed, Drained, Exclusive, Ending,
         Ongoing, Recognized, Steps
  PROVE  AllInformed' /\ Ending' /\ Ongoing'
<1> DEFINE Aim == AllInformed' /\ Ending' /\ Ongoing'
<1>1. ASSUME Silent PROVE Aim
  BY <1>1, SilentKeeps
<1>2. ASSUME NEW w \in Windows, NEW on \in BOOLEAN, Swaps(w, on) PROVE Aim
  BY <1>2, SwapsKeeps
<1>3. ASSUME Toggles PROVE Aim
  BY <1>3, TogglesKeeps
<1>4. ASSUME NEW w \in Windows, NEW kind \in {"Enabled", "Disabled", "Start", "End"},
             Delivers(w, kind)
      PROVE  Aim
  BY <1>4, DeliversKeeps
<1> HIDE DEF Aim
<1>5. ASSUME NEW w \in Windows, WindowSteps(w) PROVE Aim
  <2>1. CASE Creates(w)
    BY <1>2, <2>1, CreatesSwaps
  <2>2. CASE \E on \in BOOLEAN : Handles(w, on)
    BY <1>1, <1>2, <2>2, HandlesSwaps
  <2> QED BY <1>1, <1>4, <1>5, <2>1, <2>2, SilentSteps DEF WindowSteps
<1>6. ASSUME PlainSteps PROVE Aim
  BY <1>1, <1>3, <1>6, SilentSteps DEF PlainSteps
<1>7. Aim
  BY <1>5, <1>6 DEF Steps
<1> QED BY <1>7 DEF Aim

\* Such a step keeps all of it.
LEMMA SaneKept ==
  ASSUME Distinct, Sober, Held, Sane, Steps
  PROVE  Sane'
<1>1. Ime!TypeOK /\ Connected /\ Housed
  BY DEF Held
<1>2. /\ AllInformed /\ Drained /\ Exclusive /\ Ending /\ Ongoing /\ Recognized /\ Starting /\ Meek
      /\ unwanted = FALSE
  BY DEF Sane
<1>3. AllInformed' /\ Ending' /\ Ongoing'
  BY <1>1, <1>2, EventsKept
<1>4. Drained'
  BY <1>1, <1>2, DrainedKept
<1>5. Exclusive'
  BY <1>1, <1>2, ExclusiveKept
<1>6. Recognized'
  BY <1>1, <1>2, RecognizedKept
<1>7. Starting'
  BY <1>1, <1>2, StartingKept
<1>8. Meek'
  BY <1>1, <1>2, MeekKept
<1>9. unwanted' = FALSE
  BY <1>1, <1>2, WantedKept
<1> QED BY <1>3, <1>4, <1>5, <1>6, <1>7, <1>8, <1>9 DEF Sane

\* Nothing changes.
LEMMA SaneStays == Sane /\ UNCHANGED ime => Sane'
<1> SUFFICES ASSUME Sane, UNCHANGED ime PROVE Sane'
  OBVIOUS
<1>1. UNCHANGED <<contexts, active, im, lost, life, ime_requests, events, is_composing, told, pc,
                  unwanted, typing>>
  BY DEF ime
<1>2. \A w \in Windows : (Busy(w)' <=> Busy(w)) /\ (Allows(w)' <=> Allows(w))
  BY <1>1, SameContexts
<1>3. AllInformed' /\ Drained'
  BY <1>1, <1>2 DEF Sane, AllInformed, Informed, Drained
<1>4. Exclusive'
  BY <1>1, <1>2 DEF Sane, Exclusive
<1>5. Ending' /\ Ongoing'
  BY <1>1, <1>2 DEF Sane, Ending, Ongoing, IsStart, Ends
<1>6. Recognized' /\ Starting'
  BY <1>1 DEF Sane, Recognized, Starting, IsStart
<1>7. Meek' /\ unwanted' = FALSE
  BY <1>1, <1>2 DEF Sane, Meek, IsStart
<1> QED BY <1>3, <1>4, <1>5, <1>6, <1>7 DEF Sane

\* It holds at first.
LEMMA SaneFirst == Init_ => Sane
<1> SUFFICES ASSUME Init_ PROVE Sane
  OBVIOUS
<1>1. /\ contexts = [w \in Windows |-> None] /\ events = <<>> /\ is_composing = FALSE
      /\ unwanted = FALSE
  BY DEF Init_, Ime!Init
<1>2. \A w \in Windows : ~Busy(w) /\ ~Allows(w)
  BY <1>1 DEF Busy, Allows, Ime!HasIc
<1> QED BY <1>1, <1>2 DEF Sane, AllInformed, Informed, Drained, Exclusive, Ending, Ongoing,
          Recognized, Starting, Meek

\* What holds at every step, where the environment is sober.
LEMMA BothKept ==
  ASSUME Distinct, Sober
  PROVE  /\ Init_ => Held /\ Sane
         /\ Held /\ Sane /\ [Next_]_<<part, vars, ime>> => Held' /\ Sane'
<1>1. Init_ => Held /\ Sane
  BY HeldFirst, SaneFirst
<1>2. ASSUME Held, Sane, [Next_]_<<part, vars, ime>> PROVE Held' /\ Sane'
  <2>1. CASE Ime!Next
    <3>1. Steps
      BY <1>2, <2>1, StepsAre DEF Sober
    <3> QED BY <1>2, <3>1, HeldKept, SaneKept
  <2>2. CASE UNCHANGED ime
    BY <1>2, <2>2, HeldStays, SaneStays
  <2> QED BY <1>2, <2>1, <2>2, ImeSteps
<1> QED BY <1>1, <1>2

\* The input method is replaced without harm, contexts follow the requests, what the event
\* processor takes for a composition is one, and nothing is committed to a window that holds
\* its input method disabled.
THEOREM ImeIsSound == ASSUME Distinct, Sober PROVE InputSpec => []ImeSound
<1>1. Init_ => Held /\ Sane
  BY BothKept
<1>2. Held /\ Sane /\ [Next_]_<<part, vars, ime>> => Held' /\ Sane'
  BY BothKept
<1>3. Held /\ Sane => ImeSound
  <2> SUFFICES ASSUME Held, Sane PROVE ImeSound
    OBVIOUS
  <2>1. Ime!ReplacedSafely
    BY DEF Held, Connected, Ime!ReplacedSafely
  <2>2. Ime!ContextsFollow
    <3> SUFFICES ASSUME ime_requests = <<>>, NEW w \in Windows, life[w] = "alive"
                 PROVE  contexts[w] # None /\ contexts[w].allowed = (w \in capabilities)
      BY DEF Ime!ContextsFollow
    <3>1. Obeyed(w)
      BY DEF Held, Followed
    <3> QED BY <3>1 DEF Obeyed, Ime!HasIc
  <2>3. Ime!NotWithheld
    <3> SUFFICES ASSUME events = <<>>, is_composing PROVE Ime!Composing # {}
      BY DEF Ime!NotWithheld, Ime!Quiet
    <3>1. PICK w \in Windows : Busy(w)
      BY DEF Sane, Ending
    <3> QED BY <3>1 DEF Busy, Ime!Composing
  <2>4. Ime!CommitsWanted
    BY DEF Sane, Ime!CommitsWanted
  <2> QED BY <2>1, <2>2, <2>3, <2>4 DEF ImeSound, Ime!Composition
<1> QED BY <1>1, <1>2, <1>3, PTL DEF InputSpec

\* Draining the events ends the composition the application knows of only when no context is
\* in preedit any more.
THEOREM CompositionIsKept == ASSUME Distinct, Sober PROVE InputSpec => Ime!CompositionKept
<1>1. Init_ => Held /\ Sane
  BY BothKept
<1>2. Held /\ Sane /\ [Next_]_<<part, vars, ime>> => Held' /\ Sane'
  BY BothKept
<1>3. ASSUME Held, Sane, [Next_]_<<part, vars, ime>>
      PROVE  [pc = "events" /\ is_composing /\ ~is_composing' => Ime!Composing = {}]_(Ime!vars)
  <2> SUFFICES ASSUME pc = "events", is_composing, ~is_composing' PROVE Ime!Composing = {}
    OBVIOUS
  <2>1. Ime!Next
    BY <1>3, ImeSteps DEF ime
  <2>2. Steps
    BY <1>3, <2>1, StepsAre DEF Sober
  <2>3. PICK w \in Windows, kind \in {"Enabled", "Disabled", "Start", "End"} : Delivers(w, kind)
    <3>1. ASSUME NEW w \in Windows, Creates(w) PROVE FALSE
      BY <3>1 DEF Creates
    <3>2. ASSUME NEW w \in Windows, WindowSteps(w)
          PROVE  \E kind \in {"Enabled", "Disabled", "Start", "End"} : Delivers(w, kind)
      BY <3>1, <3>2 DEF WindowSteps, Requests, Drops, Focuses, Vanishes, Handles, Unstirred
    <3>3. ~PlainSteps
      BY DEF PlainSteps, Goes, Comes, Falls, Reopens, Passes, Toggles, Keys, Turns, Unstirred
    <3> QED BY <2>2, <3>2, <3>3 DEF Steps
  <2>4. /\ events # <<>> /\ Head(events) = <<w, kind>> /\ events' = Tail(events)
        /\ is_composing' = (kind = "Start" \/ (is_composing /\ kind \notin {"End", "Disabled"}))
    BY <2>3 DEF Delivers
  <2>5. 1 \in DOMAIN events /\ events[1] = <<w, kind>>
    BY <1>3, <2>4, OneLess DEF Held
  <2>6. Ends(1)
    <3>1. kind \in {"End", "Disabled"}
      BY <2>4, Zenon
    <3> QED BY <2>5, <3>1 DEF Ends
  <2>7. \A v \in Windows : ~Busy(v)
    BY <1>3, <2>5, <2>6 DEF Sane, Ongoing
  <2> QED BY <2>7 DEF Busy, Ime!Composing
<1>4. Held /\ Sane /\ [Next_]_<<part, vars, ime>>
      => [pc = "events" /\ is_composing /\ ~is_composing' => Ime!Composing = {}]_(Ime!vars)
  BY <1>3
<1> QED BY <1>1, <1>2, <1>4, PTL DEF InputSpec, Ime!CompositionKept
====
