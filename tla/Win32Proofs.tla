---- MODULE Win32Proofs ----
(*
What is proved of the Windows backend for every value of the constants.

The handler.  Callbacks never overlap, and the `expect` and the asserts
around EventLoopRunner::event_handler cannot fail.  HandlerDiscipline
is not inductive: that the handler is there when a call is next depends
on what lies under that call on the stack.  Discipline says that no
callback is suspended under a call or a drain of the buffer, and that
outside of the API nothing calls the application.

The buffer.  NothingLeftBehind holds because every call has a drain or
the interrupt of WM_PAINT under it until the runner goes idle: Drains
says so of every frame of the stack.

The lifecycle.  Which phase the application is in is settled long
before it is told: move_state_to leaves the calls on the stack and
messages push others over them.  Ordered relates every frame of the
stack to the phase in which it will run, and Told is what a step may
then tell the application, which AppLifecycle allows.

Drag and drop (MCWin32Input, Win32Dnd).  What a method of a drop target
may rely on is not in the variables but on the stack: Shaped is its
form, one DoDragDrop at most, one method in it, and the callback that
the method made.  DragInv says in these terms who has the transfer
(Activated, Present), why it is still there (Needed, Deferred), what a
callback tells (Speaking), and whose drag OLE carries (Sourced).  It is
of applications that run no message loop in a callback, start one drag
at a time and answer while they may (Mannered); the others break it.

Popups (MCWin32Input, Win32Popups).  A window is moved, and resized a
call later; in between, the application may move its owner, so that
several sizes may be due.  PopupInv says that one of the calls on the
stack will bring the window where it belongs (Following), that it is on
a screen with each size that is due (Fitting) and that the last is the
smallest (Falling): the screen a window is placed on has room for any
size due, because it shows most of the window.  It is of applications
and threads that do not interrupt a reposition (Roomy).
*)
EXTENDS Win32Runner, MCWin32Input, SequenceTheorems, WellFoundedInduction,
        TLAPS

Entering == {"call", "drain"}

\* No two callbacks on the stack, and none under a pending call.
Disciplined(s) ==
  /\ \A i, j \in DOMAIN s : s[i].op = "app" /\ s[j].op = "app" => i = j
  /\ \A i, j \in DOMAIN s : i < j /\ s[i].op \in Entering => s[j].op # "app"

\* Nothing that calls the application.
Quiet(s) == \A i \in DOMAIN s : s[i].op \notin Entering \cup {"app"}

\* The inductive invariant, with TypeOK.
Discipline == /\ Disciplined(stack)
              /\ HandlerReturned
              /\ pc = "outside" => Quiet(stack)

----
(* Stacks *)

\* Pushing a frame: where the elements of the new stack come from.
LEMMA PushElements ==
  ASSUME NEW s \in Seq(Frames), NEW f \in Frames
  PROVE  /\ Push(f, s) \in Seq(Frames)
         /\ Push(f, s) # <<>>
         /\ DOMAIN Push(f, s) = 1 .. Len(s) + 1
         /\ Push(f, s)[1] = f
         /\ \A i \in 2 .. Len(s) + 1 : Push(f, s)[i] = s[i - 1]
BY DEF Push

\* Popping a frame.
LEMMA TailElements ==
  ASSUME NEW s \in Seq(Frames), s # <<>>
  PROVE  /\ Tail(s) \in Seq(Frames)
         /\ Len(s) \in Nat /\ Len(s) > 0
         /\ DOMAIN s = 1 .. Len(s)
         /\ DOMAIN Tail(s) = 1 .. Len(s) - 1
         /\ Head(s) = s[1] /\ Head(s) \in Frames
         /\ \A i \in 1 .. Len(s) - 1 : Tail(s)[i] = s[i + 1]
OBVIOUS

\* A frame that does not call the application may be pushed anywhere.
LEMMA PushOther ==
  ASSUME NEW s \in Seq(Frames), NEW f \in Frames, f.op \notin Entering \cup {"app"}
  PROVE  /\ Disciplined(s) => Disciplined(Push(f, s))
         /\ NoApp(Push(f, s)) <=> NoApp(s)
         /\ Quiet(s) => Quiet(Push(f, s))
<1> DEFINE t == Push(f, s)
<1>1. /\ DOMAIN t = 1 .. Len(s) + 1 /\ t[1] = f
      /\ \A i \in 2 .. Len(s) + 1 : t[i] = s[i - 1]
  BY PushElements
<1>2. Len(s) \in Nat /\ DOMAIN s = 1 .. Len(s)
  OBVIOUS
<1> HIDE DEF t
<1>3. \A i \in DOMAIN t : i = 1 \/ (i - 1 \in DOMAIN s /\ t[i] = s[i - 1])
  BY <1>1, <1>2
<1>4. \A i \in DOMAIN s : i + 1 \in DOMAIN t /\ t[i + 1] = s[i]
  BY <1>1, <1>2
<1>5. Disciplined(s) => Disciplined(t)
  <2> SUFFICES ASSUME Disciplined(s) PROVE Disciplined(t)
    OBVIOUS
  <2>1. ASSUME NEW i \in DOMAIN t, NEW j \in DOMAIN t,
               t[i].op = "app", t[j].op = "app"
        PROVE  i = j
    <3>1. i # 1 /\ j # 1
      BY <1>1, <2>1
    <3>2. i - 1 \in DOMAIN s /\ j - 1 \in DOMAIN s
          /\ t[i] = s[i - 1] /\ t[j] = s[j - 1]
      BY <1>3, <3>1
    <3>3. i - 1 = j - 1
      BY <2>1, <3>2 DEF Disciplined
    <3> QED BY <3>3, <1>1, <1>2
  <2>2. ASSUME NEW i \in DOMAIN t, NEW j \in DOMAIN t, i < j, t[i].op \in Entering
        PROVE  t[j].op # "app"
    <3>1. i # 1 /\ j # 1
      BY <1>1, <1>2, <2>2
    <3>2. i - 1 \in DOMAIN s /\ j - 1 \in DOMAIN s
          /\ t[i] = s[i - 1] /\ t[j] = s[j - 1]
      BY <1>3, <3>1
    <3>3. i - 1 < j - 1
      BY <2>2, <1>1, <1>2
    <3> QED BY <2>2, <3>2, <3>3 DEF Disciplined
  <2> QED BY <2>1, <2>2 DEF Disciplined
<1>6. NoApp(t) <=> NoApp(s)
  BY <1>1, <1>3, <1>4 DEF NoApp
<1>7. Quiet(s) => Quiet(t)
  BY <1>1, <1>3 DEF Quiet
<1> QED BY <1>5, <1>6, <1>7 DEF t

\* Any frame may be pushed where no callback is suspended.
LEMMA PushCall ==
  ASSUME NEW s \in Seq(Frames), NEW f \in Frames, NoApp(s)
  PROVE  /\ Disciplined(Push(f, s))
         /\ f.op # "app" => NoApp(Push(f, s))
         /\ f.op = "app" => ~NoApp(Push(f, s))
<1> DEFINE t == Push(f, s)
<1>1. /\ DOMAIN t = 1 .. Len(s) + 1 /\ t[1] = f
      /\ \A i \in 2 .. Len(s) + 1 : t[i] = s[i - 1]
  BY PushElements
<1>2. Len(s) \in Nat /\ DOMAIN s = 1 .. Len(s)
  OBVIOUS
<1> HIDE DEF t
<1>3. \A i \in DOMAIN t : i # 1 => t[i].op # "app"
  BY <1>1, <1>2 DEF NoApp
<1>4. \A i, j \in DOMAIN t : i < j => j # 1
  BY <1>1, <1>2
<1>5. Disciplined(t)
  BY <1>3, <1>4 DEF Disciplined
<1>6. /\ f.op # "app" => NoApp(t)
      /\ f.op = "app" => ~NoApp(t)
  <2>1. 1 \in DOMAIN t
    BY <1>1, <1>2
  <2> QED BY <1>1, <1>3, <2>1 DEF NoApp
<1> QED BY <1>5, <1>6 DEF t

\* What remains when a call has returned.
LEMMA PopFrame ==
  ASSUME NEW s \in Seq(Frames), s # <<>>, Disciplined(s)
  PROVE  /\ Disciplined(Tail(s))
         /\ Head(s).op # "app" => (NoApp(Tail(s)) <=> NoApp(s))
         /\ Head(s).op \in Entering \cup {"app"} => NoApp(Tail(s))
         /\ Head(s).op \in Entering => NoApp(s)
         /\ Quiet(s) => Quiet(Tail(s)) /\ Head(s).op \notin Entering \cup {"app"}
<1> DEFINE t == Tail(s)
<1>1. /\ Len(s) \in Nat /\ Len(s) > 0 /\ DOMAIN s = 1 .. Len(s)
      /\ DOMAIN t = 1 .. Len(s) - 1 /\ Head(s) = s[1]
      /\ \A i \in 1 .. Len(s) - 1 : t[i] = s[i + 1]
  BY TailElements
<1> HIDE DEF t
<1>2. \A i \in DOMAIN t : i + 1 \in DOMAIN s /\ t[i] = s[i + 1] /\ 1 < i + 1
  BY <1>1
<1>3. \A i \in DOMAIN s : i = 1 \/ (i - 1 \in DOMAIN t /\ t[i - 1] = s[i])
  BY <1>1
<1>4. 1 \in DOMAIN s
  BY <1>1
<1>5. Disciplined(t)
  <2>1. ASSUME NEW i \in DOMAIN t, NEW j \in DOMAIN t,
               t[i].op = "app", t[j].op = "app"
        PROVE  i = j
    <3>1. i + 1 = j + 1
      BY <1>2, <2>1 DEF Disciplined
    <3> QED BY <3>1, <1>1
  <2>2. ASSUME NEW i \in DOMAIN t, NEW j \in DOMAIN t, i < j, t[i].op \in Entering
        PROVE  t[j].op # "app"
    <3>1. i + 1 < j + 1
      BY <2>2, <1>1
    <3> QED BY <1>2, <2>2, <3>1 DEF Disciplined
  <2> QED BY <2>1, <2>2 DEF Disciplined
<1>6. Head(s).op # "app" => (NoApp(t) <=> NoApp(s))
  BY <1>1, <1>2, <1>3 DEF NoApp
<1>7. Head(s).op \in Entering \cup {"app"} => NoApp(t)
  <2>1. CASE Head(s).op \in Entering
    BY <1>1, <1>2, <1>4, <2>1 DEF NoApp, Disciplined
  <2>2. CASE Head(s).op = "app"
    BY <1>1, <1>2, <1>4, <2>2 DEF NoApp, Disciplined
  <2> QED BY <2>1, <2>2
<1>8. Head(s).op \in Entering => NoApp(s)
  BY <1>6, <1>7 DEF Entering
<1>9. Quiet(s) => Quiet(t) /\ Head(s).op \notin Entering \cup {"app"}
  BY <1>1, <1>2, <1>4 DEF Quiet
<1> QED BY <1>5, <1>6, <1>7, <1>8, <1>9 DEF t

----
(* What the operators of the model do to the stack *)

\* The frames of the model and what tells them apart.
LEMMA FrameTypes ==
  /\ \A cb \in Callbacks : /\ Call(cb) \in Frames /\ Call(cb).op = "call"
                           /\ App(cb) \in Frames /\ App(cb).op = "app"
  /\ \A o \in Ops : Op(o) \in Frames /\ Op(o).op = o
  /\ Op("drain").op \in Entering
  /\ \A o \in Ops \ {"drain"} : Op(o).op \notin Entering \cup {"app"}
  /\ \A f \in Frames : f.op = "call" => f.arg \in Callbacks
<1>1. \A cb \in Callbacks : /\ Call(cb) \in Frames /\ Call(cb).op = "call"
                            /\ App(cb) \in Frames /\ App(cb).op = "app"
  BY DEF Frames, Call, App
<1>2. \A o \in Ops : Op(o) \in Frames /\ Op(o).op = o
  BY DEF Frames, Op
<1>3. "drain" \in Ops /\ \A o \in Ops \ {"drain"} : o \notin Entering \cup {"app"}
  BY DEF Ops, Entering
<1>4. ASSUME NEW f \in Frames, f.op = "call"
      PROVE  f.arg \in Callbacks
  <2>1. CASE \E cb \in Callbacks : f = Call(cb)
    BY <2>1 DEF Call
  <2>2. CASE \E cb \in Callbacks : f = App(cb)
    BY <1>4, <2>2 DEF App
  <2>3. CASE \E o \in Ops : f = Op(o)
    BY <1>4, <2>3 DEF Op, Ops
  <2> QED BY <2>1, <2>2, <2>3 DEF Frames
<1> QED BY <1>1, <1>2, <1>3, <1>4 DEF Entering

\* t is a stack a step may leave where s was, the handler being where it is.
Follows(t, s) ==
  /\ t \in Seq(Frames) /\ Disciplined(t)
  /\ NoApp(t) <=> NoApp(s)
  /\ ~event_handler /\ Quiet(s) => Quiet(t)

\* A frame put on a stack that follows another.
LEMMA FollowsPush ==
  ASSUME NEW s, NEW t, Follows(t, s), NEW f \in Frames,
         f.op \notin Entering \cup {"app"} \/ (f.op # "app" /\ event_handler /\ NoApp(s))
  PROVE  Follows(Push(f, t), s)
<1>1. Push(f, t) \in Seq(Frames)
  BY PushElements DEF Follows
<1>2. CASE f.op \notin Entering \cup {"app"}
  BY <1>1, <1>2, PushOther DEF Follows
<1>3. CASE f.op # "app" /\ event_handler /\ NoApp(s)
  BY <1>1, <1>3, PushCall DEF Follows
<1> QED BY <1>2, <1>3

\* send_event calls the handler, or buffers, and follows the stack.
LEMMA SendEventFollows ==
  ASSUME NEW s, NEW rest, Follows(rest, s), event_handler => NoApp(s),
         NEW e \in Events, event_buffer \in Seq(Events), SendEvent(e, rest)
  PROVE  Follows(stack', s) /\ event_buffer' \in Seq(Events)
<1>1. CASE event_handler
  <2>1. Follows(Push(Op("drain"), rest), s)
    BY <1>1, FrameTypes, FollowsPush DEF Ops, Entering
  <2>2. Call(e) \in Frames /\ Call(e).op = "call"
    BY FrameTypes DEF Callbacks
  <2>3. Follows(Push(Call(e), Push(Op("drain"), rest)), s)
    BY <1>1, <2>1, <2>2, FollowsPush
  <2> QED BY <1>1, <2>3 DEF SendEvent
<1>2. CASE ~event_handler
  BY <1>2 DEF SendEvent
<1> QED BY <1>1, <1>2

\* The window procedure.
LEMMA WindowProcFollows ==
  ASSUME NEW s, NEW rest, Follows(rest, s), event_handler => NoApp(s),
         event_buffer \in Seq(Events), NEW m, WindowProc(m, rest)
  PROVE  Follows(stack', s) /\ event_buffer' \in Seq(Events)
<1> DEFINE After == CASE m = "WakeUp" -> rest
                      [] m = "SizeMove" /\ ~panic_error ->
                           Push(Op("try_drag"), Push(Op("modal"), rest))
                      [] OTHER -> Push(Op("try_drag"), rest)
           event == IF m = "WakeUp" THEN "proxy_wake_up" ELSE "window_event"
<1>1. Op("try_drag") \in Frames /\ Op("try_drag").op \notin Entering \cup {"app"}
      /\ Op("modal") \in Frames /\ Op("modal").op \notin Entering \cup {"app"}
  BY FrameTypes DEF Ops
<1>2. Follows(Push(Op("try_drag"), rest), s)
      /\ Follows(Push(Op("try_drag"), Push(Op("modal"), rest)), s)
  BY <1>1, FollowsPush
<1>3. Follows(After, s)
  BY <1>2
<1>4. event \in Events
  BY DEF Events
<1>5. \/ stack' = After /\ UNCHANGED event_buffer
      \/ SendEvent(event, After)
  BY DEF WindowProc
<1> HIDE DEF After, event
<1> QED BY <1>3, <1>4, <1>5, SendEventFollows

\* WM_PAINT.
LEMMA PaintProcFollows ==
  ASSUME NEW s, NEW rest, Follows(rest, s), event_handler => NoApp(s),
         paint \in BOOLEAN, redraw_requested \in BOOLEAN, event_handler \in BOOLEAN,
         PaintProc(rest)
  PROVE  Follows(stack', s) /\ paint' \in BOOLEAN /\ redraw_requested' \in BOOLEAN
<1>1. /\ Op("try_drag") \in Frames /\ Op("try_drag").op \notin Entering \cup {"app"}
      /\ Op("rearm") \in Frames /\ Op("rearm").op \notin Entering \cup {"app"}
      /\ Op("validate") \in Frames /\ Op("validate").op \notin Entering \cup {"app"}
      /\ Op("interrupt") \in Frames /\ Op("interrupt").op \notin Entering \cup {"app"}
  BY FrameTypes DEF Ops
<1>2. Follows(Push(Op("try_drag"), rest), s)
  BY <1>1, FollowsPush
<1>3. Follows(Push(Op("rearm"), Push(Op("try_drag"), rest)), s)
  BY <1>1, <1>2, FollowsPush
<1>4. Follows(PaintEnd(rest), s)
  BY <1>1, <1>3, FollowsPush DEF PaintEnd
<1>5. Follows(Push(Op("interrupt"), PaintEnd(rest)), s)
  BY <1>1, <1>4, FollowsPush
<1>6. "redraw_requested" \in Callbacks
  BY DEF Callbacks
<1>7. event_handler =>
        Follows(Push(Call("redraw_requested"), Push(Op("interrupt"), PaintEnd(rest))), s)
  BY <1>5, <1>6, FrameTypes, FollowsPush
<1> QED BY <1>2, <1>4, <1>7 DEF PaintProc

\* The calls of move_state_to start from an empty stack.
LEMMA TransitionStack ==
  ASSUME NEW from, NEW to
  PROVE  /\ Transition(from, to) \in Seq(Frames)
         /\ Disciplined(Transition(from, to)) /\ NoApp(Transition(from, to))
<1> DEFINE Fine(s) == s \in Seq(Frames) /\ Disciplined(s) /\ NoApp(s)
<1>1. Fine(<<>>)
  BY DEF Disciplined, NoApp
<1>2. ASSUME NEW s, Fine(s), NEW f \in Frames, f.op # "app"
      PROVE  Fine(Push(f, s))
  BY <1>2, PushElements, PushCall
<1>3. /\ Call("new_events_init") \in Frames /\ Call("new_events_init").op # "app"
      /\ Call("new_events") \in Frames /\ Call("new_events").op # "app"
      /\ Call("can_create_surfaces") \in Frames /\ Call("can_create_surfaces").op # "app"
      /\ Call("about_to_wait") \in Frames /\ Call("about_to_wait").op # "app"
      /\ Op("drain") \in Frames /\ Op("drain").op # "app"
  BY FrameTypes DEF Callbacks, Ops
<1> HIDE DEF Fine
<1>4. ASSUME NEW s, Fine(s), NEW init
      PROVE  Fine(NewEvents(init, s))
  BY <1>2, <1>3, <1>4 DEF NewEvents
<1>5. Fine(AboutToWait)
  BY <1>1, <1>2, <1>3 DEF AboutToWait
<1>6. Fine(Transition(from, to))
  BY <1>1, <1>4, <1>5 DEF Transition
<1> QED BY <1>6 DEF Fine

----
(* Type correctness *)

\* Init has the types.
LEMMA InitTypeOK == Init => TypeOK
<1> SUFFICES ASSUME Init PROVE FlagsOK /\ DataOK
  BY DEF TypeOK
<1>1. FlagsOK
  BY DEF Init, FlagsOK
<1>2. event_buffer \in Seq(Events) /\ stack \in Seq(Frames) /\ queue \in Seq(Messages)
  BY DEF Init
<1>3. DataOK
  BY <1>2 DEF Init, DataOK, RunnerStates, PCs
<1> QED BY <1>1, <1>3

\* The Boolean variables.
LEMMA NextFlagsOK == FlagsOK /\ [Next]_vars => FlagsOK'
<1> SUFFICES ASSUME FlagsOK, [Next]_vars PROVE FlagsOK'
  OBVIOUS
<1> USE DEF FlagsOK, loop_vars, drag_vars, os_vars, hist_vars
<1>1. CASE RunAppOnDemand
  BY <1>1 DEF RunAppOnDemand
<1>2. CASE PumpAppEvents
  BY <1>2 DEF PumpAppEvents
<1>3. CASE PumpStart
  BY <1>3 DEF PumpStart
<1>4. CASE AfterWait
  BY <1>4 DEF AfterWait
<1>5. CASE PeekNothing
  BY <1>5 DEF PeekNothing
<1>6. CASE AfterDispatch
  BY <1>6 DEF AfterDispatch
<1>7. CASE PumpContinues
  BY <1>7 DEF PumpContinues
<1>8. CASE PrepareWait
  BY <1>8 DEF PrepareWait
<1>9. CASE WaitReturns
  BY <1>9 DEF WaitReturns
<1>10. CASE TurnEnd
  BY <1>10 DEF TurnEnd
<1>11. CASE ResumeUnwind \/ LoopExits
  BY <1>11 DEF ResumeUnwind, LoopExits, ResetRunner
<1>12. CASE Dispatch
  <2>1. CASE DispatchPosted
    BY <2>1 DEF DispatchPosted, Retrieve
  <2>2. CASE DispatchPaint
    BY <2>2 DEF DispatchPaint, Retrieve, PaintProc
  <2>3. CASE DispatchTargetPaint
    BY <2>3 DEF DispatchTargetPaint, Retrieve
  <2> QED BY <1>12, <2>1, <2>2, <2>3 DEF Dispatch
<1>13. CASE CallEventHandler
  BY <1>13 DEF CallEventHandler
<1>14. CASE DispatchBufferedEvents
  BY <1>14 DEF DispatchBufferedEvents
<1>15. CASE SetInterrupt
  BY <1>15 DEF SetInterrupt
<1>16. CASE Validate
  BY <1>16 DEF Validate
<1>17. CASE Rearm
  BY <1>17 DEF Rearm
<1>18. CASE TryExecuteDragDrop
  BY <1>18 DEF TryExecuteDragDrop
<1>19. CASE DoDragDropReturns
  BY <1>19 DEF DoDragDropReturns
<1>20. CASE ClearSourceDrag
  BY <1>20 DEF ClearSourceDrag
<1>21. CASE ModalEnds
  BY <1>21 DEF ModalEnds
<1>22. CASE AppExit
  BY <1>22 DEF AppExit
<1>23. CASE AppSetControlFlow
  BY <1>23 DEF AppSetControlFlow
<1>24. CASE AppStartDrag
  BY <1>24 DEF AppStartDrag
<1>25. CASE AppRequestRedraw
  BY <1>25 DEF AppRequestRedraw
<1>26. CASE AppSend
  BY <1>26, ZenonT(40) DEF AppSend, PaintProc
<1>27. CASE AppModal
  BY <1>27 DEF AppModal
<1>28. CASE AppReturn
  BY <1>28 DEF AppReturn
<1>29. CASE AppPanic
  BY <1>29 DEF AppPanic
<1>30. CASE \E m \in Messages : Post(m)
  BY <1>30 DEF Post
<1>31. CASE Invalidate
  BY <1>31 DEF Invalidate
<1>32. CASE ThreadSetsFlag
  BY <1>32 DEF ThreadSetsFlag
<1>33. CASE ThreadRedrawWindow
  BY <1>33 DEF ThreadRedrawWindow
<1>34. CASE UNCHANGED vars
  BY <1>34 DEF vars
<1> QED
  BY <1>1, <1>2, <1>3, <1>4, <1>5, <1>6, <1>7, <1>8, <1>9, <1>10, <1>11,
     <1>12, <1>13, <1>14, <1>15, <1>16, <1>17, <1>18, <1>19, <1>20, <1>21,
     <1>22, <1>23, <1>24, <1>25, <1>26, <1>27, <1>28, <1>29, <1>30, <1>31,
     <1>32, <1>33, <1>34
     DEF Next, Host, Loop, Application, Environment

\* The others.
LEMMA NextDataOK ==
  TypeOK /\ Disciplined(stack) /\ (event_handler => NoApp(stack)) /\ [Next]_vars
  => DataOK'
<1> SUFFICES ASSUME TypeOK, Disciplined(stack), event_handler => NoApp(stack),
                    [Next]_vars
             PROVE  DataOK'
  OBVIOUS
<1> FlagsOK /\ DataOK
  BY DEF TypeOK
<1> USE DEF DataOK, loop_vars, drag_vars, os_vars, hist_vars
<1>1. ASSUME NEW to \in RunnerStates, NEW p \in PCs, MoveStateTo(to, p)
      PROVE  runner_state' \in RunnerStates /\ stack' \in Seq(Frames) /\ pc' \in PCs
  BY <1>1, TransitionStack DEF MoveStateTo
<1>2. stack # <<>> => Tail(stack) \in Seq(Frames) /\ Head(stack) \in Frames
  BY TailElements
<1>3. Follows(stack, stack)
  BY DEF Follows
<1>4. /\ \A o \in Ops : Op(o) \in Frames
      /\ \A cb \in Callbacks : Call(cb) \in Frames /\ App(cb) \in Frames
      /\ Top("call") => Head(stack).arg \in Callbacks
  BY <1>2, FrameTypes DEF Top
<1>5. \A f \in Frames : Push(f, stack) \in Seq(Frames)
                       /\ (stack # <<>> => Push(f, Tail(stack)) \in Seq(Frames))
  BY <1>2, PushElements
<1>6. ASSUME ResetRunner PROVE DataOK'
  BY <1>6 DEF ResetRunner, RunnerStates, PCs
<1>7. CASE Host
  BY <1>1, <1>7 DEF Host, RunAppOnDemand, PumpAppEvents, RunnerStates, PCs
<1>8. CASE PumpStart \/ AfterWait \/ PeekNothing \/ AfterDispatch \/ PumpContinues
  BY <1>8 DEF PumpStart, AfterWait, PeekNothing, AfterDispatch, PumpContinues, PCs
<1>9. CASE PrepareWait \/ WaitReturns
  BY <1>1, <1>9 DEF PrepareWait, WaitReturns, RunnerStates, PCs
<1>10. CASE TurnEnd
  BY <1>1, <1>10 DEF TurnEnd, RunnerStates, PCs
<1>11. CASE ResumeUnwind \/ LoopExits
  BY <1>6, <1>11 DEF ResumeUnwind, LoopExits
<1>12. CASE DispatchPosted
  <2>1. Follows(stack', stack) /\ event_buffer' \in Seq(Events)
    BY <1>3, <1>12, WindowProcFollows DEF DispatchPosted
  <2>2. stack' \in Seq(Frames)
    BY <2>1 DEF Follows
  <2>3. queue' \in Seq(Messages)
    BY <1>12 DEF DispatchPosted
  <2>4. pc' \in PCs
    BY <1>12 DEF DispatchPosted, Retrieve, PCs
  <2> QED BY <1>12, <2>1, <2>2, <2>3, <2>4 DEF DispatchPosted, Retrieve
<1>13. CASE DispatchPaint
  <2>1. Follows(stack', stack) /\ paint' \in BOOLEAN /\ redraw_requested' \in BOOLEAN
    BY <1>3, <1>13, PaintProcFollows DEF DispatchPaint, FlagsOK
  <2>2. stack' \in Seq(Frames)
    BY <2>1 DEF Follows
  <2>3. pc' \in PCs
    BY <1>13 DEF DispatchPaint, Retrieve, PCs
  <2> QED BY <1>13, <2>1, <2>2, <2>3 DEF DispatchPaint, Retrieve
<1>14. CASE DispatchTargetPaint
  BY <1>14 DEF DispatchTargetPaint, Retrieve, PCs
<1>15. CASE CallEventHandler
  <2>1. stack' \in Seq(Frames)
    BY <1>2, <1>4, <1>5, <1>15 DEF CallEventHandler, Top
  <2>2. phase' \in {"Off", "Init", "Awake", "Asleep", "Dead"}
    BY <1>15 DEF CallEventHandler, PhaseAfter
  <2> QED BY <1>15, <2>1, <2>2 DEF CallEventHandler
<1>16. CASE DispatchBufferedEvents
  <2>1. event_buffer # <<>> => /\ Tail(event_buffer) \in Seq(Events)
                               /\ Head(event_buffer) \in Events
    OBVIOUS
  <2>2. stack' \in Seq(Frames) /\ event_buffer' \in Seq(Events)
    BY <1>2, <1>4, <1>5, <1>16, <2>1 DEF DispatchBufferedEvents, Top, Callbacks
  <2>3. old' \in Nat
    BY <1>16 DEF DispatchBufferedEvents
  <2> QED BY <1>16, <2>2, <2>3 DEF DispatchBufferedEvents
<1>17. CASE SetInterrupt \/ Validate \/ Rearm \/ ClearSourceDrag \/ ModalEnds
  BY <1>2, <1>17 DEF SetInterrupt, Validate, Rearm, ClearSourceDrag, ModalEnds, Top
<1>18. CASE TryExecuteDragDrop
  <2>1. stack' \in Seq(Frames)
    BY <1>2, <1>4, <1>5, <1>18 DEF TryExecuteDragDrop, Top, Ops
  <2> QED BY <1>18, <2>1 DEF TryExecuteDragDrop
<1>19. CASE DoDragDropReturns
  <2>1. Push(Op("end_drag"), Tail(stack)) \in Seq(Frames)
    BY <1>4, <1>5, <1>19 DEF DoDragDropReturns, Top, Ops
  <2>2. ASSUME SendEvent("window_event", Push(Op("end_drag"), Tail(stack)))
        PROVE  stack' \in Seq(Frames) /\ event_buffer' \in Seq(Events)
    <3>1. Call("window_event") \in Frames /\ Op("drain") \in Frames
          /\ "window_event" \in Events
      BY <1>4 DEF Callbacks, Events, Ops
    <3>2. Push(Op("drain"), Push(Op("end_drag"), Tail(stack))) \in Seq(Frames)
      BY <2>1, <3>1, PushElements
    <3>3. Push(Call("window_event"), Push(Op("drain"), Push(Op("end_drag"), Tail(stack))))
            \in Seq(Frames)
      BY <3>1, <3>2, PushElements
    <3>4. Append(event_buffer, "window_event") \in Seq(Events)
      BY <3>1
    <3> QED BY <2>1, <2>2, <3>3, <3>4 DEF SendEvent
  <2> QED BY <1>19, <2>1, <2>2 DEF DoDragDropReturns
<1>20. CASE AppExit \/ AppSetControlFlow \/ AppStartDrag \/ AppRequestRedraw
  BY <1>20 DEF AppExit, AppSetControlFlow, AppStartDrag, AppRequestRedraw
<1>21. CASE AppReturn \/ AppPanic
  BY <1>2, <1>21 DEF AppReturn, AppPanic, Acting, Top
<1>22. CASE AppModal
  BY <1>4, <1>5, <1>22 DEF AppModal, Ops
<1>23. CASE AppSend
  <2>1. CASE paint /\ PaintProc(stack) /\ UNCHANGED <<event_buffer, posts>>
    <3>1. Follows(stack', stack) /\ paint' \in BOOLEAN /\ redraw_requested' \in BOOLEAN
      BY <1>3, <2>1, PaintProcFollows DEF FlagsOK
    <3> QED BY <1>23, <2>1, <3>1 DEF AppSend, Follows
  <2>2. CASE /\ posts' = posts + 1
             /\ \E m \in {"Input", "Quiet"} : WindowProc(m, stack)
             /\ UNCHANGED <<paint, redraw_requested>>
    <3>1. Follows(stack', stack) /\ event_buffer' \in Seq(Events)
      BY <1>3, <2>2, WindowProcFollows
    <3> QED BY <1>23, <2>2, <3>1 DEF AppSend, Follows
  <2> QED BY <1>23, <2>1, <2>2 DEF AppSend
<1>24. CASE \E m \in Messages : Post(m)
  BY <1>24 DEF Post
<1>25. CASE Invalidate \/ ThreadSetsFlag \/ ThreadRedrawWindow
  BY <1>25 DEF Invalidate, ThreadSetsFlag, ThreadRedrawWindow
<1>26. CASE UNCHANGED vars
  BY <1>26 DEF vars
<1> QED
  BY <1>7, <1>8, <1>9, <1>10, <1>11, <1>12, <1>13, <1>14, <1>15, <1>16, <1>17,
     <1>18, <1>19, <1>20, <1>21, <1>22, <1>23, <1>24, <1>25, <1>26
     DEF Next, Loop, Application, Environment, Dispatch

----
(* The discipline *)

\* Init keeps the discipline.
LEMMA InitDiscipline == Init => Discipline
BY DEF Init, Discipline, Disciplined, HandlerReturned, NoApp, Quiet

\* Steps that leave the handler and the panic alone and follow the stack.
LEMMA FollowsKeeps ==
  ASSUME TypeOK, Discipline, Follows(stack', stack),
         event_handler' = event_handler, panic_error' = panic_error,
         pc' = "outside" <=> pc = "outside"
  PROVE  Discipline'
<1>1. Disciplined(stack') /\ (NoApp(stack') <=> NoApp(stack))
      /\ (~event_handler /\ Quiet(stack) => Quiet(stack'))
  BY DEF Follows
<1>2. HandlerReturned'
  BY <1>1 DEF Discipline, HandlerReturned
<1>3. pc' = "outside" => Quiet(stack')
  BY <1>1 DEF Discipline, HandlerReturned
<1> QED BY <1>1, <1>2, <1>3 DEF Discipline

\* Nothing the discipline speaks of changes.
LEMMA StutterKeeps ==
  ASSUME Discipline,
         UNCHANGED <<stack, event_handler, panic_error>>,
         pc' = "outside" <=> pc = "outside"
  PROVE  Discipline'
BY DEF Discipline, HandlerReturned

\* Inside the API the loop moves the runner to another state.
LEMMA MoveKeeps ==
  ASSUME Discipline, stack = <<>>, NEW to, NEW p, MoveStateTo(to, p),
         p # "outside", event_handler' \/ panic_error'
  PROVE  Discipline'
BY TransitionStack DEF MoveStateTo, Discipline, HandlerReturned

\* On an empty stack inside the API, either the handler is there or it panicked.
LEMMA IdleHandler ==
  ASSUME Discipline, stack = <<>>, pc # "outside"
  PROVE  event_handler \/ panic_error
<1>1. NoApp(stack)
  BY DEF NoApp
<1> QED BY <1>1 DEF Discipline, HandlerReturned

\* reset_runner.
LEMMA ResetKeeps ==
  ASSUME stack = <<>>, ResetRunner
  PROVE  Discipline'
<1>1. stack' = <<>> /\ ~event_handler' /\ pc' = "outside"
  BY DEF ResetRunner
<1>2. Disciplined(stack') /\ Quiet(stack')
  BY <1>1 DEF Disciplined, Quiet
<1> QED BY <1>1, <1>2 DEF Discipline, HandlerReturned

\* Every step keeps it.
LEMMA NextDiscipline == TypeOK /\ Discipline /\ [Next]_vars => Discipline'
<1> SUFFICES ASSUME TypeOK, Discipline, [Next]_vars
             PROVE  Discipline'
  OBVIOUS
<1> USE DEF loop_vars
<1>1. stack \in Seq(Frames) /\ event_buffer \in Seq(Events) /\ pc \in PCs
      /\ paint \in BOOLEAN /\ redraw_requested \in BOOLEAN /\ event_handler \in BOOLEAN
  BY DEF TypeOK, FlagsOK, DataOK
<1>2. Disciplined(stack) /\ (event_handler => NoApp(stack))
  BY DEF Discipline, HandlerReturned
<1>3. Follows(stack, stack)
  BY <1>1, <1>2 DEF Follows
\* A frame that is not a callback is popped, or replaced by a harmless one.
<1>4. ASSUME stack # <<>>, Head(stack).op # "app"
      PROVE  Follows(Tail(stack), stack)
  BY <1>1, <1>2, <1>4, PopFrame, TailElements DEF Follows
<1>5. ASSUME NEW f \in Frames, f.op \notin Entering \cup {"app"},
             NEW s, Follows(s, stack)
      PROVE  Follows(Push(f, s), stack)
  BY <1>5, FollowsPush
<1>6. \A o \in Ops \ {"drain"} : Op(o) \in Frames /\ Op(o).op \notin Entering \cup {"app"}
  BY FrameTypes
<1>7. pc = "outside" => ~event_handler /\ Quiet(stack)
  BY DEF Discipline, HandlerReturned
<1>8. stack # <<>> /\ Head(stack).op \in Entering \cup {"app"} => pc # "outside"
  BY <1>1, <1>2, <1>7, PopFrame
<1>9. CASE RunAppOnDemand
  <2>1. stack' = <<>> /\ event_handler' /\ pc' # "outside"
    BY <1>9 DEF RunAppOnDemand, At
  <2>2. Disciplined(stack') /\ NoApp(stack')
    BY <2>1 DEF Disciplined, NoApp
  <2> QED BY <2>1, <2>2 DEF Discipline, HandlerReturned
<1>10. CASE PumpAppEvents
  BY <1>10, MoveKeeps DEF PumpAppEvents, At
<1>11. CASE PumpStart \/ AfterWait \/ PeekNothing \/ AfterDispatch
  BY <1>11, StutterKeeps DEF PumpStart, AfterWait, PeekNothing, AfterDispatch, At
<1>12. CASE PumpContinues
  <2>1. stack' = <<>> /\ ~event_handler' /\ pc' = "outside"
    BY <1>12 DEF PumpContinues, At
  <2>2. Disciplined(stack') /\ Quiet(stack')
    BY <2>1 DEF Disciplined, Quiet
  <2> QED BY <2>1, <2>2 DEF Discipline, HandlerReturned
<1>13. CASE PrepareWait \/ WaitReturns
  BY <1>13, IdleHandler, MoveKeeps DEF PrepareWait, WaitReturns, At
<1>14. CASE TurnEnd
  <2>1. CASE UNCHANGED stack /\ pc' = "loop_top"
    BY <1>14, <2>1, StutterKeeps DEF TurnEnd, At
  <2>2. CASE \E to \in RunnerStates, p \in PCs \ {"outside"} : MoveStateTo(to, p)
    BY <1>14, <2>2, IdleHandler, MoveKeeps DEF TurnEnd, At
  <2> QED BY <1>14, <2>1, <2>2 DEF TurnEnd, RunnerStates, PCs
<1>15. CASE ResumeUnwind \/ LoopExits
  BY <1>15, ResetKeeps DEF ResumeUnwind, LoopExits, At
<1>16. CASE Dispatch
  <2>1. /\ event_handler' = event_handler /\ panic_error' = panic_error
        /\ pc' = "outside" <=> pc = "outside"
    BY <1>16 DEF Dispatch, DispatchPosted, DispatchPaint, DispatchTargetPaint,
       Retrieve, At
  <2>2. CASE DispatchPosted
    BY <1>1, <1>2, <1>3, <2>1, <2>2, WindowProcFollows, FollowsKeeps
       DEF DispatchPosted
  <2>3. CASE DispatchPaint
    BY <1>1, <1>2, <1>3, <2>1, <2>3, PaintProcFollows, FollowsKeeps
       DEF DispatchPaint
  <2>4. CASE DispatchTargetPaint
    BY <2>1, <2>4, StutterKeeps DEF DispatchTargetPaint
  <2> QED BY <1>16, <2>2, <2>3, <2>4 DEF Dispatch
<1>17. CASE CallEventHandler
  <2> DEFINE cb == Head(stack).arg
  <2>1. /\ stack # <<>> /\ Head(stack).op = "call" /\ pc' = pc
        /\ Head(stack) \in Frames
    BY <1>1, <1>17, TailElements DEF CallEventHandler, Top
  <2>2. /\ Disciplined(Tail(stack)) /\ NoApp(Tail(stack)) /\ NoApp(stack)
        /\ Tail(stack) \in Seq(Frames) /\ pc # "outside"
    BY <1>1, <1>2, <1>8, <2>1, PopFrame, TailElements DEF Entering
  <2>3. CASE stack' = Tail(stack) /\ UNCHANGED <<event_handler, panic_error>>
    BY <1>4, <2>1, <2>3, FollowsKeeps
  <2>4. CASE /\ stack' = Push(App(cb), Tail(stack))
             /\ ~event_handler' /\ panic_error' = panic_error
    <3>1. App(cb) \in Frames /\ App(cb).op = "app"
      BY <2>1, FrameTypes
    <3>2. Disciplined(stack') /\ ~NoApp(stack')
      BY <2>2, <2>4, <3>1, PushCall
    <3> QED BY <2>1, <2>2, <2>4, <3>2 DEF Discipline, HandlerReturned
  <2>5. CASE stack' = Tail(stack) /\ panic_error' /\ UNCHANGED event_handler
    BY <2>1, <2>2, <2>5 DEF Discipline, HandlerReturned
  <2> QED BY <1>17, <2>3, <2>4, <2>5 DEF CallEventHandler
<1>18. CASE DispatchBufferedEvents
  <2>1. /\ stack # <<>> /\ Head(stack).op = "drain" /\ Head(stack).op \in Entering
        /\ UNCHANGED <<event_handler, panic_error, pc>>
    BY <1>18 DEF DispatchBufferedEvents, Top, Entering
  <2>2. CASE stack' = Tail(stack)
    BY <1>4, <2>1, <2>2, FollowsKeeps
  <2>3. CASE event_buffer # <<>> /\ stack' = Push(Call(Head(event_buffer)), stack)
    <3>1. Call(Head(event_buffer)) \in Frames /\ Call(Head(event_buffer)).op = "call"
      <4>1. Head(event_buffer) \in Callbacks
        BY <1>1, <2>3 DEF Callbacks
      <4> QED BY <4>1, FrameTypes
    <3>2. NoApp(stack) /\ pc # "outside"
      BY <1>1, <1>2, <1>8, <2>1, PopFrame
    <3>3. Disciplined(stack') /\ NoApp(stack') /\ stack' \in Seq(Frames)
      BY <1>1, <2>3, <3>1, <3>2, PushCall, PushElements
    <3> QED BY <2>1, <3>2, <3>3 DEF Discipline, HandlerReturned
  <2> QED BY <1>18, <2>2, <2>3 DEF DispatchBufferedEvents
<1>19. CASE SetInterrupt \/ Validate \/ Rearm \/ ClearSourceDrag \/ ModalEnds
  <2>1. /\ stack # <<>> /\ Head(stack).op # "app" /\ stack' = Tail(stack)
        /\ UNCHANGED <<event_handler, panic_error, pc>>
    BY <1>19 DEF SetInterrupt, Validate, Rearm, ClearSourceDrag, ModalEnds, Top
  <2> QED BY <1>4, <2>1, FollowsKeeps
<1>20. CASE TryExecuteDragDrop
  <2>1. /\ stack # <<>> /\ Head(stack).op # "app"
        /\ stack' \in {Tail(stack), Push(Op("DoDragDrop"), Tail(stack))}
        /\ UNCHANGED <<event_handler, panic_error, pc>>
    BY <1>20 DEF TryExecuteDragDrop, Top
  <2>2. Follows(Push(Op("DoDragDrop"), Tail(stack)), stack)
    BY <1>4, <1>5, <1>6, <2>1 DEF Ops
  <2> QED BY <1>4, <2>1, <2>2, FollowsKeeps
<1>21. CASE DoDragDropReturns
  <2> DEFINE rest == Push(Op("end_drag"), Tail(stack))
  <2>1. /\ stack # <<>> /\ Head(stack).op # "app"
        /\ SendEvent("window_event", rest) \/ stack' = rest
        /\ UNCHANGED <<event_handler, panic_error, pc>>
    BY <1>21 DEF DoDragDropReturns, Top
  <2>2. Follows(rest, stack)
    BY <1>4, <1>5, <1>6, <2>1 DEF Ops
  <2>3. "window_event" \in Events
    BY DEF Events
  <2> HIDE DEF rest
  <2>4. Follows(stack', stack)
    BY <1>1, <1>2, <2>1, <2>2, <2>3, SendEventFollows
  <2> QED BY <2>1, <2>4, FollowsKeeps
<1>22. CASE AppExit \/ AppSetControlFlow \/ AppStartDrag \/ AppRequestRedraw
  BY <1>22, StutterKeeps DEF AppExit, AppSetControlFlow, AppStartDrag, AppRequestRedraw
<1>23. CASE AppReturn
  <2>1. /\ stack # <<>> /\ Head(stack).op = "app" /\ stack' = Tail(stack)
        /\ event_handler' /\ pc' = pc
    BY <1>23 DEF AppReturn, Top
  <2>2. Disciplined(stack') /\ NoApp(stack') /\ pc # "outside"
    BY <1>1, <1>2, <1>8, <2>1, PopFrame
  <2> QED BY <2>1, <2>2 DEF Discipline, HandlerReturned
<1>24. CASE AppPanic
  <2>1. /\ stack # <<>> /\ Head(stack).op = "app" /\ stack' = Tail(stack)
        /\ event_handler' = event_handler /\ panic_error' /\ pc' = pc
    BY <1>24 DEF AppPanic, Acting, Top
  <2>2. Disciplined(stack') /\ NoApp(stack') /\ pc # "outside"
    BY <1>1, <1>2, <1>8, <2>1, PopFrame
  <2> QED BY <2>1, <2>2 DEF Discipline, HandlerReturned
<1>25. CASE AppModal
  <2>1. Follows(stack', stack)
    BY <1>3, <1>5, <1>6, <1>25 DEF AppModal, Ops
  <2> QED BY <1>25, <2>1, FollowsKeeps DEF AppModal
<1>26. CASE AppSend
  <2>1. Follows(stack', stack)
    BY <1>1, <1>2, <1>3, <1>26, WindowProcFollows, PaintProcFollows DEF AppSend
  <2> QED BY <1>26, <2>1, FollowsKeeps DEF AppSend
<1>27. CASE (\E m \in Messages : Post(m)) \/ Invalidate \/ ThreadSetsFlag
           \/ ThreadRedrawWindow
  BY <1>27, StutterKeeps DEF Post, Invalidate, ThreadSetsFlag, ThreadRedrawWindow
<1>28. CASE UNCHANGED vars
  BY <1>28, StutterKeeps DEF vars
<1> QED
  BY <1>9, <1>10, <1>11, <1>12, <1>13, <1>14, <1>15, <1>16, <1>17, <1>18, <1>19,
     <1>20, <1>21, <1>22, <1>23, <1>24, <1>25, <1>26, <1>27, <1>28
     DEF Next, Host, Loop, Application, Environment

----
(* The buffer *)

\* Every call, and every callback that runs, has a drain of the buffer or the
\* interrupt of WM_PAINT under it.
Has(s, o) == \E i \in DOMAIN s : s[i].op = o
Guards == {"drain", "interrupt"}
Guarded(s) ==
  \A i \in DOMAIN s : s[i].op \in {"call", "app"} =>
    \E j \in DOMAIN s : i < j /\ s[j].op \in Guards

\* The invariant behind NothingLeftBehind. About_to_wait has no guard and needs
\* none: the runner is idle by then. Once the loop has woken up the drain that
\* new_events left at the bottom of the stack has emptied the buffer.
Drains ==
  /\ runner_state = "HandlingMainEvents" => Guarded(stack)
  /\ NothingLeftBehind
  /\ pc \in {"wait", "pump_end"} => runner_state = "Idle"
  /\ pc = "outside" => runner_state \in {"Uninitialized", "Idle"}
  /\ pc = "woken" => IF stack = <<>> THEN event_buffer = <<>>
                     ELSE stack[Len(stack)].op = "drain"

\* Pushing a frame on a guarded stack.
LEMMA PushGuarded ==
  ASSUME NEW s \in Seq(Frames), NEW f \in Frames
  PROVE  /\ f.op \notin {"call", "app"} \/ Has(s, "drain") \/ Has(s, "interrupt") =>
              (Guarded(s) => Guarded(Push(f, s)))
         /\ Has(Push(f, s), f.op)
         /\ \A o : Has(s, o) => Has(Push(f, s), o)
         /\ s # <<>> => Push(f, s)[Len(Push(f, s))] = s[Len(s)]
<1> DEFINE t == Push(f, s)
<1>1. /\ DOMAIN t = 1 .. Len(s) + 1 /\ t[1] = f /\ Len(t) = Len(s) + 1
      /\ \A i \in 2 .. Len(s) + 1 : t[i] = s[i - 1]
      /\ Len(s) \in Nat /\ DOMAIN s = 1 .. Len(s)
  BY PushElements DEF Push
<1> HIDE DEF t
<1>2. \A i \in DOMAIN t : i = 1 \/ (i - 1 \in DOMAIN s /\ t[i] = s[i - 1])
  BY <1>1
<1>3. \A i \in DOMAIN s : i + 1 \in DOMAIN t /\ t[i + 1] = s[i] /\ 1 < i + 1
  BY <1>1
<1>4. 1 \in DOMAIN t
  BY <1>1
<1>5. ASSUME f.op \notin {"call", "app"} \/ Has(s, "drain") \/ Has(s, "interrupt"), Guarded(s)
      PROVE  Guarded(t)
  <2> SUFFICES ASSUME NEW i \in DOMAIN t, t[i].op \in {"call", "app"}
               PROVE  \E j \in DOMAIN t : i < j /\ t[j].op \in Guards
    BY DEF Guarded
  <2>1. CASE i = 1
    <3>1. PICK j \in DOMAIN s : s[j].op \in Guards
      BY <1>1, <1>5, <2>1 DEF Has, Guards
    <3> QED BY <1>3, <2>1, <3>1
  <2>2. CASE i - 1 \in DOMAIN s /\ t[i] = s[i - 1]
    <3>1. PICK j \in DOMAIN s : i - 1 < j /\ s[j].op \in Guards
      BY <1>5, <2>2 DEF Guarded
    <3>2. i < j + 1
      BY <1>1, <3>1
    <3> QED BY <1>3, <3>1, <3>2
  <2> QED BY <1>2, <2>1, <2>2
<1>6. Has(t, f.op)
  BY <1>1, <1>4 DEF Has
<1>7. \A o : Has(s, o) => Has(t, o)
  BY <1>3 DEF Has
<1>8. s # <<>> => t[Len(t)] = s[Len(s)]
  BY <1>1, <1>3
<1> QED BY <1>5, <1>6, <1>7, <1>8 DEF t

\* Popping one.
LEMMA PopGuarded ==
  ASSUME NEW s \in Seq(Frames), s # <<>>
  PROVE  /\ Guarded(s) => Guarded(Tail(s))
         /\ Guarded(s) /\ Head(s).op \in {"call", "app"} =>
              Has(Tail(s), "drain") \/ Has(Tail(s), "interrupt")
         /\ \A o : Has(s, o) <=> Head(s).op = o \/ Has(Tail(s), o)
         /\ Tail(s) # <<>> => Tail(s)[Len(Tail(s))] = s[Len(s)]
         /\ Tail(s) = <<>> => Head(s) = s[Len(s)]
<1> DEFINE t == Tail(s)
<1>1. /\ Len(s) \in Nat /\ Len(s) > 0 /\ DOMAIN s = 1 .. Len(s)
      /\ DOMAIN t = 1 .. Len(s) - 1 /\ Head(s) = s[1] /\ Len(t) = Len(s) - 1
      /\ \A i \in 1 .. Len(s) - 1 : t[i] = s[i + 1]
      /\ t = <<>> <=> Len(t) = 0
  <2>1. t \in Seq(Frames)
    BY TailElements
  <2>2. t = <<>> <=> Len(t) = 0
    <3> HIDE DEF t
    <3> QED BY <2>1
  <2> QED BY <2>2, TailElements
<1> HIDE DEF t
<1>2. \A i \in DOMAIN t : i + 1 \in DOMAIN s /\ t[i] = s[i + 1] /\ 1 < i + 1
  BY <1>1
<1>3. \A i \in DOMAIN s : i = 1 \/ (i - 1 \in DOMAIN t /\ t[i - 1] = s[i])
  BY <1>1
<1>4. 1 \in DOMAIN s
  BY <1>1
<1>5. ASSUME Guarded(s) PROVE Guarded(t)
  <2> SUFFICES ASSUME NEW i \in DOMAIN t, t[i].op \in {"call", "app"}
               PROVE  \E j \in DOMAIN t : i < j /\ t[j].op \in Guards
    BY DEF Guarded
  <2>1. PICK j \in DOMAIN s : i + 1 < j /\ s[j].op \in Guards
    BY <1>2, <1>5 DEF Guarded
  <2>2. j # 1 /\ i < j - 1
    BY <1>1, <2>1
  <2> QED BY <1>3, <2>1, <2>2
<1>6. ASSUME Guarded(s), Head(s).op \in {"call", "app"}
      PROVE  Has(t, "drain") \/ Has(t, "interrupt")
  <2>1. PICK j \in DOMAIN s : 1 < j /\ s[j].op \in Guards
    BY <1>1, <1>4, <1>6 DEF Guarded
  <2>2. j - 1 \in DOMAIN t /\ t[j - 1] = s[j]
    BY <1>1, <1>3, <2>1
  <2> QED BY <2>1, <2>2 DEF Has, Guards
<1>7. \A o : Has(s, o) <=> Head(s).op = o \/ Has(t, o)
  BY <1>1, <1>2, <1>3, <1>4 DEF Has
<1>8. t # <<>> => t[Len(t)] = s[Len(s)]
  BY <1>1
<1>9. t = <<>> => Head(s) = s[Len(s)]
  BY <1>1
<1> QED BY <1>5, <1>6, <1>7, <1>8, <1>9 DEF t

\* t is s with frames on it that keep it guarded.
Kept(t, s) ==
  /\ t \in Seq(Frames)
  /\ Guarded(s) => Guarded(t)
  /\ \A o \in Guards : Has(s, o) => Has(t, o)
  /\ s # <<>> => t # <<>> /\ t[Len(t)] = s[Len(s)]

\* A frame put on a guarded stack.
LEMMA KeptPush ==
  ASSUME NEW s, NEW t, Kept(t, s), NEW f \in Frames,
         f.op \notin {"call", "app"} \/ Has(t, "drain") \/ Has(t, "interrupt")
  PROVE  Kept(Push(f, t), s) /\ Has(Push(f, t), f.op)
BY PushElements, PushGuarded DEF Kept

\* send_event puts the drain under the call, or buffers.
LEMMA SendEventKept ==
  ASSUME NEW s, NEW rest, Kept(rest, s), NEW e \in Events, SendEvent(e, rest)
  PROVE  Kept(stack', s) /\ (event_handler => event_buffer' = event_buffer)
<1>1. CASE event_handler
  <2>1. Op("drain") \in Frames /\ Op("drain").op = "drain" /\ Call(e) \in Frames
    BY FrameTypes DEF Ops, Callbacks
  <2>2. Kept(Push(Op("drain"), rest), s) /\ Has(Push(Op("drain"), rest), "drain")
    BY <2>1, KeptPush
  <2>3. Kept(Push(Call(e), Push(Op("drain"), rest)), s)
    BY <2>1, <2>2, KeptPush
  <2> QED BY <1>1, <2>3 DEF SendEvent
<1>2. CASE ~event_handler
  BY <1>2 DEF SendEvent
<1> QED BY <1>1, <1>2

\* The window procedure.
LEMMA WindowProcKept ==
  ASSUME NEW s, NEW rest, Kept(rest, s), NEW m, WindowProc(m, rest)
  PROVE  Kept(stack', s) /\ (event_handler => event_buffer' = event_buffer)
<1> DEFINE After == CASE m = "WakeUp" -> rest
                      [] m = "SizeMove" /\ ~panic_error ->
                           Push(Op("try_drag"), Push(Op("modal"), rest))
                      [] OTHER -> Push(Op("try_drag"), rest)
           event == IF m = "WakeUp" THEN "proxy_wake_up" ELSE "window_event"
<1>1. Op("try_drag") \in Frames /\ Op("try_drag").op \notin {"call", "app"}
      /\ Op("modal") \in Frames /\ Op("modal").op \notin {"call", "app"}
  BY FrameTypes DEF Ops, Entering
<1>2. Kept(Push(Op("try_drag"), rest), s)
      /\ Kept(Push(Op("try_drag"), Push(Op("modal"), rest)), s)
  BY <1>1, KeptPush
<1>3. Kept(After, s)
  BY <1>2
<1>4. event \in Events
  BY DEF Events
<1>5. \/ stack' = After /\ UNCHANGED event_buffer
      \/ SendEvent(event, After)
  BY DEF WindowProc
<1> HIDE DEF After, event
<1> QED BY <1>3, <1>4, <1>5, SendEventKept

\* RedrawRequested bypasses the buffer and is followed by the interrupt.
LEMMA PaintProcKept ==
  ASSUME NEW s, NEW rest, Kept(rest, s), PaintProc(rest)
  PROVE  Kept(stack', s)
<1>1. \A o \in {"try_drag", "rearm", "validate", "interrupt"} :
        Op(o) \in Frames /\ Op(o).op = o
  BY FrameTypes DEF Ops
<1>2. Kept(Push(Op("try_drag"), rest), s)
  BY <1>1, KeptPush
<1>3. Kept(Push(Op("rearm"), Push(Op("try_drag"), rest)), s)
  BY <1>1, <1>2, KeptPush
<1>4. Kept(PaintEnd(rest), s)
  BY <1>1, <1>3, KeptPush DEF PaintEnd
<1>5. /\ Kept(Push(Op("interrupt"), PaintEnd(rest)), s)
      /\ Has(Push(Op("interrupt"), PaintEnd(rest)), "interrupt")
  BY <1>1, <1>4, KeptPush
<1>6. Call("redraw_requested") \in Frames
  BY FrameTypes DEF Callbacks
<1>7. Kept(Push(Call("redraw_requested"), Push(Op("interrupt"), PaintEnd(rest))), s)
  BY <1>5, <1>6, KeptPush
<1> QED BY <1>2, <1>4, <1>7 DEF PaintProc

\* A step that only puts frames on the stack, or on what a call that was no
\* guard has left of it.
LEMMA KeptDrains ==
  ASSUME TypeOK, Drains,
         NEW base, Kept(stack', base),
         \/ base = stack
         \/ stack # <<>> /\ Head(stack).op \notin Guards /\ base = Tail(stack),
         UNCHANGED <<event_handler, interrupt_msg_dispatch, runner_state>>,
         event_handler => event_buffer' = event_buffer,
         pc' = pc \/ (pc = "peek" /\ pc' = "dispatched"),
         pc = "woken" => stack # <<>>
  PROVE  Drains'
<1>1. stack \in Seq(Frames)
  BY DEF TypeOK, DataOK
<1>2. /\ Guarded(stack) => Guarded(base)
      /\ \A o \in Guards : Has(stack, o) => Has(base, o)
  BY <1>1, PopGuarded, ZenonT(40)
<1>3. pc = "woken" => base # <<>> /\ base[Len(base)].op = "drain"
  <2> SUFFICES ASSUME pc = "woken" PROVE base # <<>> /\ base[Len(base)].op = "drain"
    OBVIOUS
  <2>1. stack # <<>> /\ stack[Len(stack)].op = "drain"
    BY DEF Drains
  <2> QED BY <1>1, <2>1, PopGuarded DEF Guards
<1>4. NothingLeftBehind'
  BY <1>2 DEF Drains, NothingLeftBehind, Kept, OnStack, Has, Guards
<1> QED BY <1>2, <1>3, <1>4 DEF Drains, Kept

\* The runner moves to another state with nothing on the stack.
LEMMA MoveDrains ==
  ASSUME Drains, stack = <<>>, NEW to, NEW p, MoveStateTo(to, p),
         p \notin {"wait", "pump_end", "outside", "woken"} \/ (p \in {"wait", "pump_end"} /\ to = "Idle")
           \/ (p = "woken" /\ runner_state = "Idle" /\ to = "HandlingMainEvents"),
         to = "HandlingMainEvents" => runner_state \in {"Uninitialized", "Idle"}
  PROVE  Drains'
<1>1. runner_state' = to /\ pc' = p /\ stack' = Transition(runner_state, to)
  BY DEF MoveStateTo
<1>2. CASE to # "HandlingMainEvents"
  BY <1>1, <1>2 DEF Drains, NothingLeftBehind
<1>3. CASE to = "HandlingMainEvents"
  <2>1. /\ <<>> \in Seq(Frames) /\ Kept(<<>>, <<>>)
    BY DEF Kept
  <2>2. /\ Op("drain") \in Frames /\ Op("drain").op = "drain"
        /\ Call("new_events") \in Frames /\ Call("new_events_init") \in Frames
        /\ Call("can_create_surfaces") \in Frames
    BY FrameTypes DEF Ops, Callbacks
  <2> DEFINE d == Push(Op("drain"), <<>>)
  <2>3. Kept(d, <<>>) /\ Has(d, "drain") /\ Kept(d, d) /\ d # <<>> /\ d[Len(d)].op = "drain"
    <3>1. Kept(d, <<>>) /\ Has(d, "drain")
      BY <2>1, <2>2, KeptPush
    <3>2. DOMAIN d = 1 .. 1 /\ d[1] = Op("drain") /\ d \in Seq(Frames) /\ d # <<>>
      BY <2>1, <2>2 DEF Push
    <3> HIDE DEF d
    <3>3. Len(d) = 1
      BY <3>2
    <3> QED BY <2>2, <3>1, <3>2, <3>3 DEF Kept
  <2> HIDE DEF d
  <2>4. \A f \in Frames : Kept(Push(f, d), d) /\ Has(Push(f, d), "drain")
    BY <2>3, KeptPush, PushGuarded DEF Kept
  <2>5. \A f, g \in Frames : Kept(Push(g, Push(f, d)), d)
    BY <2>4, KeptPush
  <2>6. stack' = Push(Call("new_events_init"), Push(Call("can_create_surfaces"), d))
        \/ stack' = Push(Call("new_events"), d)
    BY <1>1, <1>3 DEF Transition, NewEvents, d
  <2>7. Kept(stack', d)
    BY <2>2, <2>4, <2>5, <2>6
  <2>8. Guarded(d)
    <3>1. Guarded(<<>>)
      BY DEF Guarded
    <3> QED BY <3>1, <2>3 DEF Kept
  <2>9. Guarded(stack') /\ Has(stack', "drain") /\ stack' # <<>> /\ stack'[Len(stack')].op = "drain"
    BY <2>3, <2>7, <2>8 DEF Kept, Guards
  <2> QED BY <1>1, <1>3, <2>9 DEF Drains, NothingLeftBehind, OnStack, Has
<1> QED BY <1>2, <1>3

\* Every step keeps it.
LEMMA NextDrains ==
  ASSUME TypeOK, Discipline, Drains, [Next]_vars
  PROVE  Drains'
<1> USE DEF loop_vars
<1>1. stack \in Seq(Frames) /\ event_buffer \in Seq(Events) /\ pc \in PCs
      /\ event_handler \in BOOLEAN
  BY DEF TypeOK, FlagsOK, DataOK
<1>2. Kept(stack, stack)
  BY <1>1 DEF Kept
<1>3. stack # <<>> => Kept(Tail(stack), Tail(stack))
  BY <1>1, TailElements DEF Kept
<1>4. \A o \in Ops : Op(o) \in Frames /\ Op(o).op = o /\ o \notin {"call", "app"}
  BY FrameTypes DEF Ops
<1>5. CASE RunAppOnDemand
  BY <1>5 DEF RunAppOnDemand, Drains, NothingLeftBehind, At
<1>6. CASE PumpAppEvents
  BY <1>6, MoveDrains DEF PumpAppEvents, At, Drains
<1>7. CASE PumpStart \/ PeekNothing \/ AfterDispatch
  BY <1>7 DEF PumpStart, PeekNothing, AfterDispatch, At, Drains, NothingLeftBehind, OnStack
<1>8. CASE AfterWait
  BY <1>8 DEF AfterWait, At, Drains, NothingLeftBehind
<1>9. CASE PumpContinues
  BY <1>9 DEF PumpContinues, At, Drains, NothingLeftBehind
<1>10. CASE PrepareWait
  BY <1>10, MoveDrains DEF PrepareWait, At
<1>11. CASE WaitReturns
  BY <1>11, MoveDrains DEF WaitReturns, At, Drains
<1>12. CASE TurnEnd
  <2>1. CASE UNCHANGED <<stack, runner_state>> /\ pc' = "loop_top"
    BY <1>12, <2>1 DEF TurnEnd, At, Drains, NothingLeftBehind, OnStack
  <2>2. CASE MoveStateTo("Destroyed", "destroyed") \/ MoveStateTo("Idle", "pump_end")
    BY <1>12, <2>2, MoveDrains DEF TurnEnd, At
  <2> QED BY <1>12, <2>1, <2>2 DEF TurnEnd
<1>13. CASE ResumeUnwind \/ LoopExits
  BY <1>13 DEF ResumeUnwind, LoopExits, ResetRunner, At, Drains, NothingLeftBehind
<1>14. CASE Dispatch
  <2>1. /\ UNCHANGED <<event_handler, interrupt_msg_dispatch, runner_state>>
        /\ pc' = pc \/ (pc = "peek" /\ pc' = "dispatched")
        /\ pc = "woken" => stack # <<>>
    BY <1>14 DEF Dispatch, DispatchPosted, DispatchPaint, DispatchTargetPaint,
       Retrieve, Retrieving, At, Top
  <2>2. Kept(stack', stack) /\ (event_handler => event_buffer' = event_buffer)
    BY <1>2, <1>14, WindowProcKept, PaintProcKept
       DEF Dispatch, DispatchPosted, DispatchPaint, DispatchTargetPaint
  <2> QED BY <2>1, <2>2, KeptDrains
<1>15. CASE CallEventHandler
  <2> DEFINE f == App(Head(stack).arg)
  <2>1. /\ stack # <<>> /\ Head(stack).op = "call" /\ Head(stack).op \notin Guards
        /\ Head(stack) \in Frames
        /\ UNCHANGED <<interrupt_msg_dispatch, runner_state, event_buffer, pc>>
    BY <1>1, <1>15, TailElements DEF CallEventHandler, Top, Guards
  <2>2. CASE stack' = Tail(stack) /\ UNCHANGED event_handler
    BY <1>3, <2>1, <2>2, KeptDrains
  <2>3. CASE stack' = Push(f, Tail(stack)) /\ ~event_handler'
    <3>1. f \in Frames /\ f.op = "app" /\ Tail(stack) \in Seq(Frames)
      BY <1>1, <2>1, FrameTypes, TailElements
    <3> HIDE DEF f
    <3>2. Guarded(stack) => Guarded(stack')
      BY <1>1, <2>1, <2>3, <3>1, PopGuarded, PushGuarded
    <3>3. pc = "woken" => stack' # <<>> /\ stack'[Len(stack')].op = "drain"
      <4> SUFFICES ASSUME pc = "woken" PROVE stack' # <<>> /\ stack'[Len(stack')].op = "drain"
        OBVIOUS
      <4>1. stack[Len(stack)].op = "drain"
        BY <2>1 DEF Drains
      <4>2. Tail(stack) # <<>> /\ Tail(stack)[Len(Tail(stack))].op = "drain"
        BY <1>1, <2>1, <4>1, PopGuarded
      <4> QED BY <2>3, <3>1, <4>2, PushGuarded, PushElements
    <3>4. NothingLeftBehind'
      BY <2>3 DEF NothingLeftBehind
    <3> QED BY <2>1, <2>3, <3>2, <3>3, <3>4 DEF Drains
  <2> QED BY <1>15, <2>2, <2>3 DEF CallEventHandler
<1>16. CASE DispatchBufferedEvents
  <2>1. /\ stack # <<>> /\ Head(stack).op = "drain"
        /\ UNCHANGED <<event_handler, interrupt_msg_dispatch, runner_state, pc>>
    BY <1>16 DEF DispatchBufferedEvents, Top
  <2>2. CASE event_buffer = <<>> /\ stack' = Tail(stack) /\ event_buffer' = event_buffer
    BY <1>1, <2>1, <2>2, PopGuarded DEF Drains, NothingLeftBehind
  <2>3. CASE event_buffer # <<>> /\ stack' = Push(Call(Head(event_buffer)), stack)
    <3> DEFINE f == Call(Head(event_buffer))
    <3>1. f \in Frames
      <4>1. Head(event_buffer) \in Callbacks
        BY <1>1, <2>3 DEF Callbacks
      <4> QED BY <4>1, FrameTypes
    <3>2. Has(stack, "drain")
      BY <1>1, <2>1, PopGuarded
    <3> HIDE DEF f
    <3>3. /\ Guarded(stack) => Guarded(Push(f, stack))
          /\ Has(Push(f, stack), "drain")
          /\ Push(f, stack) # <<>> /\ Push(f, stack)[Len(Push(f, stack))] = stack[Len(stack)]
      BY <1>1, <2>1, <3>1, <3>2, PushGuarded, PushElements
    <3>4. stack' = Push(f, stack)
      BY <2>3 DEF f
    <3> QED BY <2>1, <3>3, <3>4 DEF Drains, NothingLeftBehind, OnStack, Has
  <2> QED BY <1>16, <2>2, <2>3 DEF DispatchBufferedEvents
<1>17. CASE SetInterrupt
  <2>1. /\ stack # <<>> /\ Head(stack).op = "interrupt" /\ stack' = Tail(stack)
        /\ interrupt_msg_dispatch' /\ UNCHANGED <<event_handler, event_buffer, runner_state, pc>>
    BY <1>17 DEF SetInterrupt, Top
  <2>2. NothingLeftBehind'
    BY <2>1 DEF NothingLeftBehind
  <2> QED BY <1>1, <2>1, <2>2, PopGuarded DEF Drains
<1>18. CASE Validate \/ Rearm \/ ClearSourceDrag \/ ModalEnds
  <2>1. /\ stack # <<>> /\ Head(stack).op \notin Guards /\ stack' = Tail(stack)
        /\ UNCHANGED <<event_handler, interrupt_msg_dispatch, event_buffer, runner_state, pc>>
    BY <1>18 DEF Validate, Rearm, ClearSourceDrag, ModalEnds, Top, Guards
  <2> QED BY <1>3, <2>1, KeptDrains
<1>19. CASE TryExecuteDragDrop
  <2>1. /\ stack # <<>> /\ Head(stack).op \notin Guards
        /\ stack' \in {Tail(stack), Push(Op("DoDragDrop"), Tail(stack))}
        /\ UNCHANGED <<event_handler, interrupt_msg_dispatch, event_buffer, runner_state, pc>>
    BY <1>19 DEF TryExecuteDragDrop, Top, Guards
  <2>2. Kept(Push(Op("DoDragDrop"), Tail(stack)), Tail(stack))
    BY <1>3, <1>4, <2>1, KeptPush DEF Ops
  <2> QED BY <1>3, <2>1, <2>2, KeptDrains
<1>20. CASE DoDragDropReturns
  <2> DEFINE rest == Push(Op("end_drag"), Tail(stack))
  <2>1. /\ stack # <<>> /\ Head(stack).op \notin Guards
        /\ SendEvent("window_event", rest) \/ (stack' = rest /\ UNCHANGED event_buffer)
        /\ UNCHANGED <<event_handler, interrupt_msg_dispatch, runner_state, pc>>
    BY <1>20 DEF DoDragDropReturns, Top, Guards
  <2>2. Kept(rest, Tail(stack))
    BY <1>3, <1>4, <2>1, KeptPush DEF Ops
  <2>3. "window_event" \in Events
    BY DEF Events
  <2> HIDE DEF rest
  <2>4. Kept(stack', Tail(stack)) /\ (event_handler => event_buffer' = event_buffer)
    BY <2>1, <2>2, <2>3, SendEventKept
  <2> QED BY <2>1, <2>4, KeptDrains
<1>21. CASE AppExit \/ AppSetControlFlow \/ AppStartDrag \/ AppRequestRedraw
  BY <1>21 DEF AppExit, AppSetControlFlow, AppStartDrag, AppRequestRedraw, Drains, NothingLeftBehind, OnStack
<1>22. CASE AppReturn
  <2>1. /\ stack # <<>> /\ Head(stack).op = "app" /\ stack' = Tail(stack)
        /\ UNCHANGED <<interrupt_msg_dispatch, event_buffer, runner_state, pc>>
    BY <1>22 DEF AppReturn, Top
  <2>2. runner_state = "HandlingMainEvents" => Has(stack', "drain") \/ Has(stack', "interrupt")
    BY <1>1, <2>1, PopGuarded DEF Drains
  <2>3. NothingLeftBehind'
    BY <2>1, <2>2 DEF NothingLeftBehind, OnStack, Has
  <2> QED BY <1>1, <2>1, <2>3, PopGuarded DEF Drains
<1>23. CASE AppPanic
  <2>1. /\ stack # <<>> /\ Head(stack).op = "app" /\ stack' = Tail(stack)
        /\ Head(stack).op \notin Guards
        /\ UNCHANGED <<event_handler, interrupt_msg_dispatch, event_buffer, runner_state, pc>>
    BY <1>23 DEF AppPanic, Acting, Top, Guards
  <2> QED BY <1>3, <2>1, KeptDrains
<1>24. CASE AppModal
  <2>1. Kept(stack', stack) /\ pc' = pc /\ stack # <<>>
    BY <1>2, <1>4, <1>24, KeptPush DEF AppModal, Acting, Top, Ops
  <2> QED BY <1>24, <2>1, KeptDrains DEF AppModal
<1>25. CASE AppSend
  <2>1. Kept(stack', stack) /\ (event_handler => event_buffer' = event_buffer)
    BY <1>2, <1>25, WindowProcKept, PaintProcKept DEF AppSend
  <2> QED BY <1>25, <2>1, KeptDrains DEF AppSend, Acting, Top
<1>26. CASE (\E m \in Messages : Post(m)) \/ Invalidate \/ ThreadSetsFlag
           \/ ThreadRedrawWindow
  BY <1>26 DEF Post, Invalidate, ThreadSetsFlag, ThreadRedrawWindow, Drains, NothingLeftBehind, OnStack
<1>27. CASE UNCHANGED vars
  BY <1>27 DEF vars, Drains, NothingLeftBehind, OnStack
<1> QED
  BY <1>5, <1>6, <1>7, <1>8, <1>9, <1>10, <1>11, <1>12, <1>13, <1>14, <1>15, <1>16, <1>17, <1>18, <1>19,
     <1>20, <1>21, <1>22, <1>23, <1>24, <1>25, <1>26, <1>27
     DEF Next, Host, Loop, Application, Environment

----
(* The order of the callbacks *)

\* The calls that move the application from one phase to another.
InitCall   == Call("new_events_init")
CreateCall == Call("can_create_surfaces")
WakeCall   == Call("new_events")
SleepCall  == Call("about_to_wait")
PhaseCalls == {InitCall, CreateCall, WakeCall, SleepCall}
Starts == {CreateCall, WakeCall}
Hot == {"call", "drain", "modal", "try_drag", "DoDragDrop"}

In(f, s) == \E i \in DOMAIN s : s[i] = f
Below(s, i) == \E j \in DOMAIN s : i <= j /\ s[j].op = "app"

\* What is pending on s may happen, in that order, to an application in phase
\* ph: the calls of a transition are where it put them, whatever calls the
\* application, or may come to call it, finds it awake or woken by then, and
\* about_to_wait is last. On top of a callback that runs nothing calls.
Legal(s, ph) ==
  \A i \in DOMAIN s : ~Below(s, i) =>
    /\ s[i] = InitCall => ph = "Off" /\ i = 1
    /\ s[i] = CreateCall => /\ ph = "Init" \/ (i = 2 /\ s[1] = InitCall)
                            /\ \A j \in DOMAIN s : s[j] = CreateCall => j = i
    /\ s[i] = WakeCall => ph = "Asleep" /\ i = 1
    /\ s[i].op \in Hot /\ s[i] \notin Starts \cup {InitCall} =>
         ph = "Awake" \/ \E j \in DOMAIN s : j < i /\ s[j] \in Starts
    /\ s[i] = SleepCall => i = Len(s)

\* The phase is that of the runner's state, or pending calls lead to it.
Settled ==
  /\ runner_state = "Uninitialized" => phase = "Off" /\ (pc = "outside" \/ stack = <<>>)
  /\ runner_state \in {"Idle", "Destroyed"} =>
       In(SleepCall, stack) \/ (phase = "Asleep" /\ ~In(WakeCall, stack))
  /\ runner_state = "HandlingMainEvents" =>
       ~In(SleepCall, stack) /\ (phase = "Awake" \/ In(CreateCall, stack) \/ In(WakeCall, stack))

\* The invariant behind Lifecycle.
Ordered ==
  /\ panic_error <=> phase = "Dead"
  /\ pc \in {"woken", "peek", "dispatched"} => runner_state = "HandlingMainEvents"
  /\ pc = "destroyed" => runner_state = "Destroyed"
  /\ ~panic_error => (pc # "outside" => Legal(stack, phase)) /\ Settled

\* The four calls of move_state_to.
LEMMA MoveTypes ==
  /\ PhaseCalls \subseteq Frames /\ \A f \in PhaseCalls : f.op = "call"
  /\ InitCall # CreateCall /\ InitCall # WakeCall /\ InitCall # SleepCall
  /\ CreateCall # WakeCall /\ CreateCall # SleepCall /\ WakeCall # SleepCall
BY DEF PhaseCalls, InitCall, CreateCall, WakeCall, SleepCall, Frames, Call, Callbacks

\* A stack on which the application may be called, or is being called.
Open(s, ph) == ph = "Awake" \/ \E j \in DOMAIN s : s[j].op = "app"

\* t is s with frames on it that are legal wherever s was.
Kin == PhaseCalls \cup {App(cb) : cb \in Callbacks}
Grown(t, s, ph) ==
  /\ t \in Seq(Frames)
  /\ Legal(s, ph) /\ Open(s, ph) => Legal(t, ph) /\ Open(t, ph)
  /\ \A f \in Kin : In(f, t) <=> In(f, s)

\* Pushing a frame that is no move keeps a stack legal, where it is open.
LEMMA PushLegal ==
  ASSUME NEW s \in Seq(Frames), NEW f \in Frames, f \notin PhaseCalls, f.op # "app",
         NEW ph, Legal(s, ph), Open(s, ph)
  PROVE  Legal(Push(f, s), ph) /\ Open(Push(f, s), ph)
<1> DEFINE t == Push(f, s)
<1>1. /\ DOMAIN t = 1 .. Len(s) + 1 /\ t[1] = f /\ Len(t) = Len(s) + 1
      /\ \A i \in 2 .. Len(s) + 1 : t[i] = s[i - 1]
      /\ Len(s) \in Nat /\ DOMAIN s = 1 .. Len(s)
  BY PushElements DEF Push
<1> HIDE DEF t
<1>2. \A i \in DOMAIN t : i = 1 \/ (i - 1 \in DOMAIN s /\ t[i] = s[i - 1])
  BY <1>1
<1>3. \A i \in DOMAIN s : i + 1 \in DOMAIN t /\ t[i + 1] = s[i] /\ 1 < i + 1
  BY <1>1
<1>4. Open(t, ph)
  BY <1>3 DEF Open
<1>5. ASSUME NEW i \in DOMAIN t, ~Below(t, i), i # 1
      PROVE  /\ i - 1 \in DOMAIN s /\ t[i] = s[i - 1] /\ ~Below(s, i - 1)
  <2>1. i - 1 \in DOMAIN s /\ t[i] = s[i - 1]
    BY <1>2, <1>5
  <2>2. ASSUME NEW j \in DOMAIN s, i - 1 <= j, s[j].op = "app" PROVE FALSE
    <3>1. i <= j + 1
      BY <1>1, <2>2
    <3> QED BY <1>3, <1>5, <2>2, <3>1 DEF Below
  <2> QED BY <2>1, <2>2 DEF Below
<1>6. \A i \in DOMAIN s : ~Below(s, i) => s[i] # InitCall /\ s[i] # WakeCall
  <2> SUFFICES ASSUME NEW i \in DOMAIN s, ~Below(s, i), s[i] \in {InitCall, WakeCall}
               PROVE  FALSE
    OBVIOUS
  <2>1. i = 1 /\ ph # "Awake"
    BY DEF Legal
  <2> QED BY <1>1, <2>1 DEF Open, Below
<1>7. ASSUME NEW i \in DOMAIN s, ~Below(s, i), s[i] = CreateCall
      PROVE  ph = "Init"
  <2>1. ASSUME i = 2, s[1] = InitCall PROVE FALSE
    <3>1. 1 \in DOMAIN s /\ Below(s, 1)
      BY <1>1, <1>6, <2>1
    <3>2. s[1].op = "app"
      BY <1>1, <1>7, <2>1, <3>1 DEF Below
    <3> QED BY <2>1, <3>2, MoveTypes DEF PhaseCalls
  <2> QED BY <1>7, <2>1 DEF Legal
<1>8. ASSUME NEW i \in DOMAIN t, ~Below(t, i), i # 1
      PROVE  /\ t[i] # InitCall /\ t[i] # WakeCall
             /\ t[i] = CreateCall => /\ ph = "Init"
                                     /\ \A j \in DOMAIN t : t[j] = CreateCall => j = i
             /\ t[i].op \in Hot /\ t[i] \notin Starts \cup {InitCall} =>
                  ph = "Awake" \/ \E j \in DOMAIN t : j < i /\ t[j] \in Starts
             /\ t[i] = SleepCall => i = Len(t)
  <2>1. i - 1 \in DOMAIN s /\ t[i] = s[i - 1] /\ ~Below(s, i - 1)
    BY <1>5, <1>8
  <2>2. t[i] # InitCall /\ t[i] # WakeCall
    BY <1>6, <2>1
  <2>3. ASSUME t[i] = CreateCall
        PROVE  ph = "Init" /\ \A j \in DOMAIN t : t[j] = CreateCall => j = i
    <3>1. \A j \in DOMAIN s : s[j] = CreateCall => j = i - 1
      BY <2>1, <2>3 DEF Legal
    <3>2. \A j \in DOMAIN t : t[j] = CreateCall => j # 1
      BY <1>1 DEF PhaseCalls
    <3> QED BY <1>1, <1>2, <1>7, <2>1, <2>3, <3>1, <3>2
  <2>4. ASSUME t[i].op \in Hot, t[i] \notin Starts \cup {InitCall}, ph # "Awake"
        PROVE  \E j \in DOMAIN t : j < i /\ t[j] \in Starts
    <3>1. PICK j \in DOMAIN s : j < i - 1 /\ s[j] \in Starts
      BY <2>1, <2>4 DEF Legal
    <3>2. j + 1 < i
      BY <1>1, <3>1
    <3> QED BY <1>3, <3>1, <3>2
  <2>5. ASSUME t[i] = SleepCall PROVE i = Len(t)
    <3>1. i - 1 = Len(s)
      BY <2>1, <2>5 DEF Legal
    <3> QED BY <1>1, <3>1
  <2> QED BY <2>2, <2>3, <2>4, <2>5
<1>9. ~Below(t, 1) => ph = "Awake"
  BY <1>1, <1>4 DEF Open, Below
<1>10. Legal(t, ph)
  <2> SUFFICES ASSUME NEW i \in DOMAIN t, ~Below(t, i)
               PROVE  /\ t[i] = InitCall => ph = "Off" /\ i = 1
                      /\ t[i] = CreateCall => /\ ph = "Init" \/ (i = 2 /\ t[1] = InitCall)
                                              /\ \A j \in DOMAIN t : t[j] = CreateCall => j = i
                      /\ t[i] = WakeCall => ph = "Asleep" /\ i = 1
                      /\ t[i].op \in Hot /\ t[i] \notin Starts \cup {InitCall} =>
                           ph = "Awake" \/ \E j \in DOMAIN t : j < i /\ t[j] \in Starts
                      /\ t[i] = SleepCall => i = Len(t)
    BY DEF Legal
  <2>1. CASE i = 1
    BY <1>1, <1>9, <2>1 DEF PhaseCalls
  <2>2. CASE i # 1
    BY <1>8, <2>2
  <2> QED BY <2>1, <2>2
<1> QED BY <1>4, <1>10 DEF t

\* Where the frames of a pushed stack and of a popped one are.
LEMMA PushIn ==
  ASSUME NEW s \in Seq(Frames), NEW f \in Frames
  PROVE  \A g : In(g, Push(f, s)) <=> g = f \/ In(g, s)
<1> DEFINE t == Push(f, s)
<1>1. /\ DOMAIN t = 1 .. Len(s) + 1 /\ t[1] = f
      /\ \A i \in 2 .. Len(s) + 1 : t[i] = s[i - 1]
      /\ Len(s) \in Nat /\ DOMAIN s = 1 .. Len(s)
  BY PushElements DEF Push
<1> HIDE DEF t
<1>2. \A i \in DOMAIN t : i = 1 \/ (i - 1 \in DOMAIN s /\ t[i] = s[i - 1])
  BY <1>1
<1>3. \A i \in DOMAIN s : i + 1 \in DOMAIN t /\ t[i + 1] = s[i]
  BY <1>1
<1>4. 1 \in DOMAIN t
  BY <1>1
<1>5. \A g : In(g, t) <=> g = f \/ In(g, s)
  BY <1>1, <1>2, <1>3, <1>4 DEF In
<1> QED BY <1>5 DEF t

\* Of a popped one.
LEMMA PopIn ==
  ASSUME NEW s \in Seq(Frames), s # <<>>
  PROVE  \A g : In(g, s) <=> g = Head(s) \/ In(g, Tail(s))
<1> DEFINE t == Tail(s)
<1>1. /\ Len(s) \in Nat /\ Len(s) > 0 /\ DOMAIN s = 1 .. Len(s)
      /\ DOMAIN t = 1 .. Len(s) - 1 /\ Head(s) = s[1]
      /\ \A i \in 1 .. Len(s) - 1 : t[i] = s[i + 1]
  BY TailElements
<1> HIDE DEF t
<1>2. \A i \in DOMAIN t : i + 1 \in DOMAIN s /\ t[i] = s[i + 1]
  BY <1>1
<1>3. \A i \in DOMAIN s : i = 1 \/ (i - 1 \in DOMAIN t /\ t[i - 1] = s[i])
  BY <1>1
<1>4. 1 \in DOMAIN s
  BY <1>1
<1>5. \A g : In(g, s) <=> g = Head(s) \/ In(g, t)
  BY <1>1, <1>2, <1>3, <1>4 DEF In
<1> QED BY <1>5 DEF t

\* What remains when a frame other than a move has been popped.
LEMMA PopLegal ==
  ASSUME NEW s \in Seq(Frames), s # <<>>, Head(s) \notin PhaseCalls, NEW ph, Legal(s, ph)
  PROVE  /\ Legal(Tail(s), ph)
         /\ Head(s).op # "app" /\ Open(s, ph) => Open(Tail(s), ph)
         /\ Head(s).op \in Hot => Open(s, ph)
<1> DEFINE t == Tail(s)
<1>1. /\ Len(s) \in Nat /\ Len(s) > 0 /\ DOMAIN s = 1 .. Len(s)
      /\ DOMAIN t = 1 .. Len(s) - 1 /\ Head(s) = s[1] /\ Len(t) = Len(s) - 1
      /\ \A i \in 1 .. Len(s) - 1 : t[i] = s[i + 1]
  BY TailElements
<1> HIDE DEF t
<1>2. \A i \in DOMAIN t : i + 1 \in DOMAIN s /\ t[i] = s[i + 1] /\ 1 < i + 1
  BY <1>1
<1>3. \A i \in DOMAIN s : i = 1 \/ (i - 1 \in DOMAIN t /\ t[i - 1] = s[i])
  BY <1>1
<1>4. 1 \in DOMAIN s /\ s[1] \notin PhaseCalls
  BY <1>1
<1>5. ASSUME NEW i \in DOMAIN t, ~Below(t, i)
      PROVE  ~Below(s, i + 1)
  <2> SUFFICES ASSUME NEW j \in DOMAIN s, i + 1 <= j, s[j].op = "app" PROVE FALSE
    BY DEF Below
  <2>1. j # 1 /\ i <= j - 1
    BY <1>1
  <2> QED BY <1>3, <1>5, <2>1 DEF Below
<1>6. ASSUME NEW i \in DOMAIN t, ~Below(t, i)
      PROVE  /\ t[i] = InitCall => ph = "Off" /\ i = 1
             /\ t[i] = CreateCall => /\ ph = "Init" \/ (i = 2 /\ t[1] = InitCall)
                                     /\ \A j \in DOMAIN t : t[j] = CreateCall => j = i
             /\ t[i] = WakeCall => ph = "Asleep" /\ i = 1
             /\ t[i].op \in Hot /\ t[i] \notin Starts \cup {InitCall} =>
                  ph = "Awake" \/ \E j \in DOMAIN t : j < i /\ t[j] \in Starts
             /\ t[i] = SleepCall => i = Len(t)
  <2>1. i + 1 \in DOMAIN s /\ t[i] = s[i + 1] /\ ~Below(s, i + 1) /\ i + 1 # 1
    BY <1>1, <1>2, <1>5, <1>6
  <2>2. t[i] # InitCall /\ t[i] # WakeCall
    BY <2>1 DEF Legal
  <2>3. ASSUME t[i] = CreateCall
        PROVE  ph = "Init" /\ \A j \in DOMAIN t : t[j] = CreateCall => j = i
    <3>1. ph = "Init" /\ \A j \in DOMAIN s : s[j] = CreateCall => j = i + 1
      BY <1>4, <2>1, <2>3 DEF Legal, PhaseCalls
    <3>2. \A j \in DOMAIN t : t[j] = CreateCall => j + 1 = i + 1
      BY <1>2, <3>1
    <3> QED BY <1>1, <3>1, <3>2
  <2>4. ASSUME t[i].op \in Hot, t[i] \notin Starts \cup {InitCall}, ph # "Awake"
        PROVE  \E j \in DOMAIN t : j < i /\ t[j] \in Starts
    <3>1. PICK j \in DOMAIN s : j < i + 1 /\ s[j] \in Starts
      BY <2>1, <2>4 DEF Legal
    <3>2. j # 1
      BY <1>4, <3>1 DEF Starts, PhaseCalls
    <3>3. j - 1 < i
      BY <1>1, <3>1
    <3> QED BY <1>3, <3>1, <3>2, <3>3
  <2>5. ASSUME t[i] = SleepCall PROVE i = Len(t)
    <3>1. i + 1 = Len(s)
      BY <2>1, <2>5 DEF Legal
    <3> QED BY <1>1, <3>1
  <2> QED BY <2>2, <2>3, <2>4, <2>5
<1>7. Legal(t, ph)
  BY <1>6 DEF Legal
<1>8. ASSUME Head(s).op # "app", Open(s, ph) PROVE Open(t, ph)
  BY <1>1, <1>3, <1>8 DEF Open
<1>9. ASSUME Head(s).op \in Hot, ph # "Awake" PROVE Open(s, ph)
  <2>1. CASE Below(s, 1)
    BY <2>1 DEF Below, Open
  <2>2. CASE ~Below(s, 1)
    <3>1. \E j \in DOMAIN s : j < 1
      BY <1>1, <1>4, <1>9, <2>2 DEF Legal, PhaseCalls, Starts
    <3> QED BY <1>1, <3>1
  <2> QED BY <2>1, <2>2
<1> QED BY <1>7, <1>8, <1>9 DEF t, Open

\* A stack has grown from itself.
LEMMA GrownSelf ==
  ASSUME NEW s \in Seq(Frames), NEW ph
  PROVE  Grown(s, s, ph)
BY DEF Grown

\* A frame that neither moves the runner nor is a callback.
LEMMA GrownPush ==
  ASSUME NEW s, NEW t, NEW ph, Grown(t, s, ph),
         NEW f \in Frames, f \notin PhaseCalls, f.op # "app"
  PROVE  Grown(Push(f, t), s, ph)
<1>1. t \in Seq(Frames) /\ Push(f, t) \in Seq(Frames)
  BY PushElements DEF Grown
<1>2. f \notin Kin
  BY FrameTypes DEF Kin
<1>3. \A g \in Kin : In(g, Push(f, t)) <=> In(g, t)
  BY <1>1, <1>2, PushIn
<1>4. Legal(t, ph) /\ Open(t, ph) => Legal(Push(f, t), ph) /\ Open(Push(f, t), ph)
  BY <1>1, PushLegal
<1> QED BY <1>1, <1>3, <1>4 DEF Grown

\* The frames the window procedures put on the stack.
LEMMA PushedTypes ==
  /\ \A o \in Ops : Op(o) \in Frames /\ Op(o) \notin PhaseCalls /\ Op(o).op # "app"
  /\ \A e \in Events \cup {"redraw_requested"} :
       Call(e) \in Frames /\ Call(e) \notin PhaseCalls /\ Call(e).op # "app"
<1>1. \A o \in Ops : Op(o) \in Frames /\ Op(o) \notin PhaseCalls /\ Op(o).op # "app"
  BY FrameTypes, MoveTypes DEF Ops
<1>2. \A e \in Events \cup {"redraw_requested"} :
        Call(e) \in Frames /\ Call(e) \notin PhaseCalls /\ Call(e).op # "app"
  BY FrameTypes DEF PhaseCalls, InitCall, CreateCall, WakeCall, SleepCall, Call, Events, Callbacks
<1> QED BY <1>1, <1>2

\* send_event.
LEMMA SendEventGrown ==
  ASSUME NEW s, NEW rest, NEW ph, Grown(rest, s, ph), NEW e \in Events, SendEvent(e, rest)
  PROVE  Grown(stack', s, ph)
<1>1. Grown(Push(Op("drain"), rest), s, ph)
  BY PushedTypes, GrownPush DEF Ops
<1>2. Grown(Push(Call(e), Push(Op("drain"), rest)), s, ph)
  BY <1>1, PushedTypes, GrownPush
<1> QED BY <1>2 DEF SendEvent

\* The window procedure.
LEMMA WindowProcGrown ==
  ASSUME NEW s, NEW rest, NEW ph, Grown(rest, s, ph), NEW m, WindowProc(m, rest)
  PROVE  Grown(stack', s, ph)
<1> DEFINE After == CASE m = "WakeUp" -> rest
                      [] m = "SizeMove" /\ ~panic_error ->
                           Push(Op("try_drag"), Push(Op("modal"), rest))
                      [] OTHER -> Push(Op("try_drag"), rest)
           event == IF m = "WakeUp" THEN "proxy_wake_up" ELSE "window_event"
<1>1. Grown(Push(Op("try_drag"), rest), s, ph) /\ Grown(Push(Op("modal"), rest), s, ph)
  BY PushedTypes, GrownPush DEF Ops
<1>2. Grown(Push(Op("try_drag"), Push(Op("modal"), rest)), s, ph)
  BY <1>1, PushedTypes, GrownPush DEF Ops
<1>3. Grown(After, s, ph)
  BY <1>1, <1>2
<1>4. event \in Events
  BY DEF Events
<1>5. stack' = After \/ SendEvent(event, After)
  BY DEF WindowProc
<1> HIDE DEF After, event
<1> QED BY <1>3, <1>4, <1>5, SendEventGrown

\* WM_PAINT.
LEMMA PaintProcGrown ==
  ASSUME NEW s, NEW rest, NEW ph, Grown(rest, s, ph), PaintProc(rest)
  PROVE  Grown(stack', s, ph)
<1>1. Grown(Push(Op("try_drag"), rest), s, ph)
  BY PushedTypes, GrownPush DEF Ops
<1>2. Grown(Push(Op("rearm"), Push(Op("try_drag"), rest)), s, ph)
  BY <1>1, PushedTypes, GrownPush DEF Ops
<1>3. Grown(PaintEnd(rest), s, ph)
  BY <1>2, PushedTypes, GrownPush DEF PaintEnd, Ops
<1>4. Grown(Push(Op("interrupt"), PaintEnd(rest)), s, ph)
  BY <1>3, PushedTypes, GrownPush DEF Ops
<1>5. Grown(Push(Call("redraw_requested"), Push(Op("interrupt"), PaintEnd(rest))), s, ph)
  BY <1>4, PushedTypes, GrownPush
<1> QED BY <1>1, <1>3, <1>5 DEF PaintProc

\* A call that is made finds the application where it expects it, and leaves the
\* rest of the stack legal for the phase it begins.
From(cb) == CASE cb = "new_events_init" -> "Off"
              [] cb = "can_create_surfaces" -> "Init"
              [] cb = "new_events" -> "Asleep"
              [] OTHER -> "Awake"

\* The call on top of a legal stack becomes the callback that runs.
LEMMA InvokeLegal ==
  ASSUME NEW s \in Seq(Frames), s # <<>>, NEW cb \in Callbacks, Head(s) = Call(cb), NoApp(s),
         Legal(s, phase)
  PROVE  /\ phase = From(cb)
         /\ Legal(Push(App(cb), Tail(s)), PhaseAfter(cb))
         /\ \A f : In(f, Push(App(cb), Tail(s))) /\ f # App(cb) => In(f, s)
         /\ \A f : In(f, s) /\ f # Call(cb) => In(f, Push(App(cb), Tail(s)))
<1> DEFINE t == Push(App(cb), Tail(s))
<1>1. /\ Len(s) \in Nat /\ Len(s) > 0 /\ DOMAIN s = 1 .. Len(s) /\ Head(s) = s[1]
      /\ Tail(s) \in Seq(Frames) /\ Len(Tail(s)) = Len(s) - 1
      /\ \A i \in 1 .. Len(s) - 1 : Tail(s)[i] = s[i + 1]
  BY TailElements
<1>2. /\ DOMAIN t = DOMAIN s /\ t[1] = App(cb) /\ Len(t) = Len(s)
      /\ \A i \in DOMAIN s : i # 1 => t[i] = s[i]
  BY <1>1, PushElements, FrameTypes DEF Push
<1>3. /\ Call(cb).op = "call" /\ App(cb).op = "app" /\ Call(cb) \in Frames /\ App(cb) \in Frames
      /\ App(cb) \notin PhaseCalls
  BY FrameTypes, MoveTypes
<1>4. \A d \in Callbacks : Call(cb) = Call(d) <=> cb = d
  BY DEF Call
<1>5. {"new_events_init", "can_create_surfaces", "new_events", "about_to_wait"} \subseteq Callbacks
  BY DEF Callbacks
<1> HIDE DEF t
<1>6. \A i \in DOMAIN s : ~Below(s, i)
  BY DEF NoApp, Below
<1>7. 1 \in DOMAIN s /\ s[1] = Call(cb) /\ \A j \in DOMAIN s : 1 <= j
  BY <1>1
<1>8. phase = From(cb)
  <2>1. CASE cb = "new_events_init"
    BY <1>6, <1>7, <2>1 DEF Legal, InitCall, From
  <2>2. CASE cb = "can_create_surfaces"
    BY <1>6, <1>7, <2>2 DEF Legal, CreateCall, From
  <2>3. CASE cb = "new_events"
    BY <1>6, <1>7, <2>3 DEF Legal, WakeCall, From
  <2>4. CASE cb \notin {"new_events_init", "can_create_surfaces", "new_events"}
    <3>1. s[1] \notin Starts \cup {InitCall} /\ s[1].op \in Hot
      BY <1>3, <1>4, <1>5, <1>7, <2>4 DEF Starts, InitCall, CreateCall, WakeCall, Hot
    <3>2. phase = "Awake" \/ \E j \in DOMAIN s : j < 1
      BY <1>6, <1>7, <3>1 DEF Legal
    <3> QED BY <1>1, <2>4, <3>2 DEF From
  <2> QED BY <2>1, <2>2, <2>3, <2>4
<1>9. /\ \A f : In(f, t) /\ f # App(cb) => In(f, s)
      /\ \A f : In(f, s) /\ f # Call(cb) => In(f, t)
  BY <1>2, <1>7 DEF In
<1>10. \A i \in DOMAIN t : ~Below(t, i) => i # 1 /\ i \in DOMAIN s /\ t[i] = s[i]
  BY <1>2, <1>3, <1>7 DEF Below
<1>11. ASSUME NEW i \in DOMAIN t, ~Below(t, i)
       PROVE  /\ t[i] = InitCall => PhaseAfter(cb) = "Off" /\ i = 1
              /\ t[i] = CreateCall => /\ PhaseAfter(cb) = "Init" \/ (i = 2 /\ t[1] = InitCall)
                                      /\ \A j \in DOMAIN t : t[j] = CreateCall => j = i
              /\ t[i] = WakeCall => PhaseAfter(cb) = "Asleep" /\ i = 1
              /\ t[i].op \in Hot /\ t[i] \notin Starts \cup {InitCall} =>
                   PhaseAfter(cb) = "Awake" \/ \E j \in DOMAIN t : j < i /\ t[j] \in Starts
              /\ t[i] = SleepCall => i = Len(t)
  <2>1. i # 1 /\ i \in DOMAIN s /\ t[i] = s[i] /\ ~Below(s, i)
    BY <1>6, <1>10, <1>11
  <2>2. t[i] # InitCall /\ t[i] # WakeCall
    BY <2>1 DEF Legal
  <2>3. ASSUME t[i] = CreateCall
        PROVE  PhaseAfter(cb) = "Init" /\ \A j \in DOMAIN t : t[j] = CreateCall => j = i
    <3>1. /\ phase = "Init" \/ s[1] = InitCall
          /\ \A j \in DOMAIN s : s[j] = CreateCall => j = i
      BY <2>1, <2>3 DEF Legal
    <3>2. cb # "can_create_surfaces"
      BY <1>7, <2>1, <3>1 DEF CreateCall
    <3>3. cb = "new_events_init"
      BY <1>4, <1>5, <1>7, <1>8, <3>1, <3>2 DEF From, InitCall
    <3>4. t[1] # CreateCall
      BY <1>2, <1>3 DEF PhaseCalls
    <3> QED BY <1>2, <3>1, <3>3, <3>4 DEF PhaseAfter
  <2>4. ASSUME t[i].op \in Hot, t[i] \notin Starts \cup {InitCall}, PhaseAfter(cb) # "Awake"
        PROVE  \E j \in DOMAIN t : j < i /\ t[j] \in Starts
    <3>1. cb = "new_events_init" \/ cb = "about_to_wait"
      BY <1>8, <2>4 DEF PhaseAfter, From
    <3>2. cb # "about_to_wait"
      <4>1. cb = "about_to_wait" => Len(s) = 1
        BY <1>6, <1>7 DEF Legal, SleepCall
      <4> QED BY <1>1, <2>1, <4>1
    <3>3. phase = "Off" /\ s[1] = InitCall
      BY <1>7, <1>8, <3>1, <3>2 DEF From, InitCall
    <3>4. PICK j \in DOMAIN s : j < i /\ s[j] \in Starts
      BY <2>1, <2>4, <3>3 DEF Legal
    <3>5. j # 1
      BY <3>3, <3>4, MoveTypes DEF Starts
    <3> QED BY <1>2, <3>4, <3>5
  <2>5. t[i] = SleepCall => i = Len(t)
    BY <1>2, <2>1 DEF Legal
  <2> QED BY <2>2, <2>3, <2>4, <2>5
<1>12. Legal(t, PhaseAfter(cb))
  BY <1>11 DEF Legal
<1> QED BY <1>8, <1>9, <1>12 DEF t

\* What a push on a short stack gives.
LEMMA PushShort ==
  ASSUME NEW s \in Seq(Frames), NEW f \in Frames
  PROVE  /\ Push(f, s) \in Seq(Frames)
         /\ Len(s) = 2 => /\ Len(Push(f, s)) = 3 /\ Push(f, s)[1] = f
                          /\ Push(f, s)[2] = s[1] /\ Push(f, s)[3] = s[2]
         /\ Len(s) = 3 => /\ Len(Push(f, s)) = 4 /\ Push(f, s)[1] = f
                          /\ Push(f, s)[2] = s[1] /\ Push(f, s)[3] = s[2]
                          /\ Push(f, s)[4] = s[3]
<1> DEFINE t == Push(f, s)
<1>1. t \in Seq(Frames) /\ Len(t) = Len(s) + 1
  BY DEF Push
<1>2. t[1] = f /\ \A i \in 2 .. Len(s) + 1 : t[i] = s[i - 1]
  BY PushElements
<1> HIDE DEF t
<1>3. Len(s) = 2 => Len(t) = 3 /\ t[1] = f /\ t[2] = s[1] /\ t[3] = s[2]
  BY <1>1, <1>2
<1>4. Len(s) = 3 => Len(t) = 4 /\ t[1] = f /\ t[2] = s[1] /\ t[3] = s[2] /\ t[4] = s[3]
  BY <1>1, <1>2
<1> QED BY <1>1, <1>3, <1>4, Zenon DEF t

\* The four transitions that call the application.
LEMMA TransitionShapes ==
  LET D == Op("drain")
      a == AboutToWait
      b == NewEvents(TRUE, <<>>)
      c == NewEvents(TRUE, AboutToWait)
      d == NewEvents(FALSE, <<>>)
  IN  /\ DOMAIN a = {1} /\ a[1] = SleepCall /\ Len(a) = 1
      /\ DOMAIN b = {1, 2, 3} /\ b[1] = InitCall /\ b[2] = CreateCall /\ b[3] = D /\ Len(b) = 3
      /\ DOMAIN c = {1, 2, 3, 4} /\ c[1] = InitCall /\ c[2] = CreateCall /\ c[3] = D
      /\ c[4] = SleepCall /\ Len(c) = 4
      /\ DOMAIN d = {1, 2} /\ d[1] = WakeCall /\ d[2] = D /\ Len(d) = 2
<1> DEFINE D == Op("drain")
           a == Push(SleepCall, <<>>)
           b1 == Push(D, <<>>)
           b2 == Push(CreateCall, b1)
           b == Push(InitCall, b2)
           c1 == Push(D, a)
           c2 == Push(CreateCall, c1)
           c == Push(InitCall, c2)
           d == Push(WakeCall, b1)
<1>1. /\ D \in Frames /\ InitCall \in Frames /\ CreateCall \in Frames
      /\ WakeCall \in Frames /\ SleepCall \in Frames
  BY FrameTypes, MoveTypes DEF Ops, PhaseCalls
<1>3. <<>> \in Seq(Frames) /\ Len(<<>>) = 0
  OBVIOUS
<1> HIDE DEF D, a, b1, b2, b, c1, c2, c, d
<1>4. a \in Seq(Frames) /\ Len(a) = 1 /\ DOMAIN a = 1 .. 1 /\ a[1] = SleepCall
  BY <1>1, <1>3 DEF a, Push
<1>5. b1 \in Seq(Frames) /\ Len(b1) = 1 /\ b1[1] = D
  BY <1>1, <1>3 DEF b1, Push
<1>6. b2 \in Seq(Frames) /\ Len(b2) = 2 /\ b2[1] = CreateCall /\ b2[2] = D
  BY <1>1, <1>5 DEF b2, Push
<1>7. b \in Seq(Frames) /\ Len(b) = 3 /\ b[1] = InitCall /\ b[2] = CreateCall /\ b[3] = D
  BY <1>1, <1>6, PushShort DEF b
<1>8. c1 \in Seq(Frames) /\ Len(c1) = 2 /\ c1[1] = D /\ c1[2] = SleepCall
  BY <1>1, <1>4 DEF c1, Push
<1>9. /\ c2 \in Seq(Frames) /\ Len(c2) = 3 /\ c2[1] = CreateCall /\ c2[2] = D
      /\ c2[3] = SleepCall
  BY <1>1, <1>8, PushShort DEF c2
<1>10. /\ c \in Seq(Frames) /\ Len(c) = 4 /\ c[1] = InitCall /\ c[2] = CreateCall
       /\ c[3] = D /\ c[4] = SleepCall
  BY <1>1, <1>9, PushShort DEF c
<1>11. d \in Seq(Frames) /\ Len(d) = 2 /\ d[1] = WakeCall /\ d[2] = D
  BY <1>1, <1>5 DEF d, Push
<1>12. /\ AboutToWait = a /\ NewEvents(TRUE, <<>>) = b
       /\ NewEvents(TRUE, AboutToWait) = c /\ NewEvents(FALSE, <<>>) = d
  BY DEF AboutToWait, NewEvents, InitCall, CreateCall, WakeCall, SleepCall, D, a, b1, b2, b, c1, c2, c, d
<1>13. 1 .. 1 = {1} /\ 1 .. 2 = {1, 2} /\ 1 .. 3 = {1, 2, 3} /\ 1 .. 4 = {1, 2, 3, 4}
  OBVIOUS
<1>14. DOMAIN b = 1 .. 3 /\ DOMAIN c = 1 .. 4 /\ DOMAIN d = 1 .. 2
  BY <1>7, <1>10, <1>11
<1> QED BY <1>4, <1>7, <1>10, <1>11, <1>12, <1>13, <1>14 DEF D

PhaseIn(state) == CASE state = "Uninitialized" -> "Off"
                    [] state = "HandlingMainEvents" -> "Awake"
                    [] OTHER -> "Asleep"

\* move_state_to pushes what is legal where the runner was, and leads to where
\* it goes.
LEMMA TransitionLegal ==
  ASSUME NEW from \in RunnerStates, NEW to \in RunnerStates \ {"Uninitialized"}
  PROVE  LET t == Transition(from, to)
             ph == PhaseIn(from)
         IN  /\ Legal(t, ph)
             /\ to \in {"Idle", "Destroyed"} =>
                  In(SleepCall, t) \/ (ph = "Asleep" /\ ~In(WakeCall, t))
             /\ to = "HandlingMainEvents" /\ from # "Destroyed" =>
                  ~In(SleepCall, t) /\ (ph = "Awake" \/ In(CreateCall, t) \/ In(WakeCall, t))
<1> DEFINE D == Op("drain")
           a == AboutToWait
           b == NewEvents(TRUE, <<>>)
           c == NewEvents(TRUE, AboutToWait)
           d == NewEvents(FALSE, <<>>)
<1>1. D \in Frames /\ D \notin PhaseCalls /\ D.op = "drain"
  BY PushedTypes, FrameTypes DEF Ops
<1>2. \A f : ~In(f, <<>>)
  BY DEF In
<1>2a. Legal(<<>>, PhaseIn(from))
  BY DEF Legal
<1> USE TransitionShapes
<1> HIDE DEF a, b, c, d, D
<1>3. Legal(a, "Awake") /\ \A f : In(f, a) <=> f = SleepCall
  BY MoveTypes DEF Legal, In, PhaseCalls, Starts, a
<1>4. Legal(b, "Off") /\ \A f : In(f, b) <=> f \in {InitCall, CreateCall, D}
  <2>1. DOMAIN b = {1, 2, 3} /\ b[1] = InitCall /\ b[2] = CreateCall /\ b[3] = D /\ Len(b) = 3
    BY DEF b, D
  <2> QED BY <1>1, <2>1, MoveTypes DEF Legal, In, PhaseCalls, Starts
<1>5. Legal(c, "Off") /\ \A f : In(f, c) <=> f \in {InitCall, CreateCall, D, SleepCall}
  <2>1. /\ DOMAIN c = {1, 2, 3, 4} /\ c[1] = InitCall /\ c[2] = CreateCall /\ c[3] = D
        /\ c[4] = SleepCall /\ Len(c) = 4
    BY DEF c, D
  <2> QED BY <1>1, <2>1, MoveTypes DEF Legal, In, PhaseCalls, Starts
<1>6. Legal(d, "Asleep") /\ \A f : In(f, d) <=> f \in {WakeCall, D}
  <2>1. DOMAIN d = {1, 2} /\ d[1] = WakeCall /\ d[2] = D /\ Len(d) = 2
    BY DEF d, D
  <2> QED BY <1>1, <2>1, MoveTypes DEF Legal, In, PhaseCalls, Starts
<1>8. D # SleepCall /\ D # WakeCall /\ D # CreateCall
  BY <1>1 DEF PhaseCalls
<1>10. CASE from = to \/ from = "Destroyed" \/ (from = "Idle" /\ to = "Destroyed")
  <2>1. Transition(from, to) = <<>>
    BY <1>10 DEF Transition
  <2> QED BY <1>10, <2>1, <1>2, <1>2a DEF PhaseIn, RunnerStates
<1>11. CASE from = "HandlingMainEvents" /\ to \in {"Idle", "Destroyed"}
  <2>1. Transition(from, to) = a
    BY <1>11 DEF Transition, a
  <2> QED BY <1>11, <2>1, <1>3, MoveTypes DEF PhaseIn
<1>12. CASE from = "Uninitialized" /\ to = "HandlingMainEvents"
  <2>1. Transition(from, to) = b
    BY <1>12 DEF Transition, b
  <2> QED BY <1>12, <2>1, <1>4, <1>8, MoveTypes DEF PhaseIn
<1>13. CASE from = "Uninitialized" /\ to \in {"Idle", "Destroyed"}
  <2>1. Transition(from, to) = c
    BY <1>13 DEF Transition, c
  <2> QED BY <1>13, <2>1, <1>5, <1>8, MoveTypes DEF PhaseIn
<1>14. CASE from = "Idle" /\ to = "HandlingMainEvents"
  <2>1. Transition(from, to) = d
    BY <1>14 DEF Transition, d
  <2> QED BY <1>14, <2>1, <1>6, <1>8, MoveTypes DEF PhaseIn
<1> QED BY <1>10, <1>11, <1>12, <1>13, <1>14 DEF RunnerStates

\* What a step tells the application: nothing, that a callback begins, that one
\* returns or unwinds, or that the run is over.
Told ==
  \/ phase' = phase /\ \A cb \in Callbacks : In(App(cb), stack') <=> In(App(cb), stack)
  \/ \E cb \in Callbacks : /\ NoApp(stack) /\ phase = From(cb)
                           /\ In(App(cb), stack') /\ phase' = PhaseAfter(cb)
  \/ ~NoApp(stack) /\ NoApp(stack') /\ phase' \in {phase, "Dead"}
  \/ NoApp(stack) /\ NoApp(stack') /\ phase \in {"Asleep", "Dead"} /\ phase' = "Off"

\* A pending call is Call of a callback.
LEMMA CallFrame ==
  ASSUME NEW f \in Frames, f.op = "call"
  PROVE  f.arg \in Callbacks /\ f = Call(f.arg)
<1>1. ASSUME NEW cb \in Callbacks, f = App(cb) PROVE FALSE
  BY <1>1 DEF App
<1>2. ASSUME NEW o \in Ops, f = Op(o) PROVE FALSE
  BY <1>2 DEF Op, Ops
<1>3. PICK cb \in Callbacks : f = Call(cb)
  BY <1>1, <1>2 DEF Frames
<1> QED BY <1>3 DEF Call

\* A running callback is App of one.
LEMMA AppFrameIs ==
  ASSUME NEW f \in Frames, f.op = "app"
  PROVE  f.arg \in Callbacks /\ f = App(f.arg)
<1>1. ASSUME NEW cb \in Callbacks, f = Call(cb) PROVE FALSE
  BY <1>1 DEF Call
<1>2. ASSUME NEW o \in Ops, f = Op(o) PROVE FALSE
  BY <1>2 DEF Op, Ops
<1>3. PICK cb \in Callbacks : f = App(cb)
  BY <1>1, <1>2 DEF Frames
<1> QED BY <1>3 DEF App

\* The handler is there for a call that comes next, unless the application
\* panicked.
LEMMA Available == TypeOK /\ Discipline => HandlerAvailable
<1> SUFFICES ASSUME TypeOK, Discipline, Top("call"), ~panic_error PROVE event_handler
  BY DEF HandlerAvailable
<1>1. /\ stack \in Seq(Frames) /\ stack # <<>>
      /\ Head(stack).op \in Entering /\ Disciplined(stack)
  BY DEF Top, Entering, TypeOK, DataOK, Discipline
<1>2. NoApp(stack) /\ ~Quiet(stack)
  BY <1>1, PopFrame
<1> QED BY <1>2 DEF Discipline, HandlerReturned

\* The empty stack.
LEMMA NothingIn == \A f : ~In(f, <<>>)
BY DEF In

\* The phase of an idle runner.
LEMMA PhaseNow ==
  ASSUME TypeOK, Ordered, stack = <<>>, ~panic_error
  PROVE  phase = PhaseIn(runner_state)
BY NothingIn DEF Ordered, Settled, PhaseIn, TypeOK, DataOK, RunnerStates

\* move_state_to, with nothing on the stack.
LEMMA MoveOrdered ==
  ASSUME TypeOK, Ordered, stack = <<>>,
         NEW to \in RunnerStates \ {"Uninitialized"}, NEW p \in PCs \ {"outside"},
         MoveStateTo(to, p), UNCHANGED <<panic_error, phase>>,
         to = "HandlingMainEvents" => runner_state # "Destroyed",
         p \in {"woken", "peek", "dispatched"} => to = "HandlingMainEvents",
         p = "destroyed" => to = "Destroyed"
  PROVE  Ordered' /\ Told
<1> DEFINE t == Transition(runner_state, to)
<1>1. runner_state' = to /\ pc' = p /\ stack' = t /\ runner_state \in RunnerStates
  BY DEF MoveStateTo, TypeOK, DataOK
<1>2. /\ Legal(t, PhaseIn(runner_state))
      /\ to \in {"Idle", "Destroyed"} =>
           In(SleepCall, t) \/ (PhaseIn(runner_state) = "Asleep" /\ ~In(WakeCall, t))
      /\ to = "HandlingMainEvents" /\ runner_state # "Destroyed" =>
           /\ ~In(SleepCall, t)
           /\ PhaseIn(runner_state) = "Awake" \/ In(CreateCall, t) \/ In(WakeCall, t)
  BY <1>1, TransitionLegal
<1>3. NoApp(t)
  BY TransitionStack
<1> HIDE DEF t
<1>4. Ordered'
  BY <1>1, <1>2, PhaseNow DEF Ordered, Settled, RunnerStates
<1>5. \A cb \in Callbacks : ~In(App(cb), t)
  BY <1>3, FrameTypes DEF NoApp, In
<1> QED BY <1>1, <1>4, <1>5, NothingIn DEF Told

\* A step that only puts frames on the stack, or on what another frame has left.
LEMMA GrownOrdered ==
  ASSUME TypeOK, Ordered,
         NEW base, Grown(stack', base, phase),
         \/ base = stack
         \/ /\ stack # <<>> /\ Head(stack) \notin PhaseCalls /\ Head(stack).op # "app"
            /\ base = Tail(stack),
         UNCHANGED <<panic_error, phase, runner_state>>,
         pc' = pc \/ (pc = "peek" /\ pc' = "dispatched"),
         stack # <<>> \/ pc \in {"peek", "outside"},
         ~panic_error /\ pc # "outside" => Open(stack, phase)
  PROVE  Ordered' /\ Told
<1>1. stack \in Seq(Frames)
  BY DEF TypeOK, DataOK
<1>2. \A f \in Kin : In(f, base) <=> In(f, stack)
  <2>1. CASE base = stack
    BY <2>1
  <2>2. CASE /\ stack # <<>> /\ Head(stack) \notin PhaseCalls /\ Head(stack).op # "app"
             /\ base = Tail(stack)
    <3>1. Head(stack) \notin Kin
      BY <2>2, FrameTypes DEF Kin
    <3> QED BY <1>1, <2>2, <3>1, PopIn
  <2> QED BY <2>1, <2>2
<1>3. \A f \in Kin : In(f, stack') <=> In(f, stack)
  BY <1>2 DEF Grown
<1>4. ~panic_error /\ pc # "outside" => Legal(stack', phase)
  <2> SUFFICES ASSUME ~panic_error, pc # "outside" PROVE Legal(stack', phase)
    OBVIOUS
  <2>1. Legal(stack, phase)
    BY DEF Ordered
  <2>2. Legal(base, phase) /\ Open(base, phase)
    BY <1>1, <2>1, PopLegal
  <2> QED BY <2>2 DEF Grown
<1>5. PhaseCalls \subseteq Kin /\ \A cb \in Callbacks : App(cb) \in Kin
  BY DEF Kin
<1>6. ~panic_error => Settled'
  BY <1>3, <1>5 DEF Ordered, Settled, PhaseCalls
<1>7. Ordered'
  BY <1>4, <1>6 DEF Ordered
<1> QED BY <1>3, <1>5, <1>7 DEF Told

\* A frame other than a move is popped.
LEMMA PopOrdered ==
  ASSUME TypeOK, Ordered, stack # <<>>, Head(stack) \notin PhaseCalls, stack' = Tail(stack),
         UNCHANGED <<panic_error, phase, runner_state, pc>>
  PROVE  /\ Ordered'
         /\ Head(stack).op # "app" => Told
<1>1. stack \in Seq(Frames)
  BY DEF TypeOK, DataOK
<1>2. \A f \in PhaseCalls : In(f, stack') <=> In(f, stack)
  BY <1>1, PopIn
<1>3. ~panic_error /\ pc # "outside" => Legal(stack', phase)
  BY <1>1, PopLegal DEF Ordered
<1>4. ~panic_error => Settled'
  BY <1>2 DEF Ordered, Settled, PhaseCalls
<1>5. Ordered'
  BY <1>3, <1>4 DEF Ordered
<1>6. ASSUME Head(stack).op # "app" PROVE Told
  <2>1. \A cb \in Callbacks : In(App(cb), stack') <=> In(App(cb), stack)
    BY <1>1, <1>6, PopIn, FrameTypes
  <2> QED BY <2>1 DEF Told
<1> QED BY <1>5, <1>6

\* Nothing the order speaks of changes.
LEMMA StillOrdered ==
  ASSUME Ordered, UNCHANGED <<panic_error, phase, runner_state, stack>>,
         pc' = "outside" <=> pc = "outside",
         pc' \in {"woken", "peek", "dispatched"} => runner_state = "HandlingMainEvents",
         pc' = "destroyed" => runner_state = "Destroyed"
  PROVE  Ordered' /\ Told
BY DEF Ordered, Settled, Told

\* reset_runner, after the run or its panic.
LEMMA ResetOrdered ==
  ASSUME TypeOK, Ordered, At("destroyed") \/ panic_error, stack = <<>>, ResetRunner
  PROVE  Ordered' /\ Told
<1>1. /\ runner_state' = "Uninitialized" /\ phase' = "Off" /\ pc' = "outside"
      /\ ~panic_error' /\ stack' = <<>>
  BY DEF ResetRunner
<1>2. phase \in {"Asleep", "Dead"}
  BY PhaseNow DEF Ordered, PhaseIn, At
<1>3. NoApp(<<>>)
  BY DEF NoApp
<1>4. Ordered'
  BY <1>1 DEF Ordered, Settled
<1> QED BY <1>1, <1>2, <1>3, <1>4 DEF Told

\* call_event_handler.
LEMMA CallOrdered ==
  ASSUME TypeOK, Discipline, Ordered, CallEventHandler
  PROVE  Ordered' /\ Told
<1>1. stack \in Seq(Frames)
  BY DEF TypeOK, DataOK
<1> DEFINE cb == Head(stack).arg
<1>2. /\ stack # <<>> /\ Head(stack).op = "call" /\ Head(stack) \in Frames
      /\ UNCHANGED <<runner_state, pc>>
  BY <1>1, TailElements DEF CallEventHandler, Top
<1>3. cb \in Callbacks /\ Head(stack) = Call(cb)
  BY <1>2, CallFrame
<1>4. Disciplined(stack) /\ NoApp(stack) /\ NoApp(Tail(stack)) /\ ~Quiet(stack)
  BY <1>1, <1>2, PopFrame DEF Discipline, Entering
<1>5. pc # "outside"
  BY <1>4 DEF Discipline
<1> HIDE DEF cb
<1>6. CASE panic_error
  <2>1. stack' = Tail(stack) /\ UNCHANGED <<panic_error, phase>>
    BY <1>6 DEF CallEventHandler
  <2>2. Ordered'
    BY <1>2, <1>6, <2>1 DEF Ordered
  <2>3. \A c \in Callbacks : ~In(App(c), stack) /\ ~In(App(c), stack')
    BY <1>4, <2>1, FrameTypes DEF NoApp, In
  <2> QED BY <2>1, <2>2, <2>3 DEF Told
<1>7. CASE ~panic_error
  <2>1. event_handler
    BY <1>7, Available DEF CallEventHandler, HandlerAvailable
  <2>2. /\ stack' = Push(App(cb), Tail(stack)) /\ phase' = PhaseAfter(cb)
        /\ panic_error' = panic_error
    BY <1>7, <2>1 DEF CallEventHandler, cb
  <2>3. Legal(stack, phase) /\ Settled /\ phase # "Dead"
    BY <1>5, <1>7 DEF Ordered
  <2>4. /\ phase = From(cb) /\ Legal(stack', phase')
        /\ \A f : In(f, stack') /\ f # App(cb) => In(f, stack)
        /\ \A f : In(f, stack) /\ f # Call(cb) => In(f, stack')
    BY <1>1, <1>2, <1>3, <1>4, <2>2, <2>3, InvokeLegal
  <2>5. phase' # "Dead"
    BY <2>2, <2>3 DEF PhaseAfter
  <2>6. App(cb) \notin PhaseCalls /\ In(Call(cb), stack)
    <3>1. In(Head(stack), stack)
      BY <1>1, <1>2, PopIn
    <3> QED BY <1>3, <3>1, FrameTypes, MoveTypes
  <2>7. runner_state # "Uninitialized"
    BY <1>2, <1>5, <2>3 DEF Settled
  <2>8. /\ cb = "new_events_init" <=> Call(cb) = InitCall
        /\ cb = "can_create_surfaces" <=> Call(cb) = CreateCall
        /\ cb = "new_events" <=> Call(cb) = WakeCall
        /\ cb = "about_to_wait" <=> Call(cb) = SleepCall
    BY DEF Call, InitCall, CreateCall, WakeCall, SleepCall
  <2>9. runner_state \in {"Idle", "Destroyed"} =>
          In(SleepCall, stack') \/ (phase' = "Asleep" /\ ~In(WakeCall, stack'))
    <3> SUFFICES ASSUME runner_state \in {"Idle", "Destroyed"}, ~In(SleepCall, stack')
                 PROVE  phase' = "Asleep" /\ ~In(WakeCall, stack')
      OBVIOUS
    <3>1. CASE cb = "about_to_wait"
      <4>1. phase' = "Asleep"
        BY <2>2, <3>1 DEF PhaseAfter
      <4>2. ~In(WakeCall, stack')
        <5> SUFFICES ASSUME In(WakeCall, stack') PROVE FALSE
          OBVIOUS
        <5>1. PICK i \in DOMAIN stack : stack[i] = WakeCall
          BY <2>4, <2>6 DEF In, PhaseCalls
        <5>2. phase = "Asleep"
          BY <1>4, <2>3, <5>1 DEF Legal, NoApp, Below
        <5> QED BY <2>4, <3>1, <5>2 DEF From
      <4> QED BY <4>1, <4>2
    <3>2. CASE cb # "about_to_wait"
      <4>1. ~In(SleepCall, stack)
        BY <2>4, <2>8, <3>2
      <4>2. phase = "Asleep" /\ ~In(WakeCall, stack)
        BY <2>3, <4>1 DEF Settled
      <4>3. cb = "new_events"
        BY <2>4, <4>2 DEF From
      <4> QED BY <2>6, <2>8, <4>2, <4>3
    <3> QED BY <3>1, <3>2
  <2>10. runner_state = "HandlingMainEvents" =>
           /\ ~In(SleepCall, stack')
           /\ phase' = "Awake" \/ In(CreateCall, stack') \/ In(WakeCall, stack')
    <3> SUFFICES ASSUME runner_state = "HandlingMainEvents"
                 PROVE  /\ ~In(SleepCall, stack')
                        /\ phase' = "Awake" \/ In(CreateCall, stack') \/ In(WakeCall, stack')
      OBVIOUS
    <3>1. ~In(SleepCall, stack) /\ ~In(SleepCall, stack')
      BY <2>3, <2>4, <2>6 DEF Settled, PhaseCalls
    <3>2. cb # "about_to_wait"
      BY <2>6, <2>8, <3>1
    <3>3. CASE cb = "new_events_init"
      <4>1. phase = "Off"
        BY <2>4, <3>3 DEF From
      <4>2. In(CreateCall, stack) \/ In(WakeCall, stack)
        BY <2>3, <4>1 DEF Settled
      <4> QED BY <2>4, <2>8, <3>1, <3>3, <4>2, MoveTypes
    <3>4. CASE cb # "new_events_init"
      BY <2>2, <2>4, <3>1, <3>2, <3>4 DEF From, PhaseAfter
    <3> QED BY <3>3, <3>4
  <2>11. Ordered'
    BY <1>2, <1>7, <2>2, <2>4, <2>5, <2>7, <2>9, <2>10 DEF Ordered, Settled
  <2>12. In(App(cb), stack')
    <3>1. App(cb) \in Frames /\ Tail(stack) \in Seq(Frames)
      BY <1>1, <1>2, <1>3, FrameTypes, TailElements
    <3> QED BY <2>2, <3>1, PushIn
  <2> QED BY <1>3, <1>4, <2>2, <2>4, <2>11, <2>12 DEF Told
<1> QED BY <1>6, <1>7

\* Every step keeps the order, and tells the application what it may be told.
LEMMA NextOrdered ==
  ASSUME TypeOK, Discipline, Drains, Ordered, [Next]_vars
  PROVE  Ordered' /\ Told
<1> USE DEF loop_vars, hist_vars
<1>1. /\ stack \in Seq(Frames) /\ pc \in PCs /\ runner_state \in RunnerStates
      /\ event_buffer \in Seq(Events)
  BY DEF TypeOK, DataOK
<1>2. Grown(stack, stack, phase)
  BY <1>1, GrownSelf
<1>3. stack # <<>> => Tail(stack) \in Seq(Frames) /\ Grown(Tail(stack), Tail(stack), phase)
  BY <1>1, TailElements, GrownSelf
<1>4. \A o \in Ops : Op(o) \in Frames /\ Op(o) \notin PhaseCalls /\ Op(o).op # "app"
  BY PushedTypes
<1>5. stack # <<>> /\ Head(stack).op # "call" => Head(stack) \notin PhaseCalls
  BY MoveTypes
\* On what may call the application the stack is open.
<1>6. ASSUME ~panic_error, pc # "outside", stack # <<>>,
             Head(stack).op \in {"app", "drain", "modal", "try_drag", "DoDragDrop"}
      PROVE  Open(stack, phase)
  <2>1. CASE Head(stack).op = "app"
    <3>1. 1 \in DOMAIN stack /\ stack[1].op = "app"
      BY <1>1, <1>6, <2>1, TailElements
    <3> QED BY <3>1 DEF Open
  <2>2. CASE Head(stack).op # "app"
    <3>1. Legal(stack, phase) /\ Head(stack) \notin PhaseCalls /\ Head(stack).op \in Hot
      BY <1>5, <1>6, <2>2 DEF Ordered, Hot
    <3> QED BY <1>1, <1>6, <3>1, PopLegal
  <2> QED BY <2>1, <2>2
<1>7. CASE RunAppOnDemand
  <2>1. /\ stack = <<>> /\ stack' = <<>> /\ pc' = "loop_top"
        /\ UNCHANGED <<panic_error, phase, runner_state>>
    BY <1>7 DEF RunAppOnDemand, At
  <2>2. Legal(<<>>, phase)
    BY DEF Legal
  <2> QED BY <2>1, <2>2 DEF Ordered, Settled, Told
<1>8. CASE PumpAppEvents
  <2>1. runner_state # "Destroyed"
    BY <1>8 DEF PumpAppEvents, At, Drains
  <2> QED BY <1>8, <2>1, MoveOrdered DEF PumpAppEvents, At, RunnerStates, PCs
<1>9. CASE PumpStart \/ AfterWait \/ PeekNothing \/ AfterDispatch \/ PumpContinues
  <2>1. CASE PumpContinues
    <3>1. stack' = <<>> /\ stack = <<>> /\ pc' = "outside" /\ UNCHANGED <<panic_error, phase, runner_state>>
      BY <2>1 DEF PumpContinues, At
    <3> QED BY <3>1 DEF Ordered, Settled, Told
  <2>2. CASE PumpStart \/ AfterWait \/ PeekNothing \/ AfterDispatch
    <3>1. /\ UNCHANGED <<panic_error, phase, runner_state, stack>>
          /\ pc' # "outside" /\ pc # "outside" /\ pc' # "destroyed"
          /\ pc' \in {"woken", "peek", "dispatched"} => pc \in {"woken", "peek", "dispatched"}
      BY <2>2 DEF PumpStart, AfterWait, PeekNothing, AfterDispatch, At
    <3>2. pc' \in {"woken", "peek", "dispatched"} => runner_state = "HandlingMainEvents"
      BY <3>1 DEF Ordered
    <3> QED BY <3>1, <3>2, StillOrdered
  <2> QED BY <1>9, <2>1, <2>2
<1>10. CASE PrepareWait
  BY <1>10, MoveOrdered DEF PrepareWait, At, RunnerStates, PCs
<1>11. CASE WaitReturns
  <2>1. runner_state # "Destroyed"
    BY <1>11 DEF WaitReturns, At, Drains
  <2> QED BY <1>11, <2>1, MoveOrdered DEF WaitReturns, At, RunnerStates, PCs
<1>12. CASE TurnEnd
  <2>1. CASE UNCHANGED <<stack, runner_state>> /\ pc' = "loop_top"
    BY <1>12, <2>1, StillOrdered DEF TurnEnd, At
  <2>2. CASE MoveStateTo("Destroyed", "destroyed") \/ MoveStateTo("Idle", "pump_end")
    BY <1>12, <2>2, MoveOrdered DEF TurnEnd, At, RunnerStates, PCs
  <2> QED BY <1>12, <2>1, <2>2 DEF TurnEnd
<1>13. CASE ResumeUnwind \/ LoopExits
  BY <1>13, ResetOrdered DEF ResumeUnwind, LoopExits, At
<1>14. CASE Dispatch
  <2>1. /\ UNCHANGED <<panic_error, phase, runner_state>>
        /\ pc' = pc \/ (pc = "peek" /\ pc' = "dispatched")
        /\ stack # <<>> \/ pc \in {"peek", "outside"}
    BY <1>14 DEF Dispatch, DispatchPosted, DispatchPaint, DispatchTargetPaint,
       Retrieve, Retrieving, At, Top
  <2>2. ~panic_error /\ pc # "outside" => Open(stack, phase)
    <3> SUFFICES ASSUME ~panic_error, pc # "outside" PROVE Open(stack, phase)
      OBVIOUS
    <3>1. At("peek") \/ Top("modal") \/ Top("DoDragDrop")
      BY <1>14 DEF Dispatch, DispatchPosted, DispatchPaint, DispatchTargetPaint,
         Retrieve, Retrieving, At
    <3>2. CASE At("peek")
      <4>1. stack = <<>> /\ runner_state = "HandlingMainEvents"
        BY <3>2 DEF At, Ordered
      <4> QED BY <4>1, PhaseNow DEF PhaseIn, Open
    <3>3. CASE Top("modal") \/ Top("DoDragDrop")
      BY <1>6, <3>3 DEF Top
    <3> QED BY <3>1, <3>2, <3>3
  <2>3. Grown(stack', stack, phase)
    BY <1>2, <1>14, WindowProcGrown, PaintProcGrown
       DEF Dispatch, DispatchPosted, DispatchPaint, DispatchTargetPaint
  <2> QED BY <2>1, <2>2, <2>3, GrownOrdered
<1>15. CASE CallEventHandler
  BY <1>15, CallOrdered
<1>16. CASE DispatchBufferedEvents
  <2>1. /\ stack # <<>> /\ Head(stack).op = "drain"
        /\ UNCHANGED <<panic_error, phase, runner_state, pc>>
    BY <1>16 DEF DispatchBufferedEvents, Top
  <2>2. CASE stack' = Tail(stack)
    BY <1>5, <2>1, <2>2, PopOrdered
  <2>3. CASE event_buffer # <<>> /\ stack' = Push(Call(Head(event_buffer)), stack)
    <3>1. Head(event_buffer) \in Events
      BY <1>1, <2>3
    <3>2. Grown(stack', stack, phase)
      BY <1>2, <2>3, <3>1, PushedTypes, GrownPush
    <3>3. ~panic_error /\ pc # "outside" => Open(stack, phase)
      BY <1>6, <2>1
    <3> QED BY <2>1, <3>2, <3>3, GrownOrdered
  <2> QED BY <1>16, <2>2, <2>3 DEF DispatchBufferedEvents
<1>17. CASE SetInterrupt \/ Validate \/ Rearm \/ ClearSourceDrag \/ ModalEnds
  <2>1. /\ stack # <<>> /\ Head(stack).op \notin {"app", "call"} /\ stack' = Tail(stack)
        /\ UNCHANGED <<panic_error, phase, runner_state, pc>>
    BY <1>17 DEF SetInterrupt, Validate, Rearm, ClearSourceDrag, ModalEnds, Top
  <2> QED BY <1>5, <2>1, PopOrdered
<1>18. CASE TryExecuteDragDrop
  <2>1. /\ stack # <<>> /\ Head(stack).op = "try_drag"
        /\ stack' \in {Tail(stack), Push(Op("DoDragDrop"), Tail(stack))}
        /\ UNCHANGED <<panic_error, phase, runner_state, pc>>
    BY <1>18 DEF TryExecuteDragDrop, Top
  <2>2. Grown(Push(Op("DoDragDrop"), Tail(stack)), Tail(stack), phase)
    BY <1>3, <1>4, <2>1, GrownPush DEF Ops
  <2>3. ~panic_error /\ pc # "outside" => Open(stack, phase)
    BY <1>6, <2>1
  <2> QED BY <1>3, <1>5, <2>1, <2>2, <2>3, GrownOrdered
<1>19. CASE DoDragDropReturns
  <2> DEFINE rest == Push(Op("end_drag"), Tail(stack))
  <2>1. /\ stack # <<>> /\ Head(stack).op = "DoDragDrop"
        /\ SendEvent("window_event", rest) \/ stack' = rest
        /\ UNCHANGED <<panic_error, phase, runner_state, pc>>
    BY <1>19 DEF DoDragDropReturns, Top
  <2>2. Grown(rest, Tail(stack), phase)
    BY <1>3, <1>4, <2>1, GrownPush DEF Ops
  <2>3. "window_event" \in Events
    BY DEF Events
  <2> HIDE DEF rest
  <2>4. Grown(stack', Tail(stack), phase)
    BY <2>1, <2>2, <2>3, SendEventGrown
  <2>5. ~panic_error /\ pc # "outside" => Open(stack, phase)
    BY <1>6, <2>1
  <2> QED BY <1>5, <2>1, <2>4, <2>5, GrownOrdered
<1>20. CASE AppExit \/ AppSetControlFlow \/ AppStartDrag \/ AppRequestRedraw
  <2>1. UNCHANGED <<panic_error, phase, runner_state, stack, pc>>
    BY <1>20 DEF AppExit, AppSetControlFlow, AppStartDrag, AppRequestRedraw
  <2> QED BY <2>1, StillOrdered DEF Ordered
<1>21. CASE AppReturn \/ AppPanic
  <2>1. stack # <<>> /\ Head(stack).op = "app" /\ stack' = Tail(stack) /\ UNCHANGED <<runner_state, pc>>
    BY <1>21 DEF AppReturn, AppPanic, Acting, Top
  <2>2. NoApp(stack') /\ ~NoApp(stack)
    <3>1. NoApp(stack')
      BY <1>1, <2>1, PopFrame DEF Discipline
    <3>2. 1 \in DOMAIN stack /\ stack[1].op = "app"
      BY <1>1, <2>1, TailElements
    <3> QED BY <3>1, <3>2 DEF NoApp
  <2>3. CASE AppReturn
    <3>1. UNCHANGED <<panic_error, phase>>
      BY <2>3 DEF AppReturn
    <3> QED BY <1>5, <2>1, <2>2, <3>1, PopOrdered DEF Told
  <2>4. CASE AppPanic
    <3>1. panic_error' /\ phase' = "Dead"
      BY <2>4 DEF AppPanic
    <3> QED BY <2>1, <2>2, <3>1 DEF Ordered, Told
  <2> QED BY <1>21, <2>3, <2>4
<1>22. CASE AppModal
  <2>1. Grown(stack', stack, phase)
    BY <1>2, <1>4, <1>22, GrownPush DEF AppModal, Ops
  <2>2. /\ stack # <<>> /\ Head(stack).op = "app" /\ UNCHANGED <<panic_error, phase, runner_state, pc>>
    BY <1>22 DEF AppModal, Acting, Top
  <2> QED BY <1>6, <2>1, <2>2, GrownOrdered
<1>23. CASE AppSend
  <2>1. Grown(stack', stack, phase)
    BY <1>2, <1>23, WindowProcGrown, PaintProcGrown DEF AppSend
  <2>2. /\ stack # <<>> /\ Head(stack).op = "app" /\ UNCHANGED <<panic_error, phase, runner_state, pc>>
    BY <1>23 DEF AppSend, Acting, Top
  <2> QED BY <1>6, <2>1, <2>2, GrownOrdered
<1>24. CASE (\E m \in Messages : Post(m)) \/ Invalidate \/ ThreadSetsFlag \/ ThreadRedrawWindow
  <2>1. UNCHANGED <<panic_error, phase, runner_state, stack, pc>>
    BY <1>24 DEF Post, Invalidate, ThreadSetsFlag, ThreadRedrawWindow
  <2> QED BY <2>1, StillOrdered DEF Ordered
<1>25. CASE UNCHANGED vars
  <2>1. UNCHANGED <<panic_error, phase, runner_state, stack, pc>>
    BY <1>25 DEF vars
  <2> QED BY <2>1, StillOrdered DEF Ordered
<1> QED
  BY <1>7, <1>8, <1>9, <1>10, <1>11, <1>12, <1>13, <1>14, <1>15, <1>16, <1>17, <1>18, <1>19,
     <1>20, <1>21, <1>22, <1>23, <1>24, <1>25
     DEF Next, Host, Loop, Application, Environment

----
(* The refinement *)

\* The callback AppLifecycle sees inside, read off a stack.
Inside(s) ==
  LET F == {i \in DOMAIN s : s[i].op = "app"}
  IN  IF F = {} THEN "none" ELSE CallbackName(s[CHOOSE i \in F : TRUE].arg)

\* It is the callback that runs.
LEMMA InsideIs ==
  ASSUME NEW s \in Seq(Frames), Disciplined(s)
  PROVE  /\ NoApp(s) <=> Inside(s) = "none"
         /\ \A cb \in Callbacks : In(App(cb), s) => Inside(s) = CallbackName(cb)
         /\ ~NoApp(s) => \E cb \in Callbacks : In(App(cb), s)
<1> DEFINE F == {i \in DOMAIN s : s[i].op = "app"}
<1>1. NoApp(s) <=> F = {}
  BY DEF NoApp
<1>2. \A cb \in Callbacks : CallbackName(cb) # "none"
  BY DEF CallbackName, Callbacks, Events
<1>3. \A i \in DOMAIN s : s[i] \in Frames
  OBVIOUS
<1>4. \A i \in F : s[i].arg \in Callbacks /\ s[i] = App(s[i].arg)
  BY <1>3, AppFrameIs
<1>5. ASSUME F # {} PROVE (CHOOSE i \in F : TRUE) \in F
  BY <1>5
<1>6. ASSUME NEW cb \in Callbacks, In(App(cb), s)
      PROVE  Inside(s) = CallbackName(cb)
  <2>1. PICK i \in F : s[i] = App(cb)
    BY <1>6, FrameTypes DEF In
  <2>2. (CHOOSE j \in F : TRUE) = i
    BY <1>5, <2>1 DEF Disciplined
  <2>3. s[i].arg = cb
    BY <2>1 DEF App
  <2> QED BY <2>1, <2>2, <2>3 DEF Inside
<1>7. ASSUME ~NoApp(s) PROVE \E cb \in Callbacks : In(App(cb), s)
  <2>1. PICK i \in F : s[i].arg \in Callbacks /\ s[i] = App(s[i].arg)
    BY <1>1, <1>4, <1>7
  <2> QED BY <2>1 DEF In
<1>8. NoApp(s) => Inside(s) = "none"
  BY <1>1 DEF Inside
<1> QED BY <1>2, <1>6, <1>7, <1>8

\* What a step tells the application is a step of AppLifecycle, or nothing.
LEMMA ToldRefines ==
  ASSUME TypeOK, TypeOK', Disciplined(stack), Disciplined(stack'), Told
  PROVE  [App_!AppNext]_(App_!app_vars)
<1> DEFINE before == Inside(stack)
           after == Inside(stack')
<1>1. stack \in Seq(Frames) /\ stack' \in Seq(Frames)
  BY DEF TypeOK, DataOK
<1>2. /\ NoApp(stack) <=> before = "none"
      /\ \A cb \in Callbacks : In(App(cb), stack) => before = CallbackName(cb)
      /\ ~NoApp(stack) => \E cb \in Callbacks : In(App(cb), stack)
  BY <1>1, InsideIs
<1>3. /\ NoApp(stack') <=> after = "none"
      /\ \A cb \in Callbacks : In(App(cb), stack') => after = CallbackName(cb)
      /\ ~NoApp(stack') => \E cb \in Callbacks : In(App(cb), stack')
  BY <1>1, InsideIs
<1>4. /\ before = IF AppFrame = {} THEN "none"
                  ELSE CallbackName(stack[CHOOSE i \in AppFrame : TRUE].arg)
      /\ after = IF AppFrame' = {} THEN "none"
                 ELSE CallbackName(stack'[CHOOSE i \in AppFrame' : TRUE].arg)
  BY DEF Inside, AppFrame
<1> HIDE DEF before, after
<1>5. CASE phase' = phase /\ \A cb \in Callbacks : In(App(cb), stack') <=> In(App(cb), stack)
  <2>1. after = before
    BY <1>2, <1>3, <1>5
  <2> QED BY <1>4, <1>5, <2>1 DEF App_!app_vars
<1>6. CASE \E cb \in Callbacks : /\ NoApp(stack) /\ phase = From(cb)
                                 /\ In(App(cb), stack') /\ phase' = PhaseAfter(cb)
  <2>1. PICK cb \in Callbacks : /\ NoApp(stack) /\ phase = From(cb)
                                /\ In(App(cb), stack') /\ phase' = PhaseAfter(cb)
    BY <1>6
  <2>2. before = "none" /\ after = CallbackName(cb)
    BY <1>2, <1>3, <2>1
  <2>3. CASE cb = "new_events_init"
    BY <1>4, <2>1, <2>2, <2>3
       DEF From, PhaseAfter, CallbackName, Events, App_!AppNext, App_!Begin, App_!Invoke
  <2>4. CASE cb = "can_create_surfaces"
    BY <1>4, <2>1, <2>2, <2>4
       DEF From, PhaseAfter, CallbackName, Events, App_!AppNext, App_!CreateSurfaces, App_!Invoke
  <2>5. CASE cb = "new_events"
    BY <1>4, <2>1, <2>2, <2>5
       DEF From, PhaseAfter, CallbackName, Events, App_!AppNext, App_!Wake, App_!Invoke
  <2>6. CASE cb = "about_to_wait"
    BY <1>4, <2>1, <2>2, <2>6
       DEF From, PhaseAfter, CallbackName, Events, App_!AppNext, App_!Sleep, App_!Invoke
  <2>7. CASE cb \in Events \cup {"redraw_requested"}
    BY <1>4, <2>1, <2>2, <2>7
       DEF From, PhaseAfter, CallbackName, Events, App_!AppNext, App_!Deliver, App_!Invoke
  <2> QED BY <2>3, <2>4, <2>5, <2>6, <2>7 DEF Callbacks
<1>7. CASE ~NoApp(stack) /\ NoApp(stack') /\ phase' \in {phase, "Dead"}
  BY <1>2, <1>3, <1>4, <1>7 DEF App_!AppNext, App_!Return, App_!Unwind
<1>8. CASE NoApp(stack) /\ NoApp(stack') /\ phase \in {"Asleep", "Dead"} /\ phase' = "Off"
  BY <1>2, <1>3, <1>4, <1>8 DEF App_!AppNext, App_!Stop
<1> QED BY <1>5, <1>6, <1>7, <1>8 DEF Told

----
(* Theorems *)

\* Init keeps the other two.
LEMMA InitDrainsOrdered == Init => Drains /\ Ordered
BY DEF Init, Drains, NothingLeftBehind, Ordered, Settled

\* The four invariants hold together: each step needs all of them.
LEMMA Invariance == Spec => [](TypeOK /\ Discipline /\ Drains /\ Ordered)
<1>1. Init => TypeOK /\ Discipline /\ Drains /\ Ordered
  BY InitTypeOK, InitDiscipline, InitDrainsOrdered
<1>2. TypeOK /\ Discipline /\ Drains /\ Ordered /\ [Next]_vars
        => (TypeOK /\ Discipline /\ Drains /\ Ordered)'
  <2> SUFFICES ASSUME TypeOK, Discipline, Drains, Ordered, [Next]_vars
               PROVE  FlagsOK' /\ DataOK' /\ Discipline' /\ Drains' /\ Ordered'
    BY DEF TypeOK
  <2>1. Disciplined(stack) /\ (event_handler => NoApp(stack))
    BY DEF Discipline, HandlerReturned
  <2> QED BY <2>1, NextFlagsOK, NextDataOK, NextDiscipline, NextDrains, NextOrdered
             DEF TypeOK
<1> QED BY <1>1, <1>2, PTL DEF Spec

\* Every variable of the runner keeps its type, whatever the application, the
\* host and the system do.
THEOREM TypeCorrectness == Spec => []TypeOK
BY Invariance, PTL

\* Callbacks never overlap, the handler is in its cell exactly when no callback
\* runs, and the expect of call_event_handler cannot fail.
THEOREM HandlerIsExclusive == Spec => []HandlerDiscipline
<1>1. TypeOK /\ Discipline => HandlerDiscipline
  BY Available
     DEF HandlerDiscipline, Discipline, Disciplined, HandlerExclusive
<1> QED BY <1>1, Invariance, PTL

\* While the application can take events, one is left in event_buffer only if a
\* dispatch_buffered_events is still to come on the stack, or behind the
\* RedrawRequested of WM_PAINT, which also ends the turn of the loop.
THEOREM BufferIsDrained == Spec => []NothingLeftBehind
<1>1. Drains => NothingLeftBehind
  BY DEF Drains
<1> QED BY <1>1, Invariance, PTL

\* Every step of the runner is, for the application, a step of AppLifecycle or
\* none: new_events(Init), can_create_surfaces, events, about_to_wait and
\* new_events again, one at a time and in this order, whatever messages, modal
\* loops, drags and panics come between.
THEOREM ImplementsLifecycle == Spec => Lifecycle
<1>1. Init => App_!AppInit
  BY DEF Init, App_!AppInit, AppFrame
<1>2. /\ TypeOK /\ Discipline /\ Drains /\ Ordered
      /\ (TypeOK /\ Discipline /\ Drains /\ Ordered)'
      /\ [Next]_vars
      => [App_!AppNext]_(App_!app_vars)
  BY NextOrdered, ToldRefines DEF Discipline
<1> QED BY <1>1, <1>2, Invariance, PTL DEF Spec, Lifecycle, App_!AppSpec

----
(* Drag and drop: the stack. *)

Methods == {"entered", "moved", "left", "decide", "dropping", "try_drag"}
Effects == {"move", "copy"}
DragKinds == {"DragEntered", "DragPosition", "DragLeft", "DragDropped", "DataTransferReceived",
                  "other", "outgoing", "OutgoingDragDropped", "OutgoingDragCanceled"}
DragEvents == [kind : DragKinds, window : Windows, id : Nat,
               action : Effects \cup {None, "none"}]
DragFrames == [op : Methods \cup {"callback", "drain", "clear", "DoDragDrop"},
               event : DragEvents, effect : Effects \cup {None, "none"},
               keys : SUBSET {"ctrl", "shift"}, allowed : SUBSET Effects]

\* A callback is on top, or the drain under one, and what is below.
Called(s) == s # <<>> /\ Head(s).op = "callback"
Draining(s) == s # <<>> /\ Head(s).op = "drain"
Within(s) == IF Called(s) THEN Tail(Tail(s)) ELSE IF Draining(s) THEN Tail(s) ELSE s

\* The method under way, its frame, and the DoDragDrop it runs in.
Doing(s) == IF Within(s) = <<>> THEN "idle" ELSE Head(Within(s)).op
Now(s) == Head(Within(s))
Outer(s) == IF Doing(s) \in Methods THEN Tail(Within(s))
            ELSE IF Doing(s) = "clear" THEN <<>> ELSE Within(s)

\* One DoDragDrop, and one method in it, which may have called the application.
Bottom(r) == r = <<>> \/ (Head(r).op = "DoDragDrop" /\ Tail(r) = <<>>)
Shaped(s) ==
  /\ Called(s) => Tail(s) # <<>> /\ Head(Tail(s)).op = "drain"
  /\ Called(s) \/ Draining(s) => Doing(s) \in Methods \cup {"clear"}
  /\ Bottom(Outer(s))
  /\ Doing(s) \in Methods /\ Outer(s) # <<>> => Head(Outer(s)).effect = None
  /\ Doing(s) = "clear" => Tail(Within(s)) = <<>>
  /\ Doing(s) \in {"idle", "clear", "DoDragDrop"} \cup Methods

\* Stacks under construction.
LEMMA FrameOver ==
  ASSUME NEW s \in Seq(DragFrames), NEW f \in DragFrames
  PROVE  /\ Dnd!Push(f, s) \in Seq(DragFrames) /\ Dnd!Push(f, s) # <<>>
         /\ Head(Dnd!Push(f, s)) = f /\ Tail(Dnd!Push(f, s)) = s
<1> DEFINE z == Dnd!Push(f, s)
<1>1. <<f>> \in Seq(DragFrames) /\ Len(<<f>>) = 1 /\ <<f>>[1] = f
  OBVIOUS
<1>2. /\ z \in Seq(DragFrames) /\ Len(z) = 1 + Len(s)
      /\ \A i \in 1 .. 1 + Len(s) : z[i] = IF i <= 1 THEN <<f>>[i] ELSE s[i - 1]
  BY <1>1, ConcatProperties DEF Dnd!Push
<1> HIDE DEF z
<1>3. Len(s) \in Nat
  OBVIOUS
<1>4. z # <<>> /\ Head(z) = f
  BY <1>1, <1>2, <1>3
<1>5. Tail(z) \in Seq(DragFrames) /\ Len(Tail(z)) = Len(s)
  BY <1>2, <1>3, <1>4, HeadTailProperties
<1>6. \A i \in 1 .. Len(s) : Tail(z)[i] = s[i]
  <2>1. \A i \in 1 .. Len(Tail(z)) : Tail(z)[i] = z[i + 1]
    BY <1>2, <1>4, HeadTailProperties
  <2>2. \A i \in 1 .. Len(s) : z[i + 1] = s[i]
    BY <1>2, <1>3
  <2> QED BY <2>1, <2>2, <1>5
<1>7. Tail(z) = s
  BY <1>5, <1>6, SeqEqual
<1> QED BY <1>2, <1>4, <1>7 DEF z

\* Stacks taken apart.
LEMMA FrameOff ==
  ASSUME NEW s \in Seq(DragFrames), s # <<>>
  PROVE  Head(s) \in DragFrames /\ Tail(s) \in Seq(DragFrames)
BY HeadTailProperties

\* The frames the model makes.
LEMMA FramesMade ==
  ASSUME NEW e \in DragEvents
  PROVE  /\ Dnd!Callback(e) \in DragFrames /\ Dnd!Callback(e).op = "callback"
         /\ Dnd!Callback(e).event = e
         /\ Dnd!Frame("drain", e, None) \in DragFrames
         /\ Dnd!Frame("drain", e, None).op = "drain"
         /\ \A o \in Methods, x \in Effects \cup {None, "none"} :
              /\ Dnd!Frame(o, e, x) \in DragFrames /\ Dnd!Frame(o, e, x).op = o
              /\ Dnd!Frame(o, e, x).event = e /\ Dnd!Frame(o, e, x).effect = x
         /\ Dnd!Frame("DoDragDrop", e, None) \in DragFrames
         /\ Dnd!Frame("DoDragDrop", e, None).op = "DoDragDrop"
         /\ Dnd!Frame("DoDragDrop", e, None).event = e
         /\ Dnd!Frame("DoDragDrop", e, None).effect = None
BY DEF Dnd!Callback, Dnd!Frame, DragFrames, Methods

\* What is on the stack: the callback, the drain, the method and DoDragDrop.
Holds(s, o) == \E i \in DOMAIN s : s[i].op = o
LEMMA HoldsIs ==
  ASSUME NEW s \in Seq(DragFrames), s # <<>>, NEW o
  PROVE  Holds(s, o) <=> Head(s).op = o \/ Holds(Tail(s), o)
<1>1. /\ Len(s) \in Nat /\ Len(s) > 0 /\ DOMAIN s = 1 .. Len(s) /\ Head(s) = s[1]
      /\ Tail(s) \in Seq(DragFrames) /\ Len(Tail(s)) = Len(s) - 1
      /\ \A i \in 1 .. Len(Tail(s)) : Tail(s)[i] = s[i + 1]
  BY HeadTailProperties
<1>2. DOMAIN Tail(s) = 1 .. Len(s) - 1
  BY <1>1
<1>3. ASSUME NEW i \in DOMAIN s, s[i].op = o
      PROVE  Head(s).op = o \/ Holds(Tail(s), o)
  <2>1. CASE i = 1
    BY <2>1, <1>1, <1>3
  <2>2. CASE i # 1
    <3>1. i - 1 \in DOMAIN Tail(s) /\ Tail(s)[i - 1] = s[i]
      BY <2>2, <1>1, <1>2
    <3> QED BY <3>1, <1>3 DEF Holds
  <2> QED BY <2>1, <2>2
<1>4. ASSUME Head(s).op = o PROVE Holds(s, o)
  BY <1>1, <1>4 DEF Holds
<1>5. ASSUME NEW i \in DOMAIN Tail(s), Tail(s)[i].op = o PROVE Holds(s, o)
  <2>1. i + 1 \in DOMAIN s /\ s[i + 1] = Tail(s)[i]
    BY <1>1, <1>2
  <2> QED BY <2>1, <1>5 DEF Holds
<1> QED BY <1>3, <1>4, <1>5 DEF Holds

\* Nothing is on an empty stack.
LEMMA HoldsNothing ==
  ASSUME NEW o
  PROVE  ~Holds(<<>>, o)
BY DEF Holds

\* What a shaped stack holds.
LEMMA HoldsShaped ==
  ASSUME NEW s \in Seq(DragFrames), Shaped(s), NEW o
  PROVE  Holds(s, o) <=> \/ Called(s) /\ o = "callback"
                         \/ (Called(s) \/ Draining(s)) /\ o = "drain"
                         \/ Doing(s) # "idle" /\ o = Doing(s)
                         \/ Outer(s) # <<>> /\ o = "DoDragDrop"
<1> DEFINE r == Within(s)
           x == Outer(s)
<1>1. x # <<>> => Head(x).op = "DoDragDrop" /\ Tail(x) = <<>>
  BY DEF Shaped, Bottom
<1>2. r \in Seq(DragFrames)
  <2>1. CASE Called(s)
    BY <2>1, FrameOff DEF Within, Called, Shaped
  <2>2. CASE ~Called(s) /\ Draining(s)
    BY <2>2, FrameOff DEF Within, Draining
  <2>3. CASE ~Called(s) /\ ~Draining(s)
    BY <2>3 DEF Within
  <2> QED BY <2>1, <2>2, <2>3
<1>3. Holds(r, o) <=> (Doing(s) # "idle" /\ o = Doing(s)) \/ (x # <<>> /\ o = "DoDragDrop")
  <2>1. CASE r = <<>>
    <3>1. Doing(s) = "idle" /\ x = <<>>
      BY <2>1 DEF Doing, Outer, Methods
    <3> QED BY <3>1, <2>1, HoldsNothing
  <2>2. CASE r # <<>>
    <3>1. Doing(s) = Head(r).op /\ (Holds(r, o) <=> Doing(s) = o \/ Holds(Tail(r), o))
      BY <2>2, <1>2, HoldsIs DEF Doing
    <3>2. Doing(s) # "idle"
      <4>1. Head(r) \in DragFrames
        BY <2>2, <1>2, FrameOff
      <4> QED BY <4>1, <3>1 DEF DragFrames, Methods
    <3>3. CASE Doing(s) \in Methods
      <4>1. x = Tail(r) /\ x \in Seq(DragFrames)
        BY <3>3, <2>2, <1>2, FrameOff DEF Outer
      <4>2. Holds(x, o) <=> x # <<>> /\ o = "DoDragDrop"
        BY <4>1, <1>1, HoldsIs, HoldsNothing
      <4> QED BY <4>1, <4>2, <3>1, <3>2
    <3>4. CASE Doing(s) = "clear"
      <4>1. x = <<>> /\ Tail(r) = <<>>
        BY <3>4 DEF Outer, Shaped, Methods
      <4> QED BY <4>1, <3>1, <3>2, HoldsNothing
    <3>5. CASE Doing(s) = "DoDragDrop"
      <4>1. x = r
        BY <3>5 DEF Outer, Methods
      <4>2. Tail(r) = <<>>
        BY <4>1, <2>2, <1>1
      <4> QED BY <4>1, <4>2, <3>1, <3>2, <2>2, <3>5, HoldsNothing
    <3> QED BY <3>2, <3>3, <3>4, <3>5 DEF Shaped
  <2> QED BY <2>1, <2>2
<1>7. Called(s) => ~Draining(s)
  BY DEF Called, Draining
<1> HIDE DEF r, x
<1>4. CASE Called(s)
  <2>1. /\ Holds(s, o) <=> Head(s).op = o \/ Holds(Tail(s), o)
        /\ Tail(s) \in Seq(DragFrames)
    BY <1>4, HoldsIs, FrameOff DEF Called
  <2>2. Tail(s) # <<>> /\ Head(Tail(s)).op = "drain"
    BY <1>4 DEF Shaped
  <2>3. Holds(Tail(s), o) <=> Head(Tail(s)).op = o \/ Holds(Tail(Tail(s)), o)
    BY <2>1, <2>2, HoldsIs
  <2>4. r = Tail(Tail(s)) /\ Head(s).op = "callback"
    BY <1>4 DEF r, Within, Called
  <2> QED BY <2>1, <2>2, <2>3, <2>4, <1>3, <1>4, <1>7 DEF x
<1>5. CASE ~Called(s) /\ Draining(s)
  <2>1. Holds(s, o) <=> Head(s).op = o \/ Holds(Tail(s), o)
    BY <1>5, HoldsIs DEF Draining
  <2>2. r = Tail(s) /\ Head(s).op = "drain"
    BY <1>5 DEF r, Within, Draining
  <2> QED BY <2>1, <2>2, <1>3, <1>5, <1>7 DEF x
<1>6. CASE ~Called(s) /\ ~Draining(s)
  <2>1. r = s
    BY <1>6 DEF r, Within
  <2> QED BY <2>1, <1>3, <1>6, <1>7 DEF x
<1> QED BY <1>4, <1>5, <1>6

\* What the view of a shaped stack says of its parts.
LEMMA Parts ==
  ASSUME NEW s \in Seq(DragFrames), Shaped(s)
  PROVE  /\ Within(s) \in Seq(DragFrames) /\ Outer(s) \in Seq(DragFrames)
         /\ Outer(s) # <<>> => /\ Head(Outer(s)) \in DragFrames /\ Head(Outer(s)).op = "DoDragDrop"
                               /\ Tail(Outer(s)) = <<>>
         /\ Doing(s) # "idle" => /\ Within(s) # <<>> /\ Now(s) \in DragFrames
                                 /\ Now(s).op = Doing(s)
         /\ Doing(s) = "DoDragDrop" <=> Outer(s) # <<>> /\ Doing(s) \notin Methods
         /\ Doing(s) = "DoDragDrop" => Outer(s) = Within(s) /\ Now(s) = Head(Outer(s))
         /\ Doing(s) \in {"idle", "clear"} => Outer(s) = <<>>
         /\ Doing(s) \in Methods => Tail(Within(s)) = Outer(s)
         /\ Called(s) => ~Draining(s)
         /\ ~Called(s) /\ ~Draining(s) => Within(s) = s /\ (s = <<>> <=> Doing(s) = "idle")
<1>1. Within(s) \in Seq(DragFrames)
  <2>1. CASE Called(s)
    BY <2>1, FrameOff DEF Within, Called, Shaped
  <2>2. CASE ~Called(s) /\ Draining(s)
    BY <2>2, FrameOff DEF Within, Draining
  <2>3. CASE ~Called(s) /\ ~Draining(s)
    BY <2>3 DEF Within
  <2> QED BY <2>1, <2>2, <2>3
<1>2. Within(s) # <<>> => Head(Within(s)) \in DragFrames /\ Tail(Within(s)) \in Seq(DragFrames)
  BY <1>1, FrameOff
<1>3. Within(s) = <<>> <=> Doing(s) = "idle"
  BY <1>2 DEF Doing, DragFrames, Methods
<1>4. Outer(s) \in Seq(DragFrames)
  BY <1>1, <1>2, <1>3 DEF Outer, Methods
<1>5. Outer(s) # <<>> => /\ Head(Outer(s)) \in DragFrames /\ Head(Outer(s)).op = "DoDragDrop"
                         /\ Tail(Outer(s)) = <<>>
  BY <1>4, FrameOff DEF Shaped, Bottom
<1>6. Doing(s) # "idle" => Within(s) # <<>> /\ Now(s) \in DragFrames /\ Now(s).op = Doing(s)
  BY <1>2, <1>3 DEF Now, Doing
<1>7. Doing(s) = "DoDragDrop" => Outer(s) = Within(s) /\ Now(s) = Head(Outer(s)) /\ Outer(s) # <<>>
  BY <1>3 DEF Outer, Now, Methods
<1>8. Doing(s) \in {"idle", "clear"} => Outer(s) = <<>>
  BY <1>3 DEF Outer, Methods
<1>9. Doing(s) \in Methods => Tail(Within(s)) = Outer(s)
  BY DEF Outer
<1>10. Called(s) => ~Draining(s)
  BY DEF Called, Draining
<1>11. ~Called(s) /\ ~Draining(s) => Within(s) = s
  BY DEF Within
<1>12. Doing(s) = "DoDragDrop" <=> Outer(s) # <<>> /\ Doing(s) \notin Methods
  BY <1>7, <1>8 DEF Shaped, Methods
<1> QED BY <1>1, <1>3, <1>4, <1>5, <1>6, <1>7, <1>8, <1>9, <1>10, <1>11, <1>12

\* The same method is under way in t as in s.
Alike(s, t) ==
  Within(t) = Within(s) /\ Doing(t) = Doing(s) /\ Now(t) = Now(s) /\ Outer(t) = Outer(s)

\* What is below determines the rest of the view.
LEMMA WithinDetermines ==
  ASSUME NEW s, NEW t, Within(t) = Within(s)
  PROVE  Alike(s, t)
BY DEF Alike, Doing, Now, Outer

\* A method calls the application.
LEMMA Sends ==
  ASSUME NEW r \in Seq(DragFrames), Bottom(r), r # <<>> => Head(r).effect = None,
         NEW f \in DragFrames, f.op \in Methods \/ (f.op = "clear" /\ r = <<>>),
         NEW e \in DragEvents
  PROVE  LET t == Dnd!Push(Dnd!Callback(e), Dnd!Push(Dnd!Frame("drain", e, None), Dnd!Push(f, r)))
         IN /\ t \in Seq(DragFrames) /\ t # <<>> /\ Shaped(t)
            /\ Called(t) /\ ~Draining(t) /\ Head(t).event = e
            /\ Doing(t) = f.op /\ Now(t) = f /\ Outer(t) = r
<1> DEFINE a == Dnd!Push(f, r)
           b == Dnd!Push(Dnd!Frame("drain", e, None), a)
           t == Dnd!Push(Dnd!Callback(e), b)
<1>0. /\ Dnd!Callback(e) \in DragFrames /\ Dnd!Callback(e).op = "callback"
      /\ Dnd!Callback(e).event = e
      /\ Dnd!Frame("drain", e, None) \in DragFrames /\ Dnd!Frame("drain", e, None).op = "drain"
  BY FramesMade
<1>1. a \in Seq(DragFrames) /\ a # <<>> /\ Head(a) = f /\ Tail(a) = r
  BY FrameOver
<1>2. b \in Seq(DragFrames) /\ b # <<>> /\ Head(b).op = "drain" /\ Tail(b) = a
  BY <1>0, <1>1, FrameOver
<1>3. /\ t \in Seq(DragFrames) /\ t # <<>> /\ Head(t).op = "callback" /\ Head(t).event = e
      /\ Tail(t) = b
  BY <1>0, <1>2, FrameOver
<1> HIDE DEF a, b, t
<1>4. Called(t) /\ ~Draining(t)
  BY <1>3 DEF Called, Draining
<1>5. Within(t) = a
  BY <1>2, <1>3, <1>4 DEF Within
<1>6. Doing(t) = f.op /\ Now(t) = f /\ Outer(t) = r
  BY <1>1, <1>5 DEF Doing, Now, Outer, Methods
<1>7. Shaped(t)
  BY <1>1, <1>2, <1>3, <1>4, <1>5, <1>6 DEF Shaped, Methods
<1> QED BY <1>3, <1>4, <1>6, <1>7 DEF a, b, t

\* The callback returns to the drain.
LEMMA Returns ==
  ASSUME NEW s \in Seq(DragFrames), Shaped(s), Called(s)
  PROVE  /\ Tail(s) \in Seq(DragFrames) /\ Shaped(Tail(s))
         /\ ~Called(Tail(s)) /\ Draining(Tail(s)) /\ Alike(s, Tail(s))
<1>1. Tail(s) \in Seq(DragFrames) /\ Tail(s) # <<>> /\ Head(Tail(s)).op = "drain"
  BY FrameOff DEF Shaped, Called
<1>2. ~Called(Tail(s)) /\ Draining(Tail(s))
  BY <1>1 DEF Called, Draining
<1>3. Within(Tail(s)) = Within(s)
  BY <1>2 DEF Within
<1>4. Alike(s, Tail(s))
  BY <1>3, WithinDetermines
<1> QED BY <1>1, <1>2, <1>4 DEF Shaped, Alike

\* The drain ends.
LEMMA Drained ==
  ASSUME NEW s \in Seq(DragFrames), Shaped(s), Draining(s)
  PROVE  /\ Tail(s) \in Seq(DragFrames) /\ Shaped(Tail(s))
         /\ ~Called(Tail(s)) /\ ~Draining(Tail(s)) /\ Alike(s, Tail(s))
<1>1. ~Called(s) /\ Within(s) = Tail(s) /\ Tail(s) \in Seq(DragFrames)
  BY FrameOff DEF Within, Called, Draining
<1>2. Doing(s) \in Methods \cup {"clear"}
  BY DEF Shaped
<1>3. Tail(s) # <<>> /\ Head(Tail(s)).op = Doing(s)
  BY <1>1, <1>2 DEF Doing, Methods
<1>4. ~Called(Tail(s)) /\ ~Draining(Tail(s))
  BY <1>2, <1>3 DEF Called, Draining, Methods
<1>5. Alike(s, Tail(s))
  BY <1>1, <1>4, WithinDetermines DEF Within
<1> QED BY <1>1, <1>4, <1>5 DEF Shaped, Alike

\* The drain dispatches an event.
LEMMA Dispatches ==
  ASSUME NEW s \in Seq(DragFrames), Shaped(s), Draining(s), NEW e \in DragEvents
  PROVE  LET t == Dnd!Push(Dnd!Callback(e), s)
         IN /\ t \in Seq(DragFrames) /\ t # <<>> /\ Shaped(t)
            /\ Called(t) /\ ~Draining(t) /\ Head(t).event = e /\ Alike(s, t)
<1> DEFINE t == Dnd!Push(Dnd!Callback(e), s)
<1>0. /\ Dnd!Callback(e) \in DragFrames /\ Dnd!Callback(e).op = "callback"
      /\ Dnd!Callback(e).event = e
  BY FramesMade
<1>1. /\ t \in Seq(DragFrames) /\ t # <<>> /\ Head(t).op = "callback" /\ Head(t).event = e
      /\ Tail(t) = s
  BY <1>0, FrameOver
<1> HIDE DEF t
<1>2. Called(t) /\ ~Draining(t) /\ ~Called(s)
  BY <1>1 DEF Called, Draining
<1>3. Within(t) = Within(s)
  BY <1>1, <1>2 DEF Within
<1>4. Alike(s, t)
  BY <1>3, WithinDetermines
<1>5. Shaped(t)
  BY <1>1, <1>2, <1>4 DEF Shaped, Alike, Draining
<1> QED BY <1>1, <1>2, <1>4, <1>5 DEF t

\* Nothing, or a DoDragDrop, with no call in it.
LEMMA Alone ==
  ASSUME NEW r \in Seq(DragFrames), Bottom(r)
  PROVE  /\ Shaped(r) /\ ~Called(r) /\ ~Draining(r) /\ Outer(r) = r
         /\ Doing(r) = (IF r = <<>> THEN "idle" ELSE "DoDragDrop")
         /\ Now(r) = Head(r)
<1>1. ~Called(r) /\ ~Draining(r)
  BY DEF Called, Draining, Bottom
<1>2. Within(r) = r
  BY <1>1 DEF Within
<1>3. Doing(r) = (IF r = <<>> THEN "idle" ELSE "DoDragDrop") /\ Now(r) = Head(r)
  BY <1>2 DEF Doing, Now, Bottom
<1>4. Outer(r) = r
  BY <1>2, <1>3 DEF Outer, Methods
<1> QED BY <1>1, <1>3, <1>4 DEF Shaped, Methods

\* The method on top ends.
LEMMA Ends ==
  ASSUME NEW s \in Seq(DragFrames), Shaped(s), ~Called(s), ~Draining(s), Doing(s) \in Methods
  PROVE  /\ s # <<>> /\ Head(s) = Now(s) /\ Tail(s) = Outer(s)
         /\ Tail(s) \in Seq(DragFrames) /\ Bottom(Tail(s))
BY Parts DEF Shaped, Now, Methods

\* The frame of a drop is that of the method under way.
LEMMA TheDrop ==
  ASSUME NEW s \in Seq(DragFrames), Shaped(s), NEW i \in DOMAIN s, s[i].op = "dropping"
  PROVE  s[i] = Now(s) /\ Doing(s) = "dropping"
<1> DEFINE r == Within(s)
<1>1. Doing(s) = "dropping"
  BY HoldsShaped DEF Holds
<1>2. r \in Seq(DragFrames) /\ r # <<>> /\ Now(s) = Head(r)
  BY <1>1, Parts DEF Now
<1>3. /\ Len(s) \in Nat /\ Len(s) > 0 /\ DOMAIN s = 1 .. Len(s) /\ s # <<>> /\ Head(s) = s[1]
      /\ Tail(s) \in Seq(DragFrames) /\ Len(Tail(s)) = Len(s) - 1
      /\ \A j \in 1 .. Len(Tail(s)) : Tail(s)[j] = s[j + 1]
  <2>1. Len(s) \in Nat /\ DOMAIN s = 1 .. Len(s)
    OBVIOUS
  <2>2. Len(s) > 0 /\ s # <<>>
    BY <2>1
  <2> QED BY <2>1, <2>2, HeadTailProperties
<1>4. \A j \in DOMAIN r : r[j].op = "dropping" => r[j] = Head(r)
  <2> SUFFICES ASSUME NEW j \in DOMAIN r, r[j].op = "dropping", j # 1
               PROVE  FALSE
    BY <1>2
  <2>1. Tail(r) = Outer(s)
    BY <1>1, Parts DEF Methods
  <2>2. Holds(Tail(r), "dropping")
    <3>1. /\ DOMAIN r = 1 .. Len(r) /\ Len(r) \in Nat /\ Len(Tail(r)) = Len(r) - 1
          /\ Tail(r) \in Seq(DragFrames)
          /\ \A k \in 1 .. Len(Tail(r)) : Tail(r)[k] = r[k + 1]
      BY <1>2, HeadTailProperties
    <3>2. j - 1 \in DOMAIN Tail(r) /\ Tail(r)[j - 1] = r[j]
      BY <3>1
    <3> QED BY <3>2 DEF Holds
  <2>3. Tail(r) # <<>>
    BY <2>2, HoldsNothing
  <2>4. Holds(Tail(r), "dropping") <=> Head(Tail(r)).op = "dropping" \/ Holds(Tail(Tail(r)), "dropping")
    <3>1. Tail(r) \in Seq(DragFrames)
      BY <1>2, FrameOff
    <3> QED BY <3>1, <2>3, HoldsIs
  <2>5. Head(Tail(r)).op = "DoDragDrop" /\ Tail(Tail(r)) = <<>>
    BY <2>1, <2>3, Parts
  <2> QED BY <2>2, <2>4, <2>5, HoldsNothing
<1> HIDE DEF r
<1>5. CASE ~Called(s) /\ ~Draining(s)
  <2>1. r = s
    BY <1>5 DEF r, Within
  <2> QED BY <2>1, <1>1, <1>2, <1>4
<1>6. CASE ~Called(s) /\ Draining(s)
  <2>1. r = Tail(s) /\ s[1].op = "drain"
    BY <1>3, <1>6 DEF r, Within, Draining
  <2>2. i - 1 \in DOMAIN r /\ r[i - 1] = s[i]
    BY <1>3, <2>1
  <2> QED BY <2>2, <1>1, <1>2, <1>4
<1>7. CASE Called(s)
  <2>1. r = Tail(Tail(s)) /\ s[1].op = "callback" /\ Tail(s) # <<>> /\ Head(Tail(s)).op = "drain"
    BY <1>3, <1>7 DEF r, Within, Called, Shaped
  <2>2. i - 1 \in 1 .. Len(Tail(s)) /\ Tail(s)[i - 1] = s[i]
    BY <1>3, <2>1
  <2>3. /\ Head(Tail(s)) = Tail(s)[1] /\ Len(r) = Len(Tail(s)) - 1
        /\ \A k \in 1 .. Len(r) : r[k] = Tail(s)[k + 1]
    BY <1>3, <2>1, HeadTailProperties
  <2>4. i - 1 # 1
    BY <2>1, <2>2, <2>3
  <2>5. i - 2 \in 1 .. Len(r) /\ r[i - 2] = s[i]
    <3>1. i - 2 \in 1 .. Len(r) /\ (i - 2) + 1 = i - 1
      BY <1>3, <2>2, <2>3, <2>4
    <3> QED BY <3>1, <2>2, <2>3
  <2>6. i - 2 \in DOMAIN r
    BY <1>2, <2>5
  <2> QED BY <2>5, <2>6, <1>1, <1>2, <1>4
<1> QED BY <1>5, <1>6, <1>7

----
(* Drag and drop: the invariant. *)

\* None is none of the other values.
Transfers == [id : Nat \ {0}, window : Windows, actions : Dnd!Preferences]
Asked == [id : Nat \ {0}, allowed : SUBSET Effects]
Carried == [own : BOOLEAN, allowed : SUBSET Effects, over : {None} \cup Windows,
            effect : Effects \cup {"none"}, moves : Nat]
Apart ==
  /\ None \notin Nat /\ None \notin Windows /\ None \notin Effects \cup {"none"}
  /\ None \notin Transfers /\ None \notin Asked /\ None \notin Carried

\* Applications that run no message loop in a callback, start one drag at a time and
\* answer in no callback of a drop or of its end, and a DoDragDrop that works.
Final == {"DragDropped", "DragLeft", "DataTransferReceived"}
Mannered ==
  /\ Offers \subseteq SUBSET Effects
  /\ \A x \in Environments :
       /\ x.pumps = {} /\ x.fails = FALSE /\ x.patient = TRUE
       /\ x.answers \cap Final = {} /\ x.keys \subseteq SUBSET {"ctrl", "shift"}

DragTyped ==
  /\ buffered \in Seq(DragEvents)
  /\ drag_state \in {None} \cup Transfers /\ asked_drag \in {None} \cup Asked
  /\ own_drag \in {None} \cup (Nat \ {0}) /\ pending_source_drag_cleanup \in {None} \cup Nat
  /\ active \in [Windows -> {None} \cup Nat] /\ ids \in Nat /\ drags \in Nat
  /\ ole \in {None} \cup Carried
  /\ env \in Environments /\ answer \in Dnd!Preferences
Stacked == frames \in Seq(DragFrames) /\ Shaped(frames)

\* OLE carries a drag over a window.
Hovering == ole # None /\ ole.over # None
Over(w) == ole # None /\ ole.over = w

\* The window under the drag has the transfer, and there is one while it may be read.
Activated ==
  \A w \in Windows :
    active[w] = IF Over(w) /\ Doing(frames) # "left" THEN drag_state.id ELSE None
Reading == {"decide", "dropping"}
Present ==
  /\ Hovering => drag_state # None
  /\ Doing(frames) \in {"entered", "moved", "left"} \cup Reading =>
       drag_state # None /\ drag_state.id = Now(frames).event.id
Needed ==
  drag_state # None =>
    Hovering \/ Doing(frames) \in Reading \/ pending_source_drag_cleanup # None
Deferred ==
  pending_source_drag_cleanup # None =>
    /\ drag_state # None /\ drag_state.id = pending_source_drag_cleanup
    /\ \/ Doing(frames) = "DoDragDrop" /\ Now(frames).effect # None
       \/ Doing(frames) = "clear" /\ (Called(frames) \/ Draining(frames))
Landed ==
  /\ Doing(frames) \in Reading \cup {"clear"} => ~Hovering
  /\ Doing(frames) = "DoDragDrop" /\ Now(frames).effect # None => ~Hovering
  /\ Doing(frames) \in {"entered", "moved", "left"} => Hovering

\* What a callback tells is what the method under it is about.
Said == Head(frames).event
Speaking ==
  Called(frames) /\ Said.kind # "DataTransferReceived" =>
    /\ Doing(frames) = "entered" => Said.kind = "DragEntered" /\ Said.id = Now(frames).event.id
    /\ Doing(frames) \in {"moved", "decide"} =>
         Said.kind = "DragPosition" /\ Said.id = Now(frames).event.id
    /\ Doing(frames) = "left" => Said.kind = "DragLeft"
    /\ Doing(frames) = "dropping" =>
         Said.kind \in {"DragDropped", "DragLeft"} /\ Said.id = Now(frames).event.id
    /\ Doing(frames) = "try_drag" => Said.kind = "other" /\ Said.id = 0
    /\ Doing(frames) = "clear" => Said.kind \in {"OutgoingDragDropped", "OutgoingDragCanceled"}
Buffered ==
  /\ \A i \in DOMAIN buffered : buffered[i].kind = "DataTransferReceived"
  /\ buffered # <<>> => Called(frames) \/ Draining(frames)

\* The effect OLE has is what the application answered.
Fits(effect, common) == IF common = {} THEN effect = "none" ELSE effect \in common
Answering ==
  /\ Hovering => answer = drag_state.actions
  /\ Hovering /\ Doing(frames) \notin {"entered", "moved", "left"} =>
       Fits(ole.effect, Dnd!ToSet(answer) \cap ole.allowed)
Decided ==
  Doing(frames) = "dropping" =>
    /\ Now(frames).effect # None
    /\ Now(frames).effect = "none" <=> Now(frames).event.kind = "DragLeft"

\* The application's own drag is the one in DoDragDrop.
Sourced ==
  /\ own_drag # None <=> Doing(frames) = "clear" \/ Outer(frames) # <<>>
  /\ Outer(frames) # <<>> => Head(Outer(frames)).event.id \in waiting
  /\ Outer(frames) # <<>> /\ Head(Outer(frames)).effect = None /\ Doing(frames) \notin Reading =>
       ole # None /\ ole.own = TRUE
  /\ asked_drag # None => ole = None /\ asked_drag.id \in waiting /\ own_drag = None

DragInv ==
  /\ DragTyped /\ Stacked /\ Activated /\ Present /\ Needed /\ Deferred /\ Landed
  /\ Speaking /\ Buffered /\ Answering /\ Decided /\ Sourced /\ panicked = FALSE

----
(* Drag and drop: the actions picked. *)

\* The actions an application may set.
LEMMA PreferencesIn ==
  ASSUME NEW actions \in Dnd!Preferences
  PROVE  actions \in Seq(Effects) /\ Len(actions) \in 0 .. 2
<1>1. CASE actions = <<>>
  BY <1>1
<1>2. CASE actions = <<"copy">>
  BY <1>2 DEF Effects
<1>3. CASE actions = <<"move", "copy">>
  BY <1>3 DEF Effects
<1> QED BY <1>1, <1>2, <1>3 DEF Dnd!Preferences

\* The first of the application's actions among these is one of them, if there is any.
LEMMA FirstOfIs ==
  ASSUME NEW actions \in Dnd!Preferences, NEW these
  PROVE  Fits(Dnd!FirstOf(actions, these), Dnd!ToSet(actions) \cap these)
<1> DEFINE f == Dnd!FirstOf(actions, these)
           i == Dnd!SelectInSeq(actions, LAMBDA a : a \in these)
           I == {j \in 1 .. Len(actions) : actions[j] \in these}
<1>1. f = IF i = 0 THEN "none" ELSE actions[i]
  BY DEF Dnd!FirstOf
<1>2. i = IF I # {} THEN Dnd!Min(I) ELSE 0
  BY DEF Dnd!SelectInSeq
<1>3. Len(actions) \in 0 .. 2 /\ actions \in Seq(Effects)
  BY PreferencesIn
<1>4. I # {} => Dnd!Min(I) \in I
  <2> SUFFICES ASSUME I # {} PROVE Dnd!Min(I) \in I
    OBVIOUS
  <2>1. I \subseteq 1 .. 2
    BY <1>3
  <2>2. \E x \in I : \A y \in I : x <= y
    BY <2>1
  <2> HIDE DEF I
  <2> QED BY <2>2 DEF Dnd!Min
<1>5. Dnd!ToSet(actions) = {actions[j] : j \in 1 .. Len(actions)}
  BY <1>3 DEF Dnd!ToSet
<1>6. CASE I = {}
  BY <1>1, <1>2, <1>5, <1>6 DEF Fits
<1>7. CASE I # {}
  <2>1. i \in I /\ i # 0
    BY <1>2, <1>4, <1>7
  <2>2. f \in Dnd!ToSet(actions) \cap these
    BY <1>1, <1>5, <2>1
  <2> QED BY <2>2 DEF Fits
<1> QED BY <1>6, <1>7

\* pick_effect finds an effect where there is one.
LEMMA PickEffectIs ==
  ASSUME NEW actions \in Dnd!Preferences, NEW keys, NEW offered
  PROVE  Fits(Dnd!PickEffect(actions, keys, offered), Dnd!ToSet(actions) \cap offered)
<1> DEFINE allowed == Dnd!ToSet(actions) \cap offered
           moved == Dnd!Without(allowed, "move", "ctrl" \in keys)
           these == Dnd!Without(moved, "copy", "shift" \in keys)
<1>1. moved \subseteq allowed /\ (moved = {} => allowed = {})
  BY DEF Dnd!Without
<1>2. these \subseteq moved /\ (these = {} => moved = {})
  BY DEF Dnd!Without
<1>3. Dnd!PickEffect(actions, keys, offered) = Dnd!FirstOf(actions, these)
  BY DEF Dnd!PickEffect
<1>4. Fits(Dnd!FirstOf(actions, these), Dnd!ToSet(actions) \cap these)
  BY FirstOfIs
<1>5. Dnd!ToSet(actions) \cap these = these
  BY <1>1, <1>2
<1> HIDE DEF allowed, moved, these
<1>6. these \subseteq allowed /\ (these = {} => allowed = {})
  BY <1>1, <1>2
<1> QED BY <1>3, <1>4, <1>5, <1>6 DEF Fits, allowed

\* An effect is one of those of OLE.
LEMMA PickEffectIn ==
  ASSUME NEW actions \in Dnd!Preferences, NEW keys, NEW offered, Apart
  PROVE  /\ Dnd!PickEffect(actions, keys, offered) \in Effects \cup {"none"}
         /\ Dnd!PickEffect(actions, keys, offered) # None
<1>1. Fits(Dnd!PickEffect(actions, keys, offered), Dnd!ToSet(actions) \cap offered)
  BY PickEffectIs
<1>2. Dnd!ToSet(actions) \subseteq Effects
  <2>1. actions \in Seq(Effects)
    BY PreferencesIn
  <2> QED BY <2>1 DEF Dnd!ToSet
<1> QED BY <1>1, <1>2 DEF Fits, Apart

\* So is a proposed action.
LEMMA ProposedIn ==
  ASSUME NEW id, NEW offered, drag_state \in {None} \cup Transfers
  PROVE  Dnd!Proposed(id, offered) \in Effects \cup {"none"}
<1>1. Dnd!CurrentActions(id) \in Dnd!Preferences
  BY DEF Dnd!CurrentActions, Dnd!Known, Dnd!Preferences, Transfers
<1>2. Fits(Dnd!FirstOf(Dnd!CurrentActions(id), offered), Dnd!ToSet(Dnd!CurrentActions(id)) \cap offered)
  BY <1>1, FirstOfIs
<1>3. Dnd!ToSet(Dnd!CurrentActions(id)) \subseteq Effects
  <2>1. Dnd!CurrentActions(id) \in Seq(Effects)
    BY <1>1, PreferencesIn
  <2> QED BY <2>1 DEF Dnd!ToSet
<1> QED BY <1>2, <1>3 DEF Fits, Dnd!Proposed

----
(* Drag and drop: what the guards of the model say of the stack. *)

\* Busy, Held and Quiet.
LEMMA GuardsAre ==
  ASSUME Stacked
  PROVE  /\ Dnd!Busy <=> Called(frames)
         /\ Dnd!Held <=> Doing(frames) = "dropping"
         /\ Dnd!Quiet <=> Doing(frames) \notin {"entered", "moved", "left"}
         /\ (\E i \in DOMAIN frames : frames[i].op \in {"DoDragDrop", "clear"})
              <=> Doing(frames) = "clear" \/ Outer(frames) # <<>>
<1>1. \A o : Holds(frames, o) <=>
                                 \/ Called(frames) /\ o = "callback"
                                 \/ (Called(frames) \/ Draining(frames)) /\ o = "drain"
                                 \/ Doing(frames) # "idle" /\ o = Doing(frames)
                                 \/ Outer(frames) # <<>> /\ o = "DoDragDrop"
  BY HoldsShaped DEF Stacked
<1>2. Doing(frames) \in {"idle", "clear", "DoDragDrop"} \cup Methods
  BY DEF Stacked, Shaped
<1>3. Doing(frames) = "DoDragDrop" => Outer(frames) # <<>>
  BY Parts DEF Stacked
<1>4. Dnd!Busy <=> Holds(frames, "callback")
  BY DEF Dnd!Busy, Holds
<1>5. Dnd!Held <=> Holds(frames, "dropping")
  BY DEF Dnd!Held, Holds
<1>6. Dnd!Quiet <=> ~Holds(frames, "entered") /\ ~Holds(frames, "moved") /\ ~Holds(frames, "left")
  BY DEF Dnd!Quiet, Holds
<1>7. (\E i \in DOMAIN frames : frames[i].op \in {"DoDragDrop", "clear"})
        <=> Holds(frames, "clear") \/ Holds(frames, "DoDragDrop")
  BY DEF Holds
<1> QED BY <1>1, <1>2, <1>3, <1>4, <1>5, <1>6, <1>7 DEF Methods

\* The frame on top.
LEMMA TopIs ==
  ASSUME Stacked, NEW o, Dnd!Top(o)
  PROVE  /\ frames # <<>> /\ Head(frames).op = o
         /\ o = "callback" => Called(frames)
         /\ o = "drain" => Draining(frames)
         /\ o \notin {"callback", "drain"} =>
              /\ ~Called(frames) /\ ~Draining(frames) /\ Doing(frames) = o
              /\ Now(frames) = Head(frames) /\ Within(frames) = frames
<1>1. frames # <<>> /\ Head(frames).op = o
  BY DEF Dnd!Top
<1>2. CASE o \in {"callback", "drain"}
  BY <1>1, <1>2 DEF Called, Draining
<1>3. CASE o \notin {"callback", "drain"}
  <2>1. ~Called(frames) /\ ~Draining(frames)
    BY <1>1, <1>3 DEF Called, Draining
  <2>2. Within(frames) = frames
    BY <2>1 DEF Within
  <2> QED BY <1>1, <1>3, <2>1, <2>2 DEF Doing, Now
<1> QED BY <1>1, <1>2, <1>3

\* Where calls come in from outside.
LEMMA PumpsIs ==
  ASSUME Stacked, Mannered, env \in Environments, Dnd!Pumps
  PROVE  /\ ~Called(frames) /\ ~Draining(frames) /\ Doing(frames) \in {"idle", "DoDragDrop"}
         /\ Bottom(frames) /\ Outer(frames) = frames /\ Now(frames) = Head(frames)
         /\ frames # <<>> => Head(frames).effect = None
         /\ frames = <<>> <=> Doing(frames) = "idle"
         /\ frames # <<>> => Dnd!Top("DoDragDrop")
<1>1. frames = <<>> \/ (Dnd!Top("DoDragDrop") /\ Head(frames).effect = None)
  BY DEF Dnd!Pumps, Mannered
<1>2. Bottom(frames)
  <2>1. CASE frames = <<>>
    BY <2>1 DEF Bottom
  <2>2. CASE Dnd!Top("DoDragDrop")
    <3>1. Doing(frames) = "DoDragDrop" /\ Within(frames) = frames
      BY <2>2, TopIs
    <3>2. Outer(frames) = frames
      BY <3>1 DEF Outer, Methods
    <3> QED BY <3>2 DEF Stacked, Shaped
  <2> QED BY <1>1, <2>1, <2>2
<1> QED BY <1>1, <1>2, Alone DEF Stacked

\* send_event from below a callback.
LEMMA SendEventIs ==
  ASSUME Stacked, ~Called(frames), NEW e \in DragEvents,
         NEW r \in Seq(DragFrames), Bottom(r), r # <<>> => Head(r).effect = None,
         NEW f \in DragFrames, f.op \in Methods \/ (f.op = "clear" /\ r = <<>>),
         Dnd!SendEvent(e, Dnd!Push(f, r))
  PROVE  /\ Stacked' /\ Called(frames') /\ ~Draining(frames') /\ Head(frames').event = e
         /\ Doing(frames') = f.op /\ Now(frames') = f /\ Outer(frames') = r
         /\ buffered' = buffered
<1>1. ~Dnd!Busy
  BY GuardsAre
<1>2. /\ frames' = Dnd!Push(Dnd!Callback(e), Dnd!Push(Dnd!Frame("drain", e, None), Dnd!Push(f, r)))
      /\ buffered' = buffered
  BY <1>1 DEF Dnd!SendEvent
<1> QED BY <1>2, Sends DEF Stacked

\* Windows and ids in events.
LEMMA EventsMade ==
  ASSUME NEW kind \in DragKinds, NEW w \in Windows, NEW id \in Nat,
         NEW action \in Effects \cup {None, "none"}
  PROVE  /\ Dnd!Event(kind, w, id, action) \in DragEvents
         /\ Dnd!Event(kind, w, id, action).kind = kind
         /\ Dnd!Event(kind, w, id, action).window = w
         /\ Dnd!Event(kind, w, id, action).id = id
BY DEF Dnd!Event, DragEvents

----
(* Drag and drop: the actions keep the invariant. *)

\* A callback returns.
LEMMA ReturnedKeeps ==
  ASSUME Apart, Mannered, DragInv, Dnd!Returned
  PROVE  DragInv'
<1> USE DEF Dnd!runner, Dnd!targets, Dnd!world, Dnd!app
<1>1. Stacked /\ Called(frames) /\ Shaped(frames) /\ frames \in Seq(DragFrames)
  BY TopIs DEF Dnd!Returned, DragInv, Stacked
<1>2. frames' = Tail(frames)
  BY DEF Dnd!Returned
<1>3. /\ Stacked' /\ ~Called(frames') /\ Draining(frames')
      /\ Doing(frames') = Doing(frames) /\ Now(frames') = Now(frames) /\ Outer(frames') = Outer(frames)
  BY <1>1, <1>2, Returns DEF Stacked, Alike
<1>4. UNCHANGED <<buffered, drag_state, asked_drag, own_drag, pending_source_drag_cleanup, active,
                  ids, drags, ole, env, answer, panicked>>
  BY DEF Dnd!Returned
<1>5. (DragTyped /\ Activated /\ Present /\ Needed /\ Deferred /\ Landed /\ Answering /\ Decided)'
  <2>1. DragTyped'
    BY <1>4 DEF DragInv, DragTyped
  <2>2. Activated' /\ Present' /\ Needed'
    BY <1>3, <1>4 DEF DragInv, Activated, Present, Needed, Over, Hovering
  <2>3. Deferred'
    BY <1>1, <1>3, <1>4 DEF DragInv, Deferred
  <2>4. Landed' /\ Decided'
    BY <1>3, <1>4 DEF DragInv, Landed, Hovering, Decided
  <2>5. Answering'
    BY <1>3, <1>4 DEF DragInv, Answering, Hovering
  <2> QED BY <2>1, <2>2, <2>3, <2>4, <2>5
<1>6. Speaking' /\ Buffered'
  BY <1>3, <1>4 DEF DragInv, Speaking, Buffered
<1>7. Sourced'
  <2>1. waiting' = waiting \/ Said.kind \in {"OutgoingDragDropped", "OutgoingDragCanceled"}
    BY DEF Dnd!Returned, Dnd!TheEvent, Said
  <2>2. CASE waiting' = waiting
    BY <2>2, <1>3, <1>4 DEF DragInv, Sourced
  <2>3. CASE Said.kind \in {"OutgoingDragDropped", "OutgoingDragCanceled"}
    <3>1. Doing(frames) = "clear"
      BY <2>3, <1>1 DEF DragInv, Speaking, Shaped, Methods
    <3>2. Outer(frames) = <<>>
      BY <3>1, <1>1, Parts
    <3>3. asked_drag = None
      BY <3>1 DEF DragInv, Sourced
    <3> QED BY <3>1, <3>2, <1>3, <1>4 DEF DragInv, Sourced
  <2> QED BY <2>1, <2>2, <2>3
<1> QED BY <1>3, <1>4, <1>5, <1>6, <1>7 DEF DragInv

\* The drain dispatches what is buffered, and then does the removal that waited.
LEMMA DrainKeeps ==
  ASSUME Apart, Mannered, DragInv, Dnd!Drain
  PROVE  DragInv'
<1> USE DEF Dnd!runner, Dnd!targets, Dnd!world, Dnd!app
<1>1. Stacked /\ ~Called(frames) /\ Draining(frames) /\ Shaped(frames) /\ frames \in Seq(DragFrames)
  BY TopIs, Parts DEF Dnd!Drain, DragInv, Stacked, Called, Draining
<1>2. UNCHANGED <<asked_drag, own_drag, active, ids, drags, ole, env, answer, panicked, waiting>>
  BY DEF Dnd!Drain
<1>3. CASE buffered # <<>>
  <2> DEFINE e == Head(buffered)
  <2>1. frames' = Dnd!Push(Dnd!Callback(e), frames) /\ buffered' = Tail(buffered)
    BY <1>3 DEF Dnd!Drain
  <2>2. UNCHANGED <<drag_state, pending_source_drag_cleanup>>
    BY <1>3 DEF Dnd!Drain
  <2>3. buffered \in Seq(DragEvents) /\ \A i \in DOMAIN buffered : buffered[i].kind = "DataTransferReceived"
    BY DEF DragInv, DragTyped, Buffered
  <2>4. /\ e \in DragEvents /\ e.kind = "DataTransferReceived" /\ Tail(buffered) \in Seq(DragEvents)
        /\ \A i \in DOMAIN Tail(buffered) : Tail(buffered)[i].kind = "DataTransferReceived"
    <3>1. /\ Len(buffered) \in Nat /\ Len(buffered) > 0 /\ DOMAIN buffered = 1 .. Len(buffered)
          /\ e = buffered[1]
      BY <1>3, <2>3
    <3>2. /\ e \in DragEvents /\ Tail(buffered) \in Seq(DragEvents)
          /\ Len(Tail(buffered)) = Len(buffered) - 1
          /\ \A i \in 1 .. Len(Tail(buffered)) : Tail(buffered)[i] = buffered[i + 1]
      BY <1>3, <2>3, HeadTailProperties
    <3>3. DOMAIN Tail(buffered) = 1 .. Len(buffered) - 1
      BY <3>2
    <3>4. \A i \in 1 .. Len(buffered) - 1 : i + 1 \in 1 .. Len(buffered)
      BY <3>1
    <3>5. e.kind = "DataTransferReceived"
      BY <3>1, <2>3
    <3> QED BY <3>1, <3>2, <3>3, <3>4, <3>5, <2>3
  <2> HIDE DEF e
  <2>5. /\ Stacked' /\ Called(frames') /\ ~Draining(frames') /\ Head(frames').event = e
        /\ Doing(frames') = Doing(frames) /\ Now(frames') = Now(frames)
        /\ Outer(frames') = Outer(frames)
    BY <1>1, <2>1, <2>4, Dispatches DEF Stacked, Alike
  <2>6. DragTyped'
    BY <1>2, <2>1, <2>2, <2>4 DEF DragInv, DragTyped
  <2>7. Activated' /\ Present' /\ Needed'
    BY <1>2, <2>2, <2>5 DEF DragInv, Activated, Present, Needed, Over, Hovering
  <2>8. Deferred' /\ Landed' /\ Decided'
    BY <1>1, <1>2, <2>2, <2>5 DEF DragInv, Deferred, Landed, Hovering, Decided
  <2>9. Speaking' /\ Buffered'
    BY <2>1, <2>4, <2>5 DEF Speaking, Said, Buffered
  <2>10. Answering' /\ Sourced'
    BY <1>2, <2>2, <2>5 DEF DragInv, Answering, Hovering, Sourced
  <2> QED BY <1>2, <2>5, <2>6, <2>7, <2>8, <2>9, <2>10 DEF DragInv
<1>4. CASE buffered = <<>>
  <2>1. frames' = Tail(frames) /\ buffered' = buffered /\ pending_source_drag_cleanup' = None
    BY <1>4 DEF Dnd!Drain
  <2>2. /\ Stacked' /\ ~Called(frames') /\ ~Draining(frames')
        /\ Doing(frames') = Doing(frames) /\ Now(frames') = Now(frames)
        /\ Outer(frames') = Outer(frames)
    BY <1>1, <2>1, Drained DEF Stacked, Alike
  <2>3. drag_state' = IF pending_source_drag_cleanup = None THEN drag_state ELSE None
    BY <1>4 DEF Dnd!Drain, Dnd!RemoveDataTransfer, Dnd!Known, DragInv, Deferred
  <2>4. pending_source_drag_cleanup # None => Doing(frames) \in {"DoDragDrop", "clear"} /\ ~Hovering
    BY DEF DragInv, Deferred, Landed
  <2>5. DragTyped'
    BY <1>2, <2>1, <2>3 DEF DragInv, DragTyped
  <2>6. Activated'
    BY <1>2, <2>2, <2>3, <2>4 DEF DragInv, Activated, Over, Hovering, Apart
  <2>7. Present' /\ Needed'
    BY <1>2, <2>1, <2>2, <2>3, <2>4 DEF DragInv, Present, Needed, Hovering, Reading
  <2>8. Deferred' /\ Landed' /\ Decided'
    BY <1>2, <2>1, <2>2 DEF DragInv, Deferred, Landed, Hovering, Decided
  <2>9. Speaking' /\ Buffered'
    BY <1>4, <2>1, <2>2 DEF Speaking, Buffered
  <2>10. Answering' /\ Sourced'
    BY <1>2, <2>2, <2>3, <2>4 DEF DragInv, Answering, Hovering, Sourced
  <2> QED BY <1>2, <2>2, <2>5, <2>6, <2>7, <2>8, <2>9, <2>10 DEF DragInv
<1> QED BY <1>3, <1>4

\* The application answers: not in a drop, so that nothing is borrowed.
LEMMA SetValidKeeps ==
  ASSUME Apart, Mannered, DragInv, Dnd!SetValidDndActions
  PROVE  DragInv'
<1> USE DEF Dnd!runner, Dnd!targets, Dnd!world, Dnd!app
<1>1. Stacked /\ Called(frames) /\ Said.kind \in env.answers /\ env \in Environments
  BY TopIs DEF Dnd!SetValidDndActions, Dnd!Calling, Dnd!TheEvent, Said, DragInv, DragTyped
<1>2. Said.kind \notin Final
  BY <1>1 DEF Mannered
<1>3. ~Dnd!Held
  BY <1>1, <1>2, GuardsAre DEF DragInv, Speaking, Final
<1>4. Dnd!Known(Said.id) /\ panicked' = panicked
  BY <1>3 DEF Dnd!SetValidDndActions, Dnd!TheEvent, Said
<1>5. PICK actions \in Dnd!Preferences :
        drag_state' = [drag_state EXCEPT !.actions = actions] /\ answer' = actions
  BY <1>3 DEF Dnd!SetValidDndActions
<1>6. drag_state \in Transfers /\ drag_state.id = Said.id
  BY <1>4 DEF Dnd!Known, DragInv, DragTyped
<1>7. /\ drag_state' \in Transfers /\ drag_state'.id = drag_state.id
      /\ drag_state'.actions = actions /\ drag_state' # None
  BY <1>5, <1>6 DEF Transfers, Apart
<1>8. UNCHANGED <<own_drag, asked_drag, pending_source_drag_cleanup, buffered, active, ids,
                  frames, ole, drags, env, waiting>>
  BY DEF Dnd!SetValidDndActions
<1>9. Hovering => Doing(frames) \in {"entered", "moved", "left"}
  <2>1. Said.kind # "DataTransferReceived"
    BY <1>2 DEF Final
  <2>2. Doing(frames) # "try_drag"
    BY <1>1, <1>6, <2>1 DEF DragInv, Speaking, Transfers
  <2>3. Doing(frames) \in Methods \cup {"clear"}
    BY <1>1 DEF Stacked, Shaped
  <2> QED BY <2>2, <2>3 DEF DragInv, Landed, Reading, Methods
<1>10. DragTyped' /\ Stacked'
  BY <1>5, <1>7, <1>8 DEF DragInv, DragTyped, Stacked
<1>11. Activated'
  BY <1>6, <1>7, <1>8 DEF DragInv, Activated, Over
<1>12. Present' /\ Needed' /\ Deferred'
  <2>1. drag_state # None
    BY <1>6 DEF Apart
  <2> QED BY <2>1, <1>7, <1>8 DEF DragInv, Present, Needed, Deferred, Hovering
<1>13. Landed' /\ Decided' /\ Speaking' /\ Buffered' /\ Sourced'
  BY <1>8 DEF DragInv, Landed, Decided, Speaking, Said, Buffered, Sourced, Hovering
<1>14. Answering'
  BY <1>5, <1>7, <1>8, <1>9 DEF Answering, Hovering
<1> QED BY <1>4, <1>10, <1>11, <1>12, <1>13, <1>14 DEF DragInv

\* What is fetched is buffered behind the callback.
LEMMA FetchKeeps ==
  ASSUME Apart, Mannered, DragInv, Dnd!FetchDataTransfer
  PROVE  DragInv'
<1> USE DEF Dnd!runner, Dnd!targets, Dnd!world
<1>1. Stacked /\ Called(frames) /\ Dnd!Known(Said.id)
  BY TopIs DEF Dnd!FetchDataTransfer, Dnd!Calling, Dnd!TheEvent, Said, DragInv
<1>2. drag_state \in Transfers
  BY <1>1 DEF Dnd!Known, DragInv, DragTyped
<1>3. UNCHANGED <<drag_state, own_drag, asked_drag, pending_source_drag_cleanup, active, ids,
                  frames, ole, drags, env, waiting, answer, panicked>>
  BY DEF Dnd!FetchDataTransfer
<1> DEFINE e == Dnd!Event("DataTransferReceived", drag_state.window, Said.id, None)
<1>4. buffered' = Append(buffered, e)
  BY DEF Dnd!FetchDataTransfer, Dnd!TheEvent, Said
<1>5. e \in DragEvents /\ e.kind = "DataTransferReceived"
  <2>1. drag_state.window \in Windows /\ Said.id \in Nat
    BY <1>1, <1>2 DEF Transfers, Dnd!Known
  <2> QED BY <2>1, EventsMade DEF DragKinds
<1> HIDE DEF e
<1>6. /\ buffered' \in Seq(DragEvents)
      /\ \A i \in DOMAIN buffered' : buffered'[i].kind = "DataTransferReceived"
  BY <1>4, <1>5 DEF DragInv, DragTyped, Buffered
<1>7. DragTyped' /\ Stacked'
  BY <1>3, <1>6 DEF DragInv, DragTyped, Stacked
<1>8. Activated' /\ Present' /\ Needed' /\ Deferred'
  BY <1>3 DEF DragInv, Activated, Present, Needed, Deferred, Hovering, Over
<1>9. Landed' /\ Decided' /\ Speaking' /\ Sourced' /\ Answering'
  BY <1>3 DEF DragInv, Landed, Decided, Speaking, Said, Sourced, Answering, Hovering
<1>10. Buffered'
  BY <1>1, <1>3, <1>6 DEF Buffered
<1> QED BY <1>3, <1>7, <1>8, <1>9, <1>10 DEF DragInv

\* The application asks for a drag: none is under way.
LEMMA StartKeeps ==
  ASSUME Apart, Mannered, DragInv, Dnd!StartDrag
  PROVE  DragInv'
<1>1. Stacked /\ Called(frames) /\ Said.kind = "other" /\ env.patient = TRUE /\ ids \in Nat
  BY TopIs DEF Dnd!StartDrag, Dnd!Calling, Dnd!TheEvent, Said, DragInv, DragTyped, Mannered
<1>2. waiting = {} /\ ole = None
  BY <1>1 DEF Dnd!StartDrag
<1>3. PICK offered \in Offers : asked_drag' = [id |-> ids + 1, allowed |-> offered]
  BY DEF Dnd!StartDrag
<1>4. asked_drag' \in Asked /\ asked_drag'.id = ids + 1
  BY <1>1, <1>3 DEF Asked, Mannered
<1>5. /\ ids' = ids + 1 /\ drags' = drags + 1 /\ waiting' = waiting \cup {ids + 1}
      /\ UNCHANGED <<drag_state, own_drag, pending_source_drag_cleanup, buffered, active,
                     frames, ole, env, answer, panicked>>
  BY DEF Dnd!StartDrag
<1>6. own_drag = None
  <2>1. Outer(frames) = <<>>
    BY <1>2 DEF DragInv, Sourced
  <2>2. Doing(frames) # "clear"
    BY <1>1 DEF DragInv, Speaking
  <2> QED BY <2>1, <2>2 DEF DragInv, Sourced
<1>7. DragTyped' /\ Stacked'
  BY <1>1, <1>4, <1>5 DEF DragInv, DragTyped, Stacked
<1>8. Activated' /\ Present' /\ Needed' /\ Deferred'
  BY <1>5 DEF DragInv, Activated, Present, Needed, Deferred, Hovering, Over
<1>9. Landed' /\ Decided' /\ Speaking' /\ Buffered' /\ Answering'
  BY <1>5 DEF DragInv, Landed, Decided, Speaking, Said, Buffered, Answering, Hovering
<1>10. Sourced'
  BY <1>2, <1>4, <1>5, <1>6 DEF DragInv, Sourced
<1> QED BY <1>5, <1>7, <1>8, <1>9, <1>10 DEF DragInv

\* The method on top returns to OLE.
LEMMA MethodReturns ==
  ASSUME Stacked, ~Called(frames), ~Draining(frames), Doing(frames) \in Methods,
         frames' = Tail(frames)
  PROVE  /\ Stacked' /\ ~Called(frames') /\ ~Draining(frames') /\ Outer(frames') = Outer(frames)
         /\ Doing(frames') = (IF Outer(frames) = <<>> THEN "idle" ELSE "DoDragDrop")
         /\ Now(frames') = Head(Outer(frames))
         /\ Outer(frames) # <<>> => Head(Outer(frames)).effect = None
<1>1. Tail(frames) = Outer(frames) /\ Outer(frames) \in Seq(DragFrames) /\ Bottom(Outer(frames))
  BY Ends DEF Stacked
<1>2. Outer(frames) # <<>> => Head(Outer(frames)).effect = None
  BY DEF Stacked, Shaped
<1> QED BY <1>1, <1>2, Alone DEF Stacked

\* A drag comes in from outside.
LEMMA BeginsKeeps ==
  ASSUME Apart, Mannered, DragInv, Dnd!Begins
  PROVE  DragInv'
<1> USE DEF Dnd!runner, Dnd!targets, Dnd!app
<1>1. ole = None /\ asked_drag = None
  BY DEF Dnd!Begins, Mannered, DragInv, DragTyped
<1>2. PICK offered \in Offers :
        ole' = [own |-> FALSE, allowed |-> offered, over |-> None, effect |-> "none", moves |-> 0]
  BY DEF Dnd!Begins
<1>3. ole' \in Carried /\ ole'.over = None
  BY <1>2 DEF Carried, Mannered
<1>4. /\ drags' = drags + 1
      /\ UNCHANGED <<drag_state, own_drag, asked_drag, pending_source_drag_cleanup, buffered,
                     active, ids, frames, env, waiting, answer, panicked>>
  BY DEF Dnd!Begins
<1>5. ~Hovering /\ ~Hovering' /\ \A w \in Windows : ~Over(w) /\ ~Over(w)'
  BY <1>1, <1>3 DEF Hovering, Over, Apart
<1>6. DragTyped' /\ Stacked'
  BY <1>3, <1>4 DEF DragInv, DragTyped, Stacked
<1>7. Activated' /\ Present' /\ Needed' /\ Deferred'
  BY <1>4, <1>5 DEF DragInv, Activated, Present, Needed, Deferred
<1>8. Landed' /\ Decided' /\ Speaking' /\ Buffered' /\ Answering'
  BY <1>4, <1>5 DEF DragInv, Landed, Decided, Speaking, Said, Buffered, Answering
<1>9. Sourced'
  BY <1>1, <1>4 DEF DragInv, Sourced
<1> QED BY <1>4, <1>6, <1>7, <1>8, <1>9 DEF DragInv

\* It ends away from the windows.
LEMMA EndsOutsideKeeps ==
  ASSUME Apart, Mannered, DragInv, Dnd!EndsOutside
  PROVE  DragInv'
<1> USE DEF Dnd!runner, Dnd!targets, Dnd!app
<1>1. ole # None /\ ole.own # TRUE /\ ole.over = None /\ ole' = None
  BY DEF Dnd!EndsOutside, DragInv, DragTyped, Carried
<1>2. UNCHANGED <<drags, drag_state, own_drag, asked_drag, pending_source_drag_cleanup, buffered,
                  active, ids, frames, env, waiting, answer, panicked>>
  BY DEF Dnd!EndsOutside
<1>3. ~Hovering /\ ~Hovering' /\ \A w \in Windows : ~Over(w) /\ ~Over(w)'
  BY <1>1 DEF Hovering, Over, Apart
<1>4. DragTyped' /\ Stacked'
  BY <1>1, <1>2 DEF DragInv, DragTyped, Stacked
<1>5. Activated' /\ Present' /\ Needed' /\ Deferred'
  BY <1>2, <1>3 DEF DragInv, Activated, Present, Needed, Deferred
<1>6. Landed' /\ Decided' /\ Speaking' /\ Buffered' /\ Answering'
  BY <1>2, <1>3 DEF DragInv, Landed, Decided, Speaking, Said, Buffered, Answering
<1>7. Sourced'
  BY <1>1, <1>2 DEF DragInv, Sourced
<1> QED BY <1>2, <1>4, <1>5, <1>6, <1>7 DEF DragInv

\* The effect of DragEnter and DragOver is picked from what the application set.
LEMMA AnsweredKeeps ==
  ASSUME Apart, Mannered, DragInv, Dnd!Answered
  PROVE  DragInv'
<1> USE DEF Dnd!runner, Dnd!targets, Dnd!app
<1>1. /\ Stacked /\ ~Called(frames) /\ ~Draining(frames) /\ Doing(frames) \in {"entered", "moved"}
      /\ Now(frames) = Head(frames)
  BY TopIs DEF Dnd!Answered, DragInv
<1>2. frames' = Tail(frames) /\ Doing(frames) \in Methods
  BY <1>1 DEF Dnd!Answered, Methods
<1>3. /\ Stacked' /\ ~Called(frames') /\ ~Draining(frames') /\ Outer(frames') = Outer(frames)
      /\ Doing(frames') \in {"idle", "DoDragDrop"}
      /\ Doing(frames') = "DoDragDrop" => Now(frames').effect = None
      /\ Outer(frames) # <<>> => Head(Outer(frames)).effect = None
  BY <1>1, <1>2, MethodReturns
<1>4. Hovering /\ drag_state # None /\ drag_state.id = Now(frames).event.id
  BY <1>1 DEF DragInv, Landed, Present
<1>5. Dnd!CurrentActions(Dnd!TheEvent.id) = drag_state.actions /\ drag_state.actions = answer
  BY <1>1, <1>4 DEF Dnd!CurrentActions, Dnd!Known, Dnd!TheEvent, DragInv, Answering
<1> DEFINE effect == Dnd!PickEffect(answer, Head(frames).keys, ole.allowed)
<1>6. ole' = [ole EXCEPT !.effect = effect]
  BY <1>5 DEF Dnd!Answered
<1>7. answer \in Dnd!Preferences
  BY DEF DragInv, DragTyped
<1>8. /\ effect \in Effects \cup {"none"}
      /\ Fits(effect, Dnd!ToSet(answer) \cap ole.allowed)
  BY <1>7, PickEffectIs, PickEffectIn
<1> HIDE DEF effect
<1>9. ole \in Carried
  BY <1>4 DEF Hovering, DragInv, DragTyped
<1>10. /\ ole' \in Carried /\ ole'.own = ole.own /\ ole'.over = ole.over
       /\ ole'.allowed = ole.allowed /\ ole'.effect = effect
  BY <1>6, <1>8, <1>9 DEF Carried
<1>11. ole' # None /\ ole # None
  BY <1>9, <1>10 DEF Apart
<1>12. UNCHANGED <<drags, drag_state, own_drag, asked_drag, pending_source_drag_cleanup, buffered,
                   active, ids, env, waiting, answer, panicked>>
  BY DEF Dnd!Answered
<1>13. Hovering' /\ \A w \in Windows : Over(w)' <=> Over(w)
  BY <1>4, <1>10, <1>11 DEF Hovering, Over
<1>14. pending_source_drag_cleanup = None /\ buffered = <<>> /\ asked_drag = None
  BY <1>1, <1>11 DEF DragInv, Deferred, Buffered, Sourced
<1>15. DragTyped'
  BY <1>10, <1>12 DEF DragInv, DragTyped
<1>16. Activated'
  BY <1>1, <1>3, <1>12, <1>13 DEF DragInv, Activated
<1>17. Present' /\ Needed' /\ Deferred' /\ Landed' /\ Decided'
  BY <1>3, <1>4, <1>12, <1>13, <1>14 DEF Present, Needed, Deferred, Landed, Decided, Reading
<1>18. Speaking' /\ Buffered'
  BY <1>3, <1>12, <1>14 DEF Speaking, Buffered
<1>19. Answering'
  BY <1>5, <1>8, <1>10, <1>12 DEF Answering
<1>20. Sourced'
  <2>1. Outer(frames) # <<>> => ole.own = TRUE
    BY <1>1, <1>3 DEF DragInv, Sourced, Reading
  <2> QED BY <1>1, <1>3, <1>10, <1>11, <1>12, <1>14, <2>1 DEF DragInv, Sourced
<1> QED BY <1>3, <1>12, <1>15, <1>16, <1>17, <1>18, <1>19, <1>20 DEF DragInv

\* The drag has left the window.
LEMMA LeaveEndsKeeps ==
  ASSUME Apart, Mannered, DragInv, Dnd!LeaveEnds
  PROVE  DragInv'
<1> USE DEF Dnd!runner, Dnd!targets, Dnd!app
<1>1. /\ Stacked /\ ~Called(frames) /\ ~Draining(frames) /\ Doing(frames) = "left"
      /\ Now(frames) = Head(frames)
  BY TopIs DEF Dnd!LeaveEnds, DragInv
<1>2. ~Dnd!Held
  BY <1>1, GuardsAre
<1>3. frames' = Tail(frames) /\ Doing(frames) \in Methods
  BY <1>1, <1>2 DEF Dnd!LeaveEnds, Methods
<1>4. /\ Stacked' /\ ~Called(frames') /\ ~Draining(frames') /\ Outer(frames') = Outer(frames)
      /\ Doing(frames') \in {"idle", "DoDragDrop"}
      /\ Doing(frames') = "DoDragDrop" => Now(frames').effect = None
      /\ Outer(frames) # <<>> => Head(Outer(frames)).effect = None
  BY <1>1, <1>3, MethodReturns
<1>5. Hovering /\ drag_state # None /\ drag_state.id = Now(frames).event.id
  BY <1>1 DEF DragInv, Landed, Present
<1>6. drag_state' = None
  BY <1>1, <1>2, <1>5 DEF Dnd!LeaveEnds, Dnd!RemoveDataTransfer, Dnd!Known, Dnd!TheEvent
<1>7. ole' = [ole EXCEPT !.over = None, !.effect = "none"]
  BY <1>2 DEF Dnd!LeaveEnds
<1>8. ole \in Carried
  BY <1>5 DEF Hovering, DragInv, DragTyped
<1>9. ole' \in Carried /\ ole'.own = ole.own /\ ole'.over = None
  BY <1>7, <1>8 DEF Carried
<1>10. ole' # None /\ ole # None
  BY <1>8, <1>9 DEF Apart
<1>11. UNCHANGED <<drags, own_drag, asked_drag, pending_source_drag_cleanup, buffered,
                   active, ids, env, waiting, answer, panicked>>
  BY <1>2 DEF Dnd!LeaveEnds
<1>12. ~Hovering' /\ \A w \in Windows : ~Over(w)'
  BY <1>9 DEF Hovering, Over, Apart
<1>13. pending_source_drag_cleanup = None /\ buffered = <<>> /\ asked_drag = None
  BY <1>1, <1>10 DEF DragInv, Deferred, Buffered, Sourced
<1>14. DragTyped'
  BY <1>6, <1>9, <1>11 DEF DragInv, DragTyped
<1>15. Activated'
  BY <1>1, <1>11, <1>12 DEF DragInv, Activated
<1>16. Present' /\ Needed' /\ Deferred' /\ Landed' /\ Decided' /\ Answering'
  BY <1>4, <1>6, <1>11, <1>12, <1>13
  DEF Present, Needed, Deferred, Landed, Decided, Answering, Reading
<1>17. Speaking' /\ Buffered'
  BY <1>4, <1>11, <1>13 DEF Speaking, Buffered
<1>18. Sourced'
  <2>1. Outer(frames) # <<>> => ole.own = TRUE
    BY <1>1, <1>4 DEF DragInv, Sourced, Reading
  <2> QED BY <1>1, <1>4, <1>9, <1>10, <1>11, <1>13, <2>1 DEF DragInv, Sourced
<1> QED BY <1>4, <1>11, <1>14, <1>15, <1>16, <1>17, <1>18 DEF DragInv

\* The application's drag is over.
LEMMA ClearKeeps ==
  ASSUME Apart, Mannered, DragInv, Dnd!ClearOnDrop
  PROVE  DragInv'
<1> USE DEF Dnd!targets, Dnd!app, Dnd!world
<1>1. /\ Stacked /\ ~Called(frames) /\ ~Draining(frames) /\ Doing(frames) = "clear"
      /\ Within(frames) = frames
  BY TopIs DEF Dnd!ClearOnDrop, DragInv
<1>2. frames' = <<>>
  BY <1>1 DEF Dnd!ClearOnDrop, Stacked, Shaped
<1>3. <<>> \in Seq(DragFrames) /\ Bottom(<<>>)
  BY DEF Bottom
<1>4. /\ Stacked' /\ ~Called(frames') /\ ~Draining(frames') /\ Outer(frames') = <<>>
      /\ Doing(frames') = "idle"
  BY <1>2, <1>3, Alone DEF Stacked
<1>5. pending_source_drag_cleanup = None /\ buffered = <<>> /\ ~Hovering
  BY <1>1 DEF DragInv, Deferred, Buffered, Landed
<1>6. drag_state = None
  BY <1>1, <1>5 DEF DragInv, Needed, Reading
<1>7. /\ own_drag' = None
      /\ UNCHANGED <<drags, drag_state, asked_drag, pending_source_drag_cleanup, buffered,
                     active, ids, env, waiting, answer, panicked, ole>>
  BY DEF Dnd!ClearOnDrop
<1>8. DragTyped'
  BY <1>7 DEF DragInv, DragTyped
<1>9. Activated'
  BY <1>1, <1>4, <1>7 DEF DragInv, Activated, Over
<1>10. Present' /\ Needed' /\ Deferred' /\ Landed' /\ Decided' /\ Answering'
  BY <1>4, <1>5, <1>6, <1>7
  DEF Present, Needed, Deferred, Landed, Decided, Answering, Reading, Hovering
<1>11. Speaking' /\ Buffered'
  BY <1>4, <1>5, <1>7 DEF Speaking, Buffered
<1>12. Sourced'
  BY <1>4, <1>7 DEF DragInv, Sourced
<1> QED BY <1>4, <1>7, <1>8, <1>9, <1>10, <1>11, <1>12 DEF DragInv

\* The effect of the drop is picked, and the target told.
LEMMA DecideKeeps ==
  ASSUME Apart, Mannered, DragInv, Dnd!Decide
  PROVE  DragInv'
<1> USE DEF Dnd!runner, Dnd!targets, Dnd!app, Dnd!world
<1>1. /\ Stacked /\ ~Called(frames) /\ ~Draining(frames) /\ Doing(frames) = "decide"
      /\ Now(frames) = Head(frames)
  BY TopIs DEF Dnd!Decide, DragInv
<1>2. /\ Tail(frames) = Outer(frames) /\ Outer(frames) \in Seq(DragFrames)
      /\ Bottom(Outer(frames)) /\ (Outer(frames) # <<>> => Head(Outer(frames)).effect = None)
  <2>1. Doing(frames) \in Methods /\ Shaped(frames) /\ frames \in Seq(DragFrames)
    BY <1>1 DEF Methods, Stacked
  <2> QED BY <1>1, <2>1, Ends DEF Shaped
<1>3. Now(frames) \in DragFrames
  BY <1>1, Parts DEF Stacked
<1> DEFINE f == Head(frames)
           effect == Dnd!PickEffect(Dnd!CurrentActions(f.event.id), f.keys, f.allowed)
           action == Dnd!Proposed(f.event.id, f.allowed)
           e == IF effect = "none"
                THEN Dnd!Event("DragLeft", f.event.window, f.event.id, None)
                ELSE Dnd!Event("DragDropped", f.event.window, f.event.id, action)
           g == Dnd!Frame("dropping", e, effect)
<1>4. Dnd!SendEvent(e, Dnd!Push(g, Tail(frames)))
  BY DEF Dnd!Decide
<1>5. /\ f.event.id \in Nat /\ f.event.window \in Windows /\ f = Now(frames)
  BY <1>1, <1>3 DEF DragFrames, DragEvents
<1>6. effect \in Effects \cup {"none"} /\ effect # None /\ action \in Effects \cup {"none"}
  <2>1. Dnd!CurrentActions(f.event.id) \in Dnd!Preferences
    BY DEF Dnd!CurrentActions, Dnd!Known, Dnd!Preferences, Transfers, DragInv, DragTyped
  <2>2. effect \in Effects \cup {"none"} /\ effect # None
    BY <2>1, PickEffectIn
  <2>3. action \in Effects \cup {"none"}
    BY ProposedIn DEF DragInv, DragTyped
  <2> QED BY <2>2, <2>3
<1> HIDE DEF effect, action
<1>7. /\ e \in DragEvents /\ e.id = f.event.id
      /\ e.kind = IF effect = "none" THEN "DragLeft" ELSE "DragDropped"
  <2>1. CASE effect = "none"
    BY <2>1, <1>5, EventsMade DEF DragKinds
  <2>2. CASE effect # "none"
    BY <2>2, <1>5, <1>6, EventsMade DEF DragKinds
  <2> QED BY <2>1, <2>2
<1> HIDE DEF e, f
<1>8. g \in DragFrames /\ g.op = "dropping" /\ g.event = e /\ g.effect = effect
  BY <1>6, <1>7, FramesMade DEF Methods
<1> HIDE DEF g
<1>9. /\ Stacked' /\ Called(frames') /\ ~Draining(frames') /\ Head(frames').event = e
      /\ Doing(frames') = "dropping" /\ Now(frames') = g /\ Outer(frames') = Outer(frames)
      /\ buffered' = buffered
  BY <1>1, <1>2, <1>4, <1>7, <1>8, SendEventIs DEF Methods
<1>10. UNCHANGED <<drag_state, own_drag, asked_drag, pending_source_drag_cleanup,
                   active, ids, env, waiting, answer, panicked, ole, drags>>
  BY DEF Dnd!Decide
<1>11. DragTyped'
  BY <1>9, <1>10 DEF DragInv, DragTyped
<1>12. Activated'
  BY <1>1, <1>9, <1>10 DEF DragInv, Activated, Over
<1>13. Present' /\ Needed' /\ Landed'
  BY <1>1, <1>5, <1>7, <1>8, <1>9, <1>10 DEF DragInv, Present, Needed, Landed, Reading, Hovering
<1>14. Deferred'
  BY <1>1, <1>9, <1>10 DEF DragInv, Deferred
<1>15. Speaking' /\ Buffered'
  BY <1>7, <1>8, <1>9 DEF DragInv, Speaking, Said, Buffered
<1>16. Answering'
  BY <1>1, <1>9, <1>10 DEF DragInv, Answering, Hovering
<1>17. Decided'
  BY <1>6, <1>7, <1>8, <1>9 DEF Decided
<1>18. Sourced'
  BY <1>1, <1>9, <1>10 DEF DragInv, Sourced, Reading
<1> QED BY <1>9, <1>10, <1>11, <1>12, <1>13, <1>14, <1>15, <1>16, <1>17, <1>18 DEF DragInv

\* The drop ends, and the application's own drag keeps the transfer until it is told.
LEMMA DropEndsKeeps ==
  ASSUME Apart, Mannered, DragInv, Dnd!DropEnds
  PROVE  DragInv'
<1> USE DEF Dnd!runner, Dnd!targets, Dnd!app, Dnd!world
<1>1. /\ Stacked /\ ~Called(frames) /\ ~Draining(frames) /\ Doing(frames) = "dropping"
      /\ Now(frames) = Head(frames)
  BY TopIs DEF Dnd!DropEnds, DragInv
<1>2. /\ Tail(frames) = Outer(frames) /\ Outer(frames) \in Seq(DragFrames)
      /\ Bottom(Outer(frames))
  <2>1. Doing(frames) \in Methods /\ Shaped(frames) /\ frames \in Seq(DragFrames)
    BY <1>1 DEF Methods, Stacked
  <2> QED BY <1>1, <2>1, Ends
<1>3. Now(frames) \in DragFrames
  BY <1>1, Parts DEF Stacked
<1>4. own_drag # None <=> Outer(frames) # <<>>
  BY <1>1 DEF DragInv, Sourced
<1>5. /\ drag_state # None /\ drag_state.id = Now(frames).event.id /\ ~Hovering
      /\ pending_source_drag_cleanup = None /\ buffered = <<>>
  BY <1>1 DEF DragInv, Present, Landed, Reading, Deferred, Buffered
<1>6. /\ UNCHANGED <<own_drag, asked_drag, buffered, active, ids, env, waiting, answer, ole, drags>>
  BY <1>1 DEF Dnd!DropEnds, Dnd!Panic
<1>7. ~Hovering' /\ \A w \in Windows : ~Over(w)' /\ ~Over(w)
  BY <1>5, <1>6 DEF Hovering, Over, Apart
<1>8. CASE own_drag # None
  <2> DEFINE d == Head(Outer(frames))
             g == [d EXCEPT !.effect = Now(frames).effect]
             t == Dnd!Push(g, <<>>)
  <2>1. Outer(frames) # <<>> /\ d \in DragFrames /\ d.op = "DoDragDrop" /\ Tail(Outer(frames)) = <<>>
    BY <1>1, <1>4, <1>8, Parts DEF Stacked
  <2>2. /\ pending_source_drag_cleanup' = Now(frames).event.id /\ panicked' = panicked
        /\ frames' = t /\ drag_state' = drag_state
    BY <1>1, <1>2, <1>8, <2>1 DEF Dnd!DropEnds, Dnd!TheEvent, Dnd!Report
  <2>3. Now(frames).effect \in Effects \cup {"none"} /\ Now(frames).effect # None
    BY <1>1, <1>3 DEF DragFrames, DragInv, Decided
  <2>4. g \in DragFrames /\ g.op = "DoDragDrop" /\ g.event = d.event /\ g.effect = Now(frames).effect
    BY <2>1, <2>3 DEF DragFrames
  <2> HIDE DEF g
  <2>5. t \in Seq(DragFrames) /\ t # <<>> /\ Head(t) = g /\ Tail(t) = <<>>
    <3>1. <<>> \in Seq(DragFrames)
      OBVIOUS
    <3> QED BY <2>4, <3>1, FrameOver
  <2> HIDE DEF t
  <2>6. /\ Stacked' /\ ~Called(frames') /\ ~Draining(frames') /\ Outer(frames') = t
        /\ Doing(frames') = "DoDragDrop" /\ Now(frames') = g
    BY <2>2, <2>4, <2>5, Alone DEF Stacked, Bottom
  <2>7. Now(frames).event.id \in Nat
    BY <1>3 DEF DragFrames, DragEvents
  <2>8. DragTyped'
    BY <1>6, <2>2, <2>7 DEF DragInv, DragTyped
  <2>9. Activated'
    BY <1>6, <1>7 DEF DragInv, Activated
  <2>10. Present' /\ Landed' /\ Needed' /\ Decided' /\ Answering'
    <3>1. pending_source_drag_cleanup' # None
      BY <2>2, <2>7 DEF Apart
    <3> QED BY <1>7, <2>6, <3>1 DEF Present, Landed, Needed, Decided, Answering, Reading
  <2>11. Deferred'
    BY <1>5, <2>2, <2>3, <2>4, <2>6 DEF Deferred
  <2>12. Speaking' /\ Buffered'
    BY <1>5, <1>6, <2>6 DEF Speaking, Buffered
  <2>13. Sourced'
    BY <1>4, <1>6, <1>8, <2>3, <2>4, <2>5, <2>6 DEF DragInv, Sourced
  <2> QED BY <2>2, <2>6, <2>8, <2>9, <2>10, <2>11, <2>12, <2>13 DEF DragInv
<1>9. CASE own_drag = None
  <2>1. Tail(frames) = <<>>
    BY <1>2, <1>4, <1>9
  <2>2. ~Dnd!HeldBelow
    BY <2>1 DEF Dnd!HeldBelow
  <2>3. drag_state' = None
    BY <1>1, <1>5, <1>9, <2>2 DEF Dnd!DropEnds, Dnd!RemoveDataTransfer, Dnd!Known, Dnd!TheEvent
  <2>4. /\ frames' = <<>>
        /\ pending_source_drag_cleanup' = pending_source_drag_cleanup /\ panicked' = panicked
    BY <1>9, <2>1, <2>2 DEF Dnd!DropEnds, Dnd!Report
  <2>5. <<>> \in Seq(DragFrames) /\ Bottom(<<>>)
    BY DEF Bottom
  <2>6. /\ Stacked' /\ ~Called(frames') /\ ~Draining(frames') /\ Outer(frames') = <<>>
        /\ Doing(frames') = "idle"
    BY <2>4, <2>5, Alone DEF Stacked
  <2>7. DragTyped'
    BY <1>6, <2>3, <2>4 DEF DragInv, DragTyped
  <2>8. Activated'
    BY <1>6, <1>7 DEF DragInv, Activated
  <2>9. Present' /\ Landed' /\ Needed' /\ Decided' /\ Answering' /\ Deferred'
    BY <1>5, <1>7, <2>3, <2>4, <2>6
    DEF Present, Landed, Needed, Decided, Answering, Reading, Deferred
  <2>10. Speaking' /\ Buffered'
    BY <1>5, <1>6, <2>6 DEF Speaking, Buffered
  <2>11. Sourced'
    BY <1>6, <1>9, <2>6 DEF DragInv, Sourced
  <2> QED BY <2>4, <2>6, <2>7, <2>8, <2>9, <2>10, <2>11 DEF DragInv
<1> QED BY <1>8, <1>9

\* The window procedure starts the drag that was asked for, or has none to start.
LEMMA TryKeeps ==
  ASSUME Apart, Mannered, DragInv, Dnd!TryExecuteDragDrop
  PROVE  DragInv'
<1> USE DEF Dnd!runner, Dnd!targets, Dnd!app, Dnd!world
<1>1. /\ Stacked /\ ~Called(frames) /\ ~Draining(frames) /\ Doing(frames) = "try_drag"
      /\ Now(frames) = Head(frames)
  BY TopIs DEF Dnd!TryExecuteDragDrop, DragInv
<1>2. Doing(frames) \in Methods
  BY <1>1 DEF Methods
<1>3. pending_source_drag_cleanup = None /\ buffered = <<>>
  BY <1>1 DEF DragInv, Deferred, Buffered
<1>4. UNCHANGED <<drag_state, pending_source_drag_cleanup, buffered, active, ids, env, waiting,
                  answer, drags, panicked>>
  BY DEF Dnd!TryExecuteDragDrop
<1>5. CASE asked_drag = None
  <2>1. frames' = Tail(frames) /\ UNCHANGED <<own_drag, asked_drag, ole>>
    BY <1>5 DEF Dnd!TryExecuteDragDrop
  <2>2. /\ Stacked' /\ ~Called(frames') /\ ~Draining(frames') /\ Outer(frames') = Outer(frames)
        /\ Doing(frames') \in {"idle", "DoDragDrop"}
        /\ Doing(frames') = "DoDragDrop" => Now(frames').effect = None
    BY <1>1, <1>2, <2>1, MethodReturns
  <2>3. DragTyped'
    BY <1>4, <2>1 DEF DragInv, DragTyped
  <2>4. Activated'
    BY <1>1, <1>4, <2>1, <2>2 DEF DragInv, Activated, Over
  <2>5. Present' /\ Landed' /\ Needed' /\ Decided' /\ Deferred'
    BY <1>1, <1>3, <1>4, <2>1, <2>2
    DEF DragInv, Present, Landed, Needed, Decided, Reading, Deferred, Hovering
  <2>6. Answering'
    BY <1>1, <1>4, <2>1 DEF DragInv, Answering, Hovering
  <2>7. Speaking' /\ Buffered'
    BY <1>3, <1>4, <2>2 DEF Speaking, Buffered
  <2>8. Sourced'
    BY <1>1, <1>4, <2>1, <2>2 DEF DragInv, Sourced, Reading
  <2> QED BY <1>4, <2>2, <2>3, <2>4, <2>5, <2>6, <2>7, <2>8 DEF DragInv
<1>6. CASE asked_drag # None
  <2>1. ole = None /\ own_drag = None /\ asked_drag.id \in waiting /\ env.fails = FALSE
    BY <1>6 DEF DragInv, Sourced, DragTyped, Mannered
  <2>2. asked_drag \in Asked
    BY <1>6 DEF DragInv, DragTyped
  <2>3. Tail(frames) = <<>>
    <3>1. Outer(frames) = <<>>
      BY <2>1 DEF DragInv, Sourced
    <3> QED BY <1>1, <1>2, <3>1, Ends DEF Stacked
  <2> DEFINE e == Dnd!Event("outgoing", Dnd!TheEvent.window, asked_drag.id, None)
             call == Dnd!Frame("DoDragDrop", e, None)
             t == Dnd!Push(call, <<>>)
  <2>4. /\ asked_drag' = None /\ own_drag' = asked_drag.id /\ frames' = t
        /\ ole' = [own |-> TRUE, allowed |-> asked_drag.allowed, over |-> None,
                   effect |-> "none", moves |-> 0]
    BY <1>6, <2>1, <2>3 DEF Dnd!TryExecuteDragDrop
  <2>5. e \in DragEvents /\ e.id = asked_drag.id
    <3>1. Dnd!TheEvent.window \in Windows
      <4>1. Now(frames) \in DragFrames
        BY <1>1, Parts DEF Stacked
      <4> QED BY <1>1, <4>1 DEF Dnd!TheEvent, DragFrames, DragEvents
    <3> QED BY <3>1, <2>2, EventsMade DEF DragKinds, Asked
  <2> HIDE DEF e
  <2>6. /\ call \in DragFrames /\ call.op = "DoDragDrop" /\ call.event = e /\ call.effect = None
    BY <2>5, FramesMade
  <2> HIDE DEF call
  <2>7. t \in Seq(DragFrames) /\ t # <<>> /\ Head(t) = call /\ Tail(t) = <<>>
    <3>1. <<>> \in Seq(DragFrames)
      OBVIOUS
    <3> QED BY <2>6, <3>1, FrameOver
  <2> HIDE DEF t
  <2>8. /\ Stacked' /\ ~Called(frames') /\ ~Draining(frames') /\ Outer(frames') = t
        /\ Doing(frames') = "DoDragDrop" /\ Now(frames') = call
    BY <2>4, <2>6, <2>7, Alone DEF Stacked, Bottom
  <2>9. ole' \in Carried /\ ole'.own = TRUE /\ ole'.over = None
    BY <2>2, <2>4 DEF Carried, Asked
  <2>10. ~Hovering /\ ~Hovering' /\ \A w \in Windows : ~Over(w)' /\ ~Over(w)
    BY <2>1, <2>9 DEF Hovering, Over, Apart
  <2>11. DragTyped'
    BY <1>4, <2>2, <2>4, <2>9 DEF DragInv, DragTyped, Asked
  <2>12. Activated'
    BY <1>4, <2>10 DEF DragInv, Activated
  <2>13. Present' /\ Landed' /\ Needed' /\ Decided' /\ Deferred' /\ Answering'
    BY <1>1, <1>3, <1>4, <2>6, <2>8, <2>10
    DEF DragInv, Present, Landed, Needed, Decided, Reading, Deferred, Answering
  <2>14. Speaking' /\ Buffered'
    BY <1>3, <1>4, <2>8 DEF Speaking, Buffered
  <2>15. Sourced'
    <3>1. own_drag' # None /\ ole' # None
      BY <2>2, <2>4, <2>9 DEF Asked, Apart
    <3> QED BY <1>4, <2>1, <2>4, <2>5, <2>6, <2>7, <2>8, <2>9, <3>1 DEF Sourced
  <2> QED BY <1>4, <2>8, <2>11, <2>12, <2>13, <2>14, <2>15 DEF DragInv
<1> QED BY <1>5, <1>6

\* DoDragDrop returns: the application is told, and the flag cleared after that.
LEMMA DoDragDropReturnsKeeps ==
  ASSUME Apart, Mannered, DragInv, Dnd!DoDragDropReturns
  PROVE  DragInv'
<1> USE DEF Dnd!runner, Dnd!targets, Dnd!app, Dnd!world
<1>1. /\ Stacked /\ ~Called(frames) /\ ~Draining(frames) /\ Doing(frames) = "DoDragDrop"
      /\ Now(frames) = Head(frames) /\ Within(frames) = frames
  <2>1. Dnd!Top("DoDragDrop")
    BY DEF Dnd!DoDragDropReturns
  <2> QED BY <2>1, TopIs DEF DragInv
<1>2. Outer(frames) = frames /\ frames # <<>> /\ Tail(frames) = <<>> /\ Now(frames) \in DragFrames
  BY <1>1, Parts DEF Stacked
<1>3. buffered = <<>> /\ ~Dnd!Busy
  BY <1>1, GuardsAre DEF DragInv, Buffered
<1> DEFINE f == [Head(frames) EXCEPT !.op = "clear"]
           Tell(e) == Dnd!SendEvent(e, Dnd!Push(f, Tail(frames)))
<1>4. f \in DragFrames /\ f.op = "clear"
  BY <1>1, <1>2 DEF DragFrames
<1>5. Dnd!TheEvent \in DragEvents
  BY <1>1, <1>2 DEF Dnd!TheEvent, DragFrames
<1>6. \E e \in DragEvents :
        /\ e.kind \in {"OutgoingDragDropped", "OutgoingDragCanceled"} /\ Tell(e)
        /\ \/ Now(frames).effect # None /\ ole' = ole
           \/ Now(frames).effect = None /\ ole.over = None /\ ole' = None
  <2>1. CASE /\ Head(frames).effect # None
             /\ Tell([Dnd!TheEvent EXCEPT !.kind = "OutgoingDragDropped",
                                          !.action = Head(frames).effect])
             /\ ole' = ole
    <3> DEFINE e == [Dnd!TheEvent EXCEPT !.kind = "OutgoingDragDropped",
                                         !.action = Head(frames).effect]
    <3>1. e \in DragEvents /\ e.kind = "OutgoingDragDropped"
      BY <1>1, <1>2, <1>5, <2>1 DEF DragEvents, DragFrames, DragKinds
    <3> HIDE DEF f, Tell
    <3> QED BY <1>1, <2>1, <3>1
  <2>2. CASE /\ Head(frames).effect = None /\ ole.over = None /\ ole' = None
             /\ Tell([Dnd!TheEvent EXCEPT !.kind = "OutgoingDragCanceled"])
    <3> DEFINE e == [Dnd!TheEvent EXCEPT !.kind = "OutgoingDragCanceled"]
    <3>1. e \in DragEvents /\ e.kind = "OutgoingDragCanceled"
      BY <1>5 DEF DragEvents, DragKinds
    <3> HIDE DEF f, Tell
    <3> QED BY <1>1, <2>2, <3>1
  <2>3. CASE /\ Head(frames).effect = None /\ ole.over = None /\ ole' = None
             /\ \E effect \in ole.allowed \cup {"none"} :
                  Tell([Dnd!TheEvent EXCEPT !.kind = "OutgoingDragDropped", !.action = effect])
    <3>1. PICK effect \in ole.allowed \cup {"none"} :
            Tell([Dnd!TheEvent EXCEPT !.kind = "OutgoingDragDropped", !.action = effect])
      BY <2>3
    <3>2. effect \in Effects \cup {"none"}
      <4>1. ole # None
        BY <1>1, <1>2, <2>3 DEF DragInv, Sourced, Reading
      <4> QED BY <3>1, <4>1 DEF DragInv, DragTyped, Carried
    <3> DEFINE e == [Dnd!TheEvent EXCEPT !.kind = "OutgoingDragDropped", !.action = effect]
    <3>3. e \in DragEvents /\ e.kind = "OutgoingDragDropped"
      BY <1>5, <3>2 DEF DragEvents, DragKinds
    <3> HIDE DEF f, Tell
    <3> QED BY <1>1, <2>3, <3>1, <3>3
  <2> QED BY <2>1, <2>2, <2>3 DEF Dnd!DoDragDropReturns
<1>7. PICK e \in DragEvents :
        /\ e.kind \in {"OutgoingDragDropped", "OutgoingDragCanceled"} /\ Tell(e)
        /\ \/ Now(frames).effect # None /\ ole' = ole
           \/ Now(frames).effect = None /\ ole.over = None /\ ole' = None
  BY <1>6
<1>8. /\ Stacked' /\ Called(frames') /\ ~Draining(frames') /\ Head(frames').event = e
      /\ Doing(frames') = "clear" /\ Outer(frames') = <<>> /\ buffered' = buffered
  <2>1. <<>> \in Seq(DragFrames) /\ Bottom(<<>>)
    BY DEF Bottom
  <2>2. Dnd!SendEvent(e, Dnd!Push(f, <<>>))
    BY <1>2, <1>7
  <2> HIDE DEF f
  <2> QED BY <1>1, <1>4, <2>1, <2>2, SendEventIs
<1> HIDE DEF f, Tell
<1>9. UNCHANGED <<drag_state, own_drag, asked_drag, pending_source_drag_cleanup,
                  active, ids, env, waiting, answer, panicked, drags>>
  BY DEF Dnd!DoDragDropReturns
<1>10. ~Hovering /\ ~Hovering' /\ \A w \in Windows : ~Over(w)' /\ ~Over(w)
  <2>1. ~Hovering
    BY <1>1, <1>7 DEF DragInv, Landed, Hovering
  <2>2. ~Hovering'
    BY <1>7, <2>1 DEF Hovering
  <2> QED BY <2>1, <2>2 DEF Hovering, Over, Apart
<1>11. DragTyped'
  BY <1>7, <1>8, <1>9 DEF DragInv, DragTyped
<1>12. Activated'
  BY <1>9, <1>10 DEF DragInv, Activated
<1>13. Present' /\ Landed' /\ Needed' /\ Decided' /\ Answering'
  BY <1>1, <1>8, <1>9, <1>10 DEF DragInv, Present, Landed, Needed, Decided, Reading, Answering
<1>14. Deferred'
  BY <1>8, <1>9 DEF DragInv, Deferred
<1>15. Speaking' /\ Buffered'
  BY <1>3, <1>7, <1>8 DEF Speaking, Said, Buffered
<1>16. Sourced'
  <2>1. own_drag # None
    BY <1>2 DEF DragInv, Sourced
  <2>2. asked_drag = None
    BY <2>1 DEF DragInv, Sourced
  <2> QED BY <1>8, <1>9, <2>1, <2>2 DEF Sourced
<1> QED BY <1>8, <1>9, <1>11, <1>12, <1>13, <1>14, <1>15, <1>16 DEF DragInv

\* A message of a window, at the end of which a drag may start.
LEMMA MessageKeeps ==
  ASSUME Apart, Mannered, DragInv, NEW w \in Windows, Dnd!WindowMessage(w)
  PROVE  DragInv'
<1> USE DEF Dnd!runner, Dnd!targets, Dnd!app, Dnd!world
<1>1. /\ Stacked /\ env \in Environments /\ Dnd!Pumps
      /\ Dnd!SendEvent(Dnd!Event("other", w, 0, None),
           Dnd!Push(Dnd!Frame("try_drag", Dnd!Event("other", w, 0, None), None), frames))
  BY DEF Dnd!WindowMessage, DragInv, DragTyped
<1>2. /\ ~Called(frames) /\ ~Draining(frames) /\ Doing(frames) \in {"idle", "DoDragDrop"}
      /\ Bottom(frames) /\ Outer(frames) = frames /\ Now(frames) = Head(frames)
      /\ (frames # <<>> => Head(frames).effect = None)
      /\ (frames = <<>> <=> Doing(frames) = "idle")
  BY <1>1, PumpsIs
<1> DEFINE e == Dnd!Event("other", w, 0, None)
           f == Dnd!Frame("try_drag", e, None)
<1>3. e \in DragEvents /\ e.kind = "other" /\ e.id = 0
  BY EventsMade DEF DragKinds
<1>4. f \in DragFrames /\ f.op = "try_drag"
  <2> HIDE DEF e
  <2> QED BY <1>3, FramesMade DEF Methods
<1>5. Dnd!SendEvent(e, Dnd!Push(f, frames))
  BY <1>1
<1> HIDE DEF e, f
<1>6. /\ Stacked' /\ Called(frames') /\ ~Draining(frames') /\ Head(frames').event = e
      /\ Doing(frames') = "try_drag" /\ Outer(frames') = frames /\ buffered' = buffered
  BY <1>1, <1>2, <1>3, <1>4, <1>5, SendEventIs DEF Stacked, Methods
<1>7. UNCHANGED <<drag_state, own_drag, asked_drag, pending_source_drag_cleanup,
                  active, ids, env, waiting, answer, panicked, ole, drags>>
  BY DEF Dnd!WindowMessage
<1>8. DragTyped'
  BY <1>6, <1>7 DEF DragInv, DragTyped
<1>9. Activated'
  BY <1>2, <1>6, <1>7 DEF DragInv, Activated, Over
<1>10. Present' /\ Landed' /\ Needed' /\ Decided'
  BY <1>2, <1>6, <1>7 DEF DragInv, Present, Landed, Needed, Decided, Reading, Hovering
<1>11. Deferred' /\ Answering'
  BY <1>2, <1>6, <1>7 DEF DragInv, Deferred, Answering, Hovering
<1>12. Speaking' /\ Buffered'
  BY <1>3, <1>6 DEF DragInv, Speaking, Said, Buffered
<1>13. Sourced'
  BY <1>2, <1>6, <1>7 DEF DragInv, Sourced, Reading
<1> QED BY <1>6, <1>7, <1>8, <1>9, <1>10, <1>11, <1>12, <1>13 DEF DragInv

\* The drag is over a window, which has the transfer.
LEMMA OverIs ==
  ASSUME Apart, Mannered, DragInv, NEW w \in Windows, Dnd!Over(w)
  PROVE  /\ ~Called(frames) /\ ~Draining(frames) /\ Doing(frames) \in {"idle", "DoDragDrop"}
         /\ Bottom(frames) /\ Outer(frames) = frames /\ Now(frames) = Head(frames)
         /\ frames # <<>> => Head(frames).effect = None
         /\ frames = <<>> <=> Doing(frames) = "idle"
         /\ Hovering /\ ole \in Carried /\ ole.over = w
         /\ drag_state \in Transfers /\ drag_state.id = active[w] /\ active[w] \in Nat
         /\ pending_source_drag_cleanup = None /\ buffered = <<>> /\ asked_drag = None
<1>1. /\ ~Called(frames) /\ ~Draining(frames) /\ Doing(frames) \in {"idle", "DoDragDrop"}
      /\ Bottom(frames) /\ Outer(frames) = frames /\ Now(frames) = Head(frames)
      /\ (frames # <<>> => Head(frames).effect = None)
      /\ (frames = <<>> <=> Doing(frames) = "idle")
  BY PumpsIs DEF Dnd!Over, DragInv, DragTyped
<1>2. Hovering /\ ole \in Carried /\ ole.over = w
  BY DEF Dnd!Over, Hovering, Apart, DragInv, DragTyped
<1>3. drag_state \in Transfers
  BY <1>2 DEF DragInv, DragTyped, Present
<1>4. drag_state.id = active[w] /\ active[w] \in Nat
  BY <1>1, <1>2, <1>3 DEF DragInv, Activated, Over, Hovering, Transfers
<1>5. pending_source_drag_cleanup = None /\ buffered = <<>> /\ asked_drag = None
  BY <1>1, <1>2 DEF DragInv, Deferred, Buffered, Sourced, Hovering
<1> QED BY <1>1, <1>2, <1>3, <1>4, <1>5

\* DragEnter: a transfer for the window, and the event.
LEMMA EnterKeeps ==
  ASSUME Apart, Mannered, DragInv, NEW w \in Windows, Dnd!DragEnter(w)
  PROVE  DragInv'
<1> USE DEF Dnd!runner, Dnd!targets, Dnd!app, Dnd!world
<1>1. /\ ~Called(frames) /\ ~Draining(frames) /\ Doing(frames) \in {"idle", "DoDragDrop"}
      /\ Bottom(frames) /\ Outer(frames) = frames /\ Now(frames) = Head(frames)
      /\ (frames # <<>> => Head(frames).effect = None)
      /\ (frames = <<>> <=> Doing(frames) = "idle")
  BY PumpsIs DEF Dnd!DragEnter, Dnd!Reaches, DragInv, DragTyped
<1>2. ole # None /\ ole.over = None /\ ole \in Carried
  BY DEF Dnd!DragEnter, Dnd!Reaches, DragInv, DragTyped
<1>3. ~Dnd!Held
  BY <1>1, GuardsAre DEF DragInv
<1>4. pending_source_drag_cleanup = None /\ buffered = <<>> /\ asked_drag = None
  BY <1>1, <1>2 DEF DragInv, Deferred, Buffered, Sourced
<1> DEFINE id == IF own_drag # None THEN own_drag ELSE ids + 1
           e == Dnd!Event("DragEntered", w, id, None)
           F(keys) == [Dnd!Frame("entered", e, None) EXCEPT !.keys = keys]
<1>5. /\ ids' = IF own_drag # None THEN ids ELSE ids + 1
      /\ active' = [active EXCEPT ![w] = id]
      /\ drag_state' = [id |-> id, window |-> w, actions |-> <<>>]
      /\ answer' = <<>> /\ ole' = [ole EXCEPT !.over = w, !.moves = @ + 1]
      /\ UNCHANGED <<own_drag, asked_drag, pending_source_drag_cleanup, panicked, drags, env, waiting>>
  BY <1>3 DEF Dnd!DragEnter
<1>6. PICK keys \in env.keys : Dnd!SendEvent(e, Dnd!Push(F(keys), frames))
  BY <1>3 DEF Dnd!DragEnter
<1>7. id \in Nat \ {0} /\ ids \in Nat
  BY DEF DragInv, DragTyped
<1> HIDE DEF id
<1>8. e \in DragEvents /\ e.kind = "DragEntered" /\ e.id = id
  BY <1>7, EventsMade DEF DragKinds
<1> DEFINE f == F(keys)
<1>9. f \in DragFrames /\ f.op = "entered" /\ f.event = e
  <2>1. keys \subseteq {"ctrl", "shift"}
    BY <1>6 DEF Mannered, DragInv, DragTyped
  <2> DEFINE g == Dnd!Frame("entered", e, None)
  <2> HIDE DEF e
  <2>2. g \in DragFrames /\ g.op = "entered" /\ g.event = e
    BY <1>8, FramesMade DEF Methods
  <2>3. f = [g EXCEPT !.keys = keys]
    OBVIOUS
  <2> HIDE DEF f, F, g
  <2> QED BY <2>1, <2>2, <2>3 DEF DragFrames
<1>10. Dnd!SendEvent(e, Dnd!Push(f, frames))
  BY <1>6
<1> HIDE DEF e, f
<1>11. /\ Stacked' /\ Called(frames') /\ ~Draining(frames') /\ Head(frames').event = e
       /\ Doing(frames') = "entered" /\ Now(frames') = f /\ Outer(frames') = frames
       /\ buffered' = buffered
  BY <1>1, <1>8, <1>9, <1>10, SendEventIs DEF DragInv, Stacked, Methods
<1>12. /\ ole' \in Carried /\ ole'.over = w /\ ole'.own = ole.own
       /\ drag_state' \in Transfers /\ drag_state'.id = id /\ drag_state'.actions = <<>>
  <2>1. ole' \in Carried /\ ole'.over = w /\ ole'.own = ole.own
    <3>1. ole' = [ole EXCEPT !.over = w, !.moves = ole.moves + 1]
      BY <1>5
    <3>2. ole.moves + 1 \in Nat
      BY <1>2 DEF Carried
    <3> QED BY <1>2, <3>1, <3>2 DEF Carried
  <2>2. <<>> \in Dnd!Preferences
    BY DEF Dnd!Preferences
  <2>3. /\ drag_state' \in Transfers /\ drag_state'.id = id /\ drag_state'.actions = <<>>
    BY <1>5, <1>7, <2>2 DEF Transfers
  <2> QED BY <2>1, <2>3
<1>13. /\ Hovering' /\ \A v \in Windows : (Over(v)' <=> v = w) /\ ~Over(v)
       /\ drag_state' # None
  BY <1>2, <1>12 DEF Hovering, Over, Apart
<1>14. DragTyped'
  BY <1>5, <1>7, <1>11, <1>12 DEF DragInv, DragTyped, Dnd!Preferences
<1>15. Activated'
  <2>1. active \in [Windows -> {None} \cup Nat] /\ \A v \in Windows : active[v] = None
    BY <1>1, <1>13 DEF DragInv, DragTyped, Activated
  <2> QED BY <2>1, <1>5, <1>11, <1>12, <1>13 DEF Activated
<1>16. Present' /\ Landed' /\ Needed' /\ Decided' /\ Deferred'
  BY <1>4, <1>5, <1>8, <1>9, <1>11, <1>12, <1>13
  DEF Present, Landed, Needed, Decided, Deferred, Reading
<1>17. Answering'
  BY <1>5, <1>11, <1>12 DEF Answering
<1>18. Speaking' /\ Buffered'
  BY <1>4, <1>8, <1>9, <1>11 DEF Speaking, Said, Buffered
<1>19. Sourced'
  BY <1>1, <1>2, <1>4, <1>5, <1>11, <1>12, <1>13 DEF DragInv, Sourced, Reading, Hovering
<1> QED BY <1>5, <1>11, <1>14, <1>15, <1>16, <1>17, <1>18, <1>19 DEF DragInv

\* DragOver: the application is asked again.
LEMMA MotionKeeps ==
  ASSUME Apart, Mannered, DragInv, NEW w \in Windows, Dnd!DragOver(w)
  PROVE  DragInv'
<1> USE DEF Dnd!runner, Dnd!targets, Dnd!app
<1>1. /\ ~Called(frames) /\ ~Draining(frames) /\ Doing(frames) \in {"idle", "DoDragDrop"}
      /\ Bottom(frames) /\ Outer(frames) = frames /\ Now(frames) = Head(frames)
      /\ (frames # <<>> => Head(frames).effect = None)
      /\ (frames = <<>> <=> Doing(frames) = "idle")
  BY OverIs DEF Dnd!DragOver
<1>2. /\ Hovering /\ ole \in Carried /\ ole.over = w
      /\ drag_state \in Transfers /\ drag_state.id = active[w] /\ active[w] \in Nat
      /\ pending_source_drag_cleanup = None /\ buffered = <<>> /\ asked_drag = None
  BY OverIs DEF Dnd!DragOver
<1> DEFINE action == Dnd!Proposed(active[w], ole.allowed)
           e == Dnd!Event("DragPosition", w, active[w], action)
           F(keys) == [Dnd!Frame("moved", e, None) EXCEPT !.keys = keys]
<1>3. /\ ole' = [ole EXCEPT !.moves = @ + 1]
      /\ UNCHANGED <<drag_state, own_drag, asked_drag, pending_source_drag_cleanup, active, ids,
                     panicked, drags, env, answer, waiting>>
  BY DEF Dnd!DragOver
<1>4. PICK keys \in env.keys : Dnd!SendEvent(e, Dnd!Push(F(keys), frames))
  BY DEF Dnd!DragOver
<1>5. action \in Effects \cup {"none"}
  BY ProposedIn DEF DragInv, DragTyped
<1> HIDE DEF action
<1>6. e \in DragEvents /\ e.kind = "DragPosition" /\ e.id = active[w]
  BY <1>2, <1>5, EventsMade DEF DragKinds
<1> DEFINE f == F(keys)
<1>7. f \in DragFrames /\ f.op = "moved" /\ f.event = e
  <2>1. keys \subseteq {"ctrl", "shift"}
    BY <1>4 DEF Mannered, DragInv, DragTyped
  <2> DEFINE g == Dnd!Frame("moved", e, None)
  <2> HIDE DEF e
  <2>2. g \in DragFrames /\ g.op = "moved" /\ g.event = e
    BY <1>6, FramesMade DEF Methods
  <2>3. f = [g EXCEPT !.keys = keys]
    OBVIOUS
  <2> HIDE DEF f, F, g
  <2> QED BY <2>1, <2>2, <2>3 DEF DragFrames
<1>8. Dnd!SendEvent(e, Dnd!Push(f, frames))
  BY <1>4
<1> HIDE DEF e, f
<1>9. /\ Stacked' /\ Called(frames') /\ ~Draining(frames') /\ Head(frames').event = e
      /\ Doing(frames') = "moved" /\ Now(frames') = f /\ Outer(frames') = frames
      /\ buffered' = buffered
  BY <1>1, <1>6, <1>7, <1>8, SendEventIs DEF DragInv, Stacked, Methods
<1>10. ole' \in Carried /\ ole'.over = w /\ ole'.own = ole.own
  BY <1>2, <1>3 DEF Carried
<1>11. /\ Hovering' /\ ole' # None /\ ole # None /\ drag_state # None
       /\ \A v \in Windows : Over(v)' <=> Over(v)
  BY <1>2, <1>10 DEF Hovering, Over, Apart
<1>12. DragTyped'
  BY <1>3, <1>9, <1>10 DEF DragInv, DragTyped
<1>13. Activated'
  BY <1>1, <1>3, <1>9, <1>11 DEF DragInv, Activated
<1>14. Present' /\ Landed' /\ Needed' /\ Decided' /\ Deferred'
  BY <1>2, <1>3, <1>6, <1>7, <1>9, <1>11
  DEF Present, Landed, Needed, Decided, Deferred, Reading
<1>15. Answering'
  BY <1>2, <1>3, <1>9 DEF DragInv, Answering
<1>16. Speaking' /\ Buffered'
  BY <1>2, <1>6, <1>7, <1>9 DEF Speaking, Said, Buffered
<1>17. Sourced'
  BY <1>1, <1>2, <1>3, <1>9, <1>10, <1>11 DEF DragInv, Sourced, Reading
<1> QED BY <1>3, <1>9, <1>12, <1>13, <1>14, <1>15, <1>16, <1>17 DEF DragInv

\* DragLeave: the window has no transfer from here on.
LEMMA LeaveKeeps ==
  ASSUME Apart, Mannered, DragInv, NEW w \in Windows, Dnd!DragLeave(w)
  PROVE  DragInv'
<1> USE DEF Dnd!runner, Dnd!targets, Dnd!app, Dnd!world
<1>1. /\ ~Called(frames) /\ ~Draining(frames) /\ Doing(frames) \in {"idle", "DoDragDrop"}
      /\ Bottom(frames) /\ Outer(frames) = frames /\ Now(frames) = Head(frames)
      /\ (frames # <<>> => Head(frames).effect = None)
      /\ (frames = <<>> <=> Doing(frames) = "idle")
  BY OverIs DEF Dnd!DragLeave
<1>2. /\ Hovering /\ ole \in Carried /\ ole.over = w
      /\ drag_state \in Transfers /\ drag_state.id = active[w] /\ active[w] \in Nat
      /\ pending_source_drag_cleanup = None /\ buffered = <<>> /\ asked_drag = None
  BY OverIs DEF Dnd!DragLeave
<1> DEFINE e == Dnd!Event("DragLeft", w, active[w], None)
           f == Dnd!Frame("left", e, None)
<1>3. /\ active' = [active EXCEPT ![w] = None]
      /\ UNCHANGED <<drag_state, own_drag, asked_drag, pending_source_drag_cleanup, ids,
                     panicked, ole, drags, env, answer, waiting>>
  BY DEF Dnd!DragLeave
<1>4. Dnd!SendEvent(e, Dnd!Push(f, frames))
  BY DEF Dnd!DragLeave
<1>5. e \in DragEvents /\ e.kind = "DragLeft" /\ e.id = active[w]
  BY <1>2, EventsMade DEF DragKinds
<1> HIDE DEF e
<1>6. f \in DragFrames /\ f.op = "left" /\ f.event = e
  BY <1>5, FramesMade DEF Methods
<1> HIDE DEF f
<1>7. /\ Stacked' /\ Called(frames') /\ ~Draining(frames') /\ Head(frames').event = e
      /\ Doing(frames') = "left" /\ Now(frames') = f /\ Outer(frames') = frames
      /\ buffered' = buffered
  BY <1>1, <1>4, <1>5, <1>6, SendEventIs DEF DragInv, Stacked, Methods
<1>8. /\ Hovering' /\ drag_state # None /\ \A v \in Windows : Over(v) <=> v = w
  BY <1>2, <1>3 DEF Hovering, Over, Apart
<1>9. DragTyped'
  BY <1>3, <1>7 DEF DragInv, DragTyped
<1>10. Activated'
  BY <1>3, <1>7, <1>8 DEF DragInv, DragTyped, Activated
<1>11. Present' /\ Landed' /\ Needed' /\ Decided' /\ Deferred'
  BY <1>2, <1>3, <1>5, <1>6, <1>7, <1>8
  DEF Present, Landed, Needed, Decided, Deferred, Reading
<1>12. Answering'
  BY <1>2, <1>3, <1>7 DEF DragInv, Answering
<1>13. Speaking' /\ Buffered'
  BY <1>2, <1>5, <1>6, <1>7 DEF Speaking, Said, Buffered
<1>14. Sourced'
  BY <1>1, <1>2, <1>3, <1>7 DEF DragInv, Sourced, Reading
<1> QED BY <1>3, <1>7, <1>9, <1>10, <1>11, <1>12, <1>13, <1>14 DEF DragInv

\* Drop: for OLE the drag is over, and the application is asked a last time.
LEMMA DropKeeps ==
  ASSUME Apart, Mannered, DragInv, NEW w \in Windows, Dnd!Drop(w)
  PROVE  DragInv'
<1> USE DEF Dnd!runner, Dnd!targets, Dnd!app
<1>1. /\ ~Called(frames) /\ ~Draining(frames) /\ Doing(frames) \in {"idle", "DoDragDrop"}
      /\ Bottom(frames) /\ Outer(frames) = frames /\ Now(frames) = Head(frames)
      /\ (frames # <<>> => Head(frames).effect = None)
      /\ (frames = <<>> <=> Doing(frames) = "idle")
  BY OverIs DEF Dnd!Drop
<1>2. /\ Hovering /\ ole \in Carried /\ ole.over = w
      /\ drag_state \in Transfers /\ drag_state.id = active[w] /\ active[w] \in Nat
      /\ pending_source_drag_cleanup = None /\ buffered = <<>> /\ asked_drag = None
  BY OverIs DEF Dnd!Drop
<1> DEFINE action == Dnd!Proposed(active[w], ole.allowed)
           e == Dnd!Event("DragPosition", w, active[w], action)
           F(keys) == [Dnd!Frame("decide", e, None) EXCEPT !.keys = keys, !.allowed = ole.allowed]
<1>3. /\ ole' = None /\ active' = [active EXCEPT ![w] = None]
      /\ UNCHANGED <<drag_state, own_drag, asked_drag, pending_source_drag_cleanup, ids,
                     panicked, drags, env, answer, waiting>>
  BY DEF Dnd!Drop
<1>4. PICK keys \in env.keys : Dnd!SendEvent(e, Dnd!Push(F(keys), frames))
  BY DEF Dnd!Drop
<1>5. action \in Effects \cup {"none"}
  BY ProposedIn DEF DragInv, DragTyped
<1> HIDE DEF action
<1>6. e \in DragEvents /\ e.kind = "DragPosition" /\ e.id = active[w]
  BY <1>2, <1>5, EventsMade DEF DragKinds
<1> DEFINE f == F(keys)
<1>7. f \in DragFrames /\ f.op = "decide" /\ f.event = e
  <2>1. keys \subseteq {"ctrl", "shift"} /\ ole.allowed \subseteq Effects
    BY <1>2, <1>4 DEF Mannered, DragInv, DragTyped, Carried
  <2> DEFINE g == Dnd!Frame("decide", e, None)
  <2> HIDE DEF e
  <2>2. g \in DragFrames /\ g.op = "decide" /\ g.event = e
    BY <1>6, FramesMade DEF Methods
  <2>3. f = [g EXCEPT !.keys = keys, !.allowed = ole.allowed]
    OBVIOUS
  <2> HIDE DEF f, F, g
  <2> QED BY <2>1, <2>2, <2>3 DEF DragFrames
<1>8. Dnd!SendEvent(e, Dnd!Push(f, frames))
  BY <1>4
<1> HIDE DEF e, f
<1>9. /\ Stacked' /\ Called(frames') /\ ~Draining(frames') /\ Head(frames').event = e
      /\ Doing(frames') = "decide" /\ Now(frames') = f /\ Outer(frames') = frames
      /\ buffered' = buffered
  BY <1>1, <1>6, <1>7, <1>8, SendEventIs DEF DragInv, Stacked, Methods
<1>10. /\ ~Hovering' /\ drag_state # None
       /\ \A v \in Windows : (Over(v) <=> v = w) /\ ~Over(v)'
  BY <1>2, <1>3 DEF Hovering, Over, Apart
<1>11. DragTyped'
  BY <1>3, <1>9 DEF DragInv, DragTyped
<1>12. Activated'
  <2>1. active \in [Windows -> {None} \cup Nat] /\ \A v \in Windows : v # w => active[v] = None
    BY <1>10 DEF DragInv, DragTyped, Activated
  <2> QED BY <2>1, <1>3, <1>10 DEF Activated
<1>13. Present' /\ Landed' /\ Needed' /\ Decided' /\ Deferred' /\ Answering'
  BY <1>2, <1>3, <1>6, <1>7, <1>9, <1>10
  DEF Present, Landed, Needed, Decided, Deferred, Reading, Answering
<1>14. Speaking' /\ Buffered'
  BY <1>2, <1>6, <1>7, <1>9 DEF Speaking, Said, Buffered
<1>15. Sourced'
  BY <1>1, <1>2, <1>3, <1>9 DEF DragInv, Sourced, Reading
<1> QED BY <1>3, <1>9, <1>11, <1>12, <1>13, <1>14, <1>15 DEF DragInv

\* A window goes, and its transfer with it.
LEMMA DestroyKeeps ==
  ASSUME Apart, Mannered, DragInv, NEW w \in Windows, Dnd!Destroy(w)
  PROVE  DragInv'
<1> USE DEF Dnd!app
<1>1. /\ ~Called(frames) /\ ~Draining(frames) /\ Doing(frames) \in {"idle", "DoDragDrop"}
      /\ Bottom(frames) /\ Outer(frames) = frames /\ Now(frames) = Head(frames)
      /\ (frames # <<>> => Head(frames).effect = None)
      /\ (frames = <<>> <=> Doing(frames) = "idle")
  BY PumpsIs DEF Dnd!Destroy, DragInv, DragTyped
<1>2. /\ active' = [active EXCEPT ![w] = None]
      /\ UNCHANGED <<own_drag, asked_drag, pending_source_drag_cleanup, buffered, ids, panicked,
                     frames, drags, env, calls, answer, waiting>>
  BY DEF Dnd!Destroy
<1>3. active[w] = IF Over(w) THEN drag_state.id ELSE None
  BY <1>1 DEF DragInv, Activated
<1>4. Over(w) => Hovering /\ drag_state \in Transfers /\ ole \in Carried
  BY DEF Over, Hovering, Apart, DragInv, DragTyped, Present
<1>5. drag_state' = IF Over(w) THEN None ELSE drag_state
  <2>1. CASE Over(w)
    <3>1. active[w] # None /\ Dnd!Known(active[w])
      BY <1>3, <1>4, <2>1 DEF Transfers, Apart, Dnd!Known
    <3> QED BY <2>1, <3>1 DEF Dnd!Destroy, Dnd!RemoveDataTransfer
  <2>2. CASE ~Over(w)
    BY <1>3, <2>2 DEF Dnd!Destroy
  <2> QED BY <2>1, <2>2
<1>6. ole' = IF Over(w) THEN [ole EXCEPT !.over = None, !.effect = "none"] ELSE ole
  BY DEF Dnd!Destroy, Over
<1>7. Over(w) => /\ ole' \in Carried /\ ole'.over = None /\ ole'.own = ole.own
                 /\ ole' # None /\ ole # None
  BY <1>4, <1>6 DEF Carried, Apart
<1>8. /\ Hovering' <=> Hovering /\ ~Over(w)
      /\ \A v \in Windows : Over(v)' <=> Over(v) /\ v # w
  <2>1. CASE Over(w)
    BY <2>1, <1>7 DEF Hovering, Over, Apart
  <2>2. CASE ~Over(w)
    BY <2>2, <1>6 DEF Hovering, Over
  <2> QED BY <2>1, <2>2
<1>9. pending_source_drag_cleanup = None /\ (drag_state # None => Hovering)
  BY <1>1 DEF DragInv, Deferred, Needed, Reading
<1>10. DragTyped' /\ Stacked'
  BY <1>2, <1>5, <1>6, <1>7 DEF DragInv, DragTyped, Stacked
<1>11. Activated'
  <2>1. active \in [Windows -> {None} \cup Nat]
    BY DEF DragInv, DragTyped
  <2>2. \A v \in Windows : Over(v) => active[v] = drag_state.id
    BY <1>1 DEF DragInv, Activated
  <2>3. \A v \in Windows : ~Over(v) => active[v] = None
    BY <1>1 DEF DragInv, Activated
  <2>4. \A v \in Windows : Over(v) /\ v # w => ~Over(w)
    BY DEF Over
  <2>5. Doing(frames') # "left"
    BY <1>1, <1>2
  <2>6. ASSUME NEW v \in Windows
        PROVE  active'[v] = IF Over(v)' THEN drag_state'.id ELSE None
    <3>1. active'[v] = IF v = w THEN None ELSE active[v]
      BY <1>2, <2>1
    <3>2. CASE v = w
      BY <3>1, <3>2, <1>8
    <3>3. CASE v # w /\ Over(v)
      BY <3>1, <3>3, <1>5, <1>8, <2>2, <2>4
    <3>4. CASE v # w /\ ~Over(v)
      BY <3>1, <3>4, <1>8, <2>3
    <3> QED BY <3>2, <3>3, <3>4
  <2> QED BY <2>5, <2>6 DEF Activated
<1>12. Present' /\ Landed' /\ Needed' /\ Decided' /\ Deferred'
  BY <1>1, <1>2, <1>5, <1>8, <1>9
  DEF DragInv, Present, Landed, Needed, Decided, Deferred, Reading
<1>13. Answering'
  BY <1>1, <1>2, <1>5, <1>6, <1>8 DEF DragInv, Answering
<1>14. Speaking' /\ Buffered'
  BY <1>1, <1>2 DEF DragInv, Speaking, Said, Buffered
<1>15. Sourced'
  <2>1. CASE Over(w)
    BY <2>1, <1>2, <1>7 DEF DragInv, Sourced
  <2>2. CASE ~Over(w)
    BY <2>2, <1>2, <1>6 DEF DragInv, Sourced
  <2> QED BY <2>1, <2>2
<1> QED BY <1>2, <1>10, <1>11, <1>12, <1>13, <1>14, <1>15 DEF DragInv

----
(* Drag and drop: the theorems. *)

\* At first there is no drag.
LEMMA DragStarts ==
  ASSUME Apart, Mannered, Dnd!Init
  PROVE  DragInv
<1> USE DEF Dnd!Init
<1>1. frames = <<>> /\ <<>> \in Seq(DragFrames) /\ Bottom(<<>>)
  BY DEF Bottom
<1>2. Stacked /\ ~Called(frames) /\ ~Draining(frames) /\ Outer(frames) = <<>> /\ Doing(frames) = "idle"
  BY <1>1, Alone DEF Stacked
<1>3. DragTyped
  BY DEF DragTyped, Dnd!Preferences
<1>4. ~Hovering /\ \A w \in Windows : ~Over(w)
  BY DEF Hovering, Over
<1>5. Activated /\ Present /\ Needed /\ Deferred /\ Landed /\ Answering /\ Decided
  BY <1>2, <1>4
  DEF Activated, Present, Needed, Deferred, Landed, Answering, Decided, Reading
<1>6. Speaking /\ Buffered /\ Sourced
  BY <1>2 DEF Speaking, Buffered, Sourced
<1> QED BY <1>2, <1>3, <1>5, <1>6 DEF DragInv

\* Nothing happens to the drag.
LEMMA DragRests ==
  ASSUME DragInv, UNCHANGED dragging, UNCHANGED panicked, UNCHANGED env
  PROVE  DragInv'
<1> USE DEF dragging
<1>1. DragTyped' /\ Stacked' /\ Activated' /\ Present' /\ Needed'
  BY DEF DragInv, DragTyped, Stacked, Activated, Over, Present, Needed, Hovering
<1>2. Deferred' /\ Landed' /\ Answering' /\ Decided'
  BY DEF DragInv, Deferred, Landed, Hovering, Answering, Decided
<1>3. Speaking' /\ Buffered' /\ Sourced' /\ panicked' = FALSE
  BY DEF DragInv, Speaking, Said, Buffered, Sourced
<1> QED BY <1>1, <1>2, <1>3 DEF DragInv

\* Every step of Win32Dnd.
LEMMA DragSteps ==
  ASSUME Apart, Mannered, DragInv, Dnd!Next
  PROVE  DragInv'
<1>1. CASE Dnd!Begins
  BY <1>1, BeginsKeeps
<1>2. CASE Dnd!LetGo
  BY <1>2, DoDragDropReturnsKeeps, EndsOutsideKeeps DEF Dnd!LetGo
<1>3. CASE Dnd!Continues
  BY <1>3, AnsweredKeeps, LeaveEndsKeeps, DecideKeeps, DropEndsKeeps, TryKeeps, ClearKeeps, DrainKeeps
  DEF Dnd!Continues
<1>4. ASSUME NEW w \in Windows,
             \/ Dnd!DragEnter(w) \/ Dnd!DragOver(w) \/ Dnd!DragLeave(w) \/ Dnd!Drop(w)
             \/ Dnd!Destroy(w) \/ Dnd!WindowMessage(w)
      PROVE  DragInv'
  <2>1. CASE Dnd!DragEnter(w)
    BY <2>1, EnterKeeps
  <2>2. CASE Dnd!DragOver(w)
    BY <2>2, MotionKeeps
  <2>3. CASE Dnd!DragLeave(w)
    BY <2>3, LeaveKeeps
  <2>4. CASE Dnd!Drop(w)
    BY <2>4, DropKeeps
  <2>5. CASE Dnd!Destroy(w)
    BY <2>5, DestroyKeeps
  <2>6. CASE Dnd!WindowMessage(w)
    BY <2>6, MessageKeeps
  <2> QED BY <1>4, <2>1, <2>2, <2>3, <2>4, <2>5, <2>6
<1>5. CASE Dnd!SetValidDndActions \/ Dnd!FetchDataTransfer \/ Dnd!StartDrag \/ Dnd!Returned
  BY <1>5, SetValidKeeps, FetchKeeps, StartKeeps, ReturnedKeeps
<1> QED BY <1>1, <1>2, <1>3, <1>4, <1>5 DEF Dnd!Next

\* The invariant gives what the run checks.
LEMMA DragTells ==
  ASSUME Apart, DragInv
  PROVE  Dnd!DropSettled /\ Dnd!TransferLives /\ Dnd!NoPanic
<1>1. Stacked
  BY DEF DragInv
<1>2. Dnd!Negotiated
  <2>1. Dnd!Quiet => Doing(frames) \notin {"entered", "moved", "left"}
    BY <1>1, GuardsAre
  <2> QED BY <2>1 DEF Dnd!Negotiated, DragInv, Answering, Hovering, Fits
<1>3. Dnd!Agreed
  <2> SUFFICES ASSUME NEW i \in DOMAIN frames, frames[i].op = "dropping"
               PROVE  (frames[i].effect = "none") = (frames[i].event.kind = "DragLeft")
    BY DEF Dnd!Agreed
  <2>1. frames[i] = Now(frames) /\ Doing(frames) = "dropping"
    BY <1>1, TheDrop DEF Stacked
  <2> QED BY <2>1 DEF DragInv, Decided
<1>4. Dnd!Reachable
  <2> SUFFICES ASSUME Dnd!Top("callback"),
                      Said.kind \in {"DragEntered", "DragPosition", "DragDropped"}
               PROVE  Dnd!Known(Said.id)
    BY DEF Dnd!Reachable, Dnd!TheEvent, Said
  <2>1. Called(frames)
    BY <1>1, TopIs
  <2>2. Doing(frames) \in Methods \cup {"clear"}
    BY <1>1, <2>1 DEF Stacked, Shaped
  <2>3. Doing(frames) \in {"entered", "moved", "decide", "dropping"} /\ Said.id = Now(frames).event.id
    BY <2>1, <2>2 DEF DragInv, Speaking, Methods
  <2> QED BY <2>3 DEF DragInv, Present, Reading, Dnd!Known
<1>5. Dnd!NothingLeft
  <2> SUFFICES ASSUME frames = <<>>, ole = None
               PROVE  /\ drag_state = None /\ pending_source_drag_cleanup = None
                      /\ buffered = <<>> /\ own_drag = None
                      /\ \A w \in Windows : active[w] = None
    BY DEF Dnd!NothingLeft
  <2>1. ~Called(frames) /\ ~Draining(frames) /\ Doing(frames) = "idle" /\ Outer(frames) = <<>>
    <3>1. <<>> \in Seq(DragFrames) /\ Bottom(<<>>)
      BY DEF Bottom
    <3> QED BY <3>1, Alone
  <2>2. ~Hovering /\ pending_source_drag_cleanup = None /\ buffered = <<>>
    BY <2>1 DEF DragInv, Hovering, Deferred, Buffered
  <2>3. drag_state = None /\ own_drag = None
    BY <2>1, <2>2 DEF DragInv, Needed, Reading, Sourced
  <2>4. \A w \in Windows : active[w] = None
    BY DEF DragInv, Activated, Over
  <2> QED BY <2>2, <2>3, <2>4
<1>6. Dnd!OwnIsOwn
  <2>1. (\E i \in DOMAIN frames : frames[i].op \in {"DoDragDrop", "clear"})
          <=> Doing(frames) = "clear" \/ Outer(frames) # <<>>
    BY <1>1, GuardsAre
  <2>2. own_drag # None <=> Doing(frames) = "clear" \/ Outer(frames) # <<>>
    BY DEF DragInv, Sourced
  <2> QED BY <2>1, <2>2 DEF Dnd!OwnIsOwn
<1>7. Dnd!NoPanic
  BY DEF DragInv, Dnd!NoPanic
<1> QED BY <1>2, <1>3, <1>4, <1>5, <1>6, <1>7 DEF Dnd!DropSettled, Dnd!TransferLives

\* What the two theorems are from: the invariant, and that other parts leave it alone.
DragSound == part = "drag" => DragInv

\* At first and after every step of the composition.
LEMMA DragSoundKept ==
  ASSUME Apart, Mannered
  PROVE  /\ InputInit => DragSound
         /\ DragSound /\ [InputNext]_<<part, dragging, anchoring, typing, shared>> => DragSound'
<1>1. ASSUME InputInit PROVE DragSound
  BY <1>1, DragStarts DEF InputInit, DragSound
<1>2. ASSUME DragSound, [InputNext]_<<part, dragging, anchoring, typing, shared>> PROVE DragSound'
  <2>1. CASE part' = "drag"
    <3>1. part = "drag" /\ DragInv
      BY <1>2, <2>1 DEF InputNext, DragSound
    <3>2. CASE InputNext
      BY <3>1, <3>2, DragSteps DEF InputNext, DragSound
    <3>3. CASE UNCHANGED <<part, dragging, anchoring, typing, shared>>
      BY <3>1, <3>3, DragRests DEF shared, DragSound
    <3> QED BY <1>2, <3>2, <3>3
  <2>2. CASE part' # "drag"
    BY <2>2 DEF DragSound
  <2> QED BY <2>1, <2>2
<1> QED BY <1>1, <1>2

\* A drop is settled alike for OLE, the target and the source: the effect OLE has is one
\* the application set and the source allows, and the target hears of a drop exactly where
\* there is one (dnd.rs:660).
THEOREM DropsAreSettled == ASSUME Apart, Mannered PROVE InputSpec => []DropsSettled
<1>1. InputInit => DragSound
  BY DragSoundKept
<1>2. DragSound /\ [InputNext]_<<part, dragging, anchoring, typing, shared>> => DragSound'
  BY DragSoundKept
<1>3. DragSound => DropsSettled
  BY DragTells DEF DragSound, DropsSettled
<1> QED BY <1>1, <1>2, <1>3, PTL DEF InputSpec

\* A transfer lives as long as there is something to read, no borrow of the runner's state
\* is taken twice, and a drag is taken for the application's own exactly while it is
\* (runner.rs:86).
THEOREM TransfersAreKept == ASSUME Apart, Mannered PROVE InputSpec => []TransfersLive
<1>1. InputInit => DragSound
  BY DragSoundKept
<1>2. DragSound /\ [InputNext]_<<part, dragging, anchoring, typing, shared>> => DragSound'
  BY DragSoundKept
<1>3. DragSound => TransfersLive
  BY DragTells DEF DragSound, TransfersLive
<1> QED BY <1>1, <1>2, <1>3, PTL DEF InputSpec

\* Ids are counted: what is asked for, carried or kept was given its number before.
Counted ==
  /\ waiting \subseteq 1 .. ids
  /\ own_drag # None => own_drag \in 1 .. ids
  /\ drag_state # None => drag_state.id \in 1 .. ids

\* No new number is given, and none is kept that was not.
LEMMA CountedStays ==
  ASSUME Counted, UNCHANGED ids, waiting' \subseteq waiting, own_drag' \in {own_drag, None},
         drag_state' \in {drag_state, None}
  PROVE  Counted'
BY DEF Counted

\* Every step of Win32Dnd.
LEMMA CountedKept ==
  ASSUME Apart, Mannered, DragInv, Counted, Dnd!Next
  PROVE  Counted'
<1> USE DEF Dnd!runner, Dnd!targets, Dnd!world, Dnd!app
<1>1. CASE Dnd!Begins \/ Dnd!LetGo
  <2>1. UNCHANGED <<ids, waiting, own_drag, drag_state>>
    BY <1>1, Zenon DEF Dnd!Begins, Dnd!LetGo, Dnd!DoDragDropReturns, Dnd!EndsOutside
  <2> QED BY <2>1, CountedStays
<1>2. CASE Dnd!Continues
  <2>1. CASE Dnd!Answered \/ Dnd!Decide
    <3>1. UNCHANGED <<ids, waiting, own_drag, drag_state>>
      BY <2>1 DEF Dnd!Answered, Dnd!Decide
    <3> QED BY <3>1, CountedStays
  <2>2. CASE Dnd!LeaveEnds
    <3>1. UNCHANGED <<ids, waiting, own_drag>> /\ drag_state' \in {drag_state, None}
      BY <2>2 DEF Dnd!LeaveEnds, Dnd!RemoveDataTransfer, Dnd!Panic
    <3> QED BY <3>1, CountedStays
  <2>3. CASE Dnd!DropEnds
    <3>1. UNCHANGED <<ids, waiting, own_drag>> /\ drag_state' \in {drag_state, None}
      BY <2>3 DEF Dnd!DropEnds, Dnd!RemoveDataTransfer, Dnd!Panic
    <3> QED BY <3>1, CountedStays
  <2>4. CASE Dnd!Drain
    <3>1. UNCHANGED <<ids, waiting, own_drag>> /\ drag_state' \in {drag_state, None}
      BY <2>4 DEF Dnd!Drain, Dnd!RemoveDataTransfer
    <3> QED BY <3>1, CountedStays
  <2>5. CASE Dnd!ClearOnDrop
    <3>1. UNCHANGED <<ids, waiting, drag_state>> /\ own_drag' = None
      BY <2>5 DEF Dnd!ClearOnDrop
    <3> QED BY <3>1, CountedStays
  <2>6. CASE Dnd!TryExecuteDragDrop
    <3>1. UNCHANGED <<ids, waiting, drag_state>>
      BY <2>6 DEF Dnd!TryExecuteDragDrop
    <3>2. own_drag' = own_drag \/ (asked_drag # None /\ own_drag' = asked_drag.id)
      BY <2>6 DEF Dnd!TryExecuteDragDrop
    <3>3. own_drag' = own_drag \/ own_drag' \in waiting
      BY <3>2 DEF DragInv, Sourced
    <3> QED BY <3>1, <3>3 DEF Counted
  <2> QED BY <1>2, <2>1, <2>2, <2>3, <2>4, <2>5, <2>6 DEF Dnd!Continues
<1>3. ASSUME NEW w \in Windows, Dnd!DragEnter(w)
      PROVE  Counted'
  <2>1. ids \in Nat
    BY DEF DragInv, DragTyped
  <2>2. CASE Dnd!Held
    <3>1. UNCHANGED <<ids, waiting, own_drag, drag_state>>
      BY <1>3, <2>2 DEF Dnd!DragEnter, Dnd!Panic
    <3> QED BY <3>1, CountedStays
  <2>3. CASE ~Dnd!Held
    <3>1. UNCHANGED <<waiting, own_drag>> /\ ids' = IF own_drag # None THEN ids ELSE ids + 1
      BY <1>3, <2>3 DEF Dnd!DragEnter
    <3>2. drag_state'.id = IF own_drag # None THEN own_drag ELSE ids + 1
      BY <1>3, <2>3 DEF Dnd!DragEnter
    <3> QED BY <2>1, <3>1, <3>2 DEF Counted
  <2> QED BY <2>2, <2>3
<1>4. ASSUME NEW w \in Windows, Dnd!Destroy(w)
      PROVE  Counted'
  <2>1. UNCHANGED <<ids, waiting, own_drag>> /\ drag_state' \in {drag_state, None}
    BY <1>4 DEF Dnd!Destroy, Dnd!RemoveDataTransfer
  <2> QED BY <2>1, CountedStays
<1>5. ASSUME NEW w \in Windows,
             Dnd!DragOver(w) \/ Dnd!DragLeave(w) \/ Dnd!Drop(w) \/ Dnd!WindowMessage(w)
      PROVE  Counted'
  <2>1. UNCHANGED <<ids, waiting, own_drag, drag_state>>
    BY <1>5, Zenon DEF Dnd!DragOver, Dnd!DragLeave, Dnd!Drop, Dnd!WindowMessage
  <2> QED BY <2>1, CountedStays
<1>6. CASE Dnd!SetValidDndActions
  <2>1. UNCHANGED <<ids, waiting, own_drag>>
    BY <1>6 DEF Dnd!SetValidDndActions
  <2>2. \/ drag_state' = drag_state
        \/ /\ drag_state # None
           /\ \E actions \in Dnd!Preferences : drag_state' = [drag_state EXCEPT !.actions = actions]
    BY <1>6 DEF Dnd!SetValidDndActions, Dnd!Known
  <2>3. drag_state' = drag_state \/ (drag_state # None /\ drag_state'.id = drag_state.id)
    BY <2>2 DEF DragInv, DragTyped, Transfers
  <2> QED BY <2>1, <2>3 DEF Counted
<1>7. CASE Dnd!FetchDataTransfer
  <2>1. UNCHANGED <<ids, waiting, own_drag, drag_state>>
    BY <1>7 DEF Dnd!FetchDataTransfer
  <2> QED BY <2>1, CountedStays
<1>8. CASE Dnd!StartDrag
  <2>1. ids \in Nat
    BY DEF DragInv, DragTyped
  <2>2. ids' = ids + 1 /\ waiting' = waiting \cup {ids + 1} /\ UNCHANGED <<own_drag, drag_state>>
    BY <1>8 DEF Dnd!StartDrag
  <2> QED BY <2>1, <2>2 DEF Counted
<1>9. CASE Dnd!Returned
  <2>1. UNCHANGED <<ids, own_drag, drag_state>> /\ waiting' \subseteq waiting
    BY <1>9 DEF Dnd!Returned
  <2> QED BY <2>1, CountedStays
<1> QED BY <1>1, <1>2, <1>3, <1>4, <1>5, <1>6, <1>7, <1>8, <1>9 DEF Dnd!Next

\* Types of the transfer, the drags and their calls (Win32Dnd).
THEOREM DragTypeCorrectness ==
  ASSUME Apart, Mannered PROVE InputSpec => [](part = "drag" => Dnd!TypeOK)
<1> DEFINE I == DragSound /\ (part = "drag" => Counted)
<1>1. InputInit => I
  BY DragSoundKept, Zenon DEF InputInit, Counted, Dnd!Init
<1>2. I /\ [InputNext]_<<part, dragging, anchoring, typing, shared>> => I'
  <2> SUFFICES ASSUME I, [InputNext]_<<part, dragging, anchoring, typing, shared>>, part' = "drag"
               PROVE  Counted'
    BY DragSoundKept
  <2>1. CASE InputNext
    BY <2>1, CountedKept DEF InputNext, DragSound
  <2>2. CASE UNCHANGED <<part, dragging, anchoring, typing, shared>>
    BY <2>2 DEF dragging, Counted
  <2> QED BY <2>1, <2>2
<1>3. I => (part = "drag" => Dnd!TypeOK)
  <2> SUFFICES ASSUME DragInv, Counted PROVE Dnd!TypeOK
    BY DEF DragSound
  <2>1. \A i \in DOMAIN frames : frames[i].op \in
          {"callback", "drain", "entered", "moved", "left", "decide", "dropping", "try_drag",
           "DoDragDrop", "clear"}
    <3>1. \A f \in DragFrames : f.op \in Methods \cup {"callback", "drain", "clear", "DoDragDrop"}
      BY DEF DragFrames
    <3>2. \A i \in DOMAIN frames : frames[i] \in DragFrames
      BY DEF DragInv, Stacked
    <3> QED BY <3>1, <3>2 DEF Methods
  <2>2. drag_state # None => drag_state.actions \in Dnd!Preferences
    BY DEF DragInv, DragTyped, Transfers
  <2> QED BY <2>1, <2>2 DEF DragInv, DragTyped, Counted, Dnd!TypeOK
<1> QED BY <1>1, <1>2, <1>3, PTL DEF InputSpec

----
(* Popups (MCWin32Input, Win32Popups, Positioner) *)

\* A clip that is not empty.
IsClip(clip) == clip.lo \in Int /\ clip.hi \in Int /\ clip.lo <= clip.hi

\* Flip and Slide, one after the other.
Slid(origin, extent, clip, flipped, flags) ==
  Anchored!Slide(Anchored!Flip(origin, extent, clip, flipped, flags), extent, clip, flags)

\* Flip and Slide.
LEMMA SlideBounds ==
  ASSUME NEW origin \in Int, NEW flipped \in Int, NEW extent \in Nat, NEW clip, IsClip(clip), NEW flags
  PROVE LET at == Slid(origin, extent, clip, flipped, flags)
        IN /\ at \in Int
           /\ "slide" \in flags /\ extent <= clip.hi - clip.lo => Anchored!FitsIn(at, extent, clip)
           /\ "slide" \in flags /\ extent > clip.hi - clip.lo => at = clip.lo
BY DEF Slid, Anchored!Slide, Anchored!Flip, Anchored!FitsIn, Anchored!Greater, Anchored!Lesser, IsClip

\* Resize makes nothing larger, and leaves what fits alone.
LEMMA ResizeBounds ==
  ASSUME NEW at \in Int, NEW extent \in Nat, NEW clip, IsClip(clip), NEW flags
  PROVE LET to == Anchored!Resize(at, extent, clip, flags)
        IN /\ to.origin \in Int /\ to.extent \in Nat /\ to.extent <= extent
           /\ Anchored!FitsIn(at, extent, clip) => to.origin = at /\ to.extent = extent
           /\ "resize" \notin flags => to.origin = at /\ to.extent = extent
           /\ at = clip.lo /\ extent > clip.hi - clip.lo /\ "resize" \in flags
                => to.origin = clip.lo /\ to.extent = clip.hi - clip.lo
BY DEF Anchored!Resize, Anchored!FitsIn, Anchored!Greater, Anchored!Lesser, IsClip

\* The place nearest to the origin is the one Slide computes: there is no other as near.
LEMMA NearestIs ==
  ASSUME NEW origin \in Int, NEW extent \in Nat, NEW clip, IsClip(clip),
         ~Anchored!FitsIn(origin, extent, clip), extent <= clip.hi - clip.lo
  PROVE Anchored!Nearest(origin, extent, clip)
          = Anchored!Lesser(Anchored!Greater(origin, clip.lo), Anchored!Greater(clip.hi - extent, clip.lo))
<1> DEFINE places == clip.lo .. clip.hi - extent
           far(at) == Anchored!Greater(at - origin, origin - at)
           near == Anchored!Lesser(Anchored!Greater(origin, clip.lo), Anchored!Greater(clip.hi - extent, clip.lo))
<1>1. near \in places
  BY DEF IsClip, Anchored!Greater, Anchored!Lesser
<1>2. \A other \in places : far(near) <= far(other)
  BY DEF IsClip, Anchored!Greater, Anchored!Lesser, Anchored!FitsIn
<1>3. \A at \in places : at # near => ~(far(at) <= far(near))
  BY DEF IsClip, Anchored!Greater, Anchored!Lesser, Anchored!FitsIn
<1>4. \A at \in places : (\A other \in places : far(at) <= far(other)) => at = near
  BY <1>1, <1>3
<1>5. Anchored!Nearest(origin, extent, clip) = CHOOSE at \in places : \A other \in places : far(at) <= far(other)
  BY DEF Anchored!Nearest
<1> HIDE DEF places, far, near
<1>6. (CHOOSE at \in places : \A other \in places : far(at) <= far(other)) = near
  BY <1>1, <1>2, <1>4
<1> QED BY <1>5, <1>6 DEF near

\* What is to be seen of the window is what Resize computes.
LEMMA VisibleIs ==
  ASSUME NEW origin \in Int, NEW extent \in Nat, NEW clip, IsClip(clip)
  PROVE LET seen == Anchored!Visible(origin, extent, clip)
            lo == Anchored!Greater(origin, clip.lo)
            hi == Anchored!Lesser(clip.hi, origin + extent)
        IN /\ seen = {} <=> hi < lo
           /\ seen # {} => /\ (CHOOSE p \in seen : \A q \in seen : p <= q) = lo
                           /\ (CHOOSE p \in seen : \A q \in seen : p >= q) = hi
<1> DEFINE seen == Anchored!Visible(origin, extent, clip)
           lo == Anchored!Greater(origin, clip.lo)
           hi == Anchored!Lesser(clip.hi, origin + extent)
<1>1. \A p : p \in seen <=> p \in Int /\ lo <= p /\ p <= hi
  BY DEF Anchored!Visible, Anchored!Greater, Anchored!Lesser, IsClip
<1>2. lo \in Int /\ hi \in Int
  BY DEF Anchored!Greater, Anchored!Lesser, IsClip
<1> HIDE DEF seen, lo, hi
<1>3. seen = {} <=> hi < lo
  BY <1>1, <1>2
<1>4. ASSUME seen # {} PROVE (CHOOSE p \in seen : \A q \in seen : p <= q) = lo
  <2>1. lo \in seen /\ \A q \in seen : lo <= q
    BY <1>1, <1>2, <1>3, <1>4
  <2>2. \A p \in seen : (\A q \in seen : p <= q) => p = lo
    BY <1>1, <1>2, <2>1
  <2> QED BY <2>1, <2>2
<1>5. ASSUME seen # {} PROVE (CHOOSE p \in seen : \A q \in seen : p >= q) = hi
  <2>1. hi \in seen /\ \A q \in seen : hi >= q
    BY <1>1, <1>2, <1>3, <1>5
  <2>2. \A p \in seen : (\A q \in seen : p >= q) => p = hi
    BY <1>1, <1>2, <2>1
  <2> QED BY <2>1, <2>2
<1> QED BY <1>3, <1>4, <1>5 DEF seen, lo, hi

\* The three steps of constrain_axis are the adjustments of xdg_positioner, for any
\* window, clip and flags (positioner.rs:58).
LEMMA ConstrainedAsAdjusted ==
  ASSUME NEW origin \in Int, NEW flipped \in Int, NEW extent \in Nat, NEW clip, IsClip(clip), NEW flags
  PROVE Anchored!AsAdjusted(Anchored!ConstrainAxis(origin, extent, clip, flipped, flags), origin, extent, clip, flipped, flags)
<1> DEFINE placed1 == Anchored!ConstrainAxis(origin, extent, clip, flipped, flags)
           whole(at) == [origin |-> at, extent |-> extent]
           seen == Anchored!Visible(origin, extent, clip)
           room == clip.hi - clip.lo
           fits == Anchored!FitsIn(origin, extent, clip)
           flips == ~fits /\ "flip" \in flags /\ Anchored!FitsIn(flipped, extent, clip)
           slides == ~fits /\ ~flips /\ "slide" \in flags
           cut == ~fits /\ ~flips /\ ~slides /\ "resize" \in flags
           first == CHOOSE p \in seen : \A q \in seen : p <= q
           last == CHOOSE p \in seen : \A q \in seen : p >= q
<1>1. fits => placed1 = whole(origin)
  BY DEF Anchored!ConstrainAxis, Anchored!Flip, Anchored!Slide, Anchored!Resize
<1>2. flips => placed1 = whole(flipped)
  BY DEF Anchored!ConstrainAxis, Anchored!Flip, Anchored!Slide, Anchored!Resize
<1>3. slides /\ extent <= room => placed1 = whole(Anchored!Nearest(origin, extent, clip))
  <2>1. SUFFICES ASSUME slides, extent <= room PROVE placed1 = whole(Anchored!Nearest(origin, extent, clip))
    OBVIOUS
  <2>2. Anchored!Nearest(origin, extent, clip) = Anchored!Lesser(Anchored!Greater(origin, clip.lo), Anchored!Greater(clip.hi - extent, clip.lo))
    BY <2>1, NearestIs
  <2>3. Anchored!Flip(origin, extent, clip, flipped, flags) = origin
    BY <2>1 DEF Anchored!Flip
  <2>4. Anchored!Slide(origin, extent, clip, flags) = Anchored!Nearest(origin, extent, clip)
    BY <2>1, <2>2 DEF Anchored!Slide
  <2>5. Anchored!FitsIn(Anchored!Nearest(origin, extent, clip), extent, clip)
    BY <2>1, <2>2 DEF Anchored!FitsIn, Anchored!Greater, Anchored!Lesser, IsClip
  <2> QED BY <2>3, <2>4, <2>5 DEF Anchored!ConstrainAxis, Anchored!Resize
<1>4. slides /\ extent > room =>
        placed1 = IF "resize" \in flags THEN Anchored!Interval(clip.lo, clip.hi) ELSE whole(clip.lo)
  <2>1. SUFFICES ASSUME slides, extent > room
                 PROVE placed1 = IF "resize" \in flags THEN Anchored!Interval(clip.lo, clip.hi) ELSE whole(clip.lo)
    OBVIOUS
  <2>2. Anchored!Flip(origin, extent, clip, flipped, flags) = origin
    BY <2>1 DEF Anchored!Flip
  <2>3. Anchored!Slide(origin, extent, clip, flags) = clip.lo
    BY <2>1 DEF Anchored!Slide, Anchored!Greater, Anchored!Lesser, IsClip
  <2>4. ~Anchored!FitsIn(clip.lo, extent, clip)
    BY <2>1 DEF Anchored!FitsIn, IsClip
  <2>5. Anchored!Greater(clip.lo, clip.lo) = clip.lo /\ Anchored!Lesser(clip.hi, clip.lo + extent) = clip.hi
    BY <2>1 DEF Anchored!Greater, Anchored!Lesser, IsClip
  <2>6. Anchored!Greater(clip.hi - clip.lo, 0) = clip.hi - clip.lo
    BY DEF Anchored!Greater, IsClip
  <2> QED BY <2>2, <2>3, <2>4, <2>5, <2>6 DEF Anchored!ConstrainAxis, Anchored!Resize, Anchored!Interval
<1>5. cut => placed1 = [origin |-> Anchored!Greater(origin, clip.lo),
                        extent |-> Anchored!Greater(Anchored!Lesser(clip.hi, origin + extent) - Anchored!Greater(origin, clip.lo), 0)]
  BY DEF Anchored!ConstrainAxis, Anchored!Flip, Anchored!Slide, Anchored!Resize
<1>6. cut /\ seen # {} => placed1 = Anchored!Interval(first, last)
  <2>1. SUFFICES ASSUME cut, seen # {} PROVE placed1 = Anchored!Interval(first, last)
    OBVIOUS
  <2>2. first = Anchored!Greater(origin, clip.lo) /\ last = Anchored!Lesser(clip.hi, origin + extent)
    BY <2>1, VisibleIs
  <2>3. ~(Anchored!Lesser(clip.hi, origin + extent) < Anchored!Greater(origin, clip.lo))
    BY <2>1, VisibleIs
  <2>4. Anchored!Greater(Anchored!Lesser(clip.hi, origin + extent) - Anchored!Greater(origin, clip.lo), 0)
          = Anchored!Lesser(clip.hi, origin + extent) - Anchored!Greater(origin, clip.lo)
    BY <2>3 DEF Anchored!Greater, Anchored!Lesser, IsClip
  <2> QED BY <1>5, <2>1, <2>2, <2>4 DEF Anchored!Interval
<1>7. cut /\ seen = {} => placed1.extent = 0
  <2>1. SUFFICES ASSUME cut, seen = {} PROVE placed1.extent = 0
    OBVIOUS
  <2>2. Anchored!Lesser(clip.hi, origin + extent) < Anchored!Greater(origin, clip.lo)
    BY <2>1, VisibleIs
  <2>3. Anchored!Greater(Anchored!Lesser(clip.hi, origin + extent) - Anchored!Greater(origin, clip.lo), 0) = 0
    BY <2>2 DEF Anchored!Greater, Anchored!Lesser, IsClip
  <2> QED BY <1>5, <2>1, <2>3
<1>8. ~fits /\ ~flips /\ ~slides /\ ~cut => placed1 = whole(origin)
  BY DEF Anchored!ConstrainAxis, Anchored!Flip, Anchored!Slide, Anchored!Resize
<1> HIDE DEF placed1
<1> QED BY <1>1, <1>2, <1>3, <1>4, <1>6, <1>7, <1>8 DEF Anchored!AsAdjusted, placed1
\* What is taken for granted of the screens and of those who use them: there is a screen,
\* each has room for the borders of a window, lengths are numbers, and nobody interrupts a
\* reposition or overtakes a call of another thread.
Roomy ==
  /\ Count \in Nat \ {0} /\ Border \in Nat
  /\ MaxActs \in Nat
  /\ Sizes \subseteq Nat /\ Places \subseteq Int
  /\ Screens # {}
  /\ \A s \in Screens : s.lo \in Int /\ s.hi \in Int /\ s.lo + Anchored!Insets <= s.hi
  /\ \A p \in Positioners : /\ p.rect["x"].at \in Int /\ p.rect["x"].size \in Int
                            /\ p.offset["x"] \in Int
  /\ Acts \cap {"interrupt", "overtake"} = {}

\* A set of numbers has a least one: the order of Nat is well-founded.
LEMMA Least ==
  ASSUME NEW S \in SUBSET Nat, S # {}
  PROVE \E m \in S : \A k \in S : m <= k
<1> DEFINE R == {p \in Nat \X Nat : p[1] < p[2]}
<1>1. IsWellFoundedOn(R, Nat)
  <2>1. R = OpToRel(<, Nat)
    BY DEF OpToRel
  <2> QED BY <2>1, NatLessThanWellFounded
<1>2. \E m \in S : \A k \in S : ~(<<k, m>> \in R)
  <2> HIDE DEF R
  <2> QED BY <1>1, WFMin
<1>3. PICK m \in S : \A k \in S : ~(<<k, m>> \in R)
  BY <1>2
<1>4. ASSUME NEW k \in S PROVE m <= k
  <2>1. ~(<<k, m>> \in R)
    BY <1>3
  <2>2. k \in Nat /\ m \in Nat /\ <<k, m>> \in Nat \X Nat
    OBVIOUS
  <2>3. ~(k < m)
    BY <2>1, <2>2
  <2> QED BY <2>2, <2>3
<1> QED BY <1>4

\* Induction, over a set of numbers: the provers cannot instantiate it over a predicate.
LEMMA NatSetInduction ==
  ASSUME NEW S \in SUBSET Nat, 0 \in S, \A n \in S : n + 1 \in S
  PROVE S = Nat
<1> SUFFICES ASSUME Nat \ S # {} PROVE FALSE
  OBVIOUS
<1>1. PICK m \in Nat \ S : \A k \in Nat \ S : m <= k
  BY Least
<1>2. m # 0 /\ m - 1 \in Nat /\ ~(m <= m - 1)
  BY <1>1
<1>3. m - 1 \in S
  BY <1>1, <1>2
<1>4. (m - 1) + 1 = m
  BY <1>1
<1> QED BY <1>1, <1>3, <1>4

\* A rectangle, whatever set of records it is from.
IsRect(r) == r.at \in Int /\ r.size \in Nat

\* There is a monitor that shows most of a window, be the screens finite or not.
LEMMA MonitorIsBest ==
  ASSUME Roomy, NEW r, IsRect(r)
  PROVE /\ Anchored!Monitor(r) \in Screens
        /\ \A s \in Screens : Anchored!Shown(r, Anchored!Monitor(r)) >= Anchored!Shown(r, s)
<1> DEFINE hidden(s) == r.size - Anchored!Shown(r, s)
           S == {hidden(s) : s \in Screens}
<1>1. \A s \in Screens : Anchored!Shown(r, s) \in Int /\ hidden(s) \in Nat
  BY DEF Anchored!Shown, Anchored!Lesser, Anchored!Greater, Roomy, IsRect
<1>2. S \in SUBSET Nat /\ S # {}
  BY <1>1 DEF Roomy
<1>3. PICK m \in S : \A k \in S : m <= k
  BY <1>2, Least
<1>4. PICK best \in Screens : m = hidden(best)
  BY <1>3
<1>5. \A other \in Screens : hidden(best) <= hidden(other)
  BY <1>3, <1>4
<1>6. r.size \in Nat
  BY DEF IsRect
<1>7. \A other \in Screens : Anchored!Shown(r, best) >= Anchored!Shown(r, other)
  <2> TAKE other \in Screens
  <2>1. hidden(best) <= hidden(other)
    BY <1>5
  <2>2. Anchored!Shown(r, best) \in Int /\ Anchored!Shown(r, other) \in Int
    BY <1>1
  <2> HIDE DEF S
  <2> QED BY <1>6, <2>1, <2>2
<1> QED BY <1>4, <1>7 DEF Anchored!Monitor

\* Rounding goes to one of the two pixels next to it, and leaves a whole pixel alone.
LEMMA RoundedBounds ==
  ASSUME NEW o \in Int
  PROVE /\ Anchored!Rounded(o) \in Int
        /\ \A l \in Int : 2 * l <= o => l <= Anchored!Rounded(o)
        /\ \A l \in Int : o <= 2 * l => Anchored!Rounded(o) <= l
        /\ \A l \in Int : o = 2 * l => Anchored!Rounded(o) = l
<1>1. Anchored!Rounded(o) \in Int
  BY DEF Anchored!Rounded
<1>2. CASE o >= 0
  <2>1. PICK q \in Int : q = (o + 1) \div 2 /\ 2 * q <= o + 1 /\ o + 1 <= 2 * q + 1
    OBVIOUS
  <2>2. Anchored!Rounded(o) = q
    BY <1>2, <2>1 DEF Anchored!Rounded
  <2> QED BY <2>1, <2>2
<1>3. CASE ~(o >= 0)
  <2>1. PICK q \in Int : q = (1 - o) \div 2 /\ 2 * q <= 1 - o /\ 1 - o <= 2 * q + 1
    OBVIOUS
  <2>2. Anchored!Rounded(o) = -q
    BY <1>3, <2>1 DEF Anchored!Rounded
  <2> QED BY <2>1, <2>2
<1> QED BY <1>2, <1>3

\* Positioners compute half pixels.
LEMMA OriginsAreInt ==
  ASSUME Roomy, NEW p \in Positioners, NEW extent \in Nat
  PROVE Anchored!Origin(p, "x", extent) \in Int /\ Anchored!Flipped(p, "x", extent) \in Int
<1>1. \A a : Anchored!AnchorFraction(a)["x"] \in 0 .. 2
  BY DEF Anchored!AnchorFraction
<1>2. \A g : Anchored!GravityFraction(g)["x"] \in 0 .. 2
  BY DEF Anchored!GravityFraction
<1>3. ASSUME NEW a \in Int, NEW n \in 0 .. 2 PROVE a * n \in Int
  <2>1. CASE n = 0
    BY <2>1
  <2>2. CASE n = 1
    BY <2>2
  <2>3. CASE n = 2
    BY <2>3
  <2> QED BY <2>1, <2>2, <2>3
<1>4. PICK f \in 0 .. 2 : f = Anchored!AnchorFraction(p.anchor)["x"]
  BY <1>1
<1>5. PICK g \in 0 .. 2 : g = Anchored!GravityFraction(p.gravity)["x"]
  BY <1>2
<1>6. p.rect["x"].at \in Int /\ p.rect["x"].size \in Int /\ p.offset["x"] \in Int
  BY DEF Roomy
<1>7. /\ p.rect["x"].size * f \in Int /\ p.rect["x"].size * (2 - f) \in Int
      /\ extent * g \in Int /\ extent * (2 - g) \in Int
  <2>1. 2 - f \in 0 .. 2 /\ 2 - g \in 0 .. 2 /\ extent \in Int
    OBVIOUS
  <2> QED BY <1>3, <1>6, <2>1
<1> DEFINE A == p.rect["x"].size * f
           B == p.rect["x"].size * (2 - f)
           C == extent * g
           D == extent * (2 - g)
<1>8. A \in Int /\ B \in Int /\ C \in Int /\ D \in Int
  BY <1>7
<1>9. /\ Anchored!Origin(p, "x", extent) = 2 * p.rect["x"].at + A - C \div 2 + 2 * p.offset["x"]
      /\ Anchored!Flipped(p, "x", extent) = 2 * p.rect["x"].at + B - D \div 2 + 2 * p.offset["x"]
  BY <1>4, <1>5 DEF Anchored!Origin, Anchored!Flipped
<1> HIDE DEF A, B, C, D
<1> QED BY <1>6, <1>8, <1>9

\* As much of a window as fits on a screen.
Fitted(size, s) == Anchored!Lesser(size, s.hi - s.lo)

\* Where a window is put and how large it becomes.
LEMMA PlacementBounds ==
  ASSUME Roomy, NEW p \in Positioners, NEW r, IsRect(r), Anchored!Insets <= r.size,
         NEW owner, IsRect(owner)
  PROVE LET to == Anchored!PlacementOf(p, r, Anchored!ClipOf(r, owner))
            at == Anchored!Content(owner) + Anchored!Rounded(to.at)
            m == Anchored!Monitor(r)
        IN /\ to.at \in Int /\ to.size \in Nat
           /\ Anchored!Rounded(to.at) \in Int /\ at \in Int
           /\ Anchored!Rounded(to.size) \in Nat /\ Anchored!Rounded(to.size) + Anchored!Insets <= r.size
           /\ "resize" \notin p.flags["x"] => to.size = 2 * (r.size - Anchored!Insets)
           /\ "slide" \in p.flags["x"] =>
                /\ m.lo <= at /\ at + Fitted(r.size, m) <= m.hi
                /\ "resize" \in p.flags["x"] =>
                     /\ to.size = 2 * (Fitted(r.size, m) - Anchored!Insets)
                     /\ Anchored!Rounded(to.size) + Anchored!Insets = Fitted(r.size, m)
<1> DEFINE m == Anchored!Monitor(r)
           clip == Anchored!ClipOf(r, owner)
           flags == p.flags["x"]
           extent == 2 * r.size
           o == Anchored!Origin(p, "x", extent)
           f == Anchored!Flipped(p, "x", extent)
           slid == Slid(o, extent, clip, f, flags)
           outer == Anchored!PlaceAxis(p, "x", extent, clip)
           to == Anchored!PlacementOf(p, r, clip)
           c == Anchored!Content(owner)
           at == c + Anchored!Rounded(to.at)
<1>1. /\ m \in Screens /\ m.lo \in Int /\ m.hi \in Int /\ m.lo + Anchored!Insets <= m.hi
      /\ Anchored!Insets \in Nat /\ c \in Int /\ r.at \in Int /\ r.size \in Nat /\ extent \in Nat
  BY MonitorIsBest DEF Roomy, Anchored!Insets, Anchored!Content, IsRect
<1>2. clip.lo = 2 * (m.lo - c) /\ clip.hi = 2 * (m.hi - c) /\ IsClip(clip)
  BY <1>1 DEF Anchored!ClipOf, IsClip
<1>3. o \in Int /\ f \in Int
  BY <1>1, OriginsAreInt
<1> HIDE DEF m, clip, extent, o, f
<1>4. /\ slid \in Int
      /\ "slide" \in flags /\ extent <= clip.hi - clip.lo => Anchored!FitsIn(slid, extent, clip)
      /\ "slide" \in flags /\ extent > clip.hi - clip.lo => slid = clip.lo
  <2>1. o \in Int /\ f \in Int /\ extent \in Nat /\ IsClip(clip)
    BY <1>1, <1>2, <1>3
  <2>2. ASSUME NEW set
        PROVE /\ Slid(o, extent, clip, f, set) \in Int
              /\ "slide" \in set /\ extent <= clip.hi - clip.lo
                   => Anchored!FitsIn(Slid(o, extent, clip, f, set), extent, clip)
              /\ "slide" \in set /\ extent > clip.hi - clip.lo
                   => Slid(o, extent, clip, f, set) = clip.lo
    BY <2>1, SlideBounds
  <2> QED BY <2>2
<1>5. outer = Anchored!Resize(slid, extent, clip, flags)
  BY DEF Anchored!PlaceAxis, Anchored!ConstrainAxis, Slid, o, f
<1> HIDE DEF slid
<1>6. /\ outer.origin \in Int /\ outer.extent \in Nat /\ outer.extent <= extent
      /\ Anchored!FitsIn(slid, extent, clip) => outer.origin = slid /\ outer.extent = extent
      /\ "resize" \notin flags => outer.origin = slid /\ outer.extent = extent
      /\ slid = clip.lo /\ extent > clip.hi - clip.lo /\ "resize" \in flags
           => outer.origin = clip.lo /\ outer.extent = clip.hi - clip.lo
  <2> HIDE DEF flags, outer
  <2> QED BY <1>1, <1>2, <1>4, <1>5, ResizeBounds
<1>7. to.at = outer.origin /\ to.size = Anchored!Greater(outer.extent - 2 * Anchored!Insets, 0)
  BY DEF Anchored!PlacementOf, extent
<1> HIDE DEF outer, to
<1>8. to.at \in Int /\ to.size \in Nat
  BY <1>1, <1>6, <1>7 DEF Anchored!Greater
<1>9. to.size <= 2 * (r.size - Anchored!Insets) /\ r.size - Anchored!Insets \in Int
  BY <1>1, <1>6, <1>7 DEF Anchored!Greater, extent
<1>10. Anchored!Rounded(to.at) \in Int /\ at \in Int
  BY <1>1, <1>8, RoundedBounds
<1>11. Anchored!Rounded(to.size) \in Nat /\ Anchored!Rounded(to.size) + Anchored!Insets <= r.size
  <2>1. Anchored!Rounded(to.size) <= r.size - Anchored!Insets /\ 0 <= Anchored!Rounded(to.size) /\ Anchored!Rounded(to.size) \in Int
    BY <1>8, <1>9, RoundedBounds
  <2> QED BY <1>1, <2>1
<1>12. "resize" \notin flags => to.size = 2 * (r.size - Anchored!Insets)
  BY <1>1, <1>6, <1>7 DEF Anchored!Greater, extent
<1>13. ASSUME "slide" \in flags
       PROVE /\ m.lo <= at /\ at + Fitted(r.size, m) <= m.hi
             /\ "resize" \in flags =>
                  /\ to.size = 2 * (Fitted(r.size, m) - Anchored!Insets)
                  /\ Anchored!Rounded(to.size) + Anchored!Insets = Fitted(r.size, m)
  <2>1. CASE r.size <= m.hi - m.lo
    <3>1. extent <= clip.hi - clip.lo
      BY <1>1, <1>2, <2>1 DEF extent
    <3>2. to.at = slid /\ outer.extent = extent /\ Anchored!FitsIn(slid, extent, clip)
      BY <1>4, <1>6, <1>7, <1>13, <3>1
    <3>3. 2 * (m.lo - c) <= to.at /\ to.at <= 2 * (m.hi - c - r.size)
      BY <1>1, <1>2, <1>4, <3>2 DEF Anchored!FitsIn, extent
    <3>4. m.lo - c <= Anchored!Rounded(to.at) /\ Anchored!Rounded(to.at) <= m.hi - c - r.size
      BY <1>1, <1>8, <3>3, RoundedBounds
    <3>5. Fitted(r.size, m) = r.size
      BY <2>1 DEF Fitted, Anchored!Lesser
    <3>6. to.size = 2 * (r.size - Anchored!Insets)
      BY <1>1, <1>7, <3>2 DEF Anchored!Greater, extent
    <3>7. Anchored!Rounded(to.size) = r.size - Anchored!Insets
      BY <1>1, <1>8, <3>6, RoundedBounds
    <3> QED BY <1>1, <1>10, <3>4, <3>5, <3>6, <3>7
  <2>2. CASE ~(r.size <= m.hi - m.lo)
    <3>1. extent > clip.hi - clip.lo
      BY <1>1, <1>2, <2>2 DEF extent
    <3>2. to.at = clip.lo /\ slid = clip.lo
      BY <1>4, <1>6, <1>7, <1>13, <3>1
    <3>3. Anchored!Rounded(to.at) = m.lo - c
      BY <1>1, <1>2, <1>8, <3>2, RoundedBounds
    <3>4. Fitted(r.size, m) = m.hi - m.lo /\ m.hi - m.lo \in Int
      BY <1>1, <2>2 DEF Fitted, Anchored!Lesser
    <3>5. "resize" \in flags => to.size = 2 * (m.hi - m.lo - Anchored!Insets)
      BY <1>1, <1>2, <1>6, <1>7, <3>1, <3>2 DEF Anchored!Greater
    <3>6. "resize" \in flags => Anchored!Rounded(to.size) = m.hi - m.lo - Anchored!Insets
      BY <1>1, <1>8, <3>5, RoundedBounds
    <3> QED BY <1>1, <1>10, <3>3, <3>4, <3>5, <3>6
  <2> QED BY <2>1, <2>2
<1> QED BY <1>8, <1>10, <1>11, <1>12, <1>13 DEF to, m, clip
\* The elements of a stack.
Elements(s) == {s[i] : i \in DOMAIN s}
\* A call that will resize the window.
IsResize(e, k) == e.kind = "resize" /\ e.window = k
\* The windows whose positioner may slide them.
Sliding == {k \in Anchored!Owned : "slide" \in positioner[k].flags["x"]}
\* Somewhere on a screen.
OnAScreen(at, size) == \E s \in Screens : s.lo <= at /\ at + size <= s.hi
\* The positioner can make the window fit, or it fits everywhere.
Adjustable(k) ==
  "resize" \in positioner[k].flags["x"] \/ \A s \in Screens : rect[k].size <= s.hi - s.lo

\* What another thread leaves to the thread of the windows.
Arrival == [window : Anchored!Owned, kind : {"at", "size"}, value : Int]

\* Types, of posted too.
PopupTyped == Anchored!TypeOK /\ posted \in Seq(Arrival)

\* Only one call of another thread is on its way, and nothing moves before it arrives.
Arriving ==
  posted # <<>> =>
    /\ posted[1].kind = "at" =>
         /\ \A e \in Elements(nested) : e.kind = "callback"
         /\ posted[1].value = Anchored!Content(rect[posted[1].window - 1]) + relative[posted[1].window]
         /\ Len(posted) <= 2
         /\ Len(posted) = 2 => posted[2].window = posted[1].window /\ posted[2].kind = "size"
    /\ posted[1].kind = "size" =>
         /\ Len(posted) = 1
         /\ \A e \in Elements(nested) :
              /\ e.kind \in {"moved", "owned"} => e.window >= posted[1].window
              /\ e.kind = "resize" => e.window > posted[1].window

\* A window is where it was put, or it is about to be.
Following ==
  \A k \in Anchored!Owned :
    \/ rect[k].at - Anchored!Content(rect[k - 1]) = relative[k]
    \/ \E e \in Elements(nested) : e.kind \in {"moved", "owned"} /\ e.window = k - 1
    \/ posted # <<>> /\ posted[1].kind = "at" /\ posted[1].window = k

\* The sizes a window has, and is about to have.
Sized ==
  \A k \in Anchored!Owned :
    /\ Anchored!Insets <= rect[k].size /\ rect[k].size <= asked[k] + Anchored!Insets
    /\ \A e \in Elements(nested) : IsResize(e, k) => 0 <= e.size /\ e.size <= asked[k]
    /\ \A i \in DOMAIN posted :
         posted[i].kind = "size" /\ posted[i].window = k =>
           0 <= posted[i].value /\ posted[i].value <= asked[k]

\* A window that slides is on a screen with each of the sizes it is about to have.
FitsAt(k, at, size) == OnAScreen(at, size + Anchored!Insets) /\ size + Anchored!Insets <= rect[k].size
\* So for every window and every size.
Fitting ==
  \A k \in Sliding :
    /\ \A e \in Elements(nested) : IsResize(e, k) => FitsAt(k, rect[k].at, e.size)
    /\ posted # <<>> /\ posted[1].window = k /\ posted[1].kind = "size" =>
         FitsAt(k, rect[k].at, posted[1].value)
    /\ posted # <<>> /\ posted[1].window = k /\ posted[1].kind = "at" =>
         /\ Len(posted) = 2 => FitsAt(k, posted[1].value, posted[2].value)
         /\ Len(posted) = 1 /\ Adjustable(k) => OnAScreen(posted[1].value, rect[k].size)

\* The last of them is the smallest.
Falling(s, slides) ==
  \A i, j \in DOMAIN s :
    i < j /\ s[i].kind = "resize" /\ s[j].kind = "resize" /\ s[i].window = s[j].window
      /\ s[i].window \in slides => s[j].size <= s[i].size

\* And with the one it has if no other is due.
Due(k) == (\E e \in Elements(nested) : IsResize(e, k)) \/ (posted # <<>> /\ posted[1].window = k)
\* So for every window.
Visibly ==
  \A k \in Sliding : placed[k] /\ ~Due(k) /\ Adjustable(k) => OnAScreen(rect[k].at, rect[k].size)

\* The inductive invariant.
PopupInv ==
  PopupTyped /\ Arriving /\ Following /\ Sized /\ Fitting /\ Falling(nested, Sliding) /\ Visibly

\* Pushing a call.
LEMMA Pushed ==
  ASSUME NEW S, NEW s \in Seq(S), NEW f \in S
  PROVE /\ <<f>> \o s \in Seq(S) /\ <<f>> \o s # <<>>
        /\ Elements(<<f>> \o s) = {f} \cup Elements(s)
        /\ Len(<<f>> \o s) = Len(s) + 1
        /\ (<<f>> \o s)[1] = f
        /\ \A i \in 2 .. Len(s) + 1 : (<<f>> \o s)[i] = s[i - 1]
<1> DEFINE t == <<f>> \o s
<1>1. t \in Seq(S) /\ Len(t) = Len(s) + 1 /\ t # <<>>
  OBVIOUS
<1>2. t[1] = f /\ \A i \in 2 .. Len(s) + 1 : t[i] = s[i - 1]
  OBVIOUS
<1>3. DOMAIN t = 1 .. Len(s) + 1 /\ DOMAIN s = 1 .. Len(s) /\ Len(s) \in Nat
  BY <1>1
<1>4. \A i \in DOMAIN s : i + 1 \in 2 .. Len(s) + 1 /\ (i + 1) - 1 = i
  BY <1>3
<1> HIDE DEF t
<1>5. Elements(t) \subseteq {f} \cup Elements(s)
  BY <1>2, <1>3 DEF Elements
<1>6. {f} \cup Elements(s) \subseteq Elements(t)
  <2>1. f \in Elements(t)
    BY <1>2, <1>3 DEF Elements
  <2>2. \A i \in DOMAIN s : s[i] \in Elements(t)
    BY <1>2, <1>3, <1>4 DEF Elements
  <2> QED BY <2>1, <2>2 DEF Elements
<1> QED BY <1>1, <1>2, <1>5, <1>6 DEF t

\* Popping a call.
LEMMA Popped ==
  ASSUME NEW S, NEW s \in Seq(S), s # <<>>
  PROVE /\ Head(s) \in S /\ Tail(s) \in Seq(S) /\ Head(s) = s[1]
        /\ Elements(s) = {Head(s)} \cup Elements(Tail(s))
        /\ Len(Tail(s)) = Len(s) - 1 /\ Len(s) \in Nat \ {0}
        /\ \A i \in 1 .. Len(s) - 1 : Tail(s)[i] = s[i + 1]
<1>1. /\ Head(s) \in S /\ Tail(s) \in Seq(S) /\ Head(s) = s[1]
      /\ Len(Tail(s)) = Len(s) - 1 /\ Len(s) \in Nat \ {0}
      /\ \A i \in 1 .. Len(s) - 1 : Tail(s)[i] = s[i + 1]
  OBVIOUS
<1>2. DOMAIN s = 1 .. Len(s) /\ DOMAIN Tail(s) = 1 .. Len(s) - 1
  BY <1>1
<1> DEFINE t == Tail(s)
<1> HIDE DEF t
<1>3. \A i \in 1 .. Len(s) - 1 : i + 1 \in 1 .. Len(s) /\ t[i] = s[i + 1]
  BY <1>1 DEF t
<1>4. \A i \in 1 .. Len(s) : i = 1 \/ (i - 1 \in 1 .. Len(s) - 1 /\ s[i] = t[i - 1])
  <2> TAKE i \in 1 .. Len(s)
  <2>1. CASE i = 1
    BY <2>1
  <2>2. CASE i # 1
    <3>1. i - 1 \in 1 .. Len(s) - 1 /\ (i - 1) + 1 = i
      BY <1>1, <2>2
    <3> QED BY <1>3, <3>1
  <2> QED BY <2>1, <2>2
<1>5. Elements(t) \subseteq Elements(s)
  BY <1>2, <1>3 DEF Elements, t
<1>6. Elements(s) \subseteq {s[1]} \cup Elements(t)
  <2> SUFFICES ASSUME NEW i \in 1 .. Len(s) PROVE s[i] \in {s[1]} \cup Elements(t)
    BY <1>2 DEF Elements
  <2>1. CASE i = 1
    BY <2>1
  <2>2. CASE i - 1 \in 1 .. Len(s) - 1 /\ s[i] = t[i - 1]
    BY <1>2, <2>2 DEF Elements, t
  <2> QED BY <1>4, <2>1, <2>2
<1>7. s[1] \in Elements(s)
  BY <1>1, <1>2 DEF Elements
<1> QED BY <1>1, <1>5, <1>6, <1>7 DEF t

\* Pushing a call that resizes to no less keeps the order.
LEMMA FallingPushed ==
  ASSUME NEW S, NEW s \in Seq(S), NEW f \in S, NEW slides, Falling(s, slides),
         f.kind = "resize" /\ f.window \in slides =>
           \A e \in Elements(s) : IsResize(e, f.window) => e.size <= f.size
  PROVE Falling(<<f>> \o s, slides)
<1> DEFINE t == <<f>> \o s
<1>1. /\ Len(t) = Len(s) + 1 /\ t \in Seq(S) /\ t[1] = f
      /\ \A i \in 2 .. Len(s) + 1 : t[i] = s[i - 1]
  BY Pushed
<1>2. DOMAIN t = 1 .. Len(s) + 1 /\ DOMAIN s = 1 .. Len(s) /\ Len(s) \in Nat
  BY <1>1
<1> HIDE DEF t
<1> SUFFICES ASSUME NEW i \in DOMAIN t, NEW j \in DOMAIN t, i < j,
                    t[i].kind = "resize", t[j].kind = "resize", t[i].window = t[j].window,
                    t[i].window \in slides
             PROVE t[j].size <= t[i].size
  BY DEF Falling, t
<1>3. j \in 2 .. Len(s) + 1 /\ j - 1 \in DOMAIN s /\ t[j] = s[j - 1]
  BY <1>1, <1>2
<1>4. CASE i = 1
  <2>1. s[j - 1] \in Elements(s)
    BY <1>3 DEF Elements
  <2>2. IsResize(t[j], f.window) /\ t[i] = f
    BY <1>1, <1>4 DEF IsResize
  <2> QED BY <1>3, <2>1, <2>2
<1>5. CASE i # 1
  <2>1. i \in 2 .. Len(s) + 1 /\ i - 1 \in DOMAIN s /\ i - 1 < j - 1
    BY <1>2, <1>3, <1>5
  <2>2. t[i] = s[i - 1]
    BY <1>1, <2>1
  <2> QED BY <1>3, <2>1, <2>2 DEF Falling
<1> QED BY <1>4, <1>5

\* Popping one keeps it, and what is left is no larger.
LEMMA FallingPopped ==
  ASSUME NEW S, NEW s \in Seq(S), s # <<>>, NEW slides, Falling(s, slides)
  PROVE /\ Falling(Tail(s), slides)
        /\ Head(s).kind = "resize" /\ Head(s).window \in slides =>
             \A e \in Elements(Tail(s)) : IsResize(e, Head(s).window) => e.size <= Head(s).size
<1> DEFINE t == Tail(s)
<1>1. /\ Head(s) = s[1] /\ Len(s) \in Nat \ {0} /\ t \in Seq(S) /\ Len(t) = Len(s) - 1
      /\ \A i \in 1 .. Len(s) - 1 : t[i] = s[i + 1]
  BY Popped
<1>2. DOMAIN s = 1 .. Len(s) /\ DOMAIN t = 1 .. Len(s) - 1
  BY <1>1
<1> HIDE DEF t
<1>3. \A i \in DOMAIN t : i + 1 \in DOMAIN s /\ t[i] = s[i + 1] /\ i \in Nat /\ 1 < i + 1
  BY <1>1, <1>2
<1>4. Falling(t, slides)
  <2> SUFFICES ASSUME NEW i \in DOMAIN t, NEW j \in DOMAIN t, i < j,
                      t[i].kind = "resize", t[j].kind = "resize", t[i].window = t[j].window,
                      t[i].window \in slides
               PROVE t[j].size <= t[i].size
    BY DEF Falling
  <2>1. i + 1 < j + 1
    BY <1>3
  <2> QED BY <1>3, <2>1 DEF Falling
<1>5. ASSUME s[1].kind = "resize", s[1].window \in slides, NEW i \in DOMAIN t,
             IsResize(t[i], s[1].window)
      PROVE t[i].size <= s[1].size
  <2>1. 1 \in DOMAIN s
    BY <1>1, <1>2
  <2> QED BY <1>3, <1>5, <2>1 DEF Falling, IsResize
<1> QED BY <1>1, <1>4, <1>5 DEF t, Elements
\* Windows and the constants.
LEMMA PopupFacts ==
  ASSUME Roomy
  PROVE /\ Anchored!Insets \in Nat /\ Border \in Nat /\ Count \in Nat \ {0} /\ MaxActs \in Nat
        /\ 1 \in Anchored!Window
        /\ \A k \in Anchored!Owned : /\ k \in Anchored!Window /\ k - 1 \in Anchored!Window /\ k \in Int
                                     /\ k - 1 # k /\ (k - 1) + 1 = k /\ k # 1
        /\ \A k \in Anchored!Window : k \in Int /\ k >= 1 /\ (k # Count => k + 1 \in Anchored!Owned)
        /\ Count + 1 \notin Anchored!Owned
        /\ Sizes \subseteq Nat /\ Places \subseteq Int
        /\ "interrupt" \notin Acts /\ "overtake" \notin Acts
BY DEF Roomy, Anchored!Insets, Anchored!Window, Anchored!Owned

\* An application that changes a window by hand does so while no reposition of it waits.
LEMMA SettledMeans ==
  ASSUME Roomy, PopupTyped, NEW k, Anchored!Settled(k)
  PROVE \A e \in Elements(nested) : ~IsResize(e, k)
<1>1. "interrupt" \notin Acts
  BY PopupFacts
<1> QED BY <1>1 DEF Anchored!Settled, Elements, IsResize

\* What a placement promises of the sizes that are due before it.
LEMMA PlacedFits ==
  ASSUME Roomy, NEW p \in Positioners, NEW r, IsRect(r), Anchored!Insets <= r.size,
         NEW owner, IsRect(owner)
  PROVE LET to == Anchored!PlacementOf(p, r, Anchored!ClipOf(r, owner))
            at == Anchored!Content(owner) + Anchored!Rounded(to.at)
            x == Anchored!Rounded(to.size)
            resized == to.size # 2 * (r.size - Anchored!Insets)
        IN /\ Anchored!Rounded(to.at) \in Int /\ at \in Int /\ x \in Nat /\ x + Anchored!Insets <= r.size
           /\ "slide" \in p.flags["x"] =>
                /\ resized => OnAScreen(at, x + Anchored!Insets)
                /\ ~resized /\ ("resize" \in p.flags["x"] \/ \A s \in Screens : r.size <= s.hi - s.lo)
                     => OnAScreen(at, r.size)
                /\ \A y \in Nat : OnAScreen(r.at, y + Anchored!Insets) /\ y + Anchored!Insets <= r.size =>
                     OnAScreen(at, y + Anchored!Insets) /\ (resized => y <= x)
<1> DEFINE m == Anchored!Monitor(r)
           flags == p.flags["x"]
           to == Anchored!PlacementOf(p, r, Anchored!ClipOf(r, owner))
           at == Anchored!Content(owner) + Anchored!Rounded(to.at)
           x == Anchored!Rounded(to.size)
           resized == to.size # 2 * (r.size - Anchored!Insets)
           fitted == Fitted(r.size, m)
<1>1. /\ m \in Screens /\ m.lo \in Int /\ m.hi \in Int /\ m.lo + Anchored!Insets <= m.hi
      /\ Anchored!Insets \in Nat /\ r.at \in Int /\ r.size \in Nat
      /\ \A s \in Screens : Anchored!Shown(r, m) >= Anchored!Shown(r, s) /\ s.lo \in Int /\ s.hi \in Int
  BY MonitorIsBest, PopupFacts DEF Roomy, IsRect
<1>2. /\ Anchored!Rounded(to.at) \in Int /\ at \in Int /\ x \in Nat /\ x + Anchored!Insets <= r.size
      /\ "resize" \notin flags => to.size = 2 * (r.size - Anchored!Insets)
      /\ "slide" \in flags =>
           /\ m.lo <= at /\ at + fitted <= m.hi
           /\ "resize" \in flags =>
                /\ to.size = 2 * (fitted - Anchored!Insets)
                /\ x + Anchored!Insets = fitted
  BY PlacementBounds
<1>3. fitted \in Int /\ fitted <= r.size /\ fitted <= m.hi - m.lo
      /\ (r.size <= m.hi - m.lo => fitted = r.size)
  BY <1>1 DEF Fitted, Anchored!Lesser
<1> HIDE DEF m, to, at, x, fitted, flags
<1>4. ASSUME "slide" \in flags, resized PROVE OnAScreen(at, x + Anchored!Insets)
  BY <1>1, <1>2, <1>4 DEF OnAScreen
<1>5. ASSUME "slide" \in flags, ~resized,
             "resize" \in flags \/ \A s \in Screens : r.size <= s.hi - s.lo
      PROVE OnAScreen(at, r.size)
  <2>1. fitted = r.size
    <3>1. CASE "resize" \in flags
      BY <1>1, <1>2, <1>3, <1>5, <3>1
    <3>2. CASE \A s \in Screens : r.size <= s.hi - s.lo
      BY <1>1, <1>3, <3>2
    <3> QED BY <1>5, <3>1, <3>2
  <2> QED BY <1>1, <1>2, <1>5, <2>1 DEF OnAScreen
<1>6. ASSUME "slide" \in flags, NEW y \in Nat, OnAScreen(r.at, y + Anchored!Insets), y + Anchored!Insets <= r.size
      PROVE OnAScreen(at, y + Anchored!Insets) /\ (resized => y <= x)
  <2>1. PICK s \in Screens : s.lo <= r.at /\ r.at + (y + Anchored!Insets) <= s.hi
    BY <1>6 DEF OnAScreen
  <2>2. s.lo \in Int /\ s.hi \in Int /\ Anchored!Shown(r, m) >= Anchored!Shown(r, s)
    BY <1>1
  <2>3. Anchored!Shown(r, s) >= y + Anchored!Insets /\ Anchored!Shown(r, s) \in Int
    BY <1>1, <1>6, <2>1, <2>2 DEF Anchored!Shown, Anchored!Greater, Anchored!Lesser
  <2>4. Anchored!Shown(r, m) <= m.hi - m.lo /\ Anchored!Shown(r, m) \in Int
    BY <1>1 DEF Anchored!Shown, Anchored!Greater, Anchored!Lesser
  <2>5. y + Anchored!Insets <= m.hi - m.lo
    BY <1>1, <2>2, <2>3, <2>4
  <2>6. y + Anchored!Insets <= fitted
    BY <1>1, <1>6, <2>5 DEF fitted, Fitted, Anchored!Lesser
  <2>7. m.lo <= at /\ at + (y + Anchored!Insets) <= m.hi
    BY <1>1, <1>2, <1>3, <1>6, <2>6
  <2>8. OnAScreen(at, y + Anchored!Insets)
    BY <1>1, <2>7 DEF OnAScreen
  <2>9. resized => y <= x
    BY <1>1, <1>2, <1>3, <1>6, <2>6
  <2> QED BY <2>8, <2>9
<1> QED BY <1>2, <1>4, <1>5, <1>6 DEF to, at, x, flags
\* What a move does to a rectangle and to the stack.
LEMMA Moved ==
  ASSUME Roomy, PopupTyped, NEW k \in Anchored!Window, NEW at \in Int, NEW rest \in Seq(Anchored!Call), Anchored!MoveTo(k, at, rest)
  PROVE /\ rect' \in [Anchored!Window -> [at : Int, size : Nat]]
        /\ nested' \in Seq(Anchored!Call)
        /\ rect'[k].at = at /\ rect'[k].size = rect[k].size
        /\ \A j \in Anchored!Window : j # k => rect'[j] = rect[j]
        /\ \/ at = rect[k].at /\ nested' = rest /\ rect' = rect
           \/ at # rect[k].at /\ nested' = <<Anchored!Doing("moved", k)>> \o rest
        /\ Elements(rest) \subseteq Elements(nested')
        /\ Elements(nested') \subseteq Elements(rest) \cup {Anchored!Doing("moved", k)}
        /\ \A slides : Falling(rest, slides) => Falling(nested', slides)
<1>1. rect \in [Anchored!Window -> [at : Int, size : Nat]]
  BY DEF PopupTyped, Anchored!TypeOK
<1>2. rect' = [rect EXCEPT ![k].at = at]
  BY DEF Anchored!MoveTo
<1>3. rect[k] \in [at : Int, size : Nat]
  BY <1>1
<1>4. rect'[k] = [at |-> at, size |-> rect[k].size]
  BY <1>1, <1>2, <1>3
<1>5. \A j \in Anchored!Window : j # k => rect'[j] = rect[j]
  BY <1>1, <1>2
<1>6. rect' \in [Anchored!Window -> [at : Int, size : Nat]]
  BY <1>1, <1>2, <1>3
<1>7. Anchored!Doing("moved", k) \in Anchored!Call /\ Anchored!Doing("moved", k).kind = "moved"
  BY DEF Anchored!Call, Anchored!Doing
<1>8. ASSUME at = rect[k].at PROVE rect' = rect
  BY <1>1, <1>2, <1>3, <1>8
<1>9. CASE at = rect[k].at
  <2>1. nested' = rest
    BY <1>9 DEF Anchored!MoveTo
  <2> QED BY <1>4, <1>5, <1>6, <1>8, <1>9, <2>1
<1>10. CASE at # rect[k].at
  <2> DEFINE f == Anchored!Doing("moved", k)
  <2>1. nested' = <<f>> \o rest
    BY <1>10 DEF Anchored!MoveTo
  <2>2. f \in Anchored!Call /\ f.kind # "resize"
    BY <1>7
  <2> HIDE DEF f
  <2>3. nested' \in Seq(Anchored!Call) /\ Elements(nested') = {f} \cup Elements(rest)
    BY <2>1, <2>2, Pushed
  <2>4. \A slides : Falling(rest, slides) => Falling(nested', slides)
    BY <2>1, <2>2, FallingPushed
  <2> QED BY <1>4, <1>5, <1>6, <1>10, <2>1, <2>3, <2>4 DEF f
<1> QED BY <1>9, <1>10

\* A window is put somewhere by its positioner.
LEMMA Repositioned ==
  ASSUME Roomy, PopupInv, NEW k \in Anchored!Owned, NEW p \in Positioners, NEW rest \in Seq(Anchored!Call),
         positioner' = [positioner EXCEPT ![k] = p],
         Elements(rest) \subseteq Elements(nested),
         \A e \in Elements(nested) : e \in Elements(rest) \/ e = Anchored!Doing("owned", k - 1),
         Falling(rest, Sliding),
         p = positioner[k] \/ \A e \in Elements(nested) : ~IsResize(e, k),
         Anchored!RepositionWith(k, Anchored!Placement(k, p), rest),
         posted # <<>> => posted[1].kind = "size" /\ posted[1].window < k,
         UNCHANGED <<posted, asked>>, acts' \in 0 .. MaxActs
  PROVE PopupInv'
<1> DEFINE r == rect[k]
           owner == rect[k - 1]
           to == Anchored!PlacementOf(p, r, Anchored!ClipOf(r, owner))
           off == Anchored!Rounded(to.at)
           at == Anchored!Content(owner) + off
           x == Anchored!Rounded(to.size)
           resized == to.size # 2 * (r.size - Anchored!Insets)
           under == (IF resized THEN <<Anchored!Resizing(k, x)>> ELSE <<>>) \o rest
<1>1. /\ rect \in [Anchored!Window -> [at : Int, size : Nat]]
      /\ positioner \in [Anchored!Owned -> Positioners]
      /\ nested \in Seq(Anchored!Call) /\ asked \in [Anchored!Owned -> Sizes] /\ relative \in [Anchored!Owned -> Int]
      /\ placed \in [Anchored!Owned -> BOOLEAN] /\ posted \in Seq(Arrival)
  BY DEF PopupInv, PopupTyped, Anchored!TypeOK
<1>2. k \in Anchored!Window /\ k - 1 \in Anchored!Window /\ k - 1 # k /\ k \in Int
  BY PopupFacts
<1>3. IsRect(r) /\ IsRect(owner) /\ Anchored!Insets <= r.size /\ r.size <= asked[k] + Anchored!Insets /\ Anchored!Insets \in Nat
  <2>1. r \in [at : Int, size : Nat] /\ owner \in [at : Int, size : Nat]
    BY <1>1, <1>2
  <2>2. IsRect(r) /\ IsRect(owner)
    BY <2>1 DEF IsRect
  <2> QED BY <2>2, PopupFacts DEF PopupInv, Sized
<1> HIDE DEF r, owner
<1>4. /\ off \in Int /\ at \in Int /\ x \in Nat /\ x + Anchored!Insets <= r.size
      /\ "slide" \in p.flags["x"] =>
           /\ resized => OnAScreen(at, x + Anchored!Insets)
           /\ ~resized /\ ("resize" \in p.flags["x"] \/ \A s \in Screens : r.size <= s.hi - s.lo)
                => OnAScreen(at, r.size)
           /\ \A y \in Nat : OnAScreen(r.at, y + Anchored!Insets) /\ y + Anchored!Insets <= r.size =>
                OnAScreen(at, y + Anchored!Insets) /\ (resized => y <= x)
  BY <1>3, PlacedFits
<1>5. /\ Anchored!MoveTo(k, at, under)
      /\ relative' = [relative EXCEPT ![k] = off] /\ placed' = [placed EXCEPT ![k] = TRUE]
  BY DEF Anchored!RepositionWith, Anchored!Placement, r, owner
<1>6. at - Anchored!Content(owner) = off
  <2> DEFINE c == Anchored!Content(owner)
  <2>1. c \in Int
    BY <1>3, PopupFacts DEF Anchored!Content, IsRect
  <2>2. at = c + off
    OBVIOUS
  <2>3. off \in Int
    BY <1>4
  <2> HIDE DEF c, off, at
  <2>4. at - c = off
    BY <2>1, <2>2, <2>3
  <2> QED BY <2>4 DEF c
<1> HIDE DEF to, off, at, x
<1>8. Anchored!Resizing(k, x) \in Anchored!Call /\ Anchored!Resizing(k, x).kind = "resize" /\ Anchored!Resizing(k, x).window = k
      /\ Anchored!Resizing(k, x).size = x
  BY <1>4 DEF Anchored!Call, Anchored!Resizing
<1>9. /\ under \in Seq(Anchored!Call) /\ Elements(rest) \subseteq Elements(under)
      /\ Elements(under) \subseteq Elements(rest) \cup {Anchored!Resizing(k, x)}
      /\ resized => Anchored!Resizing(k, x) \in Elements(under)
      /\ ~resized => under = rest
  <2>1. CASE resized
    <3>1. under = <<Anchored!Resizing(k, x)>> \o rest
      BY <2>1
    <3> HIDE DEF under, resized
    <3>2. under \in Seq(Anchored!Call) /\ Elements(under) = {Anchored!Resizing(k, x)} \cup Elements(rest)
      BY <1>8, <3>1, Pushed
    <3> QED BY <2>1, <3>2
  <2>2. CASE ~resized
    <3>1. under = rest
      BY <2>2
    <3> HIDE DEF under, resized
    <3> QED BY <2>2, <3>1
  <2> QED BY <2>1, <2>2
<1>10. /\ rect' \in [Anchored!Window -> [at : Int, size : Nat]]
       /\ nested' \in Seq(Anchored!Call)
       /\ rect'[k].at = at /\ rect'[k].size = r.size
       /\ \A j \in Anchored!Window : j # k => rect'[j] = rect[j]
       /\ at # r.at => Anchored!Doing("moved", k) \in Elements(nested')
       /\ at = r.at => rect' = rect
       /\ Elements(under) \subseteq Elements(nested')
       /\ Elements(nested') \subseteq Elements(under) \cup {Anchored!Doing("moved", k)}
       /\ \A slides : Falling(under, slides) => Falling(nested', slides)
  <2>0. at \in Int /\ under \in Seq(Anchored!Call) /\ PopupTyped /\ Anchored!Doing("moved", k) \in Anchored!Call
    BY <1>2, <1>4, <1>9 DEF PopupInv, Anchored!Doing, Anchored!Call
  <2> HIDE DEF under, resized
  <2>1. /\ rect' \in [Anchored!Window -> [at : Int, size : Nat]]
        /\ nested' \in Seq(Anchored!Call)
        /\ rect'[k].at = at /\ rect'[k].size = rect[k].size
        /\ \A j \in Anchored!Window : j # k => rect'[j] = rect[j]
        /\ \/ at = rect[k].at /\ nested' = under /\ rect' = rect
           \/ at # rect[k].at /\ nested' = <<Anchored!Doing("moved", k)>> \o under
        /\ Elements(under) \subseteq Elements(nested')
        /\ Elements(nested') \subseteq Elements(under) \cup {Anchored!Doing("moved", k)}
        /\ \A slides : Falling(under, slides) => Falling(nested', slides)
    BY <1>2, <1>5, <2>0, Moved
  <2>2. at # r.at => Anchored!Doing("moved", k) \in Elements(nested')
    <3> DEFINE f == Anchored!Doing("moved", k)
    <3>1. f \in Anchored!Call /\ under \in Seq(Anchored!Call)
      BY <2>0
    <3>2. at # rect[k].at => nested' = <<f>> \o under
      BY <2>1
    <3> HIDE DEF f
    <3>3. Elements(<<f>> \o under) = {f} \cup Elements(under)
      BY <3>1, Pushed
    <3> QED BY <3>2, <3>3 DEF f, r
  <2> QED BY <2>1, <2>2 DEF r
<1>11. Anchored!Doing("moved", k).kind = "moved" /\ Anchored!Doing("moved", k).window = k
       /\ Anchored!Doing("owned", k - 1).kind = "owned" /\ Anchored!Doing("owned", k - 1).window = k - 1
  BY DEF Anchored!Doing
<1>12. positioner'[k] = p /\ \A j \in Anchored!Owned : j # k => positioner'[j] = positioner[j]
  BY <1>1
<1>13. relative'[k] = off /\ \A j \in Anchored!Owned : j # k => relative'[j] = relative[j] /\ placed'[j] = placed[j]
  BY <1>1, <1>5
<1> HIDE DEF resized, under
\* Every call to resize a window was due already, or is the one due now.
<1>14. \A e \in Elements(nested') : e.kind = "resize" =>
         \/ e \in Elements(nested) /\ e \in Elements(rest)
         \/ resized /\ e = Anchored!Resizing(k, x)
  BY <1>9, <1>10, <1>11
<1>15. PopupTyped'
  <2>1. positioner' \in [Anchored!Owned -> Positioners] /\ asked' \in [Anchored!Owned -> Sizes]
    BY <1>1
  <2>2. relative' \in [Anchored!Owned -> Int] /\ placed' \in [Anchored!Owned -> BOOLEAN]
    BY <1>1, <1>4, <1>5
  <2> QED BY <1>1, <1>10, <2>1, <2>2 DEF PopupTyped, Anchored!TypeOK
<1>16. Arriving'
  <2> SUFFICES ASSUME posted # <<>>
               PROVE /\ posted[1].kind = "size" /\ Len(posted) = 1
                     /\ \A e \in Elements(nested') :
                          /\ e.kind \in {"moved", "owned"} => e.window >= posted[1].window
                          /\ e.kind = "resize" => e.window > posted[1].window
    BY DEF Arriving
  <2>1. /\ posted[1].kind = "size" /\ posted[1].window < k /\ Len(posted) = 1
        /\ \A e \in Elements(nested) :
             /\ e.kind \in {"moved", "owned"} => e.window >= posted[1].window
             /\ e.kind = "resize" => e.window > posted[1].window
    BY DEF PopupInv, Arriving
  <2>2. posted[1].window \in Int
    <3>1. posted[1] \in Arrival
      BY <1>1
    <3> QED BY <3>1, PopupFacts DEF Arrival
  <2>3. ASSUME NEW e \in Elements(nested')
        PROVE /\ e.kind \in {"moved", "owned"} => e.window >= posted[1].window
              /\ e.kind = "resize" => e.window > posted[1].window
    <3>1. e \in Elements(nested) \/ e = Anchored!Resizing(k, x) \/ e = Anchored!Doing("moved", k)
      BY <1>9, <1>10
    <3> QED BY <1>2, <1>8, <1>11, <2>1, <2>2, <3>1
  <2> QED BY <2>1, <2>3
<1>17. Following'
  <2> SUFFICES ASSUME NEW j \in Anchored!Owned
               PROVE \/ rect'[j].at - Anchored!Content(rect'[j - 1]) = relative'[j]
                     \/ \E e \in Elements(nested') : e.kind \in {"moved", "owned"} /\ e.window = j - 1
    BY DEF Following
  <2>1. j - 1 \in Anchored!Window /\ j \in Anchored!Window /\ j \in Int
    BY PopupFacts
  <2>2. CASE j = k
    <3>1. rect'[j - 1] = owner
      BY <1>2, <1>10, <2>2 DEF owner
    <3> QED BY <1>6, <1>10, <1>13, <2>2, <3>1
  <2>3. CASE j # k /\ j - 1 = k
    <3>1. CASE at = r.at
      <4>1. rect'[j] = rect[j] /\ rect'[j - 1] = rect[j - 1] /\ relative'[j] = relative[j]
        BY <1>10, <1>13, <2>1, <2>3, <3>1
      <4>2. \/ rect[j].at - Anchored!Content(rect[j - 1]) = relative[j]
            \/ \E e \in Elements(nested) : e.kind \in {"moved", "owned"} /\ e.window = j - 1
        <5>1. ~(posted # <<>> /\ posted[1].kind = "at" /\ posted[1].window = j)
          OBVIOUS
        <5> QED BY <5>1 DEF PopupInv, Following
      <4>3. ASSUME NEW e \in Elements(nested), e.kind \in {"moved", "owned"}, e.window = j - 1
            PROVE e \in Elements(nested')
        BY <1>2, <1>9, <1>10, <1>11, <2>3, <4>3
      <4> QED BY <4>1, <4>2, <4>3 DEF Anchored!Content
    <3>2. CASE at # r.at
      BY <1>10, <1>11, <2>3, <3>2
    <3> QED BY <3>1, <3>2
  <2>4. CASE j # k /\ j - 1 # k
    <3>1. rect'[j] = rect[j] /\ rect'[j - 1] = rect[j - 1] /\ relative'[j] = relative[j]
      BY <1>10, <1>13, <2>1, <2>4
    <3>2. \/ rect[j].at - Anchored!Content(rect[j - 1]) = relative[j]
          \/ \E e \in Elements(nested) : e.kind \in {"moved", "owned"} /\ e.window = j - 1
      <4>1. ~(posted # <<>> /\ posted[1].kind = "at" /\ posted[1].window = j)
        OBVIOUS
      <4> QED BY <4>1 DEF PopupInv, Following
    <3>3. ASSUME NEW e \in Elements(nested), e.kind \in {"moved", "owned"}, e.window = j - 1
          PROVE e \in Elements(nested')
      <4>1. e # Anchored!Doing("owned", k - 1)
        BY <1>2, <1>11, <2>1, <2>4, <3>3
      <4> QED BY <1>9, <1>10, <4>1
    <3> QED BY <3>1, <3>2, <3>3 DEF Anchored!Content
  <2> QED BY <2>2, <2>3, <2>4
<1>18. Sized'
  <2> SUFFICES ASSUME NEW j \in Anchored!Owned
               PROVE /\ Anchored!Insets <= rect'[j].size /\ rect'[j].size <= asked[j] + Anchored!Insets
                     /\ \A e \in Elements(nested') : IsResize(e, j) => 0 <= e.size /\ e.size <= asked[j]
                     /\ \A i \in DOMAIN posted :
                          posted[i].kind = "size" /\ posted[i].window = j =>
                            0 <= posted[i].value /\ posted[i].value <= asked[j]
    BY DEF Sized, Anchored!Insets
  <2>1. /\ Anchored!Insets <= rect[j].size /\ rect[j].size <= asked[j] + Anchored!Insets
        /\ \A e \in Elements(nested) : IsResize(e, j) => 0 <= e.size /\ e.size <= asked[j]
        /\ \A i \in DOMAIN posted :
             posted[i].kind = "size" /\ posted[i].window = j =>
               0 <= posted[i].value /\ posted[i].value <= asked[j]
    BY DEF PopupInv, Sized
  <2>2. rect'[j].size = rect[j].size
    BY <1>10, PopupFacts DEF r
  <2>3. asked[k] \in Nat /\ r.size \in Nat
    BY <1>1, <1>3, PopupFacts DEF IsRect
  <2>4. ASSUME NEW e \in Elements(nested'), IsResize(e, j) PROVE 0 <= e.size /\ e.size <= asked[j]
    <3>1. CASE e \in Elements(nested)
      BY <2>1, <2>4, <3>1
    <3>2. CASE e = Anchored!Resizing(k, x)
      <4>1. j = k
        BY <1>8, <2>4, <3>2 DEF IsResize
      <4> QED BY <1>3, <1>4, <1>8, <2>3, <3>2, <4>1
    <3> QED BY <1>14, <2>4, <3>1, <3>2 DEF IsResize
  <2> QED BY <2>1, <2>2, <2>4
<1>20. \A j \in Anchored!Owned : j # k => (j \in Sliding' <=> j \in Sliding) /\ (Adjustable(j)' <=> Adjustable(j))
  BY <1>10, <1>12, PopupFacts DEF Sliding, Adjustable
<1>21. k \in Sliding' <=> "slide" \in p.flags["x"]
  BY <1>12 DEF Sliding
<1>22. ASSUME "slide" \in p.flags["x"], NEW e \in Elements(nested), IsResize(e, k)
       PROVE e.size \in Nat /\ OnAScreen(at, e.size + Anchored!Insets) /\ e.size + Anchored!Insets <= r.size
             /\ (resized => e.size <= x)
  <2>1. k \in Sliding
    BY <1>22 DEF Sliding
  <2>2. FitsAt(k, r.at, e.size) /\ 0 <= e.size
    BY <1>22, <2>1 DEF PopupInv, Fitting, Sized, r
  <2>3. e \in Anchored!Call /\ e.kind = "resize"
    BY <1>1, <1>22 DEF Elements, IsResize
  <2>4. e.size \in Int
    BY <2>3 DEF Anchored!Call
  <2>5. e.size \in Nat /\ OnAScreen(r.at, e.size + Anchored!Insets) /\ e.size + Anchored!Insets <= r.size
    BY <2>2, <2>4 DEF FitsAt, r
  <2> QED BY <1>4, <1>22, <2>5
<1>23. Fitting'
  <2> SUFFICES ASSUME NEW j \in Sliding'
               PROVE /\ \A e \in Elements(nested') : IsResize(e, j) => FitsAt(j, rect[j].at, e.size)'
                     /\ posted # <<>> /\ posted[1].window = j =>
                          posted[1].kind = "size" /\ FitsAt(j, rect[j].at, posted[1].value)'
    BY DEF Fitting
  <2>1. j \in Anchored!Owned /\ j \in Anchored!Window
    BY PopupFacts DEF Sliding
  <2>2. CASE j = k
    <3>1. ASSUME NEW e \in Elements(nested'), IsResize(e, j) PROVE FitsAt(j, rect[j].at, e.size)'
      <4>1. CASE e \in Elements(nested)
        BY <1>10, <1>21, <1>22, <2>2, <3>1, <4>1 DEF FitsAt, OnAScreen, Anchored!Insets
      <4>2. CASE resized /\ e = Anchored!Resizing(k, x)
        BY <1>4, <1>8, <1>10, <1>21, <2>2, <4>2 DEF FitsAt, OnAScreen, Anchored!Insets
      <4> QED BY <1>14, <3>1, <4>1, <4>2 DEF IsResize
    <3> QED BY <1>2, <2>2, <3>1
  <2>3. CASE j # k
    <3>1. j \in Sliding /\ rect'[j] = rect[j]
      BY <1>10, <1>20, <2>1, <2>3
    <3>2. ASSUME NEW e \in Elements(nested'), IsResize(e, j) PROVE FitsAt(j, rect[j].at, e.size)'
      <4>1. e \in Elements(nested)
        BY <1>8, <1>14, <2>3, <3>2 DEF IsResize
      <4> QED BY <3>1, <3>2, <4>1 DEF PopupInv, Fitting, FitsAt, OnAScreen, Anchored!Insets
    <3>3. ASSUME posted # <<>>, posted[1].window = j
          PROVE posted[1].kind = "size" /\ FitsAt(j, rect[j].at, posted[1].value)'
      BY <3>1, <3>3 DEF PopupInv, Fitting, FitsAt, OnAScreen, Anchored!Insets
    <3> QED BY <3>2, <3>3
  <2> QED BY <2>2, <2>3
<1>24. Falling(nested, Sliding)'
  <2>1. Falling(rest, Sliding')
    <3>1. CASE p = positioner[k]
      <4>1. Sliding' = Sliding
        BY <1>12, <3>1 DEF Sliding
      <4> QED BY <4>1
    <3>2. CASE \A e \in Elements(nested) : ~IsResize(e, k)
      <4> SUFFICES ASSUME NEW i \in DOMAIN rest, NEW j \in DOMAIN rest, i < j,
                          rest[i].kind = "resize", rest[j].kind = "resize",
                          rest[i].window = rest[j].window, rest[i].window \in Sliding'
                   PROVE rest[j].size <= rest[i].size
        BY DEF Falling
      <4>1. rest[i] \in Elements(nested)
        BY DEF Elements
      <4>2. rest[i].window # k
        BY <3>2, <4>1 DEF IsResize
      <4>3. rest[i].window \in Sliding
        BY <1>20, <4>2 DEF Sliding
      <4> QED BY <4>3 DEF Falling
    <3> QED BY <3>1, <3>2
  <2>2. Falling(under, Sliding')
    <3>1. CASE resized
      <4>1. under = <<Anchored!Resizing(k, x)>> \o rest
        BY <3>1 DEF under
      <4>2. ASSUME k \in Sliding', NEW e \in Elements(rest), IsResize(e, k) PROVE e.size <= x
        BY <1>21, <1>22, <3>1, <4>2
      <4> DEFINE f == Anchored!Resizing(k, x)
                 slides == Sliding'
      <4>3. f \in Anchored!Call /\ (f.kind = "resize" /\ f.window \in slides =>
                  \A e \in Elements(rest) : IsResize(e, f.window) => e.size <= f.size)
        BY <1>8, <4>2
      <4>4. Falling(rest, slides)
        BY <2>1
      <4> HIDE DEF f, slides
      <4>5. Falling(<<f>> \o rest, slides)
        BY <4>3, <4>4, FallingPushed
      <4> QED BY <4>1, <4>5 DEF f, slides
    <3>2. CASE ~resized
      BY <1>9, <2>1, <3>2
    <3> QED BY <3>1, <3>2
  <2> QED BY <1>10, <2>2 DEF Falling
<1>25. Visibly'
  <2> SUFFICES ASSUME NEW j \in Sliding', placed'[j], ~Due(j)', Adjustable(j)'
               PROVE OnAScreen(rect[j].at, rect[j].size)'
    BY DEF Visibly
  <2>1. j \in Anchored!Owned /\ j \in Anchored!Window
    BY PopupFacts DEF Sliding
  <2>2. \A e \in Elements(nested') : ~IsResize(e, j)
    BY DEF Due
  <2>3. CASE j = k
    <3>1. ~resized
      BY <1>8, <1>9, <1>10, <2>2, <2>3 DEF IsResize
    <3>2. "resize" \in p.flags["x"] \/ \A s \in Screens : r.size <= s.hi - s.lo
      BY <1>10, <1>12, <2>3 DEF Adjustable
    <3> QED BY <1>4, <1>10, <1>21, <2>3, <3>1, <3>2 DEF OnAScreen
  <2>4. CASE j # k
    <3>1. j \in Sliding /\ rect'[j] = rect[j] /\ placed[j] /\ Adjustable(j)
      BY <1>10, <1>13, <1>20, <2>1, <2>4
    <3>2. ASSUME NEW e \in Elements(nested), IsResize(e, j) PROVE FALSE
      <4>1. e # Anchored!Doing("owned", k - 1)
        BY <1>11, <3>2 DEF IsResize
      <4> QED BY <1>9, <1>10, <2>2, <3>2, <4>1
    <3>3. ~Due(j)
      BY <3>2 DEF Due
    <3> QED BY <3>1, <3>3 DEF PopupInv, Visibly, OnAScreen
  <2> QED BY <2>3, <2>4
<1> QED BY <1>15, <1>16, <1>17, <1>18, <1>23, <1>24, <1>25 DEF PopupInv
\* The calls that will move the windows owned.
Going == {"moved", "owned"}

\* A stack of calls that holds the resizes of another one, and the moves of
\* the windows that own one.
Carries(t, s) ==
  /\ \A e \in Elements(t) : e.kind = "resize" => e \in Elements(s)
  /\ \A e \in Elements(s) : e.kind = "resize" => e \in Elements(t)
  /\ \A e \in Elements(s) : e.kind \in Going /\ e.window # Count =>
       \E f \in Elements(t) : f.kind \in Going /\ f.window = e.window
  /\ \A e \in Elements(t) : e.kind \in Going =>
       \E f \in Elements(s) : f.kind \in Going /\ f.window = e.window

\* Steps that change the stack alone, and let no window be forgotten.
LEMMA StackOnly ==
  ASSUME Roomy, PopupInv,
         UNCHANGED <<rect, positioner, posted, asked, relative, placed, acts>>,
         nested' \in Seq(Anchored!Call), Falling(nested', Sliding), Carries(nested', nested)
  PROVE PopupInv'
<1>1. \A e \in Elements(nested') : e \in Anchored!Call /\ e.kind \in {"moved", "owned", "callback", "resize"}
  <2>1. \A e \in Elements(nested') : e \in Anchored!Call
    BY DEF Elements
  <2>2. \A e \in Anchored!Call : e.kind \in {"moved", "owned", "callback", "resize"}
    BY DEF Anchored!Call
  <2> QED BY <2>1, <2>2
<1>2. PopupTyped'
  BY DEF PopupInv, PopupTyped, Anchored!TypeOK
<1>3. Arriving'
  <2> SUFFICES ASSUME posted # <<>>
               PROVE /\ posted[1].kind = "at" =>
                          /\ \A e \in Elements(nested') : e.kind = "callback"
                          /\ posted[1].value = Anchored!Content(rect[posted[1].window - 1]) + relative[posted[1].window]
                          /\ Len(posted) <= 2
                          /\ Len(posted) = 2 => posted[2].window = posted[1].window /\ posted[2].kind = "size"
                     /\ posted[1].kind = "size" =>
                          /\ Len(posted) = 1
                          /\ \A e \in Elements(nested') :
                               /\ e.kind \in Going => e.window >= posted[1].window
                               /\ e.kind = "resize" => e.window > posted[1].window
    BY DEF Arriving, Going, Anchored!Content
  <2>1. ASSUME posted[1].kind = "at", NEW e \in Elements(nested') PROVE e.kind = "callback"
    <3>1. \A f \in Elements(nested) : f.kind = "callback"
      BY <2>1 DEF PopupInv, Arriving
    <3>2. e.kind \notin Going
      BY <3>1 DEF Going, Carries
    <3>3. e.kind # "resize"
      BY <3>1 DEF Carries
    <3> QED BY <1>1, <3>2, <3>3 DEF Going
  <2>2. ASSUME posted[1].kind = "size", NEW e \in Elements(nested')
        PROVE /\ e.kind \in Going => e.window >= posted[1].window
              /\ e.kind = "resize" => e.window > posted[1].window
    <3> DEFINE reached(w) == w >= posted[1].window
               passed(w) == w > posted[1].window
    <3>1. \A f \in Elements(nested) :
            /\ f.kind \in Going => reached(f.window)
            /\ f.kind = "resize" => passed(f.window)
      BY <2>2 DEF PopupInv, Arriving, Going
    <3> HIDE DEF reached, passed
    <3>2. ASSUME e.kind \in Going PROVE reached(e.window)
      <4>1. PICK f \in Elements(nested) : f.kind \in Going /\ f.window = e.window
        BY <3>2 DEF Carries
      <4> QED BY <3>1, <4>1
    <3>3. ASSUME e.kind = "resize" PROVE passed(e.window)
      <4>1. e \in Elements(nested)
        BY <3>3 DEF Carries
      <4> QED BY <3>1, <3>3, <4>1
    <3> QED BY <3>2, <3>3 DEF reached, passed
  <2> QED BY <2>1, <2>2 DEF PopupInv, Arriving
<1>4. Following'
  <2> SUFFICES ASSUME NEW k \in Anchored!Owned
               PROVE \/ rect[k].at - Anchored!Content(rect[k - 1]) = relative[k]
                     \/ \E e \in Elements(nested') : e.kind \in Going /\ e.window = k - 1
                     \/ posted # <<>> /\ posted[1].kind = "at" /\ posted[1].window = k
    BY DEF Following, Going, Anchored!Content
  <2>1. k - 1 # Count
    BY PopupFacts
  <2>2. \/ rect[k].at - Anchored!Content(rect[k - 1]) = relative[k]
        \/ \E e \in Elements(nested) : e.kind \in Going /\ e.window = k - 1
        \/ posted # <<>> /\ posted[1].kind = "at" /\ posted[1].window = k
    BY DEF PopupInv, Following, Going
  <2> QED BY <2>1, <2>2 DEF Carries
<1>5. Sized'
  <2> SUFFICES ASSUME NEW k \in Anchored!Owned, NEW e \in Elements(nested'), IsResize(e, k)
               PROVE 0 <= e.size /\ e.size <= asked[k]
    BY DEF PopupInv, Sized, Anchored!Insets
  <2>1. e \in Elements(nested)
    BY DEF IsResize, Carries
  <2> QED BY <2>1 DEF PopupInv, Sized
<1>6. Sliding' = Sliding /\ \A k : Adjustable(k)' <=> Adjustable(k)
  BY DEF Sliding, Adjustable
<1>7. Fitting'
  <2>1. ASSUME NEW k \in Sliding, NEW e \in Elements(nested'), IsResize(e, k) PROVE FitsAt(k, rect[k].at, e.size)
    <3>1. e \in Elements(nested)
      BY <2>1 DEF IsResize, Carries
    <3> QED BY <2>1, <3>1 DEF PopupInv, Fitting
  <2> QED BY <1>6, <2>1 DEF PopupInv, Fitting, FitsAt, OnAScreen, Anchored!Insets
<1>8. \A k : Due(k)' <=> Due(k)
  BY DEF Due, IsResize, Carries
<1>9. Visibly'
  BY <1>6, <1>8 DEF PopupInv, Visibly, OnAScreen
<1>10. Falling(nested, Sliding)'
  BY <1>6 DEF Falling
<1> QED BY <1>2, <1>3, <1>4, <1>5, <1>7, <1>9, <1>10 DEF PopupInv

\* The call in progress and those below it.
LEMMA TopFacts ==
  ASSUME PopupInv, nested # <<>>
  PROVE /\ Anchored!Top \in Anchored!Call /\ Anchored!Below \in Seq(Anchored!Call) /\ Elements(nested) = {Anchored!Top} \cup Elements(Anchored!Below)
        /\ Falling(Anchored!Below, Sliding)
        /\ Anchored!Top.kind = "resize" /\ Anchored!Top.window \in Sliding =>
             \A e \in Elements(Anchored!Below) : IsResize(e, Anchored!Top.window) => e.size <= Anchored!Top.size
        /\ Anchored!Top.kind \in Going => Anchored!Top.window \in Anchored!Window
        /\ Anchored!Top.kind = "resize" => Anchored!Top.window \in Anchored!Owned /\ Anchored!Top.size \in Int
<1>1. nested \in Seq(Anchored!Call)
  BY DEF PopupInv, PopupTyped, Anchored!TypeOK
<1>2. /\ Anchored!Top \in Anchored!Call /\ Anchored!Below \in Seq(Anchored!Call) /\ Elements(nested) = {Anchored!Top} \cup Elements(Anchored!Below)
  BY <1>1, Popped DEF Anchored!Top, Anchored!Below
<1>3. /\ Falling(Anchored!Below, Sliding)
      /\ Anchored!Top.kind = "resize" /\ Anchored!Top.window \in Sliding =>
           \A e \in Elements(Anchored!Below) : IsResize(e, Anchored!Top.window) => e.size <= Anchored!Top.size
  <2> DEFINE slides == Sliding
  <2>1. Falling(nested, slides)
    BY DEF PopupInv
  <2> HIDE DEF slides
  <2>2. /\ Falling(Tail(nested), slides)
        /\ Head(nested).kind = "resize" /\ Head(nested).window \in slides =>
             \A e \in Elements(Tail(nested)) : IsResize(e, Head(nested).window) => e.size <= Head(nested).size
    BY <1>1, <2>1, FallingPopped
  <2> QED BY <2>2 DEF Anchored!Top, Anchored!Below, slides
<1>4. /\ Anchored!Top.kind \in Going => Anchored!Top.window \in Anchored!Window
      /\ Anchored!Top.kind = "resize" => Anchored!Top.window \in Anchored!Owned /\ Anchored!Top.size \in Int
  BY <1>2 DEF Anchored!Call, Going
<1> QED BY <1>2, <1>3, <1>4

\* A callback ends.
LEMMA CallbackEndsKeeps ==
  ASSUME Roomy, PopupInv, Anchored!CallbackEnds
  PROVE PopupInv'
<1>1. /\ nested # <<>> /\ Anchored!Top.kind = "callback" /\ nested' = Anchored!Below
      /\ UNCHANGED <<rect, positioner, posted, asked, relative, placed, acts>>
  BY DEF Anchored!CallbackEnds
<1>2. Anchored!Below \in Seq(Anchored!Call) /\ Elements(nested) = {Anchored!Top} \cup Elements(Anchored!Below) /\ Falling(Anchored!Below, Sliding)
  BY <1>1, TopFacts
<1>3. Elements(nested') = Elements(Anchored!Below)
  BY <1>1
<1>4. /\ \A e \in Elements(nested') : e.kind = "resize" => e \in Elements(nested)
      /\ \A e \in Elements(nested) : e.kind = "resize" => e \in Elements(nested')
  BY <1>1, <1>2, <1>3
<1>5. /\ \A e \in Elements(nested) : e.kind \in Going => e \in Elements(nested')
      /\ \A e \in Elements(nested') : e \in Elements(nested)
  BY <1>1, <1>2, <1>3 DEF Going
<1> QED BY <1>1, <1>2, <1>4, <1>5, StackOnly DEF Carries

\* A callback begins.
LEMMA CallbackBeginsKeeps ==
  ASSUME Roomy, PopupInv, Anchored!CallbackBegins
  PROVE PopupInv'
<1> DEFINE f == Anchored!Doing("callback", 1)
<1>1. /\ nested = <<>> /\ nested' = <<f>>
      /\ UNCHANGED <<rect, positioner, posted, asked, relative, placed, acts>>
  BY DEF Anchored!CallbackBegins
<1>2. f \in Anchored!Call /\ f.kind = "callback"
  BY PopupFacts DEF Anchored!Doing, Anchored!Call
<1> HIDE DEF f
<1>3. nested' \in Seq(Anchored!Call) /\ DOMAIN nested' = {1} /\ nested'[1] = f
  BY <1>1, <1>2
<1>4. Elements(nested') = {f} /\ Elements(nested) = {}
  BY <1>1, <1>3 DEF Elements
<1>5. Falling(nested', Sliding)
  BY <1>2, <1>3 DEF Falling
<1> QED BY <1>1, <1>2, <1>3, <1>4, <1>5, StackOnly DEF Going, Carries

\* WM_WINDOWPOSCHANGED: the windows owned are still to be moved.
LEMMA WindowPosChangedKeeps ==
  ASSUME Roomy, PopupInv, Anchored!WindowPosChanged
  PROVE PopupInv'
<1> DEFINE j == Anchored!Top.window
           f == Anchored!Doing("owned", j)
           g == Anchored!Doing("callback", j)
           s == <<f>> \o Anchored!Below
<1>1. /\ nested # <<>> /\ Anchored!Top.kind = "moved"
      /\ UNCHANGED <<rect, positioner, posted, asked, relative, placed, acts>>
      /\ nested' = s \/ nested' = <<g>> \o s
  BY DEF Anchored!WindowPosChanged
<1>2. Anchored!Below \in Seq(Anchored!Call) /\ Elements(nested) = {Anchored!Top} \cup Elements(Anchored!Below) /\ Falling(Anchored!Below, Sliding)
      /\ j \in Anchored!Window
  BY <1>1, TopFacts DEF Going
<1>3. f \in Anchored!Call /\ f.kind = "owned" /\ f.window = j /\ g \in Anchored!Call /\ g.kind = "callback"
  BY <1>2 DEF Anchored!Doing, Anchored!Call
<1> HIDE DEF f, g
<1>4. s \in Seq(Anchored!Call) /\ Elements(s) = {f} \cup Elements(Anchored!Below)
  BY <1>2, <1>3, Pushed
<1>5. Falling(s, Sliding)
  <2> DEFINE slides == Sliding
  <2>1. Falling(Anchored!Below, slides)
    BY <1>2
  <2> HIDE DEF slides
  <2>2. Falling(s, slides)
    BY <1>2, <1>3, <2>1, FallingPushed
  <2> QED BY <2>2 DEF slides
<1> HIDE DEF s
<1>6. <<g>> \o s \in Seq(Anchored!Call) /\ Elements(<<g>> \o s) = {g} \cup Elements(s)
  BY <1>3, <1>4, Pushed
<1>7. Falling(<<g>> \o s, Sliding)
  <2> DEFINE slides == Sliding
  <2>1. Falling(s, slides)
    BY <1>5
  <2> HIDE DEF slides
  <2>2. Falling(<<g>> \o s, slides)
    BY <1>3, <1>4, <2>1, FallingPushed
  <2> QED BY <2>2 DEF slides
<1>8. /\ nested' \in Seq(Anchored!Call) /\ Falling(nested', Sliding)
      /\ Elements(s) \subseteq Elements(nested') /\ Elements(nested') \subseteq Elements(s) \cup {g}
  BY <1>1, <1>4, <1>5, <1>6, <1>7
<1>9. \A e \in Elements(nested') : e.kind = "resize" => e \in Elements(nested)
  BY <1>2, <1>3, <1>4, <1>8
<1>10. \A e \in Elements(nested) : e.kind = "resize" => e \in Elements(nested')
  BY <1>1, <1>2, <1>4, <1>8
<1>11. \A e \in Elements(nested) : e.kind \in Going =>
         \E h \in Elements(nested') : h.kind \in Going /\ h.window = e.window
  <2> SUFFICES ASSUME NEW e \in Elements(nested), e.kind \in Going
               PROVE \E h \in Elements(nested') : h.kind \in Going /\ h.window = e.window
    OBVIOUS
  <2>1. CASE e = Anchored!Top
    <3>1. f \in Elements(nested')
      BY <1>4, <1>8
    <3> QED BY <1>3, <2>1, <3>1 DEF Going
  <2>2. CASE e \in Elements(Anchored!Below)
    BY <1>4, <1>8, <2>2
  <2> QED BY <1>2, <2>1, <2>2
<1>12. \A e \in Elements(nested') : e.kind \in Going =>
         \E h \in Elements(nested) : h.kind \in Going /\ h.window = e.window
  <2> SUFFICES ASSUME NEW e \in Elements(nested'), e.kind \in Going
               PROVE \E h \in Elements(nested) : h.kind \in Going /\ h.window = e.window
    OBVIOUS
  <2>1. CASE e = f
    BY <1>1, <1>2, <1>3, <2>1 DEF Going
  <2>2. CASE e \in Elements(Anchored!Below)
    BY <1>2, <2>2
  <2>3. e # g
    BY <1>3 DEF Going
  <2> QED BY <1>4, <1>8, <2>1, <2>2, <2>3
<1> QED BY <1>1, <1>8, <1>9, <1>10, <1>11, <1>12, StackOnly DEF Carries

\* The window owned is moved along.
LEMMA RepositionOwnedKeeps ==
  ASSUME Roomy, PopupInv, Anchored!RepositionOwned
  PROVE PopupInv'
<1>1. nested # <<>> /\ Anchored!Top.kind = "owned" /\ UNCHANGED <<positioner, posted, asked, acts>>
  BY DEF Anchored!RepositionOwned
<1>2. /\ Anchored!Top \in Anchored!Call /\ Anchored!Below \in Seq(Anchored!Call) /\ Elements(nested) = {Anchored!Top} \cup Elements(Anchored!Below)
      /\ Falling(Anchored!Below, Sliding) /\ Anchored!Top.window \in Anchored!Window
  BY <1>1, TopFacts DEF Going
<1>3. CASE Anchored!Top.window = Count
  <2>1. nested' = Anchored!Below /\ UNCHANGED <<rect, relative, placed>>
    BY <1>3 DEF Anchored!RepositionOwned
  <2>2. /\ \A e \in Elements(nested') : e \in Elements(nested)
        /\ \A e \in Elements(nested) : e # Anchored!Top => e \in Elements(nested')
    BY <1>2, <2>1
  <2>3. nested' \in Seq(Anchored!Call) /\ Falling(nested', Sliding)
    BY <1>2, <2>1
  <2>4. \A e \in Elements(nested) : e.kind = "resize" => e \in Elements(nested')
    BY <1>1, <2>2
  <2>5. \A e \in Elements(nested) : e.kind \in Going /\ e.window # Count => e \in Elements(nested')
    BY <1>3, <2>2
  <2> QED BY <1>1, <2>1, <2>2, <2>3, <2>4, <2>5, StackOnly DEF Carries
<1>4. CASE Anchored!Top.window # Count
  <2> DEFINE k == Anchored!Top.window + 1
             p == positioner[k]
  <2>1. Anchored!RepositionWith(k, Anchored!Placement(k, p), Anchored!Below)
    BY <1>4 DEF Anchored!RepositionOwned
  <2>2. k \in Anchored!Owned /\ k - 1 = Anchored!Top.window /\ Anchored!Top.window \in Int
    BY <1>2, <1>4, PopupFacts
  <2>3. Anchored!Top = Anchored!Doing("owned", k - 1)
    <3>1. Anchored!Top \in [kind : {"moved", "owned", "callback"}, window : Anchored!Window]
      BY <1>1, <1>2 DEF Anchored!Call
    <3> QED BY <1>1, <2>2, <3>1 DEF Anchored!Doing
  <2> HIDE DEF k
  <2>4. positioner \in [Anchored!Owned -> Positioners] /\ acts \in 0 .. MaxActs /\ posted \in Seq(Arrival)
    BY DEF PopupInv, PopupTyped, Anchored!TypeOK
  <2>5. p \in Positioners /\ positioner' = [positioner EXCEPT ![k] = p]
    BY <1>1, <2>2, <2>4
  <2>6. posted # <<>> => posted[1].kind = "size" /\ posted[1].window < k
    <3> SUFFICES ASSUME posted # <<>> PROVE posted[1].kind = "size" /\ posted[1].window < k
      OBVIOUS
    <3>1. posted[1] \in Arrival
      BY <2>4
    <3>2. posted[1].kind \in {"at", "size"} /\ posted[1].window \in Anchored!Owned
      BY <3>1 DEF Arrival
    <3>3. posted[1].window \in Int /\ k \in Int
      BY <2>2, <3>2, PopupFacts
    <3>4. Anchored!Top \in Elements(nested) /\ Anchored!Top.kind # "callback" /\ Anchored!Top.kind \in {"moved", "owned"}
      BY <1>1, <1>2
    <3>5. posted[1].kind = "size"
      BY <3>2, <3>4 DEF PopupInv, Arriving
    <3>6. Anchored!Top.window >= posted[1].window
      BY <3>4, <3>5 DEF PopupInv, Arriving
    <3> QED BY <2>2, <3>3, <3>5, <3>6
  <2>7. /\ Elements(Anchored!Below) \subseteq Elements(nested)
        /\ \A e \in Elements(nested) : e \in Elements(Anchored!Below) \/ e = Anchored!Doing("owned", k - 1)
    BY <1>2, <2>3
  <2> HIDE DEF p
  <2>8. p = positioner[k]
    BY DEF p
  <2>9. UNCHANGED <<posted, asked>> /\ acts' \in 0 .. MaxActs
    BY <1>1, <2>4
  <2> QED BY <1>2, <2>1, <2>2, <2>5, <2>6, <2>7, <2>8, <2>9, Repositioned
<1> QED BY <1>3, <1>4
\* What the variables are.
LEMMA TypesOf ==
  ASSUME PopupInv
  PROVE /\ rect \in [Anchored!Window -> [at : Int, size : Nat]]
        /\ positioner \in [Anchored!Owned -> Positioners]
        /\ nested \in Seq(Anchored!Call) /\ asked \in [Anchored!Owned -> Sizes] /\ relative \in [Anchored!Owned -> Int]
        /\ placed \in [Anchored!Owned -> BOOLEAN] /\ posted \in Seq(Arrival) /\ acts \in 0 .. MaxActs
BY DEF PopupInv, PopupTyped, Anchored!TypeOK

\* An act of the application or the user, when no call of another thread is on its way.
LEMMA DoesMeans ==
  ASSUME Roomy, PopupInv, NEW act, Anchored!Does(act)
  PROVE posted = <<>> /\ acts' \in 0 .. MaxActs
<1>1. "overtake" \notin Acts /\ MaxActs \in Nat
  BY PopupFacts
<1>2. acts \in 0 .. MaxActs /\ acts < MaxActs /\ acts' = acts + 1 /\ Anchored!Calm
  BY TypesOf DEF Anchored!Does
<1>3. posted = <<>>
  BY <1>1, <1>2 DEF Anchored!Calm
<1>4. acts' \in 0 .. MaxActs
  BY <1>1, <1>2
<1> QED BY <1>3, <1>4

\* WM_SIZE adds at most a callback to the calls in progress.
LEMMA ToldAdds ==
  ASSUME Roomy, NEW k \in Anchored!Owned, NEW x, NEW s \in Seq(Anchored!Call), NEW slides, Falling(s, slides)
  PROVE /\ Anchored!Told(k, x, s) \in Seq(Anchored!Call) /\ Falling(Anchored!Told(k, x, s), slides)
        /\ Elements(s) \subseteq Elements(Anchored!Told(k, x, s))
        /\ \A e \in Elements(Anchored!Told(k, x, s)) : e \in Elements(s) \/ e.kind = "callback"
<1> DEFINE f == Anchored!Doing("callback", k)
<1>1. f \in Anchored!Call /\ f.kind = "callback"
  BY PopupFacts DEF Anchored!Doing, Anchored!Call
<1>2. Anchored!Told(k, x, s) = s \/ Anchored!Told(k, x, s) = <<f>> \o s
  BY DEF Anchored!Told
<1> HIDE DEF f
<1>3. <<f>> \o s \in Seq(Anchored!Call) /\ Elements(<<f>> \o s) = {f} \cup Elements(s)
  BY <1>1, Pushed
<1>4. Falling(<<f>> \o s, slides)
  BY <1>1, FallingPushed
<1> QED BY <1>1, <1>2, <1>3, <1>4

\* The second half of a reposition: the sizes due below it are smaller.
LEMMA SizeChangedKeeps ==
  ASSUME Roomy, PopupInv, Anchored!SizeChanged
  PROVE PopupInv'
<1> DEFINE k == Anchored!Top.window
           x == Anchored!Top.size
<1>1. /\ nested # <<>> /\ Anchored!Top.kind = "resize" /\ Anchored!Resized(k, x) /\ nested' = Anchored!Told(k, x, Anchored!Below)
      /\ UNCHANGED <<positioner, posted, asked, relative, placed, acts>>
  BY DEF Anchored!SizeChanged
<1>2. /\ Anchored!Top \in Anchored!Call /\ Anchored!Below \in Seq(Anchored!Call) /\ Elements(nested) = {Anchored!Top} \cup Elements(Anchored!Below)
      /\ Falling(Anchored!Below, Sliding) /\ k \in Anchored!Owned /\ x \in Int
      /\ k \in Sliding => \A e \in Elements(Anchored!Below) : IsResize(e, k) => e.size <= x
  BY <1>1, TopFacts
<1>3. Anchored!Top \in Elements(nested) /\ IsResize(Anchored!Top, k)
  BY <1>1, <1>2 DEF IsResize
<1> HIDE DEF k
<1>4. 0 <= x /\ x <= asked[k]
  BY <1>2, <1>3 DEF PopupInv, Sized
<1>5. k \in Anchored!Window /\ Anchored!Insets \in Nat /\ x + Anchored!Insets \in Nat /\ x + Anchored!Insets \in Int
  BY <1>2, <1>4, PopupFacts
<1>6. /\ rect' \in [Anchored!Window -> [at : Int, size : Nat]]
      /\ rect'[k].at = rect[k].at /\ rect'[k].size = x + Anchored!Insets
      /\ \A j \in Anchored!Window : j # k => rect'[j] = rect[j]
      /\ \A j \in Anchored!Window : rect'[j].at = rect[j].at
  <2>1. rect \in [Anchored!Window -> [at : Int, size : Nat]] /\ rect' = [rect EXCEPT ![k].size = x + Anchored!Insets]
    BY <1>1, TypesOf DEF Anchored!Resized
  <2>2. rect[k] \in [at : Int, size : Nat]
    BY <1>5, <2>1
  <2> HIDE DEF x
  <2>3. rect'[k] = [at |-> rect[k].at, size |-> x + Anchored!Insets]
    BY <1>5, <2>1, <2>2
  <2>4. \A j \in Anchored!Window : j # k => rect'[j] = rect[j]
    BY <2>1
  <2>5. rect' \in [Anchored!Window -> [at : Int, size : Nat]]
    BY <1>5, <2>1, <2>2
  <2> QED BY <2>3, <2>4, <2>5
<1> HIDE DEF x
<1>7. /\ nested' \in Seq(Anchored!Call) /\ Falling(nested', Sliding)
      /\ Elements(Anchored!Below) \subseteq Elements(nested')
      /\ \A e \in Elements(nested') :
           e.kind # "callback" => e \in Elements(Anchored!Below) /\ e \in Elements(nested)
  <2> DEFINE slides == Sliding
             s == Anchored!Below
  <2>1. s \in Seq(Anchored!Call) /\ Falling(s, slides) /\ nested' = Anchored!Told(k, x, s)
    BY <1>1, <1>2 DEF k
  <2> HIDE DEF slides, s
  <2>2. /\ nested' \in Seq(Anchored!Call) /\ Falling(nested', slides)
        /\ Elements(s) \subseteq Elements(nested')
        /\ \A e \in Elements(nested') : e \in Elements(s) \/ e.kind = "callback"
    BY <1>2, <2>1, ToldAdds
  <2> QED BY <1>2, <2>2 DEF slides, s
<1>8. ASSUME posted # <<>>
      PROVE posted[1].window < k /\ posted[1].kind = "size" /\ posted[1].window \in Anchored!Owned
  <2>1. posted[1] \in Arrival
    BY <1>8, TypesOf
  <2>2. posted[1].kind \in {"at", "size"} /\ posted[1].window \in Anchored!Owned
    BY <2>1 DEF Arrival
  <2>3. posted[1].kind = "size"
    BY <1>1, <1>3, <1>8, <2>2 DEF PopupInv, Arriving
  <2>4. k > posted[1].window
    BY <1>1, <1>3, <1>8, <2>3 DEF PopupInv, Arriving, k
  <2> QED BY <1>2, <2>2, <2>3, <2>4, PopupFacts
<1>9. PopupTyped'
  BY <1>1, <1>6, <1>7, TypesOf DEF PopupTyped, Anchored!TypeOK
<1>10. Arriving'
  <2> SUFFICES ASSUME posted # <<>>
               PROVE /\ posted[1].kind = "size" /\ Len(posted) = 1
                     /\ \A e \in Elements(nested') :
                          /\ e.kind \in {"moved", "owned"} => e.window >= posted[1].window
                          /\ e.kind = "resize" => e.window > posted[1].window
    BY <1>1 DEF Arriving
  <2> QED BY <1>7, <1>8 DEF PopupInv, Arriving
<1>11. Following'
  <2> SUFFICES ASSUME NEW j \in Anchored!Owned
               PROVE \/ rect'[j].at - Anchored!Content(rect'[j - 1]) = relative[j]
                     \/ \E e \in Elements(nested') : e.kind \in {"moved", "owned"} /\ e.window = j - 1
                     \/ posted # <<>> /\ posted[1].kind = "at" /\ posted[1].window = j
    BY <1>1 DEF Following
  <2>1. rect'[j].at = rect[j].at /\ rect'[j - 1].at = rect[j - 1].at
    BY <1>6, PopupFacts
  <2>2. \/ rect[j].at - Anchored!Content(rect[j - 1]) = relative[j]
        \/ \E e \in Elements(nested) : e.kind \in {"moved", "owned"} /\ e.window = j - 1
        \/ posted # <<>> /\ posted[1].kind = "at" /\ posted[1].window = j
    BY DEF PopupInv, Following
  <2>3. \A e \in Elements(nested) : e.kind \in {"moved", "owned"} => e \in Elements(nested')
    BY <1>1, <1>2, <1>7
  <2> QED BY <2>1, <2>2, <2>3 DEF Anchored!Content
<1>12. Sized'
  <2> SUFFICES ASSUME NEW j \in Anchored!Owned
               PROVE /\ Anchored!Insets <= rect'[j].size /\ rect'[j].size <= asked[j] + Anchored!Insets
                     /\ \A e \in Elements(nested') : IsResize(e, j) => 0 <= e.size /\ e.size <= asked[j]
                     /\ \A i \in DOMAIN posted :
                          posted[i].kind = "size" /\ posted[i].window = j =>
                            0 <= posted[i].value /\ posted[i].value <= asked[j]
    BY <1>1 DEF Sized, Anchored!Insets
  <2>1. /\ Anchored!Insets <= rect[j].size /\ rect[j].size <= asked[j] + Anchored!Insets
        /\ \A e \in Elements(nested) : IsResize(e, j) => 0 <= e.size /\ e.size <= asked[j]
        /\ \A i \in DOMAIN posted :
             posted[i].kind = "size" /\ posted[i].window = j =>
               0 <= posted[i].value /\ posted[i].value <= asked[j]
    BY DEF PopupInv, Sized
  <2>2. CASE j = k
    <3>1. asked[k] \in Nat
      BY <1>2, TypesOf, PopupFacts
    <3>2. Anchored!Insets <= rect'[j].size /\ rect'[j].size <= asked[j] + Anchored!Insets
      BY <1>2, <1>4, <1>5, <1>6, <2>2, <3>1
    <3> QED BY <1>7, <2>1, <3>2 DEF IsResize
  <2>3. CASE j # k
    <3>1. rect'[j] = rect[j]
      BY <1>6, <2>3, PopupFacts
    <3> QED BY <1>7, <2>1, <3>1 DEF IsResize
  <2> QED BY <2>2, <2>3
<1>13. Sliding' = Sliding /\ \A j \in Anchored!Owned : j # k => (Adjustable(j)' <=> Adjustable(j))
  BY <1>1, <1>6, PopupFacts DEF Sliding, Adjustable
<1>14. \A j \in Sliding : j \in Anchored!Owned /\ j \in Anchored!Window
  BY PopupFacts DEF Sliding
<1>15. Fitting'
  <2> SUFFICES ASSUME NEW j \in Sliding
               PROVE /\ \A e \in Elements(nested') : IsResize(e, j) => FitsAt(j, rect[j].at, e.size)'
                     /\ posted # <<>> /\ posted[1].window = j =>
                          posted[1].kind = "size" /\ FitsAt(j, rect[j].at, posted[1].value)'
    BY <1>1, <1>13 DEF Fitting
  <2>1. CASE j = k
    <3>1. ASSUME NEW e \in Elements(nested'), IsResize(e, j) PROVE FitsAt(j, rect[j].at, e.size)'
      <4>1. FitsAt(j, rect[j].at, e.size) /\ e \in Elements(nested)
        BY <1>7, <3>1 DEF PopupInv, Fitting, IsResize
      <4>2. e.size <= x /\ e.size \in Int
        <5>1. e.size <= x
          BY <1>2, <1>7, <2>1, <3>1 DEF IsResize
        <5>2. e \in Anchored!Call /\ e.kind = "resize"
          BY <3>1, <4>1, TypesOf DEF Elements, IsResize
        <5>3. e.size \in Int
          BY <5>2 DEF Anchored!Call
        <5> QED BY <5>1, <5>3
      <4>3. e.size + Anchored!Insets <= rect'[j].size
        BY <1>2, <1>5, <1>6, <2>1, <4>2
      <4> QED BY <1>6, <2>1, <4>1, <4>3 DEF FitsAt, OnAScreen, Anchored!Insets
    <3>2. ~(posted # <<>> /\ posted[1].window = j)
      BY <1>2, <1>8, <2>1, PopupFacts
    <3> QED BY <3>1, <3>2
  <2>2. CASE j # k
    <3>1. rect'[j] = rect[j]
      BY <1>6, <1>14, <2>2
    <3>2. ASSUME NEW e \in Elements(nested'), IsResize(e, j) PROVE FitsAt(j, rect[j].at, e.size)'
      BY <1>7, <3>1, <3>2 DEF PopupInv, Fitting, FitsAt, OnAScreen, Anchored!Insets, IsResize
    <3>3. ASSUME posted # <<>>, posted[1].window = j
          PROVE posted[1].kind = "size" /\ FitsAt(j, rect[j].at, posted[1].value)'
      BY <1>1, <1>8, <3>1, <3>3 DEF PopupInv, Fitting, FitsAt, OnAScreen, Anchored!Insets
    <3> QED BY <3>2, <3>3
  <2> QED BY <2>1, <2>2
<1>16. Falling(nested, Sliding)'
  BY <1>1, <1>7, <1>13 DEF Falling
<1>17. Visibly'
  <2> SUFFICES ASSUME NEW j \in Sliding, placed[j], ~Due(j)', Adjustable(j)'
               PROVE OnAScreen(rect[j].at, rect[j].size)'
    BY <1>1, <1>13 DEF Visibly
  <2>1. CASE j = k
    <3>1. FitsAt(k, rect[k].at, x)
      BY <1>3, <2>1 DEF PopupInv, Fitting, x
    <3> QED BY <1>6, <2>1, <3>1 DEF FitsAt, OnAScreen
  <2>2. CASE j # k
    <3>1. rect'[j] = rect[j] /\ Adjustable(j)
      BY <1>6, <1>13, <1>14, <2>2
    <3>2. ASSUME NEW e \in Elements(nested), IsResize(e, j) PROVE e \in Elements(nested')
      <4>1. e # Anchored!Top
        BY <1>3, <2>2, <3>2 DEF IsResize
      <4> QED BY <1>2, <1>7, <4>1
    <3>3. ~Due(j)
      BY <1>1, <3>2 DEF Due
    <3> QED BY <3>1, <3>3 DEF PopupInv, Visibly, OnAScreen
  <2> QED BY <2>1, <2>2
<1> QED BY <1>9, <1>10, <1>11, <1>12, <1>15, <1>16, <1>17 DEF PopupInv

\* Another positioner.
LEMMA SetPositionerKeeps ==
  ASSUME Roomy, PopupInv, Anchored!SetPositioner
  PROVE PopupInv'
<1>1. /\ Anchored!Does("position") /\ UNCHANGED <<posted, asked>>
  BY DEF Anchored!SetPositioner
<1>2. PICK k \in Anchored!Owned, p \in Positioners :
        /\ Anchored!Settled(k) /\ positioner' = [positioner EXCEPT ![k] = p]
        /\ Anchored!RepositionWith(k, Anchored!Placement(k, p), nested)
  BY DEF Anchored!SetPositioner
<1>3. posted = <<>> /\ acts' \in 0 .. MaxActs
  BY <1>1, DoesMeans
<1>4. nested \in Seq(Anchored!Call) /\ Falling(nested, Sliding) /\ PopupTyped
  BY TypesOf DEF PopupInv
<1>5. \A e \in Elements(nested) : ~IsResize(e, k)
  BY <1>2, <1>4, SettledMeans
<1> QED BY <1>1, <1>2, <1>3, <1>4, <1>5, Repositioned

\* A window is put somewhere by hand: by the user, or by the application from its owner.
LEMMA MovedByHand ==
  ASSUME Roomy, PopupInv, NEW k \in Anchored!Window, NEW at \in Int, Anchored!MoveTo(k, at, nested),
         UNCHANGED <<positioner, posted, asked>>, posted = <<>>, acts' \in 0 .. MaxActs,
         relative' \in [Anchored!Owned -> Int], placed' \in [Anchored!Owned -> BOOLEAN],
         \A j \in Anchored!Owned : j # k => relative'[j] = relative[j] /\ placed'[j] = placed[j],
         k \in Anchored!Owned => /\ \A e \in Elements(nested) : ~IsResize(e, k)
                                 /\ ~placed'[k] /\ at - Anchored!Content(rect[k - 1]) = relative'[k]
  PROVE PopupInv'
<1> DEFINE f == Anchored!Doing("moved", k)
<1>1. /\ rect' \in [Anchored!Window -> [at : Int, size : Nat]]
      /\ nested' \in Seq(Anchored!Call)
      /\ rect'[k].at = at /\ rect'[k].size = rect[k].size
      /\ \A j \in Anchored!Window : j # k => rect'[j] = rect[j]
      /\ \/ at = rect[k].at /\ nested' = nested /\ rect' = rect
         \/ at # rect[k].at /\ nested' = <<f>> \o nested
      /\ Elements(nested) \subseteq Elements(nested')
      /\ Elements(nested') \subseteq Elements(nested) \cup {f}
      /\ \A slides : Falling(nested, slides) => Falling(nested', slides)
  <2>1. nested \in Seq(Anchored!Call) /\ PopupTyped
    BY TypesOf DEF PopupInv
  <2> QED BY <2>1, Moved
<1>2. f \in Anchored!Call /\ f.kind = "moved" /\ f.window = k
  BY DEF Anchored!Doing, Anchored!Call
<1> HIDE DEF f
<1>3. at # rect[k].at => f \in Elements(nested')
  <2>1. nested \in Seq(Anchored!Call)
    BY TypesOf
  <2>2. Elements(<<f>> \o nested) = {f} \cup Elements(nested)
    BY <1>2, <2>1, Pushed
  <2> QED BY <1>1, <2>2
<1>4. \A e \in Elements(nested') : e.kind = "resize" => e \in Elements(nested)
  BY <1>1, <1>2
<1>5. PopupTyped'
  BY <1>1, TypesOf DEF PopupTyped, Anchored!TypeOK
<1>6. Arriving'
  BY DEF Arriving
<1>7. Following'
  <2> SUFFICES ASSUME NEW j \in Anchored!Owned
               PROVE \/ rect'[j].at - Anchored!Content(rect'[j - 1]) = relative'[j]
                     \/ \E e \in Elements(nested') : e.kind \in {"moved", "owned"} /\ e.window = j - 1
    BY DEF Following
  <2>1. j - 1 \in Anchored!Window /\ j \in Anchored!Window /\ j # j - 1
    BY PopupFacts
  <2>2. CASE j = k
    <3>1. rect'[j - 1] = rect[j - 1]
      BY <1>1, <2>1, <2>2
    <3> QED BY <1>1, <2>2, <3>1 DEF Anchored!Content
  <2>3. CASE j # k
    <3>1. rect'[j] = rect[j] /\ relative'[j] = relative[j]
      BY <1>1, <2>1, <2>3
    <3>2. \/ rect[j].at - Anchored!Content(rect[j - 1]) = relative[j]
          \/ \E e \in Elements(nested) : e.kind \in {"moved", "owned"} /\ e.window = j - 1
      BY DEF PopupInv, Following
    <3>3. CASE j - 1 = k /\ at # rect[k].at
      BY <1>2, <1>3, <3>3
    <3>4. CASE j - 1 # k \/ at = rect[k].at
      <4>1. rect'[j - 1] = rect[j - 1]
        BY <1>1, <2>1, <3>4
      <4> QED BY <1>1, <3>1, <3>2, <4>1 DEF Anchored!Content
    <3> QED BY <3>3, <3>4
  <2> QED BY <2>2, <2>3
<1>8. \A j \in Anchored!Window : rect'[j].size = rect[j].size
  BY <1>1
<1>9. Sized'
  <2> SUFFICES ASSUME NEW j \in Anchored!Owned
               PROVE /\ Anchored!Insets <= rect'[j].size /\ rect'[j].size <= asked[j] + Anchored!Insets
                     /\ \A e \in Elements(nested') : IsResize(e, j) => 0 <= e.size /\ e.size <= asked[j]
    BY DEF Sized, Anchored!Insets
  <2>1. rect'[j].size = rect[j].size
    BY <1>8, PopupFacts
  <2> QED BY <1>4, <2>1 DEF PopupInv, Sized, IsResize
<1>10. Sliding' = Sliding /\ \A j \in Anchored!Owned : Adjustable(j)' <=> Adjustable(j)
  BY <1>8, PopupFacts DEF Sliding, Adjustable
<1>11. \A j \in Sliding : j \in Anchored!Owned /\ j \in Anchored!Window
  BY PopupFacts DEF Sliding
<1>12. Fitting'
  <2> SUFFICES ASSUME NEW j \in Sliding, NEW e \in Elements(nested'), IsResize(e, j)
               PROVE FitsAt(j, rect[j].at, e.size)'
    BY <1>10 DEF Fitting
  <2>1. e \in Elements(nested)
    BY <1>4 DEF IsResize
  <2>2. j # k
    BY <1>11, <2>1
  <2>3. rect'[j] = rect[j]
    BY <1>1, <1>11, <2>2
  <2> QED BY <2>1, <2>3 DEF PopupInv, Fitting, FitsAt, OnAScreen, Anchored!Insets
<1>13. Falling(nested, Sliding)'
  BY <1>1, <1>10 DEF PopupInv, Falling
<1>14. Visibly'
  <2> SUFFICES ASSUME NEW j \in Sliding, placed'[j], ~Due(j)', Adjustable(j)
               PROVE OnAScreen(rect[j].at, rect[j].size)'
    BY <1>10, <1>11 DEF Visibly
  <2>1. j # k /\ placed[j] /\ rect'[j] = rect[j]
    BY <1>1, <1>11
  <2>2. ~Due(j)
    BY <1>1 DEF Due
  <2> QED BY <2>1, <2>2 DEF PopupInv, Visibly, OnAScreen
<1> QED BY <1>5, <1>6, <1>7, <1>9, <1>12, <1>13, <1>14 DEF PopupInv

\* The user or the application moves the first window.
LEMMA FirstMovesKeeps ==
  ASSUME Roomy, PopupInv, Anchored!FirstMoves
  PROVE PopupInv'
<1>1. UNCHANGED <<positioner, posted, asked, relative, placed>> /\ (Anchored!Does("user") \/ Anchored!Does("place"))
  BY DEF Anchored!FirstMoves
<1>2. PICK at \in Places : Anchored!MoveTo(1, at, nested)
  BY DEF Anchored!FirstMoves
<1>3. at \in Int /\ 1 \in Anchored!Window /\ 1 \notin Anchored!Owned
  BY PopupFacts
<1>4. posted = <<>> /\ acts' \in 0 .. MaxActs
  BY <1>1, DoesMeans
<1> QED BY <1>1, <1>2, <1>3, <1>4, TypesOf, MovedByHand

\* The application puts a window somewhere itself.
LEMMA SetOuterPositionKeeps ==
  ASSUME Roomy, PopupInv, Anchored!SetOuterPosition
  PROVE PopupInv'
<1>1. UNCHANGED <<positioner, posted, asked>> /\ Anchored!Does("place")
  BY DEF Anchored!SetOuterPosition
<1>2. PICK k \in Anchored!Owned, at \in Places :
        /\ Anchored!Settled(k) /\ Anchored!MoveTo(k, Anchored!Content(rect[k - 1]) + at, nested)
        /\ relative' = [relative EXCEPT ![k] = at] /\ placed' = [placed EXCEPT ![k] = FALSE]
  BY DEF Anchored!SetOuterPosition
<1>3. at \in Int /\ k \in Anchored!Window /\ k - 1 \in Anchored!Window /\ Border \in Int
  BY PopupFacts
<1>4. posted = <<>> /\ acts' \in 0 .. MaxActs
  BY <1>1, DoesMeans
<1>5. rect[k - 1] \in [at : Int, size : Nat]
  BY <1>3, TypesOf
<1> DEFINE to == Anchored!Content(rect[k - 1]) + at
<1>6. to \in Int /\ to - Anchored!Content(rect[k - 1]) = at
  BY <1>3, <1>5 DEF Anchored!Content
<1>7. relative \in [Anchored!Owned -> Int] /\ placed \in [Anchored!Owned -> BOOLEAN]
  BY TypesOf
<1>8. /\ relative' \in [Anchored!Owned -> Int] /\ placed' \in [Anchored!Owned -> BOOLEAN]
      /\ relative'[k] = at /\ placed'[k] = FALSE
      /\ \A j \in Anchored!Owned : j # k => relative'[j] = relative[j] /\ placed'[j] = placed[j]
  BY <1>2, <1>3, <1>7
<1>9. \A e \in Elements(nested) : ~IsResize(e, k)
  BY <1>2, SettledMeans DEF PopupInv
<1>10. Anchored!MoveTo(k, to, nested)
  BY <1>2
<1> HIDE DEF to
<1> QED BY <1>1, <1>3, <1>4, <1>6, <1>8, <1>9, <1>10, MovedByHand

\* The application asks for another size.
LEMMA RequestSurfaceSizeKeeps ==
  ASSUME Roomy, PopupInv, Anchored!RequestSurfaceSize
  PROVE PopupInv'
<1>1. UNCHANGED <<positioner, nested, posted, relative>> /\ Anchored!Does("size")
  BY DEF Anchored!RequestSurfaceSize
<1>2. PICK k \in Anchored!Owned, x \in Sizes :
        /\ Anchored!Settled(k) /\ Anchored!Resized(k, x)
        /\ asked' = [asked EXCEPT ![k] = x] /\ placed' = [placed EXCEPT ![k] = FALSE]
  BY DEF Anchored!RequestSurfaceSize
<1>3. x \in Nat /\ k \in Anchored!Window /\ Anchored!Insets \in Nat
  BY PopupFacts
<1>4. posted = <<>> /\ acts' \in 0 .. MaxActs
  BY <1>1, DoesMeans
<1>5. \A e \in Elements(nested) : ~IsResize(e, k)
  BY <1>2, SettledMeans DEF PopupInv
<1>6. /\ rect' \in [Anchored!Window -> [at : Int, size : Nat]]
      /\ rect'[k].at = rect[k].at /\ rect'[k].size = x + Anchored!Insets
      /\ \A j \in Anchored!Window : j # k => rect'[j] = rect[j]
  <2>1. rect \in [Anchored!Window -> [at : Int, size : Nat]] /\ rect' = [rect EXCEPT ![k].size = x + Anchored!Insets]
    BY <1>2, TypesOf DEF Anchored!Resized
  <2>2. rect[k] \in [at : Int, size : Nat]
    BY <1>3, <2>1
  <2>3. rect'[k] = [at |-> rect[k].at, size |-> x + Anchored!Insets]
    BY <1>3, <2>1, <2>2
  <2>4. \A j \in Anchored!Window : j # k => rect'[j] = rect[j]
    BY <2>1
  <2>5. x + Anchored!Insets \in Nat
    BY <1>3
  <2>6. rect' \in [Anchored!Window -> [at : Int, size : Nat]]
    BY <2>1, <2>2, <2>5
  <2> QED BY <2>3, <2>4, <2>6
<1>7. /\ asked' \in [Anchored!Owned -> Sizes] /\ placed' \in [Anchored!Owned -> BOOLEAN]
      /\ asked'[k] = x /\ placed'[k] = FALSE
      /\ \A j \in Anchored!Owned : j # k => asked'[j] = asked[j] /\ placed'[j] = placed[j]
  BY <1>2, TypesOf
<1>8. PopupTyped'
  BY <1>1, <1>4, <1>6, <1>7, TypesOf DEF PopupTyped, Anchored!TypeOK
<1>9. Arriving'
  BY <1>1, <1>4 DEF Arriving
<1>10. Following'
  <2> SUFFICES ASSUME NEW j \in Anchored!Owned
               PROVE \/ rect'[j].at - Anchored!Content(rect'[j - 1]) = relative[j]
                     \/ \E e \in Elements(nested) : e.kind \in {"moved", "owned"} /\ e.window = j - 1
    BY <1>1 DEF Following
  <2>1. rect'[j].at = rect[j].at /\ rect'[j - 1].at = rect[j - 1].at
    BY <1>6, PopupFacts
  <2> QED BY <1>4, <2>1 DEF PopupInv, Following, Anchored!Content
<1>11. Sized'
  <2> SUFFICES ASSUME NEW j \in Anchored!Owned
               PROVE /\ Anchored!Insets <= rect'[j].size /\ rect'[j].size <= asked'[j] + Anchored!Insets
                     /\ \A e \in Elements(nested) : IsResize(e, j) => 0 <= e.size /\ e.size <= asked'[j]
    BY <1>1, <1>4 DEF Sized, Anchored!Insets
  <2>1. CASE j = k
    BY <1>3, <1>5, <1>6, <1>7, <2>1
  <2>2. CASE j # k
    <3>1. rect'[j] = rect[j] /\ asked'[j] = asked[j]
      BY <1>6, <1>7, <2>2, PopupFacts
    <3> QED BY <3>1 DEF PopupInv, Sized
  <2> QED BY <2>1, <2>2
<1>12. Sliding' = Sliding
  BY <1>1 DEF Sliding
<1>13. \A j \in Sliding : j \in Anchored!Owned /\ j \in Anchored!Window
  BY PopupFacts DEF Sliding
<1>14. Fitting'
  <2> SUFFICES ASSUME NEW j \in Sliding, NEW e \in Elements(nested), IsResize(e, j)
               PROVE FitsAt(j, rect[j].at, e.size)'
    BY <1>1, <1>4, <1>12 DEF Fitting
  <2>1. rect'[j] = rect[j]
    BY <1>5, <1>6, <1>13
  <2> QED BY <2>1 DEF PopupInv, Fitting, FitsAt, OnAScreen, Anchored!Insets
<1>15. Falling(nested, Sliding)'
  BY <1>1, <1>12 DEF PopupInv, Falling
<1>16. Visibly'
  <2> SUFFICES ASSUME NEW j \in Sliding, placed'[j], ~Due(j)', Adjustable(j)'
               PROVE OnAScreen(rect[j].at, rect[j].size)'
    BY <1>12 DEF Visibly
  <2>1. j # k /\ rect'[j] = rect[j] /\ placed[j]
    BY <1>6, <1>7, <1>13
  <2>2. ~Due(j) /\ Adjustable(j)
    BY <1>1, <1>4, <2>1 DEF Due, Adjustable
  <2> QED BY <2>1, <2>2 DEF PopupInv, Visibly, OnAScreen
<1> QED BY <1>8, <1>9, <1>10, <1>11, <1>14, <1>15, <1>16 DEF PopupInv
\* Another thread gives a window a positioner: it promises what will be.
LEMMA ThreadSetsPositionerKeeps ==
  ASSUME Roomy, PopupInv, Anchored!ThreadSetsPositioner
  PROVE PopupInv'
<1>1. UNCHANGED <<rect, nested, asked>> /\ Anchored!Does("thread") /\ nested = <<>>
  BY PopupFacts DEF Anchored!ThreadSetsPositioner
<1>2. PICK k \in Anchored!Owned, p \in Positioners :
        /\ positioner' = [positioner EXCEPT ![k] = p]
        /\ LET to == Anchored!Placement(k, p)
               at == Anchored!Rounded(to.at)
           IN  /\ posted' = posted \o <<[window |-> k, kind |-> "at", value |-> Anchored!Content(rect[k - 1]) + at]>>
                   \o (IF to.size = 2 * (rect[k].size - Anchored!Insets) THEN <<>>
                       ELSE <<[window |-> k, kind |-> "size", value |-> Anchored!Rounded(to.size)]>>)
               /\ relative' = [relative EXCEPT ![k] = at]
               /\ placed' = [placed EXCEPT ![k] = TRUE]
  BY DEF Anchored!ThreadSetsPositioner
<1>3. posted = <<>> /\ acts' \in 0 .. MaxActs
  BY <1>1, DoesMeans
<1> DEFINE r == rect[k]
           owner == rect[k - 1]
           to == Anchored!PlacementOf(p, r, Anchored!ClipOf(r, owner))
           off == Anchored!Rounded(to.at)
           at == Anchored!Content(owner) + off
           x == Anchored!Rounded(to.size)
           resized == to.size # 2 * (r.size - Anchored!Insets)
           first == [window |-> k, kind |-> "at", value |-> at]
           second == [window |-> k, kind |-> "size", value |-> x]
<1>4. k \in Anchored!Window /\ k - 1 \in Anchored!Window /\ k - 1 # k /\ Anchored!Insets \in Nat
  BY PopupFacts
<1>5. IsRect(r) /\ IsRect(owner) /\ Anchored!Insets <= r.size /\ r.size <= asked[k] + Anchored!Insets
  <2>1. r \in [at : Int, size : Nat] /\ owner \in [at : Int, size : Nat]
    BY <1>4, TypesOf
  <2>2. IsRect(r) /\ IsRect(owner)
    BY <2>1 DEF IsRect
  <2> QED BY <2>2 DEF PopupInv, Sized
<1>6. /\ posted' = posted \o <<first>> \o (IF to.size = 2 * (r.size - Anchored!Insets) THEN <<>> ELSE <<second>>)
      /\ relative' = [relative EXCEPT ![k] = off] /\ placed' = [placed EXCEPT ![k] = TRUE]
  BY <1>2 DEF Anchored!Placement
<1> HIDE DEF r, owner
<1>7. /\ off \in Int /\ at \in Int /\ x \in Nat /\ x + Anchored!Insets <= r.size
      /\ "slide" \in p.flags["x"] =>
           /\ resized => OnAScreen(at, x + Anchored!Insets)
           /\ ~resized /\ ("resize" \in p.flags["x"] \/ \A s \in Screens : r.size <= s.hi - s.lo)
                => OnAScreen(at, r.size)
  BY <1>5, PlacedFits
<1> HIDE DEF to, off, at, x
<1>8. /\ first \in Arrival /\ first.window = k /\ first.kind = "at" /\ first.value = at
      /\ second \in Arrival /\ second.window = k /\ second.kind = "size" /\ second.value = x
  BY <1>7 DEF Arrival
<1> HIDE DEF first, second, resized
<1>9. /\ posted' \in Seq(Arrival) /\ posted'[1] = first
      /\ resized => Len(posted') = 2 /\ posted'[2] = second
      /\ ~resized => Len(posted') = 1
  <2>1. ASSUME NEW a \in Arrival
        PROVE <<>> \o <<a>> \in Seq(Arrival) /\ Len(<<>> \o <<a>>) = 1 /\ (<<>> \o <<a>>)[1] = a
    OBVIOUS
  <2> DEFINE one == <<>> \o <<first>>
  <2>2. one \in Seq(Arrival) /\ Len(one) = 1 /\ one[1] = first
    BY <1>8, <2>1
  <2>3. posted' = one \o (IF resized THEN <<second>> ELSE <<>>)
    BY <1>3, <1>6 DEF resized
  <2> HIDE DEF one
  <2>4. CASE resized
    <3>1. posted' = one \o <<second>>
      BY <2>3, <2>4
    <3>2. ASSUME NEW s \in Seq(Arrival), Len(s) = 1, NEW a \in Arrival
          PROVE s \o <<a>> \in Seq(Arrival) /\ Len(s \o <<a>>) = 2
                /\ (s \o <<a>>)[1] = s[1] /\ (s \o <<a>>)[2] = a
      <4> DEFINE t == <<a>>
      <4>1. t \in Seq(Arrival) /\ Len(t) = 1 /\ t[1] = a
        OBVIOUS
      <4> HIDE DEF t
      <4>2. /\ s \o t \in Seq(Arrival) /\ Len(s \o t) = Len(s) + Len(t)
            /\ \A i \in 1 .. Len(s) + Len(t) : (s \o t)[i] =
                 IF i <= Len(s) THEN s[i] ELSE t[i - Len(s)]
        BY <4>1, ConcatProperties
      <4>3. 1 \in 1 .. Len(s) + Len(t) /\ 2 \in 1 .. Len(s) + Len(t) /\ 2 - Len(s) = 1
        BY <3>2, <4>1
      <4>4. (s \o t)[1] = s[1]
        BY <3>2, <4>2, <4>3
      <4>5. (s \o t)[2] = t[1]
        BY <3>2, <4>2, <4>3
      <4> QED BY <3>2, <4>1, <4>2, <4>4, <4>5 DEF t
    <3>3. /\ one \o <<second>> \in Seq(Arrival) /\ Len(one \o <<second>>) = 2
          /\ (one \o <<second>>)[1] = one[1] /\ (one \o <<second>>)[2] = second
      BY <1>8, <2>2, <3>2
    <3> QED BY <2>2, <2>4, <3>1, <3>3
  <2>5. CASE ~resized
    <3>1. posted' = one
      BY <2>2, <2>3, <2>5, ConcatEmptySeq
    <3> QED BY <2>2, <2>5, <3>1
  <2> QED BY <2>4, <2>5
<1>10. /\ posted' \in Seq(Arrival) /\ posted' # <<>> /\ posted'[1] = first
       /\ resized => Len(posted') = 2 /\ posted'[2] = second
       /\ ~resized => Len(posted') = 1
       /\ \A i \in DOMAIN posted' : posted'[i] = first \/ posted'[i] = second
  <2>1. DOMAIN posted' = 1 .. Len(posted') /\ Len(posted') \in 1 .. 2 /\ posted' # <<>>
    BY <1>9
  <2>2. \A i \in 1 .. Len(posted') : i = 1 \/ (i = 2 /\ Len(posted') = 2)
    BY <2>1
  <2> QED BY <1>9, <2>1, <2>2
<1>11. Elements(nested') = {} /\ Elements(nested) = {}
  BY <1>1 DEF Elements
<1>12. positioner'[k] = p /\ \A j \in Anchored!Owned : j # k => positioner'[j] = positioner[j]
  BY <1>2, TypesOf
<1>13. relative'[k] = off /\ \A j \in Anchored!Owned : j # k => relative'[j] = relative[j] /\ placed'[j] = placed[j]
  BY <1>6, TypesOf
<1>14. PopupTyped'
  <2>1. positioner' \in [Anchored!Owned -> Positioners]
    BY <1>2, TypesOf
  <2>2. relative' \in [Anchored!Owned -> Int] /\ placed' \in [Anchored!Owned -> BOOLEAN]
    BY <1>6, <1>7, TypesOf
  <2> QED BY <1>1, <1>3, <1>10, <2>1, <2>2, TypesOf DEF PopupTyped, Anchored!TypeOK
<1>15. Arriving'
  <2>1. posted'[1].value = Anchored!Content(rect[k - 1]) + relative'[k]
    BY <1>8, <1>10, <1>13 DEF at, owner
  <2>2. posted'[1].window = k /\ posted'[1].kind = "at"
    BY <1>8, <1>10
  <2>3. Len(posted') <= 2 /\ (Len(posted') = 2 => posted'[2].window = k /\ posted'[2].kind = "size")
    BY <1>8, <1>10
  <2> QED BY <1>1, <1>11, <2>1, <2>2, <2>3 DEF Arriving, Anchored!Content
<1>16. Following'
  <2> SUFFICES ASSUME NEW j \in Anchored!Owned, j # k PROVE rect[j].at - Anchored!Content(rect[j - 1]) = relative[j]
    BY <1>1, <1>8, <1>10, <1>13 DEF Following, Anchored!Content
  <2> QED BY <1>3, <1>11 DEF PopupInv, Following
<1>17. Sized'
  <2> SUFFICES ASSUME NEW j \in Anchored!Owned
               PROVE /\ Anchored!Insets <= rect[j].size /\ rect[j].size <= asked[j] + Anchored!Insets
                     /\ \A i \in DOMAIN posted' :
                          posted'[i].kind = "size" /\ posted'[i].window = j =>
                            0 <= posted'[i].value /\ posted'[i].value <= asked[j]
    BY <1>1, <1>11 DEF Sized, Anchored!Insets
  <2>1. Anchored!Insets <= rect[j].size /\ rect[j].size <= asked[j] + Anchored!Insets
    BY DEF PopupInv, Sized
  <2>2. ASSUME NEW i \in DOMAIN posted', posted'[i].kind = "size", posted'[i].window = j
        PROVE 0 <= posted'[i].value /\ posted'[i].value <= asked[j]
    <3>1. posted'[i] = second /\ j = k
      BY <1>8, <1>10, <2>2
    <3>2. asked[k] \in Nat
      BY TypesOf, PopupFacts
    <3>3. r.size \in Nat
      BY <1>5 DEF IsRect
    <3> QED BY <1>4, <1>5, <1>7, <1>8, <3>1, <3>2, <3>3
  <2> QED BY <2>1, <2>2
<1>18. \A j \in Anchored!Owned : j # k => (j \in Sliding' <=> j \in Sliding) /\ (Adjustable(j)' <=> Adjustable(j))
  BY <1>1, <1>12 DEF Sliding, Adjustable
<1>19. k \in Sliding' => "slide" \in p.flags["x"]
  BY <1>12 DEF Sliding
<1>20. Fitting'
  <2> SUFFICES ASSUME k \in Sliding'
               PROVE /\ Len(posted') = 2 => FitsAt(k, posted[1].value, posted[2].value)'
                     /\ Len(posted') = 1 /\ Adjustable(k)' => OnAScreen(posted[1].value, rect[k].size)'
    BY <1>8, <1>10, <1>11 DEF Fitting
  <2>1. ASSUME Len(posted') = 2 PROVE FitsAt(k, posted[1].value, posted[2].value)'
    <3>1. resized /\ posted'[1].value = at /\ posted'[2].value = x
      BY <1>8, <1>10, <2>1
    <3>2. OnAScreen(at, x + Anchored!Insets) /\ x + Anchored!Insets <= rect[k].size
      BY <1>7, <1>19, <3>1 DEF r
    <3> QED BY <1>1, <3>1, <3>2 DEF FitsAt, OnAScreen, Anchored!Insets
  <2>2. ASSUME Len(posted') = 1, Adjustable(k)' PROVE OnAScreen(posted[1].value, rect[k].size)'
    <3>1. ~resized /\ posted'[1].value = at
      BY <1>8, <1>10, <2>2
    <3>2. "resize" \in p.flags["x"] \/ \A s \in Screens : r.size <= s.hi - s.lo
      BY <1>1, <1>12, <2>2 DEF Adjustable, r
    <3>3. OnAScreen(at, rect[k].size)
      BY <1>7, <1>19, <3>1, <3>2 DEF r
    <3> QED BY <1>1, <3>1, <3>3 DEF OnAScreen
  <2> QED BY <2>1, <2>2
<1>21. Falling(nested, Sliding)'
  BY <1>1 DEF Falling
<1>22. Visibly'
  <2> SUFFICES ASSUME NEW j \in Sliding', placed'[j], ~Due(j)', Adjustable(j)'
               PROVE OnAScreen(rect[j].at, rect[j].size)'
    BY DEF Visibly
  <2>1. j \in Anchored!Owned /\ j # k
    BY <1>8, <1>10 DEF Due, Sliding
  <2>2. j \in Sliding /\ placed[j] /\ Adjustable(j)
    BY <1>13, <1>18, <2>1
  <2>3. ~Due(j)
    BY <1>3, <1>11 DEF Due
  <2> QED BY <1>1, <2>2, <2>3 DEF PopupInv, Visibly, OnAScreen
<1> QED BY <1>14, <1>15, <1>16, <1>17, <1>20, <1>21, <1>22 DEF PopupInv

\* The promise is kept, first the position, then the size.
LEMMA PostedArrivesKeeps ==
  ASSUME Roomy, PopupInv, Anchored!PostedArrives
  PROVE PopupInv'
<1> DEFINE head == Head(posted)
           k == head.window
           v == head.value
<1>1. /\ nested = <<>> /\ posted # <<>> /\ posted' = Tail(posted)
      /\ UNCHANGED <<positioner, asked, relative, placed, acts>>
      /\ head.kind = "at" => Anchored!MoveTo(k, v, nested)
      /\ head.kind # "at" => Anchored!Resized(k, v) /\ nested' = Anchored!Told(k, v, nested)
  BY DEF Anchored!PostedArrives
<1>2. posted \in Seq(Arrival) /\ head = posted[1] /\ head \in Arrival
  BY <1>1, TypesOf
<1>3. k \in Anchored!Owned /\ v \in Int /\ head.kind \in {"at", "size"}
  BY <1>2 DEF Arrival
<1>4. k = posted[1].window /\ v = posted[1].value
  BY <1>2
<1> HIDE DEF k, v
<1>5. k \in Anchored!Window /\ k - 1 \in Anchored!Window /\ k - 1 # k /\ Anchored!Insets \in Nat
  BY <1>3, PopupFacts
<1>6. Elements(nested) = {}
  BY <1>1 DEF Elements
<1>7. \A j \in Sliding : j \in Anchored!Owned /\ j \in Anchored!Window
  BY PopupFacts DEF Sliding
<1>8. Sliding' = Sliding
  BY <1>1 DEF Sliding
<1>9. CASE head.kind = "at"
  <2>1. posted[1].kind = "at"
    BY <1>2, <1>9
  <2>2. /\ v = Anchored!Content(rect[k - 1]) + relative[k]
        /\ Len(posted) <= 2
        /\ Len(posted) = 2 => posted[2].window = k /\ posted[2].kind = "size"
    BY <1>1, <1>4, <2>1 DEF PopupInv, Arriving
  <2> DEFINE f == Anchored!Doing("moved", k)
  <2>3. /\ rect' \in [Anchored!Window -> [at : Int, size : Nat]]
        /\ nested' \in Seq(Anchored!Call)
        /\ rect'[k].at = v /\ rect'[k].size = rect[k].size
        /\ \A j \in Anchored!Window : j # k => rect'[j] = rect[j]
        /\ \/ v = rect[k].at /\ nested' = nested /\ rect' = rect
           \/ v # rect[k].at /\ nested' = <<f>> \o nested
        /\ Elements(nested') \subseteq {f}
    <3>1. nested \in Seq(Anchored!Call) /\ PopupTyped /\ Anchored!MoveTo(k, v, nested)
      BY <1>1, <1>9, TypesOf DEF PopupInv
    <3> QED BY <1>3, <1>5, <1>6, <3>1, Moved
  <2>4. f \in Anchored!Call /\ f.kind = "moved" /\ f.window = k
    BY <1>5 DEF Anchored!Doing, Anchored!Call
  <2> HIDE DEF f
  <2>5. v # rect[k].at => f \in Elements(nested')
    <3>1. nested \in Seq(Anchored!Call)
      BY TypesOf
    <3>2. Elements(<<f>> \o nested) = {f} \cup Elements(nested)
      BY <2>4, <3>1, Pushed
    <3> QED BY <2>3, <3>2
  <2>6. /\ posted' \in Seq(Arrival)
        /\ \/ posted' = <<>> /\ Len(posted) = 1
           \/ /\ posted' # <<>> /\ Len(posted) = 2 /\ Len(posted') = 1 /\ DOMAIN posted' = {1}
              /\ posted'[1] = posted[2] /\ 2 \in DOMAIN posted
    <3>0. /\ Len(posted) \in Nat \ {0} /\ posted' \in Seq(Arrival) /\ Len(posted') = Len(posted) - 1
          /\ \A i \in 1 .. Len(posted) - 1 : posted'[i] = posted[i + 1]
          /\ DOMAIN posted = 1 .. Len(posted) /\ DOMAIN posted' = 1 .. Len(posted')
      <4>1. posted' = Tail(posted) /\ posted # <<>> /\ posted \in Seq(Arrival)
        BY <1>1, <1>2
      <4> QED BY <4>1, Popped
    <3>1. Len(posted) \in {1, 2}
      BY <2>2, <3>0
    <3>2. CASE Len(posted) = 1
      <4>1. Len(posted') = 0
        BY <3>0, <3>2
      <4>2. \A s \in Seq(Arrival) : Len(s) = 0 => s = <<>>
        OBVIOUS
      <4>3. posted' = <<>>
        BY <3>0, <4>1, <4>2
      <4> QED BY <3>0, <3>2, <4>3
    <3>3. CASE Len(posted) = 2
      <4>1. Len(posted') = 1 /\ 1 \in 1 .. Len(posted) - 1 /\ 2 \in 1 .. Len(posted)
        BY <3>0, <3>3
      <4>0. 1 .. 1 = {1}
        OBVIOUS
      <4>2. posted' # <<>> /\ DOMAIN posted' = {1}
        <5>1. DOMAIN posted' = 1 .. 1
          BY <3>0, <4>1
        <5>2. Len(<<>>) = 0
          OBVIOUS
        <5> QED BY <4>0, <4>1, <5>1, <5>2
      <4>3. posted'[1] = posted[2]
        BY <3>0, <4>1
      <4> QED BY <3>0, <3>3, <4>1, <4>2, <4>3
    <3> QED BY <3>1, <3>2, <3>3
  <2>7. posted' # <<>> => posted'[1].window = k /\ posted'[1].kind = "size"
    BY <2>2, <2>6
  <2>8. \A e \in Elements(nested') : e.kind = "moved" /\ e.window = k
    BY <2>3, <2>4
  <2>9. PopupTyped'
    BY <1>1, <2>3, <2>6, TypesOf DEF PopupTyped, Anchored!TypeOK
  <2>10. Arriving'
    <3>1. k \in Int
      BY <1>3, PopupFacts
    <3> QED BY <2>6, <2>7, <2>8, <3>1 DEF Arriving
  <2>11. Following'
    <3> SUFFICES ASSUME NEW j \in Anchored!Owned
                 PROVE \/ rect'[j].at - Anchored!Content(rect'[j - 1]) = relative[j]
                       \/ \E e \in Elements(nested') : e.kind \in {"moved", "owned"} /\ e.window = j - 1
      BY <1>1 DEF Following
    <3>1. j - 1 \in Anchored!Window /\ j \in Anchored!Window /\ j # j - 1
      BY PopupFacts
    <3>2. CASE j = k
      <4>1. rect'[j - 1] = rect[k - 1]
        BY <2>3, <3>1, <3>2
      <4>2. rect[k - 1] \in [at : Int, size : Nat] /\ relative[k] \in Int /\ Border \in Int
        BY <1>3, <1>5, TypesOf, PopupFacts
      <4>3. v - Anchored!Content(rect[k - 1]) = relative[k]
        BY <2>2, <4>2 DEF Anchored!Content
      <4> QED BY <2>3, <3>2, <4>1, <4>3 DEF Anchored!Content
    <3>3. CASE j # k /\ j - 1 = k /\ v # rect[k].at
      BY <2>5, <2>8, <3>3
    <3>4. CASE j # k /\ (j - 1 # k \/ v = rect[k].at)
      <4>1. rect'[j] = rect[j] /\ rect'[j - 1] = rect[j - 1]
        BY <2>3, <3>1, <3>4
      <4>2. rect[j].at - Anchored!Content(rect[j - 1]) = relative[j]
        BY <1>4, <1>6, <3>4 DEF PopupInv, Following
      <4> QED BY <4>1, <4>2 DEF Anchored!Content
    <3> QED BY <3>2, <3>3, <3>4
  <2>12. \A j \in Anchored!Window : rect'[j].size = rect[j].size
    BY <2>3
  <2>13. Sized'
    <3> SUFFICES ASSUME NEW j \in Anchored!Owned
                 PROVE /\ Anchored!Insets <= rect'[j].size /\ rect'[j].size <= asked[j] + Anchored!Insets
                       /\ \A i \in DOMAIN posted' :
                            posted'[i].kind = "size" /\ posted'[i].window = j =>
                              0 <= posted'[i].value /\ posted'[i].value <= asked[j]
      BY <1>1, <2>8 DEF Sized, Anchored!Insets, IsResize
    <3>1. rect'[j].size = rect[j].size
      BY <2>12, PopupFacts
    <3>2. /\ Anchored!Insets <= rect[j].size /\ rect[j].size <= asked[j] + Anchored!Insets
          /\ \A i \in DOMAIN posted :
               posted[i].kind = "size" /\ posted[i].window = j =>
                 0 <= posted[i].value /\ posted[i].value <= asked[j]
      BY DEF PopupInv, Sized
    <3> QED BY <2>6, <3>1, <3>2
  <2>14. \A j \in Anchored!Owned : Adjustable(j)' <=> Adjustable(j)
    BY <1>1, <2>12, PopupFacts DEF Adjustable
  <2>15. Fitting'
    <3> SUFFICES ASSUME NEW j \in Sliding, posted' # <<>>, posted'[1].window = j
                 PROVE FitsAt(j, rect[j].at, posted[1].value)'
      BY <1>8, <2>7, <2>8 DEF Fitting, IsResize
    <3>1. j = k /\ Len(posted) = 2 /\ posted'[1].value = posted[2].value
      BY <2>6, <2>7
    <3>2. FitsAt(k, posted[1].value, posted[2].value)
      BY <1>1, <1>4, <2>1, <3>1 DEF PopupInv, Fitting
    <3> QED BY <1>4, <2>3, <3>1, <3>2 DEF FitsAt, OnAScreen, Anchored!Insets
  <2>16. Falling(nested, Sliding)'
    <3>1. \A i \in DOMAIN nested' : nested'[i].kind = "moved"
      BY <2>8 DEF Elements
    <3> QED BY <3>1 DEF Falling
  <2>17. Visibly'
    <3> SUFFICES ASSUME NEW j \in Sliding, placed[j], ~Due(j)', Adjustable(j)
                 PROVE OnAScreen(rect[j].at, rect[j].size)'
      BY <1>1, <1>7, <1>8, <2>14 DEF Visibly
    <3>1. CASE j = k
      <4>1. Len(posted) = 1
        BY <2>6, <2>7, <3>1 DEF Due
      <4>2. OnAScreen(posted[1].value, rect[k].size)
        BY <1>1, <1>4, <2>1, <3>1, <4>1 DEF PopupInv, Fitting
      <4> QED BY <1>4, <2>3, <3>1, <4>2 DEF OnAScreen
    <3>2. CASE j # k
      <4>1. rect'[j] = rect[j] /\ ~Due(j)
        BY <1>4, <1>6, <1>7, <2>3, <3>2 DEF Due
      <4> QED BY <4>1 DEF PopupInv, Visibly, OnAScreen
    <3> QED BY <3>1, <3>2
  <2> QED BY <2>9, <2>10, <2>11, <2>13, <2>15, <2>16, <2>17 DEF PopupInv
<1>10. CASE head.kind = "size"
  <2>1. posted[1].kind = "size" /\ Len(posted) = 1
    BY <1>1, <1>2, <1>10 DEF PopupInv, Arriving
  <2>2. posted' = <<>> /\ posted' \in Seq(Arrival)
    BY <1>1, <1>2, <2>1
  <2>12. /\ nested' \in Seq(Anchored!Call) /\ Falling(nested', Sliding)
         /\ \A e \in Elements(nested') : e.kind = "callback"
    <3> DEFINE slides == Sliding
    <3>1. nested \in Seq(Anchored!Call) /\ Falling(nested, slides) /\ nested' = Anchored!Told(k, v, nested)
      BY <1>1, <1>10, TypesOf DEF PopupInv
    <3> HIDE DEF slides
    <3>2. /\ nested' \in Seq(Anchored!Call) /\ Falling(nested', slides)
          /\ \A e \in Elements(nested') : e \in Elements(nested) \/ e.kind = "callback"
      BY <1>3, <3>1, ToldAdds
    <3> QED BY <1>6, <3>2 DEF slides
  <2>3. 0 <= v /\ v <= asked[k] /\ v + Anchored!Insets \in Nat
    <3>1. 1 \in DOMAIN posted
      BY <1>2, <2>1
    <3>2. 0 <= v /\ v <= asked[k]
      BY <1>3, <1>4, <2>1, <3>1 DEF PopupInv, Sized
    <3> QED BY <1>3, <1>5, <3>2
  <2>4. /\ rect' \in [Anchored!Window -> [at : Int, size : Nat]]
        /\ rect'[k].at = rect[k].at /\ rect'[k].size = v + Anchored!Insets
        /\ \A j \in Anchored!Window : j # k => rect'[j] = rect[j]
        /\ \A j \in Anchored!Window : rect'[j].at = rect[j].at
    <3>1. rect \in [Anchored!Window -> [at : Int, size : Nat]] /\ rect' = [rect EXCEPT ![k].size = v + Anchored!Insets]
      BY <1>1, <1>10, TypesOf DEF Anchored!Resized
    <3>2. rect[k] \in [at : Int, size : Nat]
      BY <1>5, <3>1
    <3>3. rect'[k] = [at |-> rect[k].at, size |-> v + Anchored!Insets]
      BY <1>5, <3>1, <3>2
    <3>4. \A j \in Anchored!Window : j # k => rect'[j] = rect[j]
      BY <3>1
    <3>5. rect' \in [Anchored!Window -> [at : Int, size : Nat]]
      BY <2>3, <3>1, <3>2
    <3> QED BY <3>3, <3>4, <3>5
  <2>5. PopupTyped'
    BY <1>1, <2>2, <2>4, <2>12, TypesOf DEF PopupTyped, Anchored!TypeOK
  <2>6. Arriving'
    BY <2>2 DEF Arriving
  <2>7. Following'
    <3> SUFFICES ASSUME NEW j \in Anchored!Owned PROVE rect'[j].at - Anchored!Content(rect'[j - 1]) = relative[j]
      BY <1>1 DEF Following
    <3>1. rect'[j].at = rect[j].at /\ rect'[j - 1].at = rect[j - 1].at
      BY <2>4, PopupFacts
    <3>2. rect[j].at - Anchored!Content(rect[j - 1]) = relative[j]
      BY <1>6, <2>1 DEF PopupInv, Following
    <3> QED BY <3>1, <3>2 DEF Anchored!Content
  <2>8. Sized'
    <3> SUFFICES ASSUME NEW j \in Anchored!Owned
                 PROVE Anchored!Insets <= rect'[j].size /\ rect'[j].size <= asked[j] + Anchored!Insets
      BY <1>1, <2>2, <2>12 DEF Sized, Anchored!Insets, IsResize
    <3>1. CASE j = k
      <4>1. asked[k] \in Nat
        BY <1>3, TypesOf, PopupFacts
      <4> QED BY <1>3, <1>5, <2>3, <2>4, <3>1, <4>1
    <3>2. CASE j # k
      <4>1. rect'[j] = rect[j]
        BY <2>4, <3>2, PopupFacts
      <4> QED BY <4>1 DEF PopupInv, Sized
    <3> QED BY <3>1, <3>2
  <2>9. Fitting'
    BY <2>2, <2>12 DEF Fitting, IsResize
  <2>10. Falling(nested, Sliding)'
    BY <1>8, <2>12 DEF Falling
  <2>11. Visibly'
    <3> SUFFICES ASSUME NEW j \in Sliding, placed[j], Adjustable(j)'
                 PROVE OnAScreen(rect[j].at, rect[j].size)'
      BY <1>1, <1>8 DEF Visibly
    <3>1. CASE j = k
      <4>1. FitsAt(k, rect[k].at, v)
        BY <1>1, <1>4, <2>1, <3>1 DEF PopupInv, Fitting
      <4> QED BY <2>4, <3>1, <4>1 DEF FitsAt, OnAScreen
    <3>2. CASE j # k
      <4>1. rect'[j] = rect[j]
        BY <1>7, <2>4, <3>2
      <4>2. ~Due(j) /\ Adjustable(j)
        BY <1>1, <1>4, <1>6, <3>2, <4>1 DEF Due, Adjustable
      <4> QED BY <4>1, <4>2 DEF PopupInv, Visibly, OnAScreen
    <3> QED BY <3>1, <3>2
  <2> QED BY <2>5, <2>6, <2>7, <2>8, <2>9, <2>10, <2>11 DEF PopupInv
<1> QED BY <1>3, <1>9, <1>10
\* Where one window of the chain goes, given the one before it.
After(p, sizes, k, owner) ==
  LET bare == [at |-> 0, size |-> sizes[k] + Anchored!Insets]
      to == Anchored!PlacementOf(p[k], bare, Anchored!ClipOf(bare, owner))
  IN  [at |-> Anchored!Content(owner) + Anchored!Rounded(to.at), size |-> Anchored!Rounded(to.size) + Anchored!Insets]

\* Chain is defined by recursion: there is one function that is as it says.
LEMMA ChainIs ==
  ASSUME Roomy, NEW first, NEW p, NEW sizes
  PROVE LET at == Anchored!Chain(first, p, sizes)
        IN  at = [k \in Anchored!Window |-> IF k = 1 THEN first ELSE After(p, sizes, k, at[k - 1])]
<1> DEFINE Is(at, n) == at = [k \in 1 .. n |-> IF k = 1 THEN first ELSE After(p, sizes, k, at[k - 1])]
           S == {n \in Nat : \E at : Is(at, n + 1)}
<1>1. 0 \in S
  <2>1. Is([k \in 1 .. 0 + 1 |-> first], 0 + 1)
    OBVIOUS
  <2> QED BY <2>1
<1>2. ASSUME NEW n \in S PROVE n + 1 \in S
  <2>1. PICK at : Is(at, n + 1)
    OBVIOUS
  <2> DEFINE longer == [k \in 1 .. (n + 1) + 1 |-> IF k <= n + 1 THEN at[k] ELSE After(p, sizes, k, at[k - 1])]
  <2>2. n \in Nat
    OBVIOUS
  <2>3. ASSUME NEW k \in 1 .. (n + 1) + 1
        PROVE longer[k] = IF k = 1 THEN first ELSE After(p, sizes, k, longer[k - 1])
    <3>1. CASE k <= n + 1
      <4>1. k \in 1 .. n + 1 /\ longer[k] = at[k]
        BY <2>2, <3>1
      <4>2. at[k] = IF k = 1 THEN first ELSE After(p, sizes, k, at[k - 1])
        BY <2>1, <4>1
      <4>3. k # 1 => longer[k - 1] = at[k - 1]
        BY <2>2, <3>1
      <4> QED BY <4>1, <4>2, <4>3
    <3>2. CASE ~(k <= n + 1)
      <4>1. k = (n + 1) + 1 /\ k # 1 /\ k - 1 \in 1 .. (n + 1) + 1 /\ k - 1 <= n + 1
        BY <2>2, <3>2
      <4>2. longer[k] = After(p, sizes, k, at[k - 1]) /\ longer[k - 1] = at[k - 1]
        BY <3>2, <4>1
      <4> QED BY <4>1, <4>2
    <3> QED BY <3>1, <3>2
  <2>4. Is(longer, (n + 1) + 1)
    BY <2>3
  <2>5. n + 1 \in Nat
    BY <2>2
  <2> HIDE DEF longer, Is
  <2> QED BY <2>4, <2>5
<1>3. S \in SUBSET Nat
  OBVIOUS
<1>4. S = Nat
  <2> HIDE DEF S
  <2> QED BY <1>1, <1>2, <1>3, NatSetInduction
<1>5. Count - 1 \in Nat /\ (Count - 1) + 1 = Count
  BY PopupFacts
<1>6. PICK at : Is(at, Count)
  <2>1. Count - 1 \in S
    BY <1>4, <1>5
  <2> HIDE DEF Is
  <2>2. \E at : Is(at, (Count - 1) + 1)
    BY <2>1
  <2> QED BY <1>5, <2>2
<1>7. Anchored!Chain(first, p, sizes) = CHOOSE g : Is(g, Count)
  BY DEF Anchored!Chain, After, Anchored!Window
<1> HIDE DEF Is
<1>8. Is(Anchored!Chain(first, p, sizes), Count)
  BY <1>6, <1>7
<1> QED BY <1>8 DEF Is, Anchored!Window

\* Every window of it is a rectangle.
LEMMA ChainTyped ==
  ASSUME Roomy, NEW first, IsRect(first), NEW p \in [Anchored!Owned -> Positioners], NEW sizes \in [Anchored!Owned -> Sizes]
  PROVE LET at == Anchored!Chain(first, p, sizes)
        IN  /\ DOMAIN at = Anchored!Window /\ at[1] = first
            /\ \A k \in Anchored!Window : k # 1 => at[k] = [at |-> at[k].at, size |-> at[k].size]
            /\ \A k \in Anchored!Window : IsRect(at[k])
            /\ \A k \in Anchored!Owned : at[k] = After(p, sizes, k, at[k - 1])
<1> DEFINE g == Anchored!Chain(first, p, sizes)
<1>1. g = [k \in Anchored!Window |-> IF k = 1 THEN first ELSE After(p, sizes, k, g[k - 1])]
  BY ChainIs
<1> HIDE DEF g
<1>2. DOMAIN g = Anchored!Window /\ g[1] = first
  BY <1>1, PopupFacts
<1>3. \A k \in Anchored!Owned : g[k] = After(p, sizes, k, g[k - 1])
  BY <1>1, PopupFacts
<1>4. ASSUME NEW k \in Anchored!Owned, NEW owner, IsRect(owner)
      PROVE IsRect(After(p, sizes, k, owner))
            /\ After(p, sizes, k, owner) \in [at : Int, size : Nat]
  <2> DEFINE bare == [at |-> 0, size |-> sizes[k] + Anchored!Insets]
             to == Anchored!PlacementOf(p[k], bare, Anchored!ClipOf(bare, owner))
             at == Anchored!Content(owner) + Anchored!Rounded(to.at)
             x == Anchored!Rounded(to.size)
  <2>1. sizes[k] \in Nat /\ Anchored!Insets \in Nat /\ p[k] \in Positioners
    BY PopupFacts
  <2>2. IsRect(bare) /\ Anchored!Insets <= bare.size
    BY <2>1 DEF IsRect
  <2> HIDE DEF bare
  <2>3. at \in Int /\ x \in Nat
    BY <1>4, <2>1, <2>2, PlacedFits
  <2>4. After(p, sizes, k, owner) = [at |-> at, size |-> x + Anchored!Insets]
    BY DEF After, bare
  <2> HIDE DEF at, x
  <2> QED BY <2>1, <2>3, <2>4 DEF IsRect
<1> DEFINE S == {n \in Nat : n + 1 \in Anchored!Window => IsRect(g[n + 1])}
<1>5. 0 \in S
  BY <1>2
<1>6. ASSUME NEW n \in S PROVE n + 1 \in S
  <2> SUFFICES ASSUME (n + 1) + 1 \in Anchored!Window PROVE IsRect(g[(n + 1) + 1])
    OBVIOUS
  <2>1. n \in Nat /\ (n + 1) + 1 \in Anchored!Owned /\ n + 1 \in Anchored!Window /\ ((n + 1) + 1) - 1 = n + 1
    BY PopupFacts DEF Anchored!Owned, Anchored!Window
  <2>2. IsRect(g[n + 1])
    BY <2>1
  <2> QED BY <1>3, <1>4, <2>1, <2>2
<1>7. S = Nat
  <2>1. S \in SUBSET Nat
    OBVIOUS
  <2> HIDE DEF S
  <2> QED BY <1>5, <1>6, <2>1, NatSetInduction
<1>8. \A k \in Anchored!Window : IsRect(g[k])
  <2> TAKE k \in Anchored!Window
  <2>1. k - 1 \in Nat /\ (k - 1) + 1 = k
    BY PopupFacts DEF Anchored!Window
  <2>2. k - 1 \in S
    BY <1>7, <2>1
  <2> QED BY <2>1, <2>2
<1>9. ASSUME NEW k \in Anchored!Window, k # 1 PROVE g[k] = [at |-> g[k].at, size |-> g[k].size]
  <2>1. k \in Anchored!Owned /\ k - 1 \in Anchored!Window
    BY <1>9, PopupFacts DEF Anchored!Window, Anchored!Owned
  <2>2. g[k] \in [at : Int, size : Nat]
    BY <1>3, <1>4, <1>8, <2>1
  <2> QED BY <2>2
<1> QED BY <1>2, <1>3, <1>8, <1>9 DEF g

\* The invariant holds at first.
LEMMA PopupStarts ==
  ASSUME Roomy, Anchored!Init
  PROVE PopupInv
<1>1. PICK place \in Places, wide \in Sizes :
        /\ positioner \in [Anchored!Owned -> Positioners]
        /\ asked \in [Anchored!Owned -> Sizes]
        /\ rect = Anchored!Chain([at |-> place, size |-> wide + Anchored!Insets], positioner, asked)
  BY DEF Anchored!Init
<1>2. /\ nested = <<>> /\ posted = <<>> /\ acts = 0
      /\ relative = [k \in Anchored!Owned |-> rect[k].at - Anchored!Content(rect[k - 1])]
      /\ placed = [k \in Anchored!Owned |-> TRUE]
  BY DEF Anchored!Init
<1> DEFINE first == [at |-> place, size |-> wide + Anchored!Insets]
<1>3. place \in Int /\ wide \in Nat /\ Anchored!Insets \in Nat /\ Border \in Int
  BY PopupFacts
<1>4. IsRect(first) /\ first \in [at : Int, size : Nat]
  BY <1>3 DEF IsRect
<1> HIDE DEF first
<1>5. /\ DOMAIN rect = Anchored!Window /\ rect[1] = first
      /\ \A k \in Anchored!Window : k # 1 => rect[k] = [at |-> rect[k].at, size |-> rect[k].size]
      /\ \A k \in Anchored!Window : IsRect(rect[k])
      /\ \A k \in Anchored!Owned : rect[k] = After(positioner, asked, k, rect[k - 1])
  <2>1. rect = Anchored!Chain(first, positioner, asked)
    BY <1>1 DEF first
  <2>2. positioner \in [Anchored!Owned -> Positioners] /\ asked \in [Anchored!Owned -> Sizes]
    BY <1>1
  <2>3. LET at == Anchored!Chain(first, positioner, asked)
        IN  /\ DOMAIN at = Anchored!Window /\ at[1] = first
            /\ \A k \in Anchored!Window : k # 1 => at[k] = [at |-> at[k].at, size |-> at[k].size]
            /\ \A k \in Anchored!Window : IsRect(at[k])
            /\ \A k \in Anchored!Owned : at[k] = After(positioner, asked, k, at[k - 1])
    BY <1>4, <2>2, ChainTyped
  <2> QED BY <2>1, <2>3
<1>6. rect \in [Anchored!Window -> [at : Int, size : Nat]]
  <2>1. \A k \in Anchored!Window : rect[k] \in [at : Int, size : Nat]
    BY <1>4, <1>5 DEF IsRect
  <2>2. rect = [k \in Anchored!Window |-> rect[k]]
    <3>1. rect = Anchored!Chain(first, positioner, asked)
      BY <1>1 DEF first
    <3> QED BY <3>1, ChainIs
  <2> QED BY <2>1, <2>2
<1>7. Elements(nested) = {} /\ DOMAIN posted = {}
  BY <1>2 DEF Elements
<1>8. relative \in [Anchored!Owned -> Int]
  <2>1. \A k \in Anchored!Owned : rect[k].at - Anchored!Content(rect[k - 1]) \in Int
    BY <1>3, <1>5, PopupFacts DEF Anchored!Content, IsRect
  <2> QED BY <1>2, <2>1
<1>9. PopupTyped
  BY <1>1, <1>2, <1>6, <1>8, PopupFacts DEF PopupTyped, Anchored!TypeOK
<1>10. ASSUME NEW k \in Anchored!Owned
       PROVE /\ Anchored!Insets <= rect[k].size /\ rect[k].size <= asked[k] + Anchored!Insets
             /\ k \in Sliding /\ Adjustable(k) => OnAScreen(rect[k].at, rect[k].size)
  <2> DEFINE owner == rect[k - 1]
             bare == [at |-> 0, size |-> asked[k] + Anchored!Insets]
             to == Anchored!PlacementOf(positioner[k], bare, Anchored!ClipOf(bare, owner))
             at == Anchored!Content(owner) + Anchored!Rounded(to.at)
             x == Anchored!Rounded(to.size)
             resized == to.size # 2 * (bare.size - Anchored!Insets)
  <2>1. asked[k] \in Nat /\ positioner[k] \in Positioners /\ k - 1 \in Anchored!Window
    BY <1>1, PopupFacts
  <2>2. IsRect(bare) /\ Anchored!Insets <= bare.size /\ IsRect(owner) /\ bare.size = asked[k] + Anchored!Insets
    BY <1>3, <1>5, <2>1 DEF IsRect
  <2>3. rect[k] = [at |-> at, size |-> x + Anchored!Insets]
    BY <1>5 DEF After
  <2> HIDE DEF bare, owner
  <2>4. PICK p \in Positioners : p = positioner[k]
    BY <2>1
  <2>5. /\ at \in Int /\ x \in Nat /\ x + Anchored!Insets <= bare.size
        /\ "slide" \in p.flags["x"] =>
             /\ resized => OnAScreen(at, x + Anchored!Insets)
             /\ ~resized /\ ("resize" \in p.flags["x"] \/ \A s \in Screens : bare.size <= s.hi - s.lo)
                  => OnAScreen(at, bare.size)
    BY <2>2, <2>4, PlacedFits
  <2>6. ~resized => x + Anchored!Insets = bare.size
    <3>1. ASSUME to.size = 2 * (bare.size - Anchored!Insets) PROVE x = bare.size - Anchored!Insets
      <4>1. bare.size - Anchored!Insets \in Int /\ to.size \in Int
        BY <1>3, <2>2, <3>1 DEF IsRect
      <4> HIDE DEF to
      <4> QED BY <3>1, <4>1, RoundedBounds
    <3>2. bare.size \in Int
      BY <2>2 DEF IsRect
    <3> HIDE DEF to, x
    <3> QED BY <1>3, <3>1, <3>2
  <2> HIDE DEF at, x, resized
  <2>7. rect[k].at = at /\ rect[k].size = x + Anchored!Insets
    BY <2>3
  <2>8. ASSUME k \in Sliding, Adjustable(k) PROVE OnAScreen(rect[k].at, rect[k].size)
    <3>1. "slide" \in p.flags["x"]
      BY <2>4, <2>8 DEF Sliding
    <3>2. CASE resized
      BY <2>5, <2>7, <3>1, <3>2
    <3>3. CASE ~resized
      <4>1. "resize" \in p.flags["x"] \/ \A s \in Screens : bare.size <= s.hi - s.lo
        BY <2>4, <2>6, <2>7, <2>8, <3>3 DEF Adjustable
      <4> QED BY <2>5, <2>6, <2>7, <3>1, <3>3, <4>1
    <3> QED BY <3>2, <3>3
  <2> QED BY <1>3, <2>1, <2>2, <2>5, <2>7, <2>8
<1>11. Following
  BY <1>2 DEF Following
<1>12. Sized
  BY <1>7, <1>10 DEF Sized
<1>13. Falling(nested, Sliding)
  BY <1>2 DEF Falling
<1>14. Visibly
  BY <1>10 DEF Visibly, Sliding
<1>15. Fitting /\ Arriving
  BY <1>2, <1>7 DEF Fitting, Arriving
<1> QED BY <1>9, <1>11, <1>12, <1>13, <1>14, <1>15 DEF PopupInv

\* Every step keeps it.
LEMMA PopupSteps ==
  ASSUME Roomy, PopupInv, Anchored!Next
  PROVE PopupInv'
<1>1. CASE Anchored!WindowPosChanged BY <1>1, WindowPosChangedKeeps
<1>2. CASE Anchored!RepositionOwned BY <1>2, RepositionOwnedKeeps
<1>3. CASE Anchored!SizeChanged BY <1>3, SizeChangedKeeps
<1>4. CASE Anchored!CallbackBegins BY <1>4, CallbackBeginsKeeps
<1>5. CASE Anchored!CallbackEnds BY <1>5, CallbackEndsKeeps
<1>6. CASE Anchored!FirstMoves BY <1>6, FirstMovesKeeps
<1>7. CASE Anchored!SetPositioner BY <1>7, SetPositionerKeeps
<1>8. CASE Anchored!SetOuterPosition BY <1>8, SetOuterPositionKeeps
<1>9. CASE Anchored!RequestSurfaceSize BY <1>9, RequestSurfaceSizeKeeps
<1>10. CASE Anchored!ThreadSetsPositioner BY <1>10, ThreadSetsPositionerKeeps
<1>11. CASE Anchored!PostedArrives BY <1>11, PostedArrivesKeeps
<1> QED BY <1>1, <1>2, <1>3, <1>4, <1>5, <1>6, <1>7, <1>8, <1>9, <1>10, <1>11 DEF Anchored!Next

\* It implies the four properties.
LEMMA PopupTells ==
  ASSUME Roomy, PopupInv
  PROVE Anchored!Attached /\ Anchored!OnScreen /\ Anchored!NeverGrown /\ Anchored!Adjusted
<1>1. Anchored!Attached
  <2> SUFFICES ASSUME Anchored!AtRest, NEW k \in Anchored!Owned PROVE rect[k].at - Anchored!Content(rect[k - 1]) = relative[k]
    BY DEF Anchored!Attached
  <2>1. posted = <<>> /\ Elements(nested) = {}
    BY DEF Anchored!AtRest, Elements
  <2> QED BY <2>1 DEF PopupInv, Following
<1>2. Anchored!OnScreen
  <2> SUFFICES ASSUME Anchored!AtRest, NEW k \in Anchored!Owned, placed[k], "slide" \in positioner[k].flags["x"],
                      \/ "resize" \in positioner[k].flags["x"]
                      \/ \A s \in Screens : rect[k].size <= s.hi - s.lo
               PROVE Anchored!InsideSome(rect[k])
    BY DEF Anchored!OnScreen
  <2>1. ~Due(k)
    BY DEF Anchored!AtRest, Due, Elements
  <2>2. k \in Sliding /\ Adjustable(k)
    BY DEF Sliding, Adjustable
  <2>3. OnAScreen(rect[k].at, rect[k].size)
    BY <2>1, <2>2 DEF PopupInv, Visibly
  <2> QED BY <2>3 DEF OnAScreen, Anchored!InsideSome
<1>3. Anchored!NeverGrown
  BY DEF Anchored!NeverGrown, PopupInv, Sized
<1>4. Anchored!Adjusted
  <2> SUFFICES ASSUME NEW k \in Anchored!Owned
               PROVE LET p == positioner[k]
                         extent == 2 * rect[k].size
                         clip == Anchored!ClipOf(rect[k], rect[k - 1])
                     IN  Anchored!AsAdjusted(Anchored!PlaceAxis(p, "x", extent, clip), Anchored!Origin(p, "x", extent), extent, clip,
                                    Anchored!Flipped(p, "x", extent), p.flags["x"])
    BY DEF Anchored!Adjusted
  <2> DEFINE extent == 2 * rect[k].size
             clip == Anchored!ClipOf(rect[k], rect[k - 1])
             m == Anchored!Monitor(rect[k])
             c == Anchored!Content(rect[k - 1])
  <2>1. k \in Anchored!Window /\ k - 1 \in Anchored!Window /\ Border \in Int /\ Anchored!Insets \in Nat
    BY PopupFacts
  <2>2. rect[k] \in [at : Int, size : Nat] /\ rect[k - 1] \in [at : Int, size : Nat]
    BY <2>1, TypesOf
  <2>3. IsRect(rect[k]) /\ extent \in Nat /\ c \in Int
    BY <2>1, <2>2 DEF IsRect, Anchored!Content
  <2>4. m \in Screens
    BY <2>3, MonitorIsBest
  <2>5. m.lo \in Int /\ m.hi \in Int /\ m.lo + Anchored!Insets <= m.hi
    BY <2>4 DEF Roomy
  <2>6. clip.lo = 2 * (m.lo - c) /\ clip.hi = 2 * (m.hi - c)
    BY DEF Anchored!ClipOf
  <2>7. IsClip(clip)
    BY <2>1, <2>3, <2>5, <2>6 DEF IsClip
  <2>8. PICK p \in Positioners : p = positioner[k]
    BY TypesOf
  <2>9. Anchored!Origin(p, "x", extent) \in Int /\ Anchored!Flipped(p, "x", extent) \in Int
    BY <2>3, OriginsAreInt
  <2> HIDE DEF clip, extent
  <2>10. ASSUME NEW flags
         PROVE Anchored!AsAdjusted(Anchored!ConstrainAxis(Anchored!Origin(p, "x", extent), extent, clip, Anchored!Flipped(p, "x", extent), flags),
                          Anchored!Origin(p, "x", extent), extent, clip, Anchored!Flipped(p, "x", extent), flags)
    BY <2>3, <2>7, <2>9, ConstrainedAsAdjusted
  <2> QED BY <2>8, <2>10 DEF Anchored!PlaceAxis, clip, extent
<1> QED BY <1>1, <1>2, <1>3, <1>4

\* What the theorem is from: the invariant, and that other parts leave it alone.
PopupSound == part = "popups" => PopupInv

\* Nothing happens.
LEMMA PopupRests ==
  ASSUME PopupInv, UNCHANGED <<rect, positioner, asked, relative, placed, acts, nested, posted>>
  PROVE PopupInv'
BY DEF PopupInv, PopupTyped, Anchored!TypeOK, Arriving, Following, Sized, Fitting, Falling, Visibly,
       Sliding, FitsAt, OnAScreen, Adjustable, Due, Anchored!Insets, Anchored!Content

\* At first and after every step of the composition.
LEMMA PopupSoundKept ==
  ASSUME Roomy
  PROVE  /\ InputInit => PopupSound
         /\ PopupSound /\ [InputNext]_<<part, dragging, anchoring, typing, shared>> => PopupSound'
<1>1. ASSUME InputInit PROVE PopupSound
  BY <1>1, PopupStarts DEF InputInit, PopupSound
<1>2. ASSUME PopupSound, [InputNext]_<<part, dragging, anchoring, typing, shared>> PROVE PopupSound'
  <2>1. CASE part' = "popups"
    <3>1. part = "popups" /\ PopupInv
      BY <1>2, <2>1 DEF InputNext, PopupSound
    <3>2. CASE InputNext
      BY <3>1, <3>2, PopupSteps DEF InputNext, PopupSound
    <3>3. CASE UNCHANGED <<part, dragging, anchoring, typing, shared>>
      BY <3>1, <3>3, PopupRests DEF anchoring, shared, PopupSound
    <3> QED BY <1>2, <3>2, <3>3
  <2>2. CASE part' # "popups"
    BY <2>2 DEF PopupSound
  <2> QED BY <2>1, <2>2
<1> QED BY <1>1, <1>2

\* Windows anchored to a window go with it wherever it goes, stay on a screen if their
\* positioner lets them, never become larger than asked for, and are placed as xdg_positioner
\* has it (event_loop.rs:1103).
THEOREM PopupsAreKept == ASSUME Roomy PROVE InputSpec => []PopupsFollow
<1>1. InputInit => PopupSound
  BY PopupSoundKept
<1>2. PopupSound /\ [InputNext]_<<part, dragging, anchoring, typing, shared>> => PopupSound'
  BY PopupSoundKept
<1>3. PopupSound => PopupsFollow
  BY PopupTells DEF PopupSound, PopupsFollow
<1> QED BY <1>1, <1>2, <1>3, PTL DEF InputSpec

\* Types of the windows, their positioners and the calls under way (Win32Popups).
THEOREM PopupTypeCorrectness ==
  ASSUME Roomy PROVE InputSpec => [](part = "popups" => Anchored!TypeOK)
<1>1. InputInit => PopupSound
  BY PopupSoundKept
<1>2. PopupSound /\ [InputNext]_<<part, dragging, anchoring, typing, shared>> => PopupSound'
  BY PopupSoundKept
<1>3. PopupSound => (part = "popups" => Anchored!TypeOK)
  BY DEF PopupSound, PopupInv, PopupTyped
<1> QED BY <1>1, <1>2, <1>3, PTL DEF InputSpec
====
