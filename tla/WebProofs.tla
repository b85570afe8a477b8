---- MODULE WebProofs ----
(*
What winit-web keeps, for every value of the constants of WebRunner,
WebAsync and WebCursor, which share no state.

RunnerIsFree: the borrow_mut of Shared::handle_event cannot fail,
although a call of the DOM made inside a callback may lead back into
send_events, and although a closure run between two callbacks may start
an iteration inside the iteration. RunnerFree is not inductive. What
makes it true is that send_events queues its events while a callback
runs: nothing is ever pushed on a running callback.

NothingIsLeft and ImplementsLifecycle: when closures call nothing back,
the stack is at every moment one iteration, of which the part that is
done with is missing. Shape says so frame by frame; the other parts of
Iterations say what each variable is by what is left on the stack: the
exit that is still to be seen, the queue that is still to be drained,
the timer that is still to be armed, the phase the application is in.

The safety of WebAsync for any number of threads, closures and
wake-ups: no access of a value that is gone, no task asleep on work, no
closure reordered, repeated or given up under a waiting sender.

None of the three is inductive.  That a task sleeps on nothing depends
on its waker: whoever adds work takes the waker afterwards, so a task
that sleeps must have one (Registered), and a poll that has registered
may miss only work whose author has still to wake it (Receiver, Proxy).
Handles ties closed, connected and value to who holds a clone, and
Numbered counts, for each thread, the closures ran and queued.

The last section is about the other tasks of the main thread, those of
the custom cursors (WebCursor): the handler of a canvas, the tasks that
notify it and the owners of the cursors agree.  There the missing part
of the invariant is who keeps a cursor alive: Owned says that a cursor
lives exactly as long as it has an owner or is a frame of an animation
that may still need it, and Loaded that none is given up by a worker
before it has loaded, so that its task finds its state.
*)
EXTENDS WebRunner, WebAsync, WebCursor, FiniteSetTheorems, SequenceTheorems, TLAPS

NoApp(s) == \A i \in DOMAIN s : s[i].op # "app"

\* Stacks without a callback, and stacks whose callback is the innermost frame.
Fine(s) == s \in Seq(Frames) /\ NoApp(s)
Good(s) == s \in Seq(Frames) /\ \A i \in DOMAIN s : s[i].op = "app" => i = 1

----
(* Stacks *)

LEMMA FrameTypes ==
  /\ \A e \in Callbacks : /\ Handle(e) \in Frames /\ Handle(e).op = "handle"
                          /\ App(e) \in Frames /\ App(e).op = "app"
  /\ \A o \in Ops : Op(o) \in Frames /\ Op(o).op = o /\ o # "app"
  /\ \A f \in Frames : f.op = "handle" => f.arg \in Callbacks
<1>1. \A e \in Callbacks : /\ Handle(e) \in Frames /\ Handle(e).op = "handle"
                           /\ App(e) \in Frames /\ App(e).op = "app"
  BY DEF Frames, Handle, App
<1>2. \A o \in Ops : Op(o) \in Frames /\ Op(o).op = o /\ o # "app"
  BY DEF Frames, Op, Ops
<1>3. ASSUME NEW f \in Frames, f.op = "handle"
      PROVE  f.arg \in Callbacks
  <2>1. CASE \E e \in Callbacks : f = Handle(e)
    BY <2>1 DEF Handle
  <2>2. CASE \E e \in Callbacks : f = App(e)
    BY <1>3, <2>2 DEF App
  <2>3. CASE \E o \in Ops : f = Op(o)
    BY <1>3, <2>3 DEF Op, Ops
  <2> QED BY <2>1, <2>2, <2>3 DEF Frames
<1> QED BY <1>1, <1>2, <1>3

\* Pushing a frame where no callback runs.
LEMMA PushFrame ==
  ASSUME NEW s, Fine(s), NEW f \in Frames
  PROVE  /\ Good(Push(f, s))
         /\ f.op # "app" => Fine(Push(f, s))
<1> DEFINE t == Push(f, s)
<1>1. s \in Seq(Frames) /\ Len(s) \in Nat /\ DOMAIN s = 1 .. Len(s)
  BY DEF Fine
<1>2. /\ t \in Seq(Frames)
      /\ DOMAIN t = 1 .. Len(s) + 1 /\ t[1] = f
      /\ \A i \in 2 .. Len(s) + 1 : t[i] = s[i - 1]
  BY <1>1 DEF Push
<1> HIDE DEF t
<1>3. ASSUME NEW i \in DOMAIN t, i # 1
      PROVE  t[i].op # "app"
  <2>1. i - 1 \in DOMAIN s /\ t[i] = s[i - 1]
    BY <1>1, <1>2, <1>3
  <2> QED BY <2>1 DEF Fine, NoApp
<1>4. Good(t)
  BY <1>2, <1>3 DEF Good
<1>5. f.op # "app" => Fine(t)
  BY <1>2, <1>3 DEF Fine, NoApp
<1> QED BY <1>4, <1>5 DEF t

\* What is under the innermost frame, and stacks it is no callback of.
LEMMA PopFrame ==
  ASSUME NEW s, Good(s), s # <<>>
  PROVE  /\ Fine(Tail(s))
         /\ Head(s).op # "app" => Fine(s)
         /\ Head(s) \in Frames
<1> DEFINE t == Tail(s)
<1>1. /\ s \in Seq(Frames) /\ Len(s) \in Nat /\ Len(s) > 0 /\ DOMAIN s = 1 .. Len(s)
      /\ Head(s) = s[1] /\ Head(s) \in Frames
      /\ t \in Seq(Frames) /\ DOMAIN t = 1 .. Len(s) - 1
      /\ \A i \in 1 .. Len(s) - 1 : t[i] = s[i + 1]
  BY DEF Good
<1> HIDE DEF t
<1>2. ASSUME NEW i \in DOMAIN t
      PROVE  t[i].op # "app"
  <2>1. i + 1 \in DOMAIN s /\ t[i] = s[i + 1] /\ i + 1 # 1
    BY <1>1
  <2> QED BY <2>1 DEF Good
<1>3. Fine(t)
  BY <1>1, <1>2 DEF Fine, NoApp
<1>4. Head(s).op # "app" => Fine(s)
  BY <1>1 DEF Good, Fine, NoApp
<1> QED BY <1>1, <1>3, <1>4 DEF t

LEMMA FineIsGood == ASSUME NEW s, Fine(s) PROVE Good(s)
BY DEF Fine, Good, NoApp

LEMMA EmptyIsFine == Fine(<<>>)
BY DEF Fine, NoApp

LEMMA ConcatFine ==
  ASSUME NEW s, NEW t, Fine(s), Fine(t)
  PROVE  Fine(s \o t)
<1> DEFINE u == s \o t
<1>1. /\ s \in Seq(Frames) /\ t \in Seq(Frames) /\ Len(s) \in Nat /\ Len(t) \in Nat
      /\ DOMAIN s = 1 .. Len(s) /\ DOMAIN t = 1 .. Len(t)
  BY DEF Fine
<1>2. /\ u \in Seq(Frames) /\ DOMAIN u = 1 .. Len(s) + Len(t)
      /\ \A i \in 1 .. Len(s) + Len(t) :
           u[i] = IF i <= Len(s) THEN s[i] ELSE t[i - Len(s)]
  BY <1>1, ConcatProperties
<1> HIDE DEF u
<1>3. ASSUME NEW i \in DOMAIN u
      PROVE  u[i].op # "app"
  <2>1. CASE i <= Len(s)
    BY <1>1, <1>2, <2>1 DEF Fine, NoApp
  <2>2. CASE ~(i <= Len(s))
    <3>1. i - Len(s) \in DOMAIN t /\ u[i] = t[i - Len(s)]
      BY <1>1, <1>2, <2>2
    <3> QED BY <3>1 DEF Fine, NoApp
  <2> QED BY <2>1, <2>2
<1> QED BY <1>2, <1>3 DEF u, Fine, NoApp

----
(* What the operators of the model do to the stack *)

\* An iteration starts with calls of handle_event, none of them begun.
LEMMA RunUntilClearedFine ==
  ASSUME NEW rest, Fine(rest), NEW evs \in Seq(Callbacks)
  PROVE  Fine(RunUntilCleared(evs, rest))
<1> DEFINE entries == [i \in DOMAIN evs |-> Handle(evs[i])]
<1>1. Fine(entries)
  <2>1. DOMAIN evs = 1 .. Len(evs) /\ Len(evs) \in Nat
        /\ \A i \in DOMAIN evs : evs[i] \in Callbacks
    OBVIOUS
  <2>2. \A i \in DOMAIN evs : Handle(evs[i]) \in Frames /\ Handle(evs[i]).op # "app"
    BY <2>1, FrameTypes
  <2>3. entries \in [1 .. Len(evs) -> Frames]
    BY <2>1, <2>2
  <2>4. entries \in Seq(Frames)
    BY <2>1, <2>3, SeqDef
  <2> QED BY <2>2, <2>4 DEF Fine, NoApp
<1>2. /\ Op("close") \in Frames /\ Op("close").op # "app"
      /\ Op("apply") \in Frames /\ Op("apply").op # "app"
      /\ Op("redraws") \in Frames /\ Op("redraws").op # "app"
      /\ Op("destroy") \in Frames /\ Op("destroy").op # "app"
      /\ Handle("about_to_wait") \in Frames /\ Handle("about_to_wait").op # "app"
  BY FrameTypes DEF Ops, Callbacks
<1>3. Fine(Push(Op("apply"), Push(Op("close"), rest)))
  BY <1>2, PushFrame
<1>4. Fine(Push(Op("redraws"), Push(Handle("about_to_wait"),
                Push(Op("apply"), Push(Op("close"), rest)))))
  BY <1>2, <1>3, PushFrame
<1>5. Fine(IterationEnd(rest))
  BY <1>2, <1>4, PushFrame DEF IterationEnd
<1> HIDE DEF entries
<1>6. Fine(entries \o IterationEnd(rest))
  BY <1>1, <1>5, ConcatFine
<1> QED BY <1>6 DEF RunUntilCleared, entries

\* send_events leaves a running callback alone.
LEMMA SendEventsGood ==
  ASSUME Good(stack), events \in Seq(Events),
         NEW rest, Good(rest), NoApp(stack) => Fine(rest),
         NEW evs \in Seq(Events), SendEvents(evs, rest)
  PROVE  Good(stack') /\ events' \in Seq(Events)
<1>1. CASE stack' = rest /\ (events' = events \/ events' = events \o evs)
  <2>1. events \o evs \in Seq(Events)
    BY ConcatProperties
  <2> QED BY <1>1, <2>1
<1>2. CASE /\ stack' = RunUntilCleared(<<StartCause>> \o evs, rest)
           /\ UNCHANGED events /\ ~RunnerBorrowed
  <2>1. NoApp(stack)
    BY <1>2 DEF RunnerBorrowed, OnStack, NoApp
  <2>2. StartCause \in Callbacks /\ Events \subseteq Callbacks
    BY DEF StartCause, Callbacks, Events
  <2>3. <<StartCause>> \in Seq(Callbacks) /\ evs \in Seq(Callbacks)
    BY <2>2
  <2>4. <<StartCause>> \o evs \in Seq(Callbacks)
    BY <2>3, ConcatProperties
  <2>5. Fine(RunUntilCleared(<<StartCause>> \o evs, rest))
    BY <2>1, <2>4, RunUntilClearedFine
  <2> QED BY <1>2, <2>5, FineIsGood
<1> QED BY <1>1, <1>2 DEF SendEvents

LEMMA RunClosureGood ==
  ASSUME Good(stack), events \in Seq(Events),
         NEW rest, Good(rest), NoApp(stack) => Fine(rest),
         NEW c, RunClosure(c, rest)
  PROVE  Good(stack') /\ events' \in Seq(Events)
<1>1. <<"focused">> \in Seq(Events)
  BY DEF Events
<1> QED BY <1>1, SendEventsGood DEF RunClosure

LEMMA TrapGood ==
  ASSUME Good(stack), stack # <<>>, Head(stack).op # "app"
  PROVE  Good(Trap(stack))
BY PopFrame, PushFrame, FrameTypes DEF Trap, Ops
LEMMA StartUpFine == Fine(StartUp)
<1>1. Fine(<<Op("listen")>>)
  <2>1. Op("listen") \in Frames /\ Op("listen").op # "app"
    BY FrameTypes DEF Ops
  <2>2. Fine(Push(Op("listen"), <<>>))
    BY <2>1, EmptyIsFine, PushFrame
  <2>3. Push(Op("listen"), <<>>) = <<Op("listen")>>
    BY <2>1 DEF Push
  <2> QED BY <2>2, <2>3
<1>2. <<"new_events_init", "can_create_surfaces">> \in Seq(Callbacks)
  BY DEF Callbacks
<1> QED BY <1>1, <1>2, RunUntilClearedFine DEF StartUp

----
(* The stack and the queue of events *)

\* Every step keeps the stack good: one case per action.
LEMMA NextGood ==
  ASSUME Good(stack), events \in Seq(Events), [Next]_vars
  PROVE  Good(stack') /\ events' \in Seq(Events)
<1> USE DEF loop_vars, window_vars, paint_vars, proxy_vars
<1> DEFINE Done == Good(stack') /\ events' \in Seq(Events)
<1>1. stack # <<>> => Fine(Tail(stack)) /\ Good(Tail(stack))
  BY PopFrame, FineIsGood
<1>2. ASSUME NEW o, Top(o), o # "app"
      PROVE  Fine(stack) /\ Good(Trap(stack)) /\ Head(stack) \in Frames
  BY <1>2, PopFrame, TrapGood DEF Top
<1>3. NoApp(stack) => Fine(stack)
  BY DEF Good, Fine
<1>4. Idle => Fine(stack)
  BY EmptyIsFine DEF Idle
<1>5. /\ \A o \in Ops : Op(o) \in Frames /\ Op(o).op # "app"
      /\ \A e \in Callbacks : Handle(e) \in Frames /\ Handle(e).op # "app"
      /\ \A e \in Callbacks : App(e) \in Frames
  BY FrameTypes
<1>6. /\ <<"window_event">> \in Seq(Events) /\ <<"user_wake_up">> \in Seq(Events)
      /\ <<"focused">> \in Seq(Events) /\ <<>> \in Seq(Events)
  BY DEF Events
<1>7. ASSUME NEW evs \in Seq(Events), SendEvents(evs, stack)
      PROVE  Done
  BY <1>3, <1>7, SendEventsGood
<1> HIDE DEF Done
<1>10. CASE Start \/ StartDelayed
  BY <1>10, StartUpFine, FineIsGood DEF Start, StartDelayed, Done
<1>11. CASE HandleEvent
  <2> DEFINE e == Head(stack).arg
  <2>1. Fine(stack) /\ Good(Trap(stack)) /\ Head(stack) \in Frames /\ stack # <<>>
    BY <1>2, <1>11 DEF HandleEvent, Top
  <2>2. e \in Callbacks
    BY <1>11, <2>1, FrameTypes DEF HandleEvent, Top
  <2>3. Good(Push(App(e), Push(Op("after"), Tail(stack))))
    <3>1. Fine(Push(Op("after"), Tail(stack)))
      BY <1>1, <1>5, <2>1, PushFrame DEF Ops
    <3> QED BY <1>5, <2>2, <3>1, PushFrame
  <2> HIDE DEF e
  <2>4. stack' \in {Trap(stack), Push(App(e), Push(Op("after"), Tail(stack))), Tail(stack)}
    BY <1>11 DEF HandleEvent, e
  <2>5. events' = events
    BY <1>11 DEF HandleEvent
  <2> QED BY <1>1, <2>1, <2>3, <2>4, <2>5 DEF Done
<1>12. CASE AfterCallback
  <2>1. stack # <<>> /\ Fine(Tail(stack))
    BY <1>1, <1>12 DEF AfterCallback, Top
  <2>2. Fine(Push(Op("take"), Tail(stack)))
    BY <1>5, <2>1, PushFrame DEF Ops
  <2>3. Good(Push(Op("prefetch"), Push(Op("take"), Tail(stack))))
    BY <1>5, <2>2, PushFrame DEF Ops
  <2> QED BY <1>12, <2>1, <2>2, <2>3, FineIsGood DEF AfterCallback, Done
<1>13. CASE Prefetch
  <2>1. Fine(stack) /\ stack # <<>>
    BY <1>2, <1>13 DEF Prefetch, Top
  <2>2. CASE closures = <<>>
    BY <1>1, <1>13, <2>1, <2>2 DEF Prefetch, Done
  <2>3. CASE RunClosure(Head(closures), stack)
    BY <2>1, <2>3, RunClosureGood DEF Done
  <2> QED BY <1>13, <2>2, <2>3 DEF Prefetch
<1>14. CASE Take
  <2> DEFINE evs == IF awoken THEN Append(events, "user_wake_up") ELSE events
  <2>1. evs \in Seq(Events)
    BY DEF Events
  <2>2. stack # <<>> /\ Fine(Tail(stack))
    BY <1>1, <1>14 DEF Take, Top
  <2>3. \/ stack' = Tail(stack) /\ events' = events
        \/ /\ evs # <<>> /\ events' = Tail(evs)
           /\ stack' = Push(Handle(Head(evs)), Tail(stack))
    BY <1>14 DEF Take
  <2> HIDE DEF evs
  <2>4. evs # <<>> => Head(evs) \in Callbacks /\ Tail(evs) \in Seq(Events)
    BY <2>1 DEF Callbacks
  <2>5. evs # <<>> => Good(Push(Handle(Head(evs)), Tail(stack)))
    BY <1>5, <2>2, <2>4, PushFrame
  <2> QED BY <1>1, <2>2, <2>3, <2>4, <2>5 DEF Done
<1>15. CASE ProcessDestroyPending
  <2>1. Fine(stack) /\ Good(Trap(stack)) /\ stack # <<>>
    BY <1>2, <1>15 DEF ProcessDestroyPending, Top
  <2>2. Good(Push(Handle("destroyed"), stack))
    BY <1>5, <2>1, PushFrame DEF Callbacks
  <2>3. stack' \in {Trap(stack), Push(Handle("destroyed"), stack), Tail(stack)}
    BY <1>15 DEF ProcessDestroyPending
  <2>4. events' = events
    BY <1>15 DEF ProcessDestroyPending
  <2> QED BY <1>1, <2>1, <2>2, <2>3, <2>4 DEF Done
<1>16. CASE Redraws
  <2>1. stack # <<>> /\ Fine(Tail(stack))
    BY <1>1, <1>16 DEF Redraws, Top
  <2>2. Good(Push(Handle("redraw_requested"), Tail(stack)))
    BY <1>5, <2>1, PushFrame DEF Callbacks
  <2> QED BY <1>16, <2>1, <2>2, FineIsGood DEF Redraws, Done
<1>17. CASE ApplyControlFlow
  BY <1>1, <1>17 DEF ApplyControlFlow, Top, Done
<1>18. CASE LoopDestroyed
  <2>1. Good(Trap(stack)) /\ stack # <<>>
    BY <1>2, <1>18 DEF LoopDestroyed, Top
  <2>2. stack' \in {Trap(stack), Tail(stack)}
    BY <1>18 DEF LoopDestroyed
  <2>3. events' = events
    BY <1>18 DEF LoopDestroyed
  <2> QED BY <1>1, <2>1, <2>2, <2>3 DEF Done
<1>19. CASE SetListener \/ VisibilityHandled \/ AppReturn
  BY <1>1, <1>19 DEF SetListener, VisibilityHandled, AppReturn, Top, Done
<1>20. CASE AppExit \/ AppSetControlFlow \/ AppDropWindow \/ AppRequestRedraw
  BY <1>20 DEF AppExit, AppSetControlFlow, AppDropWindow, AppRequestRedraw, Done
<1>31. CASE AppCreateWindow
  <2>1. Fine(Push(Op("trap"), Tail(stack)))
    BY <1>1, <1>5, <1>31, PushFrame DEF AppCreateWindow, Acting, Top, Ops
  <2> QED BY <1>31, <2>1, FineIsGood DEF AppCreateWindow, Trap, Done
<1>32. CASE VisibilityChange
  <2>1. Fine(Push(Op("visible"), <<>>)) /\ Push(Op("visible"), <<>>) = <<Op("visible")>>
    <3>1. Op("visible") \in Frames /\ Op("visible").op # "app"
      BY <1>5 DEF Ops
    <3>2. Push(Op("visible"), <<>>) = <<Op("visible")>>
      BY <3>1 DEF Push
    <3> QED BY <3>1, <3>2, EmptyIsFine, PushFrame
  <2> QED BY <1>6, <1>32, <2>1, FineIsGood, SendEventsGood DEF VisibilityChange, Done
<1>21. CASE AppWakeUp \/ PageWakesProxy
  <2>1. \/ stack' = stack /\ events' = events
        \/ SendEvents(<<"user_wake_up">>, stack)
    BY <1>21 DEF AppWakeUp, PageWakesProxy, LocalWakeUp
  <2> QED BY <1>6, <1>7, <2>1 DEF Done
<1>22. CASE AppFocusWindow
  BY <1>3, <1>22, RunClosureGood DEF AppFocusWindow, Done
<1>23. CASE DomEvent \/ Blur \/ AnimationFrame \/ Microtask \/ ProxyTask
  <2>1. \/ SendEvents(<<"window_event">>, stack) \/ SendEvents(<<"focused">>, stack)
        \/ SendEvents(<<>>, stack) \/ SendEvents(<<"user_wake_up">>, stack)
    BY <1>23 DEF DomEvent, Blur, AnimationFrame, Microtask, ProxyTask
  <2> QED BY <1>6, <1>7, <2>1 DEF Done
<1>24. CASE ScheduleFires
  <2>1. <<"new_events">> \in Seq(Callbacks)
    BY DEF Callbacks
  <2>2. Fine(RunUntilCleared(<<"new_events">>, stack))
    BY <1>4, <1>24, <2>1, RunUntilClearedFine DEF ScheduleFires
  <2> QED BY <1>24, <2>2, FineIsGood DEF ScheduleFires, Done
<1>25. CASE DispatcherTask
  BY <1>3, <1>25, RunClosureGood DEF DispatcherTask, Done
<1>26. CASE DispatcherTaskEnds \/ Unload \/ WorkerWakesProxy \/ WorkerDispatches
  BY <1>26 DEF DispatcherTaskEnds, Unload, WorkerWakesProxy, WorkerDispatches, Done
<1>27. CASE UNCHANGED vars
  BY <1>27 DEF vars, Done
<1> HIDE DEF loop_vars, window_vars, paint_vars, proxy_vars
<1>28. CASE Loop
  BY <1>11, <1>12, <1>13, <1>14, <1>15, <1>16, <1>17, <1>18, <1>19, <1>28 DEF Loop
<1>29. CASE Application
  BY <1>19, <1>20, <1>21, <1>22, <1>29, <1>31 DEF Application
<1>30. CASE Tasks \/ Others
  BY <1>10, <1>21, <1>23, <1>24, <1>25, <1>26, <1>30, <1>32 DEF Tasks, Others
<1> QED BY <1>27, <1>28, <1>29, <1>30 DEF Next

\* A callback that is the innermost frame is not under a call of handle_event.
LEMMA GoodIsFree == Good(stack) => RunnerFree
BY PopFrame DEF RunnerFree, RunnerBorrowed, OnStack, Top, Fine, NoApp

\* Whatever the application, the worker and the page do, the RefCell of the
\* runner is free when handle_event borrows it mutably.
THEOREM RunnerIsFree == Spec => []RunnerFree
<1>1. Init => Good(stack) /\ events \in Seq(Events)
  BY EmptyIsFine, FineIsGood DEF Init
<1>2. (Good(stack) /\ events \in Seq(Events)) /\ [Next]_vars
      => (Good(stack) /\ events \in Seq(Events))'
  BY NextGood
<1>3. Good(stack) /\ events \in Seq(Events) => RunnerFree
  BY GoodIsFree
<1> QED BY <1>1, <1>2, <1>3, PTL DEF Spec
----
(* Type correctness *)

LEMMA InitTypeOK == Init => TypeOK
<1> SUFFICES ASSUME Init PROVE FlagsOK /\ DataOK
  BY DEF TypeOK
<1>1. FlagsOK
  BY DEF Init, FlagsOK
<1>2. events \in Seq(Events) /\ closures \in Seq({"redraw", "focus"})
      /\ stack \in Seq(Frames)
  BY DEF Init
<1>3. DataOK
  BY <1>2 DEF Init, DataOK, Runners, States
<1> QED BY <1>1, <1>3

LEMMA NextFlagsOK == FlagsOK /\ [Next]_vars => FlagsOK'
<1> SUFFICES ASSUME FlagsOK, [Next]_vars PROVE FlagsOK'
  OBVIOUS
<1> USE DEF FlagsOK, loop_vars, window_vars, paint_vars, proxy_vars
<1>1. CASE Start
  BY <1>1 DEF Start
<1>2. CASE StartDelayed
  BY <1>2 DEF StartDelayed
<1>3. CASE HandleEvent
  <2>1. IsClosed \in BOOLEAN
    BY DEF IsClosed
  <2> QED BY <1>3, <2>1, ZenonT(40) DEF HandleEvent
<1>4. CASE AfterCallback
  BY <1>4 DEF AfterCallback
<1>5. CASE Prefetch
  BY <1>5, ZenonT(40) DEF Prefetch, RunClosure
<1>6. CASE Take
  BY <1>6, ZenonT(40) DEF Take
<1>7. CASE ProcessDestroyPending
  BY <1>7, ZenonT(40) DEF ProcessDestroyPending
<1>8. CASE Redraws
  BY <1>8, ZenonT(40) DEF Redraws
<1>9. CASE ApplyControlFlow
  BY <1>9 DEF ApplyControlFlow
<1>10. CASE LoopDestroyed
  BY <1>10, ZenonT(40) DEF LoopDestroyed
<1>11. CASE SetListener
  BY <1>11 DEF SetListener
<1>33. CASE VisibilityChange \/ VisibilityHandled
  BY <1>33 DEF VisibilityChange, VisibilityHandled
<1>12. CASE AppReturn
  BY <1>12 DEF AppReturn
<1>13. CASE AppExit
  BY <1>13 DEF AppExit
<1>14. CASE AppSetControlFlow
  BY <1>14 DEF AppSetControlFlow
<1>15. CASE AppWakeUp
  BY <1>15 DEF AppWakeUp, LocalWakeUp
<1>16. CASE PageWakesProxy
  BY <1>16 DEF PageWakesProxy, LocalWakeUp
<1>17. CASE AppCreateWindow
  BY <1>17 DEF AppCreateWindow
<1>18. CASE AppDropWindow
  BY <1>18 DEF AppDropWindow
<1>19. CASE AppRequestRedraw
  BY <1>19 DEF AppRequestRedraw
<1>20. CASE AppFocusWindow
  BY <1>20 DEF AppFocusWindow, RunClosure
<1>21. CASE DomEvent
  BY <1>21 DEF DomEvent
<1>22. CASE Blur
  BY <1>22 DEF Blur
<1>23. CASE ScheduleFires
  BY <1>23 DEF ScheduleFires
<1>24. CASE AnimationFrame
  BY <1>24 DEF AnimationFrame
<1>25. CASE Microtask
  BY <1>25 DEF Microtask
<1>26. CASE ProxyTask
  BY <1>26, ZenonT(40) DEF ProxyTask
<1>27. CASE DispatcherTask
  BY <1>27, ZenonT(40) DEF DispatcherTask, RunClosure
<1>28. CASE DispatcherTaskEnds
  BY <1>28 DEF DispatcherTaskEnds
<1>29. CASE Unload
  BY <1>29 DEF Unload
<1>30. CASE WorkerWakesProxy
  BY <1>30 DEF WorkerWakesProxy
<1>31. CASE WorkerDispatches
  <2>1. PICK c \in Closures : owed' = (owed \/ c = "redraw")
    BY <1>31 DEF WorkerDispatches
  <2> QED BY <1>31, <2>1 DEF WorkerDispatches
<1>32. CASE UNCHANGED vars
  BY <1>32 DEF vars
<1> QED
  BY <1>1, <1>2, <1>3, <1>4, <1>5, <1>6, <1>7, <1>8, <1>9, <1>10,
     <1>11, <1>12, <1>13, <1>14, <1>15, <1>16, <1>17, <1>18, <1>19, <1>20,
     <1>21, <1>22, <1>23, <1>24, <1>25, <1>26, <1>27, <1>28, <1>29, <1>30,
     <1>31, <1>32, <1>33
     DEF Next, Loop, Application, Tasks, Others

\* What is neither the stack nor the queue of events.
RestOK ==
  /\ runner \in Runners /\ state \in States
  /\ control_flow \in ControlFlows
  /\ schedule \in {"none", "Poll", "WaitUntil"}
  /\ window \in {"none", "held", "dropped"}
  /\ closures \in Seq({"redraw", "focus"})
  /\ microtasks \in Nat /\ inputs \in Nat
  /\ phase \in {"Off", "Init", "Awake", "Asleep"}

LEMMA NextRestOK == RestOK /\ [Next]_vars => RestOK'
<1> SUFFICES ASSUME RestOK, [Next]_vars PROVE RestOK'
  OBVIOUS
<1> USE DEF RestOK, loop_vars, window_vars, paint_vars, proxy_vars
<1>1. "Running" \in Runners /\ "Initializing" \in Runners /\ "Destroyed" \in Runners
  BY DEF Runners
<1>2. "Exit" \in States /\ ControlFlows \subseteq States
      /\ \A s \in States : Scheduled(s) \in {"none", "Poll", "WaitUntil"}
  BY WebAssumption DEF States, Scheduled
<1>3. Budget => inputs' \in Nat
  BY DEF Budget
<1>4. closures # <<>> => Tail(closures) \in Seq({"redraw", "focus"})
  OBVIOUS
<1>5. CASE Start \/ StartDelayed
  BY <1>1, <1>5 DEF Start, StartDelayed
<1>6. CASE HandleEvent
  <2>1. \A e : PhaseAfter(e) \in {"Off", "Init", "Awake", "Asleep"}
    BY DEF PhaseAfter
  <2> QED BY <1>6, <2>1 DEF HandleEvent
<1>7. CASE AfterCallback \/ Take \/ ProcessDestroyPending \/ Redraws
           \/ SetListener \/ VisibilityHandled \/ AppReturn
  BY <1>7 DEF AfterCallback, Take, ProcessDestroyPending, Redraws, SetListener,
     VisibilityHandled, AppReturn
<1>8. CASE Prefetch
  BY <1>4, <1>8 DEF Prefetch
<1>9. CASE ApplyControlFlow
  BY <1>2, <1>9 DEF ApplyControlFlow
<1>10. CASE LoopDestroyed
  BY <1>1, <1>10 DEF LoopDestroyed, DropWindow
<1>11. CASE \/ AppExit \/ AppSetControlFlow \/ AppCreateWindow \/ AppDropWindow
            \/ AppRequestRedraw \/ AppFocusWindow
  BY <1>11 DEF AppExit, AppSetControlFlow, AppCreateWindow, AppDropWindow,
     AppRequestRedraw, AppFocusWindow
<1>12. CASE AppWakeUp \/ PageWakesProxy
  BY <1>3, <1>12 DEF AppWakeUp, PageWakesProxy, LocalWakeUp
<1>13. CASE DomEvent \/ VisibilityChange \/ Blur
  BY <1>3, <1>13 DEF DomEvent, VisibilityChange, Blur
<1>14. CASE ScheduleFires \/ AnimationFrame \/ Microtask \/ ProxyTask
  BY <1>14 DEF ScheduleFires, AnimationFrame, Microtask, ProxyTask
<1>15. CASE DispatcherTask
  BY <1>4, <1>15 DEF DispatcherTask
<1>16. CASE DispatcherTaskEnds
  BY <1>16 DEF DispatcherTaskEnds
<1>17. CASE Unload
  BY <1>1, <1>2, <1>17 DEF Unload, DropWindow
<1>18. CASE WorkerWakesProxy
  BY <1>3, <1>18 DEF WorkerWakesProxy
<1>19. CASE WorkerDispatches
  <2>1. PICK c \in Closures : closures' = Append(closures, c)
    BY <1>19 DEF WorkerDispatches
  <2>2. c \in {"redraw", "focus"}
    BY WebAssumption
  <2>3. closures' \in Seq({"redraw", "focus"})
    BY <2>1, <2>2
  <2> QED BY <1>3, <1>19, <2>3 DEF WorkerDispatches
<1>20. CASE UNCHANGED vars
  BY <1>20 DEF vars
<1> QED
  BY <1>5, <1>6, <1>7, <1>8, <1>9, <1>10, <1>11, <1>12, <1>13, <1>14, <1>15,
     <1>16, <1>17, <1>18, <1>19, <1>20
     DEF Next, Loop, Application, Tasks, Others

\* Every variable keeps its type, for any bound and any acts of the application.
THEOREM TypeCorrectness == Spec => []TypeOK
<1> DEFINE IInv == FlagsOK /\ RestOK /\ Good(stack) /\ events \in Seq(Events)
<1>1. Init => IInv
  <2>1. Init => TypeOK
    BY InitTypeOK
  <2>2. Init => Good(stack)
    BY EmptyIsFine, FineIsGood DEF Init
  <2> QED BY <2>1, <2>2 DEF TypeOK, DataOK, RestOK
<1>2. IInv /\ [Next]_vars => IInv'
  BY NextFlagsOK, NextRestOK, NextGood
<1>3. IInv => TypeOK
  BY DEF TypeOK, DataOK, RestOK, Good
<1> HIDE DEF IInv
<1> QED BY <1>1, <1>2, <1>3, PTL DEF Spec

----
(* Iterations without another inside *)

\* The stack without its innermost frame, as far down as i.
Under(s, i) == SubSeq(s, i + 1, Len(s))
Holds(s, o) == \E i \in DOMAIN s : s[i].op = o
Has(s, f) == \E i \in DOMAIN s : s[i] = f

Sleeping == Handle("about_to_wait")
Surfaces == Handle("can_create_surfaces")
Waking == {Handle("new_events_init"), Handle("new_events")}
Opening == Waking \union {Surfaces}

\* How much of the iteration is below a frame.
Level(f) == CASE f.op \in {"listen", "visible"} -> 0
              [] f.op = "close" -> 1
              [] f.op = "apply" -> 2
              [] f = Sleeping -> 3
              [] f.op = "redraws" -> 4
              [] f.op = "destroy" -> 5
              [] OTHER -> 6

\* No frame of which nothing else may be pushed on.
Clear(s) == \A j \in DOMAIN s : s[j].op \notin {"app", "prefetch"} /\ s[j] \notin Waking

\* What a frame leaves to be done after it.
Fits(f, s) ==
  /\ Level(f) < 6 => \A j \in DOMAIN s : Level(s[j]) < Level(f)
  /\ Level(f) > 1 => Holds(s, "close")
  /\ Level(f) > 2 => Holds(s, "apply")
  /\ Level(f) \in {4, 5} \/ f \in Opening => Has(s, Sleeping)
  /\ f.op = "app" => s # <<>> /\ Head(s).op = "after"
  /\ f.op = "prefetch" => s # <<>> /\ Head(s).op = "take"
  /\ f.op # "trap"
  /\ Clear(s)
  /\ ~Early /\ Has(s, Surfaces) =>
       f.op \in {"app", "after", "prefetch", "take"} \/ f = Handle("new_events_init")
  /\ f = Handle("new_events_init") => Has(s, Surfaces)
  /\ f \in {Handle("new_events"), Surfaces} => ~Has(s, Surfaces)

Shape(s) == s \in Seq(Frames) /\ \A i \in DOMAIN s : Fits(s[i], Under(s, i))

\* An exit is seen by the end of the iteration.
Exits ==
  exit /\ runner = "Running" =>
    Holds(stack, "apply") \/ (state = "Exit" /\ Holds(stack, "close"))

\* An event that waits is taken by a frame of the stack, or the loop ends.
Drains ==
  events # <<>> /\ runner = "Running" =>
    exit \/ \E i \in DOMAIN stack :
              stack[i].op \in {"handle", "app", "after", "prefetch", "take"}

Armed ==
  runner = "Running" /\ ~Holds(stack, "apply") =>
    schedule = Scheduled(state) /\ state # "Init"

Unstarted ==
  /\ runner # "Running" => /\ phase = "Off" /\ schedule = "none"
                           /\ \A i \in DOMAIN stack : stack[i].op \in {"listen", "visible"}
  /\ runner \in {"Pending", "Initializing"} => Idle

\* Before can_create_surfaces nothing is there to send events.
Quiet ==
  ~Early /\ phase \in {"Off", "Init"} /\ runner # "Destroyed" =>
    /\ events = <<>> /\ ~awoken /\ microtasks = 0
    /\ window = "none" /\ ~inner /\ ~listening /\ ~focused

\* What the application has been told, by what is left of the iteration.
Told ==
  runner = "Running" =>
    phase = IF Has(stack, Handle("new_events_init")) THEN "Off"
            ELSE IF Has(stack, Surfaces) THEN "Init"
            ELSE IF Has(stack, Handle("new_events")) THEN "Asleep"
            ELSE IF Has(stack, Sleeping) THEN "Awake" ELSE "Asleep"

Sent == closures \in Seq(Closures)

\* What is kept while all_canvases is borrowed for visibilitychange.
Watched ==
  /\ listening => runner \notin {"Pending", "Initializing"}
  /\ destroy_pending => ~all_canvases /\ window # "none"
  /\ state = "Exit" => exit
  /\ Holds(stack, "visible") /\ runner = "Running" => all_canvases /\ ~exit

Iterations ==
  /\ Shape(stack) /\ Exits /\ Drains /\ Armed /\ Unstarted /\ Quiet /\ Told /\ Sent

----
(* Frames and stacks *)

\* What the frames are, and how much of the iteration is below each.
LEMMA FrameForms ==
  /\ \A e \in Callbacks :
       /\ Handle(e) \in Frames /\ Handle(e).op = "handle" /\ Handle(e).arg = e
       /\ Level(Handle(e)) = IF e = "about_to_wait" THEN 3 ELSE 6
       /\ App(e) \in Frames /\ App(e).op = "app" /\ App(e).arg = e
       /\ Level(App(e)) = 6 /\ App(e) \notin Opening /\ App(e) # Sleeping
  /\ \A o \in Ops : Op(o) \in Frames /\ Op(o).op = o /\ Op(o) \notin Opening /\ Op(o) # Sleeping
  /\ Level(Op("listen")) = 0 /\ Level(Op("visible")) = 0 /\ Level(Op("close")) = 1 /\ Level(Op("apply")) = 2
  /\ Level(Op("redraws")) = 4 /\ Level(Op("destroy")) = 5
  /\ Level(Op("after")) = 6 /\ Level(Op("take")) = 6 /\ Level(Op("prefetch")) = 6
  /\ \A f \in Frames :
       /\ f.op = "handle" => f.arg \in Callbacks /\ f = Handle(f.arg)
       /\ f.op = "app" => f.arg \in Callbacks /\ f = App(f.arg)
       /\ f.op \in Ops => f = Op(f.op)
       /\ f.op \in Ops \union {"handle", "app"}
       /\ Level(f) \in 0 .. 6
<1>1. ASSUME NEW e \in Callbacks
      PROVE  /\ Handle(e) \in Frames /\ Handle(e).op = "handle" /\ Handle(e).arg = e
             /\ App(e) \in Frames /\ App(e).op = "app" /\ App(e).arg = e
             /\ App(e) \notin Opening /\ App(e) # Sleeping
  BY DEF Frames, Handle, App, Opening, Waking, Surfaces, Sleeping
<1>2. ASSUME NEW o \in Ops
      PROVE  Op(o) \in Frames /\ Op(o).op = o /\ Op(o) \notin Opening /\ Op(o) # Sleeping
  BY DEF Frames, Op, Ops, Handle, Opening, Waking, Surfaces, Sleeping
<1>3. Level(Op("listen")) = 0 /\ Level(Op("visible")) = 0 /\ Level(Op("close")) = 1 /\ Level(Op("apply")) = 2
      /\ Level(Op("redraws")) = 4 /\ Level(Op("destroy")) = 5
      /\ Level(Op("after")) = 6 /\ Level(Op("take")) = 6 /\ Level(Op("prefetch")) = 6
  BY DEF Level, Op, Sleeping, Handle
<1>4. ASSUME NEW e \in Callbacks
      PROVE  Level(Handle(e)) = (IF e = "about_to_wait" THEN 3 ELSE 6) /\ Level(App(e)) = 6
  BY DEF Level, Sleeping, Handle, App
<1>5. ASSUME NEW f \in Frames
      PROVE  /\ f.op = "handle" => f.arg \in Callbacks /\ f = Handle(f.arg)
             /\ f.op = "app" => f.arg \in Callbacks /\ f = App(f.arg)
             /\ f.op \in Ops => f = Op(f.op)
             /\ f.op \in Ops \union {"handle", "app"}
             /\ Level(f) \in 0 .. 6
  <2>1. CASE \E e \in Callbacks : f = Handle(e)
    BY <1>4, <2>1 DEF Handle, Ops
  <2>2. CASE \E e \in Callbacks : f = App(e)
    BY <1>4, <2>2 DEF App, Ops
  <2>3. CASE \E o \in Ops : f = Op(o)
    BY <2>3 DEF Op, Ops, Level
  <2> QED BY <2>1, <2>2, <2>3 DEF Frames
<1> QED BY <1>1, <1>2, <1>3, <1>4, <1>5

\* A frame and what is under it.
LEMMA Pushed ==
  ASSUME NEW s \in Seq(Frames), NEW f \in Frames
  PROVE  /\ Push(f, s) \in Seq(Frames) /\ Push(f, s) # <<>>
         /\ Head(Push(f, s)) = f /\ Tail(Push(f, s)) = s
         /\ Len(Push(f, s)) = Len(s) + 1 /\ Len(s) \in Nat
         /\ DOMAIN Push(f, s) = 1 .. Len(s) + 1 /\ DOMAIN s = 1 .. Len(s)
         /\ Push(f, s)[1] = f
         /\ \A i \in 1 .. Len(s) : Push(f, s)[i + 1] = s[i]
BY DEF Push

\* The frames of a stack that one was pushed on.
LEMMA PushHolds ==
  ASSUME NEW s \in Seq(Frames), NEW f \in Frames
  PROVE  /\ \A o : Holds(Push(f, s), o) <=> f.op = o \/ Holds(s, o)
         /\ \A g : Has(Push(f, s), g) <=> f = g \/ Has(s, g)
<1> DEFINE t == Push(f, s)
<1>1. /\ Len(s) \in Nat /\ DOMAIN t = 1 .. Len(s) + 1 /\ DOMAIN s = 1 .. Len(s) /\ t[1] = f
      /\ \A i \in 1 .. Len(s) : t[i + 1] = s[i]
  BY Pushed
<1> HIDE DEF t
<1>2. \A i \in DOMAIN t : i = 1 \/ (i - 1 \in DOMAIN s /\ t[i] = s[i - 1])
  BY <1>1
<1>3. \A i \in DOMAIN s : i + 1 \in DOMAIN t /\ t[i + 1] = s[i]
  BY <1>1
<1>4. 1 \in DOMAIN t
  BY <1>1
<1>5. ASSUME NEW o PROVE Holds(t, o) <=> f.op = o \/ Holds(s, o)
  BY <1>1, <1>2, <1>3, <1>4 DEF Holds
<1>6. ASSUME NEW g PROVE Has(t, g) <=> f = g \/ Has(s, g)
  BY <1>1, <1>2, <1>3, <1>4 DEF Has
<1> QED BY <1>5, <1>6 DEF t

\* A stack is its innermost frame on the others.
LEMMA IsPush ==
  ASSUME NEW s \in Seq(Frames), s # <<>>
  PROVE  /\ s = Push(Head(s), Tail(s)) /\ Head(s) \in Frames /\ Tail(s) \in Seq(Frames)
         /\ Head(s) = s[1] /\ 1 \in DOMAIN s
<1>1. Head(s) \in Frames /\ Tail(s) \in Seq(Frames) /\ Head(s) = s[1] /\ 1 \in DOMAIN s
  OBVIOUS
<1>2. /\ Len(s) \in Nat \ {0} /\ DOMAIN s = 1 .. Len(s) /\ Len(Tail(s)) = Len(s) - 1
      /\ \A i \in 1 .. Len(s) - 1 : Tail(s)[i] = s[i + 1]
  OBVIOUS
<1> DEFINE t == Tail(s)
           u == Push(Head(s), t)
<1>3. /\ u \in Seq(Frames) /\ Len(u) = Len(t) + 1 /\ u[1] = Head(s)
      /\ \A i \in 1 .. Len(t) : u[i + 1] = t[i]
  BY <1>1, Pushed
<1> HIDE DEF t, u
<1>4. ASSUME NEW i \in 1 .. Len(s) PROVE u[i] = s[i]
  <2>1. CASE i = 1
    BY <1>1, <1>3, <2>1
  <2>2. CASE i # 1
    <3>1. i - 1 \in 1 .. Len(t) /\ i - 1 \in 1 .. Len(s) - 1 /\ (i - 1) + 1 = i
      BY <1>2, <2>2 DEF t
    <3>2. u[(i - 1) + 1] = t[i - 1] /\ t[i - 1] = s[(i - 1) + 1]
      BY <1>2, <1>3, <3>1 DEF t
    <3> QED BY <3>1, <3>2
  <2> QED BY <2>1, <2>2
<1>5. u = s
  BY <1>2, <1>3, <1>4, SeqEqual DEF t
<1> QED BY <1>1, <1>5 DEF t, u

\* The shape of a stack, one frame at a time.
LEMMA ShapePush ==
  ASSUME NEW s \in Seq(Frames), NEW f \in Frames
  PROVE  Shape(Push(f, s)) <=> Fits(f, s) /\ Shape(s)
<1> DEFINE t == Push(f, s)
<1>1. /\ t \in Seq(Frames) /\ Len(t) = Len(s) + 1 /\ Len(s) \in Nat
      /\ DOMAIN t = 1 .. Len(s) + 1 /\ DOMAIN s = 1 .. Len(s) /\ t[1] = f
      /\ \A i \in 1 .. Len(s) : t[i + 1] = s[i]
  BY Pushed
<1> HIDE DEF t
<1>2. ASSUME NEW i \in 1 .. Len(s) + 1
      PROVE  Under(t, i) = SubSeq(s, i, Len(s))
  <2> DEFINE a == SubSeq(t, i + 1, Len(s) + 1)
             b == SubSeq(s, i, Len(s))
  <2>1. /\ a \in Seq(Frames) /\ b \in Seq(Frames)
        /\ Len(a) = Len(s) + 1 - i /\ Len(b) = Len(s) + 1 - i
        /\ \A k \in 1 .. Len(s) + 1 - i : a[k] = t[(i + 1) + k - 1] /\ b[k] = s[i + k - 1]
    <3>1. i + 1 \in 1 .. (Len(s) + 1) + 1 /\ Len(s) + 1 \in 0 .. Len(t)
      BY <1>1
    <3> QED BY <1>1, <3>1, SubSeqProperties
  <2> HIDE DEF a, b
  <2>2. ASSUME NEW k \in 1 .. Len(s) + 1 - i PROVE a[k] = b[k]
    <3>1. i + k - 1 \in 1 .. Len(s) /\ (i + 1) + k - 1 = (i + k - 1) + 1
      BY <1>1
    <3> QED BY <1>1, <2>1, <3>1
  <2>3. a = b
    BY <2>1, <2>2, SeqEqual
  <2> QED BY <1>1, <2>3 DEF Under, a, b
<1>3. Under(t, 1) = s
  <2>1. SubSeq(s, 1, Len(s)) = s
    BY <1>1, SubSeqProperties, SeqEqual
  <2>2. 1 \in 1 .. Len(s) + 1
    BY <1>1
  <2>3. Under(t, 1) = SubSeq(s, 1, Len(s))
    BY <1>2, <2>2
  <2> QED BY <2>1, <2>3
<1>4. ASSUME NEW i \in DOMAIN s PROVE Under(t, i + 1) = Under(s, i) /\ t[i + 1] = s[i]
  <2>1. i + 1 \in 1 .. Len(s) + 1
    BY <1>1
  <2> QED BY <1>1, <1>2, <2>1 DEF Under
<1>5. ASSUME Shape(t) PROVE Fits(f, s) /\ Shape(s)
  <2>1. Fits(f, s)
    BY <1>1, <1>3, <1>5 DEF Shape
  <2>2. \A i \in DOMAIN s : Fits(s[i], Under(s, i))
    BY <1>1, <1>4, <1>5 DEF Shape
  <2> QED BY <2>1, <2>2 DEF Shape
<1>6. ASSUME Fits(f, s), Shape(s) PROVE Shape(t)
  <2>1. ASSUME NEW i \in DOMAIN t PROVE Fits(t[i], Under(t, i))
    <3>1. CASE i = 1
      BY <1>1, <1>3, <1>6, <3>1
    <3>2. CASE i # 1
      <4>1. i - 1 \in DOMAIN s /\ (i - 1) + 1 = i
        BY <1>1, <3>2
      <4>2. Under(t, i) = Under(s, i - 1) /\ t[i] = s[i - 1]
        BY <1>4, <4>1
      <4> QED BY <1>6, <4>1, <4>2 DEF Shape
    <3> QED BY <3>1, <3>2
  <2> QED BY <1>1, <2>1 DEF Shape
<1> QED BY <1>5, <1>6 DEF t

\* What is known of a stack whose innermost frame is at hand.
LEMMA Innermost ==
  ASSUME NEW s, Shape(s), s # <<>>
  PROVE  /\ s \in Seq(Frames) /\ Head(s) \in Frames /\ Tail(s) \in Seq(Frames)
         /\ Fits(Head(s), Tail(s)) /\ Shape(Tail(s))
         /\ \A o : Holds(s, o) <=> Head(s).op = o \/ Holds(Tail(s), o)
         /\ \A g : Has(s, g) <=> Head(s) = g \/ Has(Tail(s), g)
<1>1. s \in Seq(Frames)
  BY DEF Shape
<1>2. s = Push(Head(s), Tail(s)) /\ Head(s) \in Frames /\ Tail(s) \in Seq(Frames)
  BY <1>1, IsPush
<1>3. Fits(Head(s), Tail(s)) /\ Shape(Tail(s))
  BY <1>2, ShapePush
<1>4. /\ \A o : Holds(Push(Head(s), Tail(s)), o) <=> Head(s).op = o \/ Holds(Tail(s), o)
      /\ \A g : Has(Push(Head(s), Tail(s)), g) <=> Head(s) = g \/ Has(Tail(s), g)
  BY <1>2, PushHolds
<1> QED BY <1>1, <1>2, <1>3, <1>4

----
(* What is pushed *)

\* A frame that needs the end of its iteration, on what is under another.
LEMMA FitsAbove ==
  ASSUME NEW s \in Seq(Frames), NEW f \in Frames,
         Holds(s, "close"), Holds(s, "apply"),
         Clear(s), Level(f) = 6, f \notin Opening,
         f.op = "app" => s # <<>> /\ Head(s).op = "after",
         f.op = "prefetch" => s # <<>> /\ Head(s).op = "take",
         f.op # "trap",
         ~Early /\ Has(s, Surfaces) => f.op \in {"app", "after", "prefetch", "take"}
  PROVE  Fits(f, s)
BY DEF Fits, Opening, Waking

\* What an iteration may be started on.
Bases == {<<>>, <<Op("listen")>>, <<Op("visible")>>}

\* An iteration ends in the order of run_until_cleared.
LEMMA EndFits ==
  ASSUME NEW rest \in Bases
  PROVE  /\ Shape(IterationEnd(rest)) /\ IterationEnd(rest) \in Seq(Frames)
         /\ Holds(IterationEnd(rest), "close") /\ Holds(IterationEnd(rest), "apply")
         /\ Has(IterationEnd(rest), Sleeping)
         /\ \A f \in Opening : ~Has(IterationEnd(rest), f)
         /\ Clear(IterationEnd(rest))
         /\ Holds(IterationEnd(rest), "visible") <=> rest = <<Op("visible")>>
<1> DEFINE a == Push(Op("close"), rest)
           b == Push(Op("apply"), a)
           c == Push(Sleeping, b)
           d == Push(Op("redraws"), c)
           e == Push(Op("destroy"), d)
           Low(s, n) == \A j \in DOMAIN s : Level(s[j]) < n /\ s[j] \notin Opening
                                            /\ s[j].op \notin {"app", "prefetch"}
<1>1. /\ \A o \in Ops : Op(o) \in Frames /\ Op(o).op = o /\ Op(o) \notin Opening /\ Op(o) # Sleeping
      /\ Sleeping \in Frames /\ Sleeping.op = "handle" /\ Sleeping \notin Opening
      /\ Level(Op("listen")) = 0 /\ Level(Op("visible")) = 0
      /\ Level(Op("close")) = 1 /\ Level(Op("apply")) = 2
      /\ Level(Sleeping) = 3 /\ Level(Op("redraws")) = 4 /\ Level(Op("destroy")) = 5
  <2>1. Sleeping \notin Opening
    BY DEF Sleeping, Opening, Waking, Surfaces, Handle
  <2> QED BY <2>1, FrameForms DEF Sleeping, Callbacks
<1>2. Op("listen") \in Frames /\ Op("visible") \in Frames /\ Op("close") \in Frames /\ Op("apply") \in Frames
      /\ Op("redraws") \in Frames /\ Op("destroy") \in Frames
  BY <1>1 DEF Ops
<1> HIDE DEF Low
<1>3. ASSUME NEW s \in Seq(Frames), NEW f \in Frames, NEW n \in Nat, Level(f) = n,
             f.op \notin {"app", "prefetch"}, f \notin Opening, Low(s, n)
      PROVE  Low(Push(f, s), n + 1)
  <2> DEFINE t == Push(f, s)
  <2>1. /\ Len(s) \in Nat /\ DOMAIN t = 1 .. Len(s) + 1 /\ DOMAIN s = 1 .. Len(s) /\ t[1] = f
        /\ \A i \in 1 .. Len(s) : t[i + 1] = s[i]
    BY Pushed
  <2> HIDE DEF t
  <2>2. ASSUME NEW j \in DOMAIN t
        PROVE  Level(t[j]) < n + 1 /\ t[j] \notin Opening /\ t[j].op \notin {"app", "prefetch"}
    <3>1. CASE j = 1
      BY <1>3, <2>1, <3>1
    <3>2. CASE j # 1
      <4>1. j - 1 \in DOMAIN s /\ t[j] = s[j - 1]
        BY <2>1, <3>2
      <4>2. s[j - 1] \in Frames
        BY <4>1
      <4>3. Level(s[j - 1]) \in 0 .. 6
        BY <4>2, FrameForms
      <4> QED BY <1>3, <4>1, <4>3 DEF Low
    <3> QED BY <3>1, <3>2
  <2> QED BY <2>2 DEF Low, t
<1>4. ASSUME NEW s \in Seq(Frames), Shape(s), NEW f \in Frames, Level(f) < 6,
             f.op \notin {"app", "prefetch", "trap"}, f \notin Opening, Low(s, Level(f)),
             Level(f) > 1 => Holds(s, "close"), Level(f) > 2 => Holds(s, "apply"),
             Level(f) \in {4, 5} => Has(s, Sleeping),
             ~Has(s, Surfaces)
      PROVE  /\ Push(f, s) \in Seq(Frames) /\ Shape(Push(f, s))
             /\ \A o : Holds(Push(f, s), o) <=> f.op = o \/ Holds(s, o)
             /\ \A g : Has(Push(f, s), g) <=> f = g \/ Has(s, g)
  <2>1. Fits(f, s)
    BY <1>4 DEF Fits, Low, Opening, Waking, Clear
  <2> QED BY <1>4, <2>1, ShapePush, PushHolds, Pushed, ZenonT(40)
<1>5. rest \in Seq(Frames) /\ Shape(rest) /\ Low(rest, 1) /\ ~Has(rest, Surfaces)
  <2>1. CASE rest = <<>>
    BY <2>1 DEF Shape, Low, Has
  <2>2. ASSUME NEW x \in {"listen", "visible"}, rest = <<Op(x)>>
        PROVE  rest \in Seq(Frames) /\ Shape(rest) /\ Low(rest, 1) /\ ~Has(rest, Surfaces)
    <3> DEFINE o == Op(x)
               z == <<>>
    <3>1. Push(o, z) = rest /\ z \in Seq(Frames) /\ Shape(z) /\ ~Has(z, Surfaces)
          /\ Low(z, 0)
      BY <1>2, <2>2 DEF Push, Shape, Has, Low
    <3>2. o \in Frames /\ Level(o) = 0 /\ o.op = x /\ o \notin Opening
      BY <1>1, <1>2 DEF Ops
    <3> HIDE DEF o, z
    <3>3. Shape(rest) /\ rest \in Seq(Frames) /\ (Has(rest, Surfaces) <=> o = Surfaces)
      BY <1>4, <3>1, <3>2
    <3>4. Low(rest, 1)
      <4>1. Low(Push(o, z), 0 + 1)
        BY <1>3, <3>1, <3>2
      <4> QED BY <3>1, <4>1
    <3> QED BY <3>2, <3>3, <3>4 DEF Opening
  <2> QED BY <2>1, <2>2 DEF Bases
<1>13. Holds(rest, "visible") <=> rest = <<Op("visible")>>
  <2>1. rest = <<Op("listen")>> => rest # <<Op("visible")>> /\ ~Holds(rest, "visible")
    <3>1. SUFFICES ASSUME rest = <<Op("listen")>> PROVE rest[1].op # "visible" /\ DOMAIN rest = {1}
      BY DEF Holds, Op
    <3> QED BY <3>1 DEF Op
  <2>2. rest = <<Op("visible")>> => Holds(rest, "visible")
    <3>1. SUFFICES ASSUME rest = <<Op("visible")>> PROVE rest[1].op = "visible" /\ 1 \in DOMAIN rest
      BY DEF Holds
    <3> QED BY <3>1 DEF Op
  <2>3. rest = <<>> => rest # <<Op("visible")>> /\ ~Holds(rest, "visible")
    BY DEF Holds
  <2> QED BY <2>1, <2>2, <2>3 DEF Bases
<1>6. Surfaces \in Opening /\ Op("close").op = "close" /\ Op("apply").op = "apply"
      /\ Op("redraws").op = "redraws" /\ Op("destroy").op = "destroy"
      /\ Op("close") \notin Opening /\ Op("apply") \notin Opening
      /\ Op("redraws") \notin Opening /\ Op("destroy") \notin Opening
  BY <1>1 DEF Ops, Opening
<1> HIDE DEF a, b, c, d, e
<1>7. a \in Seq(Frames) /\ Shape(a) /\ Low(a, 2) /\ Holds(a, "close") /\ ~Has(a, Surfaces)
  <2>1. Low(a, 1 + 1)
    BY <1>1, <1>2, <1>3, <1>5, <1>6 DEF a
  <2> QED BY <1>1, <1>2, <1>4, <1>5, <1>6, <2>1 DEF a
<1>8. b \in Seq(Frames) /\ Shape(b) /\ Low(b, 3) /\ Holds(b, "close") /\ Holds(b, "apply") /\ ~Has(b, Surfaces)
  <2>1. Low(b, 2 + 1)
    BY <1>1, <1>2, <1>3, <1>6, <1>7 DEF b
  <2> QED BY <1>1, <1>2, <1>4, <1>6, <1>7, <2>1 DEF b
<1>9. c \in Seq(Frames) /\ Shape(c) /\ Low(c, 4) /\ Holds(c, "close") /\ Holds(c, "apply")
      /\ Has(c, Sleeping) /\ ~Has(c, Surfaces)
  <2>1. Low(c, 3 + 1)
    BY <1>1, <1>3, <1>8 DEF c
  <2> QED BY <1>1, <1>4, <1>6, <1>8, <2>1 DEF c
<1>10. d \in Seq(Frames) /\ Shape(d) /\ Low(d, 5) /\ Holds(d, "close") /\ Holds(d, "apply")
      /\ Has(d, Sleeping) /\ ~Has(d, Surfaces)
  <2>1. Low(d, 4 + 1)
    BY <1>1, <1>2, <1>3, <1>6, <1>9 DEF d
  <2> QED BY <1>1, <1>2, <1>4, <1>6, <1>9, <2>1 DEF d
<1>11. e \in Seq(Frames) /\ Shape(e) /\ Low(e, 6) /\ Holds(e, "close") /\ Holds(e, "apply")
      /\ Has(e, Sleeping)
  <2>1. Low(e, 5 + 1)
    BY <1>1, <1>2, <1>3, <1>6, <1>10 DEF e
  <2> QED BY <1>1, <1>2, <1>4, <1>6, <1>10, <2>1 DEF e
<1>12. e = IterationEnd(rest)
  BY DEF a, b, c, d, e, IterationEnd, Sleeping
<1>14. Holds(e, "visible") <=> Holds(rest, "visible")
  <2>1. ASSUME NEW s \in Seq(Frames), NEW f \in Frames, f.op # "visible"
        PROVE  Holds(Push(f, s), "visible") <=> Holds(s, "visible")
    BY <2>1, PushHolds
  <2>2. Holds(a, "visible") <=> Holds(rest, "visible")
    BY <1>2, <1>5, <1>6, <2>1 DEF a
  <2>3. Holds(b, "visible") <=> Holds(a, "visible")
    BY <1>2, <1>6, <1>7, <2>1 DEF b
  <2>4. Holds(c, "visible") <=> Holds(b, "visible")
    BY <1>1, <1>8, <2>1 DEF c
  <2>5. Holds(d, "visible") <=> Holds(c, "visible")
    BY <1>2, <1>6, <1>9, <2>1 DEF d
  <2>6. Holds(e, "visible") <=> Holds(d, "visible")
    BY <1>2, <1>6, <1>10, <2>1 DEF e
  <2> QED BY <2>2, <2>3, <2>4, <2>5, <2>6
<1> QED BY <1>11, <1>12, <1>13, <1>14 DEF Low, Has, Clear, Opening

\* One or two calls of handle_event before it.
LEMMA OneCall ==
  ASSUME NEW rest, NEW x, IterationEnd(rest) \in Seq(Frames), Handle(x) \in Frames
  PROVE  RunUntilCleared(<<x>>, rest) = Push(Handle(x), IterationEnd(rest))
<1>1. [i \in DOMAIN <<x>> |-> Handle((<<x>>)[i])] = <<Handle(x)>>
  OBVIOUS
<1> QED BY <1>1 DEF RunUntilCleared, Push

\* The same, for the call that starts the iteration and an event.
LEMMA TwoCalls ==
  ASSUME NEW rest, NEW x, NEW y, IterationEnd(rest) \in Seq(Frames),
         Handle(x) \in Frames, Handle(y) \in Frames
  PROVE  RunUntilCleared(<<x, y>>, rest) = Push(Handle(x), Push(Handle(y), IterationEnd(rest)))
<1> DEFINE s == IterationEnd(rest)
           entries == [i \in DOMAIN <<x, y>> |-> Handle((<<x, y>>)[i])]
<1>1. entries = <<Handle(x), Handle(y)>>
  OBVIOUS
<1> HIDE DEF entries, s
<1>2. <<Handle(x), Handle(y)>> \o s = <<Handle(x)>> \o (<<Handle(y)>> \o s)
  BY DEF s
<1> QED BY <1>1, <1>2 DEF RunUntilCleared, Push, entries, s

\* Clear, one frame at a time.
LEMMA ClearPush ==
  ASSUME NEW s \in Seq(Frames), NEW f \in Frames
  PROVE  Clear(Push(f, s)) <=> f.op \notin {"app", "prefetch"} /\ f \notin Waking /\ Clear(s)
<1> DEFINE t == Push(f, s)
<1>1. /\ Len(s) \in Nat /\ DOMAIN t = 1 .. Len(s) + 1 /\ DOMAIN s = 1 .. Len(s) /\ t[1] = f
      /\ \A i \in 1 .. Len(s) : t[i + 1] = s[i]
  BY Pushed
<1> HIDE DEF t
<1>2. \A i \in DOMAIN t : i = 1 \/ (i - 1 \in DOMAIN s /\ t[i] = s[i - 1])
  BY <1>1
<1>3. \A i \in DOMAIN s : i + 1 \in DOMAIN t /\ t[i + 1] = s[i]
  BY <1>1
<1>4. 1 \in DOMAIN t
  BY <1>1
<1> QED BY <1>1, <1>2, <1>3, <1>4 DEF Clear, t

\* What the loop's iterations start with.
Opens(t, first, rest) ==
  /\ Holds(t, "visible") <=> rest = <<Op("visible")>>
  /\ Shape(t) /\ t # <<>> /\ Holds(t, "apply") /\ Holds(t, "close") /\ Holds(t, "handle")
  /\ Has(t, Sleeping) /\ Head(t).op = "handle"
  /\ Has(t, Handle("new_events_init")) <=> first = "new_events_init"
  /\ Has(t, Surfaces) <=> first = "new_events_init"
  /\ Has(t, Handle("new_events")) <=> first = "new_events"

\* Calls of handle_event differ when their events do.
LEMMA Distinct ==
  ASSUME NEW x \in Callbacks, NEW y \in Callbacks, Handle(x) = Handle(y)
  PROVE  x = y
BY FrameForms

\* A timer, or a redraw, starts an iteration with new_events alone.
LEMMA OpensOne ==
  ASSUME NEW rest \in Bases
  PROVE  Opens(RunUntilCleared(<<"new_events">>, rest), "new_events", rest)
<1> DEFINE s == IterationEnd(rest)
           f == Handle("new_events")
           t == Push(f, s)
<1>1. /\ Shape(s) /\ s \in Seq(Frames) /\ Holds(s, "close") /\ Holds(s, "apply")
      /\ Has(s, Sleeping) /\ Clear(s) /\ \A g \in Opening : ~Has(s, g)
      /\ Holds(s, "visible") <=> rest = <<Op("visible")>>
  BY EndFits
<1>2. /\ f \in Frames /\ f.op = "handle" /\ Level(f) = 6 /\ f \in Opening /\ f \in Waking
      /\ f # Surfaces /\ f # Handle("new_events_init")
      /\ Handle("new_events_init") \in Opening /\ Surfaces \in Opening
  BY FrameForms, Distinct DEF Callbacks, Surfaces, Opening, Waking
<1> HIDE DEF s, f
<1>3. Fits(f, s)
  BY <1>1, <1>2 DEF Fits, Opening
<1>4. Shape(t) /\ t # <<>> /\ Head(t) = f
  BY <1>1, <1>2, <1>3, ShapePush, Pushed
<1>5. /\ \A o : Holds(t, o) <=> f.op = o \/ Holds(s, o)
      /\ \A g : Has(t, g) <=> f = g \/ Has(s, g)
  BY <1>1, <1>2, PushHolds
<1>6. RunUntilCleared(<<"new_events">>, rest) = t
  BY <1>1, <1>2, OneCall DEF s, f
<1>7. Handle("new_events") = f
  BY DEF f
<1> HIDE DEF t
<1> QED BY <1>1, <1>2, <1>4, <1>5, <1>6, <1>7 DEF Opens

\* An event starts one after new_events; the first one creates the surfaces.
LEMMA OpensTwo ==
  ASSUME NEW rest \in Bases,
         NEW x \in {"new_events_init", "new_events"}, NEW y \in Callbacks,
         x = "new_events" => y \in Events,
         x = "new_events_init" => y = "can_create_surfaces"
  PROVE  Opens(RunUntilCleared(<<x, y>>, rest), x, rest)
<1> DEFINE s == IterationEnd(rest)
           g == Handle(y)
           f == Handle(x)
           u == Push(g, s)
           t == Push(f, u)
<1>1. /\ Shape(s) /\ s \in Seq(Frames) /\ Holds(s, "close") /\ Holds(s, "apply")
      /\ Has(s, Sleeping) /\ Clear(s) /\ \A h \in Opening : ~Has(s, h)
      /\ Holds(s, "visible") <=> rest = <<Op("visible")>>
  BY EndFits
<1>2. /\ f \in Frames /\ f.op = "handle" /\ Level(f) = 6 /\ f \in Opening /\ f \in Waking
      /\ f # Surfaces
      /\ Handle("new_events_init") \in Opening /\ Surfaces \in Opening /\ Handle("new_events") \in Opening
      /\ f = Handle("new_events_init") <=> x = "new_events_init"
      /\ f = Handle("new_events") <=> x = "new_events"
  BY FrameForms, Distinct DEF Callbacks, Surfaces, Opening, Waking
<1>3. /\ g \in Frames /\ g.op = "handle" /\ Level(g) = 6 /\ g \notin Waking
      /\ g = Surfaces <=> x = "new_events_init"
      /\ g # Handle("new_events_init") /\ g # Handle("new_events")
  BY FrameForms, Distinct DEF Callbacks, Surfaces, Waking, Events
<1>4. g \in Opening <=> x = "new_events_init"
  BY <1>3 DEF Opening
<1> HIDE DEF s, f, g
<1>5. Fits(g, s)
  BY <1>1, <1>3, <1>4 DEF Fits, Opening, Waking
<1>6. Shape(u) /\ u \in Seq(Frames) /\ u # <<>> /\ Clear(u)
  BY <1>1, <1>3, <1>5, ShapePush, Pushed, ClearPush
<1>7. /\ \A o : Holds(u, o) <=> g.op = o \/ Holds(s, o)
      /\ \A h : Has(u, h) <=> g = h \/ Has(s, h)
  BY <1>1, <1>3, PushHolds
<1> HIDE DEF u
<1>8. Fits(f, u)
  BY <1>1, <1>2, <1>3, <1>6, <1>7 DEF Fits
<1>9. Shape(t) /\ t # <<>> /\ Head(t) = f
  BY <1>2, <1>6, <1>8, ShapePush, Pushed
<1>10. /\ \A o : Holds(t, o) <=> f.op = o \/ Holds(u, o)
       /\ \A h : Has(t, h) <=> f = h \/ Has(u, h)
  BY <1>2, <1>6, PushHolds
<1> HIDE DEF t
<1>11. Opens(t, x, rest)
  BY <1>1, <1>2, <1>3, <1>7, <1>9, <1>10 DEF Opens
<1>12. RunUntilCleared(<<x, y>>, rest) = t
  BY <1>1, <1>2, <1>3, TwoCalls DEF s, f, g, u, t
<1> QED BY <1>11, <1>12

\* A frame takes the place of the innermost one, whose iteration goes on.
LEMMA Above ==
  ASSUME NEW s, Shape(s), s # <<>>, Level(Head(s)) > 2,
         NEW f \in Frames, Level(f) = 6, f \notin Opening, f.op \notin {"app", "prefetch", "trap"},
         ~Early /\ Has(Tail(s), Surfaces) => f.op \in {"after", "take"},
         NEW t, t = Push(f, Tail(s))
  PROVE  /\ Shape(t) /\ t \in Seq(Frames) /\ t # <<>> /\ Head(t) = f /\ Tail(t) = Tail(s)
         /\ Holds(t, "apply") /\ Holds(t, "close") /\ Clear(t)
         /\ \A o : Holds(t, o) <=> f.op = o \/ Holds(Tail(s), o)
         /\ \A g : Has(t, g) <=> f = g \/ Has(Tail(s), g)
<1>1. Tail(s) \in Seq(Frames) /\ Fits(Head(s), Tail(s)) /\ Shape(Tail(s)) /\ Head(s) \in Frames
  BY Innermost
<1>2. Level(Head(s)) \in 0 .. 6
  BY <1>1, FrameForms
<1>3. Holds(Tail(s), "close") /\ Holds(Tail(s), "apply") /\ Clear(Tail(s))
  BY <1>1, <1>2 DEF Fits
<1>4. Fits(f, Tail(s))
  BY <1>1, <1>3, FitsAbove
<1>5. f \notin Waking
  BY DEF Opening
<1> QED BY <1>1, <1>3, <1>4, <1>5, ShapePush, Pushed, PushHolds, ClearPush, ZenonT(40)

\* A callback, or the closures of the window, run before the rest.
LEMMA Over ==
  ASSUME NEW s, Shape(s), s # <<>>, Clear(s), Holds(s, "apply"), Holds(s, "close"),
         NEW f \in Frames, Level(f) = 6, f \notin Opening, f.op \in {"app", "prefetch"},
         Head(s).op = (IF f.op = "app" THEN "after" ELSE "take"),
         NEW t, t = Push(f, s)
  PROVE  /\ Shape(t) /\ t # <<>> /\ Head(t) = f /\ Tail(t) = s
         /\ \A o : Holds(t, o) <=> f.op = o \/ Holds(s, o)
         /\ \A g : Has(t, g) <=> f = g \/ Has(s, g)
<1>1. s \in Seq(Frames)
  BY DEF Shape
<1>2. Fits(f, s)
  BY <1>1, FitsAbove
<1> QED BY <1>1, <1>2, ShapePush, Pushed, PushHolds, ZenonT(40)

----
(* Steps *)

Drainers == {"handle", "app", "after", "prefetch", "take"}

\* A step of an iteration that neither tells the application where it stands
\* nor ends anything.
LEMMA Moves ==
  ASSUME Iterations, UNCHANGED <<runner, state, schedule, phase>>,
         Shape(stack'),
         \A o \in {"apply", "close"} : Holds(stack', o) <=> Holds(stack, o),
         \A g \in Opening \union {Sleeping} : Has(stack', g) <=> Has(stack, g),
         exit' = exit \/ Holds(stack, "apply"),
         events' # <<>> /\ runner = "Running" =>
           exit' \/ \E i \in DOMAIN stack' : stack'[i].op \in Drainers,
         runner # "Running" => stack' = stack,
         Quiet', Sent'
  PROVE  Iterations'
<1>1. Exits'
  BY DEF Iterations, Exits
<1>2. Drains'
  BY DEF Iterations, Drains, Drainers
<1>3. Armed'
  BY DEF Iterations, Armed
<1>4. Unstarted'
  BY DEF Iterations, Unstarted, Idle
<1>5. Told'
  BY DEF Iterations, Told, Opening, Waking
<1> QED BY <1>1, <1>2, <1>3, <1>4, <1>5 DEF Iterations

\* The frame that is done with is gone.
LEMMA Pops ==
  ASSUME Iterations, stack # <<>>, stack' = Tail(stack), runner = "Running",
         UNCHANGED <<runner, state, schedule, phase, exit>>,
         Head(stack).op \notin {"apply", "close", "handle"},
         events' # <<>> => exit \/ \E i \in DOMAIN stack' : stack'[i].op \in Drainers,
         Quiet', Sent'
  PROVE  Iterations'
<1>1. /\ Shape(Tail(stack))
      /\ \A o : Holds(stack, o) <=> Head(stack).op = o \/ Holds(Tail(stack), o)
      /\ \A g : Has(stack, g) <=> Head(stack) = g \/ Has(Tail(stack), g)
  BY Innermost DEF Iterations
<1>2. \A g \in Opening \union {Sleeping} : g.op = "handle"
  BY DEF Opening, Waking, Surfaces, Sleeping, Handle
<1>3. \A g \in Opening \union {Sleeping} : Has(stack', g) <=> Has(stack, g)
  BY <1>1, <1>2
<1> QED BY <1>1, <1>3, Moves

\* The frame that is done with is replaced by a call.
LEMMA Calls ==
  ASSUME Iterations, stack # <<>>, runner = "Running",
         UNCHANGED <<runner, state, schedule, phase, exit>>,
         Head(stack).op \notin {"apply", "close", "handle"}, Level(Head(stack)) > 2,
         NEW f \in Frames, stack' = Push(f, Tail(stack)),
         Level(f) = 6, f \notin Opening \union {Sleeping}, f.op \in {"after", "take", "handle"},
         ~Early /\ Has(Tail(stack), Surfaces) => f.op \in {"after", "take"},
         Quiet', Sent'
  PROVE  Iterations'
<1>1. /\ Shape(stack)
      /\ \A o : Holds(stack, o) <=> Head(stack).op = o \/ Holds(Tail(stack), o)
      /\ \A g : Has(stack, g) <=> Head(stack) = g \/ Has(Tail(stack), g)
  BY Innermost DEF Iterations
<1>2. /\ Shape(stack') /\ stack' # <<>> /\ Head(stack') = f /\ stack' \in Seq(Frames)
      /\ \A o : Holds(stack', o) <=> f.op = o \/ Holds(Tail(stack), o)
      /\ \A g : Has(stack', g) <=> f = g \/ Has(Tail(stack), g)
  BY <1>1, Above
<1>3. \A g \in Opening \union {Sleeping} : g.op = "handle"
  BY DEF Opening, Waking, Surfaces, Sleeping, Handle
<1>4. \A g \in Opening \union {Sleeping} : Has(stack', g) <=> Has(stack, g)
  BY <1>1, <1>2, <1>3
<1>5. \E i \in DOMAIN stack' : stack'[i].op \in Drainers
  BY <1>2, IsPush DEF Drainers
<1> QED BY <1>1, <1>2, <1>4, <1>5, Moves

\* The stack is left as it is.
LEMMA Stays ==
  ASSUME Iterations, UNCHANGED <<runner, state, schedule, phase, stack>>,
         exit' = exit \/ Holds(stack, "apply"), exit => exit',
         events' = events \/ runner # "Running" \/ RunnerBorrowed,
         Quiet', Sent'
  PROVE  Iterations'
<1>1. events' # <<>> /\ runner = "Running" =>
        exit' \/ \E i \in DOMAIN stack' : stack'[i].op \in Drainers
  BY DEF Iterations, Drains, Drainers, RunnerBorrowed, OnStack
<1> QED BY <1>1, Moves DEF Iterations

\* An iteration starts in a loop that waits.
LEMMA Wakes ==
  ASSUME Iterations, Idle, runner = "Running",
         NEW rest \in Bases, Opens(stack', "new_events", rest),
         UNCHANGED <<runner, state, phase, exit>>, Sent'
  PROVE  Iterations'
<1>1. phase = "Asleep"
  BY DEF Iterations, Told, Idle, Has
<1>2. /\ Shape(stack') /\ stack' # <<>> /\ Holds(stack', "apply") /\ Holds(stack', "handle")
      /\ ~Has(stack', Handle("new_events_init")) /\ ~Has(stack', Surfaces)
      /\ Has(stack', Handle("new_events"))
  BY DEF Opens
<1>3. Exits' /\ Armed' /\ Unstarted' /\ Quiet'
  BY <1>1, <1>2 DEF Exits, Armed, Unstarted, Quiet
<1>4. Drains'
  BY <1>2 DEF Drains, Holds
<1>5. Told'
  BY <1>1, <1>2 DEF Told
<1> QED BY <1>2, <1>3, <1>4, <1>5 DEF Iterations

\* send_events queues in a callback and while the loop does not run, does
\* nothing when it is closed, and else starts an iteration.
LEMMA Sends ==
  ASSUME Iterations, NEW rest,
         \/ rest = stack /\ (Idle \/ RunnerBorrowed)
         \/ rest = <<Op("visible")>> /\ Idle,
         NEW evs, evs = <<>> \/ \E e \in Events : evs = <<e>>, SendEvents(evs, rest)
  PROVE  \/ stack' = rest /\ events' = events /\ (stack' # stack => IsClosed)
         \/ stack' = rest /\ events' = events \o evs /\ (runner # "Running" \/ RunnerBorrowed)
         \/ /\ Idle /\ runner = "Running" /\ events' = events
            /\ rest \in Bases /\ Opens(stack', "new_events", rest)
<1>1. CASE IsClosed
  BY <1>1 DEF SendEvents
<1>2. CASE ~IsClosed /\ (runner # "Running" \/ RunnerBorrowed)
  BY <1>2 DEF SendEvents
<1>3. CASE ~IsClosed /\ runner = "Running" /\ ~RunnerBorrowed
  <2>1. Idle /\ rest \in Bases /\ ~Holds(stack, "apply")
    BY <1>3 DEF Idle, Holds, Bases
  <2>2. StartCause = "new_events"
    BY <1>3, <2>1 DEF Iterations, Armed, StartCause
  <2>3. stack' = RunUntilCleared(<<"new_events">> \o evs, rest) /\ events' = events
    BY <1>3, <2>1, <2>2 DEF SendEvents
  <2>4. CASE evs = <<>>
    <3>1. <<"new_events">> \o evs = <<"new_events">>
      BY <2>4
    <3> QED BY <1>3, <2>1, <2>3, <3>1, OpensOne
  <2>5. CASE \E e \in Events : evs = <<e>>
    <3>1. PICK e \in Events : evs = <<e>>
      BY <2>5
    <3>2. <<"new_events">> \o evs = <<"new_events", e>> /\ e \in Callbacks
      <4>1. "new_events" \in Callbacks /\ e \in Callbacks
        BY DEF Callbacks
      <4> DEFINE a == <<"new_events">>
                 b == <<e>>
                 c == <<"new_events", e>>
      <4>2. a \in Seq(Callbacks) /\ b \in Seq(Callbacks) /\ c \in Seq(Callbacks)
        BY <4>1
      <4>3. Len(a) = 1 /\ Len(b) = 1 /\ Len(c) = 2 /\ a[1] = c[1] /\ b[1] = c[2]
        OBVIOUS
      <4> HIDE DEF a, b, c
      <4>4. a \o b = c
        <5>1. /\ a \o b \in Seq(Callbacks) /\ Len(a \o b) = 2
              /\ (a \o b)[1] = a[1] /\ (a \o b)[2] = b[1]
          <6>1. 1 \in 1 .. Len(a) + Len(b) /\ 2 \in 1 .. Len(a) + Len(b)
            BY <4>3
          <6>2. a \o b \in Seq(Callbacks) /\ Len(a \o b) = Len(a) + Len(b)
                /\ \A i \in 1 .. Len(a) + Len(b) :
                     (a \o b)[i] = IF i <= Len(a) THEN a[i] ELSE b[i - Len(a)]
            BY <4>2, ConcatProperties
          <6> QED BY <4>3, <6>1, <6>2
        <5>2. \A i \in 1 .. 2 : (a \o b)[i] = c[i]
          BY <4>3, <5>1
        <5> QED BY <4>2, <4>3, <5>1, <5>2, SeqEqual
      <4> QED BY <3>1, <4>1, <4>4 DEF a, b, c
    <3>3. Opens(RunUntilCleared(<<"new_events", e>>, rest), "new_events", rest)
      BY <2>1, <3>2, OpensTwo
    <3> QED BY <1>3, <2>1, <2>3, <3>2, <3>3
  <2> QED BY <2>4, <2>5
<1> QED BY <1>1, <1>2, <1>3

Loud == Early \/ phase \notin {"Off", "Init"} \/ runner = "Destroyed"

\* send_events keeps the invariant, whatever state the runner is in: what it queues in a
\* callback has a frame to take it.
LEMMA SendsKeeps ==
  ASSUME Iterations, Idle \/ RunnerBorrowed,
         NEW evs, evs = <<>> \/ \E e \in Events : evs = <<e>>, SendEvents(evs, stack),
         UNCHANGED <<runner, state, schedule, phase, exit>>, Sent',
         Loud \/ (evs = <<>> /\ (events' = events => Quiet'))
  PROVE  Iterations'
<1>1. CASE stack' = stack /\ events' = events
  BY <1>1, Stays DEF Loud, Quiet
<1>2. CASE stack' = stack /\ events' = events \o evs /\ (runner # "Running" \/ RunnerBorrowed)
  <2>1. Quiet'
    <3>1. CASE Loud
      BY <3>1 DEF Loud, Quiet
    <3>2. CASE evs = <<>> /\ (events' = events => Quiet')
      BY <1>2, <3>2 DEF Quiet, Iterations
    <3> QED BY <3>1, <3>2
  <2> QED BY <1>2, <2>1, Stays
<1>3. CASE /\ Idle /\ runner = "Running" /\ stack \in Bases
           /\ events' = events /\ Opens(stack', "new_events", stack)
  BY <1>3, Wakes
<1> QED BY <1>1, <1>2, <1>3, Sends

\* The runner runs while an iteration is under way.
LEMMA Runs ==
  ASSUME Iterations, NEW o \in Ops \union {"handle", "app"}, Top(o),
         o \notin {"listen", "visible"}
  PROVE  /\ runner = "Running" /\ stack # <<>> /\ stack \in Seq(Frames)
         /\ Head(stack).op = o /\ Head(stack) \in Frames /\ Fits(Head(stack), Tail(stack))
         /\ Clear(Tail(stack)) /\ Tail(stack) \in Seq(Frames) /\ Shape(Tail(stack))
         /\ o \in Ops => Head(stack) = Op(o)
         /\ o # "app" => ~RunnerBorrowed
         /\ o = "app" => RunnerBorrowed /\ Holds(stack, "apply")
<1>1. stack # <<>> /\ Head(stack).op = o
  BY DEF Top
<1>2. /\ stack \in Seq(Frames) /\ Head(stack) \in Frames /\ Fits(Head(stack), Tail(stack))
      /\ Tail(stack) \in Seq(Frames) /\ Shape(Tail(stack))
      /\ \A p : Holds(stack, p) <=> Head(stack).op = p \/ Holds(Tail(stack), p)
  BY <1>1, Innermost DEF Iterations
<1>3. runner = "Running"
  <2>1. Head(stack) = stack[1] /\ 1 \in DOMAIN stack
    BY <1>1, <1>2
  <2> QED BY <1>1, <2>1 DEF Iterations, Unstarted
<1>4. Clear(Tail(stack))
  BY <1>2 DEF Fits
<1>5. RunnerBorrowed <=> Holds(stack, "app")
  BY DEF RunnerBorrowed, OnStack, Holds
<1>6. ~Holds(Tail(stack), "app")
  BY <1>4 DEF Clear, Holds
<1>7. o = "app" => Holds(stack, "apply")
  <2>1. o = "app" => Level(Head(stack)) = 6
    BY <1>1, <1>2, FrameForms
  <2> QED BY <1>2, <2>1 DEF Fits
<1> QED BY <1>1, <1>2, <1>3, <1>4, <1>5, <1>6, <1>7, FrameForms

\* What may be under the end of an iteration.
LEMMA Lows ==
  ASSUME NEW f \in Frames
  PROVE  /\ Level(f) < 3 => f.op \in {"listen", "visible", "close", "apply"}
         /\ Level(f) < 1 => f.op \in {"listen", "visible"}
         /\ Level(f) >= 0
         /\ f \in Opening => Level(f) = 6
<1>1. f.op \in Ops \union {"handle", "app"} /\ Level(f) \in 0 .. 6
  BY FrameForms
<1>2. CASE f.op \in {"handle", "app"}
  <2>1. Level(f) \in {3, 6}
    BY <1>2, FrameForms
  <2>2. f \in Opening => Level(f) = 6
    BY FrameForms DEF Opening, Waking, Surfaces, Callbacks
  <2> QED BY <2>1, <2>2
<1>3. CASE f.op \in Ops
  <2>1. f = Op(f.op) /\ f \notin Opening
    BY <1>3, FrameForms
  <2>2. f.op \in {"after", "prefetch", "take", "destroy", "redraws", "apply", "close", "listen", "visible", "trap"}
    BY <1>3 DEF Ops
  <2>3. f.op = "trap" => Level(f) = 6
    BY <2>1 DEF Level, Op, Sleeping, Handle
  <2> QED BY <1>1, <2>1, <2>2, <2>3, FrameForms
<1> QED BY <1>1, <1>2, <1>3

\* handle_event: the callback starts, and the phase is the one its place in the iteration
\* calls for.
LEMMA CallKeeps ==
  ASSUME Iterations, HandleEvent
  PROVE  Iterations'
<1> DEFINE e == Head(stack).arg
           u == Push(Op("after"), Tail(stack))
           t == Push(App(e), u)
<1>1. /\ runner = "Running" /\ stack # <<>> /\ Head(stack) \in Frames /\ Fits(Head(stack), Tail(stack))
      /\ Clear(Tail(stack)) /\ ~RunnerBorrowed /\ Head(stack).op = "handle" /\ Shape(stack)
  BY Runs DEF HandleEvent, Iterations
<1>2. e \in Callbacks /\ Head(stack) = Handle(e)
  BY <1>1, FrameForms
<1>3. /\ UNCHANGED <<runner, state, schedule, events, awoken, microtasks, window, inner, listening, focused, closures>>
      /\ phase' = PhaseAfter(e) /\ stack' = t
  BY <1>1 DEF HandleEvent, loop_vars, window_vars
<1>4. /\ \A p : Holds(stack, p) <=> Head(stack).op = p \/ Holds(Tail(stack), p)
      /\ \A g : Has(stack, g) <=> Head(stack) = g \/ Has(Tail(stack), g)
      /\ Tail(stack) \in Seq(Frames)
  BY <1>1, Innermost
<1>5. Level(Head(stack)) > 2 /\ (e # "about_to_wait" => Level(Head(stack)) = 6)
  BY <1>2, FrameForms
<1>6. /\ Op("after") \in Frames /\ Op("after").op = "after" /\ Level(Op("after")) = 6
      /\ Op("after") \notin Opening /\ Op("after") # Sleeping
      /\ App(e) \in Frames /\ App(e).op = "app" /\ Level(App(e)) = 6
      /\ App(e) \notin Opening /\ App(e) # Sleeping
  BY <1>2, FrameForms DEF Ops
<1>7. /\ Shape(u) /\ u # <<>> /\ Head(u) = Op("after") /\ Holds(u, "apply") /\ Holds(u, "close") /\ Clear(u)
      /\ \A p : Holds(u, p) <=> Op("after").op = p \/ Holds(Tail(stack), p)
      /\ \A g : Has(u, g) <=> Op("after") = g \/ Has(Tail(stack), g)
  BY <1>1, <1>5, <1>6, Above
<1> HIDE DEF u, e
<1>8. /\ Shape(t) /\ t # <<>> /\ Head(t) = App(e)
      /\ \A p : Holds(t, p) <=> App(e).op = p \/ Holds(u, p)
      /\ \A g : Has(t, g) <=> App(e) = g \/ Has(u, g)
  BY <1>6, <1>7, Over
<1> HIDE DEF t
<1>9. Exits' /\ Armed'
  BY <1>3, <1>7, <1>8 DEF Exits, Armed
<1>10. Drains'
  BY <1>3, <1>6, <1>8 DEF Drains, Holds
<1>11. Unstarted'
  BY <1>1, <1>3 DEF Unstarted
<1>12. Sent'
  BY <1>3 DEF Sent, Iterations
<1>13. \A g \in Opening \union {Sleeping} : Has(stack', g) <=> Has(Tail(stack), g)
  BY <1>3, <1>6, <1>7, <1>8
<1>14. ~Has(Tail(stack), Handle("new_events_init")) /\ ~Has(Tail(stack), Handle("new_events"))
  BY <1>1 DEF Clear, Has, Waking
<1>15. /\ Handle("new_events_init") \in Opening /\ Handle("new_events") \in Opening
       /\ Surfaces \in Opening /\ Surfaces = Handle("can_create_surfaces")
       /\ Sleeping = Handle("about_to_wait")
  BY DEF Opening, Waking, Surfaces, Sleeping
<1>16. Told' /\ (phase' \in {"Off", "Init"} => phase \in {"Off", "Init"})
  <2>1. CASE e = "new_events_init"
    <3>1. Has(Tail(stack), Surfaces) /\ phase' = "Init"
      BY <1>1, <1>2, <1>3, <2>1 DEF Fits, PhaseAfter
    <3>2. phase = "Off"
      BY <1>1, <1>2, <1>4, <2>1 DEF Iterations, Told
    <3> QED BY <1>13, <1>14, <1>15, <2>1, <3>1, <3>2 DEF Told
  <2>2. CASE e \in {"can_create_surfaces", "new_events"}
    <3>1. ~Has(Tail(stack), Surfaces) /\ Has(Tail(stack), Sleeping) /\ phase' = "Awake"
      BY <1>1, <1>2, <1>3, <1>15, <2>2 DEF Fits, PhaseAfter
    <3> QED BY <1>13, <1>14, <1>15, <3>1 DEF Told
  <2>3. CASE e = "about_to_wait"
    <3>1. \A j \in DOMAIN Tail(stack) : Level(Tail(stack)[j]) < 3
      BY <1>1, <1>2, <2>3, FrameForms DEF Fits
    <3>2. Level(Surfaces) = 6 /\ Level(Sleeping) = 3
      BY FrameForms DEF Surfaces, Sleeping, Callbacks
    <3>3. ~Has(Tail(stack), Surfaces) /\ ~Has(Tail(stack), Sleeping) /\ phase' = "Asleep"
      BY <1>3, <2>3, <3>1, <3>2 DEF Has, PhaseAfter
    <3> QED BY <1>13, <1>14, <1>15, <3>3 DEF Told
  <2>4. CASE e \notin {"new_events_init", "can_create_surfaces", "new_events", "about_to_wait"}
    <3>1. phase' = phase
      BY <1>3, <2>4 DEF PhaseAfter
    <3>2. \A g \in Opening \union {Sleeping} : g # Head(stack)
      BY <1>2, <2>4, Distinct DEF Opening, Waking, Surfaces, Sleeping, Callbacks
    <3>3. \A g \in Opening \union {Sleeping} : Has(stack', g) <=> Has(stack, g)
      BY <1>4, <1>13, <3>2
    <3>4. Told
      BY DEF Iterations
    <3> QED BY <1>3, <1>15, <3>1, <3>3, <3>4 DEF Told
  <2> QED BY <2>1, <2>2, <2>3, <2>4
<1>17. Quiet'
  BY <1>3, <1>16 DEF Quiet, Iterations
<1> QED BY <1>3, <1>8, <1>9, <1>10, <1>11, <1>12, <1>16, <1>17 DEF Iterations

\* After the callback the queue is looked at, unless exit was called.
LEMMA AfterKeeps ==
  ASSUME Iterations, AfterCallback
  PROVE  Iterations'
<1> DEFINE u == Push(Op("take"), Tail(stack))
           t == Push(Op("prefetch"), u)
<1>1. /\ runner = "Running" /\ stack # <<>> /\ Head(stack) = Op("after") /\ Shape(stack)
      /\ Head(stack).op = "after"
  BY Runs DEF AfterCallback, Iterations, Ops
<1>2. UNCHANGED <<runner, state, schedule, phase, exit, events>> /\ Quiet' /\ Sent'
  BY DEF AfterCallback, loop_vars, window_vars, proxy_vars, Quiet, Sent, Iterations
<1>3. /\ \A o \in {"take", "prefetch"} : /\ Op(o) \in Frames /\ Op(o).op = o /\ Level(Op(o)) = 6
                                         /\ Op(o) \notin Opening /\ Op(o) # Sleeping
      /\ Level(Head(stack)) = 6
  BY <1>1, FrameForms DEF Ops
<1>4. CASE stack' = Tail(stack) /\ exit
  BY <1>1, <1>2, <1>4, Pops
<1>5. CASE stack' = u
  BY <1>1, <1>2, <1>3, <1>5, Calls
<1>6. CASE stack' = t
  <2>1. /\ Shape(u) /\ u # <<>> /\ Head(u) = Op("take") /\ Holds(u, "apply") /\ Holds(u, "close") /\ Clear(u)
        /\ \A p : Holds(u, p) <=> Op("take").op = p \/ Holds(Tail(stack), p)
        /\ \A g : Has(u, g) <=> Op("take") = g \/ Has(Tail(stack), g)
    BY <1>1, <1>3, Above
  <2>2. /\ \A p : Holds(stack, p) <=> Head(stack).op = p \/ Holds(Tail(stack), p)
        /\ \A g : Has(stack, g) <=> Head(stack) = g \/ Has(Tail(stack), g)
    BY <1>1, Innermost
  <2> HIDE DEF u
  <2>3. /\ Shape(t)
        /\ \A p : Holds(t, p) <=> Op("prefetch").op = p \/ Holds(u, p)
        /\ \A g : Has(t, g) <=> Op("prefetch") = g \/ Has(u, g)
    BY <1>3, <2>1, Over
  <2> HIDE DEF t
  <2>4. \E i \in DOMAIN stack' : stack'[i].op \in Drainers
    <3>1. Holds(t, "prefetch")
      BY <1>3, <2>3
    <3> QED BY <1>6, <3>1 DEF Holds, Drainers
  <2>5. \A o \in {"apply", "close"} : Holds(stack', o) <=> Holds(stack, o)
    BY <1>1, <1>3, <1>6, <2>1, <2>2, <2>3
  <2>6. \A g \in Opening \union {Sleeping} : g.op = "handle"
    BY DEF Opening, Waking, Surfaces, Sleeping, Handle
  <2>7. \A g \in Opening \union {Sleeping} : Has(stack', g) <=> Has(stack, g)
    BY <1>1, <1>3, <1>6, <2>1, <2>2, <2>3, <2>6
  <2> QED BY <1>1, <1>2, <1>6, <2>3, <2>4, <2>5, <2>7, Moves
<1>7. (stack' = Tail(stack) /\ exit) \/ stack' = u \/ stack' = t
  BY <1>1 DEF AfterCallback
<1> QED BY <1>4, <1>5, <1>6, <1>7

\* Without "focus" a closure of the worker calls nothing back.
LEMMA ClosureIs ==
  ASSUME Iterations, "focus" \notin Closures, closures # <<>>, RunClosure(Head(closures), stack)
  PROVE  /\ UNCHANGED <<stack, focused, events>>
         /\ Tail(closures) \in Seq(Closures)
<1>1. closures \in Seq(Closures)
  BY DEF Iterations, Sent
<1>2. Head(closures) \in Closures /\ Tail(closures) \in Seq(Closures)
  BY <1>1
<1>3. Head(closures) = "redraw"
  BY <1>2, WebAssumption
<1> QED BY <1>2, <1>3 DEF RunClosure

\* DispatchRunner::run keeps the invariant: its closures call nothing back.
LEMMA PrefetchKeeps ==
  ASSUME Iterations, "focus" \notin Closures, Prefetch
  PROVE  Iterations'
<1>1. /\ runner = "Running" /\ stack # <<>> /\ Head(stack).op = "prefetch"
      /\ Fits(Head(stack), Tail(stack)) /\ Tail(stack) \in Seq(Frames)
  BY Runs DEF Prefetch, Ops
<1>2. UNCHANGED <<runner, state, schedule, phase, exit, window, inner, listening, awoken, microtasks>>
  BY DEF Prefetch, loop_vars, window_vars, proxy_vars
<1>3. CASE closures = <<>>
  <2>1. stack' = Tail(stack) /\ UNCHANGED <<events, focused, closures>>
    BY <1>3 DEF Prefetch
  <2>2. \E i \in DOMAIN stack' : stack'[i].op \in Drainers
    <3>1. Tail(stack) # <<>> /\ Head(Tail(stack)).op = "take"
      BY <1>1 DEF Fits
    <3> QED BY <1>1, <2>1, <3>1, IsPush DEF Drainers
  <2>3. Quiet' /\ Sent'
    BY <1>2, <2>1 DEF Quiet, Sent, Iterations
  <2> QED BY <1>1, <1>2, <2>1, <2>2, <2>3, Pops
<1>4. CASE closures # <<>>
  <2>1. UNCHANGED <<stack, focused, events>> /\ closures' = Tail(closures)
        /\ Tail(closures) \in Seq(Closures)
    BY <1>4, ClosureIs DEF Prefetch
  <2>2. Quiet' /\ Sent'
    BY <1>2, <2>1 DEF Quiet, Sent, Iterations
  <2> QED BY <1>2, <2>1, <2>2, Stays
<1> QED BY <1>3, <1>4

\* handle_event calls itself with the next event.
LEMMA TakeKeeps ==
  ASSUME TypeOK, Iterations, Take
  PROVE  Iterations'
<1> DEFINE evs == IF awoken THEN Append(events, "user_wake_up") ELSE events
<1>1. /\ runner = "Running" /\ stack # <<>> /\ Head(stack) = Op("take") /\ Head(stack).op = "take"
      /\ Fits(Head(stack), Tail(stack)) /\ Shape(stack)
  BY Runs DEF Take, Iterations, Ops
<1>2. /\ UNCHANGED <<runner, state, schedule, phase, exit, window, inner, listening, microtasks, focused, closures>>
      /\ awoken' = FALSE
  BY DEF Take, loop_vars, window_vars
<1>3. evs \in Seq(Events) /\ events \in Seq(Events)
  <2>1. events \in Seq(Events) /\ "user_wake_up" \in Events
    BY DEF TypeOK, DataOK, Events
  <2> QED BY <2>1
<1>4. IF evs = <<>> THEN stack' = Tail(stack) /\ UNCHANGED events
      ELSE stack' = Push(Handle(Head(evs)), Tail(stack)) /\ events' = Tail(evs)
  BY DEF Take
<1>5. evs = <<>> => events = <<>>
  BY <1>3
<1>6. Level(Head(stack)) = 6
  BY <1>1, FrameForms
<1>7. Quiet => (~Early /\ phase \in {"Off", "Init"} => evs = <<>>)
  BY <1>1 DEF Quiet
<1> HIDE DEF evs
<1>8. Quiet' /\ Sent'
  BY <1>2, <1>4, <1>5, <1>7 DEF Quiet, Sent, Iterations
<1>9. CASE evs = <<>>
  BY <1>1, <1>2, <1>4, <1>5, <1>8, <1>9, Pops
<1>10. CASE evs # <<>>
  <2> DEFINE f == Handle(Head(evs))
  <2>1. Head(evs) \in Events
    BY <1>3, <1>10
  <2>2. Head(evs) \in Callbacks
    BY <2>1 DEF Callbacks
  <2>3. /\ f \in Frames /\ Level(f) = 6 /\ f.op = "handle"
        /\ f \notin Opening \union {Sleeping}
    BY <2>1, <2>2, FrameForms, Distinct DEF Opening, Waking, Surfaces, Sleeping, Callbacks, Events
  <2>4. ~(~Early /\ Has(Tail(stack), Surfaces))
    <3>1. SUFFICES ASSUME ~Early, Has(Tail(stack), Surfaces) PROVE FALSE
      OBVIOUS
    <3>2. Has(stack, Surfaces) /\ ~Has(stack, Handle("new_events_init"))
      <4>1. \A g : Has(stack, g) <=> Head(stack) = g \/ Has(Tail(stack), g)
        BY <1>1, Innermost
      <4>2. ~Has(Tail(stack), Handle("new_events_init"))
        BY <1>1 DEF Fits, Clear, Has, Waking
      <4>3. Head(stack) # Handle("new_events_init")
        BY <1>1 DEF Handle
      <4> QED BY <3>1, <4>1, <4>2, <4>3
    <3>3. phase = "Init"
      BY <1>1, <3>2 DEF Iterations, Told
    <3> QED BY <1>7, <1>10, <3>1, <3>3 DEF Iterations
  <2> HIDE DEF f
  <2>5. stack' = Push(f, Tail(stack))
    BY <1>4, <1>10 DEF f
  <2> QED BY <1>1, <1>2, <1>6, <1>8, <2>3, <2>4, <2>5, Calls
<1> QED BY <1>9, <1>10

\* process_destroy_pending_windows puts Destroyed before the redraws.
LEMMA DestroyKeeps ==
  ASSUME Iterations, Watched, ProcessDestroyPending
  PROVE  Iterations'
<1>1. /\ runner = "Running" /\ stack # <<>> /\ Head(stack) = Op("destroy") /\ Head(stack).op = "destroy"
      /\ Fits(Head(stack), Tail(stack)) /\ Shape(stack) /\ stack \in Seq(Frames)
      /\ Tail(stack) \in Seq(Frames) /\ Clear(Tail(stack))
  BY Runs DEF ProcessDestroyPending, Iterations, Ops
<1>2. UNCHANGED <<runner, state, schedule, phase, exit, window, inner, listening, microtasks, focused, closures, events, awoken>>
  BY DEF ProcessDestroyPending, loop_vars, proxy_vars
<1>3. Quiet' /\ Sent'
  BY <1>2 DEF Quiet, Sent, Iterations
<1>4. /\ \A o : Holds(stack, o) <=> Head(stack).op = o \/ Holds(Tail(stack), o)
      /\ \A g : Has(stack, g) <=> Head(stack) = g \/ Has(Tail(stack), g)
  BY <1>1, Innermost
<1>5. CASE ~destroy_pending
  <2>1. stack' = Tail(stack)
    BY <1>5 DEF ProcessDestroyPending
  <2>2. events' # <<>> => exit \/ \E i \in DOMAIN stack' : stack'[i].op \in Drainers
    <3>1. Drains
      BY DEF Iterations
    <3>2. ASSUME NEW i \in DOMAIN stack, stack[i].op \in Drainers
          PROVE  \E j \in DOMAIN stack' : stack'[j].op \in Drainers
      <4>1. Holds(stack, stack[i].op)
        BY <3>2 DEF Holds
      <4>2. Holds(Tail(stack), stack[i].op)
        BY <1>1, <1>4, <3>2, <4>1 DEF Drainers
      <4> QED BY <2>1, <3>2, <4>2 DEF Holds
    <3> QED BY <1>1, <1>2, <3>1, <3>2 DEF Drains, Drainers
  <2> QED BY <1>1, <1>2, <1>3, <2>1, <2>2, Pops
<1>6. CASE destroy_pending
  <2> DEFINE f == Handle("destroyed")
  <2>1. ~CanvasesBorrowed
    <3>1. ~Holds(stack, "prefetch")
      BY <1>1, <1>4 DEF Clear, Holds
    <3>2. ~Holds(stack, "visible")
      BY <1>1, <1>6 DEF Watched
    <3> QED BY <3>1, <3>2 DEF CanvasesBorrowed, OnStack, Holds
  <2>2. stack' = Push(f, stack)
    BY <1>6, <2>1 DEF ProcessDestroyPending
  <2>3. /\ f \in Frames /\ Level(f) = 6 /\ f.op = "handle" /\ f \notin Opening \union {Sleeping}
    BY FrameForms, Distinct DEF Opening, Waking, Surfaces, Sleeping, Callbacks, Events
  <2>4. ~Has(stack, Surfaces)
    <3>1. \A j \in DOMAIN Tail(stack) : Level(Tail(stack)[j]) < 5
      BY <1>1, FrameForms DEF Fits
    <3>2. Level(Surfaces) = 6 /\ Surfaces \in Opening
      BY FrameForms DEF Surfaces, Callbacks, Opening
    <3>3. Head(stack) \notin Opening
      BY <1>1, FrameForms DEF Ops
    <3> QED BY <1>4, <3>1, <3>2, <3>3, SMTT(30) DEF Has
  <2>5. Holds(stack, "close") /\ Holds(stack, "apply")
    <3>1. Level(Head(stack)) = 5
      BY <1>1, FrameForms
    <3> QED BY <1>1, <1>4, <3>1 DEF Fits
  <2>6. Clear(stack)
    <3>1. stack = Push(Head(stack), Tail(stack)) /\ Head(stack) \in Frames
      BY <1>1, IsPush
    <3>2. Head(stack) \notin Waking /\ Head(stack).op \notin {"app", "prefetch"}
      BY <1>1, FrameForms DEF Ops, Opening
    <3>3. Clear(Push(Head(stack), Tail(stack)))
      BY <1>1, <3>1, <3>2, ClearPush
    <3> QED BY <3>1, <3>3
  <2> HIDE DEF f
  <2>7. Fits(f, stack)
    BY <1>1, <2>3, <2>4, <2>5, <2>6, FitsAbove
  <2>8. /\ Shape(stack') /\ stack' # <<>>
        /\ \A o : Holds(stack', o) <=> f.op = o \/ Holds(stack, o)
        /\ \A g : Has(stack', g) <=> f = g \/ Has(stack, g)
    BY <1>1, <2>2, <2>3, <2>7, ShapePush, PushHolds, Pushed
  <2>9. \E i \in DOMAIN stack' : stack'[i].op \in Drainers
    <3>1. Holds(stack', "handle")
      BY <2>3, <2>8
    <3> QED BY <3>1 DEF Holds, Drainers
  <2>10. \A g \in Opening \union {Sleeping} : Has(stack', g) <=> Has(stack, g)
    BY <2>3, <2>8
  <2>11. \A o \in {"apply", "close"} : Holds(stack', o) <=> Holds(stack, o)
    BY <2>3, <2>8
  <2> QED BY <1>1, <1>2, <1>3, <2>8, <2>9, <2>10, <2>11, Moves
<1> QED BY <1>5, <1>6

\* The redraws come before about_to_wait.
LEMMA RedrawsKeeps ==
  ASSUME Iterations, Redraws
  PROVE  Iterations'
<1>1. /\ runner = "Running" /\ stack # <<>> /\ Head(stack) = Op("redraws") /\ Head(stack).op = "redraws"
      /\ Fits(Head(stack), Tail(stack)) /\ Shape(stack)
  BY Runs DEF Redraws, Iterations, Ops
<1>2. UNCHANGED <<runner, state, schedule, phase, exit, window, inner, listening, microtasks, focused, closures, events, awoken>>
  BY DEF Redraws, loop_vars, proxy_vars, window_vars
<1>3. Quiet' /\ Sent'
  BY <1>2 DEF Quiet, Sent, Iterations
<1>4. Level(Head(stack)) = 4
  BY <1>1, FrameForms
<1>5. CASE stack' = Tail(stack)
  <2>1. \A o : Holds(stack, o) <=> Head(stack).op = o \/ Holds(Tail(stack), o)
    BY <1>1, Innermost
  <2>2. ASSUME NEW i \in DOMAIN stack, stack[i].op \in Drainers
        PROVE  \E j \in DOMAIN stack' : stack'[j].op \in Drainers
    <3>1. Holds(stack, stack[i].op)
      BY <2>2 DEF Holds
    <3>2. Holds(Tail(stack), stack[i].op)
      BY <1>1, <2>1, <2>2, <3>1 DEF Drainers
    <3> QED BY <1>5, <2>2, <3>2 DEF Holds
  <2>3. Drains
    BY DEF Iterations
  <2> QED BY <1>1, <1>2, <1>3, <1>5, <2>2, <2>3, Pops DEF Drains, Drainers
<1>6. CASE stack' = Push(Handle("redraw_requested"), Tail(stack))
  <2> DEFINE f == Handle("redraw_requested")
  <2>1. /\ f \in Frames /\ Level(f) = 6 /\ f.op = "handle" /\ f \notin Opening \union {Sleeping}
    BY FrameForms, Distinct DEF Opening, Waking, Surfaces, Sleeping, Callbacks, Events
  <2>2. ~Has(Tail(stack), Surfaces)
    <3>1. \A j \in DOMAIN Tail(stack) : Level(Tail(stack)[j]) < 4
      BY <1>1, <1>4 DEF Fits
    <3>2. Level(Surfaces) = 6
      BY FrameForms DEF Surfaces, Callbacks
    <3> QED BY <3>1, <3>2 DEF Has
  <2> HIDE DEF f
  <2>3. stack' = Push(f, Tail(stack))
    BY <1>6 DEF f
  <2> QED BY <1>1, <1>2, <1>3, <1>4, <2>1, <2>2, <2>3, Calls
<1> QED BY <1>5, <1>6 DEF Redraws

\* apply_control_flow arms the timer of the State it sets, and sees the exit.
LEMMA ApplyKeeps ==
  ASSUME TypeOK, Iterations, ApplyControlFlow
  PROVE  Iterations'
<1>1. /\ runner = "Running" /\ stack # <<>> /\ Head(stack) = Op("apply") /\ Head(stack).op = "apply"
      /\ Fits(Head(stack), Tail(stack)) /\ Shape(Tail(stack)) /\ Tail(stack) \in Seq(Frames)
  BY Runs DEF ApplyControlFlow, Ops
<1>2. /\ UNCHANGED <<runner, phase, exit, window, inner, listening, microtasks, focused, closures, events, awoken>>
      /\ stack' = Tail(stack)
      /\ state' = IF exit THEN "Exit" ELSE control_flow
      /\ schedule' = Scheduled(state')
  BY DEF ApplyControlFlow, window_vars, proxy_vars
<1>3. Quiet' /\ Sent'
  BY <1>2 DEF Quiet, Sent, Iterations
<1>4. \A g : Has(stack, g) <=> Head(stack) = g \/ Has(Tail(stack), g)
  BY <1>1, Innermost DEF Iterations
<1>5. Level(Head(stack)) = 2
  BY <1>1, FrameForms
<1>6. Holds(Tail(stack), "close") /\ \A j \in DOMAIN Tail(stack) : Level(Tail(stack)[j]) < 2
  BY <1>1, <1>5 DEF Fits
<1>7. ASSUME NEW j \in DOMAIN stack PROVE stack[j].op \in {"listen", "visible", "close", "apply"}
  <2>1. Has(stack, stack[j])
    BY DEF Has
  <2>2. CASE stack[j] = Head(stack)
    BY <1>1, <2>2
  <2>3. CASE Has(Tail(stack), stack[j])
    <3>1. PICK k \in DOMAIN Tail(stack) : Tail(stack)[k] = stack[j]
      BY <2>3 DEF Has
    <3>2. Tail(stack)[k] \in Frames /\ Level(Tail(stack)[k]) < 3
      <4>1. Tail(stack)[k] \in Frames
        BY <1>1
      <4>2. Level(Tail(stack)[k]) \in 0 .. 6
        BY <4>1, FrameForms
      <4> QED BY <1>6, <4>1, <4>2
    <3> QED BY <3>1, <3>2, Lows
  <2> QED BY <1>4, <2>1, <2>2, <2>3
<1>8. Exits'
  BY <1>2, <1>6 DEF Exits
<1>9. Drains'
  <2>1. events # <<>> => exit
    BY <1>1, <1>7 DEF Iterations, Drains
  <2> QED BY <1>2, <2>1 DEF Drains
<1>10. Armed'
  <2>1. control_flow # "Init"
    BY WebAssumption DEF TypeOK, DataOK
  <2> QED BY <1>2, <2>1 DEF Armed
<1>11. Unstarted'
  BY <1>1, <1>2 DEF Unstarted
<1>12. Told'
  <2>1. /\ Handle("new_events_init").op = "handle" /\ Surfaces.op = "handle"
        /\ Handle("new_events").op = "handle" /\ Sleeping.op = "handle"
    BY DEF Handle, Surfaces, Sleeping
  <2>2. /\ Has(stack', Handle("new_events_init")) <=> Has(stack, Handle("new_events_init"))
        /\ Has(stack', Surfaces) <=> Has(stack, Surfaces)
        /\ Has(stack', Handle("new_events")) <=> Has(stack, Handle("new_events"))
        /\ Has(stack', Sleeping) <=> Has(stack, Sleeping)
    BY <1>1, <1>2, <1>4, <2>1
  <2> QED BY <1>2, <2>2 DEF Told, Iterations
<1> QED BY <1>1, <1>2, <1>3, <1>8, <1>9, <1>10, <1>11, <1>12 DEF Iterations

\* handle_loop_destroyed: no exit is missed, and no timer outlives the loop.
LEMMA CloseKeeps ==
  ASSUME Iterations, Watched, LoopDestroyed
  PROVE  Iterations'
<1>1. /\ runner = "Running" /\ stack # <<>> /\ Head(stack) = Op("close") /\ Head(stack).op = "close"
      /\ Fits(Head(stack), Tail(stack)) /\ Shape(Tail(stack)) /\ Tail(stack) \in Seq(Frames)
      /\ ~RunnerBorrowed
  BY Runs DEF LoopDestroyed, Ops
<1>2. /\ UNCHANGED <<state, schedule, exit, closures, events, awoken, microtasks, inner>>
  BY DEF LoopDestroyed, proxy_vars
<1>3. /\ \A o : Holds(stack, o) <=> Head(stack).op = o \/ Holds(Tail(stack), o)
      /\ \A g : Has(stack, g) <=> Head(stack) = g \/ Has(Tail(stack), g)
  BY <1>1, Innermost DEF Iterations
<1>4. Level(Head(stack)) = 1
  BY <1>1, FrameForms
<1>5. ASSUME NEW j \in DOMAIN Tail(stack) PROVE Tail(stack)[j].op \in {"listen", "visible"}
  <2>1. Tail(stack)[j] \in Frames /\ Level(Tail(stack)[j]) < 1
    BY <1>1, <1>4 DEF Fits
  <2> QED BY <2>1, Lows
<1>6. \A o : o \notin {"listen", "visible"} => ~Holds(Tail(stack), o)
  BY <1>5 DEF Holds
<1>7. ~Holds(stack, "prefetch") /\ ~Holds(stack, "apply")
  BY <1>1, <1>3, <1>6
<1>14. IsClosed => ~CanvasesBorrowed
  BY <1>1, <1>7 DEF IsClosed, Watched, CanvasesBorrowed, OnStack, Holds
<1>8. stack' = Tail(stack)
  BY <1>14 DEF LoopDestroyed
<1>9. Sent'
  BY <1>2 DEF Sent, Iterations
<1>10. IsClosed <=> state = "Exit"
  BY <1>1 DEF IsClosed
<1>11. exit => state = "Exit"
  BY <1>1, <1>7 DEF Iterations, Exits
<1>12. CASE ~IsClosed
  <2>1. UNCHANGED <<runner, phase, window, listening, focused>>
    BY <1>12 DEF LoopDestroyed
  <2>2. Quiet'
    BY <1>2, <2>1 DEF Quiet, Iterations
  <2>3. Exits'
    BY <1>2, <1>10, <1>11, <1>12 DEF Exits
  <2>4. Drains'
    <3>1. ASSUME NEW i \in DOMAIN stack PROVE stack[i].op \notin Drainers
      <4>1. Holds(stack, stack[i].op)
        BY DEF Holds
      <4> QED BY <1>1, <1>3, <1>6, <4>1 DEF Drainers
    <3>2. events = <<>>
      BY <1>1, <1>10, <1>11, <1>12, <3>1 DEF Iterations, Drains, Drainers
    <3> QED BY <1>2, <3>2 DEF Drains
  <2>5. Armed'
    BY <1>1, <1>2, <1>7, <2>1 DEF Iterations, Armed
  <2>6. Unstarted'
    BY <1>1, <2>1 DEF Unstarted
  <2>7. Told'
    <3>1. /\ Handle("new_events_init").op = "handle" /\ Surfaces.op = "handle"
          /\ Handle("new_events").op = "handle" /\ Sleeping.op = "handle"
      BY DEF Handle, Surfaces, Sleeping
    <3>2. /\ Has(stack', Handle("new_events_init")) <=> Has(stack, Handle("new_events_init"))
          /\ Has(stack', Surfaces) <=> Has(stack, Surfaces)
          /\ Has(stack', Handle("new_events")) <=> Has(stack, Handle("new_events"))
          /\ Has(stack', Sleeping) <=> Has(stack, Sleeping)
      BY <1>1, <1>3, <1>8, <3>1
    <3> QED BY <2>1, <3>2 DEF Told, Iterations
  <2> QED BY <1>1, <1>8, <1>9, <2>2, <2>3, <2>4, <2>5, <2>6, <2>7 DEF Iterations
<1>13. CASE IsClosed
  <2>1. runner' = "Destroyed" /\ phase' = "Off"
    BY <1>13, <1>14 DEF LoopDestroyed
  <2>2. schedule' = "none"
    BY <1>1, <1>2, <1>7, <1>10, <1>13 DEF Iterations, Armed, Scheduled
  <2>3. Unstarted'
    BY <1>5, <1>8, <2>1, <2>2 DEF Unstarted
  <2>4. Exits' /\ Drains' /\ Armed' /\ Quiet' /\ Told'
    BY <2>1 DEF Exits, Drains, Armed, Quiet, Told
  <2> QED BY <1>1, <1>8, <1>9, <2>3, <2>4 DEF Iterations
<1> QED BY <1>12, <1>13

\* set_listener is the last call of the start; the listener of visibilitychange
\* returns when its iteration is over.
LEMMA ListenKeeps ==
  ASSUME TypeOK, Iterations, SetListener \/ VisibilityHandled
  PROVE  Iterations'
<1>1. /\ stack # <<>> /\ Head(stack).op \in {"listen", "visible"} /\ stack' = Tail(stack)
      /\ UNCHANGED <<runner, state, schedule, exit, closures, events, awoken, microtasks,
                     inner, window, focused, phase>>
      /\ Head(stack).op = "visible" => UNCHANGED listening
  BY DEF SetListener, VisibilityHandled, Top, loop_vars, window_vars, proxy_vars
<1>2. /\ Head(stack) \in Frames /\ Fits(Head(stack), Tail(stack)) /\ Shape(Tail(stack))
      /\ Tail(stack) \in Seq(Frames)
      /\ \A o : Holds(stack, o) <=> Head(stack).op = o \/ Holds(Tail(stack), o)
      /\ \A g : Has(stack, g) <=> Head(stack) = g \/ Has(Tail(stack), g)
  BY <1>1, Innermost DEF Iterations
<1>3. Head(stack) = Op(Head(stack).op) /\ Level(Head(stack)) = 0
  BY <1>1, <1>2, FrameForms DEF Ops
<1>4. Tail(stack) = <<>>
  <2> DEFINE t == Tail(stack)
  <2>1. t \in Seq(Frames) /\ \A j \in DOMAIN t : Level(t[j]) < 0
    BY <1>2, <1>3 DEF Fits
  <2> HIDE DEF t
  <2>2. SUFFICES ASSUME t # <<>> PROVE FALSE
    BY DEF t
  <2>3. 1 \in DOMAIN t /\ t[1] \in Frames
    BY <2>1, <2>2
  <2>4. Level(t[1]) >= 0 /\ Level(t[1]) \in 0 .. 6
    BY <2>3, Lows, FrameForms
  <2> QED BY <2>1, <2>3, <2>4
<1>5. \A o : o \notin {"listen", "visible"} => ~Holds(stack, o)
  <2>1. \A o : ~Holds(Tail(stack), o)
    BY <1>4 DEF Holds
  <2> QED BY <1>1, <1>2, <2>1
<1>6. \A i \in DOMAIN stack : stack[i].op \notin Drainers
  BY <1>5 DEF Holds, Drainers
<1>7. \A g : g.op = "handle" => ~Has(stack, g)
  BY <1>1, <1>2, <1>4 DEF Has
<1>8. Exits' /\ Armed'
  BY <1>1, <1>5 DEF Iterations, Exits, Armed
<1>9. Drains'
  BY <1>1, <1>6 DEF Iterations, Drains, Drainers
<1>10. Unstarted'
  BY <1>1, <1>4 DEF Iterations, Unstarted, Idle
<1>11. Told' /\ (runner = "Running" => phase = "Asleep")
  <2>1. /\ Handle("new_events_init").op = "handle" /\ Surfaces.op = "handle"
        /\ Handle("new_events").op = "handle" /\ Sleeping.op = "handle"
    BY DEF Handle, Surfaces, Sleeping
  <2>2. \A g : ~Has(stack', g)
    BY <1>1, <1>4 DEF Has
  <2>3. Told
    BY DEF Iterations
  <2>4. runner = "Running" => phase = "Asleep"
    BY <1>7, <2>1, <2>3 DEF Told
  <2>5. Told'
    BY <1>1, <2>2, <2>4 DEF Told
  <2> QED BY <2>4, <2>5
<1>12. runner \in {"Running", "Destroyed"}
  BY <1>1 DEF TypeOK, DataOK, Runners, Iterations, Unstarted, Idle
<1>13. Quiet' /\ Sent'
  BY <1>1, <1>11, <1>12 DEF Iterations, Quiet, Sent
<1> QED BY <1>1, <1>2, <1>8, <1>9, <1>10, <1>11, <1>13 DEF Iterations

\* A callback returns to the handle_event that called it.
LEMMA ReturnKeeps ==
  ASSUME Iterations, AppReturn
  PROVE  Iterations'
<1>1. /\ runner = "Running" /\ stack # <<>> /\ Head(stack).op = "app"
      /\ Fits(Head(stack), Tail(stack)) /\ Tail(stack) \in Seq(Frames)
  BY Runs DEF AppReturn
<1>2. /\ UNCHANGED <<runner, state, schedule, phase, exit, window, inner, listening, awoken,
                     microtasks, events, focused, closures>>
      /\ stack' = Tail(stack)
  BY DEF AppReturn, loop_vars, window_vars, proxy_vars
<1>3. \E i \in DOMAIN stack' : stack'[i].op \in Drainers
  <2>1. Tail(stack) # <<>> /\ Head(Tail(stack)).op = "after"
    BY <1>1 DEF Fits
  <2> QED BY <1>1, <1>2, <2>1, IsPush DEF Drainers
<1>4. Quiet' /\ Sent'
  BY <1>2 DEF Quiet, Sent, Iterations
<1> QED BY <1>1, <1>2, <1>3, <1>4, Pops

\* What the application does inside a callback, without leaving it.
LEMMA ActsKeep ==
  ASSUME Iterations, VisibilityActs = {}, AppExit \/ AppSetControlFlow \/ AppCreateWindow \/ AppDropWindow
                       \/ AppRequestRedraw
  PROVE  Iterations'
<1>1. Top("app")
  BY DEF AppExit, AppSetControlFlow, AppCreateWindow, AppDropWindow, AppRequestRedraw, Acting
<1>2. Holds(stack, "apply")
  BY <1>1, Runs
<1>7. AppCreateWindow => ~CanvasesBorrowed
  <2>1. stack # <<>> /\ Head(stack).op = "app" /\ Clear(Tail(stack)) /\ Shape(stack)
    BY <1>1, Runs DEF Iterations
  <2>3. ~Holds(Tail(stack), "prefetch")
    BY <2>1 DEF Clear, Holds
  <2>2. ~Holds(stack, "prefetch")
    BY <2>1, <2>3, Innermost
  <2> QED BY <2>2 DEF AppCreateWindow, Acting, CanvasesBorrowed, OnStack, Holds
<1>3. UNCHANGED <<runner, state, schedule, phase, stack, events, awoken, microtasks, listening,
                  focused, closures>>
  BY <1>7 DEF AppExit, AppSetControlFlow, AppCreateWindow, AppDropWindow, AppRequestRedraw,
         loop_vars, window_vars, proxy_vars
<1>4. exit => exit'
  BY DEF AppExit, AppSetControlFlow, AppCreateWindow, AppDropWindow, AppRequestRedraw, loop_vars
<1>5. Quiet'
  <2>1. CASE AppExit \/ AppSetControlFlow \/ AppRequestRedraw
    BY <1>3, <2>1 DEF AppExit, AppSetControlFlow, AppRequestRedraw, window_vars, Quiet, Iterations
  <2>2. CASE AppCreateWindow
    BY <1>3, <2>2 DEF AppCreateWindow, Quiet
  <2>3. CASE AppDropWindow
    BY <1>3, <2>3 DEF AppDropWindow, Quiet, Iterations
  <2> QED BY <2>1, <2>2, <2>3
<1>6. Sent'
  BY <1>3 DEF Sent, Iterations
<1> QED BY <1>2, <1>3, <1>4, <1>5, <1>6, Stays

\* A proxy is woken on the main thread, in a callback or between two tasks.
LEMMA WakeUpKeeps ==
  ASSUME Iterations, Idle \/ RunnerBorrowed, LocalWakeUp
  PROVE  Iterations'
<1>1. UNCHANGED <<runner, state, schedule, phase, exit, window, inner, listening, awoken, focused, closures>>
  BY DEF LocalWakeUp, loop_vars, window_vars
<1>2. Sent'
  BY <1>1 DEF Sent, Iterations
<1>3. Loud
  BY DEF LocalWakeUp, MayWake, Loud
<1>4. CASE ~IsClosed /\ runner = "Running" /\ ~RunnerBorrowed
  <2>1. UNCHANGED <<stack, events>>
    BY <1>4 DEF LocalWakeUp
  <2>2. Quiet'
    BY <1>1, <1>3 DEF Loud, Quiet
  <2> QED BY <1>1, <1>2, <2>1, <2>2, Stays
<1>5. CASE ~(~IsClosed /\ runner = "Running" /\ ~RunnerBorrowed)
  <2>1. SendEvents(<<"user_wake_up">>, stack)
    BY <1>5 DEF LocalWakeUp
  <2>2. "user_wake_up" \in Events
    BY DEF Events
  <2> QED BY <1>1, <1>2, <1>3, <2>1, <2>2, SendsKeeps
<1> QED BY <1>4, <1>5

\* EventLoopProxy::wake_up in a callback.
LEMMA AppWakeUpKeeps ==
  ASSUME Iterations, AppWakeUp
  PROVE  Iterations'
<1>1. Top("app")
  BY DEF AppWakeUp, Acting
<1>2. RunnerBorrowed
  BY <1>1, Runs
<1> QED BY <1>2, WakeUpKeeps DEF AppWakeUp

\* focus_window in a callback, which calls the listener of the focus event.
LEMMA FocusKeeps ==
  ASSUME Iterations, AppFocusWindow
  PROVE  Iterations'
<1>1. /\ Top("app") /\ window = "held"
      /\ UNCHANGED <<runner, state, schedule, phase, exit, window, inner, listening, awoken,
                     microtasks, closures>>
  BY DEF AppFocusWindow, Acting, loop_vars, window_vars, proxy_vars
<1>2. RunnerBorrowed
  BY <1>1, Runs
<1>3. Sent'
  BY <1>1 DEF Sent, Iterations
<1>4. Loud
  BY <1>1 DEF Iterations, Quiet, Loud
<1>5. (stack' = stack /\ events' = events) \/ SendEvents(<<"focused">>, stack)
  BY DEF AppFocusWindow, RunClosure
<1>6. CASE stack' = stack /\ events' = events
  <2>1. Quiet'
    BY <1>1, <1>4 DEF Loud, Quiet
  <2> QED BY <1>1, <1>3, <1>6, <2>1, Stays
<1>7. CASE SendEvents(<<"focused">>, stack)
  <2>1. "focused" \in Events
    BY DEF Events
  <2> QED BY <1>1, <1>2, <1>3, <1>4, <1>7, <2>1, SendsKeeps
<1> QED BY <1>5, <1>6, <1>7

----
(* Tasks of the browser, and the worker *)

\* An iteration is started by run_app or by the promise of MonitorHandler.
LEMMA StartsKeep ==
  ASSUME Iterations, runner \in {"Pending", "Initializing"}, runner' = "Running", stack' = StartUp,
         UNCHANGED <<phase, window, inner, listening, awoken, microtasks, events, focused, closures>>
  PROVE  Iterations'
<1>1. Opens(stack', "new_events_init", <<Op("listen")>>)
  <2>1. "can_create_surfaces" \in Callbacks
    BY DEF Callbacks
  <2> QED BY <2>1, OpensTwo DEF StartUp, Bases
<1>2. phase = "Off"
  BY DEF Iterations, Unstarted
<1>3. /\ Shape(stack') /\ stack' # <<>> /\ Holds(stack', "apply") /\ Holds(stack', "handle")
      /\ Has(stack', Handle("new_events_init"))
  BY <1>1 DEF Opens
<1>4. Exits' /\ Armed' /\ Unstarted'
  BY <1>3 DEF Exits, Armed, Unstarted
<1>5. Drains'
  BY <1>3 DEF Drains, Holds
<1>6. Told'
  BY <1>2, <1>3 DEF Told
<1>7. Quiet' /\ Sent'
  BY DEF Quiet, Sent, Iterations
<1> QED BY <1>3, <1>4, <1>5, <1>6, <1>7 DEF Iterations

\* run_app starts the loop, or waits for the monitors.
LEMMA StartKeeps ==
  ASSUME Iterations, Start
  PROVE  Iterations'
<1>1. /\ Idle /\ runner = "Pending" /\ phase = "Off" /\ schedule = "none"
      /\ UNCHANGED <<state, exit, schedule, phase, window, inner, listening, awoken, microtasks,
                     events, focused, closures>>
  BY DEF Start, window_vars, proxy_vars, Iterations, Unstarted
<1>2. CASE monitor_init
  <2>1. runner' = "Initializing" /\ stack' = stack
    BY <1>2 DEF Start
  <2>2. Unstarted'
    BY <1>1, <2>1 DEF Unstarted, Idle
  <2> QED BY <1>1, <2>1, <2>2 DEF Iterations, Exits, Drains, Armed, Quiet, Told, Sent
<1>3. CASE ~monitor_init
  <2>1. runner' = "Running" /\ stack' = StartUp
    BY <1>3 DEF Start
  <2> QED BY <1>1, <2>1, StartsKeep
<1> QED BY <1>2, <1>3

\* start_delayed starts it then.
LEMMA DelayedKeeps ==
  ASSUME Iterations, StartDelayed
  PROVE  Iterations'
<1>1. UNCHANGED <<state, exit, schedule, phase, window, inner, listening, awoken, microtasks,
                  events, focused, closures>>
  BY DEF StartDelayed, window_vars, proxy_vars
<1>2. CASE runner = "Initializing"
  <2>1. runner' = "Running" /\ stack' = StartUp
    BY <1>2 DEF StartDelayed
  <2> QED BY <1>1, <1>2, <2>1, StartsKeep
<1>3. CASE runner # "Initializing"
  <2>1. UNCHANGED <<runner, stack>>
    BY <1>3 DEF StartDelayed
  <2>2. Quiet' /\ Sent'
    BY <1>1, <2>1 DEF Quiet, Sent, Iterations
  <2> QED BY <1>1, <2>1, <2>2, Stays
<1> QED BY <1>2, <1>3

\* The timer of the State starts an iteration.
LEMMA FiresKeeps ==
  ASSUME Iterations, ScheduleFires
  PROVE  Iterations'
<1>1. /\ Idle /\ stack = <<>> /\ runner = "Running"
      /\ UNCHANGED <<runner, state, exit, phase, closures>>
      /\ stack' = RunUntilCleared(<<"new_events">>, <<>>)
  BY DEF ScheduleFires, Idle, Iterations, Unstarted
<1>2. Opens(stack', "new_events", <<>>) /\ <<>> \in Bases
  BY <1>1, OpensOne DEF Bases
<1>3. Sent'
  BY <1>1 DEF Sent, Iterations
<1> QED BY <1>1, <1>2, <1>3, Wakes

\* The listener of visibilitychange sends an event under its own frame.
LEMMA VisibleKeeps ==
  ASSUME TypeOK, Iterations, Watched, VisibilityChange
  PROVE  Iterations'
<1> DEFINE base == <<Op("visible")>>
<1>1. /\ Idle /\ SendEvents(<<"window_event">>, base) /\ runner \in {"Running", "Destroyed"}
      /\ UNCHANGED <<runner, state, schedule, phase, exit, closures, window, inner, listening,
                     awoken, microtasks, focused>>
      /\ "window_event" \in Events /\ Loud
  BY DEF VisibilityChange, loop_vars, window_vars, proxy_vars, Events, Watched, TypeOK, DataOK,
         Runners, Iterations, Quiet, Loud
<1>2. Sent'
  BY <1>1 DEF Sent, Iterations
<1>3. ~IsClosed \/ runner = "Destroyed"
  <2>1. ~Holds(stack, "apply") /\ ~Holds(stack, "close")
    BY <1>1 DEF Idle, Holds
  <2>2. runner = "Running" => ~exit
    BY <2>1 DEF Iterations, Exits
  <2> QED BY <2>2 DEF IsClosed, Watched
<1>4. ~RunnerBorrowed
  BY <1>1 DEF Idle, RunnerBorrowed, OnStack
<1>5. CASE stack' = base /\ runner = "Destroyed"
  <2>1. Shape(stack') /\ \A i \in DOMAIN stack' : stack'[i].op = "visible"
    <3>1. Op("visible") \in Frames /\ Op("visible").op = "visible" /\ Level(Op("visible")) = 0
          /\ Op("visible") \notin Opening
      BY FrameForms DEF Ops
    <3> DEFINE z == <<>>
    <3>2. z \in Seq(Frames) /\ Shape(z) /\ Fits(Op("visible"), z) /\ Push(Op("visible"), z) = base
      BY <3>1 DEF Shape, Fits, Clear, Has, Push, Opening, Waking
    <3> HIDE DEF z
    <3> QED BY <1>5, <3>1, <3>2, ShapePush
  <2>2. Unstarted'
    BY <1>1, <1>5, <2>1 DEF Unstarted, Iterations
  <2> QED BY <1>1, <1>2, <1>5, <2>1, <2>2 DEF Iterations, Exits, Drains, Armed, Quiet, Told
<1>6. CASE base \in Bases /\ runner = "Running" /\ Opens(stack', "new_events", base)
  BY <1>1, <1>2, <1>6, Wakes
<1>7. stack # base
  BY <1>1 DEF Idle
<1> HIDE DEF base
<1> QED BY <1>1, <1>3, <1>4, <1>5, <1>6, <1>7, Sends DEF base

\* A task sends what it brings to the loop.
LEMMA TasksKeep ==
  ASSUME Iterations, AnimationFrame \/ Microtask \/ ProxyTask \/ DomEvent \/ Blur
  PROVE  Iterations'
<1>2. UNCHANGED <<runner, state, schedule, phase, exit, closures, window, inner, listening>>
  BY DEF AnimationFrame, Microtask, ProxyTask, DomEvent, Blur, loop_vars, window_vars
<1>3. Sent'
  BY <1>2 DEF Sent, Iterations
<1>4. CASE AnimationFrame
  <2>1. Idle /\ SendEvents(<<>>, stack) /\ UNCHANGED <<awoken, microtasks, focused>>
    BY <1>4 DEF AnimationFrame, proxy_vars
  <2>2. events' = events => Quiet'
    BY <1>2, <2>1 DEF Quiet, Iterations
  <2> QED BY <1>2, <1>3, <2>1, <2>2, SendsKeeps
<1>5. CASE Microtask \/ ProxyTask \/ DomEvent \/ Blur
  <2>1. Idle /\ Loud
    BY <1>5 DEF Microtask, ProxyTask, DomEvent, Blur, Iterations, Quiet, Loud
  <2>2. \E e \in Events : SendEvents(<<e>>, stack)
    BY <1>5 DEF Microtask, ProxyTask, DomEvent, Blur, Events
  <2> QED BY <1>2, <1>3, <2>1, <2>2, SendsKeeps
<1> QED BY <1>4, <1>5

\* handle_unload ends the loop between two tasks.
LEMMA UnloadKeeps ==
  ASSUME Iterations, Unload
  PROVE  Iterations'
<1>1. /\ Idle /\ stack' = stack /\ runner' = "Destroyed" /\ schedule' = "none" /\ phase' = "Off"
      /\ UNCHANGED closures
  BY DEF Unload
<1>2. Unstarted'
  BY <1>1 DEF Unstarted, Idle
<1> QED BY <1>1, <1>2 DEF Iterations, Exits, Drains, Armed, Quiet, Told, Sent

\* The end of the window's task, and the worker, leave the stack alone.
LEMMA OthersKeep ==
  ASSUME Iterations, "focus" \notin Closures,
         DispatcherTask \/ DispatcherTaskEnds \/ WorkerWakesProxy \/ WorkerDispatches
  PROVE  Iterations'
<1>1. CASE DispatcherTask
  <2>1. UNCHANGED <<stack, focused, events>> /\ closures' = Tail(closures)
        /\ Tail(closures) \in Seq(Closures)
    BY <1>1, ClosureIs DEF DispatcherTask
  <2>2. UNCHANGED <<runner, state, schedule, phase, exit, window, inner, listening, awoken, microtasks>>
    BY <1>1 DEF DispatcherTask, loop_vars, window_vars, proxy_vars
  <2>3. Quiet' /\ Sent'
    BY <2>1, <2>2 DEF Quiet, Sent, Iterations
  <2> QED BY <2>1, <2>2, <2>3, Stays
<1>2. CASE DispatcherTaskEnds
  <2>1. UNCHANGED <<runner, state, schedule, phase, exit, window, listening, awoken, microtasks,
                    stack, focused, events, closures>> /\ inner' = FALSE
    BY <1>2 DEF DispatcherTaskEnds, loop_vars, proxy_vars
  <2>2. Quiet' /\ Sent'
    BY <2>1 DEF Quiet, Sent, Iterations
  <2> QED BY <2>1, <2>2, Stays
<1>3. CASE WorkerWakesProxy
  <2>1. UNCHANGED <<runner, state, schedule, phase, exit, window, inner, listening, microtasks,
                    stack, focused, events, closures>> /\ Loud
    BY <1>3 DEF WorkerWakesProxy, loop_vars, window_vars, MayWake, Loud
  <2>2. Quiet' /\ Sent'
    BY <2>1 DEF Quiet, Sent, Iterations, Loud
  <2> QED BY <2>1, <2>2, Stays
<1>4. CASE WorkerDispatches
  <2>1. UNCHANGED <<runner, state, schedule, phase, exit, window, inner, listening, awoken,
                    microtasks, stack, focused, events>>
    BY <1>4 DEF WorkerDispatches, loop_vars, window_vars, proxy_vars
  <2>2. Sent'
    <3>1. closures \in Seq(Closures)
      BY DEF Iterations, Sent
    <3>2. PICK c \in Closures : closures' = Append(closures, c)
      BY <1>4 DEF WorkerDispatches
    <3> QED BY <3>1, <3>2 DEF Sent
  <2>3. Quiet'
    BY <2>1 DEF Quiet, Iterations
  <2> QED BY <2>1, <2>2, <2>3, Stays
<1> QED BY <1>1, <1>2, <1>3, <1>4

----
(* The invariant *)

\* Every step keeps the invariant.
LEMMA NextIterations ==
  ASSUME TypeOK, Iterations, Watched, "focus" \notin Closures, VisibilityActs = {}, [Next]_vars
  PROVE  Iterations'
<1>1. CASE Loop
  BY <1>1, CallKeeps, AfterKeeps, PrefetchKeeps, TakeKeeps, DestroyKeeps, RedrawsKeeps, ApplyKeeps,
     CloseKeeps, ListenKeeps DEF Loop
<1>2. CASE Application
  BY <1>2, ReturnKeeps, ActsKeep, AppWakeUpKeeps, FocusKeeps DEF Application
<1>3. CASE Tasks
  BY <1>3, DelayedKeeps, FiresKeeps, TasksKeep, OthersKeep DEF Tasks
<1>4. CASE Others
  BY <1>4, StartKeeps, TasksKeep, VisibleKeeps, WakeUpKeeps, UnloadKeeps, OthersKeep DEF Others, PageWakesProxy
<1>5. CASE UNCHANGED vars
  <2>1. UNCHANGED <<runner, state, schedule, phase, exit, window, inner, listening, awoken,
                    microtasks, stack, focused, events, closures>>
    BY <1>5 DEF vars, loop_vars, window_vars, proxy_vars
  <2>2. Quiet' /\ Sent'
    BY <2>1 DEF Quiet, Sent, Iterations
  <2> QED BY <2>1, <2>2, Stays
<1> QED BY <1>1, <1>2, <1>3, <1>4, <1>5 DEF Next

\* No frame of the listener is pushed but by visibilitychange.
LEMMA Beneath ==
  ASSUME TypeOK, Iterations, "focus" \notin Closures, VisibilityActs = {}, Next,
         ~VisibilityChange
  PROVE  Holds(stack', "visible") => Holds(stack, "visible")
<1>1. \A o \in Ops \ {"visible"} : Op(o) \in Frames /\ Op(o).op # "visible"
  BY FrameForms
<1>2. \A e \in Callbacks : /\ Handle(e) \in Frames /\ Handle(e).op # "visible"
                            /\ App(e) \in Frames /\ App(e).op # "visible"
  BY FrameForms
<1>3. stack \in Seq(Frames) /\ (stack # <<>> => Tail(stack) \in Seq(Frames) /\ (Holds(Tail(stack), "visible") => Holds(stack, "visible")))
  BY Innermost DEF Iterations, Shape
<1>4. ASSUME NEW s \in Seq(Frames), NEW f \in Frames, f.op # "visible"
      PROVE  Push(f, s) \in Seq(Frames) /\ (Holds(Push(f, s), "visible") => Holds(s, "visible"))
  BY <1>4, PushHolds, Pushed
<1>5. ASSUME NEW evs, evs = <<>> \/ \E e \in Events : evs = <<e>>, SendEvents(evs, stack),
             Idle \/ RunnerBorrowed
      PROVE  Holds(stack', "visible") => Holds(stack, "visible")
  <2>1. CASE stack' = stack
    BY <2>1
  <2>2. CASE Idle /\ Opens(stack', "new_events", stack)
    BY <2>2 DEF Opens, Idle
  <2> QED BY <1>5, <2>1, <2>2, Sends
<1>6. CASE HandleEvent
  <2> DEFINE e == Head(stack).arg
             u == Push(Op("after"), Tail(stack))
  <2>1. stack # <<>> /\ e \in Callbacks /\ ~RunnerBorrowed
    BY <1>6, Runs, FrameForms DEF HandleEvent
  <2>2. u \in Seq(Frames) /\ (Holds(u, "visible") => Holds(Tail(stack), "visible"))
    BY <1>1, <1>3, <1>4, <2>1 DEF Ops
  <2> HIDE DEF u, e
  <2>3. Holds(Push(App(e), u), "visible") => Holds(u, "visible")
    BY <1>2, <1>4, <2>1, <2>2
  <2>4. stack' \in {Push(App(e), u), Tail(stack)}
    BY <1>6, <2>1 DEF HandleEvent, u, e
  <2> QED BY <1>3, <2>1, <2>2, <2>3, <2>4
<1>7. CASE AfterCallback
  <2> DEFINE u == Push(Op("take"), Tail(stack))
  <2>1. stack # <<>> /\ stack' \in {Tail(stack), u, Push(Op("prefetch"), u)}
    BY <1>7 DEF AfterCallback, Top
  <2>2. u \in Seq(Frames) /\ (Holds(u, "visible") => Holds(Tail(stack), "visible"))
    BY <1>1, <1>3, <1>4, <2>1 DEF Ops
  <2> HIDE DEF u
  <2>3. Holds(Push(Op("prefetch"), u), "visible") => Holds(u, "visible")
    BY <1>1, <1>4, <2>2 DEF Ops
  <2> QED BY <1>3, <2>1, <2>2, <2>3
<1>8. CASE Prefetch
  <2>1. CASE closures = <<>>
    BY <1>3, <1>8, <2>1 DEF Prefetch, Top
  <2>2. CASE closures # <<>>
    BY <1>8, <2>2, ClosureIs DEF Prefetch
  <2> QED BY <2>1, <2>2
<1>9. CASE Take
  <2> DEFINE evs == IF awoken THEN Append(events, "user_wake_up") ELSE events
  <2>1. events \in Seq(Events) /\ "user_wake_up" \in Events /\ Events \subseteq Callbacks
    BY DEF TypeOK, DataOK, Events, Callbacks
  <2>2. evs \in Seq(Events)
    BY <2>1
  <2>3. stack # <<>> /\ stack' = IF evs = <<>> THEN Tail(stack) ELSE Push(Handle(Head(evs)), Tail(stack))
    BY <1>9 DEF Take, Top
  <2> HIDE DEF evs
  <2>4. evs # <<>> => Head(evs) \in Callbacks
    BY <2>1, <2>2
  <2> QED BY <1>2, <1>3, <1>4, <2>3, <2>4
<1>10. CASE ProcessDestroyPending
  <2>1. stack # <<>> /\ stack' \in {Tail(stack), Push(Op("trap"), stack), Push(Handle("destroyed"), stack)}
    BY <1>10 DEF ProcessDestroyPending, Top, Trap
  <2> QED BY <1>1, <1>2, <1>3, <1>4, <2>1 DEF Ops, Callbacks
<1>11. CASE Redraws
  <2>1. stack # <<>> /\ stack' \in {Tail(stack), Push(Handle("redraw_requested"), Tail(stack))}
    BY <1>11 DEF Redraws, Top
  <2> QED BY <1>2, <1>3, <1>4, <2>1 DEF Callbacks
<1>12. CASE LoopDestroyed
  <2>1. stack # <<>> /\ stack' \in {Tail(stack), Push(Op("trap"), stack)}
    BY <1>12 DEF LoopDestroyed, Top, Trap
  <2> QED BY <1>1, <1>3, <1>4, <2>1 DEF Ops
<1>13. CASE ApplyControlFlow \/ SetListener \/ VisibilityHandled \/ AppReturn
  BY <1>3, <1>13 DEF ApplyControlFlow, SetListener, VisibilityHandled, AppReturn, Top
<1>14. CASE AppExit \/ AppSetControlFlow \/ AppDropWindow \/ AppRequestRedraw \/ AppCreateWindow
  <2>1. stack # <<>> /\ stack' \in {stack, Push(Op("trap"), Tail(stack))}
    BY <1>14 DEF AppExit, AppSetControlFlow, AppDropWindow, AppRequestRedraw, AppCreateWindow, Trap,
       Acting, Top
  <2> QED BY <1>1, <1>3, <1>4, <2>1 DEF Ops
<1>15. CASE AppWakeUp \/ AppFocusWindow
  <2>1. RunnerBorrowed
    BY <1>15, Runs DEF AppWakeUp, AppFocusWindow, Acting
  <2>2. stack' = stack \/ \E e \in Events : SendEvents(<<e>>, stack)
    BY <1>15 DEF AppWakeUp, LocalWakeUp, AppFocusWindow, RunClosure, Events
  <2> QED BY <1>5, <2>1, <2>2
<1>16. CASE Start \/ StartDelayed
  <2>1. stack' = stack \/ stack' = StartUp
    BY <1>16 DEF Start, StartDelayed
  <2>2. "can_create_surfaces" \in Callbacks /\ <<Op("listen")>> # <<Op("visible")>>
    <3>1. (<<Op("listen")>>)[1] # (<<Op("visible")>>)[1]
      BY DEF Op
    <3> QED BY <3>1 DEF Callbacks
  <2>3. Opens(StartUp, "new_events_init", <<Op("listen")>>)
    BY <2>2, OpensTwo DEF StartUp, Bases
  <2> QED BY <2>1, <2>2, <2>3 DEF Opens
<1>17. CASE ScheduleFires
  <2>1. Opens(stack', "new_events", <<>>)
    BY <1>17, OpensOne DEF ScheduleFires, Idle, Bases
  <2> QED BY <2>1 DEF Opens
<1>18. CASE DomEvent \/ Blur \/ AnimationFrame \/ Microtask \/ ProxyTask \/ PageWakesProxy
  <2>1. Idle /\ (stack' = stack \/ SendEvents(<<>>, stack) \/ \E e \in Events : SendEvents(<<e>>, stack))
    BY <1>18 DEF DomEvent, Blur, AnimationFrame, Microtask, ProxyTask, PageWakesProxy, LocalWakeUp, Events
  <2> QED BY <1>5, <2>1
<1>19. CASE DispatcherTask \/ DispatcherTaskEnds \/ Unload \/ WorkerWakesProxy \/ WorkerDispatches
  BY <1>19, ClosureIs DEF DispatcherTask, DispatcherTaskEnds, Unload, WorkerWakesProxy, WorkerDispatches
<1>20. CASE Loop
  BY <1>6, <1>7, <1>8, <1>9, <1>10, <1>11, <1>12, <1>13, <1>20 DEF Loop
<1>21. CASE Application
  BY <1>13, <1>14, <1>15, <1>21 DEF Application
<1>22. CASE Tasks \/ Others
  BY <1>16, <1>17, <1>18, <1>19, <1>22 DEF Tasks, Others
<1> QED BY <1>20, <1>21, <1>22 DEF Next

\* An exit, and the end of a window, wait for the listener of visibilitychange.
LEMMA NextWatched ==
  ASSUME TypeOK, Iterations, Watched, "focus" \notin Closures, VisibilityActs = {}, [Next]_vars
  PROVE  Watched'
<1> USE DEF loop_vars, window_vars, paint_vars, proxy_vars
<1> DEFINE Quits == /\ listening' => runner' \notin {"Pending", "Initializing"}
                    /\ destroy_pending' => ~all_canvases' /\ window' # "none"
                    /\ state' = "Exit" => exit'
           Bound == Holds(stack', "visible") /\ runner' = "Running" => all_canvases' /\ ~exit'
<1>1. CASE VisibilityChange
  <2>1. Idle /\ all_canvases /\ ~Holds(stack, "apply") /\ ~Holds(stack, "close")
    BY <1>1 DEF VisibilityChange, Idle, Holds
  <2>2. runner = "Running" => ~exit
    BY <2>1 DEF Iterations, Exits
  <2> QED BY <1>1, <2>1, <2>2 DEF VisibilityChange, Watched
<1>2. CASE UNCHANGED vars
  BY <1>2 DEF vars, Watched
<1>3. CASE Next /\ ~VisibilityChange
  <2>1. Holds(stack', "visible") => Holds(stack, "visible")
    BY <1>3, Beneath
  <2>2. CASE Start \/ StartDelayed \/ SetListener
    <3>2. SetListener => /\ UNCHANGED <<exit, all_canvases, state, runner, window, destroy_pending>>
                         /\ runner \notin {"Pending", "Initializing"}
      BY DEF SetListener, Top, Iterations, Unstarted, Idle
    <3>3. stack = <<>> => ~Holds(stack, "visible")
      BY DEF Holds
    <3>4. CASE SetListener
      BY <2>1, <3>2, <3>4 DEF Watched
    <3>5. CASE Start \/ StartDelayed
      <4>1. /\ UNCHANGED <<exit, all_canvases, state, listening, window, destroy_pending>>
            /\ runner' = "Running" => runner = "Running" \/ stack = <<>>
            /\ runner \notin {"Pending", "Initializing"} => runner' = runner
        BY <3>5 DEF Start, StartDelayed, Idle, Iterations, Unstarted
      <4> QED BY <2>1, <3>3, <4>1 DEF Watched
    <3> QED BY <2>2, <3>4, <3>5
  <2>3. CASE HandleEvent
    <3>1. runner = "Running" /\ ~RunnerBorrowed
      BY <2>3, Runs DEF HandleEvent
    <3> QED BY <2>1, <2>3, <3>1 DEF HandleEvent, IsClosed, Watched
  <2>4. CASE ProcessDestroyPending \/ LoopDestroyed
    BY <2>1, <2>4 DEF ProcessDestroyPending, LoopDestroyed, DropWindow, Watched
  <2>5. CASE ApplyControlFlow
    <3>1. control_flow # "Exit"
      BY WebAssumption DEF TypeOK, DataOK
    <3> QED BY <2>1, <2>5, <3>1 DEF ApplyControlFlow, Watched
  <2>6. CASE AppExit \/ AppCreateWindow \/ AppDropWindow \/ DispatcherTaskEnds \/ Unload
    <3>1. DispatcherTaskEnds \/ Unload => stack = <<>> /\ ~Holds(stack, "visible")
      BY DEF DispatcherTaskEnds, Unload, Idle, Holds
    <3>2. AppExit => ~Holds(stack, "visible")
      BY DEF AppExit, Acting, OnStack, Holds
    <3> QED BY <2>1, <2>6, <3>1, <3>2 DEF AppExit, AppCreateWindow, AppDropWindow, DispatcherTaskEnds,
             Unload, DropWindow, Watched
  <2>7. CASE UNCHANGED <<exit, all_canvases, state, runner, listening, window, destroy_pending>>
    BY <2>1, <2>7 DEF Watched
  <2>8. \/ Start \/ StartDelayed \/ SetListener \/ HandleEvent \/ ProcessDestroyPending \/ LoopDestroyed
        \/ ApplyControlFlow \/ AppExit \/ AppCreateWindow \/ AppDropWindow \/ DispatcherTaskEnds \/ Unload
        \/ UNCHANGED <<exit, all_canvases, state, runner, listening, window, destroy_pending>>
    BY <1>3 DEF Next, Loop, Application, Tasks, Others, AfterCallback, Prefetch, Take, Redraws,
       VisibilityHandled, AppReturn, AppSetControlFlow, AppWakeUp, LocalWakeUp, AppRequestRedraw,
       AppFocusWindow, ScheduleFires, AnimationFrame, Microtask, ProxyTask, DispatcherTask,
       DomEvent, Blur, PageWakesProxy, WorkerWakesProxy, WorkerDispatches
  <2> QED BY <2>2, <2>3, <2>4, <2>5, <2>6, <2>7, <2>8
<1> QED BY <1>1, <1>2, <1>3

\* It holds at the start.
LEMMA InitIterations ==
  ASSUME Init
  PROVE  Iterations /\ Watched
<1>1. stack = <<>> /\ closures = <<>>
  BY DEF Init
<1>2. Shape(stack) /\ Sent
  BY <1>1 DEF Shape, Sent
<1> QED BY <1>1, <1>2 DEF Init, Iterations, Exits, Drains, Armed, Unstarted, Quiet, Told, Idle,
           Watched, Holds

\* At no time a RefCell is found borrowed, and an event or a timer is missed by
\* a loop that waits.
LEMMA NothingIsMissed ==
  ASSUME Iterations
  PROVE  Undisturbed
<1>1. NoBorrowPanic
  BY DEF Iterations, Shape, Fits, NoBorrowPanic, OnStack
<1>2. QueueDrained
  <2>1. SUFFICES ASSUME Idle, runner = "Running" PROVE events = <<>>
    BY DEF QueueDrained
  <2>2. \A o : ~Holds(stack, o)
    BY <2>1 DEF Idle, Holds
  <2>3. ~exit
    BY <2>1, <2>2 DEF Iterations, Exits
  <2>4. DOMAIN stack = {}
    BY <2>1 DEF Idle
  <2> QED BY <2>1, <2>3, <2>4 DEF Iterations, Drains
<1>3. ScheduleArmed
  BY DEF Iterations, Armed, Idle, Holds, ScheduleArmed
<1> QED BY <1>1, <1>2, <1>3 DEF Undisturbed

\* No RefCell is found borrowed, no event waits in the queue of a loop that waits, and its
\* timer is the one of its State: for any acts of the application and any bound, and also
\* when proxies are woken before can_create_surfaces. The closures of the worker must not call
\* back (Window::focus_window does, and starts an iteration inside the iteration), and neither
\* exit nor a window may come in the Occluded that visibilitychange brings: its listener keeps
\* all_canvases borrowed, which both borrow again.
THEOREM NothingIsLeft ==
  ASSUME "focus" \notin Closures, VisibilityActs = {}
  PROVE  Spec => []Undisturbed
<1>1. Init => Iterations /\ Watched
  BY InitIterations
<1>2. TypeOK /\ (Iterations /\ Watched) /\ [Next]_vars => (Iterations /\ Watched)'
  BY NextIterations, NextWatched
<1>3. Iterations => Undisturbed
  BY NothingIsMissed
<1> QED BY <1>1, <1>2, <1>3, TypeCorrectness, PTL DEF Spec

----
(* The contract of ApplicationHandler *)

\* The callback that a stack runs.
AppsOf(s) == {i \in DOMAIN s : s[i].op = "app"}
InsideOf(s) == IF AppsOf(s) = {} THEN "none"
               ELSE CallbackName(s[CHOOSE i \in AppsOf(s) : TRUE].arg)

\* A stack without a callback.
LEMMA NoneInside ==
  ASSUME NEW s, ~Holds(s, "app")
  PROVE  InsideOf(s) = "none"
BY DEF InsideOf, AppsOf, Holds

\* The callback is the innermost frame.
LEMMA OneInside ==
  ASSUME NEW s, Shape(s), s # <<>>
  PROVE  InsideOf(s) = IF Head(s).op = "app" THEN CallbackName(Head(s).arg) ELSE "none"
<1>1. /\ Fits(Head(s), Tail(s))
      /\ \A o : Holds(s, o) <=> Head(s).op = o \/ Holds(Tail(s), o)
  BY Innermost
<1>2. ~Holds(Tail(s), "app")
  BY <1>1 DEF Fits, Clear, Holds
<1>3. CASE Head(s).op # "app"
  BY <1>1, <1>2, <1>3, NoneInside
<1>4. CASE Head(s).op = "app"
  <2>1. /\ s \in Seq(Frames) /\ Head(s) = s[1] /\ 1 \in DOMAIN s
    BY IsPush DEF Shape
  <2>2. \A i \in DOMAIN s : i # 1 => i - 1 \in DOMAIN Tail(s) /\ Tail(s)[i - 1] = s[i]
    BY <2>1
  <2>3. AppsOf(s) = {1}
    BY <1>2, <1>4, <2>1, <2>2, ZenonT(40) DEF AppsOf, Holds
  <2>4. (CHOOSE i \in AppsOf(s) : TRUE) = 1
    BY <2>3
  <2> QED BY <1>4, <2>1, <2>3, <2>4 DEF InsideOf
<1> QED BY <1>3, <1>4

\* What the contract sees of the stack, now and after a step.
LEMMA InsideIs ==
  /\ Inside = InsideOf(stack)
  /\ Inside' = InsideOf(stack')
BY DEF Inside, InsideOf, AppFrame, AppsOf

\* What a callback tells the application, when the last stage was the one that
\* the iteration is at.
LEMMA EventRefines ==
  ASSUME Iterations, Iterations', ~Early, HandleEvent
  PROVE  App_!AppNext
<1> DEFINE e == Head(stack).arg
<1>1. /\ runner = "Running" /\ stack # <<>> /\ Head(stack) \in Frames /\ Fits(Head(stack), Tail(stack))
      /\ Clear(Tail(stack)) /\ ~RunnerBorrowed /\ Head(stack).op = "handle" /\ Shape(stack)
      /\ Tail(stack) \in Seq(Frames)
  BY Runs DEF HandleEvent, Iterations
<1>2. e \in Callbacks /\ Head(stack) = Handle(e)
  BY <1>1, FrameForms
<1>3. phase' = PhaseAfter(e) /\ stack' = Push(App(e), Push(Op("after"), Tail(stack)))
  BY <1>1 DEF HandleEvent
<1>4. Inside = "none"
  BY <1>1, OneInside, InsideIs
<1>5. Inside' = CallbackName(e)
  <2>1. /\ App(e) \in Frames /\ App(e).op = "app" /\ App(e).arg = e /\ Op("after") \in Frames
    BY <1>2, FrameForms DEF Ops
  <2>2. Push(Op("after"), Tail(stack)) \in Seq(Frames)
    BY <1>1, <2>1, Pushed
  <2>3. stack' # <<>> /\ Head(stack') = App(e)
    BY <1>3, <2>1, <2>2, Pushed
  <2>4. Shape(stack')
    BY DEF Iterations
  <2> QED BY <2>1, <2>3, <2>4, OneInside, InsideIs
<1>6. \A g : Has(stack, g) <=> Head(stack) = g \/ Has(Tail(stack), g)
  BY <1>1, Innermost
<1>7. ~Has(Tail(stack), Handle("new_events_init")) /\ ~Has(Tail(stack), Handle("new_events"))
  BY <1>1 DEF Clear, Has, Waking
<1>8. Told
  BY DEF Iterations
<1>9. \A x \in Callbacks : Handle(x) = Head(stack) => x = e
  BY <1>2, Distinct
<1> HIDE DEF e
<1>10. CASE e = "new_events_init"
  <2>1. phase = "Off" /\ phase' = "Init" /\ Inside' = "new_events_init"
    BY <1>1, <1>2, <1>3, <1>5, <1>6, <1>8, <1>10 DEF Told, PhaseAfter, CallbackName, Events
  <2> QED BY <1>4, <2>1 DEF App_!AppNext, App_!Begin, App_!Invoke
<1>11. CASE e = "can_create_surfaces"
  <2>1. Has(stack, Surfaces) /\ ~Has(stack, Handle("new_events_init"))
    BY <1>2, <1>6, <1>7, <1>9, <1>11 DEF Surfaces, Callbacks
  <2>2. phase = "Init" /\ phase' = "Awake" /\ Inside' = "can_create_surfaces"
    BY <1>1, <1>3, <1>5, <1>8, <1>11, <2>1 DEF Told, PhaseAfter, CallbackName, Events
  <2> QED BY <1>4, <2>2 DEF App_!AppNext, App_!CreateSurfaces, App_!Invoke
<1>12. CASE e = "new_events"
  <2>1. ~Has(Tail(stack), Surfaces)
    BY <1>1, <1>2, <1>12 DEF Fits
  <2>2. /\ Has(stack, Handle("new_events")) /\ ~Has(stack, Handle("new_events_init"))
        /\ ~Has(stack, Surfaces)
    BY <1>2, <1>6, <1>7, <1>9, <1>12, <2>1 DEF Surfaces, Callbacks
  <2>3. phase = "Asleep" /\ phase' = "Awake" /\ Inside' = "new_events"
    BY <1>1, <1>3, <1>5, <1>8, <1>12, <2>2 DEF Told, PhaseAfter, CallbackName, Events
  <2> QED BY <1>4, <2>3 DEF App_!AppNext, App_!Wake, App_!Invoke
<1>13. CASE e = "about_to_wait"
  <2>1. \A j \in DOMAIN Tail(stack) : Level(Tail(stack)[j]) < 3
    BY <1>1, <1>2, <1>13, FrameForms DEF Fits
  <2>2. Level(Surfaces) = 6
    BY FrameForms DEF Surfaces, Callbacks
  <2>3. ~Has(Tail(stack), Surfaces)
    BY <2>1, <2>2 DEF Has
  <2>4. /\ Has(stack, Sleeping) /\ ~Has(stack, Handle("new_events")) /\ ~Has(stack, Surfaces)
        /\ ~Has(stack, Handle("new_events_init"))
    BY <1>2, <1>6, <1>7, <1>9, <1>13, <2>3 DEF Surfaces, Sleeping, Callbacks
  <2>5. phase = "Awake" /\ phase' = "Asleep" /\ Inside' = "about_to_wait"
    BY <1>1, <1>3, <1>5, <1>8, <1>13, <2>4 DEF Told, PhaseAfter, CallbackName, Events
  <2> QED BY <1>4, <2>5 DEF App_!AppNext, App_!Sleep, App_!Invoke
<1>14. CASE e \notin {"new_events_init", "can_create_surfaces", "new_events", "about_to_wait"}
  <2>1. ~Has(Tail(stack), Surfaces)
    <3>1. Head(stack) # Handle("new_events_init")
      BY <1>9, <1>14 DEF Callbacks
    <3> QED BY <1>1, <3>1 DEF Fits
  <2>2. /\ ~Has(stack, Handle("new_events")) /\ ~Has(stack, Surfaces)
        /\ ~Has(stack, Handle("new_events_init"))
    BY <1>6, <1>7, <1>9, <1>14, <2>1 DEF Surfaces, Callbacks
  <2>3. phase \in {"Awake", "Asleep"}
    BY <1>1, <1>8, <2>2 DEF Told
  <2>4. phase' = phase /\ Inside' = "event"
    BY <1>2, <1>3, <1>5, <1>14 DEF PhaseAfter, CallbackName, Callbacks, Events
  <2> QED BY <1>4, <2>3, <2>4
          DEF App_!AppNext, App_!Deliver, App_!DeliverTrailing, App_!Invoke
<1> QED BY <1>10, <1>11, <1>12, <1>13, <1>14

\* The return of a callback is a return for the contract.
LEMMA ReturnRefines ==
  ASSUME Iterations, Iterations', AppReturn
  PROVE  App_!AppNext
<1>1. /\ stack # <<>> /\ Head(stack) \in Frames /\ Head(stack).op = "app" /\ Shape(stack)
      /\ Clear(Tail(stack)) /\ stack' = Tail(stack) /\ phase' = phase
  BY Runs DEF AppReturn, Iterations
<1>2. Inside = CallbackName(Head(stack).arg) /\ Head(stack).arg \in Callbacks
  BY <1>1, OneInside, InsideIs, FrameForms
<1>3. Inside # "none"
  BY <1>2 DEF CallbackName, Callbacks, Events
<1>4. ~Holds(stack', "app")
  BY <1>1 DEF Clear, Holds
<1>5. Inside' = "none"
  BY <1>4, NoneInside, InsideIs
<1> QED BY <1>1, <1>3, <1>5 DEF App_!AppNext, App_!Return

\* The other steps of an iteration are not seen by the application.
LEMMA LoopStutters ==
  ASSUME Iterations, Iterations', "focus" \notin Closures,
         AfterCallback \/ Prefetch \/ Take \/ ProcessDestroyPending \/ Redraws
           \/ ApplyControlFlow \/ SetListener \/ VisibilityHandled
  PROVE  UNCHANGED <<phase, Inside>>
<1>1. PICK o \in {"after", "prefetch", "take", "destroy", "redraws", "apply", "listen", "visible"} : Top(o)
  BY DEF AfterCallback, Prefetch, Take, ProcessDestroyPending, Redraws, ApplyControlFlow, SetListener,
         VisibilityHandled
<1>2. /\ stack # <<>> /\ Shape(stack) /\ Shape(stack') /\ stack \in Seq(Frames)
      /\ Head(stack) \in Frames /\ Head(stack).op = o /\ Tail(stack) \in Seq(Frames)
      /\ Fits(Head(stack), Tail(stack))
  BY <1>1, Innermost DEF Top, Iterations
<1>3. Inside = "none" /\ ~Holds(Tail(stack), "app")
  BY <1>1, <1>2, OneInside, InsideIs DEF Fits, Clear, Holds
<1>4. phase' = phase
  BY DEF AfterCallback, Prefetch, Take, ProcessDestroyPending, Redraws, ApplyControlFlow, SetListener,
         VisibilityHandled
<1>5. CASE stack' = stack
  BY <1>3, <1>4, <1>5, InsideIs
<1>6. CASE stack' = Tail(stack)
  BY <1>3, <1>4, <1>6, InsideIs, NoneInside
<1>7. CASE \E f \in Frames, s \in Seq(Frames) : f.op # "app" /\ stack' = Push(f, s)
  <2>1. stack' # <<>> /\ Head(stack').op # "app"
    BY <1>7, Pushed, ZenonT(40)
  <2> QED BY <1>2, <1>3, <1>4, <2>1, OneInside, InsideIs
<1>8. stack' = stack \/ stack' = Tail(stack)
        \/ \E f \in Frames, s \in Seq(Frames) : f.op # "app" /\ stack' = Push(f, s)
  <2>1. /\ Op("take") \in Frames /\ Op("take").op = "take" /\ Op("trap") \in Frames /\ Op("trap").op = "trap"
        /\ Op("prefetch") \in Frames /\ Op("prefetch").op = "prefetch"
        /\ Handle("destroyed") \in Frames /\ Handle("destroyed").op = "handle"
        /\ Handle("redraw_requested") \in Frames /\ Handle("redraw_requested").op = "handle"
    BY FrameForms DEF Ops, Callbacks
  <2>2. Push(Op("take"), Tail(stack)) \in Seq(Frames)
    BY <1>2, <2>1, Pushed
  <2>3. CASE AfterCallback
    BY <1>2, <2>1, <2>2, <2>3 DEF AfterCallback
  <2>4. CASE Prefetch
    <3>1. CASE closures = <<>>
      BY <2>4, <3>1 DEF Prefetch
    <3>2. CASE closures # <<>>
      BY <2>4, <3>2, ClosureIs DEF Prefetch
    <3> QED BY <3>1, <3>2
  <2>5. CASE Take
    <3> DEFINE evs == IF awoken THEN Append(events, "user_wake_up") ELSE events
               f == Handle(Head(evs))
    <3>1. stack' = Tail(stack) \/ stack' = Push(f, Tail(stack))
      BY <2>5 DEF Take
    <3>2. CASE stack' = Push(f, Tail(stack))
      <4>1. Head(stack') = f /\ f.op = "handle" /\ stack' # <<>>
        BY <1>2, <3>2 DEF Push, Handle
      <4>2. f \in Frames
        BY <4>1, Innermost DEF Iterations
      <4> QED BY <1>2, <3>2, <4>1, <4>2
    <3> QED BY <3>1, <3>2
  <2>6. CASE ProcessDestroyPending
    BY <1>2, <2>1, <2>6 DEF ProcessDestroyPending, Trap
  <2>7. CASE Redraws
    BY <1>2, <2>1, <2>7 DEF Redraws
  <2>8. CASE ApplyControlFlow \/ SetListener \/ VisibilityHandled
    BY <2>8 DEF ApplyControlFlow, SetListener, VisibilityHandled
  <2> QED BY <2>3, <2>4, <2>5, <2>6, <2>7, <2>8
<1> QED BY <1>5, <1>6, <1>7, <1>8

\* The application is given up after its about_to_wait.
LEMMA CloseRefines ==
  ASSUME Iterations, Iterations', Watched, LoopDestroyed
  PROVE  App_!Stop \/ UNCHANGED <<phase, Inside>>
<1>1. /\ runner = "Running" /\ stack # <<>> /\ Head(stack) = Op("close") /\ Head(stack).op = "close"
      /\ Fits(Head(stack), Tail(stack)) /\ Shape(stack) /\ Tail(stack) \in Seq(Frames)
  BY Runs DEF LoopDestroyed, Ops, Iterations
<1>2. /\ \A o : Holds(stack, o) <=> Head(stack).op = o \/ Holds(Tail(stack), o)
      /\ \A g : Has(stack, g) <=> Head(stack) = g \/ Has(Tail(stack), g)
  BY <1>1, Innermost
<1>3. Level(Head(stack)) = 1
  BY <1>1, FrameForms
<1>4. ASSUME NEW j \in DOMAIN Tail(stack) PROVE Tail(stack)[j].op \in {"listen", "visible"}
  <2>1. Tail(stack)[j] \in Frames /\ Level(Tail(stack)[j]) < 1
    BY <1>1, <1>3 DEF Fits
  <2> QED BY <2>1, Lows
<1>5. ~Holds(stack, "prefetch") /\ ~Holds(Tail(stack), "app") /\ ~Holds(stack, "app")
  BY <1>1, <1>2, <1>4 DEF Holds
<1>9. IsClosed => ~CanvasesBorrowed
  BY <1>1, <1>5 DEF IsClosed, RunnerBorrowed, Watched, CanvasesBorrowed, OnStack, Holds
<1>6. stack' = Tail(stack) /\ (phase' = phase \/ phase' = "Off")
  BY <1>9 DEF LoopDestroyed
<1>7. Inside = "none" /\ Inside' = "none"
  BY <1>1, <1>5, <1>6, OneInside, NoneInside, InsideIs
<1>8. phase = "Asleep"
  <2>1. \A g : g.op = "handle" => ~Has(stack, g)
    BY <1>1, <1>2, <1>4 DEF Has
  <2>2. /\ Handle("new_events_init").op = "handle" /\ Surfaces.op = "handle"
        /\ Handle("new_events").op = "handle" /\ Sleeping.op = "handle"
    BY DEF Handle, Surfaces, Sleeping
  <2> QED BY <1>1, <2>1, <2>2 DEF Iterations, Told
<1> QED BY <1>6, <1>7, <1>8 DEF App_!Stop

\* A task starts an iteration, which has not called the application yet.
LEMMA SendStutters ==
  ASSUME Iterations, NEW rest,
         \/ rest = stack /\ (Idle \/ RunnerBorrowed)
         \/ rest = <<Op("visible")>> /\ Idle,
         NEW evs, evs = <<>> \/ \E e \in Events : evs = <<e>>, SendEvents(evs, rest),
         phase' = phase
  PROVE  UNCHANGED <<phase, Inside>>
<1>1. CASE stack' = stack
  BY <1>1, InsideIs
<1>3. CASE Idle /\ stack' = <<Op("visible")>>
  <2>1. ~Holds(stack', "app")
    <3>1. (<<Op("visible")>>)[1].op = "visible" /\ DOMAIN <<Op("visible")>> = {1}
      BY DEF Op
    <3> QED BY <1>3, <3>1 DEF Holds
  <2>2. Inside' = "none"
    BY <2>1, NoneInside, InsideIs
  <2>3. Inside = "none"
    BY <1>3, NoneInside, InsideIs DEF Idle, Holds
  <2> QED BY <2>2, <2>3
<1>2. CASE Idle /\ Opens(stack', "new_events", rest)
  <2>1. Shape(stack') /\ stack' # <<>> /\ Head(stack').op = "handle"
    BY <1>2 DEF Opens
  <2>2. Inside' = "none"
    BY <2>1, OneInside, InsideIs
  <2>3. Inside = "none"
    BY <1>2, NoneInside, InsideIs DEF Idle, Holds
  <2> QED BY <2>2, <2>3
<1> QED BY <1>1, <1>2, <1>3, Sends

\* What the application does in a callback is not a step of the contract.
LEMMA ActionsStutter ==
  ASSUME Iterations, Iterations', AppExit \/ AppSetControlFlow \/ AppWakeUp \/ AppCreateWindow \/ AppDropWindow
                       \/ AppRequestRedraw \/ AppFocusWindow
  PROVE  UNCHANGED <<phase, Inside>>
<1>1. Top("app") /\ phase' = phase
  BY DEF AppExit, AppSetControlFlow, AppWakeUp, LocalWakeUp, AppCreateWindow, AppDropWindow,
         AppRequestRedraw, AppFocusWindow, Acting
<1>2. RunnerBorrowed
  BY <1>1, Runs
<1>4. ~(AppCreateWindow /\ CanvasesBorrowed)
  <2>1. SUFFICES ASSUME AppCreateWindow, CanvasesBorrowed PROVE FALSE
    OBVIOUS
  <2>2. stack' = Push(Op("trap"), Tail(stack)) /\ Tail(stack) \in Seq(Frames)
    BY <1>1, <2>1, Runs DEF AppCreateWindow, Trap
  <2>3. Op("trap") \in Frames /\ Op("trap").op = "trap"
    BY FrameForms DEF Ops
  <2> QED BY <2>2, <2>3, ShapePush DEF Iterations, Fits
<1>3. stack' = stack \/ \E e \in Events : SendEvents(<<e>>, stack)
  BY <1>4 DEF AppExit, AppSetControlFlow, AppWakeUp, LocalWakeUp, AppCreateWindow, AppDropWindow,
         AppRequestRedraw, AppFocusWindow, Acting, RunClosure, Events
<1> QED BY <1>1, <1>2, <1>3, SendStutters, InsideIs

\* Tasks and the worker are not seen by the application, except the unload of the page.
LEMMA OutsideRefines ==
  ASSUME Iterations, "focus" \notin Closures, Tasks \/ Others
  PROVE  App_!Stop \/ UNCHANGED <<phase, Inside>>
<1>1. CASE StartDelayed \/ Start
  <2>1. Idle /\ phase' = phase /\ (stack' = stack \/ stack' = StartUp)
    BY <1>1 DEF StartDelayed, Start
  <2>2. CASE stack' = StartUp
    <3>1. Opens(stack', "new_events_init", <<Op("listen")>>)
      <4>1. "can_create_surfaces" \in Callbacks
        BY DEF Callbacks
      <4> QED BY <2>2, <4>1, OpensTwo DEF StartUp, Bases
    <3>2. Inside' = "none"
      BY <3>1, OneInside, InsideIs DEF Opens
    <3>3. Inside = "none"
      BY <2>1, NoneInside, InsideIs DEF Idle, Holds
    <3> QED BY <2>1, <3>2, <3>3
  <2> QED BY <2>1, <2>2, InsideIs
<1>2. CASE ScheduleFires
  <2>1. Idle /\ phase' = phase /\ stack' = RunUntilCleared(<<"new_events">>, <<>>)
    BY <1>2 DEF ScheduleFires, Idle
  <2>2. Opens(stack', "new_events", <<>>)
    BY <2>1, OpensOne DEF Bases
  <2>3. Inside' = "none"
    BY <2>2, OneInside, InsideIs DEF Opens
  <2>4. Inside = "none"
    BY <2>1, NoneInside, InsideIs DEF Idle, Holds
  <2> QED BY <2>1, <2>3, <2>4
<1>3. CASE AnimationFrame \/ Microtask \/ ProxyTask \/ DomEvent \/ Blur
  <2>1. /\ Idle /\ phase' = phase
        /\ SendEvents(<<>>, stack) \/ \E e \in Events : SendEvents(<<e>>, stack)
    BY <1>3 DEF AnimationFrame, Microtask, ProxyTask, DomEvent, Blur, Events
  <2> QED BY <2>1, SendStutters
<1>8. CASE VisibilityChange
  <2>1. Idle /\ phase' = phase /\ \E e \in Events : SendEvents(<<e>>, <<Op("visible")>>)
    BY <1>8 DEF VisibilityChange, Events
  <2> QED BY <2>1, SendStutters
<1>4. CASE PageWakesProxy
  <2>1. /\ Idle /\ phase' = phase
        /\ stack' = stack \/ \E e \in Events : SendEvents(<<e>>, stack)
    BY <1>4 DEF PageWakesProxy, LocalWakeUp, Events
  <2> QED BY <2>1, SendStutters, InsideIs
<1>5. CASE DispatcherTask
  <2>1. phase' = phase /\ stack' = stack
    BY <1>5, ClosureIs DEF DispatcherTask
  <2> QED BY <2>1, InsideIs
<1>6. CASE DispatcherTaskEnds \/ WorkerWakesProxy \/ WorkerDispatches
  <2>1. phase' = phase /\ stack' = stack
    BY <1>6 DEF DispatcherTaskEnds, WorkerWakesProxy, WorkerDispatches
  <2> QED BY <2>1, InsideIs
<1>7. CASE Unload
  <2>1. Idle /\ stack' = stack /\ phase' = "Off"
    BY <1>7 DEF Unload
  <2>2. Inside = "none" /\ Inside' = "none"
    BY <2>1, NoneInside, InsideIs DEF Idle, Holds
  <2>3. phase \in {"Asleep", "Off"}
    BY <2>1 DEF Iterations, Unstarted, Told, Idle, Has
  <2> QED BY <2>1, <2>2, <2>3 DEF App_!Stop
<1> QED BY <1>1, <1>2, <1>3, <1>4, <1>5, <1>6, <1>7, <1>8 DEF Tasks, Others

\* Every step is a step of the contract, or none.
LEMMA StepRefines ==
  ASSUME Iterations, Iterations', Watched, ~Early, "focus" \notin Closures, [Next]_vars
  PROVE  [App_!AppNext]_(App_!app_vars)
<1>1. CASE Loop
  BY <1>1, EventRefines, LoopStutters, CloseRefines DEF Loop, App_!AppNext, App_!app_vars
<1>2. CASE Application
  BY <1>2, ReturnRefines, ActionsStutter DEF Application, App_!app_vars
<1>3. CASE Tasks \/ Others
  BY <1>3, OutsideRefines DEF App_!AppNext, App_!app_vars
<1>4. CASE UNCHANGED vars
  BY <1>4, InsideIs DEF vars, App_!app_vars
<1> QED BY <1>1, <1>2, <1>3, <1>4 DEF Next

\* The web event loop calls the application in the order ApplicationHandler documents, except
\* that an event queued during about_to_wait comes after it: can_create_surfaces second, every
\* event between new_events and about_to_wait, one callback at a time. Proxies must not be
\* woken before can_create_surfaces and closures must not call back: either brings an event
\* where the contract has none. What visibilitychange leads to is as in NothingIsLeft.
THEOREM ImplementsLifecycle ==
  ASSUME "focus" \notin Closures, VisibilityActs = {}, ~Early
  PROVE  Spec => Lifecycle
<1>1. Init => App_!AppInit
  <2>1. SUFFICES ASSUME Init PROVE phase = "Off" /\ Inside = "none"
    BY DEF App_!AppInit
  <2>2. phase = "Off" /\ ~Holds(stack, "app")
    BY <2>1 DEF Init, Holds
  <2> QED BY <2>2, NoneInside, InsideIs
<1>2. Init => Iterations /\ Watched
  BY InitIterations
<1>3. TypeOK /\ (Iterations /\ Watched) /\ [Next]_vars => (Iterations /\ Watched)'
  BY NextIterations, NextWatched
<1>4. (Iterations /\ Watched) /\ (Iterations /\ Watched)' /\ [Next]_vars => [App_!AppNext]_(App_!app_vars)
  BY StepRefines
<1> QED BY <1>1, <1>2, <1>3, <1>4, TypeCorrectness, PTL DEF Spec, Lifecycle, App_!AppSpec

----
(* Worker threads and the main thread: WebAsync *)

SentClosures == [by : Workers, n : Nat]

\* A poll of t that has registered its waker.
Registered(t) == task[t] = "queued" \/ (task[t] = "parked" /\ waker[t])
SleepsOver(t, steps) == task[t] = "parked" /\ main \notin steps

\* The Sender is closed when the last clone goes, and disconnected after it.
Handles ==
  /\ closed <=> ~Held
  /\ ~connected => closed
  /\ \A w \in Workers : pc[w] \in {"close", "disconnect"} => closed
  /\ \A w \in Workers : pc[w] \in DispatcherCalls \cup {"waiting"} => w \in holders
  /\ ~value => closed /\ chan = <<>>
  /\ lost # {} => closed
  /\ proxy_closed <=> proxies = {}

\* Past the last look for work: the poll is at its last step, or over.
Done(t, steps, last) == task[t] = "parked" /\ (main = last \/ main \notin steps)

Receiver ==
  /\ main \in ReceiverSteps => task["receiver"] # "ended"
  /\ main \in {"retry", "closed"} => Registered("receiver")
  /\ SleepsOver("receiver", ReceiverSteps) =>
       /\ waker["receiver"]
       /\ closed => \E w \in Workers : pc[w] = "close"
  /\ Done("receiver", ReceiverSteps, "closed") =>
       (chan # <<>> => \E w \in Workers : InFlight(w))

Proxy ==
  /\ main \in ProxySteps => task["proxy"] # "ended"
  /\ main \in {"reswap", "proxy_closed"} => Registered("proxy")
  /\ SleepsOver("proxy", ProxySteps) =>
       /\ waker["proxy"]
       /\ proxy_closed => \E w \in Workers : pc[w] = "close_proxy"
  /\ Done("proxy", ProxySteps, "proxy_closed") =>
       (proxy_awoken => \E w \in Workers : pc[w] = "wake_proxy")

\* The closures of w among the first i of c.
Of(c, w, i) == {j \in 1 .. i : c[j].by = w}

\* The closures a thread sent are those that ran and those in the channel, in order.
Numbered ==
  /\ \A i \in 1 .. Len(chan) : chan[i].n = ran[chan[i].by] + Cardinality(Of(chan, chan[i].by, i))
  /\ value => \A w \in Workers : sent[w] = ran[w] + Cardinality(Of(chan, w, Len(chan)))

\* The inductive invariant, with TypeOK.
Agreed == Handles /\ Receiver /\ Proxy /\ Numbered
----
(* Types *)

\* The channel without its first closure.
LEMMA HeadAndTail ==
  ASSUME NEW c \in Seq(SentClosures), c # <<>>
  PROVE  /\ Head(c) \in SentClosures /\ Head(c) = c[1]
         /\ Tail(c) \in Seq(SentClosures)
         /\ Len(c) \in Nat \ {0} /\ Len(Tail(c)) = Len(c) - 1
         /\ \A i \in 1 .. Len(c) - 1 : Tail(c)[i] = c[i + 1]
         /\ \A i \in 1 .. Len(c) : c[i] \in SentClosures
OBVIOUS

\* Taking a closure keeps the types.
LEMMA TakeType ==
  ASSUME AsyncTypeOK, chan # <<>>, NEW next \in Main, TakeAndRun(next)
  PROVE  /\ chan' \in Seq(SentClosures) /\ ran' \in [Workers -> Nat] /\ main' \in Main
         /\ UNCHANGED <<closed, connected, holders, dispatch_runner, value, lost, task>>
<1>1. chan \in Seq(SentClosures) /\ ran \in [Workers -> Nat]
  BY DEF AsyncTypeOK, SentClosures
<1>2. Head(chan).by \in Workers /\ Head(chan).n \in Nat /\ Tail(chan) \in Seq(SentClosures)
  BY <1>1, HeadAndTail DEF SentClosures
<1> QED BY <1>1, <1>2 DEF TakeAndRun

\* So does giving all of them up.
LEMMA GiveUpType ==
  ASSUME AsyncTypeOK, ReceiverEnds
  PROVE  chan' \in Seq(SentClosures) /\ lost' \subseteq SentClosures
<1>1. chan \in Seq(SentClosures) /\ lost \subseteq SentClosures
  BY DEF AsyncTypeOK, SentClosures
<1>2. ToSet(chan) \subseteq SentClosures
  BY <1>1 DEF ToSet
<1> QED BY <1>1, <1>2 DEF ReceiverEnds

\* Every step keeps the types.
LEMMA NextType ==
  ASSUME AsyncTypeOK, [AsyncNext]_async_vars
  PROVE  AsyncTypeOK'
<1> USE AsyncAssumption DEF AsyncTypeOK, TaskNames, Threads, Main, ReceiverSteps, ProxySteps, DispatcherCalls, WorkerSteps
<1>1. CASE PollReceiver
  BY <1>1 DEF PollReceiver, Poll, chan_vars, wake_vars, work_vars
<1>2. CASE Try
  <2>1. CASE chan # <<>> /\ TakeAndRun("try")
    <3>1. /\ chan' \in Seq(SentClosures) /\ ran' \in [Workers -> Nat] /\ main' \in Main
          /\ UNCHANGED <<closed, connected, holders, dispatch_runner, value, lost, task>>
      BY <2>1, TakeType
    <3> QED BY <1>2, <2>1, <3>1 DEF Try, TryRecv, SentClosures, chan_vars, wake_vars, work_vars
  <2>2. CASE ReceiverEnds
    BY <1>2, <2>2, GiveUpType DEF Try, TryRecv, ReceiverEnds, Ends, SentClosures, chan_vars, wake_vars, work_vars
  <2>3. CASE UNCHANGED <<chan_vars, task, ran>> /\ main' \in Main
    BY <1>2, <2>3 DEF Try, TryRecv, chan_vars, wake_vars, work_vars
  <2> QED BY <1>2, <2>1, <2>2, <2>3 DEF Try, TryRecv
<1>3. CASE RegisterReceiver
  BY <1>3 DEF RegisterReceiver, Register, chan_vars, wake_vars, work_vars
<1>4. CASE Retry
  <2>1. CASE chan # <<>> /\ TakeAndRun("try")
    <3>1. /\ chan' \in Seq(SentClosures) /\ ran' \in [Workers -> Nat] /\ main' \in Main
          /\ UNCHANGED <<closed, connected, holders, dispatch_runner, value, lost, task>>
      BY <2>1, TakeType
    <3> QED BY <1>4, <2>1, <3>1 DEF Retry, TryRecv, SentClosures, chan_vars, wake_vars, work_vars
  <2>2. CASE ReceiverEnds
    BY <1>4, <2>2, GiveUpType DEF Retry, TryRecv, ReceiverEnds, Ends, SentClosures, chan_vars, wake_vars, work_vars
  <2>3. CASE UNCHANGED <<chan_vars, task, ran>> /\ main' \in Main
    BY <1>4, <2>3 DEF Retry, TryRecv, chan_vars, wake_vars, work_vars
  <2> QED BY <1>4, <2>1, <2>2, <2>3 DEF Retry, TryRecv
<1>5. CASE CheckClosed
  <2>1. CASE ReceiverEnds
    BY <1>5, <2>1, GiveUpType DEF CheckClosed, ReceiverEnds, Ends, SentClosures, wake_vars, work_vars
  <2>2. CASE UNCHANGED <<chan_vars, task, ran>> /\ main' = "idle"
    BY <1>5, <2>2 DEF CheckClosed, chan_vars, wake_vars, work_vars
  <2> QED BY <1>5, <2>1, <2>2 DEF CheckClosed
<1>6. CASE PollProxy
  BY <1>6 DEF PollProxy, Poll, chan_vars, wake_vars, work_vars
<1>7. CASE Swap
  BY <1>7 DEF Swap, SwapTo, chan_vars, wake_vars, work_vars
<1>8. CASE RegisterProxy
  BY <1>8 DEF RegisterProxy, Register, chan_vars, wake_vars, work_vars
<1>9. CASE Reswap
  BY <1>9 DEF Reswap, SwapTo, chan_vars, wake_vars, work_vars
<1>10. CASE CheckProxyClosed
  BY <1>10 DEF CheckProxyClosed, Ends, chan_vars, wake_vars, work_vars
<1>11. CASE Drain
  <2>1. CASE chan # <<>> /\ TakeAndRun("prefetch") /\ UNCHANGED proxy_awoken
    <3>1. /\ chan' \in Seq(SentClosures) /\ ran' \in [Workers -> Nat] /\ main' \in Main
          /\ UNCHANGED <<closed, connected, holders, dispatch_runner, value, lost, task>>
      BY <2>1, TakeType
    <3> QED BY <1>11, <2>1, <3>1 DEF Drain, SentClosures, wake_vars, work_vars
  <2>2. CASE main' = "idle" /\ proxy_awoken' = FALSE /\ UNCHANGED <<chan_vars, task, ran>>
    BY <1>11, <2>2 DEF Drain, chan_vars, wake_vars, work_vars
  <2> QED BY <1>11, <2>1, <2>2 DEF Drain
<1>12. CASE PrefetchOnMain
  BY <1>12 DEF PrefetchOnMain, chan_vars, wake_vars, work_vars
<1>13. CASE MainDropsHandle
  BY <1>13, ZenonT(40) DEF MainDropsHandle, DropSender, Wake, chan_vars, wake_vars, work_vars
<1>14. CASE MainDropsRunner
  BY <1>14, ZenonT(40) DEF MainDropsRunner, DropSender, Wake, chan_vars, wake_vars, work_vars
<1>15. CASE MainDropsProxy
  BY <1>15, ZenonT(40) DEF MainDropsProxy, Wake, chan_vars, wake_vars, work_vars
<1>16. ASSUME NEW w \in Workers, Send(w) PROVE AsyncTypeOK'
  BY <1>16 DEF Send, chan_vars, wake_vars, work_vars
<1>17. ASSUME NEW w \in Workers, DropHandle(w) PROVE AsyncTypeOK'
  BY <1>17 DEF DropHandle, LastHolder, chan_vars, wake_vars, work_vars
<1>18. ASSUME NEW w \in Workers, WakeUp(w) PROVE AsyncTypeOK'
  BY <1>18 DEF WakeUp, chan_vars, wake_vars, work_vars
<1>19. ASSUME NEW w \in Workers, DropProxy(w) PROVE AsyncTypeOK'
  BY <1>19 DEF DropProxy, chan_vars, wake_vars, work_vars
<1>20. ASSUME NEW w \in Workers, WakeReceiver(w) PROVE AsyncTypeOK'
  BY <1>20 DEF WakeReceiver, Wake, chan_vars, wake_vars, work_vars
<1>21. ASSUME NEW w \in Workers, QueueReturns(w) PROVE AsyncTypeOK'
  BY <1>21 DEF QueueReturns, chan_vars, wake_vars, work_vars
<1>22. ASSUME NEW w \in Workers, WakeClosed(w) PROVE AsyncTypeOK'
  BY <1>22 DEF WakeClosed, Wake, chan_vars, wake_vars, work_vars
<1>23. ASSUME NEW w \in Workers, Disconnect(w) PROVE AsyncTypeOK'
  BY <1>23 DEF Disconnect, chan_vars, wake_vars, work_vars
<1>24. ASSUME NEW w \in Workers, WakeProxy(w) PROVE AsyncTypeOK'
  BY <1>24 DEF WakeProxy, Wake, chan_vars, wake_vars, work_vars
<1>25. CASE UNCHANGED async_vars
  BY <1>25 DEF async_vars, chan_vars, wake_vars, work_vars
<1> QED
  BY <1>1, <1>2, <1>3, <1>4, <1>5, <1>6, <1>7, <1>8, <1>9, <1>10, <1>11, <1>12, <1>13, <1>14, <1>15, <1>16, <1>17, <1>18, <1>19, <1>20, <1>21, <1>22, <1>23, <1>24, <1>25
     DEF AsyncNext, MainStep, WorkerStep, WorkerCall

----
(* Handles *)

\* Every step keeps Handles: the last clone closes, and only then is anything given up.
LEMMA NextHandles ==
  ASSUME AsyncTypeOK, Handles, [AsyncNext]_async_vars
  PROVE  Handles'
<1> USE AsyncAssumption DEF AsyncTypeOK, Handles, Held, TaskNames, Threads, DispatcherCalls, WorkerSteps
<1>1. CASE PollReceiver
  BY <1>1 DEF PollReceiver, Poll, chan_vars, wake_vars, work_vars, ToSet
<1>2. CASE Try
  BY <1>2, SMTT(30) DEF Try, TryRecv, TakeAndRun, ReceiverEnds, Ends, chan_vars, wake_vars, work_vars, ToSet
<1>3. CASE RegisterReceiver
  BY <1>3 DEF RegisterReceiver, Register, chan_vars, wake_vars, work_vars, ToSet
<1>4. CASE Retry
  BY <1>4, SMTT(30) DEF Retry, TryRecv, TakeAndRun, ReceiverEnds, Ends, chan_vars, wake_vars, work_vars, ToSet
<1>5. CASE CheckClosed
  BY <1>5 DEF CheckClosed, ReceiverEnds, Ends, chan_vars, wake_vars, work_vars, ToSet
<1>6. CASE PollProxy
  BY <1>6 DEF PollProxy, Poll, chan_vars, wake_vars, work_vars, ToSet
<1>7. CASE Swap
  BY <1>7 DEF Swap, SwapTo, chan_vars, wake_vars, work_vars, ToSet
<1>8. CASE RegisterProxy
  BY <1>8 DEF RegisterProxy, Register, chan_vars, wake_vars, work_vars, ToSet
<1>9. CASE Reswap
  BY <1>9 DEF Reswap, SwapTo, chan_vars, wake_vars, work_vars, ToSet
<1>10. CASE CheckProxyClosed
  BY <1>10 DEF CheckProxyClosed, Ends, chan_vars, wake_vars, work_vars, ToSet
<1>11. CASE Drain
  BY <1>11 DEF Drain, TakeAndRun, chan_vars, wake_vars, work_vars, ToSet
<1>12. CASE PrefetchOnMain
  BY <1>12 DEF PrefetchOnMain, chan_vars, wake_vars, work_vars, ToSet
<1>13. CASE MainDropsHandle
  BY <1>13 DEF MainDropsHandle, DropSender, Wake, chan_vars, wake_vars, work_vars, ToSet
<1>14. CASE MainDropsRunner
  BY <1>14 DEF MainDropsRunner, DropSender, Wake, chan_vars, wake_vars, work_vars, ToSet
<1>15. CASE MainDropsProxy
  BY <1>15 DEF MainDropsProxy, Wake, chan_vars, wake_vars, work_vars, ToSet
<1>16. ASSUME NEW w \in Workers, Send(w) PROVE Handles'
  BY <1>16 DEF Send, chan_vars, wake_vars, work_vars, ToSet
<1>17. ASSUME NEW w \in Workers, DropHandle(w) PROVE Handles'
  BY <1>17 DEF DropHandle, LastHolder, chan_vars, wake_vars, work_vars, ToSet
<1>18. ASSUME NEW w \in Workers, WakeUp(w) PROVE Handles'
  BY <1>18 DEF WakeUp, chan_vars, wake_vars, work_vars, ToSet
<1>19. ASSUME NEW w \in Workers, DropProxy(w) PROVE Handles'
  BY <1>19 DEF DropProxy, chan_vars, wake_vars, work_vars, ToSet
<1>20. ASSUME NEW w \in Workers, WakeReceiver(w) PROVE Handles'
  BY <1>20 DEF WakeReceiver, Wake, chan_vars, wake_vars, work_vars, ToSet
<1>21. ASSUME NEW w \in Workers, QueueReturns(w) PROVE Handles'
  BY <1>21 DEF QueueReturns, chan_vars, wake_vars, work_vars, ToSet
<1>22. ASSUME NEW w \in Workers, WakeClosed(w) PROVE Handles'
  BY <1>22 DEF WakeClosed, Wake, chan_vars, wake_vars, work_vars, ToSet
<1>23. ASSUME NEW w \in Workers, Disconnect(w) PROVE Handles'
  BY <1>23 DEF Disconnect, chan_vars, wake_vars, work_vars, ToSet
<1>24. ASSUME NEW w \in Workers, WakeProxy(w) PROVE Handles'
  BY <1>24 DEF WakeProxy, Wake, chan_vars, wake_vars, work_vars, ToSet
<1>25. CASE UNCHANGED async_vars
  BY <1>25 DEF async_vars, chan_vars, wake_vars, work_vars, ToSet
<1> QED
  BY <1>1, <1>2, <1>3, <1>4, <1>5, <1>6, <1>7, <1>8, <1>9, <1>10, <1>11, <1>12, <1>13, <1>14, <1>15, <1>16, <1>17, <1>18, <1>19, <1>20, <1>21, <1>22, <1>23, <1>24, <1>25
     DEF AsyncNext, MainStep, WorkerStep, WorkerCall

\* Every step keeps Receiver.
LEMMA NextReceiver ==
  ASSUME AsyncTypeOK, Handles, Receiver, [AsyncNext]_async_vars
  PROVE  Receiver'
<1> USE AsyncAssumption DEF AsyncTypeOK, Receiver, Registered, SleepsOver, Done, TaskNames, ReceiverSteps, ProxySteps, DispatcherCalls, WorkerSteps, InFlight, Held, Main
<1>1. CASE PollReceiver
  BY <1>1 DEF PollReceiver, Poll, chan_vars, wake_vars, work_vars
<1>2. CASE Try
  BY <1>2 DEF Try, TryRecv, TakeAndRun, ReceiverEnds, Ends, chan_vars, wake_vars, work_vars
<1>3. CASE RegisterReceiver
  BY <1>3 DEF RegisterReceiver, Register, chan_vars, wake_vars, work_vars
<1>4. CASE Retry
  BY <1>4 DEF Retry, TryRecv, TakeAndRun, ReceiverEnds, Ends, chan_vars, wake_vars, work_vars
<1>5. CASE CheckClosed
  BY <1>5 DEF CheckClosed, ReceiverEnds, Ends, chan_vars, wake_vars, work_vars
<1>6. CASE PollProxy
  BY <1>6 DEF PollProxy, Poll, chan_vars, wake_vars, work_vars
<1>7. CASE Swap
  BY <1>7 DEF Swap, SwapTo, chan_vars, wake_vars, work_vars
<1>8. CASE RegisterProxy
  BY <1>8 DEF RegisterProxy, Register, chan_vars, wake_vars, work_vars
<1>9. CASE Reswap
  BY <1>9 DEF Reswap, SwapTo, chan_vars, wake_vars, work_vars
<1>10. CASE CheckProxyClosed
  BY <1>10 DEF CheckProxyClosed, Ends, chan_vars, wake_vars, work_vars
<1>11. CASE Drain
  BY <1>11 DEF Drain, TakeAndRun, chan_vars, wake_vars, work_vars
<1>12. CASE PrefetchOnMain
  BY <1>12 DEF PrefetchOnMain, chan_vars, wake_vars, work_vars
<1>13. CASE MainDropsHandle
  BY <1>13 DEF MainDropsHandle, DropSender, Wake, chan_vars, wake_vars, work_vars
<1>14. CASE MainDropsRunner
  BY <1>14 DEF MainDropsRunner, DropSender, Wake, chan_vars, wake_vars, work_vars
<1>15. CASE MainDropsProxy
  BY <1>15 DEF MainDropsProxy, Wake, chan_vars, wake_vars, work_vars
<1>16. ASSUME NEW w \in Workers, Send(w) PROVE Receiver'
  <2>1. pc[w] = "idle" /\ pc'[w] \in DispatcherCalls /\ \A v \in Workers \ {w} : pc'[v] = pc[v]
    BY <1>16 DEF Send
  <2>2. UNCHANGED <<main, task, waker, closed>>
    BY <1>16 DEF Send, wake_vars
  <2>3. (\E v \in Workers : pc[v] = "close") => \E v \in Workers : pc'[v] = "close"
    BY <2>1
  <2>4. \E v \in Workers : InFlight(v)'
    BY <2>1
  <2> QED BY <2>2, <2>3, <2>4
<1>17. ASSUME NEW w \in Workers, DropHandle(w) PROVE Receiver'
  BY <1>17, SMTT(30) DEF DropHandle, LastHolder, chan_vars, wake_vars, work_vars
<1>18. ASSUME NEW w \in Workers, WakeUp(w) PROVE Receiver'
  BY <1>18 DEF WakeUp, chan_vars, wake_vars, work_vars
<1>19. ASSUME NEW w \in Workers, DropProxy(w) PROVE Receiver'
  BY <1>19 DEF DropProxy, chan_vars, wake_vars, work_vars
<1>20. ASSUME NEW w \in Workers, WakeReceiver(w) PROVE Receiver'
  BY <1>20 DEF WakeReceiver, Wake, chan_vars, wake_vars, work_vars
<1>21. ASSUME NEW w \in Workers, QueueReturns(w) PROVE Receiver'
  BY <1>21 DEF QueueReturns, chan_vars, wake_vars, work_vars
<1>22. ASSUME NEW w \in Workers, WakeClosed(w) PROVE Receiver'
  BY <1>22 DEF WakeClosed, Wake, chan_vars, wake_vars, work_vars
<1>23. ASSUME NEW w \in Workers, Disconnect(w) PROVE Receiver'
  BY <1>23 DEF Disconnect, chan_vars, wake_vars, work_vars
<1>24. ASSUME NEW w \in Workers, WakeProxy(w) PROVE Receiver'
  BY <1>24 DEF WakeProxy, Wake, chan_vars, wake_vars, work_vars
<1>25. CASE UNCHANGED async_vars
  BY <1>25 DEF async_vars, chan_vars, wake_vars, work_vars
<1> QED
  BY <1>1, <1>2, <1>3, <1>4, <1>5, <1>6, <1>7, <1>8, <1>9, <1>10, <1>11, <1>12, <1>13, <1>14, <1>15, <1>16, <1>17, <1>18, <1>19, <1>20, <1>21, <1>22, <1>23, <1>24, <1>25
     DEF AsyncNext, MainStep, WorkerStep, WorkerCall

\* Every step keeps Proxy.
LEMMA NextProxy ==
  ASSUME AsyncTypeOK, Handles, Proxy, [AsyncNext]_async_vars
  PROVE  Proxy'
<1> USE AsyncAssumption DEF AsyncTypeOK, Proxy, Registered, SleepsOver, Done, TaskNames, ReceiverSteps, ProxySteps, DispatcherCalls, WorkerSteps, Main
<1>1. CASE PollReceiver
  BY <1>1 DEF PollReceiver, Poll, chan_vars, wake_vars, work_vars
<1>2. CASE Try
  BY <1>2 DEF Try, TryRecv, TakeAndRun, ReceiverEnds, Ends, chan_vars, wake_vars, work_vars
<1>3. CASE RegisterReceiver
  BY <1>3 DEF RegisterReceiver, Register, chan_vars, wake_vars, work_vars
<1>4. CASE Retry
  BY <1>4 DEF Retry, TryRecv, TakeAndRun, ReceiverEnds, Ends, chan_vars, wake_vars, work_vars
<1>5. CASE CheckClosed
  BY <1>5 DEF CheckClosed, ReceiverEnds, Ends, chan_vars, wake_vars, work_vars
<1>6. CASE PollProxy
  BY <1>6 DEF PollProxy, Poll, chan_vars, wake_vars, work_vars
<1>7. CASE Swap
  BY <1>7 DEF Swap, SwapTo, chan_vars, wake_vars, work_vars
<1>8. CASE RegisterProxy
  BY <1>8 DEF RegisterProxy, Register, chan_vars, wake_vars, work_vars
<1>9. CASE Reswap
  BY <1>9 DEF Reswap, SwapTo, chan_vars, wake_vars, work_vars
<1>10. CASE CheckProxyClosed
  BY <1>10 DEF CheckProxyClosed, Ends, chan_vars, wake_vars, work_vars
<1>11. CASE Drain
  BY <1>11 DEF Drain, TakeAndRun, chan_vars, wake_vars, work_vars
<1>12. CASE PrefetchOnMain
  BY <1>12 DEF PrefetchOnMain, chan_vars, wake_vars, work_vars
<1>13. CASE MainDropsHandle
  BY <1>13 DEF MainDropsHandle, DropSender, Wake, chan_vars, wake_vars, work_vars
<1>14. CASE MainDropsRunner
  BY <1>14 DEF MainDropsRunner, DropSender, Wake, chan_vars, wake_vars, work_vars
<1>15. CASE MainDropsProxy
  BY <1>15 DEF MainDropsProxy, Wake, chan_vars, wake_vars, work_vars
<1>16. ASSUME NEW w \in Workers, Send(w) PROVE Proxy'
  BY <1>16 DEF Send, chan_vars, wake_vars, work_vars
<1>17. ASSUME NEW w \in Workers, DropHandle(w) PROVE Proxy'
  BY <1>17 DEF DropHandle, LastHolder, chan_vars, wake_vars, work_vars
<1>18. ASSUME NEW w \in Workers, WakeUp(w) PROVE Proxy'
  BY <1>18 DEF WakeUp, chan_vars, wake_vars, work_vars
<1>19. ASSUME NEW w \in Workers, DropProxy(w) PROVE Proxy'
  BY <1>19 DEF DropProxy, chan_vars, wake_vars, work_vars
<1>20. ASSUME NEW w \in Workers, WakeReceiver(w) PROVE Proxy'
  BY <1>20 DEF WakeReceiver, Wake, chan_vars, wake_vars, work_vars
<1>21. ASSUME NEW w \in Workers, QueueReturns(w) PROVE Proxy'
  BY <1>21 DEF QueueReturns, chan_vars, wake_vars, work_vars
<1>22. ASSUME NEW w \in Workers, WakeClosed(w) PROVE Proxy'
  BY <1>22 DEF WakeClosed, Wake, chan_vars, wake_vars, work_vars
<1>23. ASSUME NEW w \in Workers, Disconnect(w) PROVE Proxy'
  BY <1>23 DEF Disconnect, chan_vars, wake_vars, work_vars
<1>24. ASSUME NEW w \in Workers, WakeProxy(w) PROVE Proxy'
  BY <1>24 DEF WakeProxy, Wake, chan_vars, wake_vars, work_vars
<1>25. CASE UNCHANGED async_vars
  BY <1>25 DEF async_vars, chan_vars, wake_vars, work_vars
<1> QED
  BY <1>1, <1>2, <1>3, <1>4, <1>5, <1>6, <1>7, <1>8, <1>9, <1>10, <1>11, <1>12, <1>13, <1>14, <1>15, <1>16, <1>17, <1>18, <1>19, <1>20, <1>21, <1>22, <1>23, <1>24, <1>25
     DEF AsyncNext, MainStep, WorkerStep, WorkerCall

----
(* The numbers of the closures *)

\* The closures of a thread can be counted.
LEMMA CountType ==
  ASSUME NEW c, NEW w, NEW i \in Nat
  PROVE  /\ IsFiniteSet(Of(c, w, i)) /\ Cardinality(Of(c, w, i)) \in Nat
         /\ Of(c, w, i) \subseteq 1 .. i
<1>1. IsFiniteSet(1 .. i)
  BY FS_Interval
<1>2. Of(c, w, i) \in SUBSET (1 .. i)
  BY DEF Of
<1>3. IsFiniteSet(Of(c, w, i))
  BY <1>1, <1>2, FS_Subset
<1> QED BY <1>2, <1>3, FS_CardinalityType

\* A closure at the end counts for its sender, and only there.
LEMMA CountAppend ==
  ASSUME NEW c \in Seq(SentClosures), NEW e \in SentClosures, NEW w
  PROVE  LET d == Append(c, e)
         IN  /\ \A i \in 0 .. Len(c) : Of(d, w, i) = Of(c, w, i)
             /\ Cardinality(Of(d, w, Len(c) + 1))
                  = Cardinality(Of(c, w, Len(c))) + (IF e.by = w THEN 1 ELSE 0)
<1> DEFINE d == Append(c, e)
<1>1. /\ Len(c) \in Nat /\ Len(d) = Len(c) + 1 /\ d[Len(c) + 1] = e
      /\ \A j \in 1 .. Len(c) : d[j] = c[j]
  OBVIOUS
<1> HIDE DEF d
<1>2. \A i \in 0 .. Len(c) : Of(d, w, i) = Of(c, w, i)
  BY <1>1 DEF Of
<1>3. /\ IsFiniteSet(Of(c, w, Len(c))) /\ Len(c) + 1 \notin Of(c, w, Len(c))
      /\ Cardinality(Of(c, w, Len(c))) \in Nat
  BY <1>1, CountType
<1>4. CASE e.by = w
  <2>1. Of(d, w, Len(c) + 1) = Of(c, w, Len(c)) \cup {Len(c) + 1}
    BY <1>1, <1>4 DEF Of
  <2>2. Cardinality(Of(d, w, Len(c) + 1)) = Cardinality(Of(c, w, Len(c))) + 1
    BY <2>1, <1>3, FS_AddElement
  <2> QED BY <1>2, <1>4, <2>2 DEF d
<1>5. CASE e.by # w
  <2>1. Of(d, w, Len(c) + 1) = Of(c, w, Len(c))
    BY <1>1, <1>5 DEF Of
  <2>2. Cardinality(Of(d, w, Len(c) + 1)) = Cardinality(Of(c, w, Len(c)))
    BY <2>1
  <2> QED BY <1>2, <1>3, <1>5, <2>2 DEF d
<1> QED BY <1>4, <1>5

\* Without the first closure its sender has one less, everywhere.
LEMMA CountTail ==
  ASSUME NEW c \in Seq(SentClosures), c # <<>>, NEW w, NEW i \in 0 .. Len(c) - 1
  PROVE  Cardinality(Of(c, w, i + 1))
           = Cardinality(Of(Tail(c), w, i)) + (IF c[1].by = w THEN 1 ELSE 0)
<1> DEFINE S == Of(Tail(c), w, i)
           T == Of(c, w, i + 1) \ {1}
           f == [j \in S |-> j + 1]
<1>1. /\ i \in Nat /\ Len(c) \in Nat
      /\ \A j \in 1 .. i : Tail(c)[j] = c[j + 1]
  BY HeadAndTail
<1>2. IsFiniteSet(S) /\ Cardinality(S) \in Nat /\ S \subseteq 1 .. i
  BY <1>1, CountType
<1>3. f \in Bijection(S, T)
  <2>1. \A j \in S : j + 1 \in T
    BY <1>1, <1>2 DEF Of
  <2>2. \A k \in T : k - 1 \in S /\ f[k - 1] = k
    BY <1>1 DEF Of
  <2>3. f \in [S -> T]
    BY <2>1
  <2>4. \A j, k \in S : f[j] = f[k] => j = k
    BY <1>2
  <2> HIDE DEF f, S, T
  <2>5. f \in Surjection(S, T)
    BY <2>2, <2>3 DEF Surjection
  <2>6. f \in Injection(S, T)
    BY <2>3, <2>4 DEF Injection, IsInjective
  <2> QED BY <2>5, <2>6 DEF Bijection
<1>4. IsFiniteSet(T) /\ Cardinality(T) = Cardinality(S)
  <2> HIDE DEF f, S, T
  <2> QED BY <1>2, <1>3, FS_Bijection DEF ExistsBijection
<1>5. CASE c[1].by = w
  <2>1. Of(c, w, i + 1) = T \cup {1} /\ 1 \notin T
    BY <1>1, <1>5 DEF Of
  <2> HIDE DEF T
  <2>2. Cardinality(Of(c, w, i + 1)) = Cardinality(T) + 1
    BY <2>1, <1>4, FS_AddElement
  <2> QED BY <2>2, <1>2, <1>4, <1>5
<1>6. CASE c[1].by # w
  <2>1. Of(c, w, i + 1) = T
    BY <1>1, <1>6 DEF Of
  <2>2. Cardinality(Of(c, w, i + 1)) = Cardinality(S)
    BY <2>1, <1>4
  <2> HIDE DEF S, T
  <2> QED BY <2>2, <1>2, <1>6 DEF S
<1> QED BY <1>5, <1>6

\* Taking the first closure keeps the numbering.
LEMMA TakeNumbered ==
  ASSUME AsyncTypeOK, chan # <<>>, NEW next, TakeAndRun(next), sent' = sent, Numbered
  PROVE  Numbered'
<1>1. /\ chan \in Seq(SentClosures) /\ ran \in [Workers -> Nat] /\ sent \in [Workers -> Nat]
      /\ chan' = Tail(chan) /\ ran' = [ran EXCEPT ![Head(chan).by] = Head(chan).n]
      /\ value' = value
  BY DEF AsyncTypeOK, SentClosures, TakeAndRun
<1>2. /\ Head(chan) = chan[1] /\ chan[1] \in SentClosures
      /\ Len(chan) \in Nat \ {0} /\ Len(chan') = Len(chan) - 1
      /\ \A i \in 1 .. Len(chan) - 1 : chan'[i] = chan[i + 1]
      /\ \A i \in 1 .. Len(chan) : chan[i] \in SentClosures
  BY <1>1, HeadAndTail
<1> DEFINE b == chan[1].by
<1>3. b \in Workers
  BY <1>2 DEF SentClosures
<1>4. chan[1].n = ran[b] + 1
  <2>1. Of(chan, b, 1) = {1}
    BY DEF Of
  <2>2. chan[1].n = ran[b] + Cardinality(Of(chan, b, 1))
    BY <1>2 DEF Numbered
  <2>3. Cardinality(Of(chan, b, 1)) = 1
    BY <2>1, FS_Singleton
  <2> QED BY <2>2, <2>3
<1>5. \A w \in Workers : ran'[w] = ran[w] + (IF b = w THEN 1 ELSE 0)
  BY <1>1, <1>2, <1>3, <1>4
<1>6. \A w \in Workers, i \in 0 .. Len(chan) - 1 :
        /\ Cardinality(Of(chan, w, i + 1))
             = Cardinality(Of(chan', w, i)) + (IF b = w THEN 1 ELSE 0)
        /\ Cardinality(Of(chan', w, i)) \in Nat
  BY <1>1, <1>2, CountTail, CountType
<1>7. \A i \in 1 .. Len(chan') : chan'[i].n = ran'[chan'[i].by] + Cardinality(Of(chan', chan'[i].by, i))
  <2> TAKE i \in 1 .. Len(chan')
  <2>1. /\ i + 1 \in 1 .. Len(chan) /\ i \in 0 .. Len(chan) - 1 /\ chan'[i] = chan[i + 1]
        /\ chan[i + 1].by \in Workers
    BY <1>2 DEF SentClosures
  <2> DEFINE w == chan[i + 1].by
  <2>2. chan[i + 1].n = ran[w] + Cardinality(Of(chan, w, i + 1))
    BY <2>1 DEF Numbered
  <2>3. /\ Cardinality(Of(chan, w, i + 1)) = Cardinality(Of(chan', w, i)) + (IF b = w THEN 1 ELSE 0)
        /\ Cardinality(Of(chan', w, i)) \in Nat
    BY <1>6, <2>1
  <2>4. ran'[w] = ran[w] + (IF b = w THEN 1 ELSE 0) /\ ran[w] \in Nat
    BY <1>1, <1>5, <2>1
  <2>5. chan[i + 1].n = ran'[w] + Cardinality(Of(chan', w, i))
    <3> HIDE DEF w, b
    <3> QED BY <2>2, <2>3, <2>4
  <2> QED BY <2>1, <2>5
<1>8. value => \A w \in Workers : sent[w] = ran'[w] + Cardinality(Of(chan', w, Len(chan')))
  <2> SUFFICES ASSUME value, NEW w \in Workers
               PROVE  sent[w] = ran'[w] + Cardinality(Of(chan', w, Len(chan')))
    OBVIOUS
  <2>1. sent[w] = ran[w] + Cardinality(Of(chan, w, Len(chan)))
    BY DEF Numbered
  <2>2. Len(chan) - 1 \in 0 .. Len(chan) - 1 /\ (Len(chan) - 1) + 1 = Len(chan)
    BY <1>2
  <2>3. /\ Cardinality(Of(chan, w, Len(chan))) = Cardinality(Of(chan', w, Len(chan'))) + (IF b = w THEN 1 ELSE 0)
        /\ Cardinality(Of(chan', w, Len(chan'))) \in Nat
    BY <1>2, <1>6, <2>2
  <2>4. ran'[w] = ran[w] + (IF b = w THEN 1 ELSE 0) /\ ran[w] \in Nat
    BY <1>1, <1>5
  <2> HIDE DEF b
  <2> QED BY <2>1, <2>3, <2>4
<1> QED BY <1>1, <1>7, <1>8 DEF Numbered

\* So does giving everything up, with the value gone.
LEMMA GiveUpNumbered ==
  ASSUME ReceiverEnds
  PROVE  Numbered'
BY DEF ReceiverEnds, Numbered

\* So does a closure sent while the value is there.
LEMMA SendNumbered ==
  ASSUME AsyncTypeOK, Handles, Numbered, NEW w \in Workers, Send(w)
  PROVE  Numbered'
<1>1. /\ chan \in Seq(SentClosures) /\ ran \in [Workers -> Nat] /\ sent \in [Workers -> Nat]
      /\ ran' = ran /\ value' = value /\ sent' = [sent EXCEPT ![w] = @ + 1]
  BY DEF AsyncTypeOK, SentClosures, Send, wake_vars
<1> DEFINE e == [by |-> w, n |-> sent[w] + 1]
<1>2. chan' = Append(chan, e) /\ e \in SentClosures
  BY <1>1 DEF Send, SentClosures
<1>3. value
  BY DEF Send, Handles, Held
<1>4. /\ Len(chan) \in Nat /\ Len(chan') = Len(chan) + 1 /\ chan'[Len(chan) + 1] = e
      /\ \A i \in 1 .. Len(chan) : chan'[i] = chan[i] /\ chan[i] \in SentClosures
  BY <1>1, <1>2
<1>5. \A x \in Workers :
        /\ \A i \in 0 .. Len(chan) : Of(chan', x, i) = Of(chan, x, i)
        /\ Cardinality(Of(chan', x, Len(chan) + 1))
             = Cardinality(Of(chan, x, Len(chan))) + (IF w = x THEN 1 ELSE 0)
        /\ Cardinality(Of(chan, x, Len(chan))) \in Nat
  <2> TAKE x \in Workers
  <2>1. Cardinality(Of(chan, x, Len(chan))) \in Nat
    BY <1>4, CountType
  <2> QED BY <1>1, <1>2, <2>1, CountAppend
<1>6. \A x \in Workers : sent'[x] = ran'[x] + Cardinality(Of(chan', x, Len(chan')))
  <2> TAKE x \in Workers
  <2>1. sent[x] = ran[x] + Cardinality(Of(chan, x, Len(chan))) /\ ran[x] \in Nat /\ sent[x] \in Nat
    BY <1>1, <1>3 DEF Numbered
  <2>2. sent'[x] = sent[x] + (IF w = x THEN 1 ELSE 0)
    BY <1>1
  <2> QED BY <1>1, <1>4, <1>5, <2>1, <2>2
<1>7. \A i \in 1 .. Len(chan') : chan'[i].n = ran'[chan'[i].by] + Cardinality(Of(chan', chan'[i].by, i))
  <2> TAKE i \in 1 .. Len(chan')
  <2>1. CASE i \in 1 .. Len(chan)
    <3>1. chan[i].by \in Workers /\ chan'[i] = chan[i] /\ i \in 0 .. Len(chan)
      BY <1>4, <2>1 DEF SentClosures
    <3>2. chan[i].n = ran[chan[i].by] + Cardinality(Of(chan, chan[i].by, i))
      BY <2>1 DEF Numbered
    <3> QED BY <1>1, <1>5, <3>1, <3>2
  <2>2. CASE i = Len(chan) + 1
    <3>1. chan'[i].by = w /\ chan'[i].n = sent'[w]
      BY <1>1, <1>4, <2>2
    <3> QED BY <1>4, <1>6, <2>2, <3>1
  <2> QED BY <1>4, <2>1, <2>2
<1> QED BY <1>1, <1>6, <1>7 DEF Numbered

\* Every step keeps the numbering.
LEMMA NextNumbered ==
  ASSUME AsyncTypeOK, Handles, Numbered, [AsyncNext]_async_vars
  PROVE  Numbered'
<1> USE DEF chan_vars, wake_vars, work_vars
<1>1. ASSUME NEW next, chan # <<>>, TakeAndRun(next), UNCHANGED work_vars
      PROVE  Numbered'
  BY <1>1, TakeNumbered
<1>2. ASSUME UNCHANGED <<chan, ran, sent, value>> PROVE Numbered'
  BY <1>2 DEF Numbered, Of
<1>3. CASE Try
  BY <1>1, <1>2, <1>3, GiveUpNumbered DEF Try, TryRecv
<1>4. CASE Retry
  BY <1>1, <1>2, <1>4, GiveUpNumbered DEF Retry, TryRecv
<1>5. CASE CheckClosed
  BY <1>2, <1>5, GiveUpNumbered DEF CheckClosed
<1>6. CASE Drain
  BY <1>1, <1>2, <1>6 DEF Drain
<1>7. ASSUME NEW w \in Workers, Send(w) PROVE Numbered'
  BY <1>7, SendNumbered
<1>8. CASE PollReceiver \/ RegisterReceiver \/ PollProxy \/ Swap \/ RegisterProxy
           \/ Reswap \/ CheckProxyClosed \/ PrefetchOnMain
  BY <1>2, <1>8 DEF PollReceiver, Poll, RegisterReceiver, PollProxy, Swap, SwapTo,
     RegisterProxy, Reswap, CheckProxyClosed, PrefetchOnMain
<1>9. CASE MainDropsHandle \/ MainDropsRunner \/ MainDropsProxy
  BY <1>2, <1>9 DEF MainDropsHandle, MainDropsRunner, MainDropsProxy
<1>10. ASSUME NEW w \in Workers, WorkerStep(w) \/ DropHandle(w) \/ WakeUp(w) \/ DropProxy(w)
       PROVE  Numbered'
  BY <1>2, <1>10 DEF WorkerStep, WakeReceiver, QueueReturns, WakeClosed, Disconnect,
     WakeProxy, DropHandle, WakeUp, DropProxy
<1>11. CASE UNCHANGED async_vars
  BY <1>2, <1>11 DEF async_vars
<1> QED
  BY <1>3, <1>4, <1>5, <1>6, <1>7, <1>8, <1>9, <1>10, <1>11
     DEF AsyncNext, MainStep, WorkerCall

----
(* The theorems *)

\* The two tasks start queued, nothing is sent, nothing is dropped.
LEMMA InitAgreed ==
  ASSUME AsyncInit
  PROVE  AsyncTypeOK /\ Agreed
<1> USE AsyncAssumption DEF AsyncInit
<1>1. AsyncTypeOK
  <2>1. chan \in Seq([by : Workers, n : Nat])
    OBVIOUS
  <2>2. /\ waker \in [TaskNames -> BOOLEAN] /\ task \in [TaskNames -> {"parked", "queued", "ended"}]
        /\ pc \in [Workers -> WorkerSteps] /\ main \in Main
        /\ \A f \in {sent, ran, wakes} : f \in [Workers -> Nat]
    BY DEF WorkerSteps, Main
  <2> QED BY <2>1, <2>2 DEF AsyncTypeOK, Threads
<1>2. Handles
  BY DEF Handles, Held, DispatcherCalls
<1>3. Receiver /\ Proxy
  BY DEF Receiver, Proxy, Registered, SleepsOver, Done, TaskNames, ReceiverSteps, ProxySteps
<1>4. Numbered
  <2>1. chan = <<>> /\ Len(chan) = 0
    OBVIOUS
  <2>2. \A w \in Workers : Of(chan, w, 0) = {} /\ sent[w] = 0 /\ ran[w] = 0
    BY DEF Of
  <2>3. \A w \in Workers : sent[w] = ran[w] + Cardinality(Of(chan, w, Len(chan)))
    <3> HIDE DEF AsyncInit
    <3> TAKE w \in Workers
    <3>1. Cardinality(Of(chan, w, 0)) = 0
      BY <2>2, FS_EmptySet
    <3>2. Cardinality(Of(chan, w, Len(chan))) = 0
      BY <2>1, <3>1
    <3> QED BY <2>2, <3>2
  <2>4. 1 .. Len(chan) = {}
    BY <2>1
  <2> HIDE DEF AsyncInit
  <2> QED BY <2>3, <2>4 DEF Numbered
<1> QED BY <1>1, <1>2, <1>3, <1>4 DEF Agreed

\* The inductive invariant.
LEMMA Invariance == AsyncSpec => [](AsyncTypeOK /\ Agreed)
<1>1. AsyncTypeOK /\ Agreed /\ [AsyncNext]_async_vars => (AsyncTypeOK /\ Agreed)'
  BY NextType, NextHandles, NextReceiver, NextProxy, NextNumbered DEF Agreed
<1> QED BY <1>1, InitAgreed, PTL DEF AsyncSpec

\* Every variable keeps its type.
THEOREM AsyncTypeCorrectness == AsyncSpec => []AsyncTypeOK
BY Invariance, PTL

\* While anybody holds a clone of the Dispatcher, or a closure is queued, the
\* value and the Receiver are there: the unwraps of dispatcher.rs never panic.
THEOREM ValueOutlivesUse == AsyncSpec => []ValueWhileHeld
<1>1. AsyncTypeOK /\ Agreed => ValueWhileHeld
  BY DEF Agreed, Handles, ValueWhileHeld
<1> QED BY <1>1, Invariance, PTL

\* Neither task of the main thread sleeps on what it has to handle, unless the
\* thread that made it is about to wake it: no wake-up is lost.
THEOREM NoLostWakeUp == AsyncSpec => []TasksAwake
<1>1. AsyncTypeOK /\ Agreed => TasksAwake
  <2> SUFFICES ASSUME AsyncTypeOK, Agreed PROVE ReceiverAwake /\ ProxyAwake
    BY DEF TasksAwake
  <2>1. ReceiverAwake
    BY DEF Agreed, Receiver, ReceiverAwake, Parked, SleepsOver, Done
  <2>2. ProxyAwake
    BY DEF Agreed, Proxy, ProxyAwake, Parked, SleepsOver, Done
  <2> QED BY <2>1, <2>2
<1> QED BY <1>1, Invariance, PTL

\* The closures of a thread run in the order it sent them and none twice; those
\* given up were abandoned by everybody, and nobody waits for them.
THEOREM NoneLostOrRepeated == AsyncSpec => []Accounted
<1>1. AsyncTypeOK /\ Agreed => Accounted
  <2> SUFFICES ASSUME AsyncTypeOK, Agreed PROVE InOrder /\ LostOnlyWhenAbandoned
    BY DEF Accounted
  <2>1. InOrder
    <3>1. DOMAIN chan = 1 .. Len(chan)
      BY DEF AsyncTypeOK
    <3> QED BY <3>1 DEF Agreed, Numbered, Of, InOrder
  <2>2. LostOnlyWhenAbandoned
    BY DEF Agreed, Handles, LostOnlyWhenAbandoned, Held
  <2> QED BY <2>1, <2>2
<1> QED BY <1>1, Invariance, PTL
----
(* Custom cursors *)

\* Whom a cursor is dropped by: its owners, and the animations it is a frame of.
Direct ==
  {c \in Customs : held[c] # "none"}
    \cup (IF handler THEN {shown, loading} \cap Customs ELSE {})
Keeps(a) ==
  load[a] = "running" \/ (image[a] = "Loaded" /\ life[a] \in {"live", "dropping"})
Framed == UNION {FramesOf[a] : a \in {b \in Animations : Keeps(b)}}

\* A cursor lives exactly as long as somebody refers to it.
Owned ==
  /\ \A c \in Direct : life[c] = "live"
  /\ \A c \in Framed : life[c] = "live"
  /\ \A c \in Customs : life[c] = "live" => c \in Direct \cup Framed

\* It loads from its birth on, once, and no worker lets go of it meanwhile.
Loaded ==
  \A c \in Customs :
    /\ life[c] = "unborn" <=> load[c] = "none"
    /\ load[c] \in {"none", "running"} => image[c] = "Loading"
    /\ life[c] = "dropping" => image[c] # "Loading"

Lives == {"unborn", "live", "dropping", "dropped"}

\* A step that drops leaves alone what is referred to after it.
LEMMA DropsWhat ==
  ASSUME NEW lf \in [Customs -> Lives],
         NEW how \in {"dropped", "dropping"}, Drops(lf, how)
  PROVE  life' = [c \in Customs |->
                   IF lf[c] = "live" /\ c \notin Direct' /\ c \notin Framed' THEN how ELSE lf[c]]
<1> DEFINE gone(c) == lf[c] = "live" /\ c \notin Direct'
           keeps(a) == \/ load'[a] = "running"
                       \/ image'[a] = "Loaded" /\ lf[a] \in {"live", "dropping"}
                            /\ (how = "dropping" \/ ~gone(a))
           framed == UNION {FramesOf[a] : a \in {b \in Animations : keeps(b)}}
<1>1. life' = [c \in Customs |-> IF gone(c) /\ c \notin framed THEN how ELSE lf[c]]
  BY DEF Drops, Direct
<1>2. \A a \in Animations : a \in Customs /\ a \notin framed
  BY CursorAssumption DEF Customs
<1>3. \A a \in Animations : life'[a] = IF gone(a) THEN how ELSE lf[a]
  BY <1>1, <1>2
<1>4. \A a \in Animations : life'[a] \in {"live", "dropping"} <=>
        lf[a] \in {"live", "dropping"} /\ (how = "dropping" \/ ~gone(a))
  BY <1>3
<1>5. \A a \in Animations : (Keeps(a))' <=> keeps(a)
  BY <1>4 DEF Keeps
<1>6. Framed' = framed
  BY <1>5 DEF Framed
<1> QED BY <1>1, <1>6

\* So what is still referred to was not dropped, and nothing else is kept.
LEMMA OwnedAfter ==
  ASSUME NEW lf \in [Customs -> Lives],
         NEW how \in {"dropped", "dropping"}, Drops(lf, how),
         \A c \in Direct' : lf[c] = "live", \A c \in Framed' : lf[c] = "live"
  PROVE  Owned'
<1>1. Direct' \subseteq Customs /\ Framed' \subseteq Customs
  BY CursorAssumption DEF Direct, Framed, Customs
<1>2. life' = [c \in Customs |->
                 IF lf[c] = "live" /\ c \notin Direct' /\ c \notin Framed' THEN how ELSE lf[c]]
  BY DropsWhat
<1> QED BY <1>1, <1>2 DEF Owned

\* Dropping keeps the types.
LEMMA ReleaseType ==
  ASSUME NEW lf \in [Customs -> Lives], NEW how \in {"dropped", "dropping"}, Drops(lf, how)
  PROVE  life' \in [Customs -> Lives]
BY DEF Drops, Lives

\* So does aborting the watchers.
LEMMA AbortedType ==
  ASSUME CursorTypeOK
  PROVE  /\ AbortedWatchers \subseteq [cursor : Customs, live : BOOLEAN]
         /\ {w \in AbortedWatchers : w.live} = {}
<1>1. \A w \in watchers :
        /\ [w EXCEPT !.live = FALSE] \in [cursor : Customs, live : BOOLEAN]
        /\ [w EXCEPT !.live = FALSE].live = FALSE
  BY DEF CursorTypeOK
<1> QED BY <1>1 DEF AbortedWatchers

\* And selecting a cursor.
LEMMA SelectType ==
  ASSUME CursorTypeOK, NEW s \in Names, Select(s)
  PROVE  /\ shown' \in Names /\ loading' = None
         /\ anim' \in {0, 1} /\ playing' \subseteq {0, 1}
         /\ css' \in Names \cup {"removed", "none"}
<1>1. anim' \in {0, 1} /\ AfterDropper \subseteq {0, 1}
  BY DEF Select, AfterDropper, CursorTypeOK
<1>2. playing' \subseteq {0, 1} /\ css' \in Names \cup {"removed", "none"}
  BY <1>1 DEF Select, SetStyle, CursorTypeOK
<1> QED BY <1>1, <1>2 DEF Select

\* Every step keeps the types.
LEMMA CursorType ==
  ASSUME CursorTypeOK, [CursorNext]_cursor_vars
  PROVE  CursorTypeOK'
<1>1. ASSUME NEW c \in Customs, ReceiveDrop(c) PROVE CursorTypeOK'
  <2>1. life' \in [Customs -> Lives]
    BY <1>1, ReleaseType DEF ReceiveDrop, CursorTypeOK, Lives, Customs
  <2> QED BY <1>1, <2>1 DEF ReceiveDrop, Lives, CursorTypeOK, Customs, handler_vars
<1>2. ASSUME NEW c \in Customs, New(c) PROVE CursorTypeOK'
  BY <1>2 DEF New, Call, CursorTypeOK, Names, Customs, handler_vars, image_vars
<1>3. ASSUME NEW c \in Customs, FutureReady(c) PROVE CursorTypeOK'
  <2>1. life' \in [Customs -> Lives]
    BY <1>3, ReleaseType DEF FutureReady, Release, CursorTypeOK, Lives, Customs
  <2> QED BY <1>3, <2>1 DEF FutureReady, Lives, Call, CursorTypeOK, Names, Customs, handler_vars, image_vars
<1>4. ASSUME NEW c \in Customs, ToWorker(c) PROVE CursorTypeOK'
  BY <1>4 DEF ToWorker, Call, CursorTypeOK, Names, Customs, handler_vars, image_vars
<1>5. ASSUME NEW c \in Customs, Drop(c) PROVE CursorTypeOK'
  <2>1. life' \in [Customs -> Lives]
    BY <1>5, ReleaseType DEF Drop, CursorTypeOK, Lives, Customs
  <2> QED BY <1>5, <2>1 DEF Drop, Lives, CursorTypeOK, Customs, handler_vars
<1>6. ASSUME NEW c \in Customs, Loads(c) PROVE CursorTypeOK'
  <2>1. life' \in [Customs -> Lives]
    BY <1>6, ReleaseType DEF Loads, Release, CursorTypeOK, Lives, Customs
  <2>0. Outcomes(c) \subseteq {"Failed", "Loaded"}
    BY DEF Outcomes
  <2>2. image' \in [Customs -> {"Loading", "Failed", "Loaded"}] /\ panicked' \in BOOLEAN
    <3> DEFINE ImageStates == {"Loading", "Failed", "Loaded"}
    <3>1. image \in [Customs -> ImageStates] /\ panicked \in BOOLEAN
      BY DEF CursorTypeOK
    <3>2. \/ image' = image
          \/ \E s \in Outcomes(c) : image' = [image EXCEPT ![c] = s]
      BY <1>6 DEF Loads
    <3>3. Outcomes(c) \subseteq ImageStates
      BY <2>0
    <3>4. image' \in [Customs -> ImageStates]
      <4> HIDE DEF ImageStates
      <4> QED BY <1>6, <3>1, <3>2, <3>3
    <3>5. panicked' = panicked \/ panicked' = TRUE
      BY <1>6 DEF Loads
    <3> QED BY <3>1, <3>4, <3>5
  <2>3. load' \in [Customs -> {"none", "running", "ended"}]
    BY <1>6 DEF Loads, CursorTypeOK
  <2> QED BY <1>6, <2>1, <2>2, <2>3 DEF Loads, Lives, CursorTypeOK, handler_vars
<1>7. ASSUME NEW c \in Customs, LoadAborted(c) PROVE CursorTypeOK'
  <2>1. life' \in [Customs -> Lives]
    BY <1>7, ReleaseType DEF LoadAborted, Release, CursorTypeOK, Lives, Customs
  <2> QED BY <1>7, <2>1 DEF LoadAborted, Lives, Call, CursorTypeOK, Names, Customs, handler_vars, image_vars
<1>8. ASSUME NEW i \in Icons, SetIcon(i) PROVE CursorTypeOK'
  <2>1. life' \in [Customs -> Lives]
    BY <1>8, ReleaseType DEF SetIcon, Release, CursorTypeOK, Lives, Customs
  <2>2. watchers' \subseteq [cursor : Customs, live : BOOLEAN]
    BY <1>8, AbortedType DEF SetIcon, CursorTypeOK, StartLoading
  <2>3. /\ shown' \in Names /\ loading' \in Customs \cup {None}
        /\ anim' \in {0, 1} /\ playing' \subseteq {0, 1}
        /\ css' \in Names \cup {"removed", "none"} /\ wanted' \in Names /\ panicked' \in BOOLEAN
    BY <1>8, SelectType DEF SetIcon, CursorTypeOK, Names
  <2> QED BY <1>8, <2>1, <2>2, <2>3, CursorAssumption DEF SetIcon, Lives, Call, CursorTypeOK
<1>9. ASSUME NEW c \in Customs, SetCustom(c) PROVE CursorTypeOK'
  <2>1. life' \in [Customs -> Lives]
    BY <1>9, ReleaseType DEF SetCustom, Release, CursorTypeOK, Lives, Customs
  <2>2. watchers' \subseteq [cursor : Customs, live : BOOLEAN]
    <3>1. [cursor |-> c, live |-> TRUE] \in [cursor : Customs, live : BOOLEAN]
      BY <1>9
    <3>2. \/ watchers' = watchers \/ watchers' = AbortedWatchers
          \/ watchers' = AbortedWatchers \cup {[cursor |-> c, live |-> TRUE]}
      BY <1>9 DEF SetCustom, StartLoading
    <3>3. AbortedWatchers \subseteq [cursor : Customs, live : BOOLEAN]
      BY AbortedType
    <3>4. watchers \subseteq [cursor : Customs, live : BOOLEAN]
      BY DEF CursorTypeOK
    <3> QED BY <3>1, <3>2, <3>3, <3>4
  <2>3. /\ shown' \in Names /\ loading' \in Customs \cup {None}
        /\ anim' \in {0, 1} /\ playing' \subseteq {0, 1}
        /\ css' \in Names \cup {"removed", "none"} /\ wanted' \in Names /\ panicked' \in BOOLEAN
    BY <1>9, SelectType DEF SetCustom, StartLoading, CursorTypeOK, Names
  <2> QED BY <1>9, <2>1, <2>2, <2>3, CursorAssumption DEF SetCustom, Lives, Call, CursorTypeOK
<1>10. ASSUME NEW v \in BOOLEAN, SetVisible(v) PROVE CursorTypeOK'
  <2>0. {anim} \subseteq {0, 1} /\ playing \subseteq {0, 1} /\ AfterDropper \subseteq {0, 1}
    BY DEF AfterDropper, CursorTypeOK
  <2>1. playing' \subseteq {0, 1}
    BY <1>10, <2>0 DEF SetVisible
  <2>2. css' \in Names \cup {"removed", "none"}
    BY <1>10 DEF SetVisible, CursorTypeOK
  <2> QED BY <1>10, <2>1, <2>2, CursorAssumption DEF SetVisible, Call, CursorTypeOK, image_vars
<1>11. CASE WatcherAborted
  BY <1>11 DEF WatcherAborted, Call, CursorTypeOK, Names, Customs, handler_vars, image_vars
<1>12. ASSUME NEW c \in Customs, Notify(c) PROVE CursorTypeOK'
  <2>1. life' \in [Customs -> Lives]
    BY <1>12, ReleaseType DEF Notify, Release, CursorTypeOK, Lives, Customs
  <2>2. watchers' \subseteq [cursor : Customs, live : BOOLEAN]
    BY <1>12, AbortedType DEF Notify, CursorTypeOK, StartLoading
  <2>3. /\ shown' \in Names /\ loading' \in Customs \cup {None}
        /\ anim' \in {0, 1} /\ playing' \subseteq {0, 1}
        /\ css' \in Names \cup {"removed", "none"} /\ wanted' \in Names /\ panicked' \in BOOLEAN
    <3>1. CASE loading # None /\ Select(loading) /\ UNCHANGED panicked
      BY <1>12, <3>1, SelectType DEF Notify, CursorTypeOK, Names
    <3>2. CASE loading' = None /\ UNCHANGED <<shown, anim, css, playing, panicked>>
      BY <1>12, <3>2 DEF Notify, CursorTypeOK
    <3>3. CASE panicked' = TRUE /\ UNCHANGED <<shown, loading, anim, css, playing>>
      BY <1>12, <3>3 DEF Notify, CursorTypeOK
    <3> QED BY <1>12, <3>1, <3>2, <3>3 DEF Notify
  <2> QED BY <1>12, <2>1, <2>2, <2>3 DEF Notify, Lives, Call, CursorTypeOK
<1>13. CASE DropHandler
  <2>1. life' \in [Customs -> Lives]
    BY <1>13, ReleaseType DEF DropHandler, Release, CursorTypeOK, Lives, Customs
  <2>2. watchers' \subseteq [cursor : Customs, live : BOOLEAN]
    BY <1>13, AbortedType DEF DropHandler, CursorTypeOK, StartLoading
  <2>3. playing' \subseteq {0, 1}
    BY <1>13 DEF DropHandler, AfterDropper, CursorTypeOK
  <2> QED BY <1>13, <2>1, <2>2, <2>3 DEF DropHandler, Lives, Call, CursorTypeOK
<1>14. CASE UNCHANGED cursor_vars
  BY <1>14 DEF cursor_vars, image_vars, handler_vars, CursorTypeOK
<1> QED BY <1>1, <1>2, <1>3, <1>4, <1>5, <1>6, <1>7, <1>8, <1>9, <1>10, <1>11, <1>12, <1>13, <1>14 DEF CursorNext, CursorTasks, CursorCalls

----
\* What still keeps frames after a step that drops kept them before.
LEMMA FramedKept ==
  ASSUME CursorTypeOK, NEW how \in {"dropped", "dropping"}, Drops(life, how),
         \A a \in Animations :
           load'[a] = "running" \/ (image'[a] = "Loaded" /\ life[a] \in {"live", "dropping"})
             => Keeps(a)
  PROVE  Framed' \subseteq Framed
<1>1. life \in [Customs -> Lives] /\ Animations \subseteq Customs
  BY DEF CursorTypeOK, Lives, Customs
<1>2. \A a \in Animations : life'[a] \in {"live", "dropping"} => life[a] \in {"live", "dropping"}
  BY <1>1, DropsWhat
<1>3. \A a \in Animations : (Keeps(a))' => Keeps(a)
  BY <1>2 DEF Keeps
<1> QED BY <1>3 DEF Framed

\* A step that drops keeps the owners right if it refers to nothing that was dropped.
LEMMA OwnedStep ==
  ASSUME CursorTypeOK, Owned, NEW how \in {"dropped", "dropping"},
         Drops(life, how), \A c \in Direct' : life[c] = "live",
         \A a \in Animations :
           load'[a] = "running" \/ (image'[a] = "Loaded" /\ life[a] \in {"live", "dropping"})
             => Keeps(a)
  PROVE  Owned'
<1>1. life \in [Customs -> Lives]
  BY DEF CursorTypeOK, Lives
<1>2. \A c \in Framed' : life[c] = "live"
  BY FramedKept DEF Owned
<1> QED BY <1>1, <1>2, OwnedAfter

\* A cursor that is made has an owner, as have the frames it is made from.
LEMMA NewOwned ==
  ASSUME CursorTypeOK, Owned, NEW c \in Customs, New(c)
  PROVE  Owned'
<1>1. life[c] = "unborn" /\ c \notin Direct /\ c \notin Framed
  BY DEF New, Owned
<1>2. \A d \in Customs : life'[d] = IF d = c THEN "live" ELSE life[d]
  BY DEF New, CursorTypeOK
<1>3. Direct' = Direct \cup {c}
  <2>1. \A d \in Customs : held'[d] # "none" <=> d = c \/ held[d] # "none"
    BY DEF New, CursorTypeOK
  <2> QED BY <2>1 DEF New, handler_vars, Direct
<1>4. \A a \in Animations : (Keeps(a))' <=> a = c \/ Keeps(a)
  <2>1. \A a \in Animations : a \in Customs
    BY DEF Customs
  <2>2. \A a \in Animations : load'[a] = IF a = c THEN "running" ELSE load[a]
    BY <2>1 DEF New, CursorTypeOK
  <2> QED BY <1>2, <2>1, <2>2 DEF Keeps, New
<1>5. Framed' = Framed \cup (IF c \in Animations THEN FramesOf[c] ELSE {})
  BY <1>4 DEF Framed
<1>6. c \in Animations => \A f \in FramesOf[c] : f \in Direct
  BY CursorAssumption DEF New, Direct, Customs
<1>7. \A d \in Direct \cup Framed : d \in Customs
  BY CursorAssumption DEF Direct, Framed, Customs
<1>8. \A d \in Direct' : life'[d] = "live"
  BY <1>1, <1>2, <1>3, <1>7 DEF Owned
<1>9. \A d \in Framed' : life'[d] = "live"
  BY <1>1, <1>2, <1>5, <1>6, <1>7 DEF Owned
<1>10. \A d \in Customs : life'[d] = "live" => d \in Direct' \cup Framed'
  BY <1>1, <1>2, <1>3, <1>5 DEF Owned
<1> QED BY <1>8, <1>9, <1>10 DEF Owned

\* Nor does what was sent to the main thread and is dropped there take anything along.
LEMMA ReceiveOwned ==
  ASSUME CursorTypeOK, Owned, NEW c \in Customs, ReceiveDrop(c)
  PROVE  Owned'
<1> DEFINE lf == [life EXCEPT ![c] = "dropped"]
<1>1. lf \in [Customs -> Lives] /\ Drops(lf, "dropped") /\ life[c] = "dropping"
  BY DEF ReceiveDrop, CursorTypeOK, Lives
<1>2. \A d \in Customs : lf[d] = IF d = c THEN "dropped" ELSE life[d]
  BY DEF CursorTypeOK
<1> HIDE DEF lf
<1>3. Direct' = Direct
  BY DEF ReceiveDrop, handler_vars, Direct
<1>4. Direct \subseteq Customs /\ Framed \subseteq Customs /\ Animations \subseteq Customs
  BY CursorAssumption DEF Direct, Framed, Customs
<1>5. \A d \in Direct \cup Framed : d # c /\ lf[d] = "live"
  BY <1>1, <1>2, <1>4 DEF Owned
<1>6. \A a \in Animations : life'[a] \in {"live", "dropping"} => life[a] \in {"live", "dropping"}
  BY <1>1, <1>2, <1>4, DropsWhat
<1>7. \A a \in Animations : (Keeps(a))' => Keeps(a)
  BY <1>6 DEF Keeps, ReceiveDrop
<1>8. Framed' \subseteq Framed
  BY <1>7 DEF Framed
<1> QED BY <1>1, <1>3, <1>5, <1>8, OwnedAfter

\* Every step keeps the owners right.
LEMMA OwnedNext ==
  ASSUME CursorTypeOK, Owned, [CursorNext]_cursor_vars
  PROVE  Owned'
<1>0. \A a \in Animations : a \in Customs
  BY DEF Customs
<1>1. ASSUME NEW c \in Customs, ReceiveDrop(c) PROVE Owned'
  BY <1>1, ReceiveOwned
<1>2. ASSUME NEW c \in Customs, New(c) PROVE Owned'
  BY <1>2, NewOwned
<1>3. ASSUME NEW c \in Customs, FutureReady(c) PROVE Owned'
  <2>1. \A d \in Direct' : life[d] = "live"
    <3>1. \A d \in Customs : held'[d] # "none" => held[d] # "none"
      BY <1>3 DEF FutureReady, CursorTypeOK
    <3> QED BY <1>3, <3>1 DEF FutureReady, handler_vars, Direct, Owned
  <2>2. \A a \in Animations :
          load'[a] = "running" \/ (image'[a] = "Loaded" /\ life[a] \in {"live", "dropping"})
            => Keeps(a)
    BY <1>3, <1>0 DEF FutureReady, Keeps, CursorTypeOK
  <2> QED BY <1>3, <2>1, <2>2, OwnedStep DEF FutureReady, Release
<1>4. ASSUME NEW c \in Customs, ToWorker(c) PROVE Owned'
  <2>1. \A d \in Customs : held'[d] # "none" <=> held[d] # "none"
    BY <1>4 DEF ToWorker, CursorTypeOK
  <2>2. Direct' = Direct /\ Framed' = Framed /\ life' = life
    BY <1>4, <2>1 DEF ToWorker, handler_vars, Direct, Framed, Keeps
  <2> QED BY <2>2 DEF Owned
<1>5. ASSUME NEW c \in Customs, Drop(c) PROVE Owned'
  <2>1. \A d \in Direct' : life[d] = "live"
    <3>1. \A d \in Customs : held'[d] # "none" => held[d] # "none"
      BY <1>5 DEF Drop, CursorTypeOK
    <3> QED BY <1>5, <3>1 DEF Drop, handler_vars, Direct, Owned
  <2>2. \A a \in Animations :
          load'[a] = "running" \/ (image'[a] = "Loaded" /\ life[a] \in {"live", "dropping"})
            => Keeps(a)
    BY <1>5, <1>0 DEF Drop, Keeps, CursorTypeOK
  <2> QED BY <1>5, <2>1, <2>2, OwnedStep DEF Drop, Release
<1>6. ASSUME NEW c \in Customs, Loads(c) PROVE Owned'
  <2>1. \A d \in Direct' : life[d] = "live"
    BY <1>6 DEF Loads, handler_vars, Direct, Owned
  <2>2. \A a \in Animations :
          load'[a] = "running" \/ (image'[a] = "Loaded" /\ life[a] \in {"live", "dropping"})
            => Keeps(a)
    BY <1>6, <1>0 DEF Loads, Keeps, CursorTypeOK
  <2> QED BY <1>6, <2>1, <2>2, OwnedStep DEF Loads, Release
<1>7. ASSUME NEW c \in Customs, LoadAborted(c) PROVE Owned'
  <2>1. \A d \in Direct' : life[d] = "live"
    BY <1>7 DEF LoadAborted, handler_vars, Direct, Owned
  <2>2. \A a \in Animations :
          load'[a] = "running" \/ (image'[a] = "Loaded" /\ life[a] \in {"live", "dropping"})
            => Keeps(a)
    BY <1>7, <1>0 DEF LoadAborted, Keeps, CursorTypeOK
  <2> QED BY <1>7, <2>1, <2>2, OwnedStep DEF LoadAborted, Release
<1>8. ASSUME NEW i \in Icons, SetIcon(i) PROVE Owned'
  <2>1. \A d \in Direct' : life[d] = "live"
    <3>1. \A d \in Direct' : d \in Direct
      <4>1. ({shown', loading'} \cap Customs) \subseteq {shown, loading}
        <5>1. i \notin Customs /\ None \notin Customs
          BY <1>8, CursorAssumption DEF Names
        <5> QED BY <1>8, <5>1 DEF SetIcon, Select
      <4> QED BY <1>8, <4>1 DEF SetIcon, Direct
    <3> QED BY <3>1 DEF Owned
  <2>2. \A a \in Animations :
          load'[a] = "running" \/ (image'[a] = "Loaded" /\ life[a] \in {"live", "dropping"})
            => Keeps(a)
    BY <1>8, <1>0 DEF SetIcon, Keeps, CursorTypeOK
  <2> QED BY <1>8, <2>1, <2>2, OwnedStep DEF SetIcon, Release
<1>9. ASSUME NEW c \in Customs, SetCustom(c) PROVE Owned'
  <2>1. \A d \in Direct' : life[d] = "live"
    <3>1. \A d \in Direct' : d \in Direct
      <4>1. {shown', loading'} \subseteq {shown, loading, None, c} /\ held[c] # "none"
        BY <1>9 DEF SetCustom, Select, StartLoading
      <4>2. None \notin Customs
        BY CursorAssumption DEF Names
      <4> QED BY <1>9, <4>1, <4>2 DEF SetCustom, Direct
    <3> QED BY <3>1 DEF Owned
  <2>2. \A a \in Animations :
          load'[a] = "running" \/ (image'[a] = "Loaded" /\ life[a] \in {"live", "dropping"})
            => Keeps(a)
    BY <1>9, <1>0 DEF SetCustom, Keeps, CursorTypeOK
  <2> QED BY <1>9, <2>1, <2>2, OwnedStep DEF SetCustom, Release
<1>10. ASSUME NEW v \in BOOLEAN, SetVisible(v) PROVE Owned'
  <2>1. Direct' = Direct /\ Framed' = Framed /\ life' = life
    BY <1>10 DEF SetVisible, handler_vars, image_vars, Direct, Framed, Keeps, CursorTypeOK
  <2> QED BY <2>1 DEF Owned
<1>11. CASE WatcherAborted
  <2>1. Direct' = Direct /\ Framed' = Framed /\ life' = life
    BY <1>11 DEF WatcherAborted, handler_vars, image_vars, Direct, Framed, Keeps, CursorTypeOK
  <2> QED BY <2>1 DEF Owned
<1>12. ASSUME NEW c \in Customs, Notify(c) PROVE Owned'
  <2>1. \A d \in Direct' : life[d] = "live"
    <3>1. \A d \in Direct' : d \in Direct
      <4>1. {shown', loading'} \subseteq {shown, loading, None}
        BY <1>12 DEF Notify, Select
      <4>2. None \notin Customs
        BY CursorAssumption DEF Names
      <4> QED BY <1>12, <4>1, <4>2 DEF Notify, Direct
    <3> QED BY <3>1 DEF Owned
  <2>2. \A a \in Animations :
          load'[a] = "running" \/ (image'[a] = "Loaded" /\ life[a] \in {"live", "dropping"})
            => Keeps(a)
    BY <1>12, <1>0 DEF Notify, Keeps, CursorTypeOK
  <2> QED BY <1>12, <2>1, <2>2, OwnedStep DEF Notify, Release
<1>13. CASE DropHandler
  <2>1. \A d \in Direct' : life[d] = "live"
    <3>1. \A d \in Direct' : d \in Direct
      BY <1>13 DEF DropHandler, Direct
    <3> QED BY <3>1 DEF Owned
  <2>2. \A a \in Animations :
          load'[a] = "running" \/ (image'[a] = "Loaded" /\ life[a] \in {"live", "dropping"})
            => Keeps(a)
    BY <1>13, <1>0 DEF DropHandler, Keeps, CursorTypeOK
  <2> QED BY <1>13, <2>1, <2>2, OwnedStep DEF DropHandler, Release
<1>14. CASE UNCHANGED cursor_vars
  <2>1. Direct' = Direct /\ Framed' = Framed /\ life' = life
    BY <1>14 DEF cursor_vars, handler_vars, image_vars, Direct, Framed, Keeps
  <2> QED BY <2>1 DEF Owned
<1> QED BY <1>1, <1>2, <1>3, <1>4, <1>5, <1>6, <1>7, <1>8, <1>9, <1>10, <1>11, <1>12, <1>13, <1>14 DEF CursorNext, CursorTasks, CursorCalls

----
\* A step that drops, and changes no image and no loading task.
LEMMA LoadedStep ==
  ASSUME CursorTypeOK, Loaded, Drops(life, "dropped"), UNCHANGED <<image, load>>
  PROVE  Loaded'
<1>1. \A c \in Customs :
        /\ life'[c] = "unborn" <=> life[c] = "unborn"
        /\ life'[c] = "dropping" => life[c] = "dropping"
  BY DEF Drops, CursorTypeOK
<1> QED BY <1>1 DEF Loaded, Customs

\* What a worker lets go of has ended to load.
LEMMA DropLoaded ==
  ASSUME EarlyDrops = FALSE, CursorTypeOK, Owned, Loaded,
         NEW c \in Customs, Drop(c)
  PROVE  Loaded'
<1>1. CASE held[c] # "worker"
  BY <1>1, LoadedStep DEF Drop
<1>2. CASE held[c] = "worker"
  <2>1. Drops(life, "dropping") /\ life \in [Customs -> Lives]
    BY <1>2 DEF Drop, CursorTypeOK, Lives
  <2>2. life' = [d \in Customs |->
                  IF life[d] = "live" /\ d \notin Direct' /\ d \notin Framed' THEN "dropping" ELSE life[d]]
    BY <2>1, DropsWhat
  <2>3. \A a \in Animations : Keeps(a) => (Keeps(a))'
    <3>1. Animations \subseteq Customs
      BY DEF Customs
    <3>2. \A a \in Animations : life[a] \in {"live", "dropping"} => life'[a] \in {"live", "dropping"}
      BY <2>2, <3>1
    <3> QED BY <3>2 DEF Keeps, Drop
  <2>4. Framed \subseteq Framed'
    BY <2>3 DEF Framed
  <2>5. Direct \subseteq Direct' \cup {c}
    <3>1. \A d \in Customs : d # c => held'[d] = held[d]
      BY DEF Drop, CursorTypeOK
    <3> QED BY <3>1 DEF Drop, handler_vars, Direct
  <2>6. image[c] # "Loading"
    BY <1>2 DEF Drop
  <2>7. \A d \in Customs :
          /\ life'[d] = "unborn" <=> life[d] = "unborn"
          /\ life'[d] = "dropping" => life[d] = "dropping" \/ d = c
    BY <2>2, <2>4, <2>5 DEF Owned
  <2> QED BY <2>6, <2>7 DEF Drop, Loaded, Customs
<1> QED BY <1>1, <1>2

\* What loads lives, so that it can store what it loaded.
LEMMA LoadsLive ==
  ASSUME CursorTypeOK, Loaded, NEW c \in Customs, Loads(c)
  PROVE  life[c] = "live" /\ image[c] = "Loading"
BY DEF Loads, Loaded, CursorTypeOK

\* Every step keeps what loads in order.
LEMMA LoadedNext ==
  ASSUME EarlyDrops = FALSE, CursorTypeOK, Owned, Loaded, [CursorNext]_cursor_vars
  PROVE  Loaded'
<1>1. ASSUME NEW c \in Customs, ReceiveDrop(c) PROVE Loaded'
  <2>1. \A d \in Customs :
          /\ life'[d] = "unborn" <=> life[d] = "unborn"
          /\ life'[d] = "dropping" => life[d] = "dropping"
    BY <1>1 DEF ReceiveDrop, Drops, CursorTypeOK
  <2> QED BY <1>1, <2>1 DEF ReceiveDrop, Loaded, Customs
<1>2. ASSUME NEW c \in Customs, New(c) PROVE Loaded'
  <2>1. \A d \in Customs :
          /\ life'[d] = IF d = c THEN "live" ELSE life[d]
          /\ load'[d] = IF d = c THEN "running" ELSE load[d]
    BY <1>2 DEF New, CursorTypeOK
  <2> QED BY <1>2, <2>1 DEF New, Loaded, Customs
<1>3. ASSUME NEW c \in Customs, FutureReady(c) PROVE Loaded'
  BY <1>3, LoadedStep DEF FutureReady, Release
<1>4. ASSUME NEW c \in Customs, ToWorker(c) PROVE Loaded'
  BY <1>4 DEF ToWorker, Loaded, image_vars
<1>5. ASSUME NEW c \in Customs, Drop(c) PROVE Loaded'
  BY <1>5, DropLoaded
<1>6. ASSUME NEW c \in Customs, Loads(c) PROVE Loaded'
  <2>1. \A d \in Customs :
          /\ life'[d] = "unborn" <=> life[d] = "unborn"
          /\ life'[d] = "dropping" => life[d] = "dropping"
    BY <1>6 DEF Loads, Release, Drops, CursorTypeOK
  <2>2. \A d \in Customs : load'[d] = IF d = c THEN "ended" ELSE load[d]
    BY <1>6 DEF Loads, CursorTypeOK
  <2>3. life[c] = "live" /\ \A d \in Customs : d # c => image'[d] = image[d]
    BY <1>6, LoadsLive DEF Loads, CursorTypeOK
  <2> QED BY <1>6, <2>1, <2>2, <2>3 DEF Loads, Loaded, Customs
<1>7. ASSUME NEW c \in Customs, LoadAborted(c) PROVE Loaded'
  <2>1. \A d \in Customs :
          /\ life'[d] = "unborn" <=> life[d] = "unborn"
          /\ life'[d] = "dropping" => life[d] = "dropping"
    BY <1>7 DEF LoadAborted, Release, Drops, CursorTypeOK
  <2>2. \A d \in Customs : load'[d] = IF d = c THEN "ended" ELSE load[d]
    BY <1>7 DEF LoadAborted, CursorTypeOK
  <2> QED BY <1>7, <2>1, <2>2 DEF LoadAborted, Loaded, Customs
<1>8. ASSUME NEW i \in Icons, SetIcon(i) PROVE Loaded'
  BY <1>8, LoadedStep DEF SetIcon, Release
<1>9. ASSUME NEW c \in Customs, SetCustom(c) PROVE Loaded'
  BY <1>9, LoadedStep DEF SetCustom, Release
<1>10. ASSUME NEW v \in BOOLEAN, SetVisible(v) PROVE Loaded'
  BY <1>10 DEF SetVisible, Loaded, image_vars
<1>11. CASE WatcherAborted
  BY <1>11 DEF WatcherAborted, Loaded, image_vars
<1>12. ASSUME NEW c \in Customs, Notify(c) PROVE Loaded'
  BY <1>12, LoadedStep DEF Notify, Release
<1>13. CASE DropHandler
  BY <1>13, LoadedStep DEF DropHandler, Release
<1>14. CASE UNCHANGED cursor_vars
  BY <1>14 DEF cursor_vars, image_vars, Loaded
<1> QED BY <1>1, <1>2, <1>3, <1>4, <1>5, <1>6, <1>7, <1>8, <1>9, <1>10, <1>11, <1>12, <1>13, <1>14 DEF CursorNext, CursorTasks, CursorCalls

----
\* What a handler shows.
Styled ==
  /\ shown \in Customs /\ handler => image[shown] = "Loaded"
  /\ css = IF visible = FALSE THEN "none"
           ELSE IF shown = Default \/ shown \in Animations THEN "removed" ELSE shown
  /\ playing \subseteq IF handler /\ shown \in Animations THEN {anim} ELSE {}
  /\ visible /\ handler /\ shown \in Animations => anim \in playing

\* Consistent is that, as far as no owner is concerned.
LEMMA StyledIsConsistent ==
  ASSUME CursorTypeOK, Owned
  PROVE  Styled <=> Consistent
<1>1. shown \in Customs /\ handler => life[shown] = "live"
  BY DEF Owned, Direct
<1>2. (~visible) <=> visible = FALSE
  BY DEF CursorTypeOK
<1> QED BY <1>1, <1>2 DEF Styled, Consistent

\* The dropper of the cursor shown stops what plays.
LEMMA DropperStops ==
  ASSUME Styled
  PROVE  handler => AfterDropper = {}
BY DEF Styled, AfterDropper

\* Selecting a cursor that has loaded shows it.
LEMMA SelectStyled ==
  ASSUME CursorTypeOK, Styled, handler = TRUE, handler' = TRUE, UNCHANGED <<visible, image>>,
         NEW s \in Names, s \in Customs => image[s] = "Loaded", Select(s)
  PROVE  Styled'
<1>1. AfterDropper = {} /\ shown' = s
  BY DropperStops DEF Select
<1>2. CASE visible = TRUE
  BY <1>1, <1>2 DEF Select, SetStyle, Styled
<1>3. CASE visible = FALSE
  BY <1>1, <1>3 DEF Select, SetStyle, Styled
<1> QED BY <1>2, <1>3 DEF CursorTypeOK

\* Every step keeps what is shown.
LEMMA StyledNext ==
  ASSUME CursorTypeOK, Loaded, OneWatcher, Styled, [CursorNext]_cursor_vars
  PROVE  Styled'
<1>1. ASSUME NEW c \in Customs, ReceiveDrop(c) PROVE Styled'
  BY <1>1 DEF ReceiveDrop, handler_vars, image_vars, Styled
<1>2. ASSUME NEW c \in Customs, New(c) PROVE Styled'
  BY <1>2 DEF New, handler_vars, image_vars, Styled
<1>3. ASSUME NEW c \in Customs, FutureReady(c) PROVE Styled'
  BY <1>3 DEF FutureReady, handler_vars, image_vars, Styled
<1>4. ASSUME NEW c \in Customs, ToWorker(c) PROVE Styled'
  BY <1>4 DEF ToWorker, handler_vars, image_vars, Styled
<1>5. ASSUME NEW c \in Customs, Drop(c) PROVE Styled'
  BY <1>5 DEF Drop, handler_vars, image_vars, Styled
<1>6. ASSUME NEW c \in Customs, Loads(c) PROVE Styled'
  <2>1. image[c] = "Loading" /\ \A d \in Customs : d # c => image'[d] = image[d]
    BY <1>6, LoadsLive DEF Loads, CursorTypeOK
  <2> QED BY <1>6, <2>1 DEF Loads, handler_vars, Styled
<1>7. ASSUME NEW c \in Customs, LoadAborted(c) PROVE Styled'
  BY <1>7 DEF LoadAborted, handler_vars, image_vars, Styled
<1>8. ASSUME NEW i \in Icons, SetIcon(i) PROVE Styled'
  <2>1. CASE Select(i)
    <3>1. i \in Names /\ i \notin Customs /\ handler = TRUE
      BY <1>8, CursorAssumption DEF SetIcon, Names, CursorTypeOK
    <3> QED BY <1>8, <2>1, <3>1, SelectStyled DEF SetIcon
  <2>2. CASE UNCHANGED <<shown, anim, css, playing>>
    BY <1>8, <2>2 DEF SetIcon, Styled
  <2> QED BY <1>8, <2>1, <2>2 DEF SetIcon
<1>9. ASSUME NEW c \in Customs, SetCustom(c) PROVE Styled'
  <2>1. CASE image[c] = "Loaded" /\ Select(c)
    <3>1. c \in Names /\ handler = TRUE
      BY <1>9 DEF SetCustom, Names, CursorTypeOK
    <3> QED BY <1>9, <2>1, <3>1, SelectStyled DEF SetCustom
  <2>2. CASE UNCHANGED <<shown, anim, css, playing>>
    BY <1>9, <2>2 DEF SetCustom, Styled
  <2> QED BY <1>9, <2>1, <2>2 DEF SetCustom, StartLoading
<1>10. ASSUME NEW v \in BOOLEAN, SetVisible(v) PROVE Styled'
  <2>1. CASE v = TRUE
    BY <1>10, <2>1 DEF SetVisible, image_vars, Styled
  <2>2. CASE v = FALSE
    BY <1>10, <2>2, DropperStops DEF SetVisible, image_vars, Styled
  <2> QED BY <1>10, <2>1, <2>2
<1>11. CASE WatcherAborted
  BY <1>11 DEF WatcherAborted, handler_vars, image_vars, Styled
<1>12. ASSUME NEW c \in Customs, Notify(c) PROVE Styled'
  <2>1. CASE handler /\ image[loading] = "Loaded" /\ loading # None /\ Select(loading)
    <3>1. loading \in Names /\ handler = TRUE
      BY <2>1 DEF Names, CursorTypeOK
    <3> QED BY <1>12, <2>1, <3>1, SelectStyled DEF Notify
  <2>2. CASE UNCHANGED <<shown, anim, css, playing>>
    BY <1>12, <2>2 DEF Notify, Styled
  <2> QED BY <1>12, <2>1, <2>2 DEF Notify
<1>13. CASE DropHandler
  <2>1. AfterDropper = {}
    BY <1>13, DropperStops DEF DropHandler
  <2> QED BY <1>13, <2>1 DEF DropHandler, Styled
<1>14. CASE UNCHANGED cursor_vars
  BY <1>14 DEF cursor_vars, image_vars, handler_vars, Styled
<1> QED BY <1>1, <1>2, <1>3, <1>4, <1>5, <1>6, <1>7, <1>8, <1>9, <1>10, <1>11, <1>12, <1>13, <1>14 DEF CursorNext, CursorTasks, CursorCalls

\* A task that notifies finds the cursor it was spawned for, ready.
LEMMA NotifyReady ==
  ASSUME OneWatcher, NEW c \in Customs, Notify(c)
  PROVE  handler /\ loading = c /\ c # None /\ image[c] # "Loading"
<1> DEFINE w == [cursor |-> c, live |-> TRUE]
<1>1. w \in watchers /\ w.live /\ image[c] # "Loading"
  BY DEF Notify
<1>2. handler /\ loading # None /\ w = [cursor |-> loading, live |-> TRUE]
  BY <1>1 DEF OneWatcher
<1>3. w.cursor = c /\ w.cursor = loading
  BY <1>2
<1> QED BY <1>1, <1>2, <1>3

\* The task that may notify is the one of the cursor that loads.
LEMMA OneWatcherNext ==
  ASSUME CursorTypeOK, OneWatcher, [CursorNext]_cursor_vars
  PROVE  OneWatcher'
<1>0. {w \in AbortedWatchers : w.live} = {}
  BY AbortedType
<1>1. ASSUME NEW c \in Customs, ReceiveDrop(c) PROVE OneWatcher'
  BY <1>1 DEF ReceiveDrop, handler_vars, OneWatcher
<1>2. ASSUME NEW c \in Customs, New(c) PROVE OneWatcher'
  BY <1>2 DEF New, handler_vars, OneWatcher
<1>3. ASSUME NEW c \in Customs, FutureReady(c) PROVE OneWatcher'
  BY <1>3 DEF FutureReady, handler_vars, OneWatcher
<1>4. ASSUME NEW c \in Customs, ToWorker(c) PROVE OneWatcher'
  BY <1>4 DEF ToWorker, handler_vars, OneWatcher
<1>5. ASSUME NEW c \in Customs, Drop(c) PROVE OneWatcher'
  BY <1>5 DEF Drop, handler_vars, OneWatcher
<1>6. ASSUME NEW c \in Customs, Loads(c) PROVE OneWatcher'
  BY <1>6 DEF Loads, handler_vars, OneWatcher
<1>7. ASSUME NEW c \in Customs, LoadAborted(c) PROVE OneWatcher'
  BY <1>7 DEF LoadAborted, handler_vars, OneWatcher
<1>8. ASSUME NEW i \in Icons, SetIcon(i) PROVE OneWatcher'
  <2>1. CASE Select(i) /\ watchers' = AbortedWatchers
    BY <1>8, <1>0, <2>1 DEF SetIcon, Select, OneWatcher
  <2>2. CASE UNCHANGED <<loading, watchers>>
    BY <1>8, <2>2 DEF SetIcon, OneWatcher
  <2> QED BY <1>8, <2>1, <2>2 DEF SetIcon
<1>9. ASSUME NEW c \in Customs, SetCustom(c) PROVE OneWatcher'
  <2>1. CASE Select(c) /\ watchers' = AbortedWatchers
    BY <1>9, <1>0, <2>1 DEF SetCustom, Select, OneWatcher
  <2>2. CASE UNCHANGED <<loading, watchers>>
    BY <1>9, <2>2 DEF SetCustom, OneWatcher
  <2>3. CASE StartLoading(c)
    <3>1. c # None /\ handler' /\ loading' = c
      BY <1>9, <2>3, CursorAssumption DEF SetCustom, StartLoading, Names
    <3>2. {w \in AbortedWatchers \cup {[cursor |-> c, live |-> TRUE]} : w.live}
            = {[cursor |-> c, live |-> TRUE]}
      BY <1>0
    <3> QED BY <2>3, <3>1, <3>2 DEF StartLoading, OneWatcher
  <2> QED BY <1>9, <2>1, <2>2, <2>3 DEF SetCustom
<1>10. ASSUME NEW v \in BOOLEAN, SetVisible(v) PROVE OneWatcher'
  BY <1>10 DEF SetVisible, handler_vars, OneWatcher
<1>11. CASE WatcherAborted
  <2>1. {w \in watchers' : w.live} = {w \in watchers : w.live}
    BY <1>11 DEF WatcherAborted
  <2> QED BY <1>11, <2>1 DEF WatcherAborted, OneWatcher
<1>12. ASSUME NEW c \in Customs, Notify(c) PROVE OneWatcher'
  <2>1. handler /\ loading = c /\ c # None /\ image[c] # "Loading"
    BY <1>12, NotifyReady
  <2>2. loading' = None
    BY <1>12, <2>1 DEF Notify, Select
  <2>3. {w \in watchers' : w.live} = {}
    BY <1>12, <2>1 DEF Notify, OneWatcher
  <2> QED BY <2>2, <2>3 DEF OneWatcher
<1>13. CASE DropHandler
  BY <1>13, <1>0 DEF DropHandler, OneWatcher
<1>14. CASE UNCHANGED cursor_vars
  BY <1>14 DEF cursor_vars, handler_vars, OneWatcher
<1> QED BY <1>1, <1>2, <1>3, <1>4, <1>5, <1>6, <1>7, <1>8, <1>9, <1>10, <1>11, <1>12, <1>13, <1>14 DEF CursorNext, CursorTasks, CursorCalls

\* No step panics.
LEMMA NoPanicNext ==
  ASSUME CursorTypeOK, Loaded, OneWatcher, panicked = FALSE, [CursorNext]_cursor_vars
  PROVE  panicked' = FALSE
<1>1. ASSUME NEW c \in Customs, ReceiveDrop(c) PROVE panicked' = FALSE
  BY <1>1 DEF ReceiveDrop
<1>2. ASSUME NEW c \in Customs, New(c) PROVE panicked' = FALSE
  BY <1>2 DEF New
<1>3. ASSUME NEW c \in Customs, FutureReady(c) PROVE panicked' = FALSE
  BY <1>3 DEF FutureReady
<1>4. ASSUME NEW c \in Customs, ToWorker(c) PROVE panicked' = FALSE
  BY <1>4 DEF ToWorker
<1>5. ASSUME NEW c \in Customs, Drop(c) PROVE panicked' = FALSE
  BY <1>5 DEF Drop
<1>6. ASSUME NEW c \in Customs, Loads(c) PROVE panicked' = FALSE
  BY <1>6, LoadsLive DEF Loads
<1>7. ASSUME NEW c \in Customs, LoadAborted(c) PROVE panicked' = FALSE
  BY <1>7 DEF LoadAborted
<1>8. ASSUME NEW i \in Icons, SetIcon(i) PROVE panicked' = FALSE
  BY <1>8 DEF SetIcon
<1>9. ASSUME NEW c \in Customs, SetCustom(c) PROVE panicked' = FALSE
  BY <1>9 DEF SetCustom
<1>10. ASSUME NEW v \in BOOLEAN, SetVisible(v) PROVE panicked' = FALSE
  BY <1>10 DEF SetVisible
<1>11. CASE WatcherAborted
  BY <1>11 DEF WatcherAborted
<1>12. ASSUME NEW c \in Customs, Notify(c) PROVE panicked' = FALSE
  BY <1>12, NotifyReady DEF Notify
<1>13. CASE DropHandler
  BY <1>13 DEF DropHandler
<1>14. CASE UNCHANGED cursor_vars
  BY <1>14 DEF cursor_vars
<1> QED BY <1>1, <1>2, <1>3, <1>4, <1>5, <1>6, <1>7, <1>8, <1>9, <1>10, <1>11, <1>12, <1>13, <1>14 DEF CursorNext, CursorTasks, CursorCalls

----
\* The inductive invariant of the cursors, with their types.
Kept == Owned /\ Loaded /\ Styled /\ OneWatcher /\ panicked = FALSE

\* It holds at first.
LEMMA CursorStart ==
  ASSUME CursorInit
  PROVE  CursorTypeOK /\ Kept
<1>1. CursorTypeOK
  <2>1. Default \in Names /\ 0 \in 0 .. MaxCalls
    BY CursorAssumption DEF Names
  <2> QED BY <2>1 DEF CursorInit, CursorTypeOK
<1>2. Direct = {} /\ Framed = {}
  BY CursorAssumption DEF Names, Customs, CursorInit, Direct, Framed, Keeps
<1>3. Owned /\ Loaded
  BY <1>2 DEF CursorInit, Owned, Loaded
<1>4. Styled
  BY CursorAssumption DEF CursorInit, Names, Customs, Styled
<1>5. OneWatcher /\ panicked = FALSE
  BY DEF CursorInit, OneWatcher
<1> QED BY <1>1, <1>3, <1>4, <1>5 DEF Kept

\* Whatever loads, fails and is dropped, the state of every cursor, task and handler is
\* well-typed (cursor.rs).
THEOREM CursorTypeCorrectness ==
  CursorSpec => []CursorTypeOK
<1>1. CursorInit => CursorTypeOK
  BY CursorStart
<1>2. CursorTypeOK /\ [CursorNext]_cursor_vars => CursorTypeOK'
  BY CursorType
<1> QED BY <1>1, <1>2, PTL DEF CursorSpec

\* If workers let go only of cursors that have loaded or failed, no unreachable! of
\* notify, set_cursor and the loading task is reached, the canvas shows the handler's
\* cursor, which is loaded and lives, no animation outlives its dropper, and exactly the
\* task of the cursor that loads may notify (HandlerSound).
THEOREM HandlerIsSound ==
  ASSUME EarlyDrops = FALSE
  PROVE  CursorSpec => []HandlerSound
<1>1. CursorInit => CursorTypeOK /\ Kept
  BY CursorStart
<1>2. CursorTypeOK /\ Kept /\ [CursorNext]_cursor_vars => (CursorTypeOK /\ Kept)'
  BY CursorType, OwnedNext, LoadedNext, StyledNext, OneWatcherNext, NoPanicNext DEF Kept
<1>3. CursorTypeOK /\ Kept => HandlerSound
  BY StyledIsConsistent DEF Kept, HandlerSound, NoPanic
<1> QED BY <1>1, <1>2, <1>3, PTL DEF CursorSpec

\* Nothing the handler shows or waits for, and no frame an animation was made from or is
\* to be made from, is dropped, and what nobody refers to is (Arc<MainThreadSafe>).
THEOREM OwnersAreKept ==
  CursorSpec => []Owned
<1>1. CursorInit => CursorTypeOK /\ Owned
  BY CursorStart DEF Kept
<1>2. CursorTypeOK /\ Owned /\ [CursorNext]_cursor_vars => (CursorTypeOK /\ Owned)'
  BY CursorType, OwnedNext
<1> QED BY <1>1, <1>2, PTL DEF CursorSpec
====
