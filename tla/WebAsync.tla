---- MODULE WebAsync ----
(*
The primitives by which worker threads reach the main thread in
winit-web: the channel of async/channel.rs with its AtomicWaker, the
Wrapper and Dispatcher built on it, and the flags of EventLoopProxy.

The main thread runs one thing at a time: a poll of the receiver task,
a poll of the proxy's task, or a synchronous prefetch. Workers take
steps between any two accesses of shared memory. WebRunner takes a send
and the wake-up of the task as one step; here they are not.
*)
EXTENDS Naturals, Sequences, FiniteSets, SequencesExt

CONSTANTS
  Workers,     \* the worker threads
  Windows,     \* the threads that start with a clone of the Dispatcher
  Proxies,     \* the threads that start with a clone of the EventLoopProxy
  WithRunner,  \* the loop keeps a DispatchRunner, as it does for a Window
  MaxSends,    \* bound: closures a worker sends
  MaxWakes     \* bound: wake-ups a worker asks the proxy for

ASSUME AsyncAssumption ==
  /\ "main" \notin Workers
  /\ Windows \subseteq Workers \cup {"main"} /\ Windows # {}
  /\ Proxies \subseteq Workers \cup {"main"} /\ Proxies # {}
  /\ WithRunner \in BOOLEAN
  /\ MaxSends \in Nat /\ MaxWakes \in Nat

VARIABLES
  chan,        \* the mpsc queue: closures, each with its sender and number
  closed,      \* Shared::closed of the channel
  connected,   \* the mpsc::Sender exists
  holders,     \* who has a clone of the Dispatcher, and so of Arc<Sender>
  dispatch_runner,  \* the DispatchRunner, which holds another, exists
  value,       \* the value of the Wrapper has not been dropped
  proxy_awoken,     \* State::awoken of the proxy
  proxy_closed,\* State::closed of the proxy
  proxies,     \* who has a clone of Arc<EventLoopProxy>
  waker,       \* the AtomicWaker of each task holds a Waker
  task,        \* of each task: parked (or being polled), queued, or ended
  main,        \* what the main thread is executing
  pc,          \* where each worker is
  sent, ran, wakes,
  lost         \* history: closures dropped with the Receiver

chan_vars  == <<chan, closed, connected, holders, dispatch_runner, value, lost>>
wake_vars == <<proxy_awoken, proxy_closed, proxies>>
work_vars  == <<pc, sent, wakes>>
async_vars == <<chan_vars, wake_vars, waker, task, main, work_vars, ran>>

TaskNames == {"receiver", "proxy"}
Threads == Workers \cup {"main"}

\* Where a poll can be. "ended" is a finished task, "none" no poll at all.
ReceiverSteps == {"try", "register", "retry", "closed"}
ProxySteps    == {"swap", "proxy_register", "reswap", "proxy_closed"}
Main == {"idle", "prefetch"} \cup ReceiverSteps \cup ProxySteps

DispatcherCalls == {"send", "queue"}        \* Dispatcher::dispatch and queue
WorkerSteps == {"idle", "send", "queue", "waiting", "close", "disconnect",
                "wake_proxy", "close_proxy"}

AsyncTypeOK ==
  /\ chan \in Seq([by : Workers, n : Nat])
  /\ \A f \in {closed, connected, dispatch_runner, value, proxy_awoken, proxy_closed} :
       f \in BOOLEAN
  /\ holders \subseteq Threads /\ proxies \subseteq Threads
  /\ waker \in [TaskNames -> BOOLEAN]
  /\ task \in [TaskNames -> {"parked", "queued", "ended"}]
  /\ main \in Main
  /\ pc \in [Workers -> WorkerSteps]
  /\ \A f \in {sent, ran, wakes} : f \in [Workers -> Nat]
  /\ lost \subseteq [by : Workers, n : Nat]

\* Dispatcher::new and EventLoopProxy::new spawn their tasks, which are queued.
AsyncInit ==
  /\ chan = <<>> /\ closed = FALSE /\ connected = TRUE /\ lost = {}
  /\ holders = Windows /\ dispatch_runner = WithRunner /\ value = TRUE
  /\ proxy_awoken = FALSE /\ proxy_closed = FALSE /\ proxies = Proxies
  /\ waker = [t \in TaskNames |-> FALSE]
  /\ task = [t \in TaskNames |-> "queued"]
  /\ main = "idle"
  /\ pc = [w \in Workers |-> "idle"]
  /\ sent = [w \in Workers |-> 0] /\ ran = sent /\ wakes = sent

----
(* AtomicWaker and the executor *)

Register(t) == waker' = [waker EXCEPT ![t] = TRUE]

\* wake takes the Waker, and the Waker queues the task.
Wake(t) ==
  /\ waker' = [waker EXCEPT ![t] = FALSE]
  /\ task' = [task EXCEPT ![t] = IF waker[t] /\ @ # "ended" THEN "queued" ELSE @]

\* The executor polls a queued task, from the first instruction of its poll.
Poll(t, first) ==
  /\ main = "idle" /\ task[t] = "queued"
  /\ task' = [task EXCEPT ![t] = "parked"]
  /\ main' = first
  /\ UNCHANGED <<chan_vars, wake_vars, waker, work_vars, ran>>

Ends(t) ==
  /\ main' = "idle"
  /\ task' = [task EXCEPT ![t] = "ended"]

----
(* Worker threads *)

\* The last clone of the Sender goes with h: closed is stored, then the task
\* is woken, then the mpsc::Sender goes. A mutant: any clone that goes closes.
LastHolderAny(h) == h \in holders
LastHolder(h) == holders = {h} /\ ~dispatch_runner

\* send and queue: mpsc send first.
Send(w) ==
  /\ pc[w] = "idle" /\ w \in holders /\ sent[w] < MaxSends
  /\ sent' = [sent EXCEPT ![w] = @ + 1]
  /\ chan' = Append(chan, [by |-> w, n |-> sent'[w]])
  /\ \E c \in DispatcherCalls : pc' = [pc EXCEPT ![w] = c]
  /\ UNCHANGED <<closed, connected, holders, dispatch_runner, value, lost, wake_vars,
                 waker, task, main, ran, wakes>>

\* Sender::send, its second half; queue then waits on the Condvar. A mutant wakes
\* nobody.
WakeReceiverNever(w) ==
  /\ pc[w] \in DispatcherCalls
  /\ pc' = [pc EXCEPT ![w] = IF @ = "queue" THEN "waiting" ELSE "idle"]
  /\ UNCHANGED <<chan_vars, wake_vars, waker, task, main, sent, wakes, ran>>
WakeReceiver(w) ==
  /\ pc[w] \in DispatcherCalls
  /\ Wake("receiver")
  /\ pc' = [pc EXCEPT ![w] = IF @ = "queue" THEN "waiting" ELSE "idle"]
  /\ UNCHANGED <<chan_vars, wake_vars, main, sent, wakes, ran>>

\* The closure has stored its result and notified: queue returns.
QueueReturns(w) ==
  /\ pc[w] = "waiting" /\ ran[w] = sent[w]
  /\ pc' = [pc EXCEPT ![w] = "idle"]
  /\ UNCHANGED <<chan_vars, wake_vars, waker, task, main, sent, wakes, ran>>

\* Drop of a clone of the Dispatcher on a worker.
DropHandle(w) ==
  /\ pc[w] = "idle" /\ w \in holders
  /\ holders' = holders \ {w}
  /\ IF LastHolder(w)
       THEN closed' = TRUE /\ pc' = [pc EXCEPT ![w] = "close"]
       ELSE UNCHANGED <<closed, pc>>
  /\ UNCHANGED <<chan, connected, dispatch_runner, value, lost, wake_vars, waker,
                 task, main, sent, wakes, ran>>

WakeClosed(w) ==
  /\ pc[w] = "close"
  /\ Wake("receiver")
  /\ pc' = [pc EXCEPT ![w] = "disconnect"]
  /\ UNCHANGED <<chan_vars, wake_vars, main, sent, wakes, ran>>

Disconnect(w) ==
  /\ pc[w] = "disconnect"
  /\ connected' = FALSE
  /\ pc' = [pc EXCEPT ![w] = "idle"]
  /\ UNCHANGED <<chan, closed, holders, dispatch_runner, value, lost, wake_vars, waker,
                 task, main, sent, wakes, ran>>

\* EventLoopProxy::wake_up on a worker: awoken is stored, then the task woken.
WakeUp(w) ==
  /\ pc[w] = "idle" /\ w \in proxies /\ wakes[w] < MaxWakes
  /\ wakes' = [wakes EXCEPT ![w] = @ + 1]
  /\ proxy_awoken' = TRUE
  /\ pc' = [pc EXCEPT ![w] = "wake_proxy"]
  /\ UNCHANGED <<chan_vars, proxy_closed, proxies, waker, task, main, sent, ran>>

\* Drop of a clone of the proxy; the last one closes it.
DropProxy(w) ==
  /\ pc[w] = "idle" /\ w \in proxies
  /\ proxies' = proxies \ {w}
  /\ IF proxies = {w}
       THEN proxy_closed' = TRUE /\ pc' = [pc EXCEPT ![w] = "close_proxy"]
       ELSE UNCHANGED <<proxy_closed, pc>>
  /\ UNCHANGED <<chan_vars, proxy_awoken, waker, task, main, sent, wakes, ran>>

WakeProxy(w) ==
  /\ pc[w] \in {"wake_proxy", "close_proxy"}
  /\ Wake("proxy")
  /\ pc' = [pc EXCEPT ![w] = "idle"]
  /\ UNCHANGED <<chan_vars, wake_vars, main, sent, wakes, ran>>

----
(* The receiver task: while let Ok(closure) = receiver.next().await *)

\* A closure is taken and run; the loop then calls next again. A mutant takes
\* the last, as the Vec of async/concurrent_queue.rs does.
TakeLastAndRun(next) ==
  /\ chan' = Front(chan)
  /\ ran' = [ran EXCEPT ![Last(chan).by] = Last(chan).n]
  /\ main' = next
  /\ UNCHANGED <<closed, connected, holders, dispatch_runner, value, lost, task>>
TakeAndRun(next) ==
  /\ chan' = Tail(chan)
  /\ ran' = [ran EXCEPT ![Head(chan).by] = Head(chan).n]
  /\ main' = next
  /\ UNCHANGED <<closed, connected, holders, dispatch_runner, value, lost, task>>

\* next returned an error: the value is taken and dropped, and the Receiver
\* with what it still holds.
ReceiverEnds ==
  /\ Ends("receiver")
  /\ value' = FALSE
  /\ lost' = lost \cup ToSet(chan)
  /\ chan' = <<>>
  /\ UNCHANGED <<closed, connected, holders, dispatch_runner, ran>>

\* The two calls of try_recv.
TryRecv(at, empty) ==
  /\ main = at
  /\ \/ chan # <<>> /\ TakeAndRun("try")
     \/ chan = <<>> /\ ~connected /\ ReceiverEnds
     \/ /\ chan = <<>> /\ connected
        /\ main' = empty
        /\ UNCHANGED <<chan_vars, task, ran>>
  /\ UNCHANGED <<wake_vars, waker, work_vars>>
Try   == TryRecv("try", "register")
Retry == TryRecv("retry", "closed")

\* A mutant looks for closures before it registers only.
RegisterReceiverLast ==
  /\ main = "register"
  /\ Register("receiver")
  /\ main' = "closed"
  /\ UNCHANGED <<chan_vars, wake_vars, task, work_vars, ran>>
RegisterReceiver ==
  /\ main = "register"
  /\ Register("receiver")
  /\ main' = "retry"
  /\ UNCHANGED <<chan_vars, wake_vars, task, work_vars, ran>>

\* A mutant never looks at closed.
CheckClosedNever ==
  /\ main = "closed" /\ main' = "idle"
  /\ UNCHANGED <<chan_vars, wake_vars, waker, task, work_vars, ran>>
CheckClosed ==
  /\ main = "closed"
  /\ IF closed THEN ReceiverEnds
     ELSE main' = "idle" /\ UNCHANGED <<chan_vars, task, ran>>
  /\ UNCHANGED <<wake_vars, waker, work_vars>>

----
(* The proxy's task: while the poll_fn is true, send_proxy_wake_up *)

\* The two calls of awoken.swap(false). A mutant of the second discards it.
SwapTo(at, none) ==
  /\ main = at
  /\ proxy_awoken' = FALSE
  /\ main' = IF proxy_awoken THEN "swap" ELSE none
  /\ UNCHANGED <<chan_vars, proxy_closed, proxies, waker, task, work_vars, ran>>
Swap   == SwapTo("swap", "proxy_register")
Reswap == SwapTo("reswap", "proxy_closed")

\* A mutant registers without looking again.
RegisterProxyLast ==
  /\ main = "proxy_register"
  /\ Register("proxy")
  /\ main' = "proxy_closed"
  /\ UNCHANGED <<chan_vars, wake_vars, task, work_vars, ran>>
RegisterProxy ==
  /\ main = "proxy_register"
  /\ Register("proxy")
  /\ main' = "reswap"
  /\ UNCHANGED <<chan_vars, wake_vars, task, work_vars, ran>>

\* A mutant does not end the loop.
CheckProxyClosedNever ==
  /\ main = "proxy_closed" /\ main' = "idle"
  /\ UNCHANGED <<chan_vars, wake_vars, waker, task, work_vars, ran>>
CheckProxyClosed ==
  /\ main = "proxy_closed"
  /\ IF proxy_closed THEN Ends("proxy") ELSE main' = "idle" /\ UNCHANGED task
  /\ UNCHANGED <<chan_vars, wake_vars, waker, work_vars, ran>>

----
(* Synchronous code of the main thread *)

\* The loop prefetches: DispatchRunner::run until the channel is empty, and
\* the proxy's flag with EventLoopProxy::take.
PrefetchOnMain ==
  /\ main = "idle" /\ dispatch_runner
  /\ chan # <<>> \/ proxy_awoken
  /\ main' = "prefetch"
  /\ UNCHANGED <<chan_vars, wake_vars, waker, task, work_vars, ran>>

Drain ==
  /\ main = "prefetch"
  /\ \/ chan # <<>> /\ TakeAndRun("prefetch") /\ UNCHANGED proxy_awoken
     \/ /\ chan = <<>> /\ main' = "idle"
        /\ proxy_awoken' = FALSE
        /\ UNCHANGED <<chan_vars, task, ran>>
  /\ UNCHANGED <<proxy_closed, proxies, waker, work_vars>>

\* Sender::drop with nothing running between its parts: the tasks it wakes run
\* on this thread.
DropSender(h, r) ==
  /\ holders' = h /\ dispatch_runner' = r
  /\ IF h = {} /\ ~r
       THEN closed' = TRUE /\ connected' = FALSE /\ Wake("receiver")
       ELSE UNCHANGED <<closed, connected, waker, task>>

\* The main thread drops its own clone, or the loop its DispatchRunner.
MainDropsHandle ==
  /\ main = "idle" /\ "main" \in holders
  /\ DropSender(holders \ {"main"}, dispatch_runner)
  /\ UNCHANGED <<chan, value, lost, wake_vars, main, work_vars, ran>>
MainDropsRunner ==
  /\ main = "idle" /\ dispatch_runner
  /\ DropSender(holders, FALSE)
  /\ UNCHANGED <<chan, value, lost, wake_vars, main, work_vars, ran>>

MainDropsProxy ==
  /\ main = "idle" /\ "main" \in proxies
  /\ proxies' = proxies \ {"main"}
  /\ IF proxies = {"main"}
       THEN proxy_closed' = TRUE /\ Wake("proxy")
       ELSE UNCHANGED <<proxy_closed, waker, task>>
  /\ UNCHANGED <<chan_vars, proxy_awoken, main, work_vars, ran>>

----
PollReceiver == Poll("receiver", "try")
PollProxy    == Poll("proxy", "swap")
MainStep == \/ PollReceiver \/ Try \/ RegisterReceiver \/ Retry \/ CheckClosed
            \/ PollProxy \/ Swap \/ RegisterProxy \/ Reswap \/ CheckProxyClosed
            \/ Drain
WorkerStep(w) == \/ WakeReceiver(w) \/ QueueReturns(w)
                 \/ WakeClosed(w) \/ Disconnect(w) \/ WakeProxy(w)
WorkerCall(w) == Send(w) \/ DropHandle(w) \/ WakeUp(w) \/ DropProxy(w)
AsyncNext == \/ MainStep \/ PrefetchOnMain
        \/ MainDropsHandle \/ MainDropsRunner \/ MainDropsProxy
        \/ \E w \in Workers : WorkerStep(w) \/ WorkerCall(w)

AsyncSpec == AsyncInit /\ [][AsyncNext]_async_vars

\* The executor polls what is queued, fairly between the two tasks, code that
\* started runs on, on every thread.
AsyncFairSpec ==
  /\ AsyncSpec
  /\ SF_async_vars(PollReceiver) /\ SF_async_vars(PollProxy) /\ WF_async_vars(MainStep)
  /\ \A w \in Workers : WF_async_vars(WorkerStep(w))

----
(* Properties *)

Held == holders # {} \/ dispatch_runner
InFlight(w) == pc[w] \in DispatcherCalls
Parked(t, steps) == task[t] = "parked" /\ main \notin steps

\* "value.borrow().as_ref().unwrap()" and "sender.send(closure).unwrap()": as
\* long as anybody may send or run a closure, the value and the Receiver live.
ValueWhileHeld == Held \/ chan # <<>> => value

\* Nothing is left in the channel with the receiver task asleep, unless the
\* worker that sent it is about to wake it; a closed channel neither.
ReceiverAwake ==
  Parked("receiver", ReceiverSteps) =>
    /\ chan # <<>> => (\E w \in Workers : InFlight(w)) \/ main = "prefetch"
    /\ closed => \E w \in Workers : pc[w] = "close"

\* The same of the proxy's flags and its task.
ProxyAwake ==
  Parked("proxy", ProxySteps) =>
    /\ proxy_awoken => (\E w \in Workers : pc[w] = "wake_proxy") \/ main = "prefetch"
    /\ proxy_closed => \E w \in Workers : pc[w] = "close_proxy"

\* The closures of one thread are run in the order it sent them, and none twice,
\* whichever of the receiver task and the prefetch takes them.
InOrder ==
  \A i \in DOMAIN chan :
    chan[i].n = ran[chan[i].by]
                  + Cardinality({j \in 1..i : chan[j].by = chan[i].by})

\* Closures are given up only when everybody has dropped the Dispatcher, and
\* never one whose sender waits for it.
LostOnlyWhenAbandoned ==
  lost # {} => ~Held /\ \A w \in Workers : pc[w] # "waiting"

\* Dispatcher::queue does not block for ever.
QueueCompletes == \A w \in Workers : pc[w] = "waiting" ~> pc[w] # "waiting"

\* A wake-up reaches the loop, unless nobody keeps the proxy.
WakeUpReaches == proxy_awoken ~> ~proxy_awoken \/ proxies = {}

\* When the last clone is dropped the value is dropped on the main thread.
ValueReleased == ~Held ~> ~value

\* The proxy's task ends with its last proxy.
ProxyTaskEnds == proxies = {} ~> task["proxy"] = "ended"

\* No task sleeps on what it should handle.
TasksAwake == ReceiverAwake /\ ProxyAwake
\* Closures are neither reordered, repeated nor lost.
Accounted == InOrder /\ LostOnlyWhenAbandoned
\* Waiters, wake-ups, the value and the tasks all get to their end.
Progress == QueueCompletes /\ WakeUpReaches /\ ValueReleased /\ ProxyTaskEnds

\* What "dispatch" says: a closure that was sent is run.
DispatchedRuns == lost = {}
====
