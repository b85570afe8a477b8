---- MODULE WaylandLoopProofs ----
(*
What is proved of WaylandLoop, for any windows, popups of popups, and
any number of operations.

Inv relates, beside the types,
  - Told: the phase of the application to where pump_app_events is;
  - Present: what the iteration still has to visit or to close, and the
    window being created, to the windows that there are;
  - Framed: each window's frame callbacks to what it thinks of them,
    those of windows that are gone included;
  - Queued: the compositor's updates to the windows that there are, one
    for each at most;
  - Working: the updates the iteration has taken to the same windows,
    until it is done with them.
*)
EXTENDS WaylandLoop, TLAPS

\* What the application was last told, by where pump_app_events is.
Told ==
  /\ panicked = FALSE
  /\ step = "out" => /\ inside = "none" /\ first = FALSE
                     /\ running = TRUE => phase = "Asleep"
                     /\ running = FALSE => phase = "Off"
  /\ step = "poll" => inside = "none" /\ phase = "Asleep" /\ first = FALSE
  /\ step = "new_events" => /\ inside = "none"
                            /\ first = TRUE => phase = "Off"
                            /\ first = FALSE => phase = "Asleep"
  /\ step = "can_create" => phase = "Init"
  /\ step \in {"proxy", "updates", "synthetic", "sink", "windows"} => phase = "Awake"
  /\ step = "refresh" => phase = "Asleep"
  /\ step # "out" => running = TRUE

\* What the iteration goes through, and what is being created, is there.
Present ==
  /\ live \subseteq Windows /\ held \subseteq Windows
  /\ ids \subseteq seen /\ seen \subseteq Windows /\ closing \subseteq live
  /\ step # "windows" => ids = {} /\ closing = {}
  /\ creating # "none" => creating \in live /\ inside # "none"
  /\ creating \in Windows \cup {"none"}
  /\ creation = "none" <=> creating = "none"

\* One frame callback at a time, of windows that are gone none.
Framed ==
  /\ frame \in [Windows -> {"None", "Requested", "Received"}]
  /\ callbacks \in [Windows -> Nat]
  /\ \A w \in Windows : callbacks[w] = IF frame[w] = "Requested" THEN 1 ELSE 0

\* One update for each window, of windows that are gone none.
Update == [id : Windows, kinds : SUBSET Kinds]
Queued ==
  /\ updates \in Seq(Update)
  /\ \A i \in DOMAIN updates : updates[i].id \in live
  /\ \A i, j \in DOMAIN updates : updates[i].id = updates[j].id => i = j

\* The updates being handed out.
Working ==
  step = "updates" => work \in Seq(Update) /\ \A i \in DOMAIN work : work[i].id \in live

\* The other parts of TypeOK.
Flags ==
  /\ timed \in BOOLEAN /\ running \in BOOLEAN /\ first \in BOOLEAN /\ exit \in BOOLEAN
  /\ configured \in BOOLEAN /\ broken \in BOOLEAN /\ dismissed \in BOOLEAN
  /\ dispatched \in BOOLEAN
  /\ proxy_wake_up \in BOOLEAN /\ ping \in BOOLEAN /\ proxy_ping \in BOOLEAN
  /\ got \in BOOLEAN /\ remote \in BOOLEAN
Places ==
  /\ step \in Steps /\ mode \in {"run", "pump"}
  /\ phase \in {"Off", "Init", "Awake", "Asleep"} /\ inside \in Callbacks \cup {"none"}
  /\ creation \in {"none", "roundtrip", "waiting"}
Requests ==
  /\ closed \in [Windows -> BOOLEAN] /\ redraw \in [Windows -> BOOLEAN]
  /\ dirty \in [Windows -> BOOLEAN]
Sinks == sink \in Seq(Windows) /\ synthetic \in Seq(Windows)
Counted == ops \in 0 .. MaxOps /\ creates \in 0 .. MaxCreates

Inv ==
  /\ Flags /\ Places /\ Requests /\ Sinks /\ Counted
  /\ Told /\ Present /\ Framed /\ Queued /\ Working

----
(* Sequences *)

\* An index of a sequence.
LEMMA IndexOf ==
  ASSUME NEW T, NEW s \in Seq(T)
  PROVE  Len(s) \in Nat /\ DOMAIN s = 1 .. Len(s) /\ \A i \in DOMAIN s : s[i] \in T
OBVIOUS

\* What is left of a sequence whose first element is taken.
LEMMA TailOf ==
  ASSUME NEW T, NEW s \in Seq(T), s # <<>>
  PROVE  /\ Tail(s) \in Seq(T) /\ Head(s) \in T /\ Head(s) = s[1] /\ 1 \in DOMAIN s
         /\ \A i \in DOMAIN Tail(s) : i + 1 \in DOMAIN s /\ Tail(s)[i] = s[i + 1]
<1>1. Len(s) \in Nat /\ Len(s) # 0 /\ DOMAIN s = 1 .. Len(s)
  OBVIOUS
<1>2. Tail(s) \in Seq(T) /\ Len(Tail(s)) = Len(s) - 1 /\ DOMAIN Tail(s) = 1 .. Len(s) - 1
  BY <1>1
<1>3. \A i \in 1 .. Len(s) - 1 : Tail(s)[i] = s[i + 1]
  BY <1>1
<1> QED BY <1>1, <1>2, <1>3

\* A sequence whose first element is replaced.
LEMMA ReplacedHead ==
  ASSUME NEW T, NEW s \in Seq(T), NEW t \in Seq(T), NEW e \in T, t = <<e>> \o Tail(s), s # <<>>
  PROVE  /\ \A i \in DOMAIN t : i \in DOMAIN s /\ (t[i] = e \/ t[i] = s[i])
         /\ \A i \in DOMAIN t : i = 1 => t[i] = e
         /\ \A i \in DOMAIN t : i # 1 => t[i] = s[i]
<1>1. Len(s) \in Nat /\ Len(s) # 0 /\ DOMAIN s = 1 .. Len(s)
  OBVIOUS
<1>2. Tail(s) \in Seq(T) /\ Len(Tail(s)) = Len(s) - 1 /\ <<e>> \in Seq(T) /\ Len(<<e>>) = 1
  BY <1>1
<1>3. \A i \in 1 .. Len(s) - 1 : Tail(s)[i] = s[i + 1]
  BY <1>1
<1>4. Len(t) = Len(s) /\ DOMAIN t = 1 .. Len(s)
  BY <1>1, <1>2
<1>5. \A i \in 1 .. Len(s) : t[i] = IF i <= 1 THEN <<e>>[i] ELSE Tail(s)[i - 1]
  BY <1>1, <1>2
<1>6. \A i \in 1 .. Len(s) : t[i] = IF i = 1 THEN e ELSE s[i]
  BY <1>1, <1>3, <1>5
<1> QED BY <1>1, <1>4, <1>6

\* A sequence with one more element.
LEMMA Appended ==
  ASSUME NEW T, NEW s \in Seq(T), NEW e \in T, NEW t, t = Append(s, e)
  PROVE  /\ t \in Seq(T) /\ DOMAIN t = DOMAIN s \cup {Len(s) + 1}
         /\ t[Len(s) + 1] = e /\ \A i \in DOMAIN s : t[i] = s[i]
         /\ Len(s) + 1 \notin DOMAIN s
<1>1. Len(s) \in Nat /\ DOMAIN s = 1 .. Len(s) /\ t \in Seq(T) /\ Len(t) = Len(s) + 1
  OBVIOUS
<1>2. DOMAIN t = 1 .. Len(s) + 1
  BY <1>1
<1>3. \A i \in 1 .. Len(s) : t[i] = s[i]
  BY <1>1
<1>4. t[Len(s) + 1] = e
  BY <1>1
<1> QED BY <1>1, <1>2, <1>3, <1>4

\* A sequence without the element at an index.
LEMMA Removed ==
  ASSUME NEW T, NEW s \in Seq(T), NEW k \in DOMAIN s, NEW t, t = RemoveAt(s, k)
  PROVE  /\ t \in Seq(T)
         /\ \A i \in DOMAIN t : \/ i \in DOMAIN s \ {k} /\ t[i] = s[i] /\ i < k
                                \/ i + 1 \in DOMAIN s \ {k} /\ t[i] = s[i + 1] /\ i >= k
         /\ DOMAIN t \subseteq Nat /\ k \in Nat
<1>1. Len(s) \in Nat /\ DOMAIN s = 1 .. Len(s) /\ k \in 1 .. Len(s)
  OBVIOUS
<1> DEFINE a == SubSeq(s, 1, k - 1)
           b == SubSeq(s, k + 1, Len(s))
<1>2. a \in Seq(T) /\ Len(a) = k - 1
  BY <1>1
<1>3. b \in Seq(T) /\ Len(b) = Len(s) - k
  BY <1>1
<1>4. \A i \in 1 .. k - 1 : a[i] = s[i]
  BY <1>1
<1>5. \A i \in 1 .. Len(s) - k : b[i] = s[i + k]
  BY <1>1
<1>6. t = a \o b
  BY DEF RemoveAt
<1> HIDE DEF a, b
<1>7. t \in Seq(T) /\ Len(t) = Len(s) - 1 /\ DOMAIN t = 1 .. Len(s) - 1
  <2>1. t \in Seq(T) /\ Len(t) = Len(a) + Len(b) /\ DOMAIN t = 1 .. Len(t)
    BY <1>2, <1>3, <1>6
  <2>2. Len(a) + Len(b) = Len(s) - 1
    BY <1>1, <1>2, <1>3
  <2> QED BY <2>1, <2>2
<1>8. \A i \in 1 .. Len(s) - 1 : t[i] = IF i <= k - 1 THEN a[i] ELSE b[i - (k - 1)]
  BY <1>1, <1>2, <1>3, <1>6
<1>9. \A i \in 1 .. Len(s) - 1 : i <= k - 1 => t[i] = s[i]
  BY <1>1, <1>4, <1>8
<1>10. ASSUME NEW i \in 1 .. Len(s) - 1, i >= k
       PROVE  t[i] = s[i + 1]
  <2>1. i - (k - 1) \in 1 .. Len(s) - k
    BY <1>1, <1>10
  <2>2. b[i - (k - 1)] = s[(i - (k - 1)) + k]
    BY <1>5, <2>1
  <2>3. (i - (k - 1)) + k = i + 1
    BY <1>1, <1>10
  <2> QED BY <1>1, <1>8, <1>10, <2>2, <2>3
<1> QED BY <1>1, <1>7, <1>9, <1>10

\* A sequence of which elements were replaced.
LEMMA Mapped ==
  ASSUME NEW T, NEW s \in Seq(T), NEW t, DOMAIN t = DOMAIN s, t = [i \in DOMAIN s |-> t[i]],
         \A i \in DOMAIN s : t[i] \in T
  PROVE  t \in Seq(T)
<1>1. Len(s) \in Nat /\ DOMAIN s = 1 .. Len(s)
  OBVIOUS
<1>2. t \in [1 .. Len(s) -> T]
  BY <1>1
<1> QED BY <1>1, <1>2

----
(* Types and updates *)

\* The types are part of the invariant.
LEMMA Parts == Inv => TypeOK
<1> SUFFICES ASSUME Inv PROVE TypeOK
  OBVIOUS
<1>1. {dispatched, proxy_wake_up, ping, proxy_ping, got, remote, panicked} \subseteq BOOLEAN
  BY DEF Inv, Flags, Told
<1>2. closing \subseteq Windows
  BY DEF Inv, Present
<1>3. updates \in Seq([id : Windows, kinds : SUBSET Kinds])
  BY DEF Inv, Queued, Update
<1> QED BY <1>1, <1>2, <1>3
        DEF Inv, TypeOK, Flags, Places, Requests, Sinks, Counted, Present, Framed

\* An operation is counted.
LEMMA OpCounted ==
  ASSUME Counted, Op
  PROVE  ops' \in 0 .. MaxOps
BY WaylandAssumption DEF Op, Counted

\* Neither is an error more than one.
LEMMA FailureCounted ==
  ASSUME Counted, Fails
  PROVE  ops' \in 0 .. MaxOps
BY OpCounted DEF Fails, Counted

\* Nothing is queued of no window.
LEMMA NoneQueued ==
  ASSUME updates' = <<>>
  PROVE  Queued'
<1>1. <<>> \in Seq(Update) /\ DOMAIN <<>> = {}
  OBVIOUS
<1> QED BY <1>1 DEF Queued

\* AddUpdate keeps one update for each window.
LEMMA AddUpdateQueued ==
  ASSUME Inv, NEW w \in live, NEW kinds \in SUBSET Kinds, updates' = AddUpdate(w, kinds),
         live' = live
  PROVE  Queued'
<1>1. /\ updates \in Seq(Update) /\ w \in Windows
      /\ \A i \in DOMAIN updates : updates[i].id \in live /\ updates[i] \in Update
      /\ \A i, j \in DOMAIN updates : updates[i].id = updates[j].id => i = j
  BY IndexOf DEF Inv, Queued, Present
<1>2. CASE Updated(w)
  <2>1. updates' = [i \in DOMAIN updates |->
                      IF updates[i].id = w THEN [updates[i] EXCEPT !.kinds = @ \cup kinds]
                      ELSE updates[i]]
    BY <1>2 DEF AddUpdate
  <2>2. ASSUME NEW i \in DOMAIN updates
        PROVE  updates'[i] \in Update /\ updates'[i].id = updates[i].id
    <3>1. updates[i].id \in Windows /\ updates[i].kinds \subseteq Kinds
      BY <1>1 DEF Update
    <3> DEFINE u == updates[i]
    <3>2. u \in Update /\ u.kinds \cup kinds \subseteq Kinds
      BY <1>1, <3>1
    <3> HIDE DEF u
    <3>3. /\ [u EXCEPT !.kinds = @ \cup kinds] \in Update
          /\ [u EXCEPT !.kinds = @ \cup kinds].id = u.id
      BY <3>2 DEF Update
    <3>4. updates'[i] = [u EXCEPT !.kinds = @ \cup kinds] \/ updates'[i] = u
      BY <2>1 DEF u
    <3> QED BY <3>2, <3>3, <3>4 DEF u
  <2>3. DOMAIN updates' = DOMAIN updates
    BY <2>1
  <2>4. updates' \in Seq(Update)
    BY <1>1, <2>1, <2>2, <2>3, Mapped
  <2> QED BY <1>1, <2>2, <2>3, <2>4 DEF Queued
<1>3. CASE ~Updated(w)
  <2>1. updates' = Append(updates, [id |-> w, kinds |-> kinds])
    BY <1>3 DEF AddUpdate
  <2>2. [id |-> w, kinds |-> kinds] \in Update
    BY <1>1 DEF Update
  <2> DEFINE n == Len(updates) + 1
  <2>3. /\ updates' \in Seq(Update) /\ DOMAIN updates' = DOMAIN updates \cup {n}
        /\ updates'[n] = [id |-> w, kinds |-> kinds] /\ n \notin DOMAIN updates
        /\ \A i \in DOMAIN updates : updates'[i] = updates[i]
    BY <1>1, <2>1, <2>2, Appended
  <2> HIDE DEF n
  <2>4. updates'[n].id = w /\ \A i \in DOMAIN updates : updates[i].id # w
    BY <1>3, <2>3 DEF Updated
  <2>5. \A i \in DOMAIN updates' : updates'[i].id \in live'
    BY <1>1, <2>3, <2>4
  <2>6. \A i, j \in DOMAIN updates' : updates'[i].id = updates'[j].id => i = j
    BY <1>1, <2>3, <2>4
  <2> QED BY <2>3, <2>5, <2>6 DEF Queued
<1> QED BY <1>2, <1>3

\* RetainUpdates leaves none for the window that is removed.
LEMMA RetainQueued ==
  ASSUME Inv, NEW w, updates' = RetainUpdates(w), live' = live \ {w}
  PROVE  Queued'
<1>1. /\ updates \in Seq(Update)
      /\ \A i \in DOMAIN updates : updates[i].id \in live
      /\ \A i, j \in DOMAIN updates : updates[i].id = updates[j].id => i = j
  BY DEF Inv, Queued
<1>2. CASE Updated(w)
  <2>1. PICK k \in DOMAIN updates : updates[k].id = w /\ updates' = RemoveAt(updates, k)
    BY <1>2 DEF RetainUpdates, Updated
  <2>2. /\ updates' \in Seq(Update) /\ DOMAIN updates' \subseteq Nat /\ k \in Nat
        /\ \A i \in DOMAIN updates' :
             \/ i \in DOMAIN updates \ {k} /\ updates'[i] = updates[i] /\ i < k
             \/ i + 1 \in DOMAIN updates \ {k} /\ updates'[i] = updates[i + 1] /\ i >= k
    BY <1>1, <2>1, Removed
  <2>3. \A i \in DOMAIN updates \ {k} : updates[i].id \in live'
    BY <1>1, <2>1
  <2>4. \A i \in DOMAIN updates' : updates'[i].id \in live'
    BY <2>2, <2>3
  <2>5. ASSUME NEW i \in DOMAIN updates', NEW j \in DOMAIN updates',
               updates'[i].id = updates'[j].id
        PROVE  i = j
    <3>1. CASE i < k /\ j < k
      BY <1>1, <2>2, <2>5, <3>1
    <3>2. CASE i >= k /\ j >= k
      <4>1. i + 1 = j + 1
        BY <1>1, <2>2, <2>5, <3>2
      <4> QED BY <2>2, <4>1
    <3>3. CASE i < k /\ j >= k
      <4>1. i = j + 1
        BY <1>1, <2>2, <2>5, <3>3
      <4> QED BY <2>2, <3>3, <4>1
    <3>4. CASE i >= k /\ j < k
      <4>1. i + 1 = j
        BY <1>1, <2>2, <2>5, <3>4
      <4> QED BY <2>2, <3>4, <4>1
    <3> QED BY <2>2, <3>1, <3>2, <3>3, <3>4
  <2> QED BY <2>2, <2>4, <2>5 DEF Queued
<1>3. CASE ~Updated(w)
  <2>1. updates' = updates
    BY <1>3 DEF RetainUpdates
  <2>2. \A i \in DOMAIN updates : updates[i].id # w
    BY <1>3 DEF Updated
  <2> QED BY <1>1, <2>1, <2>2 DEF Queued
<1> QED BY <1>2, <1>3

\* UpdateWindow: the window is there, and what is left of the updates is about
\* windows that are there.
LEMMA UpdateHandedOut ==
  ASSUME Inv, UpdateWindow
  PROVE  /\ panicked' = FALSE /\ redraw' \in [Windows -> BOOLEAN]
         /\ step = "updates" /\ phase' = "Awake" /\ creating = "none"
         /\ inside' \in {"none", "event"}
         /\ work' \in Seq(Update) /\ \A i \in DOMAIN work' : work'[i].id \in live
         /\ inside = "none"
<1>1. step = "updates" /\ inside = "none" /\ work # <<>> /\ panicked = FALSE /\ phase = "Awake"
  BY DEF UpdateWindow, At, Inv, Told
<1>2. work \in Seq(Update) /\ \A i \in DOMAIN work : work[i].id \in live
  BY <1>1 DEF Inv, Working
<1>3. creating = "none" /\ live' = live
  BY <1>1 DEF Inv, Present, UpdateWindow
<1> DEFINE u == Head(work)
<1>4. /\ Tail(work) \in Seq(Update) /\ u \in Update /\ u.id \in live
      /\ \A i \in DOMAIN Tail(work) : Tail(work)[i].id \in live
  BY <1>1, <1>2, TailOf
<1>5. u.id \in Windows /\ u.kinds \subseteq Kinds
  BY <1>4 DEF Update
<1> DEFINE kinds == Stages(u.kinds)
           k == IF "scale" \in kinds THEN "scale"
                ELSE IF "resized" \in kinds THEN "resized" ELSE "close"
           rest == kinds \ {k}
<1>6. kinds \subseteq Kinds
  BY <1>5 DEF Stages, Kinds
<1>7. \/ work' = Tail(work) /\ UNCHANGED <<inside, phase, redraw, panicked>>
      \/ /\ \/ work' = Tail(work)
            \/ work' = <<[u EXCEPT !.kinds = rest]>> \o Tail(work)
         /\ redraw' = [redraw EXCEPT ![u.id] = TRUE] \/ redraw' = redraw
         /\ inside' = "event" /\ phase' = "Awake" /\ panicked' = panicked
  BY <1>4 DEF UpdateWindow, NoCall, Call
<1>8. [u EXCEPT !.kinds = rest] \in Update /\ [u EXCEPT !.kinds = rest].id = u.id
  BY <1>4, <1>6 DEF Update
<1> HIDE DEF kinds, k, rest
<1>9. work' \in Seq(Update) /\ \A i \in DOMAIN work' : work'[i].id \in live
  <2>1. CASE work' = Tail(work)
    BY <1>4, <2>1
  <2>2. CASE work' = <<[u EXCEPT !.kinds = rest]>> \o Tail(work)
    <3> DEFINE e == [u EXCEPT !.kinds = rest]
    <3>1. e \in Update /\ e.id \in live /\ work' = <<e>> \o Tail(work)
      BY <1>4, <1>8, <2>2
    <3> HIDE DEF e, u
    <3>2. work' \in Seq(Update)
      BY <1>4, <3>1
    <3>3. \A i \in DOMAIN work' : i \in DOMAIN work /\ (work'[i] = e \/ work'[i] = work[i])
      BY <1>1, <1>2, <3>1, <3>2, ReplacedHead
    <3> QED BY <1>2, <3>1, <3>2, <3>3
  <2> QED BY <1>7, <2>1, <2>2
<1>10. redraw' \in [Windows -> BOOLEAN]
  BY <1>5, <1>7 DEF Inv, Requests
<1> QED BY <1>1, <1>3, <1>7, <1>9, <1>10

\* What a configure does.
LEMMA ConfiguredIs ==
  ASSUME Inv, NEW w \in Windows, NEW kinds, Configured(w, kinds), w \in live,
         kinds \subseteq Kinds, got' = TRUE, configured' \in BOOLEAN
  PROVE  /\ updates' = AddUpdate(w, kinds) /\ w \in live /\ kinds \subseteq Kinds
         /\ redraw' = [redraw EXCEPT ![w] = TRUE] /\ dispatched' = TRUE /\ got' = TRUE
         /\ dirty' \in [Windows -> BOOLEAN]
         /\ configured' \in BOOLEAN
<1>1. PICK d \in {dirty[w], w \in Toplevels} : dirty' = [dirty EXCEPT ![w] = d]
  BY DEF Configured
<1>2. dirty \in [Windows -> BOOLEAN] /\ d \in BOOLEAN
  <2>1. dirty \in [Windows -> BOOLEAN] /\ dirty[w] \in BOOLEAN
    BY DEF Inv, Requests
  <2>2. (w \in Toplevels) \in BOOLEAN
    OBVIOUS
  <2> QED BY <2>1, <2>2
<1>3. dirty' \in [Windows -> BOOLEAN]
  BY <1>1, <1>2
<1> QED BY <1>3 DEF Configured

----
(* Each action keeps the invariant *)

\* pump_app_events.
LEMMA StartPumpInv ==
  ASSUME Inv, StartPump
  PROVE  Inv'
<1>1. UNCHANGED <<mode, timed, exit, phase, inside, live, held, closed, redraw, frame,
                callbacks, dirty, creating, creation, configured, broken, dismissed, updates, sink,
                synthetic, work, ids, seen, closing, dispatched, proxy_wake_up, ping,
                proxy_ping, got, remote, panicked, ops, creates>>
  BY DEF StartPump, flag_vars, queue_vars, iter_vars, wake_vars, create_vars, bound_vars
<1>2. /\ step = "out" /\ inside = "none"
      /\ \/ running = TRUE /\ step' = "poll" /\ first' = FALSE /\ running' = TRUE
         \/ running = FALSE /\ step' = "new_events" /\ first' = TRUE /\ running' = TRUE
  BY DEF StartPump, At, Inv, Flags
<1>3. Requests' /\ Sinks' /\ Counted' /\ Framed' /\ Queued'
  BY <1>1 DEF Inv, Requests, Sinks, Counted, Framed, Queued
<1>4. Flags'
  BY <1>1, <1>2, ZenonT(40) DEF Inv, Flags
<1>5. Places'
  BY <1>1, <1>2 DEF Inv, Places, Steps, Callbacks
<1>6. Told'
  BY <1>1, <1>2 DEF Inv, Told
<1>7. Present'
  BY <1>1, <1>2, WaylandAssumption DEF Inv, Present
<1>8. Working'
  BY <1>1, <1>2 DEF Inv, Working
<1> QED BY <1>3, <1>4, <1>5, <1>6, <1>7, <1>8 DEF Inv

\* run_app_on_demand clears the exit.
LEMMA ClearExitInv ==
  ASSUME Inv, ClearExit
  PROVE  Inv'
<1>1. UNCHANGED <<step, mode, timed, running, first, phase, inside, live, held, closed,
                redraw, frame, callbacks, dirty, creating, creation, configured, broken, dismissed,
                updates, sink, synthetic, work, ids, seen, closing, dispatched,
                proxy_wake_up, ping, proxy_ping, got, remote, panicked, ops, creates>>
  BY DEF ClearExit, flag_vars, queue_vars, iter_vars, wake_vars, create_vars, bound_vars
<1>2. exit' = FALSE
  BY DEF ClearExit
<1>3. Places' /\ Requests' /\ Sinks' /\ Counted' /\ Told' /\ Present' /\ Framed' /\ Queued' /\ Working'
  BY <1>1 DEF Inv, Places, Requests, Sinks, Counted, Told, Present, Framed, Queued, Working
<1>4. Flags'
  BY <1>1, <1>2, ZenonT(40) DEF Inv, Flags
<1> QED BY <1>3, <1>4 DEF Inv

\* The poll returns.
LEMMA PollReturnsInv ==
  ASSUME Inv, PollReturns
  PROVE  Inv'
<1>1. UNCHANGED <<mode, timed, running, first, exit, phase, inside, live, held, closed,
                redraw, frame, callbacks, dirty, creating, creation, configured, broken, dismissed,
                updates, sink, synthetic, work, ids, seen, closing, remote, panicked, ops,
                creates>>
  BY DEF PollReturns, flag_vars, queue_vars, iter_vars, create_vars, bound_vars
<1>2. /\ step = "poll" /\ inside = "none"
      /\ step' \in {"new_events", "poll"}
      /\ dispatched' \in BOOLEAN /\ proxy_wake_up' \in BOOLEAN
      /\ ping' = FALSE /\ proxy_ping' = FALSE /\ got' = FALSE
  BY DEF PollReturns, At, Worth
<1>3. Requests' /\ Sinks' /\ Counted' /\ Framed' /\ Queued'
  BY <1>1 DEF Inv, Requests, Sinks, Counted, Framed, Queued
<1>4. Flags'
  BY <1>1, <1>2, ZenonT(40) DEF Inv, Flags
<1>5. Places'
  BY <1>1, <1>2 DEF Inv, Places, Steps, Callbacks
<1>6. Told'
  BY <1>1, <1>2 DEF Inv, Told
<1>7. Present'
  BY <1>1, <1>2, WaylandAssumption DEF Inv, Present
<1>8. Working'
  BY <1>1, <1>2 DEF Inv, Working
<1> QED BY <1>3, <1>4, <1>5, <1>6, <1>7, <1>8 DEF Inv

\* The poll fails.
LEMMA PollFailsInv ==
  ASSUME Inv, PollFails
  PROVE  Inv'
<1>1. UNCHANGED <<mode, timed, first, inside, live, held, closed, redraw, frame,
                callbacks, dirty, creating, creation, configured, broken, dismissed, updates, sink,
                synthetic, work, ids, seen, closing, dispatched, proxy_wake_up, ping,
                proxy_ping, got, remote, panicked, creates>>
  BY DEF PollFails, flag_vars, queue_vars, iter_vars, wake_vars, create_vars
<1>2. /\ step = "poll" /\ inside = "none" /\ exit' = TRUE
      /\ step' = "out" /\ running' = FALSE /\ phase' = "Off"
  BY DEF PollFails, At, Finish
<1>3. Requests' /\ Sinks' /\ Framed' /\ Queued'
  BY <1>1 DEF Inv, Requests, Sinks, Framed, Queued
<1>4. Flags'
  BY <1>1, <1>2, ZenonT(40) DEF Inv, Flags
<1>5. Places'
  BY <1>1, <1>2 DEF Inv, Places, Steps, Callbacks
<1>6. Counted'
  BY <1>1, FailureCounted DEF Inv, Counted, PollFails
<1>7. Told'
  BY <1>1, <1>2 DEF Inv, Told
<1>8. Present'
  BY <1>1, <1>2, WaylandAssumption DEF Inv, Present
<1>9. Working'
  BY <1>1, <1>2 DEF Inv, Working
<1> QED BY <1>3, <1>4, <1>5, <1>6, <1>7, <1>8, <1>9 DEF Inv

\* new_events, of a run or of an iteration.
LEMMA NewEventsInv ==
  ASSUME Inv, NewEvents
  PROVE  Inv'
<1>1. UNCHANGED <<mode, timed, running, first, exit, live, held, closed, redraw, frame,
                callbacks, dirty, creating, creation, configured, broken, dismissed, updates, sink,
                synthetic, work, ids, seen, closing, dispatched, proxy_wake_up, ping,
                proxy_ping, got, remote, panicked, ops, creates>>
  BY DEF NewEvents, flag_vars, queue_vars, iter_vars, wake_vars, create_vars, bound_vars
<1>2. /\ step = "new_events" /\ inside = "none"
      /\ \/ first = TRUE /\ step' = "can_create" /\ inside' = "new_events_init" /\ phase' = "Init"
         \/ first = FALSE /\ step' = "proxy" /\ inside' = "new_events" /\ phase' = "Awake"
  BY DEF NewEvents, At, Call, Inv, Flags
<1>3. Flags' /\ Requests' /\ Sinks' /\ Counted' /\ Framed' /\ Queued'
  BY <1>1 DEF Inv, Flags, Requests, Sinks, Counted, Framed, Queued
<1>4. Places'
  BY <1>1, <1>2 DEF Inv, Places, Steps, Callbacks
<1>5. Told'
  BY <1>1, <1>2 DEF Inv, Told
<1>6. Present'
  BY <1>1, <1>2, WaylandAssumption DEF Inv, Present
<1>7. Working'
  BY <1>1, <1>2 DEF Inv, Working
<1> QED BY <1>3, <1>4, <1>5, <1>6, <1>7 DEF Inv

\* can_create_surfaces.
LEMMA CanCreateSurfacesInv ==
  ASSUME Inv, CanCreateSurfaces
  PROVE  Inv'
<1>1. UNCHANGED <<mode, timed, running, first, exit, live, held, closed, redraw, frame,
                callbacks, dirty, creating, creation, configured, broken, dismissed, updates, sink,
                synthetic, work, ids, seen, closing, dispatched, proxy_wake_up, ping,
                proxy_ping, got, remote, panicked, ops, creates>>
  BY DEF CanCreateSurfaces, flag_vars, queue_vars, iter_vars, wake_vars, create_vars, bound_vars
<1>2. /\ step = "can_create" /\ inside = "none" /\ step' = "proxy"
      /\ inside' = "can_create_surfaces" /\ phase' = "Awake"
  BY DEF CanCreateSurfaces, At, Call
<1>3. Flags' /\ Requests' /\ Sinks' /\ Counted' /\ Framed' /\ Queued'
  BY <1>1 DEF Inv, Flags, Requests, Sinks, Counted, Framed, Queued
<1>4. Places'
  BY <1>1, <1>2 DEF Inv, Places, Steps, Callbacks
<1>5. Told'
  BY <1>1, <1>2 DEF Inv, Told
<1>6. Present'
  BY <1>1, <1>2, WaylandAssumption DEF Inv, Present
<1>7. Working'
  BY <1>1, <1>2 DEF Inv, Working
<1> QED BY <1>3, <1>4, <1>5, <1>6, <1>7 DEF Inv

\* proxy_wake_up.
LEMMA ProxyWakeUpInv ==
  ASSUME Inv, ProxyWakeUp
  PROVE  Inv'
<1>1. UNCHANGED <<step, mode, timed, running, first, exit, live, held, closed, redraw,
                frame, callbacks, dirty, creating, creation, configured, broken, dismissed,
                updates, sink, synthetic, work, ids, seen, closing, dispatched, ping,
                proxy_ping, got, remote, panicked, ops, creates>>
  BY DEF ProxyWakeUp, flag_vars, queue_vars, iter_vars, create_vars, bound_vars
<1>2. /\ step = "proxy" /\ inside = "none" /\ proxy_wake_up' = FALSE
      /\ inside' = "event" /\ phase' = "Awake"
  BY DEF ProxyWakeUp, At, Call
<1>3. Requests' /\ Sinks' /\ Counted' /\ Framed' /\ Queued' /\ Working'
  BY <1>1 DEF Inv, Requests, Sinks, Counted, Framed, Queued, Working
<1>4. Flags'
  BY <1>1, <1>2, ZenonT(40) DEF Inv, Flags
<1>5. Places'
  BY <1>1, <1>2 DEF Inv, Places, Steps, Callbacks
<1>6. Told'
  BY <1>1, <1>2 DEF Inv, Told
<1>7. Present'
  BY <1>1, <1>2, WaylandAssumption DEF Inv, Present
<1> QED BY <1>3, <1>4, <1>5, <1>6, <1>7 DEF Inv

\* The iteration takes the updates.
LEMMA TakeUpdatesInv ==
  ASSUME Inv, TakeUpdates
  PROVE  Inv'
<1>1. UNCHANGED <<mode, timed, running, first, exit, phase, inside, live, held, closed,
                redraw, frame, callbacks, dirty, creating, creation, configured, broken, dismissed,
                sink, synthetic, ids, seen, closing, dispatched, proxy_wake_up, ping,
                proxy_ping, got, remote, panicked, ops, creates>>
  BY DEF TakeUpdates, flag_vars, wake_vars, create_vars, bound_vars
<1>2. /\ step = "proxy" /\ inside = "none" /\ step' = "updates"
      /\ work' = updates /\ updates' = <<>>
  BY DEF TakeUpdates, At
<1>3. Flags' /\ Requests' /\ Sinks' /\ Counted' /\ Framed'
  BY <1>1 DEF Inv, Flags, Requests, Sinks, Counted, Framed
<1>4. Places'
  BY <1>1, <1>2 DEF Inv, Places, Steps, Callbacks
<1>5. Told'
  BY <1>1, <1>2 DEF Inv, Told
<1>6. Present'
  BY <1>1, <1>2, WaylandAssumption DEF Inv, Present
<1>7. Queued'
  BY <1>1, <1>2, NoneQueued
<1>8. Working'
  BY <1>1, <1>2 DEF Inv, Working, Queued
<1> QED BY <1>3, <1>4, <1>5, <1>6, <1>7, <1>8 DEF Inv

\* It hands one out, or a part of one.
LEMMA UpdateWindowInv ==
  ASSUME Inv, UpdateWindow
  PROVE  Inv'
<1>1. UNCHANGED <<step, mode, timed, running, first, exit, live, held, closed, frame,
                callbacks, dirty, creating, creation, configured, broken, dismissed, updates, sink,
                synthetic, ids, seen, closing, dispatched, proxy_wake_up, ping, proxy_ping,
                got, remote, ops, creates>>
  BY DEF UpdateWindow, queue_vars, wake_vars, create_vars, bound_vars
<1>2. /\ panicked' = FALSE /\ redraw' \in [Windows -> BOOLEAN]
      /\ step = "updates" /\ phase' = "Awake" /\ creating = "none"
      /\ inside' \in {"none", "event"}
      /\ work' \in Seq(Update) /\ \A i \in DOMAIN work' : work'[i].id \in live
  BY UpdateHandedOut
<1>3. Flags' /\ Sinks' /\ Counted' /\ Framed' /\ Queued'
  BY <1>1 DEF Inv, Flags, Sinks, Counted, Framed, Queued
<1>4. Places'
  BY <1>1, <1>2 DEF Inv, Places, Steps, Callbacks
<1>5. Requests'
  BY <1>1, <1>2 DEF Inv, Requests
<1>6. Told'
  BY <1>1, <1>2 DEF Inv, Told
<1>7. Present'
  BY <1>1, <1>2, WaylandAssumption DEF Inv, Present
<1>8. Working'
  BY <1>1, <1>2 DEF Inv, Working
<1> QED BY <1>3, <1>4, <1>5, <1>6, <1>7, <1>8 DEF Inv

\* It takes the events of the windows, ...
LEMMA TakeSyntheticInv ==
  ASSUME Inv, TakeSynthetic
  PROVE  Inv'
<1>1. UNCHANGED <<mode, timed, running, first, exit, phase, inside, live, held, closed,
                redraw, frame, callbacks, dirty, creating, creation, configured, broken, dismissed,
                updates, sink, ids, seen, closing, dispatched, proxy_wake_up, ping,
                proxy_ping, got, remote, panicked, ops, creates>>
  BY DEF TakeSynthetic, flag_vars, wake_vars, create_vars, bound_vars
<1>2. /\ step = "updates" /\ inside = "none" /\ step' = "synthetic"
      /\ synthetic' = <<>>
  BY DEF TakeSynthetic, At
<1>3. Flags' /\ Requests' /\ Counted' /\ Framed' /\ Queued'
  BY <1>1 DEF Inv, Flags, Requests, Counted, Framed, Queued
<1>4. Places'
  BY <1>1, <1>2 DEF Inv, Places, Steps, Callbacks
<1>5. Sinks'
  BY <1>1, <1>2 DEF Inv, Sinks
<1>6. Told'
  BY <1>1, <1>2 DEF Inv, Told
<1>7. Present'
  BY <1>1, <1>2, WaylandAssumption DEF Inv, Present
<1>8. Working'
  BY <1>1, <1>2 DEF Inv, Working
<1> QED BY <1>3, <1>4, <1>5, <1>6, <1>7, <1>8 DEF Inv

\* ... then those of the compositor.
LEMMA TakeSinkInv ==
  ASSUME Inv, TakeSink
  PROVE  Inv'
<1>1. UNCHANGED <<mode, timed, running, first, exit, phase, inside, live, held, closed,
                redraw, frame, callbacks, dirty, creating, creation, configured, broken, dismissed,
                updates, synthetic, ids, seen, closing, dispatched, proxy_wake_up, ping,
                proxy_ping, got, remote, panicked, ops, creates>>
  BY DEF TakeSink, flag_vars, wake_vars, create_vars, bound_vars
<1>2. /\ step = "synthetic" /\ inside = "none" /\ step' = "sink"
      /\ sink' = <<>>
  BY DEF TakeSink, At
<1>3. Flags' /\ Requests' /\ Counted' /\ Framed' /\ Queued'
  BY <1>1 DEF Inv, Flags, Requests, Counted, Framed, Queued
<1>4. Places'
  BY <1>1, <1>2 DEF Inv, Places, Steps, Callbacks
<1>5. Sinks'
  BY <1>1, <1>2 DEF Inv, Sinks
<1>6. Told'
  BY <1>1, <1>2 DEF Inv, Told
<1>7. Present'
  BY <1>1, <1>2, WaylandAssumption DEF Inv, Present
<1>8. Working'
  BY <1>1, <1>2 DEF Inv, Working
<1> QED BY <1>3, <1>4, <1>5, <1>6, <1>7, <1>8 DEF Inv

\* It hands one out.
LEMMA SinkEventInv ==
  ASSUME Inv, SinkEvent
  PROVE  Inv'
<1>1. UNCHANGED <<step, mode, timed, running, first, exit, live, held, closed, redraw,
                frame, callbacks, dirty, creating, creation, configured, broken, dismissed,
                updates, sink, synthetic, ids, seen, closing, dispatched, proxy_wake_up,
                ping, proxy_ping, got, remote, panicked, ops, creates>>
  BY DEF SinkEvent, flag_vars, queue_vars, wake_vars, create_vars, bound_vars
<1>2. /\ step \in {"synthetic", "sink"} /\ inside = "none"
      /\ inside' = "event" /\ phase' = "Awake"
  BY DEF SinkEvent, At, Call
<1>3. Flags' /\ Requests' /\ Sinks' /\ Counted' /\ Framed' /\ Queued'
  BY <1>1 DEF Inv, Flags, Requests, Sinks, Counted, Framed, Queued
<1>4. Places'
  BY <1>1, <1>2 DEF Inv, Places, Steps, Callbacks
<1>5. Told'
  BY <1>1, <1>2 DEF Inv, Told
<1>6. Present'
  BY <1>1, <1>2, WaylandAssumption DEF Inv, Present
<1>7. Working'
  BY <1>1, <1>2 DEF Inv, Working
<1> QED BY <1>3, <1>4, <1>5, <1>6, <1>7 DEF Inv

\* It lists the windows.
LEMMA CollectWindowsInv ==
  ASSUME Inv, CollectWindows
  PROVE  Inv'
<1>1. UNCHANGED <<mode, timed, running, first, exit, phase, inside, live, held, closed,
                redraw, frame, callbacks, dirty, creating, creation, configured, broken, dismissed,
                updates, sink, synthetic, work, closing, dispatched, proxy_wake_up, ping,
                proxy_ping, got, remote, panicked, ops, creates>>
  BY DEF CollectWindows, flag_vars, queue_vars, wake_vars, create_vars, bound_vars
<1>2. /\ step = "sink" /\ inside = "none" /\ step' = "windows"
      /\ ids' = live /\ seen' = live
  BY DEF CollectWindows, At
<1>3. Flags' /\ Requests' /\ Sinks' /\ Counted' /\ Framed' /\ Queued'
  BY <1>1 DEF Inv, Flags, Requests, Sinks, Counted, Framed, Queued
<1>4. Places'
  BY <1>1, <1>2 DEF Inv, Places, Steps, Callbacks
<1>5. Told'
  BY <1>1, <1>2 DEF Inv, Told
<1>6. Present'
  BY <1>1, <1>2, WaylandAssumption DEF Inv, Present
<1>7. Working'
  BY <1>1, <1>2 DEF Inv, Working
<1> QED BY <1>3, <1>4, <1>5, <1>6, <1>7 DEF Inv

\* One of them has gone.
LEMMA SkipWindowInv ==
  ASSUME Inv, NEW w \in Windows, SkipWindow(w)
  PROVE  Inv'
<1>1. UNCHANGED <<step, mode, timed, running, first, exit, phase, inside, live, held,
                closed, redraw, frame, callbacks, dirty, creating, creation, configured,
                broken, dismissed, updates, sink, synthetic, work, seen, closing, dispatched,
                proxy_wake_up, ping, proxy_ping, got, remote, panicked, ops, creates>>
  BY DEF SkipWindow, loop_vars, flag_vars, queue_vars, wake_vars, create_vars, bound_vars
<1>2. step = "windows" /\ inside = "none" /\ closing = {} /\ ids' \subseteq ids
  BY DEF SkipWindow, Visit, At
<1>3. Flags' /\ Places' /\ Requests' /\ Sinks' /\ Counted' /\ Told' /\ Framed' /\ Queued' /\ Working'
  BY <1>1 DEF Inv, Flags, Places, Requests, Sinks, Counted, Told, Framed, Queued, Working
<1>4. Present'
  BY <1>1, <1>2, WaylandAssumption DEF Inv, Present
<1> QED BY <1>3, <1>4 DEF Inv

\* One is to be closed, with those on it.
LEMMA FindWindowsToCloseInv ==
  ASSUME Inv, NEW w \in Windows, FindWindowsToClose(w)
  PROVE  Inv'
<1>1. UNCHANGED <<step, mode, timed, running, first, exit, phase, inside, live, held,
                closed, redraw, frame, callbacks, dirty, creating, creation, configured,
                broken, dismissed, updates, sink, synthetic, work, seen, dispatched, proxy_wake_up,
                ping, proxy_ping, got, remote, panicked, ops, creates>>
  BY DEF FindWindowsToClose, loop_vars, flag_vars, queue_vars, wake_vars, create_vars, bound_vars
<1>2. /\ step = "windows" /\ inside = "none" /\ closing = {} /\ ids' \subseteq ids
      /\ w \in live /\ closing' \subseteq live
  BY DEF FindWindowsToClose, Visit, At, Family, Children
<1>3. Flags' /\ Places' /\ Requests' /\ Sinks' /\ Counted' /\ Told' /\ Framed' /\ Queued' /\ Working'
  BY <1>1 DEF Inv, Flags, Places, Requests, Sinks, Counted, Told, Framed, Queued, Working
<1>4. Present'
  BY <1>1, <1>2, WaylandAssumption DEF Inv, Present
<1> QED BY <1>3, <1>4 DEF Inv

\* A window is removed, and what was pending for it.
LEMMA CloseWindowInv ==
  ASSUME Inv, NEW w \in Windows, CloseWindow(w)
  PROVE  Inv'
<1>1. UNCHANGED <<step, mode, timed, running, first, exit, held, creating, creation,
                configured, broken, dismissed, sink, synthetic, work, ids, seen, dispatched,
                proxy_wake_up, ping, proxy_ping, got, remote, ops, creates>>
  BY DEF CloseWindow, wake_vars, create_vars, bound_vars
<1>2. /\ step = "windows" /\ inside = "none" /\ closing' = closing \ {w}
      /\ live' = live \ {w} /\ updates' = RetainUpdates(w) /\ panicked' = FALSE
      /\ closed' = [closed EXCEPT ![w] = FALSE] /\ redraw' = [redraw EXCEPT ![w] = FALSE]
      /\ dirty' = [dirty EXCEPT ![w] = FALSE]
      /\ frame' = [frame EXCEPT ![w] = "None"] /\ callbacks' = [callbacks EXCEPT ![w] = 0]
      /\ inside' = "event" /\ phase' = "Awake"
  BY DEF CloseWindow, At, Call, Inv, Present, Told
<1>3. Flags' /\ Sinks' /\ Counted'
  BY <1>1 DEF Inv, Flags, Sinks, Counted
<1>4. Places'
  BY <1>1, <1>2 DEF Inv, Places, Steps, Callbacks
<1>5. Requests'
  BY <1>1, <1>2 DEF Inv, Requests
<1>6. Told'
  BY <1>1, <1>2 DEF Inv, Told
<1>7. Present'
  BY <1>1, <1>2, WaylandAssumption DEF Inv, Present
<1>8. Framed'
  BY <1>1, <1>2 DEF Inv, Framed
<1>9. Queued'
  BY <1>1, <1>2, RetainQueued
<1>10. Working'
  BY <1>1, <1>2 DEF Inv, Working
<1> QED BY <1>3, <1>4, <1>5, <1>6, <1>7, <1>8, <1>9, <1>10 DEF Inv

\* A window is redrawn, unless it waits for a frame callback.
LEMMA RedrawWindowInv ==
  ASSUME Inv, NEW w \in Windows, RedrawWindow(w)
  PROVE  Inv'
<1>1. UNCHANGED <<step, mode, timed, running, first, exit, live, held, closed, callbacks,
                creating, creation, configured, broken, dismissed, updates, sink, synthetic, work,
                seen, closing, dispatched, proxy_wake_up, ping, proxy_ping, got, remote,
                panicked, ops, creates>>
  BY DEF RedrawWindow, queue_vars, wake_vars, create_vars, bound_vars
<1>2. /\ step = "windows" /\ inside = "none" /\ closing = {} /\ ids' \subseteq ids /\ phase = "Awake"
      /\ inside' \in {"none", "event"} /\ phase' = "Awake"
      /\ \/ UNCHANGED <<frame, redraw, dirty>>
         \/ /\ frame[w] # "Requested" /\ frame' = [frame EXCEPT ![w] = "None"]
            /\ redraw' = [redraw EXCEPT ![w] = FALSE]
            /\ dirty' = [dirty EXCEPT ![w] = FALSE]
  BY DEF RedrawWindow, Visit, At, Call, NoCall, Throttled, Inv, Told
<1>3. Flags' /\ Sinks' /\ Counted' /\ Queued' /\ Working'
  BY <1>1 DEF Inv, Flags, Sinks, Counted, Queued, Working
<1>4. Places'
  BY <1>1, <1>2 DEF Inv, Places, Steps, Callbacks
<1>5. Requests'
  BY <1>1, <1>2 DEF Inv, Requests
<1>6. Told'
  BY <1>1, <1>2 DEF Inv, Told
<1>7. Present'
  BY <1>1, <1>2, WaylandAssumption DEF Inv, Present
<1>8. Framed'
  BY <1>1, <1>2 DEF Inv, Framed
<1> QED BY <1>3, <1>4, <1>5, <1>6, <1>7, <1>8 DEF Inv

\* about_to_wait.
LEMMA AboutToWaitInv ==
  ASSUME Inv, AboutToWait
  PROVE  Inv'
<1>1. UNCHANGED <<mode, timed, running, first, exit, live, held, closed, redraw, frame,
                callbacks, dirty, creating, creation, configured, broken, dismissed, updates, sink,
                synthetic, work, ids, seen, closing, proxy_wake_up, ping, proxy_ping, got,
                remote, panicked, ops, creates>>
  BY DEF AboutToWait, flag_vars, queue_vars, iter_vars, create_vars, bound_vars
<1>2. /\ step = "windows" /\ inside = "none" /\ step' = "refresh"
      /\ ids = {} /\ closing = {} /\ dispatched' = FALSE
      /\ inside' = "about_to_wait" /\ phase' = "Asleep"
  BY DEF AboutToWait, At, Call
<1>3. Requests' /\ Sinks' /\ Counted' /\ Framed' /\ Queued'
  BY <1>1 DEF Inv, Requests, Sinks, Counted, Framed, Queued
<1>4. Flags'
  BY <1>1, <1>2, ZenonT(40) DEF Inv, Flags
<1>5. Places'
  BY <1>1, <1>2 DEF Inv, Places, Steps, Callbacks
<1>6. Told'
  BY <1>1, <1>2 DEF Inv, Told
<1>7. Present'
  BY <1>1, <1>2, WaylandAssumption DEF Inv, Present
<1>8. Working'
  BY <1>1, <1>2 DEF Inv, Working
<1> QED BY <1>3, <1>4, <1>5, <1>6, <1>7, <1>8 DEF Inv

\* The frames are drawn, and the iteration ends.
LEMMA RefreshFramesInv ==
  ASSUME Inv, RefreshFrames
  PROVE  Inv'
<1>1. UNCHANGED <<mode, timed, exit, inside, live, held, closed, frame, callbacks,
                creating, creation, configured, broken, dismissed, updates, sink, synthetic, work,
                ids, closing, dispatched, proxy_wake_up, proxy_ping, got, remote, panicked,
                ops, creates>>
  BY DEF RefreshFrames, queue_vars, create_vars, bound_vars
<1>2. /\ step = "refresh" /\ inside = "none" /\ seen' = {} /\ first' = FALSE
      /\ redraw' \in [Windows -> BOOLEAN] /\ dirty' \in [Windows -> BOOLEAN]
      /\ ping' \in BOOLEAN
      /\ \/ step' = "poll" /\ UNCHANGED <<running, phase>>
         \/ step' = "out" /\ running' = TRUE /\ UNCHANGED phase
         \/ step' = "out" /\ running' = FALSE /\ phase' = "Off"
  BY DEF RefreshFrames, At, Finish, Inv, Flags, Requests
<1>3. Sinks' /\ Counted' /\ Framed' /\ Queued'
  BY <1>1 DEF Inv, Sinks, Counted, Framed, Queued
<1>4. Flags'
  BY <1>1, <1>2, ZenonT(40) DEF Inv, Flags
<1>5. Places'
  BY <1>1, <1>2 DEF Inv, Places, Steps, Callbacks
<1>6. Requests'
  BY <1>1, <1>2 DEF Inv, Requests
<1>7. Told'
  BY <1>1, <1>2 DEF Inv, Told
<1>8. Present'
  BY <1>1, <1>2, WaylandAssumption DEF Inv, Present
<1>9. Working'
  BY <1>1, <1>2 DEF Inv, Working
<1> QED BY <1>3, <1>4, <1>5, <1>6, <1>7, <1>8, <1>9 DEF Inv

\* A callback returns.
LEMMA ReturnInv ==
  ASSUME Inv, Return
  PROVE  Inv'
<1>1. UNCHANGED <<step, mode, timed, running, first, exit, phase, live, held, closed,
                redraw, frame, callbacks, dirty, creating, creation, configured, broken, dismissed,
                updates, sink, synthetic, work, ids, seen, closing, dispatched,
                proxy_wake_up, ping, proxy_ping, got, remote, panicked, ops, creates>>
  BY DEF Return, flag_vars, queue_vars, iter_vars, wake_vars, create_vars, bound_vars
<1>2. inside # "none" /\ creating = "none" /\ inside' = "none"
  BY DEF Return
<1>3. Flags' /\ Requests' /\ Sinks' /\ Counted' /\ Framed' /\ Queued' /\ Working'
  BY <1>1 DEF Inv, Flags, Requests, Sinks, Counted, Framed, Queued, Working
<1>4. Places'
  BY <1>1, <1>2 DEF Inv, Places, Steps, Callbacks
<1>5. Told'
  BY <1>1, <1>2 DEF Inv, Told
<1>6. Present'
  BY <1>1, <1>2, WaylandAssumption DEF Inv, Present
<1> QED BY <1>3, <1>4, <1>5, <1>6 DEF Inv

\* The application exits, ...
LEMMA ExitInv ==
  ASSUME Inv, Exit
  PROVE  Inv'
<1>1. UNCHANGED <<step, mode, timed, running, first, phase, inside, live, held, closed,
                redraw, frame, callbacks, dirty, creating, creation, configured, broken, dismissed,
                updates, sink, synthetic, work, ids, seen, closing, dispatched,
                proxy_wake_up, ping, proxy_ping, got, remote, panicked, creates>>
  BY DEF Exit, flag_vars, queue_vars, iter_vars, wake_vars, create_vars
<1>2. exit' = TRUE
  BY DEF Exit
<1>3. Places' /\ Requests' /\ Sinks' /\ Told' /\ Present' /\ Framed' /\ Queued' /\ Working'
  BY <1>1 DEF Inv, Places, Requests, Sinks, Told, Present, Framed, Queued, Working
<1>4. Flags'
  BY <1>1, <1>2, ZenonT(40) DEF Inv, Flags
<1>5. Counted'
  BY <1>1, OpCounted DEF Inv, Counted, Exit
<1> QED BY <1>3, <1>4, <1>5 DEF Inv

\* ... asks for a redraw, ...
LEMMA RequestRedrawInv ==
  ASSUME Inv, NEW w \in Windows, RequestRedraw(w)
  PROVE  Inv'
<1>1. UNCHANGED <<step, mode, timed, running, first, exit, phase, inside, live, held,
                closed, frame, callbacks, dirty, creating, creation, configured, broken, dismissed,
                updates, sink, synthetic, work, ids, seen, closing, dispatched,
                proxy_wake_up, proxy_ping, got, remote, panicked, creates>>
  BY DEF RequestRedraw, loop_vars, queue_vars, iter_vars, create_vars
<1>2. redraw' \in [Windows -> BOOLEAN] /\ ping' \in BOOLEAN
  BY DEF RequestRedraw, Request, Pings, Inv, Flags, Requests
<1>3. Places' /\ Sinks' /\ Told' /\ Present' /\ Framed' /\ Queued' /\ Working'
  BY <1>1 DEF Inv, Places, Sinks, Told, Present, Framed, Queued, Working
<1>4. Flags'
  BY <1>1, <1>2, ZenonT(40) DEF Inv, Flags
<1>5. Requests'
  BY <1>1, <1>2 DEF Inv, Requests
<1>6. Counted'
  BY <1>1, OpCounted DEF Inv, Counted, RequestRedraw
<1> QED BY <1>3, <1>4, <1>5, <1>6 DEF Inv

\* ... tells that it will present, ...
LEMMA PrePresentNotifyInv ==
  ASSUME Inv, NEW w \in Windows, PrePresentNotify(w)
  PROVE  Inv'
<1>1. UNCHANGED <<step, mode, timed, running, first, exit, phase, inside, live, held,
                closed, redraw, dirty, creating, creation, configured, broken, dismissed, updates,
                sink, synthetic, work, ids, seen, closing, dispatched, proxy_wake_up, ping,
                proxy_ping, got, remote, panicked, creates>>
  BY DEF PrePresentNotify, loop_vars, queue_vars, iter_vars, wake_vars, create_vars
<1>2. /\ frame[w] # "Requested" /\ frame' = [frame EXCEPT ![w] = "Requested"]
      /\ callbacks' = [callbacks EXCEPT ![w] = @ + 1]
  BY DEF PrePresentNotify, WantsCallback
<1>3. Flags' /\ Places' /\ Requests' /\ Sinks' /\ Told' /\ Present' /\ Queued' /\ Working'
  BY <1>1 DEF Inv, Flags, Places, Requests, Sinks, Told, Present, Queued, Working
<1>4. Counted'
  BY <1>1, OpCounted DEF Inv, Counted, PrePresentNotify
<1>5. Framed'
  BY <1>1, <1>2 DEF Inv, Framed
<1> QED BY <1>3, <1>4, <1>5 DEF Inv

\* ... leaves an event of a window, ...
LEMMA PushWindowEventInv ==
  ASSUME Inv, NEW w \in Windows, PushWindowEvent(w)
  PROVE  Inv'
<1>1. UNCHANGED <<step, mode, timed, running, first, exit, phase, inside, live, held,
                closed, redraw, frame, callbacks, dirty, creating, creation, configured,
                broken, dismissed, updates, sink, work, ids, seen, closing, dispatched,
                proxy_wake_up, proxy_ping, got, remote, panicked, creates>>
  BY DEF PushWindowEvent, loop_vars, flag_vars, iter_vars, create_vars
<1>2. synthetic' = Append(synthetic, w) /\ ping' = TRUE
  BY DEF PushWindowEvent
<1>3. Places' /\ Requests' /\ Told' /\ Present' /\ Framed' /\ Queued' /\ Working'
  BY <1>1 DEF Inv, Places, Requests, Told, Present, Framed, Queued, Working
<1>4. Flags'
  BY <1>1, <1>2, ZenonT(40) DEF Inv, Flags
<1>5. Sinks'
  BY <1>1, <1>2 DEF Inv, Sinks
<1>6. Counted'
  BY <1>1, OpCounted DEF Inv, Counted, PushWindowEvent
<1> QED BY <1>3, <1>4, <1>5, <1>6 DEF Inv

\* ... changes a title, ...
LEMMA ChangeFrameInv ==
  ASSUME Inv, NEW w \in Windows, ChangeFrame(w)
  PROVE  Inv'
<1>1. UNCHANGED <<step, mode, timed, running, first, exit, phase, inside, live, held,
                closed, redraw, frame, callbacks, creating, creation, configured,
                broken, dismissed, updates, sink, synthetic, work, ids, seen, closing, dispatched,
                proxy_wake_up, ping, proxy_ping, got, remote, panicked, creates>>
  BY DEF ChangeFrame, loop_vars, queue_vars, iter_vars, wake_vars, create_vars
<1>2. dirty' = [dirty EXCEPT ![w] = TRUE]
  BY DEF ChangeFrame
<1>3. Flags' /\ Places' /\ Sinks' /\ Told' /\ Present' /\ Framed' /\ Queued' /\ Working'
  BY <1>1 DEF Inv, Flags, Places, Sinks, Told, Present, Framed, Queued, Working
<1>4. Requests'
  BY <1>1, <1>2 DEF Inv, Requests
<1>5. Counted'
  BY <1>1, OpCounted DEF Inv, Counted, ChangeFrame
<1> QED BY <1>3, <1>4, <1>5 DEF Inv

\* ... drops a window, ...
LEMMA DropWindowInv ==
  ASSUME Inv, NEW w \in Windows, DropWindow(w)
  PROVE  Inv'
<1>1. UNCHANGED <<step, mode, timed, running, first, exit, phase, inside, live, redraw,
                frame, callbacks, dirty, creating, creation, configured, broken, dismissed,
                updates, sink, synthetic, work, ids, seen, closing, dispatched,
                proxy_wake_up, proxy_ping, got, remote, panicked, creates>>
  BY DEF DropWindow, loop_vars, queue_vars, iter_vars, create_vars
<1>2. held' = held \ {w} /\ closed' = [closed EXCEPT ![w] = w \in live] /\ ping' = TRUE
  BY DEF DropWindow, Abandon
<1>3. Places' /\ Sinks' /\ Told' /\ Framed' /\ Queued' /\ Working'
  BY <1>1 DEF Inv, Places, Sinks, Told, Framed, Queued, Working
<1>4. Flags'
  BY <1>1, <1>2, ZenonT(40) DEF Inv, Flags
<1>5. Requests'
  BY <1>1, <1>2 DEF Inv, Requests
<1>6. Counted'
  BY <1>1, OpCounted DEF Inv, Counted, DropWindow
<1>7. Present'
  BY <1>1, <1>2, WaylandAssumption DEF Inv, Present
<1> QED BY <1>3, <1>4, <1>5, <1>6, <1>7 DEF Inv

\* ... all of these also on another thread, ...
LEMMA RemoteRequestInv ==
  ASSUME Inv, NEW w \in Windows, RemoteRequest(w)
  PROVE  Inv'
<1>1. UNCHANGED <<step, mode, timed, running, first, exit, phase, inside, live, held,
                closed, frame, callbacks, dirty, creating, creation, configured, broken, dismissed,
                updates, sink, synthetic, work, ids, seen, closing, dispatched,
                proxy_wake_up, ping, proxy_ping, got, panicked, creates>>
  BY DEF RemoteRequest, loop_vars, queue_vars, iter_vars, create_vars
<1>2. redraw' = [redraw EXCEPT ![w] = w \in live] /\ remote' = TRUE
  BY DEF RemoteRequest, Request
<1>3. Places' /\ Sinks' /\ Told' /\ Present' /\ Framed' /\ Queued' /\ Working'
  BY <1>1 DEF Inv, Places, Sinks, Told, Present, Framed, Queued, Working
<1>4. Flags'
  BY <1>1, <1>2, ZenonT(40) DEF Inv, Flags
<1>5. Requests'
  BY <1>1, <1>2 DEF Inv, Requests
<1>6. Counted'
  BY <1>1, OpCounted DEF Inv, Counted, RemoteRequest
<1> QED BY <1>3, <1>4, <1>5, <1>6 DEF Inv

\* ... which pings ...
LEMMA RemoteDropInv ==
  ASSUME Inv, NEW w \in Windows, RemoteDrop(w)
  PROVE  Inv'
<1>1. UNCHANGED <<step, mode, timed, running, first, exit, phase, inside, live, redraw,
                frame, callbacks, dirty, creating, creation, configured, broken, dismissed,
                updates, sink, synthetic, work, ids, seen, closing, dispatched,
                proxy_wake_up, ping, proxy_ping, got, panicked, creates>>
  BY DEF RemoteDrop, loop_vars, queue_vars, iter_vars, create_vars
<1>2. held' = held \ {w} /\ closed' = [closed EXCEPT ![w] = w \in live] /\ remote' = TRUE
  BY DEF RemoteDrop, Abandon
<1>3. Places' /\ Sinks' /\ Told' /\ Framed' /\ Queued' /\ Working'
  BY <1>1 DEF Inv, Places, Sinks, Told, Framed, Queued, Working
<1>4. Flags'
  BY <1>1, <1>2, ZenonT(40) DEF Inv, Flags
<1>5. Requests'
  BY <1>1, <1>2 DEF Inv, Requests
<1>6. Counted'
  BY <1>1, OpCounted DEF Inv, Counted, RemoteDrop
<1>7. Present'
  BY <1>1, <1>2, WaylandAssumption DEF Inv, Present
<1> QED BY <1>3, <1>4, <1>5, <1>6, <1>7 DEF Inv

\* ... later, ...
LEMMA RemotePingInv ==
  ASSUME Inv, RemotePing
  PROVE  Inv'
<1>1. UNCHANGED <<step, mode, timed, running, first, exit, phase, inside, live, held,
                closed, redraw, frame, callbacks, dirty, creating, creation, configured,
                broken, dismissed, updates, sink, synthetic, work, ids, seen, closing, dispatched,
                proxy_wake_up, proxy_ping, got, panicked, ops, creates>>
  BY DEF RemotePing, loop_vars, flag_vars, queue_vars, iter_vars, create_vars, bound_vars
<1>2. remote' = FALSE /\ ping' = TRUE
  BY DEF RemotePing
<1>3. Places' /\ Requests' /\ Sinks' /\ Counted' /\ Told' /\ Present' /\ Framed' /\ Queued' /\ Working'
  BY <1>1 DEF Inv, Places, Requests, Sinks, Counted, Told, Present, Framed, Queued, Working
<1>4. Flags'
  BY <1>1, <1>2, ZenonT(40) DEF Inv, Flags
<1> QED BY <1>3, <1>4 DEF Inv

\* ... wakes the loop, ...
LEMMA WakeUpInv ==
  ASSUME Inv, WakeUp
  PROVE  Inv'
<1>1. UNCHANGED <<step, mode, timed, running, first, exit, phase, inside, live, held,
                closed, redraw, frame, callbacks, dirty, creating, creation, configured,
                broken, dismissed, updates, sink, synthetic, work, ids, seen, closing, dispatched,
                proxy_wake_up, ping, got, remote, panicked, creates>>
  BY DEF WakeUp, loop_vars, flag_vars, queue_vars, iter_vars, create_vars
<1>2. proxy_ping' = TRUE
  BY DEF WakeUp
<1>3. Places' /\ Requests' /\ Sinks' /\ Told' /\ Present' /\ Framed' /\ Queued' /\ Working'
  BY <1>1 DEF Inv, Places, Requests, Sinks, Told, Present, Framed, Queued, Working
<1>4. Flags'
  BY <1>1, <1>2, ZenonT(40) DEF Inv, Flags
<1>5. Counted'
  BY <1>1, OpCounted DEF Inv, Counted, WakeUp
<1> QED BY <1>3, <1>4, <1>5 DEF Inv

\* ... or creates a window, inside a callback.
LEMMA CreateInv ==
  ASSUME Inv, NEW w \in Windows, Create(w)
  PROVE  Inv'
<1>1. UNCHANGED <<step, mode, timed, running, first, exit, phase, inside, held, closed,
                frame, callbacks, dirty, broken, dismissed, updates, sink, synthetic, work, ids,
                seen, closing, dispatched, proxy_wake_up, ping, proxy_ping, got, remote,
                panicked, ops>>
  BY DEF Create, loop_vars, queue_vars, iter_vars, wake_vars
<1>2. /\ inside # "none" /\ creating = "none"
      /\ live' = live \cup {w} /\ redraw' = [redraw EXCEPT ![w] = TRUE]
      /\ creating' = w /\ creation' = "roundtrip" /\ configured' = FALSE
      /\ creates < MaxCreates /\ creates' = creates + 1
  BY WaylandAssumption DEF Create, AppTurn, Callbacks
<1>3. Sinks' /\ Told' /\ Framed'
  BY <1>1 DEF Inv, Sinks, Told, Framed
<1>4. Flags'
  BY <1>1, <1>2, ZenonT(40) DEF Inv, Flags
<1>5. Places'
  BY <1>1, <1>2 DEF Inv, Places, Steps, Callbacks
<1>6. Requests'
  BY <1>1, <1>2 DEF Inv, Requests
<1>7. Counted'
  BY <1>1, <1>2, WaylandAssumption DEF Inv, Counted
<1>8. Present'
  BY <1>1, <1>2, WaylandAssumption DEF Inv, Present
<1>9. Queued'
  BY <1>1, <1>2 DEF Inv, Queued
<1>10. Working'
  BY <1>1, <1>2 DEF Inv, Working
<1> QED BY <1>3, <1>4, <1>5, <1>6, <1>7, <1>8, <1>9, <1>10 DEF Inv

\* The roundtrip of a creation is answered.
LEMMA RoundtripEndsInv ==
  ASSUME Inv, RoundtripEnds
  PROVE  Inv'
<1>1. UNCHANGED <<step, mode, timed, running, first, exit, phase, inside, live, closed,
                redraw, frame, callbacks, dirty, configured, broken, updates, sink, synthetic,
                work, ids, seen, closing, dispatched, proxy_wake_up, proxy_ping, remote,
                panicked, ops, creates>>
  BY DEF RoundtripEnds, loop_vars, flag_vars, queue_vars, iter_vars, bound_vars
<1>2. /\ held' \subseteq Windows /\ ping' \in BOOLEAN /\ got' \in BOOLEAN /\ dismissed' \in BOOLEAN
      /\ \/ creating' = "none" /\ creation' = "none"
         \/ creating # "none" /\ creating' = creating /\ creation' = "waiting"
  BY DEF RoundtripEnds, Created, Inv, Flags, Present
<1>3. Requests' /\ Sinks' /\ Counted' /\ Told' /\ Framed' /\ Queued' /\ Working'
  BY <1>1 DEF Inv, Requests, Sinks, Counted, Told, Framed, Queued, Working
<1>4. Flags'
  BY <1>1, <1>2, ZenonT(40) DEF Inv, Flags
<1>5. Places'
  BY <1>1, <1>2 DEF Inv, Places, Steps, Callbacks
<1>6. Present'
  BY <1>1, <1>2, WaylandAssumption DEF Inv, Present
<1> QED BY <1>3, <1>4, <1>5, <1>6 DEF Inv

\* So is its wait for a configure.
LEMMA WaitingDispatchedInv ==
  ASSUME Inv, WaitingDispatched
  PROVE  Inv'
<1>1. UNCHANGED <<step, mode, timed, running, first, exit, phase, inside, live, closed,
                redraw, frame, callbacks, dirty, configured, broken, updates, sink, synthetic,
                work, ids, seen, closing, dispatched, proxy_wake_up, proxy_ping, remote,
                panicked, ops, creates>>
  BY DEF WaitingDispatched, loop_vars, flag_vars, queue_vars, iter_vars, bound_vars
<1>2. /\ held' \subseteq Windows /\ ping' \in BOOLEAN /\ got' \in BOOLEAN /\ dismissed' \in BOOLEAN
      /\ \/ creating' = "none" /\ creation' = "none"
         \/ creating # "none" /\ creating' = creating /\ creation' = "waiting"
  BY DEF WaitingDispatched, Created, Inv, Flags, Present
<1>3. Requests' /\ Sinks' /\ Counted' /\ Told' /\ Framed' /\ Queued' /\ Working'
  BY <1>1 DEF Inv, Requests, Sinks, Counted, Told, Framed, Queued, Working
<1>4. Flags'
  BY <1>1, <1>2, ZenonT(40) DEF Inv, Flags
<1>5. Places'
  BY <1>1, <1>2 DEF Inv, Places, Steps, Callbacks
<1>6. Present'
  BY <1>1, <1>2, WaylandAssumption DEF Inv, Present
<1> QED BY <1>3, <1>4, <1>5, <1>6 DEF Inv

\* It may fail.
LEMMA CreationFailsInv ==
  ASSUME Inv, CreationFails
  PROVE  Inv'
<1>1. UNCHANGED <<step, mode, timed, running, first, exit, phase, inside, live, held, closed,
                redraw, frame, callbacks, dirty, configured, dismissed, updates, sink,
                synthetic, work, ids, seen, closing, dispatched, proxy_wake_up, ping,
                proxy_ping, remote, panicked, creates>>
  BY DEF CreationFails, loop_vars, flag_vars, queue_vars, iter_vars
<1>2. broken' = TRUE /\ got' = FALSE /\ creating' = "none" /\ creation' = "none"
  BY DEF CreationFails
<1>3. Requests' /\ Sinks' /\ Told' /\ Framed' /\ Queued' /\ Working'
  BY <1>1 DEF Inv, Requests, Sinks, Told, Framed, Queued, Working
<1>4. Flags'
  BY <1>1, <1>2, ZenonT(40) DEF Inv, Flags
<1>5. Places'
  BY <1>1, <1>2 DEF Inv, Places, Steps, Callbacks
<1>6. Counted'
  BY <1>1, FailureCounted DEF Inv, Counted, CreationFails
<1>7. Present'
  BY <1>1, <1>2, WaylandAssumption DEF Inv, Present
<1> QED BY <1>3, <1>4, <1>5, <1>6, <1>7 DEF Inv

\* The compositor configures a window that is there, ...
LEMMA ConfiguredInv ==
  ASSUME Inv, NEW w \in Windows, NEW kinds, Configured(w, kinds), w \in live, kinds \subseteq Kinds, got' = TRUE,
         configured' \in BOOLEAN, ops' \in 0 .. MaxOps
  PROVE  Inv'
<1>1. UNCHANGED <<step, mode, timed, running, first, exit, phase, inside, live, held,
                closed, frame, callbacks, creating, creation, broken, dismissed, sink, synthetic,
                work, ids, seen, closing, proxy_wake_up, ping, proxy_ping, remote,
                panicked, creates>>
  BY DEF Configured, loop_vars, iter_vars
<1>2. /\ updates' = AddUpdate(w, kinds) /\ w \in live /\ kinds \subseteq Kinds
      /\ redraw' = [redraw EXCEPT ![w] = TRUE] /\ dispatched' = TRUE /\ got' = TRUE
      /\ dirty' \in [Windows -> BOOLEAN]
      /\ configured' \in BOOLEAN
  BY ConfiguredIs
<1>3. Places' /\ Sinks' /\ Told' /\ Present' /\ Framed' /\ Working'
  BY <1>1 DEF Inv, Places, Sinks, Told, Present, Framed, Working
<1>4. Flags'
  BY <1>1, <1>2, ZenonT(40) DEF Inv, Flags
<1>5. Requests'
  BY <1>1, <1>2 DEF Inv, Requests
<1>6. Counted'
  BY <1>1, <1>2 DEF Inv, Counted
<1>7. Queued'
  BY <1>1, <1>2, AddUpdateQueued
<1> QED BY <1>3, <1>4, <1>5, <1>6, <1>7 DEF Inv

\* ... announces its scale or asks to close it, ...
LEMMA AnnounceInv ==
  ASSUME Inv, NEW w \in Windows, NEW kind \in {"scale", "close"}, Announce(w, kind)
  PROVE  Inv'
<1>1. UNCHANGED <<step, mode, timed, running, first, exit, phase, inside, live, held,
                closed, redraw, frame, callbacks, dirty, creating, creation, configured,
                broken, dismissed, sink, synthetic, work, ids, seen, closing, dispatched,
                proxy_wake_up, ping, proxy_ping, remote, panicked, creates>>
  BY DEF Announce, loop_vars, flag_vars, iter_vars, create_vars
<1>2. /\ updates' = AddUpdate(w, {kind}) /\ w \in live /\ {kind} \subseteq Kinds
      /\ got' = TRUE
  BY DEF Announce, Message, Reading, Kinds
<1>3. Places' /\ Requests' /\ Sinks' /\ Told' /\ Present' /\ Framed' /\ Working'
  BY <1>1 DEF Inv, Places, Requests, Sinks, Told, Present, Framed, Working
<1>4. Flags'
  BY <1>1, <1>2, ZenonT(40) DEF Inv, Flags
<1>5. Counted'
  BY <1>1, OpCounted DEF Inv, Counted, Announce, Message
<1>6. Queued'
  BY <1>1, <1>2, AddUpdateQueued
<1> QED BY <1>3, <1>4, <1>5, <1>6 DEF Inv

\* ... dismisses a popup, ...
LEMMA DoneInv ==
  ASSUME Inv, NEW w \in Windows, Done(w)
  PROVE  Inv'
<1>1. UNCHANGED <<step, mode, timed, running, first, exit, phase, inside, live, held,
                redraw, frame, callbacks, dirty, creating, creation, configured, broken, dismissed,
                sink, synthetic, work, ids, seen, closing, dispatched, proxy_wake_up, ping,
                proxy_ping, remote, panicked, creates>>
  BY DEF Done, loop_vars, iter_vars, create_vars
<1>2. /\ updates' = AddUpdate(w, {"close"}) /\ w \in live /\ {"close"} \subseteq Kinds
      /\ closed' = [closed EXCEPT ![w] = TRUE] /\ got' = TRUE
  BY DEF Done, Message, Reading, Kinds
<1>3. Places' /\ Sinks' /\ Told' /\ Present' /\ Framed' /\ Working'
  BY <1>1 DEF Inv, Places, Sinks, Told, Present, Framed, Working
<1>4. Flags'
  BY <1>1, <1>2, ZenonT(40) DEF Inv, Flags
<1>5. Requests'
  BY <1>1, <1>2 DEF Inv, Requests
<1>6. Counted'
  BY <1>1, OpCounted DEF Inv, Counted, Done, Message
<1>7. Queued'
  BY <1>1, <1>2, AddUpdateQueued
<1> QED BY <1>3, <1>4, <1>5, <1>6, <1>7 DEF Inv

\* ... answers a frame callback, ...
LEMMA FrameDoneInv ==
  ASSUME Inv, NEW w \in Windows, FrameDone(w)
  PROVE  Inv'
<1>1. UNCHANGED <<step, mode, timed, running, first, exit, phase, inside, live, held,
                closed, redraw, dirty, creating, creation, configured, broken, dismissed, updates,
                sink, synthetic, work, ids, seen, closing, proxy_wake_up, ping, proxy_ping,
                remote, panicked, ops, creates>>
  BY DEF FrameDone, loop_vars, queue_vars, iter_vars, create_vars, bound_vars
<1>2. /\ callbacks[w] > 0 /\ callbacks' = [callbacks EXCEPT ![w] = @ - 1]
      /\ frame' = [frame EXCEPT ![w] = "Received"]
      /\ dispatched' \in BOOLEAN /\ got' = TRUE
  BY DEF FrameDone, Reading, FrameWorth, Inv, Flags
<1>3. Places' /\ Requests' /\ Sinks' /\ Counted' /\ Told' /\ Present' /\ Queued' /\ Working'
  BY <1>1 DEF Inv, Places, Requests, Sinks, Counted, Told, Present, Queued, Working
<1>4. Flags'
  BY <1>1, <1>2, ZenonT(40) DEF Inv, Flags
<1>5. Framed'
  BY <1>1, <1>2 DEF Inv, Framed
<1> QED BY <1>3, <1>4, <1>5 DEF Inv

\* ... tells of input ...
LEMMA InputInv ==
  ASSUME Inv, NEW w \in Windows, Input(w)
  PROVE  Inv'
<1>1. UNCHANGED <<step, mode, timed, running, first, exit, phase, inside, live, held,
                closed, redraw, frame, callbacks, dirty, creating, creation, configured,
                broken, dismissed, updates, synthetic, work, ids, seen, closing, dispatched,
                proxy_wake_up, ping, proxy_ping, remote, panicked, creates>>
  BY DEF Input, loop_vars, flag_vars, iter_vars, create_vars
<1>2. sink' = Append(sink, w) /\ got' = TRUE
  BY DEF Input, Message, Reading
<1>3. Places' /\ Requests' /\ Told' /\ Present' /\ Framed' /\ Queued' /\ Working'
  BY <1>1 DEF Inv, Places, Requests, Told, Present, Framed, Queued, Working
<1>4. Flags'
  BY <1>1, <1>2, ZenonT(40) DEF Inv, Flags
<1>5. Sinks'
  BY <1>1, <1>2 DEF Inv, Sinks
<1>6. Counted'
  BY <1>1, OpCounted DEF Inv, Counted, Input, Message
<1> QED BY <1>3, <1>4, <1>5, <1>6 DEF Inv

\* ... or moves the pointer over its frame.
LEMMA HoverInv ==
  ASSUME Inv, NEW w \in Windows, Hover(w)
  PROVE  Inv'
<1>1. UNCHANGED <<step, mode, timed, running, first, exit, phase, inside, live, held,
                closed, redraw, frame, callbacks, creating, creation, configured,
                broken, dismissed, updates, sink, synthetic, work, ids, seen, closing, dispatched,
                proxy_wake_up, ping, proxy_ping, remote, panicked, creates>>
  BY DEF Hover, loop_vars, queue_vars, iter_vars, create_vars
<1>2. dirty' = [dirty EXCEPT ![w] = TRUE] /\ got' = TRUE
  BY DEF Hover, Message, Reading
<1>3. Places' /\ Sinks' /\ Told' /\ Present' /\ Framed' /\ Queued' /\ Working'
  BY <1>1 DEF Inv, Places, Sinks, Told, Present, Framed, Queued, Working
<1>4. Flags'
  BY <1>1, <1>2, ZenonT(40) DEF Inv, Flags
<1>5. Requests'
  BY <1>1, <1>2 DEF Inv, Requests
<1>6. Counted'
  BY <1>1, OpCounted DEF Inv, Counted, Hover, Message
<1> QED BY <1>3, <1>4, <1>5, <1>6 DEF Inv

----
(* The invariant *)

\* It holds before the first call.
LEMMA InitInv ==
  ASSUME Init
  PROVE  Inv
<1>1. Flags /\ Places
  BY DEF Init, Flags, Places, Steps
<1>2. Requests /\ Sinks
  BY DEF Init, Requests, Sinks
<1>3. Counted
  BY WaylandAssumption DEF Init, Counted
<1>4. Told /\ Present
  BY DEF Init, Told, Present
<1>5. Framed
  BY DEF Init, Framed
<1>6. Queued
  <2>1. updates = <<>> /\ <<>> \in Seq(Update) /\ DOMAIN <<>> = {}
    BY DEF Init
  <2> QED BY <2>1 DEF Queued
<1>7. Working
  BY DEF Init, Working
<1> QED BY <1>1, <1>2, <1>3, <1>4, <1>5, <1>6, <1>7 DEF Inv

\* A step that changes nothing keeps it.
LEMMA StutterInv ==
  ASSUME Inv, UNCHANGED vars
  PROVE  Inv'
<1>1. UNCHANGED <<step, mode, timed, running, first, exit, phase, inside, live, held, closed,
                 redraw, frame, callbacks, dirty, creating, creation, configured, broken, dismissed,
                 updates, sink, synthetic, work, ids, seen, closing, dispatched,
                 proxy_wake_up, ping, proxy_ping, got, remote, panicked, ops, creates>>
  BY DEF vars, loop_vars, flag_vars, create_vars, queue_vars, iter_vars, wake_vars, bound_vars
<1>2. Flags' /\ Places' /\ Requests' /\ Sinks' /\ Counted'
  BY <1>1 DEF Inv, Flags, Places, Requests, Sinks, Counted
<1>3. Told' /\ Present' /\ Framed' /\ Queued' /\ Working'
  BY <1>1 DEF Inv, Told, Present, Framed, Queued, Working
<1> QED BY <1>2, <1>3 DEF Inv

\* What the compositor says of a window that is there keeps it.
LEMMA CompositorInv ==
  ASSUME Inv, Compositor
  PROVE  Inv'
<1>1. CASE FirstConfigure
  <2>1. creating \in live /\ creating \in Windows
    BY <1>1 DEF FirstConfigure, Inv, Present
  <2>2. {"resized"} \subseteq Kinds
    BY DEF Kinds
  <2>3. got' = TRUE /\ configured' \in BOOLEAN /\ ops' \in 0 .. MaxOps
    BY <1>1 DEF FirstConfigure, Reading, Inv, Counted
  <2> QED BY <1>1, <2>1, <2>2, <2>3, ConfiguredInv DEF FirstConfigure
<1>2. ASSUME NEW w \in Windows, Configure(w)
      PROVE  Inv'
  <2>1. PICK kinds \in {{}, {"resized"}} : Configured(w, kinds)
    BY <1>2 DEF Configure
  <2>2. kinds \subseteq Kinds
    BY DEF Kinds
  <2>3. w \in live /\ got' = TRUE
    BY <1>2 DEF Configure, Message, Reading
  <2>4. configured' \in BOOLEAN
    BY <1>2 DEF Configure, Inv, Flags
  <2>5. ops' \in 0 .. MaxOps
    BY <1>2, OpCounted DEF Configure, Message, Inv
  <2> QED BY <2>1, <2>2, <2>3, <2>4, <2>5, ConfiguredInv
<1>3. ASSUME NEW w \in Windows, Done(w) \/ FrameDone(w) \/ Input(w) \/ Hover(w)
      PROVE  Inv'
  BY <1>3, DoneInv, FrameDoneInv, InputInv, HoverInv
<1>4. ASSUME NEW w \in Windows, NEW kind \in {"scale", "close"}, Announce(w, kind)
      PROVE  Inv'
  BY <1>4, AnnounceInv
<1> QED BY <1>1, <1>2, <1>3, <1>4 DEF Compositor

\* So does every step.
LEMMA NextInv ==
  ASSUME Inv, [Next]_vars
  PROVE  Inv'
<1>1. CASE Iteration
  BY <1>1, NewEventsInv, CanCreateSurfacesInv, ProxyWakeUpInv, TakeUpdatesInv, UpdateWindowInv,
     TakeSyntheticInv, TakeSinkInv, SinkEventInv, CollectWindowsInv, AboutToWaitInv,
     RefreshFramesInv, SkipWindowInv, FindWindowsToCloseInv, CloseWindowInv, RedrawWindowInv
     DEF Iteration
<1>2. CASE StartPump \/ PollReturns \/ Return \/ ClearExit \/ PollFails
  BY <1>2, StartPumpInv, PollReturnsInv, ReturnInv, ClearExitInv, PollFailsInv
<1>3. CASE Creation \/ CreationFails
  BY <1>3, RoundtripEndsInv, WaitingDispatchedInv, CreationFailsInv DEF Creation
<1>4. CASE App
  BY <1>4, ExitInv, WakeUpInv, RemotePingInv, RequestRedrawInv, PrePresentNotifyInv,
     PushWindowEventInv, ChangeFrameInv, DropWindowInv, RemoteRequestInv, RemoteDropInv,
     CreateInv
     DEF App
<1>5. CASE UNCHANGED vars
  BY <1>5, StutterInv
<1> QED BY <1>1, <1>2, <1>3, <1>4, <1>5, CompositorInv DEF Next, Loop

\* The invariant of the event loop.
LEMMA Invariance == Spec => []Inv
<1>1. Init => Inv
  BY InitInv
<1>2. Inv /\ [Next]_vars => Inv'
  BY NextInv
<1> QED BY <1>1, <1>2, PTL DEF Spec

----
(* What a step tells the application *)

\* A callback begins, in the phase in which it may, ...
Begun ==
  /\ inside = "none"
  /\ \/ phase = "Off" /\ phase' = "Init" /\ inside' = "new_events_init"
     \/ phase = "Init" /\ phase' = "Awake" /\ inside' = "can_create_surfaces"
     \/ phase = "Asleep" /\ phase' = "Awake" /\ inside' = "new_events"
     \/ phase = "Awake" /\ phase' = "Awake" /\ inside' = "event"
     \/ phase = "Awake" /\ phase' = "Asleep" /\ inside' = "about_to_wait"

\* ... or one returns, or the loop ends, or the step is none of its concern.
Tells ==
  \/ Begun
  \/ inside # "none" /\ inside' = "none" /\ phase' = phase
  \/ inside = "none" /\ phase = "Asleep" /\ phase' = "Off" /\ inside' = inside
  \/ UNCHANGED <<inside, phase>>

\* The iteration tells what its place says.
LEMMA IterationTells ==
  ASSUME Inv, Iteration
  PROVE  Tells
<1>1. CASE NewEvents
  BY <1>1 DEF NewEvents, At, Call, Inv, Told, Flags, Tells, Begun
<1>2. CASE CanCreateSurfaces
  BY <1>2 DEF CanCreateSurfaces, At, Call, Inv, Told, Tells, Begun
<1>3. CASE ProxyWakeUp \/ SinkEvent
  BY <1>3 DEF ProxyWakeUp, SinkEvent, At, Call, Inv, Told, Tells, Begun
<1>4. CASE UpdateWindow
  <2>1. step = "updates" /\ inside = "none" /\ phase = "Awake" /\ phase' = "Awake"
        /\ inside' \in {"none", "event"}
    BY <1>4, UpdateHandedOut DEF Inv, Told
  <2> QED BY <2>1 DEF Tells, Begun
<1>5. CASE TakeUpdates \/ TakeSynthetic \/ TakeSink \/ CollectWindows
  BY <1>5 DEF TakeUpdates, TakeSynthetic, TakeSink, CollectWindows, Tells
<1>6. CASE AboutToWait
  BY <1>6 DEF AboutToWait, At, Call, Inv, Told, Tells, Begun
<1>7. CASE RefreshFrames
  BY <1>7 DEF RefreshFrames, At, Finish, Inv, Told, Tells
<1>8. ASSUME NEW w \in Windows, SkipWindow(w) \/ FindWindowsToClose(w)
      PROVE  Tells
  BY <1>8 DEF SkipWindow, FindWindowsToClose, loop_vars, Tells
<1>9. ASSUME NEW w \in Windows, CloseWindow(w) \/ RedrawWindow(w)
      PROVE  Tells
  <2>1. step = "windows" /\ inside = "none" /\ phase = "Awake"
    BY <1>9 DEF CloseWindow, RedrawWindow, Visit, At, Inv, Told
  <2>2. inside' \in {"none", "event"} /\ phase' = "Awake"
    BY <1>9, <2>1 DEF CloseWindow, RedrawWindow, Call, NoCall
  <2> QED BY <2>1, <2>2 DEF Tells, Begun
<1> QED BY <1>1, <1>2, <1>3, <1>4, <1>5, <1>6, <1>7, <1>8, <1>9 DEF Iteration

\* Every step.
LEMMA NextTells ==
  ASSUME Inv, [Next]_vars
  PROVE  Tells
<1>1. CASE UNCHANGED vars
  BY <1>1 DEF vars, loop_vars, Tells
<1>2. CASE StartPump \/ PollReturns \/ ClearExit
  BY <1>2 DEF StartPump, PollReturns, ClearExit, Tells
<1>3. CASE Return
  BY <1>3 DEF Return, Tells
<1>4. CASE PollFails
  BY <1>4 DEF PollFails, At, Finish, Inv, Told, Tells
<1>5. CASE Creation \/ CreationFails
  BY <1>5 DEF Creation, RoundtripEnds, WaitingDispatched, CreationFails, loop_vars, Tells
<1>6. CASE App
  <2>1. CASE Exit \/ WakeUp \/ RemotePing
    BY <2>1 DEF Exit, WakeUp, RemotePing, loop_vars, Tells
  <2>2. ASSUME NEW w \in Windows,
               RequestRedraw(w) \/ PrePresentNotify(w) \/ PushWindowEvent(w) \/ ChangeFrame(w)
        PROVE  Tells
    BY <2>2 DEF RequestRedraw, PrePresentNotify, PushWindowEvent, ChangeFrame, loop_vars, Tells
  <2>3. ASSUME NEW w \in Windows,
               DropWindow(w) \/ RemoteRequest(w) \/ RemoteDrop(w) \/ Create(w)
        PROVE  Tells
    BY <2>3 DEF DropWindow, RemoteRequest, RemoteDrop, Create, loop_vars, Tells
  <2> QED BY <1>6, <2>1, <2>2, <2>3 DEF App
<1>7. CASE Compositor
  <2>1. CASE FirstConfigure
    BY <2>1 DEF FirstConfigure, Configured, loop_vars, Tells
  <2>2. ASSUME NEW w \in Windows, Configure(w)
        PROVE  Tells
    BY <2>2 DEF Configure, Configured, loop_vars, Tells
  <2>3. ASSUME NEW w \in Windows, Done(w) \/ FrameDone(w) \/ Input(w) \/ Hover(w)
        PROVE  Tells
    BY <2>3 DEF Done, FrameDone, Input, Hover, loop_vars, Tells
  <2>4. ASSUME NEW w \in Windows, NEW kind \in {"scale", "close"}, Announce(w, kind)
        PROVE  Tells
    BY <2>4 DEF Announce, loop_vars, Tells
  <2> QED BY <1>7, <2>1, <2>2, <2>3, <2>4 DEF Compositor
<1> QED BY <1>1, <1>2, <1>3, <1>4, <1>5, <1>6, <1>7, IterationTells DEF Next, Loop

\* What is told is a step of AppLifecycle, or none.
LEMMA TellsRefines ==
  ASSUME Tells
  PROVE  [App_!AppNext]_<<phase, inside>>
<1>1. CASE Begun
  <2>1. CASE phase = "Off" /\ phase' = "Init" /\ inside' = "new_events_init"
    BY <1>1, <2>1 DEF Begun, App_!AppNext, App_!Begin, App_!Invoke
  <2>2. CASE phase = "Init" /\ phase' = "Awake" /\ inside' = "can_create_surfaces"
    BY <1>1, <2>2 DEF Begun, App_!AppNext, App_!CreateSurfaces, App_!Invoke
  <2>3. CASE phase = "Asleep" /\ phase' = "Awake" /\ inside' = "new_events"
    BY <1>1, <2>3 DEF Begun, App_!AppNext, App_!Wake, App_!Invoke
  <2>4. CASE phase = "Awake" /\ phase' = "Awake" /\ inside' = "event"
    BY <1>1, <2>4 DEF Begun, App_!AppNext, App_!Deliver, App_!Invoke
  <2>5. CASE phase = "Awake" /\ phase' = "Asleep" /\ inside' = "about_to_wait"
    BY <1>1, <2>5 DEF Begun, App_!AppNext, App_!Sleep, App_!Invoke
  <2> QED BY <1>1, <2>1, <2>2, <2>3, <2>4, <2>5 DEF Begun
<1>2. CASE inside # "none" /\ inside' = "none" /\ phase' = phase
  BY <1>2 DEF App_!AppNext, App_!Return
<1>3. CASE inside = "none" /\ phase = "Asleep" /\ phase' = "Off" /\ inside' = inside
  BY <1>3 DEF App_!AppNext, App_!Stop
<1>4. CASE UNCHANGED <<inside, phase>>
  BY <1>4
<1> QED BY <1>1, <1>2, <1>3, <1>4 DEF Tells

----
(* Theorems *)

\* The variables keep their types.
THEOREM TypeCorrectness == Spec => []TypeOK
BY Invariance, Parts, PTL

\* What is queued for a window, and what is listed to be closed, is there when its
\* turn comes, and a window waits for exactly one frame callback: whichever windows
\* are created, dropped, dismissed and closed meanwhile, by either thread.
THEOREM IsSound == Spec => []Sound
<1>1. Inv => Sound
  BY DEF Inv, Told, Present, Framed, Sound, NoPanic, OneFrameCallback
<1> QED BY <1>1, Invariance, PTL

\* Every step of the loop, of the application and of the compositor is one of
\* AppLifecycle, or none, with windows created inside callbacks, runs that end by
\* exit or by a broken connection, and pumps.
THEOREM ImplementsLifecycle == Spec => Lifecycle
<1>1. Init => App_!AppInit
  BY DEF Init, App_!AppInit
<1>2. Inv /\ [Next]_vars => [App_!AppNext]_(App_!app_vars)
  BY NextTells, TellsRefines DEF App_!app_vars
<1> QED BY <1>1, <1>2, Invariance, PTL DEF Spec, Lifecycle, App_!AppSpec
====
