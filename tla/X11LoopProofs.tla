---- MODULE X11LoopProofs ----
(*
What is proved of X11Loop, for any finite set of windows, any number of
fingers and all environments of ServerOps, AppOps and RemoteOps.

The server is ahead of the event processor by what is in the queue and
on the wire. Inv relates, beside the types,
  - Told: the phase of the application to where pump_app_events is;
  - Registered: all that refers to windows to those that ever were;
  - Followed: the window the processor believes active, and those the
    application believes focused, to the window the server gives the
    keyboard to, through the focus events still to be seen;
  - Fingered: what the application knows of each finger to what the
    user does with it, through the touches still to be seen;
  - Series: the count of touches to the fingers known to be down.
*)
EXTENDS X11Loop, FiniteSetTheorems, SequenceTheorems, TLAPS

\* What the application was last told, by where pump_app_events is.
Told ==
  /\ step = "out" => /\ inside = "none" /\ first = FALSE
                     /\ running = TRUE => phase = "Asleep"
                     /\ running = FALSE => phase = "Off"
  /\ step \in {"poll", "wait"} => inside = "none" /\ phase = "Asleep" /\ first = FALSE
  /\ step = "new_events" => /\ inside = "none"
                            /\ first = TRUE => phase = "Off"
                            /\ first = FALSE => phase = "Asleep"
  /\ step = "can_create" => phase = "Init"
  /\ step \in {"drain", "tokens", "proxy", "redraws"} => phase = "Awake"
  /\ step = "end" => phase = "Asleep"
  /\ step # "out" => running = TRUE

\* The windows that ever were, and that nothing is about another one.
Ever == windows \cup gone
Registered ==
  /\ windows \subseteq Windows /\ gone \subseteq Windows
  /\ held \subseteq Ever /\ exists \subseteq Ever
  /\ unsent \subseteq Ever /\ doomed \subseteq Ever /\ focused \subseteq Ever
  /\ active_window \in Ever \cup {None} /\ xfocus \in Ever \cup {None}

\* What the server has said and the event processor has not seen.
Stream == queue \o wire
ToAll == {"key", "mods", "dpi"}
ByTouch == {"touch_begin", "touch_end"}
Said(e) == /\ e \in XEvents
           /\ e.kind \notin ToAll => e.w \in Ever
           /\ e.kind \in ByTouch => e.f \in Fingers
Streamed ==
  /\ queue \in Seq(XEvents) /\ wire \in Seq(XEvents)
  /\ \A i \in DOMAIN Stream : Said(Stream[i])

\* What a focus event says of the window that had the keyboard and that has it.
Moves(e, p, q) ==
  /\ e.kind = "focus_in" => p = None /\ q = e.w
  /\ e.kind = "focus_out" => p = e.w /\ q = None
  /\ e.kind \notin {"focus_in", "focus_out"} => q = p

\* at[i]: the window in V that had the keyboard when i of these events were said; x
\* has it now.
Trace(at, s, x, V) ==
  /\ at \in [0 .. Len(s) -> V] /\ at[Len(s)] = x
  /\ \A i \in 1 .. Len(s) : Moves(s[i], at[i - 1], at[i])
Agrees(p) ==
  \A w \in held \cap windows :
    (w \in focused <=> w = p) /\ (w = active_window <=> w = p)
Followed ==
  \E at \in [0 .. Len(Stream) -> Ever \cup {None}] :
    Trace(at, Stream, xfocus, Ever \cup {None}) /\ Agrees(at[0])

\* What is still to be said of each finger, by what it does (t), what is known of it
\* (h) and the windows there are (L): a touch begins and ends once, unknown before;
\* one that is down, or is to end, on one of the windows is known or will be.
Begins(s, f, w) == \E i \in DOMAIN s : s[i].kind = "touch_begin" /\ s[i].f = f /\ s[i].w = w
Opens(e, t, h) == e.kind = "touch_begin" => t[e.f] # None /\ h[e.f] = None
Closes(s, i, t, h, L) ==
  s[i].kind = "touch_end" =>
    /\ t[s[i].f] = "up"
    /\ s[i].w \in L =>
         \/ h[s[i].f] = s[i].w
         \/ \E j \in 1 .. i - 1 :
              s[j].kind = "touch_begin" /\ s[j].f = s[i].f /\ s[j].w = s[i].w
Once(s) ==
  \A i, j \in DOMAIN s :
    s[i].kind \in ByTouch /\ s[i].kind = s[j].kind /\ s[i].f = s[j].f => i = j
Due(s, t, h, L) ==
  /\ \A i \in DOMAIN s : Opens(s[i], t, h) /\ Closes(s, i, t, h, L)
  /\ Once(s)
  /\ \A f \in Fingers : t[f] \in L => h[f] = t[f] \/ Begins(s, f, t[f])
Fingered ==
  /\ touching \in [Fingers -> Ever \cup {None, "up"}]
  /\ heard \in [Fingers -> Windows \cup {None}]
  /\ \A f \in Fingers : touching[f] = None => heard[f] = None
  /\ Due(Stream, touching, heard, windows \cap held)

\* At least as many touches are counted as fingers are known to be down.
Series ==
  /\ num_touch \in Nat /\ Cardinality(Known) <= num_touch
  /\ primary \subseteq alone /\ alone \subseteq Fingers
  /\ first_touch \in Fingers \cup {None}

\* The other parts of TypeOK.
Flags ==
  /\ blocking \in BOOLEAN /\ running \in BOOLEAN /\ first \in BOOLEAN /\ exit \in BOOLEAN
  /\ borrowed \in BOOLEAN /\ listening \in BOOLEAN /\ panicked \in BOOLEAN
  /\ proxy_wake_up \in BOOLEAN /\ ping \in BOOLEAN /\ proxy_ping \in BOOLEAN
  /\ remote \in BOOLEAN
Places ==
  /\ step \in Steps /\ phase \in {"Off", "Init", "Awake", "Asleep"}
  /\ inside \in {"none", "new_events_init", "new_events", "can_create_surfaces",
                 "event", "about_to_wait"}
  /\ target \in Windows \cup {None}
Stores ==
  /\ todo \in Seq(Windows) /\ tokens \in Seq(Windows)
  /\ work \subseteq Windows /\ redraws \subseteq Windows
Counted == env \in Environments /\ ops \in 0 .. env.max

\* The loop, ...
Turn == Flags /\ Places /\ Stores /\ Counted /\ Told
\* ... and what it knows of the world.
World == Registered /\ Streamed /\ Followed /\ Fingered /\ Series

Inv == Turn /\ World

----
(* Sequences *)

\* What is left of a sequence whose first element is taken.
LEMMA TailOf ==
  ASSUME NEW T, NEW s \in Seq(T), s # <<>>
  PROVE  /\ Tail(s) \in Seq(T) /\ Head(s) \in T /\ Head(s) = s[1] /\ 1 \in DOMAIN s
         /\ Len(s) \in Nat /\ Len(s) # 0 /\ Len(Tail(s)) = Len(s) - 1
         /\ DOMAIN s = 1 .. Len(s) /\ DOMAIN Tail(s) = 1 .. Len(s) - 1
         /\ \A i \in 1 .. Len(s) - 1 : Tail(s)[i] = s[i + 1]
<1>1. Len(s) \in Nat /\ Len(s) # 0 /\ DOMAIN s = 1 .. Len(s)
  OBVIOUS
<1>2. Tail(s) \in Seq(T) /\ Len(Tail(s)) = Len(s) - 1 /\ DOMAIN Tail(s) = 1 .. Len(s) - 1
  BY <1>1
<1>3. \A i \in 1 .. Len(s) - 1 : Tail(s)[i] = s[i + 1]
  BY <1>1
<1> QED BY <1>1, <1>2, <1>3

\* A sequence with one more element.
LEMMA Appended ==
  ASSUME NEW T, NEW s \in Seq(T), NEW e \in T
  PROVE  /\ Append(s, e) \in Seq(T) /\ Len(s) \in Nat /\ DOMAIN s = 1 .. Len(s)
         /\ Len(Append(s, e)) = Len(s) + 1 /\ DOMAIN Append(s, e) = 1 .. Len(s) + 1
         /\ Append(s, e)[Len(s) + 1] = e
         /\ \A i \in 1 .. Len(s) : Append(s, e)[i] = s[i]
<1>1. Len(s) \in Nat /\ DOMAIN s = 1 .. Len(s)
  OBVIOUS
<1>2. Append(s, e) \in Seq(T) /\ Len(Append(s, e)) = Len(s) + 1
  BY <1>1
<1>3. DOMAIN Append(s, e) = 1 .. Len(s) + 1
  BY <1>2
<1>4. \A i \in 1 .. Len(s) : Append(s, e)[i] = s[i]
  BY <1>1
<1>5. Append(s, e)[Len(s) + 1] = e
  BY <1>1
<1> QED BY <1>1, <1>2, <1>3, <1>4, <1>5

\* A sequence of up to three times the same.
LEMMA Repeated ==
  ASSUME NEW w \in Windows
  PROVE  <<>> \in Seq(Windows) /\ <<w>> \in Seq(Windows) /\ <<w, w>> \in Seq(Windows)
         /\ <<w, w, w>> \in Seq(Windows)
OBVIOUS

----
(* The stream of events *)

\* The stream is a sequence.
LEMMA StreamIs ==
  ASSUME Streamed
  PROVE  /\ Stream \in Seq(XEvents) /\ Len(Stream) \in Nat /\ DOMAIN Stream = 1 .. Len(Stream)
         /\ queue \in Seq(XEvents) /\ wire \in Seq(XEvents)
BY DEF Streamed, Stream

\* Reading moves it from the wire to the queue.
LEMMA StreamRead ==
  ASSUME Streamed, ReadAll
  PROVE  Stream' = Stream /\ queue' \in Seq(XEvents) /\ wire' \in Seq(XEvents)
<1>1. queue' = Stream /\ wire' = <<>> /\ Stream \in Seq(XEvents)
  BY StreamIs DEF ReadAll, Stream
<1>2. Stream' = Stream \o <<>> /\ Stream \o <<>> = Stream
  BY <1>1, ConcatEmptySeq DEF Stream
<1> QED BY <1>1, <1>2

\* A handler takes its first event.
LEMMA StreamTaken ==
  ASSUME Streamed, NEW kinds, Take(kinds), wire' = wire
  PROVE  /\ Stream # <<>> /\ Stream' = Tail(Stream) /\ Ev = Stream[1] /\ Ev.kind \in kinds
         /\ queue' \in Seq(XEvents) /\ Stream \in Seq(XEvents) /\ Said(Stream[1])
<1>1. queue \in Seq(XEvents) /\ wire \in Seq(XEvents) /\ queue # <<>> /\ queue' = Tail(queue)
  BY DEF Take, Streamed
<1>2. /\ Tail(queue) \in Seq(XEvents) /\ Head(queue) = queue[1] /\ Len(queue) \in Nat
      /\ Len(queue) # 0 /\ Len(Tail(queue)) = Len(queue) - 1
      /\ \A i \in 1 .. Len(queue) - 1 : Tail(queue)[i] = queue[i + 1]
  BY <1>1, TailOf
<1>3. /\ Stream \in Seq(XEvents) /\ Len(Stream) = Len(queue) + Len(wire)
      /\ \A i \in 1 .. Len(queue) + Len(wire) :
           Stream[i] = IF i <= Len(queue) THEN queue[i] ELSE wire[i - Len(queue)]
      /\ Len(wire) \in Nat
  BY <1>1, ConcatProperties DEF Stream
<1>4. Stream # <<>> /\ Stream[1] = Head(queue)
  BY <1>2, <1>3
<1>5. /\ Tail(Stream) \in Seq(XEvents) /\ Len(Tail(Stream)) = Len(Stream) - 1
      /\ \A i \in 1 .. Len(Stream) - 1 : Tail(Stream)[i] = Stream[i + 1]
      /\ 1 \in DOMAIN Stream
  BY <1>3, <1>4, TailOf
<1>6. Stream' = Tail(queue) \o wire
  BY <1>1 DEF Stream
<1>7. /\ Stream' \in Seq(XEvents) /\ Len(Stream') = Len(queue) - 1 + Len(wire)
      /\ \A i \in 1 .. Len(queue) - 1 + Len(wire) :
           Stream'[i] = IF i <= Len(queue) - 1 THEN Tail(queue)[i]
                        ELSE wire[i - (Len(queue) - 1)]
  BY <1>1, <1>2, <1>6, ConcatProperties
<1>8. ASSUME NEW i \in 1 .. Len(Stream')
      PROVE  Stream'[i] = Tail(Stream)[i]
  <2>1. /\ i \in Int /\ i >= 1 /\ i <= Len(queue) - 1 + Len(wire)
        /\ i \in 1 .. Len(Stream) - 1 /\ i + 1 \in 1 .. Len(queue) + Len(wire)
    BY <1>2, <1>3, <1>7
  <2>2. Tail(Stream)[i] = IF i + 1 <= Len(queue) THEN queue[i + 1] ELSE wire[i + 1 - Len(queue)]
    BY <1>3, <1>5, <2>1
  <2>3. CASE i <= Len(queue) - 1
    <3>1. Stream'[i] = queue[i + 1]
      BY <1>2, <1>7, <2>1, <2>3
    <3>2. i + 1 <= Len(queue)
      BY <1>2, <2>1, <2>3
    <3> QED BY <2>2, <3>1, <3>2
  <2>4. CASE ~(i <= Len(queue) - 1)
    <3>1. Stream'[i] = wire[i - (Len(queue) - 1)]
      BY <1>7, <2>1, <2>4
    <3>2. ~(i + 1 <= Len(queue)) /\ i - (Len(queue) - 1) = i + 1 - Len(queue)
      BY <1>2, <2>1, <2>4
    <3> QED BY <2>2, <3>1, <3>2
  <2> QED BY <2>3, <2>4
<1>9. Len(Stream') = Len(Tail(Stream))
  BY <1>2, <1>3, <1>5, <1>7
<1>10. Stream' = Tail(Stream)
  BY <1>5, <1>7, <1>8, <1>9, SeqEqual
<1> QED BY <1>1, <1>2, <1>3, <1>4, <1>5, <1>10 DEF Take, Ev, Streamed

\* What is said comes last.
LEMMA StreamSaid ==
  ASSUME Streamed, queue' = queue, NEW ev \in Seq(XEvents), Says(ev)
  PROVE  Stream' = Stream \o ev /\ wire' \in Seq(XEvents)
<1>1. wire' = wire \o ev
  BY DEF Says
<1>2. queue \in Seq(XEvents) /\ wire \in Seq(XEvents)
  BY DEF Streamed
<1>3. (queue \o wire) \o ev = queue \o (wire \o ev)
  BY <1>2, ConcatAssociative
<1>4. wire \o ev \in Seq(XEvents)
  BY <1>2, ConcatProperties
<1>5. Stream' = queue \o (wire \o ev)
  BY <1>1 DEF Stream
<1> QED BY <1>1, <1>3, <1>4, <1>5 DEF Stream

\* An event, ...
LEMMA OneSaid ==
  ASSUME NEW s \in Seq(XEvents), NEW e \in XEvents
  PROVE  s \o <<e>> = Append(s, e)
OBVIOUS

\* ... or two, ...
LEMMA BothSaid ==
  ASSUME NEW d \in XEvents, NEW e \in XEvents
  PROVE  <<d>> \o <<e>> = <<d, e>> /\ <<d>> \in Seq(XEvents) /\ <<e>> \in Seq(XEvents)
<1>1. <<d>> \in Seq(XEvents) /\ <<e>> \in Seq(XEvents)
  OBVIOUS
<1>2. <<d>> \o <<e>> = Append(<<d>>, e)
  BY <1>1, OneSaid
<1>3. Append(<<d>>, e) = <<d, e>>
  <2> DEFINE r == Append(<<d>>, e)
             t == <<d, e>>
  <2>1. Len(<<d>>) = 1 /\ <<d>>[1] = d
    OBVIOUS
  <2>2. r \in Seq(XEvents) /\ Len(r) = 2 /\ r[1] = d /\ r[2] = e
    BY <1>1, <2>1, Appended
  <2>3. t \in Seq(XEvents) /\ Len(t) = 2 /\ t[1] = d /\ t[2] = e
    OBVIOUS
  <2> HIDE DEF r, t
  <2>4. \A i \in 1 .. Len(r) : r[i] = t[i]
    BY <2>2, <2>3
  <2>5. r = t
    BY <2>2, <2>3, <2>4, SeqEqual
  <2> QED BY <2>5 DEF r, t
<1> QED BY <1>1, <1>2, <1>3

\* A sequence is continued by two events one by one.
LEMMA TwoSaid ==
  ASSUME NEW s \in Seq(XEvents), NEW d \in XEvents, NEW e \in XEvents
  PROVE  s \o <<d, e>> = Append(Append(s, d), e)
<1>1. <<d>> \o <<e>> = <<d, e>> /\ <<d>> \in Seq(XEvents) /\ <<e>> \in Seq(XEvents)
  BY BothSaid
<1>2. s \o (<<d>> \o <<e>>) = (s \o <<d>>) \o <<e>>
  BY <1>1, ConcatAssociative
<1>3. s \o <<d>> = Append(s, d) /\ Append(s, d) \in Seq(XEvents)
  BY OneSaid, Appended
<1>4. Append(s, d) \o <<e>> = Append(Append(s, d), e)
  BY <1>3, OneSaid
<1> QED BY <1>1, <1>2, <1>3, <1>4

----
(* The windows that had the keyboard *)

\* One more event moves it or does not.
LEMMA TraceExtended ==
  ASSUME NEW T, NEW s \in Seq(T), NEW e \in T, NEW V, NEW at, NEW x, NEW y \in V,
         Trace(at, s, x, V), Moves(e, x, y)
  PROVE  \E b \in [0 .. Len(Append(s, e)) -> V] :
           Trace(b, Append(s, e), y, V) /\ b[0] = at[0]
<1> DEFINE n == Len(s)
           r == Append(s, e)
           b == [i \in 0 .. n + 1 |-> IF i = n + 1 THEN y ELSE at[i]]
<1>1. /\ n \in Nat /\ Len(r) = n + 1 /\ r[n + 1] = e
      /\ \A i \in 1 .. n : r[i] = s[i]
  BY Appended
<1>2. /\ at \in [0 .. n -> V] /\ at[n] = x
      /\ \A i \in 1 .. n : Moves(s[i], at[i - 1], at[i])
  BY DEF Trace
<1> HIDE DEF n, r
<1>3. b \in [0 .. n + 1 -> V]
  BY <1>1, <1>2
<1>4. \A i \in 0 .. n : b[i] = at[i]
  BY <1>1
<1>5. b[n + 1] = y /\ b[0] = at[0]
  BY <1>1
<1> HIDE DEF b
<1>6. ASSUME NEW i \in 1 .. n + 1
      PROVE  Moves(r[i], b[i - 1], b[i])
  <2>1. CASE i = n + 1
    <3>1. b[i - 1] = x /\ b[i] = y /\ r[i] = e
      BY <1>1, <1>2, <1>4, <1>5, <2>1
    <3> QED BY <3>1
  <2>2. CASE i # n + 1
    <3>1. i \in 1 .. n /\ i - 1 \in 0 .. n /\ i \in 0 .. n
      BY <1>1, <2>2
    <3>2. r[i] = s[i] /\ b[i - 1] = at[i - 1] /\ b[i] = at[i]
      BY <1>1, <1>4, <3>1
    <3> QED BY <1>2, <3>1, <3>2
  <2> QED BY <2>1, <2>2
<1>7. Trace(b, r, y, V)
  BY <1>1, <1>3, <1>5, <1>6 DEF Trace
<1> QED BY <1>1, <1>3, <1>5, <1>7 DEF r

\* The first event moved it or did not.
LEMMA TraceShortened ==
  ASSUME NEW T, NEW s \in Seq(T), s # <<>>, NEW V, NEW at, NEW x, Trace(at, s, x, V)
  PROVE  /\ Moves(s[1], at[0], at[1]) /\ at[0] \in V /\ at[1] \in V
         /\ \E b \in [0 .. Len(Tail(s)) -> V] : Trace(b, Tail(s), x, V) /\ b[0] = at[1]
<1> DEFINE n == Len(s)
           r == Tail(s)
           b == [i \in 0 .. n - 1 |-> at[i + 1]]
<1>1. /\ n \in Nat /\ n # 0 /\ Len(r) = n - 1
      /\ \A i \in 1 .. n - 1 : r[i] = s[i + 1]
  BY TailOf
<1>2. /\ at \in [0 .. n -> V] /\ at[n] = x
      /\ \A i \in 1 .. n : Moves(s[i], at[i - 1], at[i])
  BY DEF Trace
<1> HIDE DEF n, r
<1>3. Moves(s[1], at[0], at[1]) /\ at[0] \in V /\ at[1] \in V
  <2>1. 1 \in 1 .. n /\ 0 \in 0 .. n /\ 1 \in 0 .. n /\ 1 - 1 = 0
    BY <1>1
  <2> QED BY <1>2, <2>1
<1>4. b \in [0 .. n - 1 -> V]
  BY <1>1, <1>2
<1>5. b[n - 1] = x /\ b[0] = at[1]
  <2>1. n - 1 \in 0 .. n - 1 /\ 0 \in 0 .. n - 1 /\ n - 1 + 1 = n /\ 0 + 1 = 1
    BY <1>1
  <2>2. b[n - 1] = at[n - 1 + 1] /\ b[0] = at[0 + 1]
    BY <2>1
  <2> QED BY <1>2, <2>1, <2>2
<1>6. ASSUME NEW i \in 1 .. n - 1
      PROVE  Moves(r[i], b[i - 1], b[i])
  <2>1. i + 1 \in 1 .. n /\ i - 1 \in 0 .. n - 1 /\ i \in 0 .. n - 1 /\ i - 1 + 1 = i
        /\ (i + 1) - 1 = i
    BY <1>1
  <2>2. Moves(s[i + 1], at[i], at[i + 1])
    BY <1>2, <2>1
  <2>3. b[i - 1] = at[i] /\ b[i] = at[i + 1] /\ r[i] = s[i + 1]
    BY <1>1, <2>1
  <2> QED BY <2>2, <2>3
<1> HIDE DEF b
<1>7. Trace(b, r, x, V)
  BY <1>1, <1>4, <1>5, <1>6 DEF Trace
<1> QED BY <1>1, <1>3, <1>4, <1>5, <1>7 DEF r

\* More windows are no different.
LEMMA TraceWider ==
  ASSUME NEW s, NEW V, NEW U, V \subseteq U, NEW at, NEW x, Trace(at, s, x, V)
  PROVE  Trace(at, s, x, U) /\ at \in [0 .. Len(s) -> U]
BY DEF Trace

----
(* The touches that are due *)

OfFingers(s) == \A i \in DOMAIN s : s[i].kind \in ByTouch => s[i].f \in Fingers

\* A window less, or touches that end unheard.
LEMMA DueLess ==
  ASSUME NEW s, OfFingers(s), NEW t, NEW u, NEW h, NEW L, NEW M \in SUBSET L, Due(s, t, h, L),
         \A f \in Fingers : /\ t[f] # None => u[f] # None
                            /\ t[f] = "up" => u[f] = "up"
                            /\ u[f] \in M => u[f] = t[f]
  PROVE  Due(s, u, h, M)
<1>1. Once(s)
  BY DEF Due
<1>2. \A i \in DOMAIN s : Opens(s[i], u, h)
  BY DEF Due, Opens, OfFingers, ByTouch
<1>3. \A i \in DOMAIN s : Closes(s, i, u, h, M)
  BY DEF Due, Closes, OfFingers, ByTouch
<1>4. \A f \in Fingers : u[f] \in M => h[f] = u[f] \/ Begins(s, f, u[f])
  BY DEF Due
<1> QED BY <1>1, <1>2, <1>3, <1>4 DEF Due

\* The first event is taken. If it begins a touch on a window that is left, the
\* finger is known from now on; nobody forgets another one unless its window goes.
LEMMA DueTaken ==
  ASSUME NEW T, NEW s \in Seq(T), s # <<>>, OfFingers(s),
         NEW t, NEW h, NEW k, NEW L, NEW M \in SUBSET L, None \notin L, "up" \notin L,
         Due(s, t, h, L),
         \A f \in Fingers : /\ h[f] = None /\ ~(s[1].kind = "touch_begin" /\ s[1].f = f)
                                 => k[f] = None
                            /\ h[f] \in M /\ ~(s[1].kind = "touch_end" /\ s[1].f = f)
                                 => k[f] = h[f],
         s[1].kind = "touch_begin" /\ s[1].w \in M => k[s[1].f] = s[1].w
  PROVE  Due(Tail(s), t, k, M)
<1> DEFINE n == Len(s)
           r == Tail(s)
<1>1. /\ n \in Nat /\ n # 0 /\ DOMAIN s = 1 .. n /\ DOMAIN r = 1 .. n - 1
      /\ \A i \in 1 .. n - 1 : r[i] = s[i + 1]
  BY TailOf
<1> HIDE DEF n, r
<1>2. /\ \A i \in 1 .. n : Opens(s[i], t, h) /\ Closes(s, i, t, h, L)
      /\ \A i, j \in 1 .. n :
           s[i].kind \in ByTouch /\ s[i].kind = s[j].kind /\ s[i].f = s[j].f => i = j
      /\ \A f \in Fingers : t[f] \in L => h[f] = t[f] \/ Begins(s, f, t[f])
  BY <1>1 DEF Due, Once
<1>3. \A i \in 1 .. n : s[i].kind \in ByTouch => s[i].f \in Fingers
  BY <1>1 DEF OfFingers
<1>4. ASSUME NEW i \in 1 .. n - 1
      PROVE  i + 1 \in 1 .. n /\ i + 1 # 1 /\ r[i] = s[i + 1]
  BY <1>1
<1>5. 1 \in 1 .. n
  BY <1>1
<1>6. Once(r)
  <2>1. ASSUME NEW i \in 1 .. n - 1, NEW j \in 1 .. n - 1,
               r[i].kind \in ByTouch, r[i].kind = r[j].kind, r[i].f = r[j].f
        PROVE  i = j
    <3>1. i + 1 = j + 1
      BY <1>2, <1>4, <2>1
    <3> QED BY <3>1
  <2> QED BY <1>1, <2>1 DEF Once
<1>7. ASSUME NEW i \in 1 .. n - 1
      PROVE  Opens(r[i], t, k)
  <2> SUFFICES ASSUME s[i + 1].kind = "touch_begin"
               PROVE  t[s[i + 1].f] # None /\ k[s[i + 1].f] = None
    BY <1>4 DEF Opens
  <2>1. s[i + 1].f \in Fingers /\ t[s[i + 1].f] # None /\ h[s[i + 1].f] = None
    BY <1>2, <1>3, <1>4 DEF Opens, ByTouch
  <2>2. ~(s[1].kind = "touch_begin" /\ s[1].f = s[i + 1].f)
    BY <1>2, <1>4, <1>5 DEF ByTouch
  <2> QED BY <2>1, <2>2
<1>8. ASSUME NEW i \in 1 .. n - 1
      PROVE  Closes(r, i, t, k, M)
  <2> DEFINE e == s[i + 1]
  <2> SUFFICES ASSUME e.kind = "touch_end"
               PROVE  /\ t[e.f] = "up"
                      /\ e.w \in M =>
                           \/ k[e.f] = e.w
                           \/ \E j \in 1 .. i - 1 :
                                r[j].kind = "touch_begin" /\ r[j].f = e.f /\ r[j].w = e.w
    BY <1>4 DEF Closes
  <2>1. e.f \in Fingers /\ Closes(s, i + 1, t, h, L)
    BY <1>2, <1>3, <1>4 DEF ByTouch
  <2>2. t[e.f] = "up"
    BY <2>1 DEF Closes
  <2>3. ASSUME e.w \in M
        PROVE  \/ k[e.f] = e.w
               \/ \E j \in 1 .. i - 1 :
                    r[j].kind = "touch_begin" /\ r[j].f = e.f /\ r[j].w = e.w
    <3>1. e.w \in L
      BY <2>3
    <3>2. \/ h[e.f] = e.w
          \/ \E j \in 1 .. (i + 1) - 1 :
               s[j].kind = "touch_begin" /\ s[j].f = e.f /\ s[j].w = e.w
      BY <2>1, <3>1 DEF Closes
    <3>3. CASE h[e.f] = e.w
      <4>1. ~(s[1].kind = "touch_end" /\ s[1].f = e.f)
        BY <1>2, <1>4, <1>5 DEF ByTouch
      <4> QED BY <2>1, <2>3, <3>3, <4>1
    <3>4. CASE \E j \in 1 .. (i + 1) - 1 :
                 s[j].kind = "touch_begin" /\ s[j].f = e.f /\ s[j].w = e.w
      <4>1. PICK j \in 1 .. (i + 1) - 1 :
                   s[j].kind = "touch_begin" /\ s[j].f = e.f /\ s[j].w = e.w
        BY <3>4
      <4>2. CASE j = 1
        BY <2>3, <4>1, <4>2
      <4>3. CASE j # 1
        <5>1. j - 1 \in 1 .. i - 1 /\ j - 1 \in 1 .. n - 1 /\ (j - 1) + 1 = j
          BY <1>1, <4>1, <4>3
        <5>2. r[j - 1] = s[j]
          BY <1>4, <5>1
        <5> QED BY <4>1, <5>1, <5>2
      <4> QED BY <4>2, <4>3
    <3> QED BY <3>2, <3>3, <3>4
  <2> QED BY <2>2, <2>3
<1>9. ASSUME NEW f \in Fingers, t[f] \in M
      PROVE  k[f] = t[f] \/ Begins(r, f, t[f])
  <2>1. t[f] \in L /\ t[f] # "up"
    BY <1>9
  <2>2. CASE h[f] = t[f]
    <3>1. ~(s[1].kind = "touch_end" /\ s[1].f = f)
      BY <1>2, <1>5, <2>1 DEF Closes
    <3> QED BY <1>9, <2>2, <3>1
  <2>3. CASE Begins(s, f, t[f])
    <3>1. PICK i \in 1 .. n : s[i].kind = "touch_begin" /\ s[i].f = f /\ s[i].w = t[f]
      BY <1>1, <2>3 DEF Begins
    <3>2. CASE i = 1
      BY <1>9, <3>1, <3>2
    <3>3. CASE i # 1
      <4>1. i - 1 \in 1 .. n - 1 /\ (i - 1) + 1 = i
        BY <1>1, <3>1, <3>3
      <4>2. r[i - 1] = s[i]
        BY <1>4, <4>1
      <4> QED BY <1>1, <3>1, <4>1, <4>2 DEF Begins
    <3> QED BY <3>2, <3>3
  <2> QED BY <1>2, <2>1, <2>2, <2>3
<1> QED BY <1>1, <1>6, <1>7, <1>8, <1>9 DEF Due, r

\* An event is added: another one, one that begins a first touch, or one that ends
\* the touch of a finger that is down.
LEMMA DueAdded ==
  ASSUME NEW T, NEW s \in Seq(T), OfFingers(s), NEW e \in T,
         NEW t \in [Fingers -> Windows \cup {None, "up"}], NEW u, NEW h, NEW L,
         None \notin L, "up" \notin L, Due(s, t, h, L),
         \/ e.kind \notin ByTouch /\ u = t
         \/ /\ e.kind = "touch_begin" /\ e.f \in Fingers /\ e.w \in Windows
            /\ t[e.f] = None /\ h[e.f] = None /\ u = [t EXCEPT ![e.f] = e.w]
         \/ /\ e.kind = "touch_end" /\ e.f \in Fingers /\ e.w \in Windows
            /\ t[e.f] = e.w /\ u = [t EXCEPT ![e.f] = "up"]
  PROVE  Due(Append(s, e), u, h, L)
<1> DEFINE n == Len(s)
           r == Append(s, e)
<1>1. /\ n \in Nat /\ DOMAIN s = 1 .. n /\ DOMAIN r = 1 .. n + 1 /\ r[n + 1] = e
      /\ \A i \in 1 .. n : r[i] = s[i]
  BY Appended
<1> HIDE DEF n, r
<1>2. /\ \A i \in 1 .. n : Opens(s[i], t, h) /\ Closes(s, i, t, h, L)
      /\ \A i, j \in 1 .. n :
           s[i].kind \in ByTouch /\ s[i].kind = s[j].kind /\ s[i].f = s[j].f => i = j
      /\ \A f \in Fingers : t[f] \in L => h[f] = t[f] \/ Begins(s, f, t[f])
  BY <1>1 DEF Due, Once
<1>3. \A i \in 1 .. n : s[i].kind \in ByTouch => s[i].f \in Fingers
  BY <1>1 DEF OfFingers
<1>4. \A i \in 1 .. n + 1 : i = n + 1 \/ (i \in 1 .. n /\ r[i] = s[i])
  BY <1>1
<1>5. None \notin Windows /\ "up" \notin Windows /\ "up" # None
  BY X11Assumption
<1>6. \A f \in Fingers : /\ t[f] # None => u[f] # None
                         /\ t[f] = "up" => u[f] = "up"
  BY <1>5
<1>7. \A i \in 1 .. n : ~(s[i].kind \in ByTouch /\ s[i].kind = e.kind /\ s[i].f = e.f)
  BY <1>2, <1>5 DEF Opens, Closes, ByTouch
<1>8. Once(r)
  BY <1>1, <1>2, <1>4, <1>7 DEF Once
<1>9. Opens(e, u, h)
  BY <1>5 DEF Opens, ByTouch
<1>10. ASSUME NEW i \in 1 .. n
       PROVE  Opens(r[i], u, h)
  BY <1>1, <1>2, <1>3, <1>6 DEF Opens, ByTouch
<1>11. ASSUME NEW i \in 1 .. n
       PROVE  Closes(r, i, u, h, L)
  <2>1. /\ s[i].kind = "touch_end" => s[i].f \in Fingers /\ u[s[i].f] = "up"
        /\ Closes(s, i, t, h, L)
    BY <1>2, <1>3, <1>6 DEF Closes, ByTouch
  <2>2. \A j \in 1 .. i - 1 : r[j] = s[j]
    BY <1>1
  <2>3. r[i] = s[i]
    BY <1>1
  <2> QED BY <2>1, <2>2, <2>3 DEF Closes
<1>12. Closes(r, n + 1, u, h, L)
  <2> SUFFICES ASSUME e.kind = "touch_end"
               PROVE  /\ u[e.f] = "up"
                      /\ e.w \in L =>
                           \/ h[e.f] = e.w
                           \/ \E j \in 1 .. n :
                                r[j].kind = "touch_begin" /\ r[j].f = e.f /\ r[j].w = e.w
    <3>1. (n + 1) - 1 = n
      BY <1>1
    <3> QED BY <1>1, <3>1 DEF Closes
  <2>1. e.f \in Fingers /\ t[e.f] = e.w /\ u = [t EXCEPT ![e.f] = "up"]
    BY DEF ByTouch
  <2>2. e.w \in L => h[e.f] = e.w \/ Begins(s, e.f, e.w)
    BY <1>2, <2>1
  <2>3. Begins(s, e.f, e.w) =>
          \E j \in 1 .. n : r[j].kind = "touch_begin" /\ r[j].f = e.f /\ r[j].w = e.w
    BY <1>1 DEF Begins
  <2> QED BY <2>1, <2>2, <2>3
<1>13. ASSUME NEW f \in Fingers, u[f] \in L
       PROVE  h[f] = u[f] \/ Begins(r, f, u[f])
  <2>1. CASE u[f] = t[f]
    <3>1. Begins(s, f, t[f]) => Begins(r, f, t[f])
      <4>1. \A i \in 1 .. n : i \in 1 .. n + 1 /\ r[i] = s[i]
        BY <1>1
      <4> QED BY <1>1, <4>1 DEF Begins
    <3> QED BY <1>2, <1>13, <2>1, <3>1
  <2>2. CASE u[f] # t[f]
    <3>1. e.kind = "touch_begin" /\ e.f = f /\ u[f] = e.w
      BY <1>13, <2>2 DEF ByTouch
    <3>2. n + 1 \in DOMAIN r
      BY <1>1
    <3> QED BY <1>1, <3>1, <3>2 DEF Begins
  <2> QED BY <2>1, <2>2
<1> QED BY <1>1, <1>4, <1>8, <1>9, <1>10, <1>11, <1>12, <1>13 DEF Due, r

----
(* What keeps the loop's view of the world *)

view_vars == <<held, windows, gone, focused, active_window, heard>>

\* The windows that there are are windows.
LEMMA WindowsAre ==
  ASSUME Registered
  PROVE  /\ Ever \subseteq Windows /\ held \cap windows \subseteq Windows
         /\ None \notin Ever /\ "up" \notin Ever /\ None # "up"
         /\ None \notin windows \cap held /\ "up" \notin windows \cap held
         /\ windows \cap held \subseteq Ever
BY X11Assumption DEF Registered, Ever

\* Touches are those of fingers.
LEMMA TouchesAre ==
  ASSUME Streamed
  PROVE  OfFingers(Stream)
BY DEF Streamed, Said, OfFingers

\* The fingers are finitely many.
LEMMA KnownIs ==
  ASSUME NEW K \in SUBSET Fingers
  PROVE  IsFiniteSet(K) /\ Cardinality(K) \in Nat
<1>1. IsFiniteSet(Fingers)
  BY X11Assumption, FS_Interval DEF Fingers
<1>2. IsFiniteSet(K)
  BY <1>1, FS_Subset
<1> QED BY <1>2, FS_CardinalityType

\* Nothing changes, or the output is flushed and more is read.
LEMMA WorldRead ==
  ASSUME World, Stream' = Stream, queue' \in Seq(XEvents), wire' \in Seq(XEvents),
         unsent' \cup doomed' \subseteq unsent \cup doomed,
         UNCHANGED <<view_vars, exists, xfocus, touching, num_touch, primary, alone, first_touch>>
  PROVE  World'
<1>1. Ever' = Ever
  BY DEF view_vars, Ever
<1>2. Registered'
  BY <1>1 DEF World, Registered, view_vars
<1>3. Streamed'
  BY <1>1 DEF World, Streamed, Said
<1>4. Followed'
  BY <1>1 DEF World, Followed, Agrees, view_vars
<1>5. Fingered'
  BY <1>1 DEF World, Fingered, view_vars
<1>6. Series'
  BY DEF World, Series, Known, view_vars
<1> QED BY <1>2, <1>3, <1>4, <1>5, <1>6 DEF World

\* Nothing changes.
LEMMA WorldSame ==
  ASSUME World,
         UNCHANGED <<view_vars, queue, wire, unsent, doomed, exists, xfocus, touching,
                     num_touch, primary, alone, first_touch>>
  PROVE  World'
<1>1. Stream' = Stream
  BY DEF Stream
<1>2. queue' \in Seq(XEvents) /\ wire' \in Seq(XEvents)
  BY DEF World, Streamed
<1> QED BY <1>1, <1>2, WorldRead

\* A window is dropped.
LEMMA WorldDrop ==
  ASSUME World, NEW w \in Windows, w \in held, Drop(w),
         UNCHANGED <<queue, wire, windows, gone, focused, active_window, heard, doomed, exists,
                     xfocus, touching, num_touch, primary, alone, first_touch>>
  PROVE  World'
<1>1. Ever' = Ever /\ held' \subseteq held /\ Stream' = Stream
  BY DEF Drop, Ever, Stream
<1>2. Registered'
  BY <1>1 DEF World, Registered, Drop
<1>3. Streamed'
  BY <1>1 DEF World, Streamed, Said
<1>4. Followed'
  BY <1>1 DEF World, Followed, Agrees
<1>5. Fingered'
  <2>1. Due(Stream, touching, heard, (windows \cap held)')
    <3>1. Due(Stream, touching, heard, windows \cap held) /\ OfFingers(Stream)
      BY TouchesAre DEF World, Fingered
    <3>2. (windows \cap held)' \in SUBSET (windows \cap held)
      BY <1>1
    <3> QED BY <3>1, <3>2, DueLess
  <2> QED BY <1>1, <2>1 DEF World, Fingered
<1>6. Series'
  BY DEF World, Series, Known
<1> QED BY <1>2, <1>3, <1>4, <1>5, <1>6 DEF World

\* Whatever is said now is said of windows that ever were.
LEMMA SaidAdded ==
  ASSUME NEW s \in Seq(XEvents), \A i \in DOMAIN s : Said(s[i]), NEW e, Said(e)
  PROVE  /\ e \in XEvents /\ Append(s, e) \in Seq(XEvents)
         /\ \A i \in DOMAIN Append(s, e) : Said(Append(s, e)[i])
<1>1. e \in XEvents
  BY DEF Said
<1>2. /\ Append(s, e) \in Seq(XEvents) /\ Len(s) \in Nat /\ DOMAIN s = 1 .. Len(s)
      /\ DOMAIN Append(s, e) = 1 .. Len(s) + 1 /\ Append(s, e)[Len(s) + 1] = e
      /\ \A i \in 1 .. Len(s) : Append(s, e)[i] = s[i]
  BY <1>1, Appended
<1>3. \A i \in 1 .. Len(s) + 1 : i = Len(s) + 1 \/ i \in 1 .. Len(s)
  BY <1>2
<1> QED BY <1>1, <1>2, <1>3

\* The server says something, without or with a move of the keyboard.
LEMMA SaysOne ==
  ASSUME World, NEW e, Said(e), Says(<<e>>),
         UNCHANGED <<view_vars, queue, unsent, num_touch, primary, alone, first_touch>>,
         doomed' \subseteq doomed, exists' \subseteq exists, xfocus' \in Ever \cup {None},
         Moves(e, xfocus, xfocus'),
         touching' \in [Fingers -> Ever \cup {None, "up"}],
         \A f \in Fingers : touching'[f] = None => heard[f] = None,
         Due(Append(Stream, e), touching', heard, windows \cap held)
  PROVE  World'
<1>1. /\ Ever' = Ever /\ queue' = queue
      /\ Streamed /\ Stream \in Seq(XEvents) /\ \A i \in DOMAIN Stream : Said(Stream[i])
  BY StreamIs DEF World, Streamed, Ever, view_vars
<1>2. e \in XEvents /\ <<e>> \in Seq(XEvents)
  BY DEF Said
<1>3. Stream' = Append(Stream, e) /\ wire' \in Seq(XEvents)
  BY <1>1, <1>2, StreamSaid, OneSaid
<1>4. Registered'
  BY <1>1 DEF World, Registered, view_vars
<1>5. Streamed'
  <2>1. \A i \in DOMAIN Append(Stream, e) : Said(Append(Stream, e)[i])
    BY <1>1, SaidAdded
  <2> QED BY <1>1, <1>3, <2>1 DEF Streamed, Said
<1>6. Followed'
  <2>1. PICK at : Trace(at, Stream, xfocus, Ever \cup {None}) /\ Agrees(at[0])
    BY DEF World, Followed
  <2> DEFINE V == Ever \cup {None}
             y == xfocus'
  <2>2. y \in V /\ Moves(e, xfocus, y) /\ Trace(at, Stream, xfocus, V)
    BY <2>1
  <2> HIDE DEF V, y
  <2>3. \E b \in [0 .. Len(Append(Stream, e)) -> V] :
          Trace(b, Append(Stream, e), y, V) /\ b[0] = at[0]
    BY <1>1, <1>2, <2>2, TraceExtended
  <2>4. PICK b \in [0 .. Len(Append(Stream, e)) -> Ever \cup {None}] :
          Trace(b, Append(Stream, e), xfocus', Ever \cup {None}) /\ b[0] = at[0]
    BY <2>3 DEF V, y
  <2>5. Agrees(b[0])'
    BY <2>1, <2>4 DEF Agrees, view_vars
  <2> QED BY <1>1, <1>3, <2>4, <2>5 DEF Followed
<1>7. Fingered'
  BY <1>1, <1>3 DEF World, Fingered, view_vars
<1>8. Series'
  BY DEF World, Series, Known, view_vars
<1> QED BY <1>4, <1>5, <1>6, <1>7, <1>8 DEF World

\* It says two things, of which the second may move it again.
LEMMA SaysTwo ==
  ASSUME World, NEW d, Said(d), NEW e, Said(e), Says(<<d, e>>), NEW m \in Ever \cup {None},
         UNCHANGED <<view_vars, queue, unsent, num_touch, primary, alone, first_touch>>,
         doomed' \subseteq doomed, exists' \subseteq exists, xfocus' \in Ever \cup {None},
         Moves(d, xfocus, m), Moves(e, m, xfocus'),
         touching' \in [Fingers -> Ever \cup {None, "up"}],
         \A f \in Fingers : touching'[f] = None => heard[f] = None,
         Due(Append(Append(Stream, d), e), touching', heard, windows \cap held)
  PROVE  World'
<1>1. /\ Ever' = Ever /\ queue' = queue
      /\ Streamed /\ Stream \in Seq(XEvents) /\ \A i \in DOMAIN Stream : Said(Stream[i])
  BY StreamIs DEF World, Streamed, Ever, view_vars
<1>2. d \in XEvents /\ e \in XEvents /\ <<d, e>> \in Seq(XEvents)
  BY DEF Said
<1> DEFINE s == Append(Stream, d)
<1>3. Stream' = Append(s, e) /\ wire' \in Seq(XEvents)
  BY <1>1, <1>2, StreamSaid, TwoSaid
<1>4. s \in Seq(XEvents) /\ \A i \in DOMAIN s : Said(s[i])
  BY <1>1, SaidAdded
<1>5. Registered'
  BY <1>1 DEF World, Registered, view_vars
<1>6. Streamed'
  <2>1. \A i \in DOMAIN Append(s, e) : Said(Append(s, e)[i])
    BY <1>4, SaidAdded
  <2> QED BY <1>1, <1>3, <2>1 DEF Streamed, Said
<1>7. Followed'
  <2>1. PICK at : Trace(at, Stream, xfocus, Ever \cup {None}) /\ Agrees(at[0])
    BY DEF World, Followed
  <2> DEFINE V == Ever \cup {None}
             y == xfocus'
  <2>2. /\ m \in V /\ y \in V /\ Moves(d, xfocus, m) /\ Moves(e, m, y)
        /\ Trace(at, Stream, xfocus, V)
    BY <2>1
  <2> HIDE DEF V, y, s
  <2>3. \E b \in [0 .. Len(Append(Stream, d)) -> V] :
          Trace(b, Append(Stream, d), m, V) /\ b[0] = at[0]
    BY <1>1, <1>2, <2>2, TraceExtended
  <2>4. PICK b : Trace(b, s, m, V) /\ b[0] = at[0]
    BY <2>3 DEF s
  <2>5. \E c \in [0 .. Len(Append(s, e)) -> V] : Trace(c, Append(s, e), y, V) /\ c[0] = b[0]
    BY <1>2, <1>4, <2>2, <2>4, TraceExtended
  <2>6. PICK c \in [0 .. Len(Append(s, e)) -> Ever \cup {None}] :
          Trace(c, Append(s, e), xfocus', Ever \cup {None}) /\ c[0] = b[0]
    BY <2>5 DEF V, y
  <2>7. Agrees(c[0])'
    BY <2>1, <2>4, <2>6 DEF Agrees, view_vars
  <2> QED BY <1>1, <1>3, <2>6, <2>7 DEF Followed
<1>8. Fingered'
  BY <1>1, <1>3 DEF World, Fingered, view_vars
<1>9. Series'
  BY DEF World, Series, Known, view_vars
<1> QED BY <1>5, <1>6, <1>7, <1>8, <1>9 DEF World

\* A handler takes the first event.
LEMMA WorldTaken ==
  ASSUME World, NEW kinds, Take(kinds), Ever' = Ever, held' = held, windows' \subseteq windows,
         focused' \subseteq Ever, active_window' \in Ever \cup {None},
         UNCHANGED <<wire, unsent, doomed, exists, xfocus, touching>>,
         \A p, q \in Ever \cup {None} : Agrees(p) /\ Moves(Ev, p, q) => Agrees(q)',
         heard' \in [Fingers -> Windows \cup {None}],
         \A f \in Fingers :
            /\ heard[f] = None /\ ~(Ev.kind = "touch_begin" /\ Ev.f = f) => heard'[f] = None
            /\ heard[f] \in windows' \cap held /\ ~(Ev.kind = "touch_end" /\ Ev.f = f)
                 => heard'[f] = heard[f],
         Ev.kind = "touch_begin" /\ Ev.w \in windows' \cap held => heard'[Ev.f] = Ev.w,
         Series'
  PROVE  World'
<1>1. /\ Stream # <<>> /\ Stream' = Tail(Stream) /\ Ev = Stream[1]
      /\ queue' \in Seq(XEvents) /\ Stream \in Seq(XEvents) /\ Streamed
  BY StreamTaken DEF World
<1>2. wire' \in Seq(XEvents) /\ gone' \subseteq Windows
  <2>1. Ever \subseteq Windows
    BY WindowsAre DEF World
  <2> QED BY <2>1 DEF World, Streamed, Ever
<1>3. Registered'
  BY <1>2 DEF World, Registered
<1>4. Streamed'
  <2>1. \A i \in DOMAIN Tail(Stream) : Said(Tail(Stream)[i])
    <3>1. /\ Len(Stream) \in Nat
          /\ DOMAIN Stream = 1 .. Len(Stream) /\ DOMAIN Tail(Stream) = 1 .. Len(Stream) - 1
          /\ \A i \in 1 .. Len(Stream) - 1 : Tail(Stream)[i] = Stream[i + 1]
      BY <1>1, TailOf
    <3>2. \A i \in 1 .. Len(Stream) - 1 : i + 1 \in 1 .. Len(Stream)
      BY <3>1
    <3> QED BY <1>1, <3>1, <3>2 DEF Streamed
  <2> QED BY <1>1, <1>2, <2>1 DEF Streamed, Said
<1>5. Followed'
  <2>1. PICK at : Trace(at, Stream, xfocus, Ever \cup {None}) /\ Agrees(at[0])
    BY DEF World, Followed
  <2>2. /\ Moves(Stream[1], at[0], at[1]) /\ at[0] \in Ever \cup {None}
        /\ at[1] \in Ever \cup {None}
        /\ \E b \in [0 .. Len(Tail(Stream)) -> Ever \cup {None}] :
             Trace(b, Tail(Stream), xfocus, Ever \cup {None}) /\ b[0] = at[1]
    BY <1>1, <2>1, TraceShortened
  <2>3. PICK b \in [0 .. Len(Tail(Stream)) -> Ever \cup {None}] :
             Trace(b, Tail(Stream), xfocus, Ever \cup {None}) /\ b[0] = at[1]
    BY <2>2
  <2>4. Agrees(at[1])'
    BY <1>1, <2>1, <2>2
  <2> QED BY <1>1, <2>3, <2>4 DEF Followed
<1>6. Fingered'
  <2> DEFINE L == windows \cap held
             M == windows' \cap held
  <2>1. /\ M \in SUBSET L /\ None \notin L /\ "up" \notin L
        /\ Due(Stream, touching, heard, L) /\ OfFingers(Stream)
    BY WindowsAre, TouchesAre DEF World, Fingered
  <2>2. Due(Tail(Stream), touching, heard', M)
    <3> HIDE DEF L
    <3> QED BY <1>1, <2>1, DueTaken
  <2>3. \A f \in Fingers : touching[f] = None => heard'[f] = None
    <3>1. ASSUME NEW f \in Fingers, touching[f] = None
          PROVE  heard'[f] = None
      <4>1. heard[f] = None
        BY <3>1 DEF World, Fingered
      <4>2. 1 \in DOMAIN Stream
        BY <1>1, TailOf
      <4>3. Opens(Stream[1], touching, heard)
        BY <2>1, <4>2 DEF Due
      <4> QED BY <1>1, <3>1, <4>1, <4>3 DEF Opens
    <3> QED BY <3>1
  <2> QED BY <1>1, <2>2, <2>3 DEF World, Fingered
<1> QED BY <1>3, <1>4, <1>5, <1>6 DEF World

----
(* The handlers that change the view *)

\* A handler that leaves it alone.
LEMMA WorldPassed ==
  ASSUME World, NEW kinds, Take(kinds),
         kinds \cap {"focus_in", "focus_out", "touch_begin", "touch_end"} = {},
         UNCHANGED <<view_vars, wire, unsent, doomed, exists, xfocus, touching,
                     num_touch, primary, alone, first_touch>>
  PROVE  World'
<1>1. Ever' = Ever /\ UNCHANGED <<held, windows, focused, active_window, heard>>
  BY DEF view_vars, Ever
<1>2. Ev.kind \notin {"focus_in", "focus_out", "touch_begin", "touch_end"}
  BY DEF Take, Ev
<1>3. \A p, q \in Ever \cup {None} : Agrees(p) /\ Moves(Ev, p, q) => Agrees(q)'
  BY <1>1, <1>2 DEF Agrees, Moves
<1>4. Series'
  BY DEF World, Series, Known, view_vars
<1>5. focused' \subseteq Ever /\ active_window' \in Ever \cup {None}
      /\ heard' \in [Fingers -> Windows \cup {None}]
  BY <1>1 DEF World, Registered, Fingered
<1> QED BY <1>1, <1>2, <1>3, <1>4, <1>5, WorldTaken

\* The keyboard goes to a window.
LEMMA WorldFocusIn ==
  ASSUME World, FocusIn
  PROVE  World'
<1>1. UNCHANGED <<held, windows, gone, heard, wire, unsent, doomed, exists, xfocus, touching,
                  num_touch, primary, alone, first_touch>>
  BY DEF FocusIn, server_vars
<1>2. Take({"focus_in"}) /\ Ever' = Ever
  BY <1>1 DEF FocusIn, Ever
<1>3. Ev.kind = "focus_in" /\ Ev.w \in Ever
  BY <1>1, <1>2, StreamTaken DEF World, Said, ToAll
<1>4. \/ UNCHANGED <<active_window, focused>> /\ active_window = Ev.w
      \/ active_window' = Ev.w /\ focused' = focused \cup {Ev.w}
  BY DEF FocusIn, AlreadyActive
<1>5. focused \subseteq Ever /\ active_window \in Ever \cup {None} /\ None \notin held \cap windows
  BY WindowsAre DEF World, Registered
<1>6. ASSUME NEW p, NEW q, Agrees(p), Moves(Ev, p, q)
      PROVE  Agrees(q)'
  <2>1. p = None /\ q = Ev.w
    BY <1>3, <1>6 DEF Moves
  <2>2. \A v \in held \cap windows : v \notin focused /\ v # active_window
    BY <1>5, <1>6, <2>1 DEF Agrees
  <2> QED BY <1>1, <1>4, <2>1, <2>2 DEF Agrees
<1>7. Series'
  BY <1>1 DEF World, Series, Known
<1>8. heard' \in [Fingers -> Windows \cup {None}]
  BY <1>1 DEF World, Fingered
<1>9. focused' \subseteq Ever /\ active_window' \in Ever \cup {None}
  BY <1>3, <1>4, <1>5
<1> QED BY <1>1, <1>2, <1>3, <1>6, <1>7, <1>8, <1>9, WorldTaken

\* The keyboard leaves a window.
LEMMA WorldFocusOut ==
  ASSUME World, FocusOut
  PROVE  World'
<1>1. UNCHANGED <<held, windows, gone, heard, wire, unsent, doomed, exists, xfocus, touching,
                  num_touch, primary, alone, first_touch>>
  BY DEF FocusOut, server_vars
<1>2. Take({"focus_out"}) /\ Ever' = Ever
  BY <1>1 DEF FocusOut, Ever
<1>3. Ev.kind = "focus_out" /\ Ev.w \in Ever
  BY <1>1, <1>2, StreamTaken DEF World, Said, ToAll
<1>4. \/ UNCHANGED <<active_window, focused>> /\ Ev.w \notin windows \cap held
      \/ active_window' = None /\ active_window = Ev.w /\ focused' = focused \ {Ev.w}
      \/ active_window' = None /\ active_window # Ev.w /\ focused' = focused
         /\ Ev.w \in windows \cap held
  BY DEF FocusOut, WindowExists
<1>5. focused \subseteq Ever /\ active_window \in Ever \cup {None} /\ None \notin held \cap windows
  BY WindowsAre DEF World, Registered
<1>6. ASSUME NEW p, NEW q, Agrees(p), Moves(Ev, p, q)
      PROVE  Agrees(q)'
  <2>1. p = Ev.w /\ q = None
    BY <1>3, <1>6 DEF Moves
  <2>2. \A v \in held \cap windows : (v \in focused <=> v = Ev.w) /\ (v = active_window <=> v = Ev.w)
    BY <1>6, <2>1 DEF Agrees
  <2> QED BY <1>1, <1>4, <1>5, <2>1, <2>2 DEF Agrees
<1>7. Series'
  BY <1>1 DEF World, Series, Known
<1>8. heard' \in [Fingers -> Windows \cup {None}]
  BY <1>1 DEF World, Fingered
<1>9. focused' \subseteq Ever /\ active_window' \in Ever \cup {None}
  BY <1>4, <1>5
<1> QED BY <1>1, <1>2, <1>3, <1>6, <1>7, <1>8, <1>9, WorldTaken

\* A touch begins.
LEMMA WorldTouchBegin ==
  ASSUME World, TouchBegin
  PROVE  World'
<1>1. UNCHANGED <<held, windows, gone, focused, active_window, wire, unsent, doomed, exists,
                  xfocus, touching>>
  BY DEF TouchBegin, server_vars
<1>2. Take({"touch_begin"}) /\ Ever' = Ever
  BY <1>1 DEF TouchBegin, Ever
<1>3. Ev.kind = "touch_begin" /\ Ev.w \in Ever /\ Ev.f \in Fingers /\ Ev.w \in Windows
  BY <1>1, <1>2, StreamTaken, WindowsAre DEF World, Said, ToAll, ByTouch
<1>4. heard \in [Fingers -> Windows \cup {None}]
  BY DEF World, Fingered
<1>5. focused' \subseteq Ever /\ active_window' \in Ever \cup {None}
  BY <1>1 DEF World, Registered
<1>6. \A p, q \in Ever \cup {None} : Agrees(p) /\ Moves(Ev, p, q) => Agrees(q)'
  BY <1>1, <1>3 DEF Agrees, Moves
<1>7. CASE Ev.w \notin windows \cap held
  <2>1. UNCHANGED <<heard, num_touch, primary, alone, first_touch>>
    BY <1>7 DEF TouchBegin, WindowExists
  <2>2. Series'
    BY <2>1 DEF World, Series, Known
  <2> QED BY <1>1, <1>2, <1>4, <1>5, <1>6, <1>7, <2>1, <2>2, WorldTaken
<1>8. CASE Ev.w \in windows \cap held
  <2>1. /\ heard' = [heard EXCEPT ![Ev.f] = Ev.w] /\ num_touch' = num_touch + 1
        /\ first_touch' = IF num_touch = 0 THEN Ev.f ELSE first_touch
        /\ primary' = IF num_touch = 0 THEN primary \cup {Ev.f} ELSE primary
        /\ alone' = IF Known = {} THEN alone \cup {Ev.f} ELSE alone
    BY <1>8 DEF TouchBegin, WindowExists, OpensSeries
  <2>2. Known \in SUBSET Fingers
    BY DEF Known
  <2>3. IsFiniteSet(Known) /\ Cardinality(Known) \in Nat
    BY <2>2, KnownIs
  <2>4. Known' = Known \cup {Ev.f}
    <3>1. Ev.w # None
      BY <1>3, X11Assumption
    <3> QED BY <1>3, <1>4, <2>1, <3>1 DEF Known
  <2>5. Cardinality(Known') \in Nat /\ Cardinality(Known') <= Cardinality(Known) + 1
    BY <2>3, <2>4, FS_AddElement
  <2>6. num_touch = 0 => Known = {}
    <3>1. num_touch = 0 => Cardinality(Known) = 0
      BY <2>3 DEF World, Series
    <3> QED BY <2>3, <3>1, FS_EmptySet
  <2>7. Series'
    <3>1. num_touch' \in Nat /\ Cardinality(Known') <= num_touch'
      BY <2>1, <2>3, <2>5 DEF World, Series
    <3>2. primary' \subseteq alone' /\ alone' \subseteq Fingers
          /\ first_touch' \in Fingers \cup {None}
      BY <1>3, <2>1, <2>6 DEF World, Series
    <3> QED BY <3>1, <3>2 DEF Series
  <2>8. heard' \in [Fingers -> Windows \cup {None}] /\ heard'[Ev.f] = Ev.w
        /\ \A f \in Fingers : f # Ev.f => heard'[f] = heard[f]
    BY <1>3, <1>4, <2>1
  <2>9. heard[Ev.f] = None
    <3>1. /\ Stream # <<>> /\ Ev = Stream[1] /\ Stream \in Seq(XEvents)
      BY <1>1, <1>2, StreamTaken DEF World
    <3>2. 1 \in DOMAIN Stream
      BY <3>1, TailOf
    <3>3. Opens(Stream[1], touching, heard)
      BY <3>2 DEF World, Fingered, Due
    <3> QED BY <1>3, <3>1, <3>3 DEF Opens
  <2>10. None \notin windows' \cap held
    BY <1>1, WindowsAre DEF World
  <2> QED BY <1>1, <1>2, <1>3, <1>5, <1>6, <2>7, <2>8, <2>9, <2>10, WorldTaken
<1> QED BY <1>7, <1>8

\* A touch ends.
LEMMA WorldTouchEnd ==
  ASSUME World, TouchEnd
  PROVE  World'
<1>1. UNCHANGED <<held, windows, gone, focused, active_window, wire, unsent, doomed, exists,
                  xfocus, touching, primary, alone>>
  BY DEF TouchEnd, server_vars
<1>2. Take({"touch_end"}) /\ Ever' = Ever
  BY <1>1 DEF TouchEnd, Ever
<1>3. Ev.kind = "touch_end" /\ Ev.w \in Ever /\ Ev.f \in Fingers /\ Ev.w \in Windows
  BY <1>1, <1>2, StreamTaken, WindowsAre DEF World, Said, ToAll, ByTouch
<1>4. heard \in [Fingers -> Windows \cup {None}]
  BY DEF World, Fingered
<1>5. focused' \subseteq Ever /\ active_window' \in Ever \cup {None}
  BY <1>1 DEF World, Registered
<1>6. \A p, q \in Ever \cup {None} : Agrees(p) /\ Moves(Ev, p, q) => Agrees(q)'
  BY <1>1, <1>3 DEF Agrees, Moves
<1>7. CASE Ev.w \notin windows \cap held
  <2>1. UNCHANGED <<heard, num_touch, first_touch>>
    BY <1>7 DEF TouchEnd, WindowExists
  <2>2. Series'
    BY <1>1, <2>1 DEF World, Series, Known
  <2> QED BY <1>1, <1>2, <1>3, <1>4, <1>5, <1>6, <2>1, <2>2, WorldTaken
<1>8. CASE Ev.w \in windows \cap held
  <2>1. /\ heard' = [heard EXCEPT ![Ev.f] = None]
        /\ num_touch' = IF num_touch = 0 THEN 0 ELSE num_touch - 1
        /\ first_touch' = IF first_touch = Ev.f THEN None ELSE first_touch
    BY <1>8 DEF TouchEnd, WindowExists
  <2>2. Known \in SUBSET Fingers
    BY DEF Known
  <2>3. IsFiniteSet(Known) /\ Cardinality(Known) \in Nat
    BY <2>2, KnownIs
  <2>4. heard[Ev.f] = Ev.w
    <3>1. /\ Stream # <<>> /\ Ev = Stream[1] /\ Stream \in Seq(XEvents)
      BY <1>1, <1>2, StreamTaken DEF World
    <3>2. 1 \in DOMAIN Stream
      BY <3>1, TailOf
    <3>3. Closes(Stream, 1, touching, heard, windows \cap held)
      BY <3>2 DEF World, Fingered, Due
    <3>4. ~ \E j \in 1 .. 1 - 1 : TRUE
      OBVIOUS
    <3> QED BY <1>3, <1>8, <3>1, <3>3, <3>4 DEF Closes
  <2>5. Known' = Known \ {Ev.f} /\ Ev.f \in Known
    <3>1. Ev.w # None
      BY <1>3, X11Assumption
    <3> QED BY <1>3, <1>4, <2>1, <2>4, <3>1 DEF Known
  <2>6. Cardinality(Known') = Cardinality(Known) - 1 /\ Cardinality(Known') \in Nat
    <3>1. Known' \in SUBSET Fingers
      BY <2>2, <2>5
    <3>2. Cardinality(Known') \in Nat
      BY <3>1, KnownIs
    <3> QED BY <2>3, <2>5, <3>2, FS_RemoveElement
  <2>7. Series'
    <3>1. num_touch' \in Nat /\ Cardinality(Known') <= num_touch'
      BY <2>1, <2>3, <2>6 DEF World, Series
    <3>2. primary' \subseteq alone' /\ alone' \subseteq Fingers
          /\ first_touch' \in Fingers \cup {None}
      BY <1>1, <2>1 DEF World, Series
    <3> QED BY <3>1, <3>2 DEF Series
  <2>8. heard' \in [Fingers -> Windows \cup {None}] /\ heard'[Ev.f] = None
        /\ \A f \in Fingers : f # Ev.f => heard'[f] = heard[f]
    BY <1>3, <1>4, <2>1
  <2> QED BY <1>1, <1>2, <1>3, <1>5, <1>6, <2>7, <2>8, WorldTaken
<1> QED BY <1>7, <1>8

\* A window is gone.
LEMMA WorldDestroyNotify ==
  ASSUME World, DestroyNotify
  PROVE  World'
<1>1. UNCHANGED <<held, focused, active_window, wire, unsent, doomed, exists, xfocus, touching,
                  num_touch, primary, alone, first_touch>>
  BY DEF DestroyNotify, server_vars, input_vars
<1>2. /\ Take({"destroy"})
      /\ windows' = windows \ {Ev.w} /\ gone' = gone \cup {Ev.w}
      /\ heard' = [f \in Fingers |-> IF heard[f] = Ev.w THEN None ELSE heard[f]]
  BY DEF DestroyNotify
<1>3. Ev.kind = "destroy" /\ Ev.w \in Ever
  BY <1>1, <1>2, StreamTaken DEF World, Said, ToAll
<1>4. Ever' = Ever /\ windows' \subseteq windows
  BY <1>2, <1>3 DEF Ever
<1>5. heard \in [Fingers -> Windows \cup {None}]
  BY DEF World, Fingered
<1>6. heard' \in [Fingers -> Windows \cup {None}]
      /\ \A f \in Fingers : /\ heard[f] = None => heard'[f] = None
                            /\ heard[f] \in windows' => heard'[f] = heard[f]
  BY <1>2, <1>5
<1>7. \A p, q \in Ever \cup {None} : Agrees(p) /\ Moves(Ev, p, q) => Agrees(q)'
  BY <1>1, <1>3, <1>4 DEF Agrees, Moves
<1>8. Series'
  <2>1. Known \in SUBSET Fingers /\ Known' \subseteq Known
    BY <1>6 DEF Known
  <2>2. Cardinality(Known') <= Cardinality(Known) /\ IsFiniteSet(Known)
        /\ Cardinality(Known) \in Nat
    BY <2>1, KnownIs, FS_Subset
  <2>3. Cardinality(Known') \in Nat
    <3>1. Known' \in SUBSET Fingers
      BY <2>1
    <3> QED BY <3>1, KnownIs
  <2> QED BY <1>1, <2>2, <2>3 DEF World, Series
<1>9. focused' \subseteq Ever /\ active_window' \in Ever \cup {None}
  BY <1>1 DEF World, Registered
<1> QED BY <1>1, <1>2, <1>3, <1>4, <1>6, <1>7, <1>8, <1>9, WorldTaken

----
(* The server, and what it destroys and creates *)

\* It says one thing that moves nothing: no keyboard, no finger.
LEMMA SaysPlain ==
  ASSUME World, NEW k, NEW w \in Ever \cup {None}, X(k, w) \in XEvents, Says(<<X(k, w)>>),
         k \in ToAll \/ w \in Ever,
         k \notin {"focus_in", "focus_out", "touch_begin", "touch_end"},
         Quiet, UNCHANGED server_vars
  PROVE  World'
<1> DEFINE e == X(k, w)
<1>1. e.kind = k /\ e.w = w /\ e \in XEvents
  BY DEF X
<1> HIDE DEF e
<1>2. Said(e)
  BY <1>1 DEF Said, ByTouch
<1>3. Moves(e, xfocus, xfocus')
  BY <1>1 DEF Moves, server_vars
<1>4. UNCHANGED <<view_vars, queue, unsent, num_touch, primary, alone, first_touch>>
  BY DEF Quiet, server_vars, view_vars
<1>5. doomed' \subseteq doomed /\ exists' \subseteq exists /\ xfocus' \in Ever \cup {None}
  BY DEF server_vars, World, Registered
<1>6. touching' \in [Fingers -> Ever \cup {None, "up"}]
      /\ \A f \in Fingers : touching'[f] = None => heard[f] = None
  BY DEF server_vars, World, Fingered
<1>7. Due(Append(Stream, e), touching', heard, windows \cap held)
  <2>1. /\ Stream \in Seq(XEvents) /\ OfFingers(Stream)
        /\ None \notin windows \cap held /\ "up" \notin windows \cap held
        /\ Due(Stream, touching, heard, windows \cap held)
    BY StreamIs, TouchesAre, WindowsAre DEF World, Fingered
  <2>2. e.kind \notin ByTouch /\ touching' = touching
    BY <1>1 DEF ByTouch, server_vars
  <2>3. touching \in [Fingers -> Windows \cup {None, "up"}]
    BY WindowsAre DEF World, Fingered
  <2> QED BY <1>1, <2>1, <2>2, <2>3, DueAdded
<1>8. Says(<<e>>)
  BY DEF e
<1> QED BY <1>2, <1>3, <1>4, <1>5, <1>6, <1>7, <1>8, SaysOne

\* The windows that there are are told of things.
LEMMA WorldNotify ==
  ASSUME World, NEW k, NEW w \in Windows, Notify(k, w)
  PROVE  World'
<1>1. k \in {"expose", "close", "button", "motion", "configure"} /\ w \in exists
      /\ Says(<<X(k, w)>>) /\ Quiet /\ UNCHANGED server_vars
  BY DEF Notify
<1>2. X(k, w) \in XEvents /\ w \in Ever
  BY <1>1 DEF XEvents, X, World, Registered
<1> QED BY <1>1, <1>2, SaysPlain

\* All windows are.
LEMMA WorldBroadcast ==
  ASSUME World, NEW k, Broadcast(k)
  PROVE  World'
<1>1. k \in {"key", "mods", "dpi"} /\ Says(<<X(k, None)>>) /\ Quiet /\ UNCHANGED server_vars
  BY DEF Broadcast
<1>2. X(k, None) \in XEvents /\ k \in ToAll
  BY <1>1 DEF XEvents, X, ToAll
<1> QED BY <1>1, <1>2, SaysPlain

\* The user moves the keyboard to another window.
LEMMA WorldFocus ==
  ASSUME World, NEW w \in Windows \cup {None}, Focus(w)
  PROVE  World'
<1>1. /\ w \in exists \cup {None} /\ w # xfocus /\ xfocus' = w /\ Quiet
      /\ UNCHANGED <<unsent, doomed, exists, touching>>
      /\ Says(Leaves(xfocus) \o (IF w = None THEN <<>> ELSE <<X("focus_in", w)>>))
  BY DEF Focus
<1>2. UNCHANGED <<view_vars, queue, unsent, num_touch, primary, alone, first_touch>>
  BY <1>1 DEF Quiet, view_vars
<1>3. doomed' \subseteq doomed /\ exists' \subseteq exists /\ xfocus' \in Ever \cup {None}
      /\ xfocus \in Ever \cup {None} /\ Ever \subseteq Windows /\ None \notin Ever
  BY <1>1, WindowsAre DEF World, Registered
<1>4. touching' \in [Fingers -> Ever \cup {None, "up"}]
      /\ \A f \in Fingers : touching'[f] = None => heard[f] = None
  BY <1>1 DEF World, Fingered
<1> DEFINE L == windows \cap held
<1>5. /\ Stream \in Seq(XEvents) /\ OfFingers(Stream) /\ \A i \in DOMAIN Stream : Said(Stream[i])
      /\ None \notin L /\ "up" \notin L /\ Due(Stream, touching, heard, L) /\ touching' = touching
      /\ touching \in [Fingers -> Windows \cup {None, "up"}]
  BY <1>1, StreamIs, TouchesAre, WindowsAre DEF World, Fingered, Streamed
<1> HIDE DEF L
<1> DEFINE d == X("focus_out", xfocus)
           e == X("focus_in", w)
<1>6. xfocus # None => d \in XEvents /\ d.kind = "focus_out" /\ d.w = xfocus /\ Said(d)
  BY <1>3 DEF XEvents, X, Said, ByTouch
<1>7. w # None => e \in XEvents /\ e.kind = "focus_in" /\ e.w = w /\ Said(e)
  BY <1>1, <1>3 DEF XEvents, X, Said, ByTouch
<1>8. Says((IF xfocus = None THEN <<>> ELSE <<d>>) \o (IF w = None THEN <<>> ELSE <<e>>))
  BY <1>1 DEF Leaves
<1> HIDE DEF d, e
<1>9. CASE xfocus # None /\ w = None
  <2>1. Says(<<d>>)
    <3>1. <<d>> \o <<>> = <<d>>
      BY <1>6, <1>9
    <3> QED BY <1>8, <1>9, <3>1
  <2>2. Moves(d, xfocus, xfocus')
    BY <1>1, <1>6, <1>9 DEF Moves
  <2>3. Due(Append(Stream, d), touching', heard, L)
    <3>1. d.kind \notin ByTouch
      BY <1>6, <1>9 DEF ByTouch
    <3> QED BY <1>5, <1>6, <1>9, <3>1, DueAdded
  <2> QED BY <1>2, <1>3, <1>4, <1>6, <1>9, <2>1, <2>2, <2>3, SaysOne DEF L
<1>10. CASE xfocus = None /\ w # None
  <2>1. Says(<<e>>)
    <3>1. <<>> \o <<e>> = <<e>>
      BY <1>7, <1>10
    <3> QED BY <1>8, <1>10, <3>1
  <2>2. Moves(e, xfocus, xfocus')
    BY <1>1, <1>7, <1>10 DEF Moves
  <2>3. Due(Append(Stream, e), touching', heard, L)
    <3>1. e.kind \notin ByTouch
      BY <1>7, <1>10 DEF ByTouch
    <3> QED BY <1>5, <1>7, <1>10, <3>1, DueAdded
  <2> QED BY <1>2, <1>3, <1>4, <1>7, <1>10, <2>1, <2>2, <2>3, SaysOne DEF L
<1>11. CASE xfocus # None /\ w # None
  <2>1. Says(<<d, e>>)
    <3>1. <<d>> \o <<e>> = <<d, e>>
      BY <1>6, <1>7, <1>11, BothSaid
    <3> QED BY <1>8, <1>11, <3>1
  <2>2. Moves(d, xfocus, None) /\ Moves(e, None, xfocus')
    BY <1>1, <1>6, <1>7, <1>11 DEF Moves
  <2>3. Due(Append(Append(Stream, d), e), touching', heard, L)
    <3>1. d.kind \notin ByTouch /\ e.kind \notin ByTouch
      BY <1>6, <1>7, <1>11 DEF ByTouch
    <3>2. Due(Append(Stream, d), touching, heard, L)
      BY <1>5, <1>6, <1>11, <3>1, DueAdded
    <3>3. Append(Stream, d) \in Seq(XEvents) /\ OfFingers(Append(Stream, d))
      BY <1>5, <1>6, <1>11, SaidAdded DEF OfFingers, Said
    <3> QED BY <1>5, <1>7, <1>11, <3>1, <3>2, <3>3, DueAdded
  <2> QED BY <1>2, <1>3, <1>4, <1>6, <1>7, <1>11, <2>1, <2>2, <2>3, SaysTwo DEF L
<1> QED BY <1>1, <1>9, <1>10, <1>11

\* A finger is put down.
LEMMA WorldTouch ==
  ASSUME World, NEW f \in Fingers, NEW w \in Windows, Touch(f, w)
  PROVE  World'
<1> DEFINE e == [kind |-> "touch_begin", w |-> w, f |-> f]
           L == windows \cap held
<1>1. /\ touching[f] = None /\ w \in exists /\ touching' = [touching EXCEPT ![f] = w]
      /\ Says(<<e>>) /\ Quiet /\ UNCHANGED <<unsent, doomed, exists, xfocus>>
  BY DEF Touch
<1>2. e.kind = "touch_begin" /\ e.w = w /\ e.f = f /\ e \in XEvents
  BY DEF XEvents
<1>3. /\ Stream \in Seq(XEvents) /\ OfFingers(Stream) /\ w \in Ever /\ w # None
      /\ None \notin L /\ "up" \notin L /\ Due(Stream, touching, heard, L)
      /\ touching \in [Fingers -> Windows \cup {None, "up"}]
      /\ touching \in [Fingers -> Ever \cup {None, "up"}] /\ heard[f] = None
      /\ \A g \in Fingers : touching[g] = None => heard[g] = None
  BY <1>1, StreamIs, TouchesAre, WindowsAre DEF World, Fingered, Registered
<1> HIDE DEF e, L
<1>4. Said(e)
  BY <1>2, <1>3 DEF Said
<1>5. Moves(e, xfocus, xfocus')
  BY <1>1, <1>2 DEF Moves
<1>6. UNCHANGED <<view_vars, queue, unsent, num_touch, primary, alone, first_touch>>
  BY <1>1 DEF Quiet, view_vars
<1>7. doomed' \subseteq doomed /\ exists' \subseteq exists /\ xfocus' \in Ever \cup {None}
  BY <1>1 DEF World, Registered
<1>8. touching' \in [Fingers -> Ever \cup {None, "up"}]
      /\ \A g \in Fingers : touching'[g] = None => heard[g] = None
  BY <1>1, <1>3
<1>9. Due(Append(Stream, e), touching', heard, L)
  BY <1>1, <1>2, <1>3, DueAdded
<1> QED BY <1>1, <1>4, <1>5, <1>6, <1>7, <1>8, <1>9, SaysOne DEF L

\* A finger is lifted.
LEMMA WorldLift ==
  ASSUME World, NEW f \in Fingers, Lift(f)
  PROVE  World'
<1> DEFINE e == [kind |-> "touch_end", w |-> touching[f], f |-> f]
           L == windows \cap held
<1>1. /\ touching[f] \in Windows /\ touching' = [touching EXCEPT ![f] = "up"]
      /\ Says(<<e>>) /\ Quiet /\ UNCHANGED <<unsent, doomed, exists, xfocus>>
  BY DEF Lift
<1>2. e.kind = "touch_end" /\ e.w = touching[f] /\ e.f = f /\ e \in XEvents
  BY <1>1 DEF XEvents
<1>3. /\ Stream \in Seq(XEvents) /\ OfFingers(Stream)
      /\ None \notin L /\ "up" \notin L /\ Due(Stream, touching, heard, L)
      /\ touching \in [Fingers -> Windows \cup {None, "up"}]
      /\ touching \in [Fingers -> Ever \cup {None, "up"}]
      /\ \A g \in Fingers : touching[g] = None => heard[g] = None
  BY StreamIs, TouchesAre, WindowsAre DEF World, Fingered
<1>4. touching[f] \in Ever /\ "up" # None
  BY <1>1, <1>3, X11Assumption
<1> HIDE DEF e, L
<1>5. Said(e)
  BY <1>2, <1>4 DEF Said
<1>6. Moves(e, xfocus, xfocus')
  BY <1>1, <1>2 DEF Moves
<1>7. UNCHANGED <<view_vars, queue, unsent, num_touch, primary, alone, first_touch>>
  BY <1>1 DEF Quiet, view_vars
<1>8. doomed' \subseteq doomed /\ exists' \subseteq exists /\ xfocus' \in Ever \cup {None}
  BY <1>1 DEF World, Registered
<1>9. touching' \in [Fingers -> Ever \cup {None, "up"}]
      /\ \A g \in Fingers : touching'[g] = None => heard[g] = None
  BY <1>1, <1>3, <1>4
<1>10. Due(Append(Stream, e), touching', heard, L)
  BY <1>1, <1>2, <1>3, DueAdded
<1> QED BY <1>1, <1>5, <1>6, <1>7, <1>8, <1>9, <1>10, SaysOne DEF L

\* A window is destroyed: the keyboard leaves it, and the touches on it end.
LEMMA WorldDestroyed ==
  ASSUME World, NEW w \in Windows, w \in Ever, Destroy(w),
         UNCHANGED <<view_vars, queue, unsent, num_touch, primary, alone, first_touch>>,
         doomed' \subseteq doomed
  PROVE  World'
<1> DEFINE L == windows \cap held
           d == X("focus_out", w)
           e == X("destroy", w)
<1>1. /\ exists' = exists \ {w} /\ xfocus' = IF xfocus = w THEN None ELSE xfocus
      /\ touching' = [f \in Fingers |-> IF touching[f] = w THEN "up" ELSE touching[f]]
      /\ Says((IF xfocus = w THEN <<d>> ELSE <<>>) \o <<e>>)
  BY X11Assumption DEF Destroy, Leaves
<1>2. /\ d \in XEvents /\ d.kind = "focus_out" /\ d.w = w /\ Said(d)
      /\ e \in XEvents /\ e.kind = "destroy" /\ e.w = w /\ Said(e)
  BY DEF XEvents, X, Said, ByTouch
<1>3. /\ Stream \in Seq(XEvents) /\ OfFingers(Stream) /\ \A i \in DOMAIN Stream : Said(Stream[i])
      /\ None \notin L /\ "up" \notin L /\ Due(Stream, touching, heard, L)
      /\ touching \in [Fingers -> Windows \cup {None, "up"}]
      /\ touching \in [Fingers -> Ever \cup {None, "up"}]
      /\ \A g \in Fingers : touching[g] = None => heard[g] = None
      /\ w # None /\ "up" # None
  BY StreamIs, TouchesAre, WindowsAre, X11Assumption DEF World, Fingered, Streamed
<1> HIDE DEF L, d, e
<1>4. exists' \subseteq exists /\ xfocus' \in Ever \cup {None}
  BY <1>1 DEF World, Registered
<1>5. touching' \in [Fingers -> Ever \cup {None, "up"}]
      /\ \A g \in Fingers : touching'[g] = None => heard[g] = None
  BY <1>1, <1>3
<1>6. \A f \in Fingers : /\ touching[f] # None => touching'[f] # None
                         /\ touching[f] = "up" => touching'[f] = "up"
                         /\ touching'[f] \in L => touching'[f] = touching[f]
  BY <1>1, <1>3
<1>7. d.kind \notin ByTouch /\ e.kind \notin ByTouch
  BY <1>2 DEF ByTouch
<1>8. CASE xfocus # w
  <2>1. Says(<<e>>)
    <3>1. <<>> \o <<e>> = <<e>>
      BY <1>2
    <3> QED BY <1>1, <1>8, <3>1
  <2>2. Moves(e, xfocus, xfocus')
    BY <1>1, <1>2, <1>8 DEF Moves
  <2>3. Due(Append(Stream, e), touching, heard, L)
    BY <1>2, <1>3, <1>7, DueAdded
  <2>4. OfFingers(Append(Stream, e))
    BY <1>2, <1>3, SaidAdded DEF OfFingers, Said
  <2>5. Due(Append(Stream, e), touching', heard, L)
    BY <1>6, <2>3, <2>4, DueLess
  <2> QED BY <1>2, <1>4, <1>5, <2>1, <2>2, <2>5, SaysOne DEF L
<1>9. CASE xfocus = w
  <2>1. Says(<<d, e>>)
    <3>1. <<d>> \o <<e>> = <<d, e>>
      BY <1>2, BothSaid
    <3> QED BY <1>1, <1>9, <3>1
  <2>2. Moves(d, xfocus, None) /\ Moves(e, None, xfocus')
    BY <1>1, <1>2, <1>9 DEF Moves
  <2> DEFINE s == Append(Stream, d)
  <2>3. Due(s, touching, heard, L)
    BY <1>2, <1>3, <1>7, DueAdded
  <2>4. s \in Seq(XEvents) /\ OfFingers(s) /\ \A i \in DOMAIN s : Said(s[i])
    BY <1>2, <1>3, SaidAdded DEF OfFingers, Said
  <2> HIDE DEF s
  <2>5. Due(Append(s, e), touching, heard, L)
    BY <1>2, <1>3, <1>7, <2>3, <2>4, DueAdded
  <2>6. OfFingers(Append(s, e))
    BY <1>2, <2>4, SaidAdded DEF OfFingers, Said
  <2>7. Due(Append(s, e), touching', heard, L)
    BY <1>6, <2>5, <2>6, DueLess
  <2> QED BY <1>2, <1>4, <1>5, <2>1, <2>2, <2>7, SaysTwo DEF L, s
<1> QED BY <1>8, <1>9

\* At the application's request, ...
LEMMA WorldDestroyDoomed ==
  ASSUME World, NEW w \in Windows, DestroyDoomed(w)
  PROVE  World'
<1>1. w \in Ever /\ Destroy(w) /\ doomed' \subseteq doomed
  BY DEF DestroyDoomed, World, Registered
<1>2. UNCHANGED <<view_vars, queue, unsent, num_touch, primary, alone, first_touch>>
  BY DEF DestroyDoomed, Quiet, view_vars
<1> QED BY <1>1, <1>2, WorldDestroyed

\* ... or by another client.
LEMMA WorldKill ==
  ASSUME World, NEW w \in Windows, Kill(w)
  PROVE  World'
<1>1. w \in Ever /\ Destroy(w) /\ doomed' \subseteq doomed
  BY DEF Kill, World, Registered
<1>2. UNCHANGED <<view_vars, queue, unsent, num_touch, primary, alone, first_touch>>
  BY DEF Kill, Quiet, view_vars
<1> QED BY <1>1, <1>2, WorldDestroyed

\* A window that no touch is on makes none due.
LEMMA DueWider ==
  ASSUME NEW s, OfFingers(s), NEW t, NEW h, NEW L, NEW M, L \subseteq M, Due(s, t, h, L),
         \A i \in DOMAIN s : s[i].kind \in ByTouch => s[i].w \notin M \ L,
         \A f \in Fingers : t[f] \notin M \ L
  PROVE  Due(s, t, h, M)
<1>1. Once(s) /\ \A i \in DOMAIN s : Opens(s[i], t, h)
  BY DEF Due
<1>2. \A i \in DOMAIN s : Closes(s, i, t, h, M)
  BY DEF Due, Closes, ByTouch
<1>3. \A f \in Fingers : t[f] \in M => h[f] = t[f] \/ Begins(s, f, t[f])
  BY DEF Due
<1> QED BY <1>1, <1>2, <1>3 DEF Due

\* A window is created.
LEMMA WorldCreate ==
  ASSUME World, NEW w \in Windows, Create(w)
  PROVE  World'
<1>1. /\ w \notin Ever
      /\ UNCHANGED <<gone, focused, active_window, heard, queue, unsent, doomed, xfocus,
                     touching, num_touch, primary, alone, first_touch>>
  BY DEF Create, Ever, input_vars
<1>2. CASE UNCHANGED <<held, windows, exists, wire>>
  BY <1>1, <1>2, WorldSame DEF view_vars
<1>3. CASE /\ held' = held \cup {w} /\ windows' = windows \cup {w}
           /\ exists' = exists \cup {w} /\ wire' = Append(wire, X("map", w))
  <2> DEFINE e == X("map", w)
             s == Append(Stream, e)
             L == windows \cap held
  <2>1. Ever' = Ever \cup {w} /\ w # None /\ w # "up" /\ Ever \subseteq Windows
    BY <1>1, <1>3, WindowsAre, X11Assumption DEF World, Ever
  <2>2. e \in XEvents /\ e.kind = "map" /\ e.w = w
    BY DEF XEvents, X
  <2> HIDE DEF e
  <2>3. /\ Stream \in Seq(XEvents) /\ OfFingers(Stream) /\ \A i \in DOMAIN Stream : Said(Stream[i])
        /\ None \notin L /\ "up" \notin L /\ Due(Stream, touching, heard, L)
        /\ touching \in [Fingers -> Windows \cup {None, "up"}]
        /\ touching \in [Fingers -> Ever \cup {None, "up"}]
        /\ wire \in Seq(XEvents) /\ queue \in Seq(XEvents) /\ Streamed
    BY StreamIs, TouchesAre, WindowsAre DEF World, Fingered, Streamed
  <2> HIDE DEF L
  <2>4. Stream' = s /\ wire' \in Seq(XEvents)
    <3>1. Says(<<e>>)
      BY <1>3, <2>2, <2>3, OneSaid DEF Says, e
    <3>2. <<e>> \in Seq(XEvents)
      BY <2>2
    <3> QED BY <1>1, <2>2, <2>3, <3>1, <3>2, StreamSaid, OneSaid
  <2>5. /\ s \in Seq(XEvents) /\ Len(Stream) \in Nat /\ DOMAIN Stream = 1 .. Len(Stream)
        /\ DOMAIN s = 1 .. Len(Stream) + 1 /\ s[Len(Stream) + 1] = e
        /\ \A i \in 1 .. Len(Stream) : s[i] = Stream[i]
    BY <2>2, <2>3, Appended
  <2> HIDE DEF s
  <2>6. \A i \in DOMAIN s : /\ s[i] = e \/ Said(s[i])
                            /\ s[i].kind \in ByTouch => s[i].w \in Ever
    <3>1. \A i \in DOMAIN s : i = Len(Stream) + 1 \/ i \in DOMAIN Stream
      BY <2>5
    <3>2. \A i \in DOMAIN Stream : Stream[i].kind \in ByTouch => Stream[i].w \in Ever
      BY <2>3 DEF Said, ByTouch, ToAll
    <3>3. e.kind \notin ByTouch
      BY <2>2 DEF ByTouch
    <3> QED BY <2>3, <2>5, <3>1, <3>2, <3>3
  <2>7. Registered'
    BY <1>1, <1>3, <2>1 DEF World, Registered
  <2>8. Streamed'
    <3>1. \A x : Said(x) => Said(x)'
      BY <2>1 DEF Said
    <3>2. Said(e)'
      BY <2>1, <2>2 DEF Said, ByTouch
    <3>3. (\A i \in DOMAIN Stream : Said(Stream[i]))'
      <4>1. \A i \in DOMAIN s : Said(s[i]) \/ s[i] = e
        BY <2>6
      <4> QED BY <2>4, <3>1, <3>2, <4>1 DEF Said
    <3> QED BY <1>1, <2>3, <2>4, <3>3 DEF Streamed, Said
  <2>9. Followed'
    <3> DEFINE V == Ever \cup {None}
               U == Ever' \cup {None}
    <3>1. PICK at : Trace(at, Stream, xfocus, V) /\ Agrees(at[0]) /\ at \in [0 .. Len(Stream) -> V]
      BY DEF World, Followed
    <3>2. Trace(at, Stream, xfocus, U)
      BY <2>1, <3>1, TraceWider
    <3>3. Moves(e, xfocus, xfocus) /\ xfocus \in U /\ at[0] \in V
      BY <2>1, <2>2, <2>5, <3>1 DEF Moves, World, Registered
    <3>4. \E b \in [0 .. Len(s) -> U] : Trace(b, s, xfocus, U) /\ b[0] = at[0]
      <4> HIDE DEF U
      <4> QED BY <2>2, <2>3, <3>2, <3>3, TraceExtended DEF s
    <3>5. PICK b \in [0 .. Len(s) -> U] : Trace(b, s, xfocus, U) /\ b[0] = at[0]
      BY <3>4
    <3>6. Agrees(b[0])'
      <4>1. at[0] # w /\ w \notin focused /\ active_window # w
        BY <1>1, <2>1, <3>3 DEF World, Registered
      <4> QED BY <1>1, <1>3, <3>1, <3>5, <4>1 DEF Agrees
    <3> QED BY <1>1, <2>4, <3>5, <3>6 DEF Followed
  <2>10. Fingered'
    <3> DEFINE M == windows' \cap held'
    <3>1. Due(s, touching, heard, L)
      <4>1. e.kind \notin ByTouch
        BY <2>2 DEF ByTouch
      <4> QED BY <2>2, <2>3, <4>1, DueAdded DEF s
    <3>2. L \subseteq M /\ M \ L \subseteq {w}
      BY <1>3 DEF L
    <3>3. OfFingers(s)
      <4>1. e.kind \notin ByTouch
        BY <2>2 DEF ByTouch
      <4>2. \A i \in DOMAIN s : s[i] = e \/ Said(s[i])
        BY <2>6
      <4> QED BY <4>1, <4>2 DEF OfFingers, Said
    <3>4. \A i \in DOMAIN s : s[i].kind \in ByTouch => s[i].w \notin M \ L
      <4>1. \A i \in DOMAIN s : s[i].kind \in ByTouch => s[i].w \in Ever
        BY <2>6
      <4>2. w \notin Ever
        BY <1>1
      <4> HIDE DEF M
      <4> QED BY <3>2, <4>1, <4>2
    <3>5. \A f \in Fingers : touching[f] \notin M \ L
      BY <1>1, <2>1, <2>3, <3>2
    <3>6. Due(s, touching, heard, M)
      <4> HIDE DEF M
      <4> QED BY <3>1, <3>2, <3>3, <3>4, <3>5, DueWider
    <3> QED BY <1>1, <2>1, <2>4, <3>6 DEF World, Fingered
  <2>11. Series'
    BY <1>1 DEF World, Series, Known
  <2> QED BY <2>7, <2>8, <2>9, <2>10, <2>11 DEF World
<1> QED BY <1>2, <1>3 DEF Create

----
(* Each action keeps the invariant *)

\* An operation counts as one.
LEMMA OpCounted ==
  ASSUME Turn, Op, env' = env
  PROVE  Counted'
<1>1. env \in Environments /\ ops \in 0 .. env.max /\ env.max \in Nat
  BY X11Assumption DEF Turn, Counted
<1> QED BY <1>1 DEF Op, Counted

\* A pump begins.
LEMMA StartPumpInv ==
  ASSUME Inv, StartPump
  PROVE  Inv'
<1>1. UNCHANGED <<env, blocking, exit, phase, inside, todo, borrowed, work, redraws,
                tokens, proxy_wake_up, ping, proxy_ping, remote, unsent, doomed, exists,
                xfocus, touching, active_window, first_touch, num_touch, listening,
                focused, primary, heard, alone, held, windows, wire, queue, gone, target,
                panicked, ops>>
  BY DEF StartPump, iter_vars, chan_vars, wake_vars, server_vars, input_vars
<1>2. /\ step = "out" /\ inside = "none"
      /\ \/ running = TRUE /\ step' = "poll" /\ first' = FALSE /\ running' = TRUE
         \/ running = FALSE /\ step' = "new_events" /\ first' = TRUE /\ running' = TRUE
  BY DEF StartPump, At, Inv, Turn, Flags
<1>3. World'
  BY <1>1, WorldSame DEF Inv, view_vars
<1>4. Stores' /\ Counted'
  BY <1>1 DEF Inv, Turn, Stores, Counted
<1>5. Flags'
  BY <1>1, <1>2, ZenonT(40) DEF Inv, Turn, Flags
<1>6. Places'
  BY <1>1, <1>2 DEF Inv, Turn, Places, Steps
<1>7. Told'
  BY <1>1, <1>2 DEF Inv, Turn, Told
<1> QED BY <1>3, <1>4, <1>5, <1>6, <1>7 DEF Inv, Turn

\* run_app_on_demand clears the exit.
LEMMA ClearExitInv ==
  ASSUME Inv, ClearExit
  PROVE  Inv'
<1>1. UNCHANGED <<step, env, blocking, running, first, phase, inside, todo, borrowed,
                work, redraws, tokens, proxy_wake_up, ping, proxy_ping, remote, unsent,
                doomed, exists, xfocus, touching, active_window, first_touch, num_touch,
                listening, focused, primary, heard, alone, held, windows, wire, queue,
                gone, target, panicked, ops>>
  BY DEF ClearExit, iter_vars, chan_vars, wake_vars, server_vars, input_vars
<1>2. exit' = FALSE
  BY DEF ClearExit
<1>3. World'
  BY <1>1, WorldSame DEF Inv, view_vars
<1>4. Places' /\ Stores' /\ Counted' /\ Told'
  BY <1>1 DEF Inv, Turn, Places, Stores, Counted, Told
<1>5. Flags'
  BY <1>1, <1>2, ZenonT(40) DEF Inv, Turn, Flags
<1> QED BY <1>3, <1>4, <1>5 DEF Inv, Turn

\* The first look.
LEMMA CheckPendingInv ==
  ASSUME Inv, CheckPending
  PROVE  Inv'
<1>1. UNCHANGED <<env, running, first, exit, phase, inside, todo, borrowed, work,
                redraws, tokens, ping, proxy_ping, remote, exists, xfocus, touching,
                active_window, first_touch, num_touch, listening, focused, primary, heard,
                alone, held, windows, gone, target, panicked, ops>>
  BY DEF CheckPending, iter_vars, chan_vars, input_vars
<1>2. /\ step = "poll" /\ inside = "none" /\ step' = "wait"
      /\ blocking' \in BOOLEAN /\ proxy_wake_up' = proxy_wake_up
  BY DEF CheckPending, At
<1>3. World'
  <2>1. Stream' = Stream /\ queue' \in Seq(XEvents) /\ wire' \in Seq(XEvents)
    BY StreamRead DEF Inv, World, CheckPending
  <2>2. unsent' \cup doomed' \subseteq unsent \cup doomed
    BY DEF CheckPending, ReadAll
  <2> QED BY <1>1, <2>1, <2>2, WorldRead DEF Inv, view_vars
<1>4. Stores' /\ Counted'
  BY <1>1 DEF Inv, Turn, Stores, Counted
<1>5. Flags'
  BY <1>1, <1>2, ZenonT(40) DEF Inv, Turn, Flags
<1>6. Places'
  BY <1>1, <1>2 DEF Inv, Turn, Places, Steps
<1>7. Told'
  BY <1>1, <1>2 DEF Inv, Turn, Told
<1> QED BY <1>3, <1>4, <1>5, <1>6, <1>7 DEF Inv, Turn

\* The wait ends.
LEMMA DispatchInv ==
  ASSUME Inv, Dispatch
  PROVE  Inv'
<1>1. UNCHANGED <<env, first, exit, inside, todo, borrowed, work, redraws, tokens,
                remote, exists, xfocus, touching, active_window, first_touch, num_touch,
                listening, focused, primary, heard, alone, held, windows, gone, target,
                panicked, ops>>
  BY DEF Dispatch, iter_vars, chan_vars, input_vars
<1>2. /\ step = "wait" /\ inside = "none"
      /\ proxy_wake_up' \in BOOLEAN /\ blocking' = FALSE /\ ping' = FALSE /\ proxy_ping' = FALSE
      /\ \/ step' = "new_events" /\ UNCHANGED <<running, phase>>
         \/ step' = "out" /\ running' = TRUE /\ UNCHANGED phase
         \/ step' = "out" /\ running' = FALSE /\ phase' = "Off"
  BY DEF Dispatch, At, Finish, Inv, Turn, Flags
<1>3. World'
  <2>1. Stream' = Stream /\ queue' \in Seq(XEvents) /\ wire' \in Seq(XEvents)
    BY StreamRead DEF Inv, World, Dispatch
  <2>2. unsent' \cup doomed' \subseteq unsent \cup doomed
    BY DEF Dispatch, ReadAll
  <2> QED BY <1>1, <2>1, <2>2, WorldRead DEF Inv, view_vars
<1>4. Stores' /\ Counted'
  BY <1>1 DEF Inv, Turn, Stores, Counted
<1>5. Flags'
  BY <1>1, <1>2, ZenonT(40) DEF Inv, Turn, Flags
<1>6. Places'
  BY <1>1, <1>2 DEF Inv, Turn, Places, Steps
<1>7. Told'
  BY <1>1, <1>2 DEF Inv, Turn, Told
<1> QED BY <1>3, <1>4, <1>5, <1>6, <1>7 DEF Inv, Turn

\* It fails.
LEMMA DispatchFailsInv ==
  ASSUME Inv, DispatchFails
  PROVE  Inv'
<1>1. UNCHANGED <<env, first, inside, todo, borrowed, work, redraws, tokens,
                proxy_wake_up, ping, proxy_ping, remote, unsent, doomed, exists, xfocus,
                touching, active_window, first_touch, num_touch, listening, focused,
                primary, heard, alone, held, windows, wire, queue, gone, target, panicked>>
  BY DEF DispatchFails, iter_vars, chan_vars, wake_vars, server_vars, input_vars
<1>2. /\ step = "wait" /\ inside = "none" /\ exit' = TRUE /\ blocking' = FALSE
      /\ step' = "out" /\ running' = FALSE /\ phase' = "Off"
  BY DEF DispatchFails, At, Finish
<1>3. World'
  BY <1>1, WorldSame DEF Inv, view_vars
<1>4. Stores'
  BY <1>1 DEF Inv, Turn, Stores
<1>5. Flags'
  BY <1>1, <1>2, ZenonT(40) DEF Inv, Turn, Flags
<1>6. Places'
  BY <1>1, <1>2 DEF Inv, Turn, Places, Steps
<1>7. Counted'
  BY <1>1, OpCounted DEF Inv, Turn, DispatchFails
<1>8. Told'
  BY <1>1, <1>2 DEF Inv, Turn, Told
<1> QED BY <1>3, <1>4, <1>5, <1>6, <1>7, <1>8 DEF Inv, Turn

\* new_events, of a run or of an iteration.
LEMMA NewEventsInv ==
  ASSUME Inv, NewEvents
  PROVE  Inv'
<1>1. UNCHANGED <<env, blocking, running, first, exit, todo, borrowed, work, redraws,
                tokens, proxy_wake_up, ping, proxy_ping, remote, unsent, doomed, exists,
                xfocus, touching, active_window, first_touch, num_touch, listening,
                focused, primary, heard, alone, held, windows, wire, queue, gone, panicked,
                ops>>
  BY DEF NewEvents, iter_vars, chan_vars, wake_vars, server_vars, input_vars
<1>2. /\ step = "new_events" /\ inside = "none"
      /\ \/ first = TRUE /\ step' = "can_create" /\ inside' = "new_events_init" /\ phase' = "Init" /\ target' = None
         \/ first = FALSE /\ step' = "drain" /\ inside' = "new_events" /\ phase' = "Awake" /\ target' = None
  BY DEF NewEvents, At, Call, Inv, Turn, Flags
<1>3. World'
  BY <1>1, WorldSame DEF Inv, view_vars
<1>4. Flags' /\ Stores' /\ Counted'
  BY <1>1 DEF Inv, Turn, Flags, Stores, Counted
<1>5. Places'
  BY <1>1, <1>2 DEF Inv, Turn, Places, Steps
<1>6. Told'
  BY <1>1, <1>2 DEF Inv, Turn, Told
<1> QED BY <1>3, <1>4, <1>5, <1>6 DEF Inv, Turn

\* can_create_surfaces.
LEMMA CanCreateSurfacesInv ==
  ASSUME Inv, CanCreateSurfaces
  PROVE  Inv'
<1>1. UNCHANGED <<env, blocking, running, first, exit, todo, borrowed, work, redraws,
                tokens, proxy_wake_up, ping, proxy_ping, remote, unsent, doomed, exists,
                xfocus, touching, active_window, first_touch, num_touch, listening,
                focused, primary, heard, alone, held, windows, wire, queue, gone, panicked,
                ops>>
  BY DEF CanCreateSurfaces, iter_vars, chan_vars, wake_vars, server_vars, input_vars
<1>2. /\ step = "can_create" /\ inside = "none" /\ step' = "drain"
      /\ inside' = "can_create_surfaces" /\ phase' = "Awake" /\ target' = None
  BY DEF CanCreateSurfaces, At, Call
<1>3. World'
  BY <1>1, WorldSame DEF Inv, view_vars
<1>4. Flags' /\ Stores' /\ Counted'
  BY <1>1 DEF Inv, Turn, Flags, Stores, Counted
<1>5. Places'
  BY <1>1, <1>2 DEF Inv, Turn, Places, Steps
<1>6. Told'
  BY <1>1, <1>2 DEF Inv, Turn, Told
<1> QED BY <1>3, <1>4, <1>5, <1>6 DEF Inv, Turn

\* More is read.
LEMMA ReadMoreInv ==
  ASSUME Inv, ReadMore
  PROVE  Inv'
<1>1. UNCHANGED <<step, env, blocking, running, first, exit, phase, inside, todo,
                borrowed, work, redraws, tokens, proxy_wake_up, ping, proxy_ping, remote,
                exists, xfocus, touching, active_window, first_touch, num_touch, listening,
                focused, primary, heard, alone, held, windows, gone, target, panicked, ops>>
  BY DEF ReadMore, loop_vars, iter_vars, chan_vars, wake_vars, input_vars
<1>2. World'
  <2>1. Stream' = Stream /\ queue' \in Seq(XEvents) /\ wire' \in Seq(XEvents)
    BY StreamRead DEF Inv, World, ReadMore
  <2>2. unsent' \cup doomed' \subseteq unsent \cup doomed
    BY DEF ReadMore, ReadAll
  <2> QED BY <1>1, <2>1, <2>2, WorldRead DEF Inv, view_vars
<1>3. Flags' /\ Places' /\ Stores' /\ Counted' /\ Told'
  BY <1>1 DEF Inv, Turn, Flags, Places, Stores, Counted, Told
<1> QED BY <1>2, <1>3 DEF Inv, Turn

\* All is read.
LEMMA DrainEndInv ==
  ASSUME Inv, DrainEnd
  PROVE  Inv'
<1>1. UNCHANGED <<env, blocking, running, first, exit, phase, inside, todo, borrowed,
                work, redraws, tokens, proxy_wake_up, ping, proxy_ping, remote, unsent,
                doomed, exists, xfocus, touching, active_window, first_touch, num_touch,
                listening, focused, primary, heard, alone, held, windows, wire, queue,
                gone, target, panicked, ops>>
  BY DEF DrainEnd, iter_vars, chan_vars, wake_vars, server_vars, input_vars
<1>2. step = "drain" /\ inside = "none" /\ step' = "tokens"
  BY DEF DrainEnd, At
<1>3. World'
  BY <1>1, WorldSame DEF Inv, view_vars
<1>4. Flags' /\ Stores' /\ Counted'
  BY <1>1 DEF Inv, Turn, Flags, Stores, Counted
<1>5. Places'
  BY <1>1, <1>2 DEF Inv, Turn, Places, Steps
<1>6. Told'
  BY <1>1, <1>2 DEF Inv, Turn, Told
<1> QED BY <1>3, <1>4, <1>5, <1>6 DEF Inv, Turn

\* The application is told.
LEMMA EmitInv ==
  ASSUME Inv, Emit
  PROVE  Inv'
<1>1. UNCHANGED <<step, env, blocking, running, first, exit, work, borrowed, redraws,
                tokens, proxy_wake_up, ping, proxy_ping, remote, unsent, doomed, exists,
                xfocus, touching, active_window, first_touch, num_touch, listening,
                focused, primary, heard, alone, held, windows, wire, queue, gone, panicked,
                ops>>
  BY DEF Emit, chan_vars, wake_vars, server_vars, input_vars
<1>2. /\ step = "drain" /\ inside = "none" /\ todo # <<>> /\ todo' = Tail(todo)
      /\ \/ UNCHANGED <<inside, phase, target>>
         \/ inside' = "event" /\ phase' = "Awake" /\ target' = Head(todo)
  BY DEF Emit, At, Call, NoCall
<1>3. World'
  BY <1>1, WorldSame DEF Inv, view_vars
<1>4. Flags' /\ Counted'
  BY <1>1 DEF Inv, Turn, Flags, Counted
<1>5. Tail(todo) \in Seq(Windows) /\ Head(todo) \in Windows
  BY <1>2, TailOf DEF Inv, Turn, Stores
<1>6. Places'
  BY <1>1, <1>2, <1>5 DEF Inv, Turn, Places, Steps
<1>7. Stores'
  BY <1>1, <1>2, <1>5 DEF Inv, Turn, Stores
<1>8. Told'
  BY <1>1, <1>2 DEF Inv, Turn, Told
<1> QED BY <1>3, <1>4, <1>6, <1>7, <1>8 DEF Inv, Turn

\* The registry is released.
LEMMA EndBorrowInv ==
  ASSUME Inv, EndBorrow
  PROVE  Inv'
<1>1. UNCHANGED <<step, env, blocking, running, first, exit, phase, inside, todo, work,
                redraws, tokens, proxy_wake_up, ping, proxy_ping, remote, unsent, doomed,
                exists, xfocus, touching, active_window, first_touch, num_touch, listening,
                focused, primary, heard, alone, held, windows, wire, queue, gone, target,
                panicked, ops>>
  BY DEF EndBorrow, loop_vars, chan_vars, wake_vars, server_vars, input_vars
<1>2. borrowed' = FALSE
  BY DEF EndBorrow
<1>3. World'
  BY <1>1, WorldSame DEF Inv, view_vars
<1>4. Places' /\ Stores' /\ Counted' /\ Told'
  BY <1>1 DEF Inv, Turn, Places, Stores, Counted, Told
<1>5. Flags'
  BY <1>1, <1>2, ZenonT(40) DEF Inv, Turn, Flags
<1> QED BY <1>3, <1>4, <1>5 DEF Inv, Turn

\* A token is handed out, or its window is gone.
LEMMA TokenInv ==
  ASSUME Inv, Token
  PROVE  Inv'
<1>1. UNCHANGED <<step, env, blocking, running, first, exit, todo, borrowed, work,
                redraws, proxy_wake_up, ping, proxy_ping, remote, unsent, doomed, exists,
                xfocus, touching, active_window, first_touch, num_touch, listening,
                focused, primary, heard, alone, held, windows, wire, queue, gone, panicked,
                ops>>
  BY DEF Token, iter_vars, wake_vars, server_vars, input_vars
<1>2. /\ step = "tokens" /\ inside = "none" /\ tokens # <<>> /\ tokens' = Tail(tokens)
      /\ \/ UNCHANGED <<inside, phase, target>>
         \/ inside' = "event" /\ phase' = "Awake" /\ target' = Head(tokens)
  BY DEF Token, At, Call, NoCall
<1>3. World'
  BY <1>1, WorldSame DEF Inv, view_vars
<1>4. Flags' /\ Counted'
  BY <1>1 DEF Inv, Turn, Flags, Counted
<1>5. Tail(tokens) \in Seq(Windows) /\ Head(tokens) \in Windows
  BY <1>2, TailOf DEF Inv, Turn, Stores
<1>6. Places'
  BY <1>1, <1>2, <1>5 DEF Inv, Turn, Places, Steps
<1>7. Stores'
  BY <1>1, <1>2, <1>5 DEF Inv, Turn, Stores
<1>8. Told'
  BY <1>1, <1>2 DEF Inv, Turn, Told
<1> QED BY <1>3, <1>4, <1>6, <1>7, <1>8 DEF Inv, Turn

\* There are none left.
LEMMA TokensEndInv ==
  ASSUME Inv, TokensEnd
  PROVE  Inv'
<1>1. UNCHANGED <<env, blocking, running, first, exit, phase, inside, todo, borrowed,
                work, redraws, tokens, proxy_wake_up, ping, proxy_ping, remote, unsent,
                doomed, exists, xfocus, touching, active_window, first_touch, num_touch,
                listening, focused, primary, heard, alone, held, windows, wire, queue,
                gone, target, panicked, ops>>
  BY DEF TokensEnd, iter_vars, chan_vars, wake_vars, server_vars, input_vars
<1>2. step = "tokens" /\ inside = "none" /\ step' = "proxy"
  BY DEF TokensEnd, At
<1>3. World'
  BY <1>1, WorldSame DEF Inv, view_vars
<1>4. Flags' /\ Stores' /\ Counted'
  BY <1>1 DEF Inv, Turn, Flags, Stores, Counted
<1>5. Places'
  BY <1>1, <1>2 DEF Inv, Turn, Places, Steps
<1>6. Told'
  BY <1>1, <1>2 DEF Inv, Turn, Told
<1> QED BY <1>3, <1>4, <1>5, <1>6 DEF Inv, Turn

\* proxy_wake_up.
LEMMA ProxyWakeUpInv ==
  ASSUME Inv, ProxyWakeUp
  PROVE  Inv'
<1>1. UNCHANGED <<step, env, blocking, running, first, exit, todo, borrowed, work,
                redraws, tokens, ping, proxy_ping, remote, unsent, doomed, exists, xfocus,
                touching, active_window, first_touch, num_touch, listening, focused,
                primary, heard, alone, held, windows, wire, queue, gone, panicked, ops>>
  BY DEF ProxyWakeUp, iter_vars, chan_vars, server_vars, input_vars
<1>2. /\ step = "proxy" /\ inside = "none" /\ proxy_wake_up' = FALSE
      /\ inside' = "event" /\ phase' = "Awake" /\ target' = None
  BY DEF ProxyWakeUp, At, Call
<1>3. World'
  BY <1>1, WorldSame DEF Inv, view_vars
<1>4. Stores' /\ Counted'
  BY <1>1 DEF Inv, Turn, Stores, Counted
<1>5. Flags'
  BY <1>1, <1>2, ZenonT(40) DEF Inv, Turn, Flags
<1>6. Places'
  BY <1>1, <1>2 DEF Inv, Turn, Places, Steps
<1>7. Told'
  BY <1>1, <1>2 DEF Inv, Turn, Told
<1> QED BY <1>3, <1>4, <1>5, <1>6, <1>7 DEF Inv, Turn

\* The redraws are taken.
LEMMA TakeRedrawsInv ==
  ASSUME Inv, TakeRedraws
  PROVE  Inv'
<1>1. UNCHANGED <<env, blocking, running, first, exit, phase, inside, todo, borrowed,
                tokens, proxy_wake_up, ping, proxy_ping, remote, unsent, doomed, exists,
                xfocus, touching, active_window, first_touch, num_touch, listening,
                focused, primary, heard, alone, held, windows, wire, queue, gone, target,
                panicked, ops>>
  BY DEF TakeRedraws, wake_vars, server_vars, input_vars
<1>2. /\ step = "proxy" /\ inside = "none" /\ step' = "redraws"
      /\ work' = redraws /\ redraws' = {}
  BY DEF TakeRedraws, At
<1>3. World'
  BY <1>1, WorldSame DEF Inv, view_vars
<1>4. Flags' /\ Counted'
  BY <1>1 DEF Inv, Turn, Flags, Counted
<1>5. Places'
  BY <1>1, <1>2 DEF Inv, Turn, Places, Steps
<1>6. Stores'
  BY <1>1, <1>2 DEF Inv, Turn, Stores
<1>7. Told'
  BY <1>1, <1>2 DEF Inv, Turn, Told
<1> QED BY <1>3, <1>4, <1>5, <1>6, <1>7 DEF Inv, Turn

\* A window is asked to redraw.
LEMMA RedrawInv ==
  ASSUME Inv, NEW w \in Windows, Redraw(w)
  PROVE  Inv'
<1>1. UNCHANGED <<step, env, blocking, running, first, exit, todo, borrowed, redraws,
                tokens, proxy_wake_up, ping, proxy_ping, remote, unsent, doomed, exists,
                xfocus, touching, active_window, first_touch, num_touch, listening,
                focused, primary, heard, alone, held, windows, wire, queue, gone, panicked,
                ops>>
  BY DEF Redraw, chan_vars, wake_vars, server_vars, input_vars
<1>2. /\ step = "redraws" /\ inside = "none" /\ work' = work \ {w}
      /\ inside' = "event" /\ phase' = "Awake" /\ target' = w
  BY DEF Redraw, At, Call
<1>3. World'
  BY <1>1, WorldSame DEF Inv, view_vars
<1>4. Flags' /\ Counted'
  BY <1>1 DEF Inv, Turn, Flags, Counted
<1>5. Places'
  BY <1>1, <1>2 DEF Inv, Turn, Places, Steps
<1>6. Stores'
  BY <1>1, <1>2 DEF Inv, Turn, Stores
<1>7. Told'
  BY <1>1, <1>2 DEF Inv, Turn, Told
<1> QED BY <1>3, <1>4, <1>5, <1>6, <1>7 DEF Inv, Turn

\* about_to_wait.
LEMMA AboutToWaitInv ==
  ASSUME Inv, AboutToWait
  PROVE  Inv'
<1>1. UNCHANGED <<env, blocking, running, first, exit, todo, borrowed, work, redraws,
                tokens, proxy_wake_up, ping, proxy_ping, remote, unsent, doomed, exists,
                xfocus, touching, active_window, first_touch, num_touch, listening,
                focused, primary, heard, alone, held, windows, wire, queue, gone, panicked,
                ops>>
  BY DEF AboutToWait, iter_vars, chan_vars, wake_vars, server_vars, input_vars
<1>2. /\ step = "redraws" /\ inside = "none" /\ step' = "end"
      /\ inside' = "about_to_wait" /\ phase' = "Asleep" /\ target' = None
  BY DEF AboutToWait, At, Call
<1>3. World'
  BY <1>1, WorldSame DEF Inv, view_vars
<1>4. Flags' /\ Stores' /\ Counted'
  BY <1>1 DEF Inv, Turn, Flags, Stores, Counted
<1>5. Places'
  BY <1>1, <1>2 DEF Inv, Turn, Places, Steps
<1>6. Told'
  BY <1>1, <1>2 DEF Inv, Turn, Told
<1> QED BY <1>3, <1>4, <1>5, <1>6 DEF Inv, Turn

\* The iteration ends.
LEMMA EndIterationInv ==
  ASSUME Inv, EndIteration
  PROVE  Inv'
<1>1. UNCHANGED <<env, blocking, exit, inside, todo, borrowed, work, redraws, tokens,
                proxy_wake_up, ping, proxy_ping, remote, unsent, doomed, exists, xfocus,
                touching, active_window, first_touch, num_touch, listening, focused,
                primary, heard, alone, held, windows, wire, queue, gone, target, panicked,
                ops>>
  BY DEF EndIteration, iter_vars, chan_vars, wake_vars, server_vars, input_vars
<1>2. /\ step = "end" /\ inside = "none" /\ first' = FALSE
      /\ \/ step' = "poll" /\ UNCHANGED <<running, phase>>
         \/ step' = "out" /\ running' = TRUE /\ UNCHANGED phase
         \/ step' = "out" /\ running' = FALSE /\ phase' = "Off"
  BY DEF EndIteration, At, Finish, Inv, Turn, Flags
<1>3. World'
  BY <1>1, WorldSame DEF Inv, view_vars
<1>4. Stores' /\ Counted'
  BY <1>1 DEF Inv, Turn, Stores, Counted
<1>5. Flags'
  BY <1>1, <1>2, ZenonT(40) DEF Inv, Turn, Flags
<1>6. Places'
  BY <1>1, <1>2 DEF Inv, Turn, Places, Steps
<1>7. Told'
  BY <1>1, <1>2 DEF Inv, Turn, Told
<1> QED BY <1>3, <1>4, <1>5, <1>6, <1>7 DEF Inv, Turn

\* A callback returns.
LEMMA ReturnInv ==
  ASSUME Inv, Return
  PROVE  Inv'
<1>1. UNCHANGED <<step, env, blocking, running, first, exit, phase, todo, borrowed, work,
                redraws, tokens, proxy_wake_up, ping, proxy_ping, remote, unsent, doomed,
                exists, xfocus, touching, active_window, first_touch, num_touch, listening,
                focused, primary, heard, alone, held, windows, wire, queue, gone, panicked,
                ops>>
  BY DEF Return, iter_vars, chan_vars, wake_vars, server_vars, input_vars
<1>2. inside # "none" /\ inside' = "none" /\ target' = None
  BY DEF Return
<1>3. World'
  BY <1>1, WorldSame DEF Inv, view_vars
<1>4. Flags' /\ Stores' /\ Counted'
  BY <1>1 DEF Inv, Turn, Flags, Stores, Counted
<1>5. Places'
  BY <1>1, <1>2 DEF Inv, Turn, Places, Steps
<1>6. Told'
  BY <1>1, <1>2 DEF Inv, Turn, Told
<1> QED BY <1>3, <1>4, <1>5, <1>6 DEF Inv, Turn

\* The application exits, ...
LEMMA ExitInv ==
  ASSUME Inv, Exit
  PROVE  Inv'
<1>1. UNCHANGED <<step, env, blocking, running, first, phase, inside, todo, borrowed,
                work, redraws, tokens, proxy_wake_up, ping, proxy_ping, remote, unsent,
                doomed, exists, xfocus, touching, active_window, first_touch, num_touch,
                listening, focused, primary, heard, alone, held, windows, wire, queue,
                gone, target, panicked>>
  BY DEF Exit, iter_vars, chan_vars, wake_vars, server_vars, input_vars
<1>2. exit' = TRUE
  BY DEF Exit
<1>3. World'
  BY <1>1, WorldSame DEF Inv, view_vars
<1>4. Places' /\ Stores' /\ Told'
  BY <1>1 DEF Inv, Turn, Places, Stores, Told
<1>5. Flags'
  BY <1>1, <1>2, ZenonT(40) DEF Inv, Turn, Flags
<1>6. Counted'
  BY <1>1, OpCounted DEF Inv, Turn, Exit
<1> QED BY <1>3, <1>4, <1>5, <1>6 DEF Inv, Turn

\* ... requests a redraw, ...
LEMMA RequestRedrawInv ==
  ASSUME Inv, NEW w \in Windows, RequestRedraw(w)
  PROVE  Inv'
<1>1. UNCHANGED <<step, env, blocking, running, first, exit, phase, inside, todo,
                borrowed, work, tokens, proxy_wake_up, proxy_ping, remote, unsent, doomed,
                exists, xfocus, touching, active_window, first_touch, num_touch, listening,
                focused, primary, heard, alone, held, windows, wire, queue, gone, target,
                panicked>>
  BY DEF RequestRedraw, loop_vars, iter_vars, server_vars, input_vars
<1>2. redraws' = redraws \cup {w} /\ ping' = TRUE
  BY DEF RequestRedraw
<1>3. World'
  BY <1>1, WorldSame DEF Inv, view_vars
<1>4. Places' /\ Told'
  BY <1>1 DEF Inv, Turn, Places, Told
<1>5. Flags'
  BY <1>1, <1>2, ZenonT(40) DEF Inv, Turn, Flags
<1>6. Stores'
  BY <1>1, <1>2 DEF Inv, Turn, Stores
<1>7. Counted'
  BY <1>1, OpCounted DEF Inv, Turn, RequestRedraw
<1> QED BY <1>3, <1>4, <1>5, <1>6, <1>7 DEF Inv, Turn

\* ... or a token, ...
LEMMA RequestTokenInv ==
  ASSUME Inv, NEW w \in Windows, RequestToken(w)
  PROVE  Inv'
<1>1. UNCHANGED <<step, env, blocking, running, first, exit, phase, inside, todo,
                borrowed, work, redraws, proxy_wake_up, proxy_ping, remote, unsent, doomed,
                exists, xfocus, touching, active_window, first_touch, num_touch, listening,
                focused, primary, heard, alone, held, windows, wire, queue, gone, target,
                panicked>>
  BY DEF RequestToken, loop_vars, iter_vars, server_vars, input_vars
<1>2. tokens' = Append(tokens, w) /\ ping' = TRUE
  BY DEF RequestToken
<1>3. World'
  BY <1>1, WorldSame DEF Inv, view_vars
<1>4. Places' /\ Told'
  BY <1>1 DEF Inv, Turn, Places, Told
<1>5. Flags'
  BY <1>1, <1>2, ZenonT(40) DEF Inv, Turn, Flags
<1>6. Stores'
  BY <1>1, <1>2, Appended DEF Inv, Turn, Stores
<1>7. Counted'
  BY <1>1, OpCounted DEF Inv, Turn, RequestToken
<1> QED BY <1>3, <1>4, <1>5, <1>6, <1>7 DEF Inv, Turn

\* ... drops a window, ...
LEMMA DropWindowInv ==
  ASSUME Inv, NEW w \in Windows, DropWindow(w)
  PROVE  Inv'
<1>1. UNCHANGED <<step, env, blocking, running, first, exit, phase, inside, todo,
                borrowed, work, redraws, tokens, proxy_wake_up, ping, proxy_ping, remote,
                doomed, exists, xfocus, touching, active_window, first_touch, num_touch,
                listening, focused, primary, heard, alone, windows, wire, queue, gone,
                target, panicked>>
  BY DEF DropWindow, loop_vars, iter_vars, chan_vars, wake_vars, input_vars
<1>2. World'
  BY <1>1, WorldDrop DEF Inv, DropWindow
<1>3. Flags' /\ Places' /\ Stores' /\ Told'
  BY <1>1 DEF Inv, Turn, Flags, Places, Stores, Told
<1>4. Counted'
  BY <1>1, OpCounted DEF Inv, Turn, DropWindow
<1> QED BY <1>2, <1>3, <1>4 DEF Inv, Turn

\* ... or creates one.
LEMMA CreateInv ==
  ASSUME Inv, NEW w \in Windows, Create(w)
  PROVE  Inv'
<1>1. UNCHANGED <<step, env, blocking, running, first, exit, phase, inside, todo,
                borrowed, work, redraws, tokens, proxy_wake_up, ping, proxy_ping, remote,
                unsent, doomed, xfocus, touching, active_window, first_touch, num_touch,
                listening, focused, primary, heard, alone, queue, gone, target, ops>>
  BY DEF Create, loop_vars, iter_vars, chan_vars, wake_vars, input_vars
<1>2. panicked' \in BOOLEAN
  BY DEF Create, Inv, Turn, Flags
<1>3. World'
  BY WorldCreate DEF Inv
<1>4. Places' /\ Stores' /\ Counted' /\ Told'
  BY <1>1 DEF Inv, Turn, Places, Stores, Counted, Told
<1>5. Flags'
  BY <1>1, <1>2, ZenonT(40) DEF Inv, Turn, Flags
<1> QED BY <1>3, <1>4, <1>5 DEF Inv, Turn

\* The proxy is woken up.
LEMMA WakeUpInv ==
  ASSUME Inv, WakeUp
  PROVE  Inv'
<1>1. UNCHANGED <<step, env, blocking, running, first, exit, phase, inside, todo,
                borrowed, work, redraws, tokens, proxy_wake_up, ping, remote, unsent,
                doomed, exists, xfocus, touching, active_window, first_touch, num_touch,
                listening, focused, primary, heard, alone, held, windows, wire, queue,
                gone, target, panicked>>
  BY DEF WakeUp, loop_vars, iter_vars, chan_vars, server_vars, input_vars
<1>2. proxy_ping' = TRUE
  BY DEF WakeUp
<1>3. World'
  BY <1>1, WorldSame DEF Inv, view_vars
<1>4. Places' /\ Stores' /\ Told'
  BY <1>1 DEF Inv, Turn, Places, Stores, Told
<1>5. Flags'
  BY <1>1, <1>2, ZenonT(40) DEF Inv, Turn, Flags
<1>6. Counted'
  BY <1>1, OpCounted DEF Inv, Turn, WakeUp
<1> QED BY <1>3, <1>4, <1>5, <1>6 DEF Inv, Turn

\* The second thread requests a redraw, ...
LEMMA RemoteRedrawInv ==
  ASSUME Inv, NEW w \in Windows, RemoteRedraw(w)
  PROVE  Inv'
<1>1. UNCHANGED <<step, env, blocking, running, first, exit, phase, inside, todo,
                borrowed, work, tokens, proxy_wake_up, ping, proxy_ping, unsent, doomed,
                exists, xfocus, touching, active_window, first_touch, num_touch, listening,
                focused, primary, heard, alone, held, windows, wire, queue, gone, target,
                panicked>>
  BY DEF RemoteRedraw, loop_vars, iter_vars, server_vars, input_vars
<1>2. redraws' = redraws \cup {w} /\ remote' = TRUE
  BY DEF RemoteRedraw
<1>3. World'
  BY <1>1, WorldSame DEF Inv, view_vars
<1>4. Places' /\ Told'
  BY <1>1 DEF Inv, Turn, Places, Told
<1>5. Flags'
  BY <1>1, <1>2, ZenonT(40) DEF Inv, Turn, Flags
<1>6. Stores'
  BY <1>1, <1>2 DEF Inv, Turn, Stores
<1>7. Counted'
  BY <1>1, OpCounted DEF Inv, Turn, RemoteRedraw
<1> QED BY <1>3, <1>4, <1>5, <1>6, <1>7 DEF Inv, Turn

\* ... or a token, ...
LEMMA RemoteTokenInv ==
  ASSUME Inv, NEW w \in Windows, RemoteToken(w)
  PROVE  Inv'
<1>1. UNCHANGED <<step, env, blocking, running, first, exit, phase, inside, todo,
                borrowed, work, redraws, proxy_wake_up, ping, proxy_ping, unsent, doomed,
                exists, xfocus, touching, active_window, first_touch, num_touch, listening,
                focused, primary, heard, alone, held, windows, wire, queue, gone, target,
                panicked>>
  BY DEF RemoteToken, loop_vars, iter_vars, server_vars, input_vars
<1>2. tokens' = Append(tokens, w) /\ remote' = TRUE
  BY DEF RemoteToken
<1>3. World'
  BY <1>1, WorldSame DEF Inv, view_vars
<1>4. Places' /\ Told'
  BY <1>1 DEF Inv, Turn, Places, Told
<1>5. Flags'
  BY <1>1, <1>2, ZenonT(40) DEF Inv, Turn, Flags
<1>6. Stores'
  BY <1>1, <1>2, Appended DEF Inv, Turn, Stores
<1>7. Counted'
  BY <1>1, OpCounted DEF Inv, Turn, RemoteToken
<1> QED BY <1>3, <1>4, <1>5, <1>6, <1>7 DEF Inv, Turn

\* ... pings, ...
LEMMA RemotePingInv ==
  ASSUME Inv, RemotePing
  PROVE  Inv'
<1>1. UNCHANGED <<step, env, blocking, running, first, exit, phase, inside, todo,
                borrowed, work, redraws, tokens, proxy_wake_up, proxy_ping, unsent, doomed,
                exists, xfocus, touching, active_window, first_touch, num_touch, listening,
                focused, primary, heard, alone, held, windows, wire, queue, gone, target,
                panicked, ops>>
  BY DEF RemotePing, loop_vars, iter_vars, chan_vars, server_vars, input_vars
<1>2. remote' = FALSE /\ ping' = TRUE
  BY DEF RemotePing
<1>3. World'
  BY <1>1, WorldSame DEF Inv, view_vars
<1>4. Places' /\ Stores' /\ Counted' /\ Told'
  BY <1>1 DEF Inv, Turn, Places, Stores, Counted, Told
<1>5. Flags'
  BY <1>1, <1>2, ZenonT(40) DEF Inv, Turn, Flags
<1> QED BY <1>3, <1>4, <1>5 DEF Inv, Turn

\* ... drops a window, ...
LEMMA RemoteDropInv ==
  ASSUME Inv, NEW w \in Windows, RemoteDrop(w)
  PROVE  Inv'
<1>1. UNCHANGED <<step, env, blocking, running, first, exit, phase, inside, todo,
                borrowed, work, redraws, tokens, proxy_wake_up, ping, proxy_ping, remote,
                doomed, exists, xfocus, touching, active_window, first_touch, num_touch,
                listening, focused, primary, heard, alone, windows, wire, queue, gone,
                target, panicked>>
  BY DEF RemoteDrop, loop_vars, iter_vars, chan_vars, wake_vars, input_vars
<1>2. World'
  BY <1>1, WorldDrop DEF Inv, RemoteDrop
<1>3. Flags' /\ Places' /\ Stores' /\ Told'
  BY <1>1 DEF Inv, Turn, Flags, Places, Stores, Told
<1>4. Counted'
  BY <1>1, OpCounted DEF Inv, Turn, RemoteDrop
<1> QED BY <1>2, <1>3, <1>4 DEF Inv, Turn

\* ... or makes a round trip.
LEMMA RemoteRoundTripInv ==
  ASSUME Inv, RemoteRoundTrip
  PROVE  Inv'
<1>1. UNCHANGED <<step, env, blocking, running, first, exit, phase, inside, todo,
                borrowed, work, redraws, tokens, proxy_wake_up, ping, proxy_ping, remote,
                exists, xfocus, touching, active_window, first_touch, num_touch, listening,
                focused, primary, heard, alone, held, windows, gone, target, panicked>>
  BY DEF RemoteRoundTrip, loop_vars, iter_vars, chan_vars, wake_vars, input_vars
<1>2. World'
  <2>1. Stream' = Stream /\ queue' \in Seq(XEvents) /\ wire' \in Seq(XEvents)
    BY StreamRead DEF Inv, World, RemoteRoundTrip
  <2>2. unsent' \cup doomed' \subseteq unsent \cup doomed
    BY DEF RemoteRoundTrip, ReadAll
  <2> QED BY <1>1, <2>1, <2>2, WorldRead DEF Inv, view_vars
<1>3. Flags' /\ Places' /\ Stores' /\ Told'
  BY <1>1 DEF Inv, Turn, Flags, Places, Stores, Told
<1>4. Counted'
  BY <1>1, OpCounted DEF Inv, Turn, RemoteRoundTrip
<1> QED BY <1>2, <1>3, <1>4 DEF Inv, Turn

\* A handler only leaves things in todo.
LEMMA HandlerInv ==
  ASSUME Inv, World', todo' \in Seq(Windows), borrowed' \in BOOLEAN, listening' \in BOOLEAN,
         UNCHANGED <<loop_vars, work, chan_vars, wake_vars, target, panicked, ops>>
  PROVE  Inv'
<1>1. UNCHANGED <<step, env, blocking, running, first, exit, phase, inside, work, redraws, tokens,
                  proxy_wake_up, ping, proxy_ping, remote, target, panicked, ops>>
  BY DEF loop_vars, chan_vars, wake_vars
<1>2. Flags'
  BY <1>1 DEF Inv, Turn, Flags
<1>3. Places' /\ Counted' /\ Told'
  BY <1>1 DEF Inv, Turn, Places, Counted, Told
<1>4. Stores'
  BY <1>1 DEF Inv, Turn, Stores
<1> QED BY <1>2, <1>3, <1>4 DEF Inv, Turn

\* What a handler may leave is true of the window of its event.
LEMMA TakenIs ==
  ASSUME Inv, NEW kinds, Take(kinds), wire' = wire
  PROVE  /\ World /\ Ev.kind \in kinds /\ todo = <<>>
         /\ kinds \cap ToAll = {} => Ev.w \in Windows
<1>1. World /\ Streamed /\ Ever \subseteq Windows
  BY WindowsAre DEF Inv, World
<1>2. Ev = Stream[1] /\ Ev.kind \in kinds /\ Said(Stream[1])
  BY <1>1, StreamTaken
<1> QED BY <1>1, <1>2 DEF Said, Take

\* The active window, if there is one.
LEMMA ActiveIs ==
  ASSUME World
  PROVE  /\ Active \in Seq(Windows) /\ <<>> \in Seq(Windows)
<1>1. active_window \in Windows \cup {None}
  BY WindowsAre DEF World, Registered
<1>2. active_window \in Windows => <<active_window>> \in Seq(Windows)
  BY Repeated
<1> QED BY <1>1, <1>2 DEF Active

\* The registry as a sequence.
LEMMA RegistryIs ==
  ASSUME World
  PROVE  SetToSeq(windows) \in Seq(Windows)
<1>1. windows \subseteq Windows
  BY DEF World, Registered
<1>2. IsFiniteSet(windows) /\ Cardinality(windows) \in Nat
  BY <1>1, X11Assumption, FS_Subset, FS_CardinalityType
<1>3. \E f \in [1 .. Cardinality(windows) -> windows] : IsInjective(f)
  <2>1. \E f \in Bijection(1 .. Cardinality(windows), windows) : TRUE
    BY <1>2, FS_CardinalityType DEF ExistsBijection
  <2> QED BY <2>1 DEF Bijection, Injection, IsInjective
<1>4. SetToSeq(windows) \in [1 .. Cardinality(windows) -> windows]
  BY <1>3 DEF SetToSeq
<1>5. SetToSeq(windows) \in Seq(windows)
  BY <1>2, <1>4
<1> QED BY <1>1, <1>5

\* The handlers.
LEMMA HandlersInv ==
  ASSUME Inv, Handlers
  PROVE  Inv'
<1>1. /\ borrowed \in BOOLEAN /\ listening \in BOOLEAN /\ todo \in Seq(Windows)
      /\ <<>> \in Seq(Windows) /\ World
  BY DEF Inv, Turn, Flags, Stores
<1>2. CASE PlainEvent
  <2>1. Take({"close", "map"}) /\ todo' = <<Ev.w>>
        /\ UNCHANGED <<loop_vars, borrowed, listening, work, chan_vars, wake_vars, target,
                       panicked, ops>>
    BY <1>2 DEF PlainEvent, input_vars
  <2>2. Ev.w \in Windows
    BY <1>2, <2>1, TakenIs DEF PlainEvent, ToAll
  <2>3. World'
    BY <1>1, <1>2, <2>1, WorldPassed DEF PlainEvent, view_vars, server_vars, input_vars
  <2>4. todo' \in Seq(Windows)
    BY <2>1, <2>2, Repeated
  <2> QED BY <1>1, <2>1, <2>3, <2>4, HandlerInv
<1>3. CASE Expose
  <2>1. /\ Take({"expose"}) /\ redraws' = redraws \cup {Ev.w} /\ ping' = TRUE
        /\ UNCHANGED <<step, env, blocking, running, first, exit, phase, inside, todo, borrowed,
                       work, tokens, proxy_wake_up, proxy_ping, remote, listening, target,
                       panicked, ops>>
    BY <1>3 DEF Expose, loop_vars, iter_vars, input_vars
  <2>2. Ev.w \in Windows
    BY <1>3, <2>1, TakenIs DEF Expose, ToAll
  <2>3. World'
    BY <1>1, <1>3, <2>1, WorldPassed DEF Expose, view_vars, server_vars, input_vars
  <2>4. Flags'
    BY <2>1, ZenonT(40) DEF Inv, Turn, Flags
  <2>5. Places' /\ Counted' /\ Told'
    BY <2>1 DEF Inv, Turn, Places, Counted, Told
  <2>6. Stores'
    BY <2>1, <2>2 DEF Inv, Turn, Stores
  <2> QED BY <2>3, <2>4, <2>5, <2>6 DEF Inv, Turn
<1>4. CASE Configure
  <2>1. Take({"configure"})
        /\ UNCHANGED <<loop_vars, borrowed, listening, work, chan_vars, wake_vars, target,
                       panicked, ops>>
    BY <1>4 DEF Configure, input_vars
  <2>2. Ev.w \in Windows
    BY <1>4, <2>1, TakenIs DEF Configure, ToAll
  <2>3. World'
    BY <1>1, <1>4, <2>1, WorldPassed DEF Configure, view_vars, server_vars, input_vars
  <2>4. \E n \in 0 .. 3 : todo' = [i \in 1 .. n |-> Ev.w]
    BY <1>4 DEF Configure
  <2>5. todo' \in Seq(Windows)
    BY <2>2, <2>4
  <2> QED BY <1>1, <2>1, <2>3, <2>5, HandlerInv
<1>5. CASE KeyEvent
  <2>1. Take({"key", "mods"})
        /\ UNCHANGED <<loop_vars, borrowed, listening, work, chan_vars, wake_vars, target,
                       panicked, ops>>
    BY <1>5 DEF KeyEvent, input_vars
  <2>2. World'
    BY <1>1, <1>5, <2>1, WorldPassed DEF KeyEvent, view_vars, server_vars, input_vars
  <2>3. \E a, b \in {<<>>, Active} : todo' = a \o b
    BY <1>5 DEF KeyEvent
  <2>4. todo' \in Seq(Windows)
    BY <1>1, <2>3, ActiveIs, ConcatProperties
  <2> QED BY <1>1, <2>1, <2>2, <2>4, HandlerInv
<1>6. CASE PointerEvent
  <2>1. Take({"button", "motion"})
        /\ UNCHANGED <<loop_vars, borrowed, listening, work, chan_vars, wake_vars, target,
                       panicked, ops>>
    BY <1>6 DEF PointerEvent, input_vars
  <2>2. Ev.w \in Windows
    BY <1>6, <2>1, TakenIs DEF PointerEvent, ToAll
  <2>3. World'
    BY <1>1, <1>6, <2>1, WorldPassed DEF PointerEvent, view_vars, server_vars, input_vars
  <2>4. \E a \in {<<>>, Active}, b \in {<<>>, <<Ev.w>>} : todo' = a \o b
    BY <1>6 DEF PointerEvent
  <2>5. todo' \in Seq(Windows)
    <3>1. PICK a \in {<<>>, Active}, b \in {<<>>, <<Ev.w>>} : todo' = a \o b
      BY <2>4
    <3>2. a \in Seq(Windows) /\ b \in Seq(Windows)
      BY <1>1, <2>2, ActiveIs, Repeated
    <3> QED BY <3>1, <3>2, ConcatProperties
  <2> QED BY <1>1, <2>1, <2>3, <2>5, HandlerInv
<1>7. CASE FocusIn
  <2>1. /\ Take({"focus_in"}) /\ listening' \in BOOLEAN
        /\ todo' = todo \/ todo' = <<Ev.w, Ev.w, Ev.w>>
        /\ UNCHANGED <<loop_vars, borrowed, work, chan_vars, wake_vars, target, panicked, ops>>
    BY <1>1, <1>7 DEF FocusIn
  <2>2. Ev.w \in Windows
    BY <1>7, <2>1, TakenIs DEF FocusIn, ToAll
  <2>3. todo' \in Seq(Windows)
    BY <1>1, <2>1, <2>2, Repeated
  <2> QED BY <1>1, <1>7, <2>1, <2>3, HandlerInv, WorldFocusIn
<1>8. CASE FocusOut
  <2>1. /\ Take({"focus_out"}) /\ listening' \in BOOLEAN
        /\ todo' = todo \/ todo' = <<Ev.w, Ev.w>>
        /\ UNCHANGED <<loop_vars, borrowed, work, chan_vars, wake_vars, target, panicked, ops>>
    BY <1>1, <1>8 DEF FocusOut
  <2>2. Ev.w \in Windows
    BY <1>8, <2>1, TakenIs DEF FocusOut, ToAll
  <2>3. todo' \in Seq(Windows)
    BY <1>1, <2>1, <2>2, Repeated
  <2> QED BY <1>1, <1>8, <2>1, <2>3, HandlerInv, WorldFocusOut
<1>9. CASE TouchBegin
  <2>1. /\ Take({"touch_begin"})
        /\ todo' = todo \/ todo' = <<Ev.w, Ev.w>> \/ todo' = <<Ev.w, Ev.w, Ev.w>>
        /\ UNCHANGED <<loop_vars, borrowed, listening, work, chan_vars, wake_vars, target,
                       panicked, ops>>
    BY <1>9 DEF TouchBegin
  <2>2. Ev.w \in Windows
    BY <1>9, <2>1, TakenIs DEF TouchBegin, ToAll
  <2>3. todo' \in Seq(Windows)
    BY <1>1, <2>1, <2>2, Repeated
  <2> QED BY <1>1, <1>9, <2>1, <2>3, HandlerInv, WorldTouchBegin
<1>10. CASE TouchEnd
  <2>1. /\ Take({"touch_end"})
        /\ todo' = todo \/ todo' = <<Ev.w, Ev.w>>
        /\ UNCHANGED <<loop_vars, borrowed, listening, work, chan_vars, wake_vars, target,
                       panicked, ops>>
    BY <1>10 DEF TouchEnd
  <2>2. Ev.w \in Windows
    BY <1>10, <2>1, TakenIs DEF TouchEnd, ToAll
  <2>3. todo' \in Seq(Windows)
    BY <1>1, <2>1, <2>2, Repeated
  <2> QED BY <1>1, <1>10, <2>1, <2>3, HandlerInv, WorldTouchEnd
<1>11. CASE DestroyNotify
  <2>1. /\ Take({"destroy"}) /\ todo' = <<Ev.w>>
        /\ UNCHANGED <<loop_vars, borrowed, listening, work, chan_vars, wake_vars, target,
                       panicked, ops>>
    BY <1>11 DEF DestroyNotify
  <2>2. Ev.w \in Windows
    BY <1>11, <2>1, TakenIs DEF DestroyNotify, ToAll
  <2>3. todo' \in Seq(Windows)
    BY <2>1, <2>2, Repeated
  <2> QED BY <1>1, <1>11, <2>1, <2>3, HandlerInv, WorldDestroyNotify
<1>12. CASE DpiChange
  <2>1. /\ Take({"dpi"}) /\ todo' = SetToSeq(windows) /\ borrowed' \in BOOLEAN
        /\ UNCHANGED <<loop_vars, listening, work, chan_vars, wake_vars, target, panicked, ops>>
    BY <1>12 DEF DpiChange, input_vars
  <2>2. World'
    BY <1>1, <1>12, <2>1, WorldPassed DEF DpiChange, view_vars, server_vars, input_vars
  <2> QED BY <1>1, <2>1, <2>2, HandlerInv, RegistryIs
<1> QED BY <1>2, <1>3, <1>4, <1>5, <1>6, <1>7, <1>8, <1>9, <1>10, <1>11, <1>12 DEF Handlers

\* What the server says and does, outside the loop.
LEMMA OutsideInv ==
  ASSUME Inv, World', Op \/ UNCHANGED ops, Quiet
  PROVE  Inv'
<1>1. UNCHANGED <<step, env, blocking, running, first, exit, phase, inside, todo, borrowed, work,
                  redraws, tokens, proxy_wake_up, ping, proxy_ping, remote, listening, target,
                  panicked>>
  BY DEF Quiet, loop_vars, iter_vars, chan_vars, wake_vars
<1>2. Flags'
  BY <1>1 DEF Inv, Turn, Flags
<1>3. Places' /\ Told'
  BY <1>1 DEF Inv, Turn, Places, Told
<1>4. Stores'
  BY <1>1 DEF Inv, Turn, Stores
<1>5. Counted'
  BY <1>1, OpCounted DEF Inv, Turn, Counted
<1> QED BY <1>2, <1>3, <1>4, <1>5 DEF Inv, Turn

\* The server.
LEMMA ServerInv ==
  ASSUME Inv, Server \/ ServerWork
  PROVE  Inv'
<1>1. World
  BY DEF Inv
<1>2. ASSUME NEW w \in Windows \cup {None}, Focus(w)
      PROVE  Inv'
  BY <1>1, <1>2, WorldFocus, OutsideInv DEF Focus
<1>3. ASSUME NEW f \in Fingers, NEW w \in Windows, Touch(f, w)
      PROVE  Inv'
  BY <1>1, <1>3, WorldTouch, OutsideInv DEF Touch
<1>4. ASSUME NEW f \in Fingers, Lift(f)
      PROVE  Inv'
  BY <1>1, <1>4, WorldLift, OutsideInv DEF Lift
<1>5. ASSUME NEW k, NEW w \in Windows, Notify(k, w)
      PROVE  Inv'
  BY <1>1, <1>5, WorldNotify, OutsideInv DEF Notify
<1>6. ASSUME NEW k, Broadcast(k)
      PROVE  Inv'
  BY <1>1, <1>6, WorldBroadcast, OutsideInv DEF Broadcast
<1>7. ASSUME NEW w \in Windows, Kill(w)
      PROVE  Inv'
  BY <1>1, <1>7, WorldKill, OutsideInv DEF Kill
<1>8. ASSUME NEW w \in Windows, DestroyDoomed(w)
      PROVE  Inv'
  BY <1>1, <1>8, WorldDestroyDoomed, OutsideInv DEF DestroyDoomed
<1> QED BY <1>2, <1>3, <1>4, <1>5, <1>6, <1>7, <1>8 DEF Server, ServerWork

----
(* The invariant *)

\* It holds before the first pump.
LEMMA InitInv ==
  ASSUME Init
  PROVE  Inv
<1>1. Flags /\ Places /\ Told
  BY DEF Init, Flags, Places, Steps, Told
<1>2. Stores
  BY DEF Init, Stores
<1>3. Counted
  BY X11Assumption DEF Init, Counted
<1>4. Ever = {} /\ Stream = <<>> /\ Len(Stream) = 0 /\ DOMAIN Stream = {}
      /\ <<>> \in Seq(XEvents)
  <2>1. queue = <<>> /\ wire = <<>> /\ windows = {} /\ gone = {}
    BY DEF Init
  <2>2. <<>> \o <<>> = <<>>
    OBVIOUS
  <2> QED BY <2>1, <2>2 DEF Ever, Stream
<1>5. Registered
  BY DEF Init, Registered, Ever
<1>6. Streamed
  BY <1>4 DEF Init, Streamed
<1>7. Followed
  <2> DEFINE at == [i \in 0 .. 0 |-> None]
  <2>1. at \in [0 .. 0 -> Ever \cup {None}] /\ at[0] = None
    OBVIOUS
  <2> HIDE DEF at
  <2>2. ~ \E i \in 1 .. 0 : TRUE
    OBVIOUS
  <2>3. Trace(at, Stream, xfocus, Ever \cup {None})
    BY <1>4, <2>1, <2>2 DEF Init, Trace
  <2>4. Agrees(at[0])
    BY DEF Init, Agrees
  <2> QED BY <1>4, <2>1, <2>3, <2>4 DEF Followed
<1>8. Fingered
  <2>1. touching = [f \in Fingers |-> None] /\ heard = touching /\ windows = {}
    BY DEF Init
  <2>2. Due(Stream, touching, heard, windows \cap held)
    BY <1>4, <2>1 DEF Due, Once
  <2> QED BY <2>1, <2>2 DEF Fingered
<1>9. Series
  <2>1. Known = {}
    BY DEF Init, Known
  <2>2. Cardinality(Known) = 0
    BY <2>1, FS_EmptySet
  <2> QED BY <2>2 DEF Init, Series
<1> QED BY <1>1, <1>2, <1>3, <1>5, <1>6, <1>7, <1>8, <1>9 DEF Inv, Turn, World

\* A step that changes nothing keeps it.
LEMMA StutterInv ==
  ASSUME Inv, UNCHANGED vars
  PROVE  Inv'
<1>1. Quiet /\ UNCHANGED <<wire, server_vars, ops>>
  BY DEF vars, Quiet, input_vars
<1>2. World'
  BY <1>1, WorldSame DEF Inv, Quiet, server_vars, view_vars
<1> QED BY <1>1, <1>2, OutsideInv

\* So does every step.
LEMMA NextInv ==
  ASSUME Inv, [Next]_vars
  PROVE  Inv'
<1>1. CASE Iteration
  BY <1>1, NewEventsInv, CanCreateSurfacesInv, ReadMoreInv, DrainEndInv, HandlersInv, EmitInv,
     EndBorrowInv, TokenInv, TokensEndInv, ProxyWakeUpInv, TakeRedrawsInv, AboutToWaitInv,
     EndIterationInv, RedrawInv
     DEF Iteration
<1>2. CASE StartPump \/ CheckPending \/ Dispatch \/ Return \/ ClearExit \/ DispatchFails
  BY <1>2, StartPumpInv, CheckPendingInv, DispatchInv, ReturnInv, ClearExitInv, DispatchFailsInv
<1>3. CASE App
  BY <1>3, ExitInv, WakeUpInv, RemotePingInv, RemoteRoundTripInv, CreateInv, DropWindowInv,
     RequestRedrawInv, RequestTokenInv, RemoteRedrawInv, RemoteTokenInv, RemoteDropInv
     DEF App
<1>4. CASE UNCHANGED vars
  BY <1>4, StutterInv
<1> QED BY <1>1, <1>2, <1>3, <1>4, ServerInv DEF Next, Loop

\* The invariant of the event loop.
LEMMA Invariance == Spec => []Inv
<1>1. Init => Inv
  BY InitInv
<1>2. Inv /\ [Next]_vars => Inv'
  BY NextInv
<1> QED BY <1>1, <1>2, PTL DEF Spec

\* Its parts are the types.
LEMMA Parts == Inv => TypeOK
<1> SUFFICES ASSUME Inv
             PROVE  TypeOK
  OBVIOUS
<1>1. Ever \subseteq Windows
  BY WindowsAre DEF Inv, World
<1>2. /\ held \subseteq Windows /\ windows \subseteq Windows /\ unsent \subseteq Windows
      /\ doomed \subseteq Windows /\ exists \subseteq Windows /\ focused \subseteq Windows
      /\ gone \subseteq Windows /\ xfocus \in Windows \cup {None}
      /\ active_window \in Windows \cup {None}
  BY <1>1 DEF Inv, World, Registered
<1>3. /\ touching \in [Fingers -> Windows \cup {None, "up"}]
      /\ heard \in [Fingers -> Windows \cup {None}]
  BY <1>1 DEF Inv, World, Fingered
<1>4. /\ wire \in Seq(XEvents) /\ queue \in Seq(XEvents) /\ first_touch \in Fingers \cup {None}
      /\ num_touch \in Nat /\ primary \subseteq Fingers /\ alone \subseteq Fingers
  BY DEF Inv, World, Streamed, Series
<1>5. /\ {blocking, running, first, exit, borrowed, listening, panicked} \subseteq BOOLEAN
      /\ {proxy_wake_up, ping, proxy_ping, remote} \subseteq BOOLEAN
  BY DEF Inv, Turn, Flags
<1> QED BY <1>2, <1>3, <1>4, <1>5 DEF TypeOK, Inv, Turn, Places, Stores, Counted

----
(* What a step tells the application *)

\* A callback begins, in the phase in which it may, ...
Begun ==
  /\ inside = "none"
  /\ \/ phase = "Off" /\ phase' = "Init" /\ inside' = "new_events_init"
     \/ phase = "Init" /\ phase' = "Awake" /\ inside' = "can_create_surfaces"
     \/ phase = "Asleep" /\ phase' = "Awake" /\ inside' = "new_events"
     \/ phase = "Awake" /\ phase' = "Awake" /\ inside' = "event"
     \/ phase = "Awake" /\ phase' = "Asleep" /\ inside' = "about_to_wait"

\* ... or one returns, or the loop ends, or the step is none of its concern.
Tells ==
  \/ Begun
  \/ inside # "none" /\ inside' = "none" /\ phase' = phase
  \/ inside = "none" /\ phase = "Asleep" /\ phase' = "Off" /\ inside' = inside
  \/ UNCHANGED <<inside, phase>>

\* The iteration tells what its place says.
LEMMA IterationTells ==
  ASSUME Inv, Iteration
  PROVE  Tells
<1>1. CASE NewEvents
  BY <1>1 DEF NewEvents, At, Call, Inv, Turn, Told, Flags, Tells, Begun
<1>2. CASE CanCreateSurfaces
  BY <1>2 DEF CanCreateSurfaces, At, Call, Inv, Turn, Told, Tells, Begun
<1>3. CASE ReadMore \/ DrainEnd \/ EndBorrow \/ TokensEnd \/ TakeRedraws
  BY <1>3 DEF ReadMore, DrainEnd, EndBorrow, TokensEnd, TakeRedraws, loop_vars, Tells
<1>4. CASE Handlers
  BY <1>4 DEF Handlers, PlainEvent, Expose, Configure, KeyEvent, PointerEvent, FocusIn, FocusOut,
              TouchBegin, TouchEnd, DestroyNotify, DpiChange, loop_vars, Tells
<1>5. CASE Emit \/ Token
  BY <1>5 DEF Emit, Token, At, Call, NoCall, Inv, Turn, Told, Tells, Begun
<1>6. CASE ProxyWakeUp
  BY <1>6 DEF ProxyWakeUp, At, Call, Inv, Turn, Told, Tells, Begun
<1>7. ASSUME NEW w \in Windows, Redraw(w)
      PROVE  Tells
  BY <1>7 DEF Redraw, At, Call, Inv, Turn, Told, Tells, Begun
<1>8. CASE AboutToWait
  BY <1>8 DEF AboutToWait, At, Call, Inv, Turn, Told, Tells, Begun
<1>9. CASE EndIteration
  BY <1>9 DEF EndIteration, At, Finish, Inv, Turn, Told, Tells
<1> QED BY <1>1, <1>2, <1>3, <1>4, <1>5, <1>6, <1>7, <1>8, <1>9 DEF Iteration

\* Every step.
LEMMA NextTells ==
  ASSUME Inv, [Next]_vars
  PROVE  Tells
<1>1. CASE UNCHANGED vars
  BY <1>1 DEF vars, loop_vars, Tells
<1>2. CASE StartPump \/ CheckPending \/ ClearExit
  BY <1>2 DEF StartPump, CheckPending, ClearExit, Tells
<1>3. CASE Dispatch \/ DispatchFails
  BY <1>3 DEF Dispatch, DispatchFails, At, Finish, Inv, Turn, Told, Tells
<1>4. CASE Return
  BY <1>4 DEF Return, Tells
<1>5. CASE App
  <2>1. CASE Exit \/ WakeUp \/ RemotePing \/ RemoteRoundTrip
    BY <2>1 DEF Exit, WakeUp, RemotePing, RemoteRoundTrip, loop_vars, Tells
  <2>2. ASSUME NEW w \in Windows, Create(w) \/ DropWindow(w) \/ RemoteDrop(w)
        PROVE  Tells
    BY <2>2 DEF Create, DropWindow, RemoteDrop, loop_vars, Tells
  <2>3. ASSUME NEW w \in Windows,
               RequestRedraw(w) \/ RequestToken(w) \/ RemoteRedraw(w) \/ RemoteToken(w)
        PROVE  Tells
    BY <2>3 DEF RequestRedraw, RequestToken, RemoteRedraw, RemoteToken, loop_vars, Tells
  <2> QED BY <1>5, <2>1, <2>2, <2>3 DEF App
<1>6. CASE Server \/ ServerWork
  <2>1. Quiet
    BY <1>6 DEF Server, ServerWork, Focus, Touch, Lift, Notify, Broadcast, Kill, DestroyDoomed
  <2> QED BY <2>1 DEF Quiet, loop_vars, Tells
<1> QED BY <1>1, <1>2, <1>3, <1>4, <1>5, <1>6, IterationTells DEF Next, Loop

\* What is told is a step of AppLifecycle, or none.
LEMMA TellsRefines ==
  ASSUME Tells
  PROVE  [App_!AppNext]_<<phase, inside>>
<1>1. CASE Begun
  <2>1. CASE phase = "Off" /\ phase' = "Init" /\ inside' = "new_events_init"
    BY <1>1, <2>1 DEF Begun, App_!AppNext, App_!Begin, App_!Invoke
  <2>2. CASE phase = "Init" /\ phase' = "Awake" /\ inside' = "can_create_surfaces"
    BY <1>1, <2>2 DEF Begun, App_!AppNext, App_!CreateSurfaces, App_!Invoke
  <2>3. CASE phase = "Asleep" /\ phase' = "Awake" /\ inside' = "new_events"
    BY <1>1, <2>3 DEF Begun, App_!AppNext, App_!Wake, App_!Invoke
  <2>4. CASE phase = "Awake" /\ phase' = "Awake" /\ inside' = "event"
    BY <1>1, <2>4 DEF Begun, App_!AppNext, App_!Deliver, App_!Invoke
  <2>5. CASE phase = "Awake" /\ phase' = "Asleep" /\ inside' = "about_to_wait"
    BY <1>1, <2>5 DEF Begun, App_!AppNext, App_!Sleep, App_!Invoke
  <2> QED BY <1>1, <2>1, <2>2, <2>3, <2>4, <2>5 DEF Begun
<1>2. CASE inside # "none" /\ inside' = "none" /\ phase' = phase
  BY <1>2 DEF App_!AppNext, App_!Return
<1>3. CASE inside = "none" /\ phase = "Asleep" /\ phase' = "Off" /\ inside' = inside
  BY <1>3 DEF App_!AppNext, App_!Stop
<1>4. CASE UNCHANGED <<inside, phase>>
  BY <1>4
<1> QED BY <1>1, <1>2, <1>3, <1>4 DEF Tells

----
(* Theorems *)

\* The variables keep their types.
THEOREM TypeCorrectness == Spec => []TypeOK
BY Invariance, Parts, PTL

\* Whatever windows are created, dropped, destroyed by others and focused, and
\* however far the event processor is behind: once it has seen all that was said,
\* the application and the server agree which window has the keyboard.
THEOREM FocusIsFollowed == Spec => []FocusAgrees
<1>1. Inv => FocusAgrees
  <2> SUFFICES ASSUME Inv, Settled
               PROVE  Agrees(xfocus)
    BY DEF FocusAgrees, Agrees
  <2>1. queue = <<>> /\ wire = <<>>
    BY DEF Settled
  <2>2. Stream = <<>> /\ Len(Stream) = 0
    <3>1. <<>> \o <<>> = <<>>
      OBVIOUS
    <3> QED BY <2>1, <3>1 DEF Stream
  <2>3. PICK at : Trace(at, Stream, xfocus, Ever \cup {None}) /\ Agrees(at[0])
    BY DEF Inv, World, Followed
  <2>4. at[0] = xfocus
    BY <2>2, <2>3 DEF Trace
  <2> QED BY <2>3, <2>4
<1> QED BY <1>1, Invariance, PTL

\* A finger enters as primary only if the application knew of no other then, also
\* when windows vanish under fingers.
THEOREM PrimaryFirst == Spec => []PrimaryCameFirst
<1>1. Inv => PrimaryCameFirst
  BY DEF Inv, World, Series, PrimaryCameFirst
<1> QED BY <1>1, Invariance, PTL

\* Every step of the loop, of the application, of its second thread and of the
\* server is one of AppLifecycle, or none, however the run ends and whichever
\* wake-ups are spurious.
THEOREM ImplementsLifecycle == Spec => Lifecycle
<1>1. Init => App_!AppInit
  BY DEF Init, App_!AppInit
<1>2. Inv /\ [Next]_vars => [App_!AppNext]_(App_!app_vars)
  BY NextTells, TellsRefines DEF App_!app_vars
<1> QED BY <1>1, <1>2, Invariance, PTL DEF Spec, Lifecycle, App_!AppSpec
====
