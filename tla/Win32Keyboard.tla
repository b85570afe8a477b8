---- MODULE Win32Keyboard ----
(*
Keyboard input of a window on Windows: KeyEventBuilder puts a key press
together from its WM_KEYDOWN and the WM_CHARs that follow, and looks
ahead with PeekMessage, which lets messages sent to the window run in
the middle (keyboard.rs); PendingEventQueue keeps the order. Focus
changes make up for the presses and releases that went elsewhere.

External: the user, the message queue, TranslateMessage, which posts
the characters of a press before the press is dispatched, and a layout
with AltGr, for which the system adds a Ctrl of its own to each AltGr.
*)
EXTENDS Naturals, Sequences, FiniteSets, SequencesExt

CONSTANTS
  Kind,     \* of each key: "letter", "pair" (two units), "dead", "ctrl", "altgr" or "sent"
  None,
  Strokes,  \* bound: presses and focus changes
  Environments

Keys == DOMAIN Kind
KeysOf(kind) == {k \in Keys : Kind[k] = kind}
Ctrl == CHOOSE k \in Keys : Kind[k] = "ctrl"

VARIABLES
  event_info,       \* the press that waits for its characters, [key, chars], or None
  pending,          \* PendingEventQueue: [token, event], event None while incomplete
  next_id,
  is_active, is_focused, modifiers_state,   \* WindowState
  panicked,
  stack,            \* process_message calls that wait in PeekMessage, innermost first
  kbd_state,        \* GetKeyboardState: the keys down as of the messages retrieved
  posted,           \* characters posted by TranslateMessage: [kind, key]
  input,            \* the keyboard messages of the queue: [kind, key]
  sent,             \* messages sent to the window that wait for the thread
  foreground,       \* the system sends keys here
  down,             \* GetAsyncKeyState, without the Ctrl of AltGr
  strokes, env,
  app_down, app_focused, app_modifiers,     \* what the application was told
  heard             \* the key events of the last step

builder == <<event_info, pending, next_id, panicked, stack>>
window == <<is_active, is_focused, modifiers_state>>
queue == <<kbd_state, posted, input, sent>>
user == <<foreground, down, strokes, env>>
told == <<app_down, app_focused, app_modifiers, heard>>
vars == <<builder, window, queue, user, told>>

Init ==
  /\ event_info = None /\ pending = <<>> /\ next_id = 0 /\ panicked = FALSE /\ stack = <<>>
  /\ is_active = FALSE /\ is_focused = FALSE /\ modifiers_state = {}
  /\ kbd_state = {} /\ posted = <<>> /\ input = <<>> /\ sent = <<>>
  /\ foreground = FALSE /\ down = {} /\ strokes = 0 /\ env \in Environments
  /\ app_down = {} /\ app_focused = FALSE /\ app_modifiers = {} /\ heard = <<>>

----
(* The user and the system. *)

Message(kind, k) == [kind |-> kind, key |-> k]

\* AltGr comes with a Ctrl before it.
Hardware(kind, k) ==
  IF Kind[k] = "altgr" THEN <<Message(kind, Ctrl), Message(kind, k)>> ELSE <<Message(kind, k)>>

Stroke == strokes < Strokes /\ strokes' = strokes + 1 /\ heard' = <<>> /\ ~panicked

\* A key that is held presses again, wherever the focus is.
Press(k) ==
  /\ Stroke /\ Kind[k] # "sent"
  /\ ~env.mixes => /\ Kind[k] = "ctrl" => down \cap KeysOf("altgr") = {}
                   /\ Kind[k] = "altgr" => Ctrl \notin down
  /\ Kind[k] = "altgr" /\ ~env.holds => sent = <<>>
  /\ down' = down \cup {k}
  /\ input' = IF foreground THEN input \o Hardware("keydown", k) ELSE input
  /\ UNCHANGED <<builder, window, kbd_state, posted, sent, foreground, env, app_down, app_focused,
                 app_modifiers>>

Release(k) ==
  /\ k \in down /\ ~panicked /\ heard' = <<>>
  /\ down' = down \ {k}
  /\ input' = IF foreground THEN input \o Hardware("keyup", k) ELSE input
  /\ UNCHANGED <<builder, window, kbd_state, posted, sent, foreground, strokes, env, app_down,
                 app_focused, app_modifiers>>

\* Keys the thread has not retrieved go to the window that has the focus then;
\* the characters already posted stay.
FocusMoves ==
  /\ Stroke /\ sent = <<>>
  /\ env.steals = "between" => event_info = None /\ posted = <<>>
  /\ ~foreground /\ ~env.holds => down \cap KeysOf("altgr") = {}
  /\ foreground' = ~foreground
  /\ sent' = IF foreground THEN <<Message("inactive", None), Message("killfocus", None)>>
             ELSE <<Message("active", None), Message("setfocus", None)>>
  /\ input' = <<>>
  /\ UNCHANGED <<builder, window, kbd_state, posted, down, env, app_down, app_focused, app_modifiers>>

\* Another program sends a key message with SendMessage: no characters follow.
KeySent(k, kind) ==
  /\ Stroke /\ Kind[k] = "sent" /\ Len(sent) < 2 /\ foreground
  /\ env.sends # "never"
  /\ env.sends = "between" => event_info = None
  /\ sent' = Append(sent, Message(kind, k))
  /\ UNCHANGED <<builder, window, kbd_state, posted, input, foreground, down, env, app_down,
                 app_focused, app_modifiers>>

----
(* What the application is told. *)

KeyEvent(k, state, is_synthetic, chars) ==
  [key |-> k, state |-> state, is_synthetic |-> is_synthetic, chars |-> chars]

\* The keys the application takes to be down: the last event of a key counts.
After(keys, events) ==
  LET last == {i \in DOMAIN events : \A j \in DOMAIN events : j > i => events[j].key # events[i].key}
  IN  {k \in keys : \A i \in DOMAIN events : events[i].key # k}
        \cup {events[i].key : i \in {j \in last : events[j].state = "pressed"}}

Dispatch(events) ==
  /\ heard' = events
  /\ app_down' = After(app_down, events)

\* get_agnostic_mods: AltGr hides the Ctrl the system made for it.
AgnosticMods(keys) == IF keys \cap KeysOf("altgr") # {} THEN {} ELSE keys \cap {Ctrl}

UpdateModifiers(keys) ==
  /\ modifiers_state' = AgnosticMods(keys)
  /\ app_modifiers' = IF modifiers_state # AgnosticMods(keys) THEN AgnosticMods(keys) ELSE app_modifiers

----
(* PendingEventQueue. *)

Events(queue_) == [i \in DOMAIN queue_ |-> queue_[i].event]
Incomplete(queue_) == \E i \in DOMAIN queue_ : queue_[i].event = None
Drained(queue_) ==
  IF Incomplete(queue_)
  THEN panicked' = TRUE /\ Dispatch(<<>>) /\ UNCHANGED pending
  ELSE pending' = <<>> /\ Dispatch(Events(queue_)) /\ UNCHANGED panicked

AddPending == Append(pending, [token |-> next_id, event |-> None])

\* retain; no two tokens in the queue are the same.
Without(token) ==
  LET at == CHOOSE i \in DOMAIN pending : pending[i].token = token
  IN  IF \E i \in DOMAIN pending : pending[i].token = token
      THEN [i \in 1 .. Len(pending) - 1 |-> pending[IF i < at THEN i ELSE i + 1]]
      ELSE pending

CompletePending_AnyPlace(token, e) ==   \* mutant: dispatched before older ones are complete
  /\ pending' = Without(token)
  /\ Dispatch(<<e>>) /\ UNCHANGED panicked
CompletePending(token, e) ==
  LET completed == [i \in DOMAIN pending |->
                      IF pending[i].token = token THEN [pending[i] EXCEPT !.event = e] ELSE pending[i]]
  IN IF pending # <<>> /\ pending[1].token = token
     THEN Drained(completed)
     ELSE pending' = completed /\ Dispatch(<<>>) /\ UNCHANGED panicked

\* complete_multi, for the events a focus change makes.
CompleteMulti_Now(events) ==   \* mutant: past the queue
  Dispatch(events) /\ UNCHANGED <<pending, next_id>>
CompleteMulti(events) ==
  IF pending = <<>>
  THEN Dispatch(events) /\ UNCHANGED <<pending, next_id>>
  ELSE /\ pending' = pending \o
            [i \in DOMAIN events |-> [token |-> next_id + i - 1, event |-> events[i]]]
       /\ next_id' = next_id + Len(events)
       /\ Dispatch(<<>>)

RemovePending_Kept(token) ==   \* mutant: what waited behind it stays in the queue
  /\ pending' = Without(token)
  /\ Dispatch(<<>>) /\ UNCHANGED panicked
RemovePending(token) ==
  IF pending # <<>> /\ pending[1].token = token
  THEN Drained(Without(token))
  ELSE pending' = Without(token) /\ Dispatch(<<>>) /\ UNCHANGED panicked

----
(* process_message up to its look ahead. *)

Begins(m, keys) ==
  /\ pending' = AddPending /\ next_id' = next_id + 1
  /\ stack' = <<[kind |-> m.kind, key |-> m.key, token |-> next_id]>> \o stack
  /\ UpdateModifiers(keys)
  /\ heard' = <<>> /\ UNCHANGED <<panicked, app_down, app_focused>>

\* A hardware message is retrieved, translated and dispatched.
Characters(m) ==
  IF m.kind = "keyup" THEN <<>>
  ELSE CASE Kind[m.key] = "letter" -> <<Message("char", m.key)>>
         [] Kind[m.key] = "pair" -> <<Message("char", m.key), Message("char", m.key)>>
         [] Kind[m.key] = "dead" -> <<Message("deadchar", m.key)>>
         [] OTHER -> <<>>

KeyMessage ==
  /\ ~panicked /\ stack = <<>> /\ sent = <<>> /\ posted = <<>> /\ input # <<>>
  /\ LET m == Head(input) IN
     /\ input' = Tail(input)
     /\ posted' = Characters(m)
     /\ kbd_state' = IF m.kind = "keydown" THEN kbd_state \cup {m.key} ELSE kbd_state \ {m.key}
     /\ Begins(m, kbd_state')
  /\ UNCHANGED <<event_info, is_active, is_focused, sent, user>>

\* WM_CHAR and WM_DEADCHAR.
CharMessage ==
  /\ ~panicked /\ stack = <<>> /\ sent = <<>> /\ posted # <<>> /\ Head(posted).kind = "char"
  /\ posted' = Tail(posted)
  /\ IF event_info = None
     THEN heard' = <<>> /\ UNCHANGED <<builder, app_down>>
     ELSE /\ event_info' = [event_info EXCEPT !.chars = @ + 1]
          /\ pending' = AddPending /\ next_id' = next_id + 1
          /\ stack' = <<[kind |-> "char", key |-> event_info.key, token |-> next_id]>>
          /\ heard' = <<>> /\ UNCHANGED <<panicked, app_down>>
  /\ UNCHANGED <<window, kbd_state, input, sent, user, app_focused, app_modifiers>>

DeadChar ==
  /\ ~panicked /\ stack = <<>> /\ sent = <<>> /\ posted # <<>> /\ Head(posted).kind = "deadchar"
  /\ posted' = Tail(posted)
  /\ IF event_info = None
     THEN panicked' = TRUE /\ heard' = <<>> /\ UNCHANGED <<event_info, app_down>>
     ELSE /\ Dispatch(<<KeyEvent(event_info.key, "pressed", FALSE, 0)>>)
          /\ event_info' = None /\ UNCHANGED panicked
  /\ next_id' = next_id + 1
  /\ UNCHANGED <<pending, stack, window, kbd_state, input, sent, user, app_focused, app_modifiers>>

----
(* After PeekMessage: the message under way is the top of the stack, and what *)
(* was sent has run. *)

Top(kind) == ~panicked /\ stack # <<>> /\ Head(stack).kind = kind /\ sent = <<>>
TheToken == Head(stack).token
TheKey == Head(stack).key
NextIs(kinds) == posted \o input # <<>> /\ Head(posted \o input).kind \in kinds

\* is_current_fake: a Ctrl just before an AltGr is not the user's.
IsCurrentFake_Up ==   \* mutant: only releases are looked at
  TheKey = Ctrl /\ NextIs({"keyup"}) /\ Kind[Head(posted \o input).key] = "altgr"
IsCurrentFake == TheKey = Ctrl /\ NextIs({"keydown", "keyup"}) /\ Kind[Head(posted \o input).key] = "altgr"

Finishes == stack' = Tail(stack) /\ UNCHANGED <<next_id, window, queue, user, app_focused, app_modifiers>>

KeyDown ==
  /\ Top("keydown")
  /\ IF NextIs({"char", "deadchar"})
     THEN event_info' = [key |-> TheKey, chars |-> 0] /\ RemovePending(TheToken)
     ELSE /\ event_info' = None
          /\ IF IsCurrentFake THEN RemovePending(TheToken)
             ELSE CompletePending(TheToken, KeyEvent(TheKey, "pressed", FALSE, 0))
  /\ Finishes

Char_Early ==   \* mutant: the first unit completes the press
  /\ Top("char")
  /\ IF event_info = None
     THEN RemovePending(TheToken) /\ UNCHANGED event_info
     ELSE /\ event_info' = None
          /\ CompletePending(TheToken, KeyEvent(event_info.key, "pressed", FALSE, event_info.chars))
  /\ Finishes
Char ==
  /\ Top("char")
  /\ IF NextIs({"char"}) \/ event_info = None
     THEN RemovePending(TheToken) /\ UNCHANGED event_info
     ELSE /\ event_info' = None
          /\ CompletePending(TheToken, KeyEvent(event_info.key, "pressed", FALSE, event_info.chars))
  /\ Finishes

KeyUp ==
  /\ Top("keyup")
  /\ IF IsCurrentFake THEN RemovePending(TheToken)
     ELSE CompletePending(TheToken, KeyEvent(TheKey, "released", FALSE, 0))
  /\ UNCHANGED event_info
  /\ Finishes

----
(* Messages that are sent: they run before a message is retrieved, or inside *)
(* the PeekMessage of one that is under way. *)

Arrives(kind) ==
  /\ ~panicked /\ sent # <<>> /\ Head(sent).kind = kind
  /\ sent' = Tail(sent)

\* synthesize_kbd_state; the order among the keys tells nothing apart here.
Synthesized(keys, state) ==
  LET order == SetToSeq(keys)
  IN [i \in DOMAIN order |-> KeyEvent(order[i], state, TRUE, 0)]

\* The keys GetAsyncKeyState shows: AltGr shows its Ctrl as well.
Async == down \cup (IF down \cap KeysOf("altgr") # {} THEN {Ctrl} ELSE {})

HasActiveFocus == is_active /\ is_focused

\* set_active, set_focused, gain_active_focus and lose_active_focus; the keys
\* are those of GetKeyboardState at that time.
ActiveFocus_KeepsModifiers(active, focused, keys) ==   \* mutant: they are not reset
  /\ is_active' = active /\ is_focused' = focused
  /\ IF HasActiveFocus = (active /\ focused)
     THEN UNCHANGED <<modifiers_state, app_focused, app_modifiers>>
     ELSE /\ app_focused' = (active /\ focused)
          /\ IF active /\ focused THEN UpdateModifiers(keys) ELSE UNCHANGED <<modifiers_state, app_modifiers>>
ActiveFocus(active, focused, keys) ==
  /\ is_active' = active /\ is_focused' = focused
  /\ IF HasActiveFocus = (active /\ focused)
     THEN UNCHANGED <<modifiers_state, app_focused, app_modifiers>>
     ELSE /\ app_focused' = (active /\ focused)
          /\ IF active /\ focused
             THEN UpdateModifiers(keys)
             ELSE modifiers_state' = {} /\ app_modifiers' = {}

\* WM_NCACTIVATE
NcActivate(kind) ==
  /\ Arrives(kind)
  /\ ActiveFocus(kind = "active", is_focused, kbd_state)
  /\ heard' = <<>>
  /\ UNCHANGED <<builder, kbd_state, posted, input, user, app_down>>

\* WM_SETFOCUS: the system brings the keyboard state up to date first.
SetFocus ==
  /\ Arrives("setfocus")
  /\ kbd_state' = Async
  /\ CompleteMulti(Synthesized(Async, "pressed"))
  /\ ActiveFocus(is_active, TRUE, kbd_state')
  /\ UNCHANGED <<event_info, panicked, stack, posted, input, user>>

KillFocus_Silent ==   \* mutant: no releases are made up
  /\ Arrives("killfocus")
  /\ ActiveFocus(is_active, FALSE, kbd_state)
  /\ heard' = <<>>
  /\ UNCHANGED <<builder, kbd_state, posted, input, user, app_down>>
KillFocus ==
  /\ Arrives("killfocus")
  /\ CompleteMulti(Synthesized(kbd_state, "released"))
  /\ ActiveFocus(is_active, FALSE, kbd_state)
  /\ UNCHANGED <<event_info, panicked, stack, kbd_state, posted, input, user>>

SentKey ==
  /\ Arrives("keydown") \/ Arrives("keyup")
  /\ Begins(Head(sent), kbd_state)
  /\ UNCHANGED <<event_info, is_active, is_focused, kbd_state, posted, input, user>>

Thread == KeyMessage \/ CharMessage \/ DeadChar \/ KeyDown \/ Char \/ KeyUp
            \/ NcActivate("active") \/ NcActivate("inactive") \/ SetFocus \/ KillFocus \/ SentKey

Next ==
  \/ \E k \in Keys :
       Press(k) \/ Release(k) \/ KeySent(k, "keydown") \/ KeySent(k, "keyup")
  \/ FocusMoves \/ Thread

Spec == Init /\ [][Next]_vars

----

TypeOK ==
  /\ event_info # None => event_info.key \in Keys
  /\ kbd_state \subseteq Keys /\ down \subseteq Keys /\ app_down \subseteq Keys
  /\ \A i \in DOMAIN stack : stack[i].kind \in {"keydown", "keyup", "char"}

Quiet == stack = <<>> /\ posted = <<>> /\ input = <<>> /\ sent = <<>> /\ ~panicked

\* With nothing left to process, a focused window has told of the keys that are
\* held, and one without the focus of none, wherever presses and releases went
\* (event.rs:201).
KeysAgree ==
  Quiet => app_down \ KeysOf("sent") = IF foreground THEN down ELSE {}

\* The same for the modifiers, from which AltGr is left out (keyboard_layout.rs:275).
ModifiersAgree ==
  Quiet => app_modifiers = IF foreground THEN AgnosticMods(down) ELSE {}

\* A press brings all units of its text, and only a press that has text waits.
TextWhole ==
  /\ \A i \in DOMAIN heard : heard[i].state = "pressed" /\ ~heard[i].is_synthetic =>
       heard[i].chars = CASE Kind[heard[i].key] = "letter" -> 1
                          [] Kind[heard[i].key] = "pair" -> 2
                          [] OTHER -> 0
  /\ Quiet => event_info = None

\* Nothing is told while an earlier message is still being processed, nothing
\* stays in the queue, and draining it meets nothing incomplete (keyboard.rs:732).
Ordered ==
  /\ heard # <<>> => stack = <<>>
  /\ stack = <<>> => pending = <<>>
  /\ ~panicked

\* Ctrl is told only while the user holds it.
NoPhantom == app_modifiers # {} => Ctrl \in down \/ strokes = 0 \/ ~foreground
====
