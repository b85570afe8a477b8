---- MODULE AppKitView ----
(*
Keys, input method and modifiers of winit-appkit's WinitView: keyDown:
lets the input method interpret the key, which calls back into
NSTextInputClient, and then decides whether the key goes to the
application as well.  The application may turn the input method on and
off in any callback, also in those made in the middle of a method;
what winit has to say then is queued, as a callback is running.

External: the input method and its composition, AppKit's events.
*)
EXTENDS Naturals, Sequences

CONSTANTS
  Keys,          \* ordinary keys
  Environments   \* what happens in a behaviour

\* What happens: the user and the system, the application between other events, and
\* the events in reaction to which it turns the input method on or off.
Ops == {"type", "modifier", "focus", "source", "candidate", "click", "toggle"}
Events == {"Enabled", "Disabled", "Preedit", "Clear", "Commit", "Key", "Modifiers", "Command"}
Env(ops, react, max) == [ops |-> ops, react |-> react, max |-> max]

VARIABLES
  view,      \* ViewState and the input method, see View
  app,       \* what the application was told, see App
  todo,      \* what is left of the method AppKit called
  key,       \* its key
  old,       \* old_ime_state
  queue,     \* events queued to the main run loop
  source,    \* the input source of the user
  held,      \* the ordinary keys held down
  mods,      \* the keys of one modifier held down, "left" and "right"
  focused,
  missed,    \* a modifier key changed while another application had the keyboard
  got,       \* history: what the application was told during the last keyDown:
  activating,  \* the click in progress makes the window key
  done, env

vars == <<view, app, todo, key, old, queue, source, held, mods, focused, missed, got,
          activating, done, env>>

ImeStates == {"Disabled", "Ground", "Preedit", "Committed"}
Sides == {"left", "right"}
View == [
  ime_state : ImeStates, marked_text : BOOLEAN, pending_commit : BOOLEAN,
  ime_capabilities : BOOLEAN, forward_key_to_app : BOOLEAN,
  input_source : {1, 2},
  modifiers : BOOLEAN,        \* the modifier's flag
  phys_modifiers : SUBSET Sides,
  next_click_is_activation : BOOLEAN,
  composing : BOOLEAN]        \* the input method's own
App == [ime : BOOLEAN, preedit : BOOLEAN, modifiers : BOOLEAN, sides : SUBSET Sides,
        pressed : SUBSET Keys, clicks : SUBSET BOOLEAN, misled : BOOLEAN]

TypeOK ==
  /\ view \in View /\ app \in App
  /\ key \in Keys /\ old \in ImeStates /\ source \in {1, 2}
  /\ held \subseteq Keys /\ mods \subseteq Sides
  /\ got \subseteq Events \union {"Click", "other"} /\ {focused, missed, activating} \subseteq BOOLEAN
  /\ done \in 0 .. env.max

Init ==
  /\ view = [ime_state |-> "Disabled", marked_text |-> FALSE, pending_commit |-> FALSE,
             ime_capabilities |-> FALSE, forward_key_to_app |-> FALSE, input_source |-> 1,
             modifiers |-> FALSE, phys_modifiers |-> {}, next_click_is_activation |-> FALSE,
             composing |-> FALSE]
  /\ app = [ime |-> FALSE, preedit |-> FALSE, modifiers |-> FALSE, sides |-> {},
            pressed |-> {}, clicks |-> {}, misled |-> FALSE]
  /\ todo = <<>> /\ key \in Keys /\ old = "Disabled" /\ queue = <<>> /\ source = 1
  /\ held = {} /\ mods = {} /\ focused = TRUE /\ missed = FALSE /\ got = {"other"}
  /\ activating = FALSE /\ done = 0 /\ env \in Environments

----
(* Events and the application. *)

Event(kind) == [kind |-> kind]
KeyInput(k, pressed) == [kind |-> "Key", key |-> k, pressed |-> pressed]
SideInput(side, pressed) == [kind |-> "Side", side |-> side, pressed |-> pressed]
Modifiers(on) == [kind |-> "Modifiers", on |-> on]
Click(pressed, activation) == [kind |-> "Click", pressed |-> pressed, activation |-> activation]

\* What an event tells the application.  It is misled by text of an input method that
\* it holds to be off.
Told(a, e) ==
  CASE e.kind = "Enabled" -> [a EXCEPT !.ime = TRUE]
    [] e.kind = "Disabled" -> [a EXCEPT !.ime = FALSE, !.preedit = FALSE]
    [] e.kind = "Preedit" -> [a EXCEPT !.preedit = TRUE, !.misled = @ \/ ~a.ime]
    [] e.kind = "Clear" -> [a EXCEPT !.preedit = FALSE]
    [] e.kind = "Commit" -> [a EXCEPT !.preedit = FALSE, !.misled = @ \/ ~a.ime]
    [] e.kind = "Modifiers" -> [a EXCEPT !.modifiers = e.on]
    [] e.kind = "Key" -> [a EXCEPT !.pressed = IF e.pressed THEN @ \union {e.key} ELSE @ \ {e.key}]
    [] e.kind = "Side" -> [a EXCEPT !.sides = IF e.pressed THEN @ \union {e.side} ELSE @ \ {e.side}]
    [] e.kind = "Click" -> [a EXCEPT !.clicks = IF e.pressed THEN {e.activation} ELSE {}]
    [] OTHER -> a

\* request_ime_update, always inside a callback: the event it has for the application
\* is queued.
Saying(v) == IF v.ime_state = "Disabled" THEN <<>> ELSE <<Event("Disabled")>>

enable_ime(v) ==
  [v EXCEPT !.ime_state = "Disabled", !.ime_capabilities = TRUE, !.marked_text = FALSE,
            !.pending_commit = FALSE]

disable_ime_kept(v) ==    \* mutant: the state stays
  [v EXCEPT !.ime_capabilities = FALSE, !.marked_text = FALSE,
            !.pending_commit = FALSE, !.composing = @ /\ ~v.marked_text]
\* discardMarkedText ends the composition.
disable_ime(v) ==
  [v EXCEPT !.ime_state = "Disabled", !.ime_capabilities = FALSE, !.marked_text = FALSE,
            !.pending_commit = FALSE, !.composing = @ /\ ~v.marked_text]

\* The application does nothing, or changes its mind about the input method.
Reacts(kind, v) ==
  \/ view' = v /\ UNCHANGED <<queue, done>>
  \/ /\ kind \in env.react /\ done < env.max /\ done' = done + 1
     /\ view' = IF v.ime_capabilities THEN disable_ime(v) ELSE enable_ime(v)
     /\ queue' = queue \o Saying(v)

\* queue_event outside of a callback: the application is called at once.
Tell(e, v) ==
  /\ app' = Told(app, e) /\ got' = got \union {e.kind}
  /\ Reacts(e.kind, v)
TellIf(condition, e, v) ==
  IF condition THEN Tell(e, v) ELSE view' = v /\ UNCHANGED <<app, got, queue, done>>

outside == <<key, source, held, mods, focused, missed, activating, env>>
Step(name) == todo # <<>> /\ Head(todo) = name
Then(steps) == todo' = steps \o Tail(todo)

----
(* NSTextInputClient. *)

\* setMarkedText:, up to Enabled and up to Preedit; text that is "clear" is empty.
SetMarkedText(name) ==
  /\ Step(name)
  /\ LET v == [view EXCEPT !.marked_text = name = "mark", !.composing = name = "mark"]
     IN  IF view.ime_state = "Disabled"
         THEN Tell(Event("Enabled"), [v EXCEPT !.input_source = source])
         ELSE view' = v /\ UNCHANGED <<app, got, queue, done>>
  /\ Then(<<IF name = "mark" THEN "preedit" ELSE "cleared">>)
  /\ UNCHANGED <<outside, old>>

SetMarkedTextEnds(name) ==
  /\ Step(name)
  /\ Tell(Event(IF name = "preedit" THEN "Preedit" ELSE "Clear"),
          [view EXCEPT !.ime_state = IF view.marked_text THEN "Preedit" ELSE "Ground",
                       !.pending_commit = TRUE])
  /\ Then(<<>>)
  /\ UNCHANGED <<outside, old>>

\* unmarkText, up to its event.
UnmarkText ==
  /\ Step("unmark")
  /\ Tell(Event("Clear"), [view EXCEPT !.marked_text = FALSE, !.composing = FALSE])
  /\ Then(<<"unmarked">>)
  /\ UNCHANGED <<outside, old>>

UnmarkTextEnds ==
  /\ Step("unmarked")
  /\ view' = [view EXCEPT !.ime_state = IF @ = "Disabled" THEN @ ELSE "Ground"]
  /\ Then(<<>>)
  /\ UNCHANGED <<outside, old, app, queue, got, done>>

\* mutant: every text is committed.
InsertText_Always ==
  /\ Step("text")
  /\ Tell(Event("Commit"), [view EXCEPT !.pending_commit = FALSE, !.composing = FALSE])
  /\ Then(<<"committed">>)
  /\ UNCHANGED <<outside, old>>

\* insertText:, a text without control characters.
InsertText ==
  /\ Step("text")
  /\ LET v == [view EXCEPT !.composing = FALSE]
     IN  IF view.pending_commit /\ view.ime_state # "Disabled"
         THEN Tell(Event("Commit"), [v EXCEPT !.pending_commit = FALSE]) /\ Then(<<"committed">>)
         ELSE TellIf(view.marked_text, Event("Clear"), v) /\ Then(<<>>)
  /\ UNCHANGED <<outside, old>>

InsertTextEnds ==
  /\ Step("committed")
  /\ view' = [view EXCEPT !.ime_state = "Committed"]
  /\ Then(<<>>)
  /\ UNCHANGED <<outside, old, app, queue, got, done>>

\* mutant: also of text just committed.
DoCommand_Committed ==
  /\ Step("command")
  /\ Tell(Event("Command"),
          [view EXCEPT !.forward_key_to_app = TRUE,
                       !.ime_state = IF @ = "Preedit" /\ view.marked_text THEN "Ground" ELSE @])
  /\ Then(<<>>)
  /\ UNCHANGED <<outside, old>>

\* doCommandBySelector:.
DoCommand ==
  /\ Step("command")
  /\ TellIf(view.ime_state # "Committed", Event("Command"),
            IF view.ime_state = "Committed" THEN view
            ELSE [view EXCEPT !.forward_key_to_app = TRUE,
                              !.ime_state = IF @ = "Preedit" /\ view.marked_text THEN "Ground"
                                            ELSE @])
  /\ Then(<<>>)
  /\ UNCHANGED <<outside, old>>

----
(* keyDown:, keyUp:, flagsChanged: and the mouse. *)

\* What an input method makes of a key: without a composition it begins one, inserts the
\* text of the key or gives the key back; with one it goes on, commits (and begins the
\* next, or gives the key back too), clears, gives up, gives the key back, or keeps it.
Interpretations ==
  IF view.composing
  THEN {<<"mark">>, <<"text">>, <<"text", "mark">>, <<"text", "command">>, <<"clear">>,
        <<"unmark">>, <<"command">>}
  ELSE {<<"mark">>, <<"text">>, <<"command">>}

\* keyDown:, up to the event about another input source.
KeyDown ==
  /\ Step("down")
  /\ LET changed == view.input_source # source /\ view.ime_state # "Disabled"
     IN  TellIf(changed, Event("Disabled"),
                IF changed THEN [view EXCEPT !.input_source = source, !.ime_state = "Disabled"]
                ELSE view)
  /\ Then(<<"interpret", "interpreted", "modifiers", "key">>)
  /\ UNCHANGED <<outside, old>>

InterpretKeyEvents ==
  /\ Step("interpret")
  /\ old' = view.ime_state
  /\ view' = [view EXCEPT !.forward_key_to_app = FALSE]
  /\ IF view.ime_capabilities THEN \E calls \in Interpretations : Then(calls) ELSE Then(<<>>)
  /\ UNCHANGED <<outside, app, queue, got, done>>

Interpreted ==
  /\ Step("interpreted")
  /\ view' = [view EXCEPT !.marked_text =
                @ /\ ~(view.ime_capabilities /\ view.ime_state = "Committed")]
  /\ Then(<<>>)
  /\ UNCHANGED <<outside, old, app, queue, got, done>>

\* update_modifiers of an event that is not flagsChanged:.
UpdateModifiers ==
  /\ Step("modifiers")
  /\ TellIf(view.modifiers # (mods # {}), Modifiers(mods # {}),
            [view EXCEPT !.modifiers = mods # {}])
  /\ Then(<<>>)
  /\ UNCHANGED <<outside, old>>

\* mutant: only the state after the key counts.
KeyDownEnds_Now ==
  /\ Step("key")
  /\ LET had_ime_input == view.ime_state \in {"Committed", "Preedit"}
     IN  TellIf(~had_ime_input \/ view.forward_key_to_app, KeyInput(key, TRUE),
                [view EXCEPT !.ime_state = IF @ = "Committed" THEN "Ground" ELSE @])
  /\ Then(<<>>)
  /\ UNCHANGED <<outside, old>>

KeyDownEnds ==
  /\ Step("key")
  /\ LET had_ime_input == view.ime_state \in {"Committed", "Preedit"} \/ old # view.ime_state
     IN  TellIf(~had_ime_input \/ view.forward_key_to_app, KeyInput(key, TRUE),
                [view EXCEPT !.ime_state = IF @ = "Committed" THEN "Ground" ELSE @])
  /\ Then(<<>>)
  /\ UNCHANGED <<outside, old>>

\* keyUp:, after update_modifiers.
KeyUp ==
  /\ Step("up")
  /\ TellIf(view.ime_state \in {"Ground", "Disabled"}, KeyInput(key, FALSE), view)
  /\ Then(<<>>)
  /\ UNCHANGED <<outside, old>>

\* mutant: the flag, gone or not, is not looked at.
Guessed_Unlooked(side) ==
  LET was == view.phys_modifiers
  IN  IF was = {side} THEN [now |-> was, released |-> {}, pressed |-> {side}]
      ELSE IF side \in was THEN [now |-> was \ {side}, released |-> {side}, pressed |-> {}]
      ELSE [now |-> was \union {side}, released |-> {}, pressed |-> {side}]

\* The key events of flagsChanged: for the key at side, guessed from the flag.
Guessed(side) ==
  LET was == view.phys_modifiers
  IN  IF mods = {} THEN [now |-> {}, released |-> was, pressed |-> {}]
      ELSE IF was = {side} THEN [now |-> was, released |-> {}, pressed |-> {side}]
      ELSE IF side \in was THEN [now |-> was \ {side}, released |-> {side}, pressed |-> {}]
      ELSE [now |-> was \union {side}, released |-> {}, pressed |-> {side}]

\* flagsChanged:; the reaction to a modifier key is that to the change of modifiers.
FlagsChanged(side) ==
  /\ Step(side)
  /\ LET g == Guessed(side)
         told == [app EXCEPT !.sides = (@ \ g.released) \union g.pressed]
         v == [view EXCEPT !.phys_modifiers = g.now, !.modifiers = mods # {}]
     IN  IF view.modifiers = (mods # {})
         THEN app' = told /\ view' = v /\ UNCHANGED <<queue, done, got>>
         ELSE /\ app' = Told(told, Modifiers(mods # {})) /\ UNCHANGED got
              /\ Reacts("Modifiers", v)
  /\ Then(<<>>)
  /\ UNCHANGED <<outside, old>>

\* reset_modifiers, by windowDidResignKey:.
ResetModifiers ==
  /\ Step("resign")
  /\ TellIf(view.modifiers, Modifiers(FALSE), [view EXCEPT !.modifiers = FALSE])
  /\ Then(<<>>)
  /\ UNCHANGED <<outside, old>>

\* mouseDown: and mouseUp: of the left button, after update_modifiers.
MouseClick(name) ==
  /\ Step(name)
  /\ Tell(Click(name = "press", view.next_click_is_activation),
          [view EXCEPT !.next_click_is_activation = @ /\ name = "press"])
  /\ Then(<<>>)
  /\ UNCHANGED <<outside, old>>

----
(* The user, AppKit and the application between AppKit's calls. *)

Idle == todo = <<>>
Does(op) == op \in env.ops /\ Idle /\ done < env.max /\ done' = done + 1
Calls(steps) == todo' = steps /\ got' = {"other"}

PressKey ==
  /\ Does("type") /\ focused /\ queue = <<>>
  /\ key' \in Keys \ held /\ held' = held \union {key'}
  /\ got' = {} /\ todo' = <<"down">>
  /\ UNCHANGED <<view, app, old, queue, source, mods, focused, missed, activating, env>>

ReleaseKey ==
  /\ "type" \in env.ops /\ Idle /\ focused /\ queue = <<>>
  /\ key' \in held /\ held' = held \ {key'}
  /\ Calls(<<"modifiers", "up">>)
  /\ UNCHANGED <<view, app, old, queue, source, mods, focused, missed, activating,
                 done, env>>

\* A modifier key goes down or up; nobody is told while another application has the
\* keyboard.
ModifierKey ==
  /\ Does("modifier")
  /\ \E side \in Sides :
       /\ mods' = IF side \in mods THEN mods \ {side} ELSE mods \union {side}
       /\ Calls(IF focused THEN <<side>> ELSE <<>>)
  /\ missed' = IF focused THEN missed /\ mods' # {} ELSE TRUE
  /\ UNCHANGED <<view, app, key, old, queue, source, held, focused, activating, env>>

Resign ==
  /\ Does("focus") /\ focused /\ focused' = FALSE
  /\ Calls((IF view.composing THEN <<"unmark">> ELSE <<>>) \o <<"resign">>)
  /\ UNCHANGED <<view, app, key, old, queue, source, held, mods, missed, activating, env>>

Become ==
  /\ Idle /\ ~focused /\ focused' = TRUE
  /\ UNCHANGED <<view, app, todo, key, old, queue, source, held, mods, missed, got,
                 activating, done, env>>

\* The user chooses another input source, which ends a composition.
ChooseSource ==
  /\ Does("source") /\ source' = 3 - source
  /\ Calls(IF view.composing THEN <<"unmark">> ELSE <<>>)
  /\ UNCHANGED <<view, app, key, old, queue, held, mods, focused, missed, activating, env>>

\* The user chooses a candidate with the mouse.
ChooseCandidate ==
  /\ Does("candidate") /\ view.composing
  /\ Calls(<<"text">>)
  /\ UNCHANGED <<view, app, key, old, queue, source, held, mods, focused, missed,
                 activating, env>>

\* A click; AppKit asks acceptsFirstMouse: of one that makes the window key.
PressButton ==
  /\ Does("click") /\ app.clicks = {}
  /\ activating' = ~focused /\ focused' = TRUE
  /\ view' = [view EXCEPT !.next_click_is_activation = @ \/ ~focused]
  /\ Calls(<<"modifiers", "press">>)
  /\ UNCHANGED <<app, key, old, queue, source, held, mods, missed, env>>

ReleaseButton ==
  /\ Idle /\ app.clicks # {}
  /\ Calls(<<"modifiers", "release">>)
  /\ UNCHANGED <<view, app, key, old, queue, source, held, mods, focused, missed,
                 activating, done, env>>

\* The application turns the input method on or off in some other callback.
Toggle ==
  /\ Does("toggle")
  /\ view' = IF view.ime_capabilities THEN disable_ime(view) ELSE enable_ime(view)
  /\ queue' = queue \o Saying(view)
  /\ UNCHANGED <<app, todo, key, old, source, held, mods, focused, missed, got, activating, env>>

\* A closure of the main run loop.
RunQueued ==
  /\ Idle /\ queue # <<>>
  /\ app' = Told(app, Head(queue)) /\ queue' = Tail(queue)
  /\ UNCHANGED <<view, todo, key, old, source, held, mods, focused, missed, got, activating,
                 done, env>>

Next ==
  \/ \E name \in {"mark", "clear"} : SetMarkedText(name)
  \/ \E name \in {"preedit", "cleared"} : SetMarkedTextEnds(name)
  \/ UnmarkText \/ UnmarkTextEnds \/ InsertText \/ InsertTextEnds \/ DoCommand
  \/ KeyDown \/ InterpretKeyEvents \/ Interpreted \/ UpdateModifiers \/ KeyDownEnds \/ KeyUp
  \/ \E side \in Sides : FlagsChanged(side)
  \/ \E name \in {"press", "release"} : MouseClick(name)
  \/ ResetModifiers
  \/ PressKey \/ ReleaseKey \/ ModifierKey \/ Resign \/ Become \/ ChooseSource
  \/ ChooseCandidate \/ PressButton \/ ReleaseButton \/ Toggle \/ RunQueued

Spec == Init /\ [][Next]_vars

----
AtRest == Idle /\ queue = <<>>

\* The application gets text of the input method only between Enabled and Disabled, and
\* afterwards both agree on whether it is on and whether there is a preedit.
Composition ==
  /\ ~app.misled
  /\ AtRest => /\ app.ime = (view.ime_state # "Disabled")
               /\ app.preedit = view.marked_text

\* A key goes to the application as a key or as text of the input method, never both as
\* a key and as the text it committed, and never as neither.
KeysOnce ==
  /\ {"Key", "Commit"} \subseteq got => "other" \in got
  /\ Idle => got \intersect {"Key", "Commit", "Preedit", "Clear", "other"} # {}

\* The modifier keys the application holds to be down are those that are, once they all
\* were up in front of the window, and it has the modifiers of the last event.
ModifiersAgree ==
  Idle => /\ app.modifiers = view.modifiers
          /\ ~missed => app.sides = mods

\* Both halves of a click say whether it activated the window.
ClicksAgree == Idle => app.clicks \subseteq {activating}

\* What is typed arrives once, as keys or as text.
TextArrives == Composition /\ KeysOnce

\* Modifiers and clicks are those of the user.
InputAgrees == ModifiersAgree /\ ClicksAgree

\* A key that is up is up for the application, too (not kept: the release of a key pressed
\* before the composition is kept back).
Released == Idle => app.pressed \subseteq held
====
