---- MODULE X11Ime ----
(*
Input methods on X11: the contexts of the windows, the input method
that is replaced from Xlib's callbacks when its server goes away or
comes back, the requests of the application and the events of the
preedit, each through a channel that is drained after an X event.

External: the server of the input method, and Xlib, which tells of its
end and of a new one while an X event is filtered, some time after, of
each new one once, whether or not it could be used. The local input
method of Xlib always opens. Nothing can be created on a server that is
gone; on a window that is gone it may fail.
*)
EXTENDS Naturals, Sequences, FiniteSets

CONSTANTS Windows, None, Environments

Ops == {"create", "enable", "disable", "drop", "preedit", "focus", "key", "server"}

(*
What may cross in an environment. "unseen": Xlib tells of the server's
end only after other things happened, its return among them. "dying":
the server goes, or comes back, while a dropped window has its context.
"composing": the server or a window goes, the focus moves or another window asks for
something while one composes. "late": a window is dropped with requests
or events on their way. "open": the server is there and does not answer.
*)
Races == {"unseen", "dying", "composing", "late", "open"}

\* None is no window; Environments is a set of records [ops : SUBSET Ops,
\* races : SUBSET Races, max : Nat].

VARIABLES
  im,            \* the open input method: "server" or "local"
  contexts,      \* ImeInner::contexts; None: no entry
  is_destroyed, is_fallback,
  watching,      \* the instantiate callback is registered
  requests, events,    \* ImeRequest, ImeEvent channels
  is_composing,  \* EventProcessor::is_composing
  active,        \* EventProcessor::active_window
  pc,            \* process_event: "xevent", "requests", "events"
  panicked, frozen,
  life,          \* of the windows: "none", "alive", "dropped", "gone"
  capabilities,  \* the windows that request_ime_update enabled
  told,          \* history: the last of Enabled, Disabled the application got
  unwanted,      \* history: it got a Commit for a window it holds disabled
  server,        \* the server runs
  due,           \* Xlib is about to call the instantiate callback
  lost, freed,   \* the open one is gone: nobody knows yet, or Xlib freed it
  done, env      \* how much happened

inner == <<im, contexts, is_destroyed, is_fallback, watching, freed>>
queues == <<requests, events>>
app == <<life, capabilities, told, unwanted>>
vars == <<inner, queues, app, is_composing, active, pc, panicked, frozen,
          server, due, lost, done, env>>

Context(on) == [ic |-> TRUE, allowed |-> on, preedit |-> FALSE]
Empty == [ic |-> FALSE, allowed |-> FALSE, preedit |-> FALSE]
HasIc(w) == contexts[w] # None /\ contexts[w].ic
Entries == {w \in Windows : contexts[w] # None}
Composing == {w \in Windows : HasIc(w) /\ contexts[w].preedit}

\* Ime::new: the callback is registered between the server's failure and the fallback.
Init ==
  /\ env \in Environments /\ server \in BOOLEAN
  /\ im = IF server THEN "server" ELSE "local"
  /\ is_fallback = ~server /\ watching = ~server
  /\ is_destroyed = FALSE /\ freed = FALSE /\ lost = FALSE /\ due = FALSE
  /\ contexts = [w \in Windows |-> None]
  /\ requests = <<>> /\ events = <<>> /\ is_composing = FALSE /\ active = None
  /\ pc = "xevent" /\ panicked = FALSE /\ frozen = FALSE
  /\ life = [w \in Windows |-> "none"] /\ capabilities = {}
  /\ told = [w \in Windows |-> "disabled"] /\ unwanted = FALSE
  /\ done = 0

May(op) == op \in env.ops /\ done < env.max /\ done' = done + 1
Quiet == requests = <<>> /\ events = <<>> /\ pc = "xevent"

\* What holds where nothing crosses.
Unless(race, holds) == race \in env.races \/ holds
Seen == Unless("unseen", ~lost)
Alone(w) == Unless("composing", Composing \subseteq {w} /\ (is_composing => active = w))
Nobody == Unless("composing", Composing = {} /\ ~is_composing)

----
(* The contexts. *)

\* ImeContext::new.
Creatable(w) == (IF lost THEN {} ELSE {TRUE})
                \union (IF lost \/ life[w] # "alive" THEN {FALSE} ELSE {})

\* destroy_ic_if_necessary: what Xlib freed must not be freed again, the connection hangs.
Frees(windows, gone, destroyed) ==
  frozen' = (frozen \/ (gone /\ ~destroyed /\ \E w \in windows : HasIc(w)))

Enabling(on) == IF on THEN "Enabled" ELSE "Disabled"

Created(w, on) ==
  /\ contexts' = [contexts EXCEPT ![w] = Context(on)]
  /\ events' = Append(events, <<w, Enabling(on)>>)

\* create_context: without a server the map gets an empty entry, for the rebuild.
CreateWindow ==
  \E w \in Windows :
    /\ May("create") /\ life[w] = "none" /\ ~lost /\ Nobody
    /\ life' = [life EXCEPT ![w] = "alive"]
    /\ IF is_destroyed
       THEN contexts' = [contexts EXCEPT ![w] = Empty] /\ UNCHANGED events
       ELSE Created(w, FALSE)
    /\ UNCHANGED <<im, is_destroyed, is_fallback, watching, freed, requests, is_composing,
                   active, pc, panicked, frozen, capabilities, told, unwanted,
                   server, due, lost, env>>

\* request_ime_update: Enable, unless it is, and Disable.
Request ==
  \E w \in Windows, on \in BOOLEAN :
    /\ May(IF on THEN "enable" ELSE "disable") /\ life[w] = "alive"
    /\ Seen /\ Alone(w)
    /\ on => w \notin capabilities
    /\ capabilities' = IF on THEN capabilities \union {w} ELSE capabilities \ {w}
    /\ requests' = Append(requests, <<w, on>>)
    /\ UNCHANGED <<inner, events, is_composing, active, pc, panicked, frozen,
                   life, told, unwanted, server, due, lost, env>>

DropWindow ==
  \E w \in Windows :
    /\ May("drop") /\ life[w] = "alive"
    /\ Seen /\ Nobody /\ Unless("late", Quiet) /\ Unless("dying", ~due)
    /\ life' = [life EXCEPT ![w] = "dropped"]
    /\ UNCHANGED <<inner, queues, is_composing, active, pc, panicked, frozen,
                   capabilities, told, unwanted, server, due, lost, env>>

----
(* The input method's server. *)

ServerGoes ==
  /\ May("server") /\ server /\ Nobody
  /\ Unless("dying", \A w \in Windows : life[w] # "dropped")
  /\ Unless("unseen", requests = <<>>)
  /\ server' = FALSE /\ due' = FALSE /\ lost' = (lost \/ (im = "server" /\ ~freed))
  /\ UNCHANGED <<inner, queues, app, is_composing, active, pc, panicked, frozen, env>>

ServerComes ==
  /\ May("server") /\ ~server /\ Seen
  /\ Unless("dying", \A w \in Windows : life[w] # "dropped")
  /\ server' = TRUE /\ due' = watching
  /\ UNCHANGED <<inner, queues, app, is_composing, active, pc, panicked, frozen, lost, env>>

----
(* EventProcessor::process_event: the X event first. *)

XEvent ==
  /\ pc = "xevent" /\ ~panicked /\ ~frozen /\ pc' = "requests"
  /\ UNCHANGED <<requests, capabilities, server, env>>

\* PotentialInputMethods::open_im.
Opened == {IF server THEN "server" ELSE "local"}
          \union (IF "open" \in env.races THEN {"local"} ELSE {})
\* Whether every context can be created on what was opened.
AllCreated == IF \A w \in Entries : life[w] = "alive" THEN {TRUE} ELSE BOOLEAN

\* The rebuilt contexts forget that the application allowed input methods.
Forgotten(context) == Context(FALSE)  \* mutant
Rebuilt(context) == Context(context.allowed)

\* replace_im creates every context anew before it lets go of the old ones.
Replace(gone, destroyed) ==
  /\ im' \in Opened
  /\ Frees(Entries, gone, destroyed)
  /\ contexts' = [w \in Windows |-> IF contexts[w] = None THEN None
                                    ELSE Rebuilt(contexts[w])]
  /\ is_destroyed' = FALSE /\ freed' = FALSE

\* is_destroyed is not set before the old contexts are let go of.
DestroyedLate == FALSE  \* mutant
DestroyedFirst == TRUE

\* The callback is not registered again: the server's return goes unnoticed.
NeverWatches == watching  \* mutant
Watches == TRUE

\* xim_destroy_callback: a fallback in the place of the server.
XimDestroyed ==
  /\ XEvent /\ lost /\ lost' = FALSE
  /\ UNCHANGED <<events, life, is_composing, active, told, unwanted, done>>
  /\ IF is_fallback
     THEN /\ is_destroyed' = DestroyedFirst /\ freed' = TRUE
          /\ UNCHANGED <<im, contexts, is_fallback, watching, panicked, frozen, due>>
     ELSE /\ watching' = Watches /\ due' \in {FALSE, server}
          /\ \E ok \in AllCreated :
               \/ /\ ok /\ Replace(TRUE, DestroyedFirst)
                  /\ is_fallback' = TRUE /\ UNCHANGED panicked
               \/ /\ ~ok /\ panicked' = TRUE /\ is_destroyed' = TRUE /\ freed' = TRUE
                  /\ UNCHANGED <<im, contexts, is_fallback, frozen>>

\* xim_instantiate_callback; whatever replace_im opened counts as the server's.  When it
\* fails the callback stays registered, for the next server.
XimInstantiated ==
  /\ XEvent /\ Seen /\ watching /\ due /\ due' = FALSE
  /\ \E ok \in AllCreated :
       \/ /\ ok /\ Replace(freed, is_destroyed)
          /\ watching' = FALSE /\ is_fallback' = FALSE
          /\ UNCHANGED panicked
       \/ /\ ~ok /\ panicked' = is_destroyed
          /\ UNCHANGED <<im, contexts, is_destroyed, is_fallback, watching, freed, frozen>>
  /\ UNCHANGED <<events, life, is_composing, active, told, unwanted, lost, done>>

\* The other X events leave the input method as it is.
OtherXEvent ==
  /\ XEvent /\ Seen
  /\ UNCHANGED <<im, is_destroyed, is_fallback, watching, freed, panicked, due, lost, told>>

\* The active window's input method starts a preedit, or is done with it.
Preedit ==
  /\ OtherXEvent /\ ~lost /\ im = "server" /\ ~is_destroyed /\ May("preedit")
  /\ active # None /\ HasIc(active) /\ contexts[active].allowed
  /\ Unless("late", life[active] = "alive")
  /\ Unless("composing", \A i \in DOMAIN requests : requests[i][1] = active)
  /\ contexts' = [contexts EXCEPT ![active].preedit = ~@]
  /\ events' = Append(events, <<active, IF active \in Composing THEN "End" ELSE "Start">>)
  /\ UNCHANGED <<is_composing, active, frozen, life, unwanted>>

\* active_window follows the focus into the windows that exist, and out of them.
Focus ==
  /\ OtherXEvent /\ May("focus") /\ Nobody
  /\ \E w \in Windows : life[w] = "alive" /\ active' \in {w, None} \ {active}
  /\ UNCHANGED <<contexts, events, is_composing, frozen, life, unwanted>>

\* A key, or what an input method that is allowed made of keys (composed): KeyboardInput
\* goes to the application, a Commit when something was composed.
Key ==
  /\ OtherXEvent /\ May("key") /\ active # None
  /\ \E composed \in BOOLEAN :
       /\ composed => ~is_destroyed /\ HasIc(active) /\ contexts[active].allowed
       /\ LET commits == (composed \/ is_composing) /\ ~is_destroyed /\ HasIc(active)
          IN /\ is_composing' = (is_composing /\ ~commits)
             /\ unwanted' = (unwanted \/ (commits /\ told[active] = "disabled"))
  /\ UNCHANGED <<contexts, events, active, frozen, life>>

\* destroy_notify: remove_context, then Destroyed.  active_window may go on naming it.
DestroyNotify ==
  /\ OtherXEvent
  /\ \E w \in Windows :
       /\ life[w] = "dropped" /\ life' = [life EXCEPT ![w] = "gone"]
       /\ Frees({w}, freed, is_destroyed)
       /\ contexts' = [contexts EXCEPT ![w] = None]
  /\ UNCHANGED <<events, is_composing, active, unwanted, done>>

\* Anything else, a movement of the pointer.
Unrelated ==
  /\ OtherXEvent
  /\ UNCHANGED <<contexts, events, is_composing, active, frozen, life, unwanted, done>>

----
(* Then the requests, then the events. *)

Draining == UNCHANGED <<im, is_destroyed, is_fallback, watching, freed, active, panicked,
                        life, capabilities, server, due, lost, done, env>>

\* set_ime_allowed: a new context in the place of the old one.
HandleRequest ==
  /\ pc = "requests" /\ requests # <<>> /\ ~frozen
  /\ requests' = Tail(requests)
  /\ LET w == requests[1][1]
         on == requests[1][2]
     IN IF is_destroyed \/ (HasIc(w) /\ contexts[w].allowed = on)
        THEN UNCHANGED <<contexts, events, frozen>>
        ELSE /\ Frees({w}, freed, is_destroyed)
             /\ \E ok \in Creatable(w) :
                  \/ ok /\ Created(w, on)
                  \/ ~ok /\ contexts' = [contexts EXCEPT ![w] = None] /\ UNCHANGED events
  /\ UNCHANGED <<is_composing, told, unwanted, pc>> /\ Draining

RequestsDrained ==
  /\ pc = "requests" /\ requests = <<>> /\ pc' = "events"
  /\ UNCHANGED <<contexts, queues, is_composing, told, unwanted, frozen>> /\ Draining

\* Disabled, too, ends what is composed.
StillComposing == {"End"}  \* mutant
EndsComposing == {"End", "Disabled"}

HandleEvent ==
  /\ pc = "events" /\ events # <<>>
  /\ events' = Tail(events)
  /\ LET w == events[1][1]
         kind == events[1][2]
     IN /\ is_composing' = (kind = "Start" \/ (is_composing /\ kind \notin EndsComposing))
        /\ told' = IF kind = "Enabled" THEN [told EXCEPT ![w] = "enabled"]
                   ELSE IF kind = "Disabled" THEN [told EXCEPT ![w] = "disabled"]
                   ELSE told
  /\ UNCHANGED <<contexts, requests, unwanted, pc, frozen>> /\ Draining

EventsDrained ==
  /\ pc = "events" /\ events = <<>> /\ pc' = "xevent"
  /\ UNCHANGED <<contexts, queues, is_composing, told, unwanted, frozen>> /\ Draining

Application == CreateWindow \/ Request \/ DropWindow
Xlib == XimDestroyed \/ XimInstantiated
Drain == HandleRequest \/ RequestsDrained \/ HandleEvent \/ EventsDrained
Next ==
  \/ Application \/ ServerGoes \/ ServerComes
  \/ Xlib \/ Preedit \/ Focus \/ Key \/ DestroyNotify \/ Unrelated
  \/ Drain

Spec == Init /\ [][Next]_vars

\* The loop runs, Xlib tells of what happens to the server, the X server of windows that
\* are gone.  Nothing the user does is fair, the movements of the pointer neither.
Fairness ==
  /\ WF_vars(Drain) /\ WF_vars(XimDestroyed) /\ SF_vars(XimInstantiated)
  /\ SF_vars(DestroyNotify)

----
(* Properties. *)

\* Types of every variable.
TypeOK ==
  /\ im \in {"server", "local"} /\ pc \in {"xevent", "requests", "events"}
  /\ contexts \in [Windows -> {None} \union [ic : BOOLEAN, allowed : BOOLEAN, preedit : BOOLEAN]]
  /\ {is_destroyed, is_fallback, watching, is_composing, panicked, frozen, unwanted,
      server, due, lost, freed} \subseteq BOOLEAN
  /\ requests \in Seq(Windows \X BOOLEAN)
  /\ events \in Seq(Windows \X {"Enabled", "Disabled", "Start", "End"})
  /\ active \in Windows \union {None}
  /\ life \in [Windows -> {"none", "alive", "dropped", "gone"}]
  /\ capabilities \subseteq Windows /\ told \in [Windows -> {"enabled", "disabled"}]
  /\ done \in Nat /\ env \in Environments

\* Replacing the input method never panics, and nothing that Xlib freed with a dead
\* server is freed again, which would freeze the connection, whatever becomes of servers
\* and windows (replace_im, destroy_ic_if_necessary, xim_destroy_callback).
ReplacedSafely == ~panicked /\ ~frozen

\* Once the requests are drained, the context of a window allows input exactly if the
\* application's last request was to: set_ime_allowed replaces it, a rebuild after the
\* server's end or return keeps what it was, and no window is left without.
ContextsFollow ==
  pc # "xevent" \/ requests # <<>> \/ lost \/
  \A w \in Windows : life[w] = "alive" =>
    /\ contexts[w] # None
    /\ contexts[w].allowed = (w \in capabilities)

\* The keys are withheld from the application only while an input method really
\* composes: when the queues are drained, is_composing stands for a context in preedit.
NotWithheld == Quiet /\ is_composing => Composing # {}

\* No text is committed to a window whose last word was that its input method is off.
CommitsWanted == ~unwanted

\* NotWithheld and CommitsWanted.
Composition == NotWithheld /\ CommitsWanted

\* Draining the events ends the composition the application knows of only when no
\* context is in preedit any more, not because of another window.
CompositionKept ==
  [][pc = "events" /\ is_composing /\ ~is_composing' => Composing = {}]_vars

\* The application hears nothing of the input method of a window that is Destroyed.
SilentAfterDestroyed ==
  [][\A w \in Windows : life[w] = "gone" => told'[w] = told[w]]_vars

\* A window that stays gets Enabled, or Disabled, after it asked for it.  The code does not
\* keep this: request_ime_update does not wake the loop, nor does has_pending look at the
\* requests, so one may wait for the next X event for ever.
RequestsHeard ==
  \A w \in Windows :
    /\ (w \in capabilities /\ life[w] = "alive")
         ~> (told[w] = "enabled" \/ w \notin capabilities \/ life[w] # "alive")
    /\ (w \notin capabilities /\ life[w] = "alive")
         ~> (told[w] = "disabled" \/ w \in capabilities \/ life[w] # "alive")

\* While X events go on, if only of the pointer, every request is answered, although it
\* passes two queues and the input method may be replaced meanwhile.
RequestsAnswered == []<><<Unrelated>>_vars => RequestsHeard

\* A server that stays up is used in the end, whenever it came, and its user's windows
\* are not left on the fallback.
ServerUsed == <>[]server => <>[](im = "server" /\ ~is_destroyed)

\* The replacement of contexts and input methods gets where it should, and costs no
\* composition.
Progress == CompositionKept /\ RequestsAnswered /\ ServerUsed
====
