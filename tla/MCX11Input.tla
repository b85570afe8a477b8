---- MODULE MCX11Input ----
(*
Incoming drags and input methods on X11, for TLC.  They share no state:
a behaviour exercises one of them and leaves the other as it is.
*)
EXTENDS X11Dnd

CONSTANTS Windows, ImeEnvironments

VARIABLES part, im, contexts, is_destroyed, is_fallback, watching, ime_requests, events,
          is_composing, active, pc, frozen, ime_panicked, life, capabilities, told, unwanted,
          server, due, lost, freed, done, typing
ime == <<im, contexts, is_destroyed, is_fallback, watching, ime_requests, events,
         is_composing, active, pc, frozen, ime_panicked, life, capabilities, told, unwanted,
         server, due, lost, freed, done, typing>>

Ime == INSTANCE X11Ime WITH
  Environments <- ImeEnvironments, env <- typing, requests <- ime_requests,
  panicked <- ime_panicked

----
(* Applications that fetch ahead or anywhere, and what sources and applications do that *)
(* the code does not keep up with. *)

Env(refused, overlaps, callbacks, dropping) ==
  [refuses |-> refused, hasty |-> overlaps, fetches |-> callbacks, drops |-> dropping]

Orderly == Env({}, FALSE, {"DragEntered", "DragPosition", "DragDropped", "DragLeft", "other"}, "between")
Refuses == Env({CHOOSE t \in Types : TRUE}, FALSE, {"DragEntered", "DragDropped"}, "between")
Dragging == {Orderly, Refuses}
Refusing == {Refuses}
Chained == {Env({}, FALSE, {"DragDropped", "DataTransferReceived"}, "between")}
Hasty == {Env({}, TRUE, {"DragEntered"}, "between")}
Dropping == {Env({}, FALSE, {"DragEntered"}, "anytime")}

----
(* Windows that ask for input methods, compose and go. *)

ImeEnv(ops, races, max) == [ops |-> ops, races |-> races, max |-> max]

\* Two windows, requests of both, preedits, keys and the focus.
Typing == ImeEnv({"create", "enable", "disable", "preedit", "focus", "key"}, {}, 5)
\* The server goes and comes while windows ask and go.
Restarts == ImeEnv({"create", "enable", "disable", "drop", "server"}, {}, 5)
\* A window goes with its requests and events on their way.
Leaving == ImeEnv({"create", "enable", "drop"}, {"late"}, 4)
Regular == {Typing, Restarts, Leaving}

\* What the code does not keep.
Unseen == {ImeEnv({"create", "enable", "disable", "server"}, {"unseen"}, 6)}
Dying == {ImeEnv({"create", "drop", "server"}, {"dying"}, 4)}
Typed == {Typing}
WhileComposing == {ImeEnv({"create", "enable", "preedit", "key", "focus"}, {"composing"}, 7)}
DropComposing == {ImeEnv({"create", "enable", "preedit", "focus", "drop", "key"}, {"composing"}, 7)}
Late == {ImeEnv({"create", "enable", "drop", "server"}, {"late"}, 5)}
Unopened == {ImeEnv({"create", "server"}, {"open"}, 4)}

----
Init_ ==
  /\ Init /\ Ime!Init
  /\ \/ part = "drag" /\ server /\ typing = CHOOSE e \in ImeEnvironments : TRUE
     \/ part = "ime" /\ env = CHOOSE e \in Environments : TRUE

Next_ ==
  /\ UNCHANGED part
  /\ \/ part = "drag" /\ Next /\ UNCHANGED ime
     \/ part = "ime" /\ Ime!Next /\ UNCHANGED vars

InputSpec ==
  /\ Init_ /\ [][Next_]_<<part, vars, ime>>
  /\ Fairness /\ Ime!Fairness

\* X11Ime: the input method is replaced without harm, contexts follow the requests, and
\* what is taken for a composition is one.
ImeSound == Ime!ReplacedSafely /\ Ime!ContextsFollow /\ Ime!Composition

\* X11Dnd and X11Ime: fetches, drops and requests are answered, and a server that came
\* back is used.
Served == NobodyWaits /\ Ime!Progress
====
