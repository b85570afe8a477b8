---- MODULE Win32Popups ----
(*
The windows anchored to another window of winit-win32: a window, its
popup, the popup of that one, and so on.  The system does not move an
owned window with its owner, so winit does, in the window procedure of
the owner, whose Moved event the application may answer by moving
windows itself.

The axes are independent of each other: this is the x axis.  The scale
factor is 1, so that a physical pixel is a logical one, rounded.
*)
EXTENDS Positioner, Sequences

CONSTANTS
  Count,        \* windows: the first has no owner, each other one is owned by the one before
  Screens,      \* the work areas of the monitors, a set of [lo, hi]
  Positioners,  \* what the application positions its windows by
  Sizes,        \* the surface sizes it asks for
  Places,       \* where the user and the application move windows to
  Border,        \* the width of the border of a window
  Acts,         \* what the application and the user do: subset of AllActs
  MaxActs       \* how often

VARIABLES
  rect,        \* outer rectangle of every window, [at, size]
  positioner,  \* WindowState::positioner
  stack,       \* the calls in progress: window procedures, the application, reposition
  posted,      \* SetWindowPos of other threads, which the window's thread carries out
  asked,       \* the surface size the application asked for last
  relative,    \* where the window was last put, from its owner's content
  placed,      \* whether the positioner did that, and nothing was asked since
  acts

vars == <<rect, positioner, stack, posted, asked, relative, placed, acts>>

\* Besides what is done: "interrupt", see Settled, and "overtake", see Calm.
AllActs == {"user", "position", "place", "size", "thread", "interrupt", "overtake"}

Window == 1 .. Count
Owned == 2 .. Count
Call == [kind : {"moved", "owned", "callback"}, window : Window]
  \union [kind : {"resize"}, window : Owned, size : Int]

TypeOK ==
  /\ rect \in [Window -> [at : Int, size : Nat]]
  /\ positioner \in [Owned -> Positioners]
  /\ stack \in Seq(Call)
  /\ asked \in [Owned -> Sizes]
  /\ relative \in [Owned -> Int]
  /\ placed \in [Owned -> BOOLEAN]
  /\ acts \in 0 .. MaxActs

\* to_physical: a half is rounded away from zero.
Rounded(halves) == IF halves >= 0 THEN (halves + 1) \div 2 ELSE -((1 - halves) \div 2)

\* ClientToScreen of the content's origin.
Content(r) == r.at + Border

\* MonitorFromWindow with MONITOR_DEFAULTTONEAREST: the monitor that shows most of the
\* window, or else the nearest.
Shown(r, s) == Lesser(r.at + r.size, s.hi) - Greater(r.at, s.lo)
Monitor(r) == CHOOSE s \in Screens : \A other \in Screens : Shown(r, s) >= Shown(r, other)

\* The work area, from the owner's content and in half pixels.
ClipOf(r, owner) ==
  LET s == Monitor(r)
  IN  [lo |-> 2 * (s.lo - Content(owner)), hi |-> 2 * (s.hi - Content(owner))]

\* compute_anchored_placement: the origin, and the surface size.
Insets == 2 * Border
PlacementOf(p, r, clip) ==
  LET outer == PlaceAxis(p, "x", 2 * r.size, clip)
  IN  [at |-> outer.origin, size |-> Greater(outer.extent - 2 * Insets, 0)]

Placement(k, p) == PlacementOf(p, rect[k], ClipOf(rect[k], rect[k - 1]))

Top == Head(stack)
Below == Tail(stack)

Resizing(k, size) == [kind |-> "resize", window |-> k, size |-> size]
Doing(kind, k) == [kind |-> kind, window |-> k]

\* SetWindowPos with the offset of translate_outer_position.  WM_WINDOWPOSCHANGED says
\* SWP_NOMOVE when the window is there already.
MoveTo(k, at, rest) ==
  /\ rect' = [rect EXCEPT ![k].at = at]
  /\ stack' = IF at = rect[k].at THEN rest ELSE <<Doing("moved", k)>> \o rest

\* Window::reposition and reposition_owned_popup: the position, then the size if it is
\* another one.
RepositionWith(k, placement, rest) ==
  LET at == Rounded(placement.at)
      resized == placement.size # 2 * (rect[k].size - Insets)
  IN  /\ MoveTo(k, Content(rect[k - 1]) + at,
                (IF resized THEN <<Resizing(k, Rounded(placement.size))>> ELSE <<>>) \o rest)
      /\ relative' = [relative EXCEPT ![k] = at]
      /\ placed' = [placed EXCEPT ![k] = TRUE]

\* WindowFlags::set_size, which moves nothing.
Resized(k, size) == rect' = [rect EXCEPT ![k].size = size + Insets]
----
(*
The window procedure.
*)

Calling == \E i \in DOMAIN stack : stack[i].kind = "callback"

\* mutant: the windows owned are not moved along.
WindowPosChanged_NotOwned ==
  /\ stack # <<>> /\ Top.kind = "moved"
  /\ stack' = (IF Calling THEN <<>> ELSE <<Doing("callback", Top.window)>>) \o Below
  /\ UNCHANGED <<rect, positioner, posted, asked, relative, placed, acts>>

\* mutant: first the windows owned, from the callback on.
WindowPosChanged_OwnedFirst ==
  /\ stack # <<>> /\ Top.kind = "moved"
  /\ stack' = (IF Top.window = 1 THEN <<Doing("owned", 1)>> ELSE <<>>)
                \o (IF Calling THEN <<>> ELSE <<Doing("callback", Top.window)>>) \o Below
  /\ UNCHANGED <<rect, positioner, posted, asked, relative, placed, acts>>

\* WM_WINDOWPOSCHANGED with a move: Moved, which is buffered while a callback runs, then
\* the windows owned.
WindowPosChanged ==
  /\ stack # <<>> /\ Top.kind = "moved"
  /\ stack' = (IF Calling THEN <<>> ELSE <<Doing("callback", Top.window)>>)
                \o <<Doing("owned", Top.window)>> \o Below
  /\ UNCHANGED <<rect, positioner, posted, asked, relative, placed, acts>>

\* reposition_owned_windows.
RepositionOwned ==
  /\ stack # <<>> /\ Top.kind = "owned"
  /\ IF Top.window = Count
     THEN stack' = Below /\ UNCHANGED <<rect, relative, placed>>
     ELSE RepositionWith(Top.window + 1, Placement(Top.window + 1, positioner[Top.window + 1]), Below)
  /\ UNCHANGED <<positioner, posted, asked, acts>>

\* WM_SIZE: SurfaceResized, which is buffered while a callback runs.
Told(k, size, rest) ==
  IF Calling \/ rect[k].size = size + Insets THEN rest ELSE <<Doing("callback", k)>> \o rest

\* The second half of a reposition.
SizeChanged ==
  /\ stack # <<>> /\ Top.kind = "resize"
  /\ Resized(Top.window, Top.size)
  /\ stack' = Told(Top.window, Top.size, Below)
  /\ UNCHANGED <<positioner, posted, asked, relative, placed, acts>>
----
(*
The application, in a callback, and the user.
*)

\* No window moves between the call of another thread and its arrival.
Calm == "overtake" \in Acts \/ posted = <<>>

Does(act) ==
  /\ act \in Acts /\ acts < MaxActs /\ Calm
  /\ acts' = acts + 1

\* Any other callback.
CallbackBegins ==
  /\ stack = <<>> /\ acts < MaxActs
  /\ stack' = <<Doing("callback", 1)>>
  /\ UNCHANGED <<rect, positioner, posted, asked, relative, placed, acts>>

CallbackEnds ==
  /\ stack # <<>> /\ Top.kind = "callback"
  /\ stack' = Below
  /\ UNCHANGED <<rect, positioner, posted, asked, relative, placed, acts>>

InCallback == stack # <<>> /\ Top.kind = "callback"

\* A window that is moved by its positioner is sized and moved by hand only after that:
\* an application that answers Moved by doing so interrupts a reposition, whose size
\* arrives in the end.
Settled(k) ==
  "interrupt" \in Acts
    \/ \A i \in DOMAIN stack : ~(stack[i].kind = "resize" /\ stack[i].window = k)

\* The modal loop of a drag, or the application itself, moves the first window.
FirstMoves ==
  /\ \/ stack = <<>> /\ Does("user")
     \/ InCallback /\ Does("place")
  /\ \E at \in Places : at # rect[1].at /\ MoveTo(1, at, stack)
  /\ UNCHANGED <<positioner, posted, asked, relative, placed>>

SetPositioner ==
  /\ InCallback /\ Does("position")
  /\ \E k \in Owned, p \in Positioners :
       /\ p # positioner[k] /\ Settled(k)
       /\ positioner' = [positioner EXCEPT ![k] = p]
       /\ RepositionWith(k, Placement(k, p), stack)
  /\ UNCHANGED <<posted, asked>>

\* set_outer_position of a window anchored: from its owner's content.
SetOuterPosition ==
  /\ InCallback /\ Does("place")
  /\ \E k \in Owned, at \in Places :
       /\ Settled(k)
       /\ MoveTo(k, Content(rect[k - 1]) + at, stack)
       /\ relative' = [relative EXCEPT ![k] = at]
       /\ placed' = [placed EXCEPT ![k] = FALSE]
  /\ UNCHANGED <<positioner, posted, asked>>

RequestSurfaceSize ==
  /\ InCallback /\ Does("size")
  /\ \E k \in Owned, size \in Sizes :
       /\ size + Insets # rect[k].size /\ Settled(k)
       /\ Resized(k, size)
       /\ asked' = [asked EXCEPT ![k] = size]
       /\ placed' = [placed EXCEPT ![k] = FALSE]
  /\ UNCHANGED <<positioner, stack, posted, relative>>

\* set_positioner of another thread: SWP_ASYNCWINDOWPOS leaves both calls to the thread
\* of the window, with the coordinates computed now.
ThreadSetsPositioner ==
  /\ Does("thread")
  /\ "overtake" \notin Acts => stack = <<>>
  /\ \E k \in Owned, p \in Positioners :
       /\ p # positioner[k]
       /\ positioner' = [positioner EXCEPT ![k] = p]
       /\ LET to == Placement(k, p)
              at == Rounded(to.at)
          IN  /\ posted' = posted \o <<[window |-> k, kind |-> "at", value |-> Content(rect[k - 1]) + at]>>
                  \o (IF to.size = 2 * (rect[k].size - Insets) THEN <<>>
                      ELSE <<[window |-> k, kind |-> "size", value |-> Rounded(to.size)]>>)
              /\ relative' = [relative EXCEPT ![k] = at]
              /\ placed' = [placed EXCEPT ![k] = TRUE]
  /\ UNCHANGED <<rect, stack, asked>>

\* The thread of the windows looks at its queue.
PostedArrives ==
  /\ stack = <<>> /\ posted # <<>>
  /\ LET head == Head(posted)
     IN  IF head.kind = "at" THEN MoveTo(head.window, head.value, stack)
                             ELSE /\ Resized(head.window, head.value)
                                  /\ stack' = Told(head.window, head.value, stack)
  /\ posted' = Tail(posted)
  /\ UNCHANGED <<positioner, asked, relative, placed, acts>>

\* Window::new of each, when nothing has happened yet: the system put it at the edge of
\* the first monitor, request_surface_size gave it its size and reposition its place.
Chain(first, p, sizes) ==
  LET at[k \in Window] ==
        IF k = 1 THEN first
        ELSE LET bare == [at |-> 0, size |-> sizes[k] + Insets]
                 to == PlacementOf(p[k], bare, ClipOf(bare, at[k - 1]))
             IN  [at |-> Content(at[k - 1]) + Rounded(to.at), size |-> Rounded(to.size) + Insets]
  IN  at

Init ==
  /\ \E at \in Places : \E size \in Sizes :
       /\ positioner \in [Owned -> Positioners]
       /\ asked \in [Owned -> Sizes]
       /\ rect = Chain([at |-> at, size |-> size + Insets], positioner, asked)
  /\ stack = <<>> /\ posted = <<>> /\ acts = 0
  /\ relative = [k \in Owned |-> rect[k].at - Content(rect[k - 1])]
  /\ placed = [k \in Owned |-> TRUE]

Next ==
  \/ WindowPosChanged \/ RepositionOwned \/ SizeChanged
  \/ CallbackBegins \/ CallbackEnds \/ FirstMoves
  \/ SetPositioner \/ SetOuterPosition \/ RequestSurfaceSize
  \/ ThreadSetsPositioner \/ PostedArrives

Spec == Init /\ [][Next]_vars
----
AtRest == stack = <<>> /\ posted = <<>>

\* No window stays behind its owner: whatever moved the one, and whatever the
\* application did meanwhile, the other is where it was last put, as seen from there.
Attached ==
  AtRest => \A k \in Owned : rect[k].at - Content(rect[k - 1]) = relative[k]

InsideSome(r) == \E s \in Screens : s.lo <= r.at /\ r.at + r.size <= s.hi

\* A window the positioner placed is on a screen, if the adjustments it was given can
\* do that, although it was placed with the outer size and is resized by the inner.
OnScreen ==
  AtRest => \A k \in Owned :
    /\ placed[k] /\ "slide" \in positioner[k].flags["x"]
    /\ \/ "resize" \in positioner[k].flags["x"]
       \/ \A s \in Screens : rect[k].size <= s.hi - s.lo
    => InsideSome(rect[k])

\* The positioner never makes a window larger than the application asked for.
NeverGrown == \A k \in Owned : rect[k].size <= asked[k] + Insets

\* place_window is what the protocol says of the adjustments, wherever the windows are
\* (positioner.rs:109).
Adjusted ==
  AtRest =>
  \A k \in Owned :
    LET p == positioner[k]
        extent == 2 * rect[k].size
        clip == ClipOf(rect[k], rect[k - 1])
    IN  AsAdjusted(PlaceAxis(p, "x", extent, clip), Origin(p, "x", extent), extent, clip,
                   Flipped(p, "x", extent), p.flags["x"])

\* A window is on the monitor its owner's content begins on (not kept: it is placed on
\* the one it was on before).
Follows ==
  AtRest => \A k \in Owned :
    placed[k] /\ "slide" \in positioner[k].flags["x"]
      => \A s \in Screens : s.lo <= Content(rect[k - 1]) /\ Content(rect[k - 1]) < s.hi
           => Monitor(rect[k]) = s

\* A window that is small because there was no room is as large as asked for once there
\* is (not kept: it is placed with the size it has).
GrowsBack ==
  AtRest => \A k \in Owned :
    placed[k] /\ rect[k].size < asked[k] + Insets
      => LET wide == 2 * (asked[k] + Insets)
         IN  ~FitsIn(Origin(positioner[k], "x", wide), wide, ClipOf(rect[k], rect[k - 1]))
====
