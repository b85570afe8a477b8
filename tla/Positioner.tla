---- MODULE Positioner ----
(*
winit-common/src/positioner.rs: where a window anchored to its parent
goes, computed by winit on the systems that have no xdg_positioner.

Lengths are logical pixels and, because half of a width or a height may
be added, counted in half pixels.
*)
EXTENDS Integers

\* WindowAnchor and WindowGravity have the same values.
Sides == {"Center", "Top", "Bottom", "Left", "Right",
          "TopLeft", "BottomLeft", "TopRight", "BottomRight"}
Lefts == {"Left", "TopLeft", "BottomLeft"}
Rights == {"Right", "TopRight", "BottomRight"}
Tops == {"Top", "TopLeft", "TopRight"}
Bottoms == {"Bottom", "BottomLeft", "BottomRight"}

Axes == {"x", "y"}

\* The point of the anchor rectangle, in halves of its extent.
AnchorFraction(anchor) ==
  [x |-> IF anchor \in Lefts THEN 0 ELSE IF anchor \in Rights THEN 2 ELSE 1,
   y |-> IF anchor \in Tops THEN 0 ELSE IF anchor \in Bottoms THEN 2 ELSE 1]

\* How far before that point the window begins, in halves of its extent: a window
\* that grows to the left ends at the point.
GravityFraction(gravity) ==
  [x |-> IF gravity \in Lefts THEN 2 ELSE IF gravity \in Rights THEN 0 ELSE 1,
   y |-> IF gravity \in Tops THEN 2 ELSE IF gravity \in Bottoms THEN 0 ELSE 1]

Greater(a, b) == IF a >= b THEN a ELSE b
Lesser(a, b) == IF a <= b THEN a ELSE b

\* fits
FitsIn(origin, extent, clip) == origin >= clip.lo /\ origin + extent <= clip.hi

Flip(origin, extent, clip, flipped, flags) ==
  IF "flip" \in flags /\ ~FitsIn(origin, extent, clip) /\ FitsIn(flipped, extent, clip)
  THEN flipped ELSE origin

\* A window as large as the clip or larger begins where the clip begins.
Slide(origin, extent, clip, flags) ==
  IF "slide" \in flags /\ ~FitsIn(origin, extent, clip)
  THEN Lesser(Greater(origin, clip.lo), Greater(clip.hi - extent, clip.lo))
  ELSE origin

Resize(origin, extent, clip, flags) ==
  IF "resize" \in flags /\ ~FitsIn(origin, extent, clip)
  THEN [origin |-> Greater(origin, clip.lo),
        extent |-> Greater(Lesser(clip.hi, origin + extent) - Greater(origin, clip.lo), 0)]
  ELSE [origin |-> origin, extent |-> extent]

\* mutant: the far edge of the window is not looked at.
ConstrainAxis_Grown(origin, extent, clip, flipped, flags) ==
  LET at == Slide(Flip(origin, extent, clip, flipped, flags), extent, clip, flags)
  IN  IF "resize" \in flags /\ ~FitsIn(at, extent, clip)
      THEN [origin |-> Greater(at, clip.lo),
            extent |-> Greater(clip.hi - Greater(at, clip.lo), 0)]
      ELSE [origin |-> at, extent |-> extent]

ConstrainAxis(origin, extent, clip, flipped, flags) ==
  Resize(Slide(Flip(origin, extent, clip, flipped, flags), extent, clip, flags),
         extent, clip, flags)

\* One axis of place_window; it treats both alike.
Origin(p, axis, extent) ==
  2 * p.rect[axis].at + p.rect[axis].size * AnchorFraction(p.anchor)[axis]
    - (extent * GravityFraction(p.gravity)[axis]) \div 2 + 2 * p.offset[axis]

Flipped(p, axis, extent) ==
  2 * p.rect[axis].at + p.rect[axis].size * (2 - AnchorFraction(p.anchor)[axis])
    - (extent * (2 - GravityFraction(p.gravity)[axis])) \div 2 + 2 * p.offset[axis]

PlaceAxis(p, axis, extent, clip) ==
  ConstrainAxis(Origin(p, axis, extent), extent, clip, Flipped(p, axis, extent), p.flags[axis])

PlaceWindow(p, size, clip) == [axis \in Axes |-> PlaceAxis(p, axis, size[axis], clip[axis])]
----
(*
What xdg_positioner says of the three adjustments, without the order of
their computation.
*)

\* The place nearest to origin at which the window is inside the clip.
Nearest(origin, extent, clip) ==
  CHOOSE at \in clip.lo .. clip.hi - extent :
    \A other \in clip.lo .. clip.hi - extent :
      Greater(at - origin, origin - at) <= Greater(other - origin, origin - other)

\* The part of the window that is inside the clip, if any is.
Visible(origin, extent, clip) == {p \in clip.lo .. clip.hi : origin <= p /\ p <= origin + extent}

Interval(lo, hi) == [origin |-> lo, extent |-> hi - lo]

\* The three adjustments in the order of the protocol: flipped if that fits, else slid
\* as far as needed, else cut.
AsAdjusted(placed, origin, extent, clip, flipped, flags) ==
  LET whole(at) == [origin |-> at, extent |-> extent]
      seen == Visible(origin, extent, clip)
      room == clip.hi - clip.lo
      fits == FitsIn(origin, extent, clip)
      flips == ~fits /\ "flip" \in flags /\ FitsIn(flipped, extent, clip)
      slides == ~fits /\ ~flips /\ "slide" \in flags
      cut == ~fits /\ ~flips /\ ~slides /\ "resize" \in flags
  IN  /\ fits => placed = whole(origin)
      /\ flips => placed = whole(flipped)
      /\ slides /\ extent <= room => placed = whole(Nearest(origin, extent, clip))
      /\ slides /\ extent > room =>
           placed = IF "resize" \in flags THEN Interval(clip.lo, clip.hi) ELSE whole(clip.lo)
      /\ cut /\ seen # {} =>
           placed = Interval(CHOOSE p \in seen : \A q \in seen : p <= q,
                             CHOOSE p \in seen : \A q \in seen : p >= q)
      /\ cut /\ seen = {} => placed.extent = 0
      /\ ~fits /\ ~flips /\ ~slides /\ ~cut => placed = whole(origin)
====
