---- MODULE MCWebCursor ----
\* Instances of WebCursor for TLC.
EXTENDS WebCursor, TLC
CONSTANTS c1, c2, a1

TwoImages == {c1, c2}
OneImage == {c1}
OneAnimation == {a1}
FramesOfOne == [a \in {a1} |-> {c1}]
====
