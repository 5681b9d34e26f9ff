----------------------------- MODULE MCWebClient -----------------------------
(* Small instances of the images, forms, settings, session and navigation.    *)
EXTENDS WebClient

CONSTANTS m1, m2, auto, fine, p1, p2, f1, s1

FirstTwo == {m1, m2}

\* A job is a queue of the optimiser, or a file of a selection.
JobIds == (1..3) \X (0..3)

\* [start, floor] of JPEG by default, of PNG sources and of the preset "quality"
CompressOptions == {[start |-> 85, floor |-> 60], [start |-> 90, floor |-> 60], [start |-> 92, floor |-> 82]}
=============================================================================
