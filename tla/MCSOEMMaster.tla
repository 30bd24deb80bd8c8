---------------------------- MODULE MCSOEMMaster ----------------------------
(* Two bytes are enough to tear a frame, two values to notice it. *)
EXTENDS SOEMMaster

MCFrames == {[b \in Byte |-> v] : v \in Value}
=============================================================================
