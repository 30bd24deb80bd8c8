----------------------------- MODULE AxisStartup -----------------------------
(***************************************************************************)
(* What the TMCM1610 module puts out and asks for, and in which order, to  *)
(* bring an axis into service: it puts out stop until its configuration    *)
(* has been read, asks for the position to be set only where its output is *)
(* stop, and lets controllers command the axis only after it has asked for *)
(* all references.  A failed configuration stops it until the next one.    *)
(*                                                                         *)
(* It is about the module alone.  When the drive gets what was asked for,  *)
(* and whether the bus sends the output, is not said: requests are queued, *)
(* and while the driver is inactive the bus keeps the last outputs.        *)
(***************************************************************************)
EXTENDS Naturals

CONSTANT References   \* how often the position is to be set before motion

VARIABLES phase,      \* "configuring", "preparing", "motion" or "failed"
          asked,      \* how often the module asked for it so far
          output      \* what its outputs are: "stop", "move" or "command"

vars == <<phase, asked, output>>

Init == phase = "configuring" /\ asked = 0 /\ output = "stop"

\* configure(): a restart; the outputs are those the bus was left with.
Configure == /\ phase' = "configuring" /\ asked' = 0
             /\ output' \in {"stop", "move", "command"}

Fail == /\ phase = "configuring" /\ phase' = "failed"
        /\ UNCHANGED <<asked, output>>

Configured == /\ phase = "configuring" /\ phase' = "preparing"
              /\ UNCHANGED <<asked, output>>

Ask == /\ phase = "preparing" /\ asked < References
       /\ output = "stop" /\ asked' = asked + 1
       /\ UNCHANGED <<phase, output>>

Ready == /\ phase = "preparing" /\ asked = References
         /\ phase' = "motion"
         /\ UNCHANGED <<asked, output>>

\* write(): what the outputs may be depends on the phase only.
Write == /\ output' \in CASE phase \in {"configuring", "failed"} -> {"stop"}
                          [] phase = "preparing" -> {"stop", "move"}
                          [] phase = "motion" -> {"stop", "command"}
         /\ UNCHANGED <<phase, asked>>

Next == Configure \/ Fail \/ Configured \/ Ask \/ Ready \/ Write

Spec == Init /\ [][Next]_vars
=============================================================================
