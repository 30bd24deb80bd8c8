---------------------------- MODULE ProcessImage ----------------------------
(***************************************************************************)
(* What SOEMMaster promises to the control loop about process data: the   *)
(* slaves' outputs travel as whole frames from the control loop to the    *)
(* bus, and their inputs as whole frames from the bus to the control      *)
(* loop.  No thread, flag or buffer copy is visible at this level.        *)
(***************************************************************************)
CONSTANTS Output,   \* output frames the slave modules can compose
          Input,    \* input frames the bus can deliver
          NoFrame   \* content of a zero-initialised process image

VARIABLES command,  \* outputs the slave modules composed last
          image,    \* outputs the cyclic task sends every cycle
          wire,     \* outputs the bus received last
          input,    \* inputs the bus delivered last
          latched,  \* inputs handed to the control loop last
          seen      \* inputs the slave modules read last

vars == <<command, image, wire, input, latched, seen>>

Init == /\ command = NoFrame /\ image = NoFrame /\ wire = NoFrame
        /\ input = NoFrame /\ latched = NoFrame /\ seen = NoFrame

\* SOEMDriver::write: the slave modules decide on the next outputs.
Compose == /\ command' \in Output
           /\ UNCHANGED <<image, wire, input, latched, seen>>

\* transfer_RxPDO: the cyclic task takes over the composed outputs.
Publish == /\ image' = command
           /\ UNCHANGED <<command, wire, input, latched, seen>>

\* One bus cycle; sending and receiving can each fail.
Exchange == /\ wire' \in {image, wire}
            /\ input' \in Input \cup {input}
            /\ UNCHANGED <<command, image, latched, seen>>

\* transfer_TxPDO: the control loop is given the latest inputs.
Latch == /\ latched' = input
         /\ UNCHANGED <<command, image, wire, input, seen>>

\* SOEMDriver::read: the slave modules read what was latched.
Sample == /\ seen' = latched
          /\ UNCHANGED <<command, image, wire, input, latched>>

\* start_bus: both working sets restart from the process image.
Attach == /\ command' = image
          /\ latched' = input
          /\ UNCHANGED <<image, wire, input, seen>>

Next == Compose \/ Publish \/ Exchange \/ Latch \/ Sample \/ Attach

Spec == Init /\ [][Next]_vars
=============================================================================
