--------------------------- MODULE FieldbusDriver ---------------------------
(***************************************************************************)
(* What SOEMDriver promises to a slave module as long as the bus stays as  *)
(* it was found first: the module works as if it were alone with its       *)
(* slave.  After every read() the joint shows what this slave delivered in *)
(* this cycle; after every write() the slave's outputs follow the command  *)
(* of this cycle.  No lookup, span, working set or transmission is visible *)
(* at this level.                                                          *)
(***************************************************************************)
EXTENDS Naturals

CONSTANTS Module, Nobody,
          Station      \* positions of slaves on the bus

VARIABLES phase,    \* "down", "up", "running", or "void": no promise is left
          drives,   \* whose outputs a slave gets
          senses,   \* whose inputs a module gets, 0 for nobody's
          time,     \* tells a control cycle from the one before
          outputs,  \* marks on the outputs of each slave
          joint     \* marks on what the joint of each module shows

vars == <<phase, drives, senses, time, outputs, joint>>

Time == {0, 1}
NoDrives == [p \in Station |-> Nobody]
NoSenses == [m \in Module |-> 0]
Untouched == [module |-> Nobody, at |-> 0]

Init == /\ phase = "down" /\ drives = NoDrives /\ senses = NoSenses
        /\ time = 0
        /\ outputs = [p \in Station |-> {}] /\ joint = [m \in Module |-> {}]

\* The bus may fail to come up.  A slave without outputs has none to mark.
Attach == /\ phase = "down"
          /\ \/ /\ phase' = "up"
                /\ drives' \in [Station -> Module \cup {Nobody}]
                /\ senses' \in [Module -> Station \cup {0}]
             \/ UNCHANGED <<phase, drives, senses>>
          /\ DOMAIN outputs' = Station
          /\ \A p \in Station : outputs'[p] \in {outputs[p], {}, {Untouched}}
          /\ UNCHANGED <<time, joint>>

Run == phase = "up" /\ phase' = "running"
       /\ UNCHANGED <<drives, senses, time, outputs, joint>>
Halt == phase = "running" /\ phase' = "up"
        /\ UNCHANGED <<drives, senses, time, outputs, joint>>
Detach == /\ phase # "void" /\ phase' = "down"
          /\ drives' = NoDrives /\ senses' = NoSenses
          /\ UNCHANGED <<time, outputs, joint>>

\* A bus that is not running leaves the inputs it delivered last.
Sense ==
  /\ phase \in {"up", "running"}
  /\ time' = 1 - time
  /\ \/ phase = "running" /\ joint' = [m \in Module |->
          IF senses[m] = 0 THEN joint[m] ELSE {[slave |-> senses[m], at |-> time']}]
     \/ phase = "up" /\ \E t \in Time : joint' = [m \in Module |->
          IF senses[m] = 0 THEN joint[m] ELSE {[slave |-> senses[m], at |-> t]}]
     \/ phase = "up" /\ joint' = [m \in Module |->
          IF senses[m] = 0 THEN joint[m] ELSE {[slave |-> 0, at |-> 0]}]
  /\ UNCHANGED <<phase, drives, senses, outputs>>

Drive ==
  /\ phase \in {"up", "running"}
  /\ outputs' = [p \in Station |->
       IF phase = "running" /\ drives[p] # Nobody
       THEN {[module |-> drives[p], at |-> time]} ELSE outputs[p]]
  /\ UNCHANGED <<phase, drives, senses, time, joint>>

\* Another bus, or another mapping of it, ends the promise.
Lose == /\ phase' = "void" /\ drives' = NoDrives /\ senses' = NoSenses
        /\ time' = 0
        /\ outputs' = [p \in Station |-> {}] /\ joint' = [m \in Module |-> {}]

Next == Attach \/ Run \/ Halt \/ Detach \/ Sense \/ Drive \/ Lose

Spec == Init /\ [][Next]_vars
=============================================================================
