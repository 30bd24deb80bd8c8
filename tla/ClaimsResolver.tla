--------------------------- MODULE ClaimsResolver ---------------------------
(***************************************************************************)
(* ECClaimsResolver: which interface of which slave stands behind a joint's *)
(* command or state interface, and how a command mode switch asked for on  *)
(* joints reaches the slave modules.                                       *)
(*                                                                         *)
(* The controller manager is external.  It prepares a switch in a service  *)
(* call and performs it in the control loop, one switch at a time; it      *)
(* claims a command interface that exists for one controller only, and it  *)
(* names the interfaces of other hardware (Foreign) to every driver.       *)
(***************************************************************************)
EXTENDS Naturals, CommandMode

CONSTANTS
  Exports,        \* slave |-> kind |-> its exported interfaces, <<claim, name>>
  Trinamic,       \* the slaves with a TMCM1610; others accept any switch
  Configurations, \* of joint |-> its claims, [slave, claim, type, name]
  Transmissions,  \* actuator |-> joint, of the transmissions in the URDF
  Interfaces,     \* controller |-> the joint interfaces it claims
  Foreign,        \* command interfaces of other hardware
  MaxStart        \* bound on the controllers one switch starts

\* A drive has a name, and it exports the command interfaces of a TMCM1610.
ASSUME TrinamicAssumption ==
  /\ Trinamic \subseteq DOMAIN Exports /\ "" \notin Trinamic
  /\ \A s \in Trinamic : ToSet(Exports[s]["command"]) \subseteq Claim
ASSUME ExportsAssumption ==
  \A s \in DOMAIN Exports, kind \in {"command", "state"} :
    Exports[s][kind] \in Seq(STRING \X STRING)
ASSUME ConfigurationsAssumption ==
  \A claims \in Configurations :
    /\ IsFiniteSet(DOMAIN claims)
    /\ \A j \in DOMAIN claims :
         claims[j] \in Seq([slave : STRING, claim : STRING, type : STRING, name : STRING])
ASSUME InterfacesAssumption ==
  \A c \in DOMAIN Interfaces : Interfaces[c] \in Seq(STRING \X STRING)
ASSUME MaxStartAssumption == MaxStart \in Nat

VARIABLES
  joint_claims,            \* the configuration parsed from the URDF
  transmissions,           \* actuator |-> joint, of those that were loaded
  command_interface_map,   \* joint interface |-> slave and its interface
  state_interface_map,     \* the same for the exported state interfaces
  transmission_command_interface_map, \* joint interface |-> actuator interface
  state_interfaces,        \* handles the driver exported, and what values
  command_interfaces,      \* they lead to
  exported,                \* the interfaces were exported
  command_mode,            \* of the Trinamic slaves
  active,                  \* controllers that are active
  pending,                 \* a switch that is prepared
  result                   \* of the last perform

Claimed == <<joint_claims, transmissions, state_interface_map,
             transmission_command_interface_map, state_interfaces,
             command_interfaces, exported>>

vars == <<Claimed, command_interface_map, command_mode, active, pending, result>>

Controller == DOMAIN Interfaces
NoSwitch == [start |-> <<>>, stop |-> {}]

\* What operator[] of the map inserts for an interface it does not know.
Nobody == [slave |-> "", interface |-> <<"", "">>]

-----------------------------------------------------------------------------
(* Resolution of claims *)

\* A claim without a type or a name stands for all of them.
Selects(c, kind, interface) ==
  /\ c.type \in {"", kind}
  /\ c.claim = interface[1] /\ c.name \in {"", interface[2]}

\* A map with one entry more, or with another target for one it has.
Mapping(map, name, target) ==
  [n \in DOMAIN map \cup {name} |-> IF n = name THEN target ELSE map[n]]

\* Variant: the last claim that offers an interface has it.
MapOver(map, joint, c, kind, interface) ==
  IF Selects(c, kind, interface)
  THEN Mapping(map, <<joint, interface[2]>>, [slave |-> c.slave, interface |-> interface])
  ELSE map

\* Map an interface unless the joint already has one of its name.
MapOne(map, joint, c, kind, interface) ==
  IF Selects(c, kind, interface) /\ <<joint, interface[2]>> \notin DOMAIN map
  THEN Mapping(map, <<joint, interface[2]>>, [slave |-> c.slave, interface |-> interface])
  ELSE map

\* All interfaces a claim offers, in the order the slave exports them.
MapClaim(map, joint, c, kind) ==
  IF c.slave \notin DOMAIN Exports THEN map
  ELSE FoldLeft(LAMBDA m, i : MapOne(m, joint, c, kind, i), map, Exports[c.slave][kind])

\* resolve_{command,state}_interfaces_by_joint, of a joint and of all of them.
OfJoint(claims, joint, kind) ==
  FoldLeft(LAMBDA m, c : MapClaim(m, joint, c, kind), <<>>, claims[joint])
Resolve(claims, kind) ==
  LET ofJoint == [j \in DOMAIN claims |-> OfJoint(claims, j, kind)]
  IN [name \in UNION {DOMAIN ofJoint[j] : j \in DOMAIN claims} |->
        ofJoint[name[1]][name]]

-----------------------------------------------------------------------------
(* SOEMDriver::export_{state,command}_interfaces *)

Behind(map) == {i \in DOMAIN map : i[1] \in DOMAIN transmissions}
Proxy(i) == <<transmissions[i[1]], i[2]>>

\* An actuator's interfaces are exported under the name of its joint.
Proxies(map) ==
  [p \in {Proxy(i) : i \in Behind(map)} |-> CHOOSE i \in Behind(map) : Proxy(i) = p]

\* Variant: the iterator over the values advances once per transmission.
NextValueOfJoint(used, k) == used + 1

\* The iterator over transmission_*_values advances with each interface.
NextValue(used, k) == used + k

\* A handle of a joint without transmission is an alias of the slave's; one
\* behind a transmission has a value of its own (counted from 1), which the
\* transmission connects to the slave's.
AddJoint(handles, map, joint) ==
  LET own  == SetToSeq({i \in DOMAIN map : i[1] = joint})
      used == Max({h.value : h \in handles} \cup {0})
  IN handles \cup
       IF joint \in DOMAIN transmissions
       THEN {[name |-> Proxy(own[k]), value |-> NextValue(used, k), behind |-> map[own[k]]] :
               k \in DOMAIN own}
       ELSE {[name |-> i, value |-> 0, behind |-> map[i]] : i \in ToSet(own)}

\* joints is the order an unordered_map is iterated in.
Handles(map, joints) ==
  FoldLeft(LAMBDA handles, joint : AddJoint(handles, map, joint), {}, joints)

-----------------------------------------------------------------------------
(* Command mode switches *)

\* SOEMDriver::prepare/perform resolve them to the actuator's again.
Transmitted(i) == IF i \in DOMAIN transmission_command_interface_map
                  THEN transmission_command_interface_map[i] ELSE i

\* Looking up an interface with operator[] leaves an entry for it.
Lookup(interfaces) ==
  [i \in DOMAIN command_interface_map \cup interfaces |->
     IF i \in DOMAIN command_interface_map THEN command_interface_map[i] ELSE Nobody]

\* Variant: the claims are not sorted by slave.
StartClaimsOfAll(map, s, start) ==
  FoldLeft(LAMBDA claims, i :
             IF map[i].interface \in Claim THEN Append(claims, map[i].interface) ELSE claims,
           <<>>, start)

\* start_claims_by_slave and stop_claims_by_slave.
StartClaims(map, s, start) ==
  FoldLeft(LAMBDA claims, i :
             IF map[i].slave = s THEN Append(claims, map[i].interface) ELSE claims,
           <<>>, start)
StopClaims(map, s, stop) == {map[i].interface : i \in {j \in stop : map[j].slave = s}}

StartInterfaces(switch) ==
  LET all == FlattenSeq([k \in DOMAIN switch.start |-> Interfaces[switch.start[k]]])
  IN [k \in DOMAIN all |-> Transmitted(all[k])]
StopInterfaces(switch) ==
  {Transmitted(i) : i \in UNION {ToSet(Interfaces[c]) : c \in switch.stop}}

Looked(switch) == Lookup(ToSet(StartInterfaces(switch)) \cup StopInterfaces(switch))

\* What a slave with a mode would switch to.
Next_mode(s, switch) ==
  NextMode(command_mode[s],
           StartClaims(Looked(switch), s, StartInterfaces(switch)),
           StopClaims(Looked(switch), s, StopInterfaces(switch)))

Accepted(switch) == \A s \in Trinamic : Next_mode(s, switch) # "refused"

-----------------------------------------------------------------------------
\* on_init: a transmission that does not load is left out.
Loaded == {[a \in loaded |-> Transmissions[a]] : loaded \in SUBSET DOMAIN Transmissions}

Init ==
  /\ joint_claims \in Configurations
  /\ transmissions \in Loaded
  /\ state_interfaces = {} /\ command_interfaces = {}
  /\ command_interface_map = <<>> /\ state_interface_map = <<>>
  /\ transmission_command_interface_map = <<>> /\ exported = FALSE
  /\ command_mode = [s \in Trinamic |-> "STOP"]
  /\ active = {} /\ pending = NoSwitch /\ result = "OK"

\* export_{command,state}_interfaces, with the resolver's ..._by_joint.
Export ==
  /\ ~exported /\ exported' = TRUE
  /\ command_interface_map' = Resolve(joint_claims, "command")
  /\ state_interface_map' = Resolve(joint_claims, "state")
  /\ transmission_command_interface_map' = Proxies(command_interface_map')
  /\ \E joints \in SetToSeqs(DOMAIN joint_claims) :
       /\ command_interfaces' = Handles(command_interface_map', joints)
       /\ state_interfaces' = Handles(state_interface_map', joints)
  /\ UNCHANGED <<joint_claims, transmissions, command_mode, active, pending, result>>

\* External: the interfaces a set of controllers claims.
ClaimedBy(controllers) == UNION {ToSet(Interfaces[c]) : c \in controllers}

\* External: the command interfaces the controller manager knows of.
Available == Foreign \cup {h.name : h \in command_interfaces}

\* External: switches the controller manager may ask for.
Askable(switch) ==
  /\ switch # NoSwitch
  /\ IsInjective(switch.start)
  /\ ToSet(switch.start) \cap active = {} /\ switch.stop \subseteq active
  /\ LET staying == active \ switch.stop
         starting == ToSet(switch.start)
     IN /\ ClaimedBy(starting) \subseteq Available
        /\ ClaimedBy(starting) \cap ClaimedBy(staying) = {}
        /\ \A c, d \in starting : c # d => ClaimedBy({c}) \cap ClaimedBy({d}) = {}

Switches == [start : UNION {[1..n -> Controller] : n \in 0..MaxStart}, stop : SUBSET Controller]

\* Variant: the answers of the slaves are not looked at.
PrepareUnchecked ==
  /\ exported /\ pending = NoSwitch
  /\ \E switch \in Switches :
       /\ Askable(switch)
       /\ command_interface_map' = Looked(switch)
       /\ pending' = switch
  /\ UNCHANGED Claimed /\ UNCHANGED <<command_mode, active, result>>

\* prepare: if a slave refuses, the manager drops the switch.
Prepare ==
  /\ exported /\ pending = NoSwitch
  /\ \E switch \in Switches :
       /\ Askable(switch)
       /\ command_interface_map' = Looked(switch)
       /\ pending' = IF Accepted(switch) THEN switch ELSE NoSwitch
  /\ UNCHANGED Claimed /\ UNCHANGED <<command_mode, active, result>>

\* A slave that refuses keeps its mode.
Switched(s, next) == IF next = "refused" THEN command_mode[s] ELSE next

\* perform: every slave switches; the manager activates and deactivates the
\* controllers whatever the result is.
Perform ==
  /\ pending # NoSwitch
  /\ command_interface_map' = Looked(pending)
  /\ command_mode' = [s \in Trinamic |-> Switched(s, Next_mode(s, pending))]
  /\ result' = IF Accepted(pending) THEN "OK" ELSE "ERROR"
  /\ active' = (active \ pending.stop) \cup ToSet(pending.start)
  /\ pending' = NoSwitch
  /\ UNCHANGED Claimed

\* External: the manager gives up a prepared switch.
Abandon ==
  /\ pending # NoSwitch /\ pending' = NoSwitch
  /\ UNCHANGED Claimed
  /\ UNCHANGED <<command_interface_map, command_mode, active, result>>

Next == Export \/ Prepare \/ Perform \/ Abandon

Spec == Init /\ [][Next]_vars

-----------------------------------------------------------------------------
(* Properties *)

Slave == DOMAIN Exports
Target(kind) == UNION {{[slave |-> s, interface |-> i] : i \in ToSet(Exports[s][kind])} :
                         s \in Slave}

\* Type invariant: modes are modes, the maps lead to exported interfaces.
TypeOK ==
  /\ joint_claims \in Configurations /\ exported \in BOOLEAN
  /\ transmissions \in Loaded
  /\ \A h \in command_interfaces : h.behind \in Target("command")
  /\ \A h \in state_interfaces : h.behind \in Target("state")
  /\ Range(command_interface_map) \subseteq Target("command") \cup {Nobody}
  /\ Range(state_interface_map) \subseteq Target("state")
  /\ command_mode \in [Trinamic -> COMMAND_MODE]
  /\ active \subseteq Controller /\ pending \in Switches /\ result \in {"OK", "ERROR"}

\* Whether a claim of a joint offers an interface of a name.
Offers(c, kind, name) ==
  c.slave \in Slave /\ \E i \in ToSet(Exports[c.slave][kind]) :
                         Selects(c, kind, i) /\ i[2] = name

\* The names of all interfaces of a kind, of whatever slave.
ExportedNames(kind) ==
  {i[2] : i \in UNION {ToSet(Exports[s][kind]) : s \in Slave}}

FirstOf(map, kind) ==
  \A j \in DOMAIN joint_claims :
    LET claims == joint_claims[j] IN
    \A n \in ExportedNames(kind) :
      LET offering == {k \in DOMAIN claims : Offers(claims[k], kind, n)} IN
      IF offering = {} THEN <<j, n>> \notin DOMAIN map \/ map[<<j, n>>] = Nobody
      ELSE LET k == Min(offering)
           IN /\ <<j, n>> \in DOMAIN map
              /\ map[<<j, n>>].slave = claims[k].slave
              /\ map[<<j, n>>].interface = <<claims[k].claim, n>>

\* A joint's interface is the one the first of its claims offers, for command
\* and for state interfaces, however claims overlap and whatever is looked up.
FirstClaimWins ==
  exported => /\ FirstOf(command_interface_map, "command")
              /\ FirstOf(state_interface_map, "state")

\* What is written to, or read from, a handle of a name.
Reached(handles, i) ==
  UNION {{h.behind : h \in {g \in handles : g = f \/ (f.value # 0 /\ g.value = f.value)}} :
           f \in {h \in handles : h.name = i}}

\* A URDF that names things once: no two actuators drive a joint, a joint an
\* actuator drives claims nothing itself, and no other hardware has its names.
NamesAreUnique ==
  /\ IsInjective(Transmissions)
  /\ \A claims \in Configurations :
       /\ \A a \in DOMAIN Transmissions :
            Transmissions[a] \in DOMAIN claims => Transmissions[a] = a
       /\ \A i \in Foreign : i[1] \notin DOMAIN claims

\* The value behind an exported handle is that of one interface of one slave:
\* for commands the one a mode switch of this name is resolved to, for state
\* the one the claims give; and transmission_*_values are large enough.
HandleLeadsToClaim ==
  /\ \A h \in command_interfaces :
       /\ Reached(command_interfaces, h.name) = {command_interface_map[Transmitted(h.name)]}
       /\ h.value <= Cardinality(DOMAIN transmission_command_interface_map)
  /\ \A h \in state_interfaces :
       /\ Reached(state_interfaces, h.name) =
            {state_interface_map[i] : i \in {j \in DOMAIN state_interface_map :
               IF j[1] \in DOMAIN transmissions THEN Proxy(j) = h.name ELSE j = h.name}}
       /\ h.value <= Cardinality(Behind(state_interface_map))

\* A switch every slave accepted when it was prepared is performed by every
\* slave: the modes do not change in between.
PreparedIsPerformed == result = "OK" /\ (pending # NoSwitch => Accepted(pending))

\* The claims of a slave that active controllers hold.
Held(s) ==
  {command_interface_map[i].interface :
     i \in {Transmitted(j) : j \in ClaimedBy(active)}
             \cap {k \in DOMAIN command_interface_map : command_interface_map[k].slave = s}}

\* No two interfaces lead to the same claim (the driver does not "count for
\* overallocation of claims", soem_driver/README.md:171-172).
NoOverallocation ==
  \A i, j \in DOMAIN Resolve(joint_claims, "command") :
    Resolve(joint_claims, "command")[i] = Resolve(joint_claims, "command")[j] => i = j

\* After any history of switches a drive's mode is the mode of the claims that
\* are held, and a drive nobody commands is in STOP.
ModeMatchesClaims ==
  NoOverallocation =>
    \A s \in Trinamic :
      /\ command_mode[s] # "STOP" => command_mode_to_claim[command_mode[s]] \in Held(s)
      /\ \A c \in Held(s) : claim_to_command_mode[c] \in {command_mode[s], "STOP"}

\* "resolved to the exported claims of individual modules": a slave switches
\* only if the switch names a claim of that slave.
OnlyNamedSlavesSwitch ==
  [][\A s \in Trinamic :
       command_mode'[s] # command_mode[s] =>
         \E i \in ToSet(StartInterfaces(pending)) \cup StopInterfaces(pending) :
           i \in DOMAIN command_interface_map /\ command_interface_map[i].slave = s]_vars
=============================================================================
