----------------------------- MODULE SOEMDriver -----------------------------
(***************************************************************************)
(* How SOEMDriver (soem_driver.cpp) ties slave modules to slaves on the    *)
(* bus: loading and configuring modules, the SDO setup hooks, the spans of *)
(* process data start_bus hands out, and the control cycle through         *)
(* transmissions, modules and working sets.                                *)
(*                                                                         *)
(* A callback or call is not interrupted by another one; what the cyclic   *)
(* task does meanwhile is in SOEMMaster and Mailbox.  Here the transfer of *)
(* a working set is one step.  Data are marks: who made them, in which     *)
(* control cycle.                                                          *)
(***************************************************************************)
EXTENDS Naturals, Sequences, FiniteSets, FiniteSetsExt

CONSTANTS
  Name, Nobody,  \* names of slave modules, and none of them
  Hardware,      \* sequences of slave_infos the URDF may hold
  MaxSlaves,     \* EC_MAXSLAVE
  Buses,         \* what a scan finds: the aliases, in order of position
  Layouts,       \* process data SOEM maps: per position and direction
                 \* the bytes of the group
  Transmitted,   \* modules whose joint is behind a transmission
  MaxScans       \* bound on the scans of the bus

Position == 1..MaxSlaves
SlaveInfo == [name : Name, alias : Nat, position : Nat]
Direction == {"RxPDO", "TxPDO"}
Group(map, d) == UNION {map[i][d] : i \in DOMAIN map}

ASSUME NobodyAssumption == Nobody \notin Name
ASSUME HardwareAssumption == Hardware \subseteq Seq(SlaveInfo)
ASSUME BusAssumption ==
  /\ MaxSlaves \in Nat /\ MaxScans \in Nat
  /\ \A b \in Buses : b \in Seq(Nat) /\ Len(b) \in Position

\* SOEM maps the bytes of a group without gaps, each of them to one slave.
ASSUME LayoutAssumption ==
  \A map \in Layouts :
    /\ map \in Seq([Direction -> SUBSET Nat])
    /\ \A d \in Direction : /\ IsFiniteSet(Group(map, d))
                           /\ Group(map, d) = 1..Cardinality(Group(map, d))
    /\ \A d \in Direction, i, j \in DOMAIN map :
         i # j => map[i][d] \cap map[j][d] = {}
ASSUME TransmissionAssumption == Transmitted \subseteq Name

VARIABLES
  component, step,       \* lifecycle state; slave_info on_configure is at
  slave_infos, slaves,   \* from the URDF; names of the loaded modules
  initialized_slaves,    \* modules read() and write() call
  position,              \* _position_ec_bus of each module
  buffers,               \* _RxPDO and _TxPDO of each module
  scans, changed,        \* scans so far; some found another bus or mapping
  bus, layout,           \* ec_bus.slavelist: aliases and mapped bytes
  hooked,                \* positions with PO2SOconfigx set in slavelist
  SDO_setup_hook_store,  \* position -> module to set the slave up
  set_up,                \* position -> module that did at the last start
  ec_slaves,             \* SOEMMaster::slaves
  slaves_data_access,
  working, IOmap,        \* RxPDO_working, TxPDO_working and the bus side
  turn, time,            \* next call of the control loop once the driver is
                         \* up, and its cycle
  actuator_command,      \* command a module finds: cycle it was given in
  actuator_state, joint_state  \* marks on the state of module and joint

setup == <<bus, layout, hooked, SDO_setup_hook_store, set_up, ec_slaves,
           slaves_data_access, scans, changed>>
modules == <<slave_infos, slaves, initialized_slaves, position, buffers>>
cycle == <<turn, time, actuator_command, actuator_state, joint_state>>
vars == <<component, step, modules, setup, working, IOmap, cycle>>

Time == {0, 1}
Output == [module : Name \cup {Nobody}, at : Time]
Input == [slave : Position \cup {0}, at : Time]
Untouched == [RxPDO |-> [module |-> Nobody, at |-> 0],
              TxPDO |-> [slave |-> 0, at |-> 0]]

\* A span of a working set: the allocation it points into, and its bytes.
NoSpan == [block |-> 0, bytes |-> {}]
NoBuffers == [d \in Direction |-> NoSpan]

Init ==
  /\ component = "loading" /\ step = 0
  /\ slave_infos \in Hardware /\ slaves = {} /\ initialized_slaves = <<>>
  /\ position = [m \in Name |-> 0] /\ buffers = [m \in Name |-> NoBuffers]
  /\ scans = 0 /\ changed = FALSE
  /\ bus = <<>> /\ layout = <<>> /\ hooked = {}
  /\ SDO_setup_hook_store = [p \in Position |-> Nobody]
  /\ set_up = [p \in Position |-> Nobody]
  /\ ec_slaves = <<>> /\ slaves_data_access = <<>>
  /\ working = [d \in Direction |-> [block |-> 0, capacity |-> 0, data |-> <<>>]]
  /\ IOmap = [d \in Direction |-> <<>>]
  /\ turn = "read" /\ time = 0
  /\ actuator_command = [m \in Name |-> 0]
  /\ actuator_state = [m \in Name |-> {}] /\ joint_state = [m \in Name |-> {}]

-----------------------------------------------------------------------------
(* Lifecycle callbacks *)

\* on_init: a module that throws is left out, one whose init() fails ends it.
\* Modules of one name: the last one that loads replaces the others.
LoadModules ==
  /\ component = "loading"
  /\ slaves' \in SUBSET {slave_infos[i].name : i \in DOMAIN slave_infos}
  /\ component' \in {"unconfigured", "finalized"}
  /\ UNCHANGED <<step, slave_infos, initialized_slaves, position, buffers,
                 setup, working, IOmap, cycle>>

\* Variant: positions are counted from 0, as the elements of slaves are.
FoundFromZero(b) == ec_slaves \o [p \in DOMAIN b |-> [position |-> p - 1, alias |-> b[p]]]

\* SOEMMaster::init appends what a scan finds to what earlier ones found.
Found(b) == ec_slaves \o [p \in DOMAIN b |-> [position |-> p, alias |-> b[p]]]

\* on_configure, SOEMMaster::init: the scan clears SOEM's list of slaves and
\* the hooks in it.  If it fails, on_configure does nothing else.
InitMaster ==
  /\ component = "unconfigured" /\ scans < MaxScans
  /\ bus' \in Buses
  /\ ec_slaves' = Found(bus')
  /\ hooked' = {}
  /\ scans' = scans + 1 /\ changed' = (changed \/ (scans > 0 /\ bus' # bus))
  /\ component' = "configuring" /\ step' = 1
  /\ UNCHANGED <<modules, layout, SDO_setup_hook_store, set_up,
                 slaves_data_access, working, IOmap, cycle>>

Matches(info, entry) == IF info.alias = 0 THEN entry.position = info.position
                        ELSE entry.alias = info.alias

\* Entries of slaves the lookup of on_configure may end at; it takes the first.
Candidates(info) == {i \in DOMAIN ec_slaves : Matches(info, ec_slaves[i])}

AtModule == component = "configuring" /\ step \in DOMAIN slave_infos
            /\ step' = step + 1

\* The module was not loaded, or no slave was found for it.
SkipModule ==
  /\ AtModule
  /\ slave_infos[step].name \notin slaves \/ Candidates(slave_infos[step]) = {}
  /\ UNCHANGED <<component, modules, setup, working, IOmap, cycle>>

\* Variant: a hook attached before is kept.
KeepHook(p, m) ==
  /\ SDO_setup_hook_store' = [SDO_setup_hook_store EXCEPT
                                ![p] = IF @ = Nobody THEN m ELSE @]
  /\ hooked' = hooked \cup {p}

\* slave_attach_SDO_setup_hook
AttachHook(p, m) ==
  /\ SDO_setup_hook_store' = [SDO_setup_hook_store EXCEPT ![p] = m]
  /\ hooked' = hooked \cup {p}

\* The module learns its position and is configured, or refuses to be.
ConfigureModule ==
  /\ AtModule
  /\ LET info == slave_infos[step]
         p == ec_slaves[Min(Candidates(info))].position
     IN /\ info.name \in slaves /\ Candidates(info) # {}
        /\ position' = [position EXCEPT ![info.name] = p]
        /\ \/ /\ AttachHook(p, info.name)
              /\ initialized_slaves' = Append(initialized_slaves, info.name)
           \/ UNCHANGED <<SDO_setup_hook_store, hooked, initialized_slaves>>
  /\ UNCHANGED <<component, slave_infos, slaves, buffers, bus, layout, set_up,
                 ec_slaves, slaves_data_access, scans, changed, working, IOmap,
                 cycle>>

\* call_slave_SDO_setup_hook: on their way to SAFE_OP, SOEM has the slaves of
\* the last scan set up that have a hook.
CallHooks == [p \in Position |-> IF p \in hooked \cap DOMAIN bus
                                 THEN SDO_setup_hook_store[p] ELSE Nobody]

\* std::vector::resize: beyond its capacity it moves to a new allocation.
Resize(vector, content) ==
  LET size == Len(content)
  IN IF size <= vector.capacity THEN [vector EXCEPT !.data = content]
     ELSE [block |-> vector.block + 1, data |-> content,
           capacity |-> Max({2 * Len(vector.data), size})]

\* getRxPDO, getTxPDO: a slave the scan did not find again has no bytes.
Span(vectors, map, p, d) ==
  [block |-> vectors[d].block,
   bytes |-> IF p \in DOMAIN map THEN map[p][d] ELSE {}]

\* Entry of slaves_data_access for an entry of slaves.
Access(vectors, map, p) ==
  [position |-> p, buffers |-> [d \in Direction |-> Span(vectors, map, p, d)]]

\* Variant: slaves no module is configured for get no entry.
DataAccessOfHooked(vectors, map) ==
  slaves_data_access \o
    SelectSeq([i \in DOMAIN ec_slaves |-> Access(vectors, map, ec_slaves[i].position)],
              LAMBDA entry : entry.position \in hooked)

\* start_bus appends one entry per entry of slaves, of all scans.
DataAccess(vectors, map) ==
  slaves_data_access \o
    [i \in DOMAIN ec_slaves |-> Access(vectors, map, ec_slaves[i].position)]

\* What on_configure assigns to a module: the first entry of its position.
Assign(access, m) ==
  LET entries == {i \in DOMAIN access : access[i].position = position[m]}
  IN IF entries = {} THEN buffers[m] ELSE access[Min(entries)].buffers

Called == {initialized_slaves[i] : i \in DOMAIN initialized_slaves}

\* on_configure, start_bus: SOEM maps the process data, calling the hooks, and
\* the working sets restart from the IOmap.  If the slaves do not reach
\* SAFE_OP the spans are not assigned.  The control loop may meet the driver
\* at either of its calls.
StartBus ==
  /\ component = "configuring" /\ step = Len(slave_infos) + 1
  /\ layout' \in {map \in Layouts : Len(map) = Len(bus)}
  /\ changed' = (changed \/ (scans > 1 /\ layout' # layout))
  /\ set_up' = CallHooks
  /\ IOmap' = [d \in Direction |->
                 [b \in 1..Cardinality(Group(layout', d)) |->
                    IF b \in DOMAIN IOmap[d] THEN IOmap[d][b] ELSE Untouched[d]]]
  /\ working' = [d \in Direction |-> Resize(working[d], IOmap'[d])]
  /\ slaves_data_access' = DataAccess(working', layout')
  /\ step' = 0
  /\ \/ component' = "inactive"
        /\ buffers' = [m \in Name |-> IF m \in Called
                                      THEN Assign(slaves_data_access', m)
                                      ELSE buffers[m]]
        /\ turn' \in {"read", "write"}
     \/ component' \in {"unconfigured", "finalized"} /\ UNCHANGED <<buffers, turn>>
  /\ UNCHANGED <<slave_infos, slaves, initialized_slaves, position, scans, bus,
                 hooked, SDO_setup_hook_store, ec_slaves, time,
                 actuator_command, actuator_state, joint_state>>

\* Inputs as the slaves of the current bus deliver them in cycle t: a byte is
\* mapped by one slave.
Delivered(t) ==
  [b \in DOMAIN IOmap.TxPDO |->
     [slave |-> CHOOSE p \in DOMAIN layout : b \in layout[p].TxPDO, at |-> t]]

\* on_activate: run() exchanges process data until the bus is in OP.  If it
\* is not, the exception leaves on_activate.
Activate ==
  /\ component = "inactive"
  /\ component' \in {"active", "unconfigured", "inactive", "finalized"}
  /\ IOmap' \in {IOmap, [IOmap EXCEPT !.TxPDO = Delivered(time)]}
  /\ UNCHANGED <<step, modules, setup, working, cycle>>

\* on_deactivate stops the master, on_cleanup and on_shutdown the publisher;
\* nothing of what on_configure built is taken down.
Leave ==
  /\ \/ component = "active" /\ component' = "inactive"
     \/ component = "inactive" /\ component' = "unconfigured"
     \/ component \in {"unconfigured", "inactive", "active"}
          /\ component' = "finalized"
  /\ UNCHANGED <<step, modules, setup, working, IOmap, cycle>>

Finalized == component = "finalized" /\ UNCHANGED vars

-----------------------------------------------------------------------------
(* The control cycle: read(), controllers, write() *)

\* Marks a module finds in its span.  In a freed allocation it finds anything,
\* which no mark stands for.
Sensed(vector, m) ==
  LET span == buffers[m].TxPDO
  IN IF span.block # vector.block THEN {}
     ELSE {vector.data[b] : b \in span.bytes \cap DOMAIN vector.data}

\* Variant: the transmissions run before the modules have read.
JointOfLastCycle(states) ==
  [m \in Name |-> IF m \in Transmitted THEN actuator_state[m] ELSE states[m]]

\* actuator_to_joint of the state transmissions, after the modules have read.
\* Without a transmission the joint's handle is the module's.
Joint(states) == states

Read ==
  /\ turn = "read" /\ component \in {"inactive", "active"}
  /\ time' = 1 - time
  /\ IOmap' = IF component = "active" THEN [IOmap EXCEPT !.TxPDO = Delivered(time')]
              ELSE IOmap
  /\ working' = IF component = "active" THEN [working EXCEPT !.TxPDO.data = IOmap'.TxPDO]
                ELSE working
  /\ actuator_state' = [m \in Name |-> IF m \in Called THEN Sensed(working'.TxPDO, m)
                                       ELSE actuator_state[m]]
  /\ joint_state' = Joint(actuator_state')
  /\ turn' = "write"
  /\ UNCHANGED <<component, step, modules, setup, actuator_command>>

\* Entries of initialized_slaves that write byte b.
Writers(b) ==
  {i \in DOMAIN initialized_slaves :
     LET span == buffers[initialized_slaves[i]].RxPDO
     IN span.block = working.RxPDO.block /\ b \in span.bytes}

\* The outputs after all modules have written, in order.
Written(commands) ==
  [b \in DOMAIN working.RxPDO.data |->
     IF Writers(b) = {} THEN working.RxPDO.data[b]
     ELSE LET m == initialized_slaves[Max(Writers(b))]
          IN [module |-> m, at |-> commands[m]]]

\* Variant: the transmissions run after the modules have written.
LateCommands == [m \in Name |-> IF m \in Transmitted THEN actuator_command[m]
                                ELSE time]

\* What the modules find, after joint_to_actuator of the command transmissions.
Commands == [m \in Name |-> time]

\* write(): the controllers have given commands of this cycle; transmissions,
\* modules, bus.
Write ==
  /\ turn = "write" /\ component \in {"inactive", "active"}
  /\ actuator_command' = [m \in Name |-> time]
  /\ working' = [working EXCEPT !.RxPDO.data = Written(Commands)]
  /\ IOmap' = IF component = "active"
              THEN [IOmap EXCEPT !.RxPDO = working'.RxPDO.data] ELSE IOmap
  /\ turn' = "read"
  /\ UNCHANGED <<component, step, modules, setup, time, actuator_state, joint_state>>

Lifecycle == LoadModules \/ InitMaster \/ SkipModule \/ ConfigureModule
               \/ StartBus \/ Activate \/ Leave

Next == Lifecycle \/ Read \/ Write \/ Finalized

Spec == Init /\ [][Next]_vars

-----------------------------------------------------------------------------
(* Properties *)

Up == component \in {"inactive", "active"}
DistinctNames == \A i, j \in DOMAIN slave_infos :
                   slave_infos[i].name = slave_infos[j].name => i = j

\* Type invariant.
TypeOK ==
  /\ component \in {"loading", "unconfigured", "configuring", "inactive",
                    "active", "finalized"}
  /\ step \in Nat /\ slave_infos \in Hardware /\ slaves \subseteq Name
  /\ initialized_slaves \in Seq(slaves) /\ position \in [Name -> Position \cup {0}]
  /\ buffers \in [Name -> [Direction -> [block : Nat, bytes : SUBSET Nat]]]
  /\ scans \in 0..MaxScans /\ changed \in BOOLEAN
  /\ bus \in Buses \cup {<<>>} /\ layout \in Layouts \cup {<<>>}
  /\ hooked \subseteq Position
  /\ SDO_setup_hook_store \in [Position -> Name \cup {Nobody}]
  /\ set_up \in [Position -> Name \cup {Nobody}]
  /\ ec_slaves \in Seq([position : Position, alias : Nat])
  /\ slaves_data_access \in
       Seq([position : Position,
            buffers : [Direction -> [block : Nat, bytes : SUBSET Nat]]])
  /\ DOMAIN working = Direction /\ DOMAIN IOmap = Direction
  /\ IOmap.RxPDO \in Seq(Output) /\ working.RxPDO.data \in Seq(Output)
  /\ IOmap.TxPDO \in Seq(Input) /\ working.TxPDO.data \in Seq(Input)
  /\ \A d \in Direction : working[d].block \in Nat
                          /\ working[d].capacity >= Len(working[d].data)
  /\ turn \in {"read", "write"} /\ time \in Time
  /\ actuator_command \in [Name -> Time]
  /\ actuator_state \in [Name -> SUBSET Input]
  /\ joint_state \in [Name -> SUBSET Input]

\* The last entry of initialized_slaves with position p.  It writes the outputs
\* of p if its span is still that of p: see Writers.
LastAt(p) ==
  LET entries == {i \in DOMAIN initialized_slaves : position[initialized_slaves[i]] = p}
  IN IF entries = {} THEN Nobody ELSE initialized_slaves[Max(entries)]

\* call_slave_SDO_setup_hook: while the bus is the one first found, whoever set
\* a slave up, of several modules configured for it now or earlier, is the last
\* to write each of its output bytes.
SetUpByDriver ==
  Up /\ ~changed /\ DistinctNames =>
    \A p \in DOMAIN layout : set_up[p] # Nobody =>
      \A b \in layout[p].RxPDO :
        /\ Writers(b) # {}
        /\ initialized_slaves[Max(Writers(b))] = set_up[p]

\* read() and write() take entry _position_ec_bus - 1 of slaves_data_access,
\* appended to on every start, for the mailbox of a module: it exists, and
\* while the bus is the one of the first scan it is that of the module's slave.
MailboxOfOwnSlave ==
  Up => \A m \in Called :
          /\ position[m] \in DOMAIN slaves_data_access
          /\ changed \/ slaves_data_access[position[m]].position = position[m]

\* Slaves on the bus a slave_info describes.
Described(info) ==
  {p \in DOMAIN bus : Matches(info, [position |-> p, alias |-> bus[p]])}

\* "driver: assigns PDOs to slave modules" (soem_driver/README.md:219): with
\* on_configure done, a configured module holds the process data of the slave
\* it is described for.
AssignsPDOs ==
  Up /\ DistinctNames =>
    \A i \in DOMAIN slave_infos :
      LET m == slave_infos[i].name
      IN m \in Called /\ Described(slave_infos[i]) # {} =>
           \A d \in Direction :
             buffers[m][d] = Span(working, layout, Min(Described(slave_infos[i])), d)

-----------------------------------------------------------------------------
(* Refinement of FieldbusDriver *)

Marks(p) == IF p \in DOMAIN layout
            THEN {IOmap.RxPDO[b] : b \in layout[p].RxPDO} ELSE {}

DrivenBy(p) == IF Up /\ Marks(p) # {} THEN LastAt(p) ELSE Nobody

SensedBy(m) == IF Up /\ m \in Called /\ layout[position[m]].TxPDO # {}
               THEN position[m] ELSE 0

Fieldbus == INSTANCE FieldbusDriver WITH
  Module  <- Name,
  Station <- Position,
  phase   <- CASE changed -> "void"
               [] ~changed /\ component = "inactive" -> "up"
               [] ~changed /\ component = "active" -> "running"
               [] OTHER -> "down",
  drives  <- [p \in Position |-> IF changed THEN Nobody ELSE DrivenBy(p)],
  senses  <- [m \in Name |-> IF changed THEN 0 ELSE SensedBy(m)],
  time    <- IF changed THEN 0 ELSE time,
  outputs <- [p \in Position |-> IF changed THEN {} ELSE Marks(p)],
  joint   <- [m \in Name |-> IF changed THEN {} ELSE joint_state[m]]

\* While the bus stays what it was found as, each module works with its own
\* slave, each cycle on this cycle's data, through any sequence of cleanups
\* and configurations.
ImplementsFieldbusDriver == Fieldbus!Spec
=============================================================================
