------------------------- MODULE SOEMDriver_proofs -------------------------
(***************************************************************************)
(* Theorems about SOEMDriver, for any hardware description, buses,         *)
(* mappings and number of scans: its variables keep their types and, while *)
(* the bus stays the same, a module works with the mailbox of its slave,   *)
(* the module that set a slave up is the one that writes its outputs, and  *)
(* the driver implements FieldbusDriver.                                   *)
(***************************************************************************)
EXTENDS SOEMDriver, InductionLemmas

-----------------------------------------------------------------------------
(* The operators of StartBus and of the control cycle keep their types *)

SpanType == [block : Nat, bytes : SUBSET Nat]
BuffersType == [Direction -> SpanType]
AccessType == [position : Position, buffers : BuffersType]
Entry == [position : Position, alias : Nat]

VectorOK(v, T) == /\ v \in [block : Nat, capacity : Nat, data : Seq(T)]
                  /\ v.capacity >= Len(v.data)

\* std::vector::resize.
LEMMA ResizeKeeps ==
  ASSUME NEW T, NEW v, VectorOK(v, T), NEW c \in Seq(T)
  PROVE  VectorOK(Resize(v, c), T) /\ Resize(v, c).data = c
<1>1. CASE Len(c) <= v.capacity
  <2>1. Resize(v, c) = [v EXCEPT !.data = c] BY <1>1 DEF Resize
  <2> QED BY <1>1, <2>1 DEF VectorOK
<1>2. CASE ~(Len(c) <= v.capacity)
  <2> DEFINE S == {2 * Len(v.data), Len(c)}
             n == 2 * Len(v.data) + Len(c)
  <2>1. Len(c) \in Nat /\ Len(v.data) \in Nat BY DEF VectorOK
  <2>2. n \in Nat /\ S \in SUBSET (0..n) /\ S # {} BY <2>1
  <2>3. Max(S) \in S /\ \A x \in S : x <= Max(S) BY <2>2, MaxOfBounded
  <2>4. Max(S) \in Nat /\ Max(S) >= Len(c) BY <2>1, <2>3
  <2> HIDE DEF S, n
  <2>5. Resize(v, c) = [block |-> v.block + 1, data |-> c, capacity |-> Max(S)]
    BY <1>2 DEF Resize, S
  <2> QED BY <2>4, <2>5 DEF VectorOK
<1> QED BY <1>1, <1>2

\* getRxPDO, getTxPDO.
LEMMA SpanTyped ==
  ASSUME NEW vectors, NEW map \in Layouts, NEW p, NEW d \in Direction,
         vectors[d].block \in Nat
  PROVE  Span(vectors, map, p, d) \in SpanType
<1>1. p \in DOMAIN map => map[p][d] \in SUBSET Nat
  BY LayoutAssumption
<1> QED BY <1>1 DEF Span, SpanType

LEMMA EntriesAppended ==
  \A s \in Seq(AccessType), t \in Seq(AccessType) :
    /\ s \o t \in Seq(AccessType) /\ Len(s \o t) = Len(s) + Len(t)
    /\ \A i \in 1..Len(s) : (s \o t)[i] = s[i]
    /\ \A i \in 1..Len(t) : (s \o t)[Len(s) + i] = t[i]
<1> SUFFICES ASSUME NEW s \in Seq(AccessType), NEW t \in Seq(AccessType)
             PROVE  /\ s \o t \in Seq(AccessType) /\ Len(s \o t) = Len(s) + Len(t)
                    /\ \A i \in 1..Len(s) : (s \o t)[i] = s[i]
                    /\ \A i \in 1..Len(t) : (s \o t)[Len(s) + i] = t[i]
  OBVIOUS
<1> QED BY Concatenation

LEMMA SlavesAppended ==
  \A s \in Seq(Entry), t \in Seq(Entry) :
    /\ s \o t \in Seq(Entry) /\ Len(s \o t) = Len(s) + Len(t)
    /\ \A i \in 1..Len(s) : (s \o t)[i] = s[i]
    /\ \A i \in 1..Len(t) : (s \o t)[Len(s) + i] = t[i]
<1> SUFFICES ASSUME NEW s \in Seq(Entry), NEW t \in Seq(Entry)
             PROVE  /\ s \o t \in Seq(Entry) /\ Len(s \o t) = Len(s) + Len(t)
                    /\ \A i \in 1..Len(s) : (s \o t)[i] = s[i]
                    /\ \A i \in 1..Len(t) : (s \o t)[Len(s) + i] = t[i]
  OBVIOUS
<1> QED BY Concatenation

\* What start_bus appends, and how much.
LEMMA DataAccessTyped ==
  ASSUME NEW vectors, NEW map \in Layouts,
         \A d \in Direction : vectors[d].block \in Nat,
         ec_slaves \in Seq(Entry), slaves_data_access \in Seq(AccessType)
  PROVE  /\ DataAccess(vectors, map) \in Seq(AccessType)
         /\ Len(DataAccess(vectors, map)) = Len(slaves_data_access) + Len(ec_slaves)
         /\ \A i \in 1..Len(slaves_data_access) :
              DataAccess(vectors, map)[i] = slaves_data_access[i]
         /\ \A i \in 1..Len(ec_slaves) :
              DataAccess(vectors, map)[Len(slaves_data_access) + i].position
                = ec_slaves[i].position
<1> DEFINE new == [i \in DOMAIN ec_slaves |-> Access(vectors, map, ec_slaves[i].position)]
<1>1. ASSUME NEW i \in 1..Len(ec_slaves)
      PROVE  /\ Access(vectors, map, ec_slaves[i].position) \in AccessType
             /\ Access(vectors, map, ec_slaves[i].position).position = ec_slaves[i].position
  <2>0. ec_slaves[i] \in Entry OBVIOUS
  <2>1. ec_slaves[i].position \in Position BY <2>0 DEF Entry
  <2>2. \A d \in Direction : Span(vectors, map, ec_slaves[i].position, d) \in SpanType
    BY SpanTyped
  <2> QED BY <2>1, <2>2 DEF Access, AccessType, BuffersType
<1>2. new \in Seq(AccessType) /\ Len(new) = Len(ec_slaves)
  BY <1>1
<1>3. DataAccess(vectors, map) = slaves_data_access \o new BY DEF DataAccess
<1>4. \A i \in 1..Len(ec_slaves) : new[i].position = ec_slaves[i].position BY <1>1
<1> HIDE DEF new
<1>6. /\ slaves_data_access \o new \in Seq(AccessType)
      /\ Len(slaves_data_access \o new) = Len(slaves_data_access) + Len(new)
      /\ \A i \in 1..Len(slaves_data_access) :
           (slaves_data_access \o new)[i] = slaves_data_access[i]
      /\ \A i \in 1..Len(new) :
           (slaves_data_access \o new)[Len(slaves_data_access) + i] = new[i]
  BY <1>2, EntriesAppended
<1> QED BY <1>2, <1>3, <1>4, <1>6, Zenon

-----------------------------------------------------------------------------
(* Type correctness *)

\* The working sets and the IOmap hold as many bytes as SOEM mapped.
Mapped ==
  /\ VectorOK(working.RxPDO, Output) /\ VectorOK(working.TxPDO, Input)
  /\ \A d \in Direction : Len(working[d].data) = Len(IOmap[d])
  /\ Len(IOmap.TxPDO) = Cardinality(Group(layout, "TxPDO"))
  /\ Len(layout) <= MaxSlaves

\* No module is called before the modules are loaded.
NoneCalledYet == component = "loading" => initialized_slaves = <<>>

TypedInv == TypeOK /\ Mapped /\ NoneCalledYet

LEMMA InitTyped == Init => TypedInv
<1> SUFFICES ASSUME Init PROVE TypedInv
  OBVIOUS
<1> USE DEF Init
<1>a. /\ component = "loading" /\ step \in Nat /\ slave_infos \in Hardware
      /\ slaves \subseteq Name /\ initialized_slaves \in Seq(slaves)
      /\ position \in [Name -> Position \cup {0}]
      /\ scans \in 0..MaxScans /\ changed \in BOOLEAN
      /\ bus \in Buses \cup {<<>>} /\ layout \in Layouts \cup {<<>>}
  <2>1. 0 \in 0..MaxScans BY BusAssumption
  <2>2. <<>> \in Seq(slaves) OBVIOUS
  <2>3. component = "loading" /\ step \in Nat /\ slave_infos \in Hardware OBVIOUS
  <2>4. position \in [Name -> Position \cup {0}] OBVIOUS
  <2>5. bus \in Buses \cup {<<>>} /\ layout \in Layouts \cup {<<>>} OBVIOUS
  <2>6. /\ slaves \subseteq Name /\ initialized_slaves = <<>>
        /\ scans = 0 /\ changed \in BOOLEAN
    OBVIOUS
  <2> QED BY ONLY <2>1, <2>2, <2>3, <2>4, <2>5, <2>6
<1>b. buffers \in [Name -> BuffersType]
  BY DEF NoBuffers, NoSpan, BuffersType, SpanType
<1>c. /\ hooked \subseteq Position
      /\ SDO_setup_hook_store \in [Position -> Name \cup {Nobody}]
      /\ set_up \in [Position -> Name \cup {Nobody}]
      /\ ec_slaves \in Seq(Entry) /\ slaves_data_access \in Seq(AccessType)
  OBVIOUS
<1>d. /\ DOMAIN working = Direction /\ DOMAIN IOmap = Direction
      /\ IOmap.RxPDO \in Seq(Output) /\ working.RxPDO.data \in Seq(Output)
      /\ IOmap.TxPDO \in Seq(Input) /\ working.TxPDO.data \in Seq(Input)
      /\ \A d \in Direction : working[d].block \in Nat
                              /\ working[d].capacity >= Len(working[d].data)
  <2>1. /\ DOMAIN working = Direction /\ DOMAIN IOmap = Direction
        /\ \A d \in Direction :
             IOmap[d] = <<>> /\ working[d] = [block |-> 0, capacity |-> 0, data |-> <<>>]
    OBVIOUS
  <2>2. "RxPDO" \in Direction /\ "TxPDO" \in Direction BY DEF Direction
  <2>3. <<>> \in Seq(Output) /\ <<>> \in Seq(Input) /\ Len(<<>>) = 0
    OBVIOUS
  <2>4. \A d \in Direction : working[d].block \in Nat
                             /\ working[d].capacity >= Len(working[d].data)
    BY ONLY <2>1, <2>3
  <2>5. IOmap.RxPDO = <<>> /\ IOmap.TxPDO = <<>>
    BY ONLY <2>1, <2>2
  <2>6. working.RxPDO.data = <<>> /\ working.TxPDO.data = <<>>
    BY ONLY <2>1, <2>2
  <2> QED BY ONLY <2>1, <2>3, <2>4, <2>5, <2>6
<1>e. /\ turn \in {"read", "write"} /\ time \in Time
      /\ actuator_command \in [Name -> Time]
      /\ actuator_state \in [Name -> SUBSET Input]
      /\ joint_state \in [Name -> SUBSET Input]
  BY DEF Time
<1>1. TypeOK
  BY <1>a, <1>b, <1>c, <1>d, <1>e
     DEF TypeOK, BuffersType, SpanType, Entry, AccessType
<1>2. Group(layout, "TxPDO") = {} BY DEF Group
<1>3. Cardinality(Group(layout, "TxPDO")) = 0 BY <1>2, FS_EmptySet
<1>4. Mapped BY <1>3, BusAssumption DEF Mapped, VectorOK, Direction
<1> QED BY <1>1, <1>4 DEF TypedInv, NoneCalledYet

\* The bytes of a mapping the buses have room for.
LEMMA GroupCounted ==
  ASSUME TypedInv, NEW d \in Direction, layout \in Layouts
  PROVE  /\ Cardinality(Group(layout, d)) \in Nat
         /\ Group(layout, d) = 1..Cardinality(Group(layout, d))
  BY LayoutAssumption, FS_CardinalityType

\* What the slaves deliver is of the type and the length of the IOmap.
LEMMA DeliveredTyped ==
  ASSUME TypedInv, NEW t \in Time
  PROVE  /\ Delivered(t) \in Seq(Input)
         /\ Len(Delivered(t)) = Len(IOmap.TxPDO)
<1> DEFINE n == Len(IOmap.TxPDO)
<1>1. n \in Nat /\ DOMAIN IOmap.TxPDO = 1..n BY DEF TypedInv, TypeOK
<1>2. ASSUME NEW b \in 1..n
      PROVE  (CHOOSE p \in DOMAIN layout : b \in layout[p].TxPDO) \in Position
  <2>1. CASE layout = <<>>
    <3>1. Group(layout, "TxPDO") = {} BY <2>1 DEF Group
    <3>2. n = 0 BY <3>1, FS_EmptySet DEF TypedInv, Mapped
    <3> QED BY <1>2, <3>2
  <2>2. CASE layout \in Layouts
    <3>1. Group(layout, "TxPDO") = 1..n
      BY <2>2, GroupCounted DEF TypedInv, Mapped, Direction
    <3>2. \E p \in DOMAIN layout : b \in layout[p].TxPDO
      BY <1>2, <3>1 DEF Group
    <3>3. DOMAIN layout \subseteq Position
      BY <2>2, LayoutAssumption, BusAssumption DEF TypedInv, Mapped, Position
    <3> QED BY <3>2, <3>3
  <2> QED BY <2>1, <2>2 DEF TypedInv, TypeOK
<1>3. \A b \in 1..n : Delivered(t)[b] \in Input /\ DOMAIN Delivered(t) = 1..n
  BY <1>1, <1>2 DEF Delivered, Input
<1>4. Delivered(t) = [b \in 1..n |-> Delivered(t)[b]]
  BY <1>1 DEF Delivered
<1> HIDE DEF n
<1> QED BY <1>1, <1>3, <1>4 DEF n

\* Entries of slaves are those of earlier scans, then one per position.
LEMMA FoundAppends ==
  ASSUME ec_slaves \in Seq(Entry), NEW b \in Buses
  PROVE  /\ Found(b) \in Seq(Entry) /\ Len(Found(b)) = Len(ec_slaves) + Len(b)
         /\ \A i \in 1..Len(ec_slaves) : Found(b)[i] = ec_slaves[i]
         /\ \A p \in 1..Len(b) : Found(b)[Len(ec_slaves) + p].position = p
<1> DEFINE new == [p \in DOMAIN b |-> [position |-> p, alias |-> b[p]]]
<1>1. b \in Seq(Nat) /\ Len(b) \in Position BY BusAssumption
<1>2. ASSUME NEW p \in 1..Len(b) PROVE [position |-> p, alias |-> b[p]] \in Entry
  BY <1>1, BusAssumption DEF Entry, Position
<1>3. new \in Seq(Entry) /\ Len(new) = Len(b) BY <1>1, <1>2, SMTT(30)
<1>4. \A p \in 1..Len(b) : new[p].position = p BY <1>1
<1>5. Found(b) = ec_slaves \o new BY DEF Found
<1> HIDE DEF new
<1>6. /\ ec_slaves \o new \in Seq(Entry) /\ Len(ec_slaves \o new) = Len(ec_slaves) + Len(new)
      /\ \A i \in 1..Len(ec_slaves) : (ec_slaves \o new)[i] = ec_slaves[i]
      /\ \A i \in 1..Len(new) : (ec_slaves \o new)[Len(ec_slaves) + i] = new[i]
  BY <1>3, SlavesAppended
<1> QED BY <1>3, <1>4, <1>5, <1>6

\* The slave a module is configured for is one of slaves.
LEMMA ChosenIsCandidate ==
  ASSUME ec_slaves \in Seq(Entry), NEW info, Candidates(info) # {}
  PROVE  /\ Min(Candidates(info)) \in Candidates(info)
         /\ \A i \in Candidates(info) : Min(Candidates(info)) <= i
         /\ Min(Candidates(info)) \in 1..Len(ec_slaves)
         /\ ec_slaves[Min(Candidates(info))] \in Entry
         /\ ec_slaves[Min(Candidates(info))].position \in Position
<1>1. Candidates(info) \subseteq 1..Len(ec_slaves) BY DEF Candidates
<1>2. Candidates(info) \in SUBSET Nat BY <1>1
<1>3. /\ Min(Candidates(info)) \in Candidates(info)
      /\ \A i \in Candidates(info) : Min(Candidates(info)) <= i
  BY <1>2, MinOfNaturals
<1>4. \A e \in Entry : e.position \in Position BY DEF Entry
<1> QED BY <1>1, <1>3, <1>4

LEMMA LoadModulesTyped == TypedInv /\ LoadModules => TypedInv'
<1> SUFFICES ASSUME TypedInv, LoadModules PROVE TypedInv'
  OBVIOUS
<1> USE DEF LoadModules, setup, cycle
<1>1. slaves' \subseteq Name
  <2>1. slave_infos \in Seq(SlaveInfo)
    BY HardwareAssumption DEF TypedInv, TypeOK
  <2>2. ASSUME NEW i \in DOMAIN slave_infos PROVE slave_infos[i].name \in Name
    <3>1. slave_infos[i] \in SlaveInfo BY <2>1
    <3> QED BY <3>1 DEF SlaveInfo
  <2> QED BY <2>2
<1>2. initialized_slaves = <<>> /\ <<>> \in Seq(slaves')
  BY DEF TypedInv, NoneCalledYet
<1>3. TypeOK' BY <1>1, <1>2 DEF TypedInv, TypeOK
<1>4. Mapped' BY DEF TypedInv, Mapped
<1> QED BY <1>2, <1>3, <1>4 DEF TypedInv, NoneCalledYet

LEMMA InitMasterTyped == TypedInv /\ InitMaster => TypedInv'
<1> SUFFICES ASSUME TypedInv, InitMaster PROVE TypedInv'
  OBVIOUS
<1> USE DEF InitMaster, modules, cycle
<1>1. ec_slaves \in Seq(Entry) BY DEF TypedInv, TypeOK, Entry
<1>2. ec_slaves' \in Seq(Entry) BY <1>1, FoundAppends
<1>3. scans' \in 0..MaxScans BY BusAssumption DEF TypedInv, TypeOK
<1>4. TypeOK' BY <1>2, <1>3 DEF TypedInv, TypeOK, Entry
<1>5. Mapped' BY DEF TypedInv, Mapped
<1> QED BY <1>4, <1>5 DEF TypedInv, NoneCalledYet

LEMMA SkipModuleTyped == TypedInv /\ SkipModule => TypedInv'
<1> SUFFICES ASSUME TypedInv, SkipModule PROVE TypedInv'
  OBVIOUS
<1> USE DEF SkipModule, AtModule, modules, setup, cycle
<1>1. TypeOK' BY DEF TypedInv, TypeOK
<1>2. Mapped' BY DEF TypedInv, Mapped
<1> QED BY <1>1, <1>2 DEF TypedInv, NoneCalledYet

LEMMA ConfigureModuleTyped == TypedInv /\ ConfigureModule => TypedInv'
<1> SUFFICES ASSUME TypedInv, ConfigureModule PROVE TypedInv'
  OBVIOUS
<1> DEFINE info == slave_infos[step]
           p == ec_slaves[Min(Candidates(info))].position
<1>1. /\ component = "configuring" /\ UNCHANGED <<component, working, IOmap>>
      /\ step' = step + 1 /\ info.name \in slaves /\ Candidates(info) # {}
      /\ position' = [position EXCEPT ![info.name] = p]
      /\ UNCHANGED <<slave_infos, slaves, buffers, bus, layout, set_up, ec_slaves,
                     slaves_data_access, scans, changed, cycle>>
  BY DEF ConfigureModule, AtModule
<1>2. \/ /\ SDO_setup_hook_store' = [SDO_setup_hook_store EXCEPT ![p] = info.name]
         /\ hooked' = hooked \cup {p}
         /\ initialized_slaves' = Append(initialized_slaves, info.name)
      \/ UNCHANGED <<SDO_setup_hook_store, hooked, initialized_slaves>>
  BY DEF ConfigureModule, AttachHook
<1>3. ec_slaves \in Seq(Entry) BY DEF TypedInv, TypeOK, Entry
<1>4. p \in Position BY <1>1, <1>3, ChosenIsCandidate
<1> HIDE DEF p, info
<1>5. info.name \in Name BY <1>1 DEF TypedInv, TypeOK
<1>6. position' \in [Name -> Position \cup {0}]
  BY <1>1, <1>4 DEF TypedInv, TypeOK
<1>7. initialized_slaves' \in Seq(slaves')
  <2>1. initialized_slaves \in Seq(slaves) BY DEF TypedInv, TypeOK
  <2>2. Append(initialized_slaves, info.name) \in Seq(slaves) BY <1>1, <2>1
  <2>3. slaves' = slaves BY <1>1
  <2> QED BY <1>2, <2>1, <2>2, <2>3
<1>8. /\ SDO_setup_hook_store' \in [Position -> Name \cup {Nobody}]
      /\ hooked' \subseteq Position
  BY <1>2, <1>4, <1>5 DEF TypedInv, TypeOK
<1>9. TypeOK' BY <1>1, <1>6, <1>7, <1>8, SMTT(30) DEF TypedInv, TypeOK, cycle
<1>10. Mapped' BY <1>1 DEF TypedInv, Mapped
<1> QED BY <1>1, <1>9, <1>10 DEF TypedInv, NoneCalledYet

LEMMA ActivateTyped == TypedInv /\ Activate => TypedInv'
<1> SUFFICES ASSUME TypedInv, Activate PROVE TypedInv'
  OBVIOUS
<1> USE DEF Activate, modules, setup, cycle
<1>1. DOMAIN IOmap = Direction /\ time \in Time BY DEF TypedInv, TypeOK
<1>2. /\ IOmap'.RxPDO = IOmap.RxPDO /\ DOMAIN IOmap' = Direction
      /\ IOmap'.TxPDO \in {IOmap.TxPDO, Delivered(time)}
  BY <1>1 DEF Direction
<1>3. IOmap'.TxPDO \in Seq(Input) /\ Len(IOmap'.TxPDO) = Len(IOmap.TxPDO)
  BY <1>1, <1>2, DeliveredTyped DEF TypedInv, TypeOK
<1>4. TypeOK' BY <1>2, <1>3 DEF TypedInv, TypeOK
<1>5. Mapped' BY <1>2, <1>3 DEF TypedInv, Mapped, Direction
<1> QED BY <1>4, <1>5 DEF TypedInv, NoneCalledYet

LEMMA LeaveTyped == TypedInv /\ Leave => TypedInv'
<1> SUFFICES ASSUME TypedInv, Leave PROVE TypedInv'
  OBVIOUS
<1> USE DEF Leave, modules, setup, cycle
<1>1. TypeOK' BY DEF TypedInv, TypeOK
<1>2. Mapped' BY DEF TypedInv, Mapped
<1> QED BY <1>1, <1>2 DEF TypedInv, NoneCalledYet

\* Where a module finds its inputs, and what it finds there.
LEMMA SensedTyped ==
  ASSUME TypedInv, NEW vector, vector.data \in Seq(Input), NEW m \in Name
  PROVE  Sensed(vector, m) \subseteq Input
<1>1. \A b \in DOMAIN vector.data : vector.data[b] \in Input OBVIOUS
<1> QED BY <1>1 DEF Sensed

LEMMA ReadTyped == TypedInv /\ Read => TypedInv'
<1> SUFFICES ASSUME TypedInv, Read PROVE TypedInv'
  OBVIOUS
<1> USE DEF Read, modules, setup
<1>1. /\ DOMAIN IOmap = Direction /\ DOMAIN working = Direction /\ time \in Time
      /\ VectorOK(working.RxPDO, Output) /\ VectorOK(working.TxPDO, Input)
      /\ Len(working.RxPDO.data) = Len(IOmap.RxPDO)
      /\ Len(working.TxPDO.data) = Len(IOmap.TxPDO)
      /\ IOmap.TxPDO \in Seq(Input) /\ IOmap.RxPDO \in Seq(Output)
  BY DEF TypedInv, TypeOK, Mapped, Direction
<1>2. time' \in Time BY <1>1 DEF Time
<1>3. /\ DOMAIN IOmap' = Direction /\ IOmap'.RxPDO = IOmap.RxPDO
      /\ IOmap'.TxPDO \in {IOmap.TxPDO, Delivered(time')}
  BY <1>1 DEF Direction
<1>4. IOmap'.TxPDO \in Seq(Input) /\ Len(IOmap'.TxPDO) = Len(IOmap.TxPDO)
  BY <1>1, <1>2, <1>3, DeliveredTyped
<1>5. /\ DOMAIN working' = Direction /\ working'.RxPDO = working.RxPDO
      /\ VectorOK(working'.TxPDO, Input)
      /\ Len(working'.TxPDO.data) = Len(IOmap'.TxPDO)
  BY <1>1, <1>4 DEF Direction, VectorOK
<1>6. working'.TxPDO.data \in Seq(Input) BY <1>5 DEF VectorOK
<1>7. \A m \in Name : Sensed(working'.TxPDO, m) \subseteq Input
  BY <1>6, SensedTyped
<1>8. actuator_state' \in [Name -> SUBSET Input]
  BY <1>7 DEF TypedInv, TypeOK
<1>9. joint_state' \in [Name -> SUBSET Input]
  BY <1>8 DEF Joint
<1>10. \A d \in Direction : /\ Len(working'[d].data) = Len(IOmap'[d])
                            /\ working'[d].block \in Nat
                            /\ working'[d].capacity >= Len(working'[d].data)
  BY <1>1, <1>3, <1>5 DEF Direction, VectorOK
<1>11. /\ IOmap'.RxPDO \in Seq(Output) /\ working'.RxPDO.data \in Seq(Output)
  BY <1>1, <1>3, <1>5 DEF VectorOK
<1>12. TypeOK'
  BY <1>2, <1>3, <1>4, <1>5, <1>6, <1>8, <1>9, <1>10, <1>11 DEF TypedInv, TypeOK
<1>13. Mapped' BY <1>1, <1>3, <1>4, <1>5, <1>10 DEF TypedInv, Mapped
<1> QED BY <1>12, <1>13 DEF TypedInv, NoneCalledYet

\* A byte some module writes is written by the last of them.
LEMMA WrittenTyped ==
  ASSUME TypedInv, NEW commands \in [Name -> Time]
  PROVE  /\ Written(commands) \in Seq(Output)
         /\ Len(Written(commands)) = Len(working.RxPDO.data)
<1> DEFINE n == Len(working.RxPDO.data)
<1>1. /\ working.RxPDO.data \in Seq(Output)
      /\ n \in Nat /\ DOMAIN working.RxPDO.data = 1..n
  BY DEF TypedInv, TypeOK
<1>2. ASSUME NEW b \in 1..n
      PROVE  (IF Writers(b) = {} THEN working.RxPDO.data[b]
              ELSE LET m == initialized_slaves[Max(Writers(b))]
                   IN [module |-> m, at |-> commands[m]]) \in Output
  <2>1. CASE Writers(b) = {} BY <1>1, <2>1
  <2>2. CASE Writers(b) # {}
    <3>1. /\ initialized_slaves \in Seq(slaves) /\ slaves \subseteq Name
          /\ Len(initialized_slaves) \in Nat
      BY DEF TypedInv, TypeOK
    <3>2. Writers(b) \subseteq 1..Len(initialized_slaves)
      BY <3>1 DEF Writers
    <3>3. Writers(b) \in SUBSET (0..Len(initialized_slaves))
      BY <3>1, <3>2
    <3>4. Max(Writers(b)) \in Writers(b) BY <2>2, <3>1, <3>3, MaxOfBounded
    <3>5. initialized_slaves[Max(Writers(b))] \in Name BY <3>1, <3>2, <3>4
    <3> QED BY <2>2, <3>5 DEF Output
  <2> QED BY <2>1, <2>2
<1>3. /\ DOMAIN Written(commands) = 1..n
      /\ \A b \in 1..n : Written(commands)[b] \in Output
      /\ Written(commands) = [b \in 1..n |-> Written(commands)[b]]
  BY <1>1, <1>2 DEF Written
<1> HIDE DEF n
<1>4. Written(commands) \in [1..n -> Output] BY ONLY <1>3
<1>5. Written(commands) \in Seq(Output) /\ Len(Written(commands)) = n
  BY ONLY <1>1, <1>4
<1> QED BY <1>5 DEF n

LEMMA WriteTyped == TypedInv /\ Write => TypedInv'
<1> SUFFICES ASSUME TypedInv, Write PROVE TypedInv'
  OBVIOUS
<1> USE DEF Write, modules, setup
<1>1. /\ DOMAIN IOmap = Direction /\ DOMAIN working = Direction /\ time \in Time
      /\ VectorOK(working.RxPDO, Output) /\ VectorOK(working.TxPDO, Input)
      /\ Len(working.RxPDO.data) = Len(IOmap.RxPDO)
      /\ Len(working.TxPDO.data) = Len(IOmap.TxPDO)
      /\ IOmap.TxPDO \in Seq(Input) /\ IOmap.RxPDO \in Seq(Output)
  BY DEF TypedInv, TypeOK, Mapped, Direction
<1>2. Commands \in [Name -> Time] BY <1>1 DEF Commands
<1>3. /\ Written(Commands) \in Seq(Output)
      /\ Len(Written(Commands)) = Len(working.RxPDO.data)
  BY <1>2, WrittenTyped
<1>4. /\ DOMAIN working' = Direction /\ working'.TxPDO = working.TxPDO
      /\ working'.RxPDO.data = Written(Commands)
      /\ VectorOK(working'.RxPDO, Output)
  BY <1>1, <1>3 DEF Direction, VectorOK
<1>5. /\ DOMAIN IOmap' = Direction /\ IOmap'.TxPDO = IOmap.TxPDO
      /\ IOmap'.RxPDO \in {IOmap.RxPDO, Written(Commands)}
  BY <1>1, <1>4 DEF Direction
<1>6. IOmap'.RxPDO \in Seq(Output) /\ Len(IOmap'.RxPDO) = Len(IOmap.RxPDO)
  BY <1>1, <1>3, <1>5
<1>7. \A d \in Direction : /\ Len(working'[d].data) = Len(IOmap'[d])
                           /\ working'[d].block \in Nat
                           /\ working'[d].capacity >= Len(working'[d].data)
  BY <1>1, <1>3, <1>4, <1>5, <1>6 DEF Direction, VectorOK
<1>8. actuator_command' \in [Name -> Time] BY <1>1
<1>9. working'.RxPDO.data \in Seq(Output) /\ working'.TxPDO.data \in Seq(Input)
  BY <1>1, <1>4 DEF VectorOK
<1>10. TypeOK'
  BY <1>4, <1>5, <1>6, <1>7, <1>8, <1>9 DEF TypedInv, TypeOK
<1>11. Mapped' BY <1>1, <1>4, <1>5, <1>7 DEF TypedInv, Mapped
<1> QED BY <1>10, <1>11 DEF TypedInv, NoneCalledYet

\* What on_configure assigns to a module is of an entry of slaves_data_access.
LEMMA AssignTyped ==
  ASSUME TypedInv, NEW access \in Seq(AccessType), NEW m \in Name
  PROVE  Assign(access, m) \in BuffersType
<1> DEFINE entries == {i \in DOMAIN access : access[i].position = position[m]}
<1>1. CASE entries = {}
  <2>1. Assign(access, m) = buffers[m] BY <1>1 DEF Assign
  <2> QED BY <2>1 DEF TypedInv, TypeOK, BuffersType, SpanType
<1>2. CASE entries # {}
  <2>1. entries \subseteq 1..Len(access) OBVIOUS
  <2>2. entries \in SUBSET Nat BY <2>1
  <2>3. Min(entries) \in entries BY <1>2, <2>2, MinOfNaturals
  <2>4. access[Min(entries)] \in AccessType BY <2>1, <2>3
  <2>5. Assign(access, m) = access[Min(entries)].buffers BY <1>2 DEF Assign
  <2> QED BY <2>4, <2>5 DEF AccessType
<1> QED BY <1>1, <1>2

LEMMA StartBusTyped == TypedInv /\ StartBus => TypedInv'
<1> SUFFICES ASSUME TypedInv, StartBus PROVE TypedInv'
  OBVIOUS
<1> DEFINE n(d) == Cardinality(Group(layout', d))
           Grown(d) == [b \in 1..n(d) |->
                          IF b \in DOMAIN IOmap[d] THEN IOmap[d][b] ELSE Untouched[d]]
<1>1. /\ component = "configuring" /\ layout' \in Layouts /\ Len(layout') = Len(bus)
      /\ changed' = (changed \/ (scans > 1 /\ layout' # layout))
      /\ set_up' = [p \in Position |-> IF p \in hooked \cap DOMAIN bus
                                       THEN SDO_setup_hook_store[p] ELSE Nobody]
      /\ IOmap' = [d \in Direction |-> Grown(d)]
      /\ working' = [d \in Direction |-> Resize(working[d], IOmap'[d])]
      /\ slaves_data_access' = DataAccess(working', layout')
      /\ step' = 0 /\ component' \in {"inactive", "unconfigured", "finalized"}
      /\ \/ buffers' = [m \in Name |-> IF m \in Called
                                       THEN Assign(slaves_data_access', m)
                                       ELSE buffers[m]]
         \/ UNCHANGED buffers
      /\ turn' \in {"read", "write", turn}
      /\ UNCHANGED <<slave_infos, slaves, initialized_slaves, position, scans, bus,
                     hooked, SDO_setup_hook_store, ec_slaves, time,
                     actuator_command, actuator_state, joint_state>>
  BY DEF StartBus, CallHooks
<1>2. /\ VectorOK(working.RxPDO, Output) /\ VectorOK(working.TxPDO, Input)
      /\ IOmap.RxPDO \in Seq(Output) /\ IOmap.TxPDO \in Seq(Input)
      /\ ec_slaves \in Seq(Entry) /\ slaves_data_access \in Seq(AccessType)
  BY DEF TypedInv, TypeOK, Mapped, Entry, AccessType, BuffersType, SpanType
<1>3. \A d \in Direction : n(d) \in Nat
  BY <1>1, LayoutAssumption, FS_CardinalityType
<1>4. Len(layout') <= MaxSlaves
  <2>1. bus \in Buses \/ Len(bus) = 0 BY DEF TypedInv, TypeOK
  <2> QED BY <1>1, <2>1, BusAssumption DEF Position
<1>5. Untouched.RxPDO \in Output /\ Untouched.TxPDO \in Input
  BY DEF Untouched, Output, Input, Time
<1> HIDE DEF n
<1>6. /\ Grown("RxPDO") \in Seq(Output) /\ Len(Grown("RxPDO")) = n("RxPDO")
      /\ Grown("TxPDO") \in Seq(Input) /\ Len(Grown("TxPDO")) = n("TxPDO")
  <2>1. n("RxPDO") \in Nat /\ n("TxPDO") \in Nat BY <1>3 DEF Direction
  <2>2. Untouched.RxPDO = Untouched["RxPDO"] /\ Untouched.TxPDO = Untouched["TxPDO"]
    OBVIOUS
  <2>3. \A b \in DOMAIN IOmap.RxPDO : IOmap.RxPDO[b] \in Output BY <1>2
  <2>4. \A b \in DOMAIN IOmap.TxPDO : IOmap.TxPDO[b] \in Input BY <1>2
  <2>5. Grown("RxPDO") \in [1..n("RxPDO") -> Output] BY <1>5, <2>3
  <2>6. Grown("TxPDO") \in [1..n("TxPDO") -> Input] BY <1>5, <2>4
  <2> HIDE DEF Grown
  <2> QED BY ONLY <2>1, <2>5, <2>6
<1> HIDE DEF Grown
<1>7. /\ DOMAIN IOmap' = Direction
      /\ IOmap'.RxPDO = Grown("RxPDO") /\ IOmap'.TxPDO = Grown("TxPDO")
  BY <1>1 DEF Direction
<1>8. /\ DOMAIN working' = Direction
      /\ working'.RxPDO = Resize(working.RxPDO, Grown("RxPDO"))
      /\ working'.TxPDO = Resize(working.TxPDO, Grown("TxPDO"))
  BY <1>1, <1>7 DEF Direction
<1>9. /\ VectorOK(working'.RxPDO, Output) /\ working'.RxPDO.data = IOmap'.RxPDO
      /\ VectorOK(working'.TxPDO, Input) /\ working'.TxPDO.data = IOmap'.TxPDO
  BY <1>2, <1>6, <1>7, <1>8, ResizeKeeps
<1>10. \A d \in Direction : /\ Len(working'[d].data) = Len(IOmap'[d])
                            /\ working'[d].block \in Nat
                            /\ working'[d].capacity >= Len(working'[d].data)
  BY <1>9 DEF Direction, VectorOK
<1>11. slaves_data_access' \in Seq(AccessType)
  BY <1>1, <1>2, <1>10, DataAccessTyped
<1>12. buffers' \in [Name -> BuffersType]
  <2>1. buffers \in [Name -> BuffersType]
    BY DEF TypedInv, TypeOK, BuffersType, SpanType
  <2>2. \A m \in Name : Assign(slaves_data_access', m) \in BuffersType
    BY <1>11, AssignTyped
  <2> QED BY <1>1, <2>1, <2>2
<1>13. set_up' \in [Position -> Name \cup {Nobody}]
  BY <1>1 DEF TypedInv, TypeOK
<1>14. /\ IOmap'.RxPDO \in Seq(Output) /\ IOmap'.TxPDO \in Seq(Input)
       /\ working'.RxPDO.data \in Seq(Output) /\ working'.TxPDO.data \in Seq(Input)
  BY <1>6, <1>7, <1>9
<1>15. TypeOK'
  BY <1>1, <1>7, <1>8, <1>10, <1>11, <1>12, <1>13, <1>14
     DEF TypedInv, TypeOK, AccessType, BuffersType, SpanType
<1>16. Mapped'
  <2>1. Len(IOmap'.TxPDO) = Cardinality(Group(layout', "TxPDO"))
    BY <1>6, <1>7 DEF n
  <2> QED BY <1>4, <1>9, <1>10, <2>1 DEF Mapped
<1> QED BY <1>1, <1>15, <1>16 DEF TypedInv, NoneCalledYet

LEMMA NextTyped == TypedInv /\ [Next]_vars => TypedInv'
<1> SUFFICES ASSUME TypedInv, [Next]_vars PROVE TypedInv'
  OBVIOUS
<1>1. CASE Lifecycle
  BY <1>1, LoadModulesTyped, InitMasterTyped, SkipModuleTyped, ConfigureModuleTyped,
     StartBusTyped, ActivateTyped, LeaveTyped DEF Lifecycle
<1>2. CASE Read BY <1>2, ReadTyped
<1>3. CASE Write BY <1>3, WriteTyped
<1>4. CASE UNCHANGED vars
  <2>1. TypeOK' BY <1>4 DEF vars, modules, setup, cycle, TypedInv, TypeOK
  <2>2. Mapped' BY <1>4 DEF vars, setup, TypedInv, Mapped
  <2> QED BY <1>4, <2>1, <2>2 DEF vars, modules, TypedInv, NoneCalledYet
<1> QED BY <1>1, <1>2, <1>3, <1>4 DEF Next, Finalized

\* The variables keep their types, in particular the working sets those of
\* what modules and slaves write, whatever SOEM maps.
THEOREM DriverTyped == Spec => []TypeOK
<1>1. TypedInv => TypeOK BY DEF TypedInv
<1> QED BY <1>1, InitTyped, NextTyped, PTL DEF Spec

-----------------------------------------------------------------------------
(* A module's mailbox is that of its slave *)

\* read() and write() call modules that have been configured, which have
\* a position among the slaves of all scans.
CalledIsPlaced ==
  /\ \A m \in Called : position[m] # 0
  /\ \A m \in Name : position[m] <= Len(ec_slaves)
  /\ \A i \in 1..Len(ec_slaves) : ec_slaves[i].position <= Len(ec_slaves)

\* Every slave start_bus knew has an entry.
AllHaveEntries == Up => Len(slaves_data_access) >= Len(ec_slaves)

\* Before the first scan there is nothing.
NothingFoundYet ==
  /\ component = "configuring" => scans > 0
  /\ scans = 0 => /\ ec_slaves = <<>> /\ slaves_data_access = <<>>
                  /\ \A m \in Name : position[m] = 0

\* As long as every scan has found the same bus, the first entries are those
\* of its slaves, in their order.
OfThisBus ==
  ~changed =>
    /\ \A m \in Name : position[m] <= Len(bus)
    /\ \A i \in 1..Len(ec_slaves) : ec_slaves[i].position <= Len(bus)
    /\ Len(ec_slaves) >= Len(bus)
    /\ \A i \in 1..Len(bus) : ec_slaves[i].position = i
    /\ \/ slaves_data_access = <<>>
       \/ /\ Len(slaves_data_access) >= Len(bus)
          /\ \A i \in 1..Len(bus) : slaves_data_access[i].position = i

MailboxInv == /\ TypedInv /\ CalledIsPlaced /\ AllHaveEntries
              /\ NothingFoundYet /\ OfThisBus

LEMMA MailboxInvImplies == MailboxInv => MailboxOfOwnSlave
<1> SUFFICES ASSUME MailboxInv, Up, NEW m \in Called
             PROVE  /\ position[m] \in DOMAIN slaves_data_access
                    /\ changed \/ slaves_data_access[position[m]].position = position[m]
  BY DEF MailboxOfOwnSlave
<1>1. /\ position[m] \in Position /\ position[m] <= Len(ec_slaves)
      /\ slaves_data_access \in Seq(AccessType) /\ ec_slaves \in Seq(Entry)
      /\ bus \in Seq(Nat)
  <2>1. m \in Name BY DEF MailboxInv, TypedInv, TypeOK, Called
  <2>2. bus \in Seq(Nat)
    <3>1. bus \in Buses \/ bus = <<>> BY DEF MailboxInv, TypedInv, TypeOK
    <3>2. <<>> \in Seq(Nat) OBVIOUS
    <3> QED BY <3>1, <3>2, BusAssumption, Zenon
  <2> QED BY <2>1, <2>2 DEF MailboxInv, CalledIsPlaced, TypedInv, TypeOK, AccessType,
                     BuffersType, SpanType, Entry
<1>2. position[m] \in 1..Len(slaves_data_access)
  BY <1>1, BusAssumption DEF MailboxInv, AllHaveEntries, Position
<1>3. ASSUME ~changed PROVE slaves_data_access[position[m]].position = position[m]
  <2>1. position[m] <= Len(bus)
    <3>1. m \in Name BY DEF MailboxInv, TypedInv, TypeOK, Called
    <3> QED BY <1>3, <3>1 DEF MailboxInv, OfThisBus
  <2>2. position[m] \in 1..Len(bus) BY <1>1, <2>1, BusAssumption DEF Position
  <2>3. slaves_data_access # <<>> BY <1>2
  <2> QED BY <1>3, <2>2, <2>3 DEF MailboxInv, OfThisBus
<1> QED BY <1>1, <1>2, <1>3

LEMMA InitMailbox == Init => MailboxInv
<1> SUFFICES ASSUME Init PROVE MailboxInv
  OBVIOUS
<1>1. TypedInv BY InitTyped
<1> QED BY <1>1 DEF Init, MailboxInv, CalledIsPlaced, AllHaveEntries,
                 NothingFoundYet, OfThisBus, Called, Up

\* Actions that neither scan, nor configure, nor start the bus.
LEMMA MailboxKept ==
  ASSUME MailboxInv, TypedInv', Up' => Up,
         component' = "configuring" => component = "configuring",
         UNCHANGED <<ec_slaves, slaves_data_access, position, initialized_slaves,
                     bus, changed, scans>>
  PROVE  MailboxInv'
  BY DEF MailboxInv, CalledIsPlaced, Called, AllHaveEntries, NothingFoundYet, OfThisBus

LEMMA InitMasterMailbox == MailboxInv /\ InitMaster => MailboxInv'
<1> SUFFICES ASSUME MailboxInv, InitMaster PROVE MailboxInv'
  OBVIOUS
<1>1. TypedInv' BY InitMasterTyped DEF MailboxInv
<1>2. /\ bus' \in Buses /\ ec_slaves' = Found(bus') /\ scans' = scans + 1
      /\ changed' = (changed \/ (scans > 0 /\ bus' # bus)) /\ component' = "configuring"
      /\ UNCHANGED <<position, initialized_slaves, slaves_data_access>>
  BY DEF InitMaster, modules
<1>3. /\ ec_slaves \in Seq(Entry) /\ Len(ec_slaves) \in Nat
      /\ bus' \in Seq(Nat) /\ Len(bus') \in Nat /\ scans \in Nat
      /\ \A i \in 1..Len(ec_slaves) : ec_slaves[i].position \in Nat
      /\ \A m \in Name : position[m] \in Nat
  <2>1. /\ ec_slaves \in Seq(Entry) /\ scans \in Nat
        /\ position \in [Name -> Position \cup {0}]
    BY BusAssumption DEF MailboxInv, TypedInv, TypeOK, Entry
  <2>2. \A e \in Entry : e.position \in Nat BY BusAssumption DEF Entry, Position
  <2>3. Position \subseteq Nat BY BusAssumption DEF Position
  <2>4. bus' \in Seq(Nat) /\ Len(bus') \in Nat BY <1>2, <2>3, BusAssumption
  <2>5. \A i \in 1..Len(ec_slaves) : ec_slaves[i] \in Entry BY <2>1
  <2>6. \A i \in 1..Len(ec_slaves) : ec_slaves[i].position \in Nat
    BY <2>2, <2>5
  <2>7. ASSUME NEW m \in Name PROVE position[m] \in Nat
    <3>1. position[m] \in Position \/ position[m] = 0 BY <2>1
    <3> QED BY <3>1, BusAssumption DEF Position
  <2> QED BY <2>1, <2>4, <2>6, <2>7
<1>4. /\ Len(ec_slaves') = Len(ec_slaves) + Len(bus')
      /\ \A i \in 1..Len(ec_slaves) : ec_slaves'[i] = ec_slaves[i]
      /\ \A p \in 1..Len(bus') : ec_slaves'[Len(ec_slaves) + p].position = p
  BY <1>2, <1>3, FoundAppends
<1>5. ASSUME NEW i \in 1..Len(ec_slaves')
      PROVE  \/ i \in 1..Len(ec_slaves) /\ ec_slaves'[i] = ec_slaves[i]
             \/ ec_slaves'[i].position \in 1..Len(bus')
  <2>1. CASE i <= Len(ec_slaves) BY <1>3, <1>4, <2>1
  <2>2. CASE ~(i <= Len(ec_slaves))
    <3>1. PICK p \in 1..Len(bus') : i = Len(ec_slaves) + p
      <4>1. i - Len(ec_slaves) \in 1..Len(bus') BY <1>3, <1>4, <2>2
      <4>2. i = Len(ec_slaves) + (i - Len(ec_slaves)) BY <1>3
      <4> QED BY <4>1, <4>2
    <3> QED BY <1>4, <3>1
  <2> QED BY <2>1, <2>2
<1>6. CalledIsPlaced'
  <2>1. /\ \A m \in Name : position[m] <= Len(ec_slaves)
        /\ \A i \in 1..Len(ec_slaves) : ec_slaves[i].position <= Len(ec_slaves)
        /\ \A m \in Called : position[m] # 0
    BY DEF MailboxInv, CalledIsPlaced
  <2>2. \A m \in Name : position'[m] <= Len(ec_slaves')
    BY <1>2, <1>3, <1>4, <2>1
  <2>3. \A i \in 1..Len(ec_slaves') : ec_slaves'[i].position <= Len(ec_slaves')
    BY <1>3, <1>4, <1>5, <2>1
  <2> QED BY <1>2, <2>1, <2>2, <2>3 DEF CalledIsPlaced, Called
<1>7. OfThisBus'
  <2>1. CASE scans = 0
    <3>1. /\ Len(ec_slaves) = 0 /\ slaves_data_access = <<>>
          /\ \A m \in Name : position[m] = 0
      BY <2>1 DEF MailboxInv, NothingFoundYet
    <3>2. Len(ec_slaves') = Len(bus') BY <1>3, <1>4, <3>1
    <3>3. \A i \in 1..Len(bus') : 0 + i = i OBVIOUS
    <3>4. \A i \in 1..Len(bus') : ec_slaves'[i].position = i
      BY <1>4, <3>1, <3>3
    <3>5. \A i \in 1..Len(ec_slaves') : ec_slaves'[i].position <= Len(bus')
      BY <1>3, <3>2, <3>4
    <3>6. /\ \A m \in Name : position'[m] <= Len(bus')
          /\ slaves_data_access' = <<>> /\ Len(ec_slaves') >= Len(bus')
      BY <1>2, <1>3, <3>1, <3>2
    <3> QED BY <3>4, <3>5, <3>6, Zenon DEF OfThisBus
  <2>2. CASE scans # 0
    <3>a. scans > 0 BY <1>3, <2>2
    <3>1. SUFFICES ASSUME ~changed, bus' = bus PROVE OfThisBus'
      BY <1>2, <3>a, Zenon DEF OfThisBus
    <3>2. /\ \A m \in Name : position[m] <= Len(bus)
          /\ \A i \in 1..Len(ec_slaves) : ec_slaves[i].position <= Len(bus)
          /\ Len(ec_slaves) >= Len(bus)
          /\ \A i \in 1..Len(bus) : ec_slaves[i].position = i
          /\ \/ slaves_data_access = <<>>
             \/ /\ Len(slaves_data_access) >= Len(bus)
                /\ \A i \in 1..Len(bus) : slaves_data_access[i].position = i
      BY <3>1 DEF MailboxInv, OfThisBus
    <3>3. \A i \in 1..Len(ec_slaves') : ec_slaves'[i].position <= Len(bus)
      BY <1>3, <1>5, <3>1, <3>2
    <3>4. Len(ec_slaves') >= Len(bus) BY <1>3, <1>4, <3>1, <3>2
    <3>5. \A i \in 1..Len(bus) : ec_slaves'[i].position = i
      BY <1>3, <1>4, <3>1, <3>2
    <3> QED BY <1>2, <3>1, <3>2, <3>3, <3>4, <3>5 DEF OfThisBus
  <2> QED BY <2>1, <2>2
<1> QED BY <1>1, <1>2, <1>3, <1>6, <1>7
        DEF MailboxInv, AllHaveEntries, NothingFoundYet, Up

LEMMA ConfigureModuleMailbox == MailboxInv /\ ConfigureModule => MailboxInv'
<1> SUFFICES ASSUME MailboxInv, ConfigureModule PROVE MailboxInv'
  OBVIOUS
<1>1. TypedInv' BY ConfigureModuleTyped DEF MailboxInv
<1> DEFINE m == slave_infos[step].name
           k == Min(Candidates(slave_infos[step]))
           p == ec_slaves[k].position
<1>2. /\ component = "configuring" /\ component' = component
      /\ Candidates(slave_infos[step]) # {}
      /\ position' = [position EXCEPT ![m] = p]
      /\ UNCHANGED <<bus, ec_slaves, slaves_data_access, scans, changed>>
  BY DEF ConfigureModule, AtModule
<1>3. \/ initialized_slaves' = Append(initialized_slaves, m)
      \/ initialized_slaves' = initialized_slaves
  BY DEF ConfigureModule
<1>4. ec_slaves \in Seq(Entry) BY DEF MailboxInv, TypedInv, TypeOK, Entry
<1>5. k \in 1..Len(ec_slaves) /\ p \in Position
  BY <1>2, <1>4, ChosenIsCandidate
<1>6. p # 0 /\ p <= Len(ec_slaves)
  BY <1>5, BusAssumption DEF MailboxInv, CalledIsPlaced, Position
<1>7. /\ position \in [Name -> Position \cup {0}]
      /\ initialized_slaves \in Seq(slaves) /\ slaves \subseteq Name
  BY DEF MailboxInv, TypedInv, TypeOK
<1>8. m \in Name BY <1>7 DEF ConfigureModule
<1> HIDE DEF m, k, p
<1>9. \A n \in Name : position'[n] \in {position[n], p} BY <1>2, <1>7
<1>10. position'[m] = p BY <1>2, <1>7, <1>8
<1>11. ASSUME NEW n \in Called' PROVE position'[n] # 0
  <2>1. n = m \/ n \in Called
    <3>1. CASE initialized_slaves' = Append(initialized_slaves, m)
      BY <1>7, <1>11, <3>1 DEF Called
    <3>2. CASE initialized_slaves' = initialized_slaves
      BY <1>11, <3>2 DEF Called
    <3> QED BY <1>3, <3>1, <3>2
  <2>2. CASE n = m BY <1>6, <1>10, <2>2
  <2>3. CASE n \in Called
    <3>1. n \in Name BY <1>7, <2>3 DEF Called
    <3>2. position[n] # 0 BY <2>3 DEF MailboxInv, CalledIsPlaced
    <3> QED BY <1>6, <1>9, <3>1, <3>2
  <2> QED BY <2>1, <2>2, <2>3
<1>12. CalledIsPlaced'
  <2>1. /\ \A n \in Name : position[n] <= Len(ec_slaves)
        /\ \A i \in 1..Len(ec_slaves) : ec_slaves[i].position <= Len(ec_slaves)
    BY DEF MailboxInv, CalledIsPlaced
  <2>2. \A n \in Name : position'[n] <= Len(ec_slaves)
    BY <1>6, <1>9, <2>1
  <2> QED BY <1>2, <1>11, <2>1, <2>2 DEF CalledIsPlaced
<1>13. OfThisBus'
  <2>1. CASE changed BY <1>2, <2>1 DEF OfThisBus
  <2>2. CASE ~changed
    <3>1. /\ \A n \in Name : position[n] <= Len(bus)
          /\ \A i \in 1..Len(ec_slaves) : ec_slaves[i].position <= Len(bus)
      BY <2>2 DEF MailboxInv, OfThisBus
    <3>2. p <= Len(bus) BY <1>5, <3>1 DEF p
    <3>3. \A n \in Name : position'[n] <= Len(bus) BY <1>9, <3>1, <3>2
    <3> QED BY <1>2, <2>2, <3>3 DEF MailboxInv, OfThisBus
  <2> QED BY <2>1, <2>2
<1>14. NothingFoundYet'
  BY <1>2 DEF MailboxInv, NothingFoundYet
<1>15. AllHaveEntries' BY <1>2 DEF AllHaveEntries, Up
<1> QED BY <1>1, <1>12, <1>13, <1>14, <1>15 DEF MailboxInv

LEMMA StartBusMailbox == MailboxInv /\ StartBus => MailboxInv'
<1> SUFFICES ASSUME MailboxInv, StartBus PROVE MailboxInv'
  OBVIOUS
<1>1. TypedInv' BY StartBusTyped DEF MailboxInv
<1>2. /\ component = "configuring" /\ layout' \in Layouts
      /\ changed' = (changed \/ (scans > 1 /\ layout' # layout))
      /\ slaves_data_access' = DataAccess(working', layout')
      /\ component' \in {"inactive", "unconfigured", "finalized"}
      /\ UNCHANGED <<initialized_slaves, position, scans, bus, ec_slaves>>
  BY DEF StartBus, CallHooks
<1>3. /\ ec_slaves \in Seq(Entry) /\ slaves_data_access \in Seq(AccessType)
      /\ Len(ec_slaves) \in Nat /\ Len(slaves_data_access) \in Nat
  BY DEF MailboxInv, TypedInv, TypeOK, Entry, AccessType, BuffersType, SpanType
<1>4. \A d \in Direction : working'[d].block \in Nat
  BY <1>1 DEF TypedInv, TypeOK
<1>5. /\ Len(slaves_data_access') = Len(slaves_data_access) + Len(ec_slaves)
      /\ \A i \in 1..Len(slaves_data_access) :
           slaves_data_access'[i] = slaves_data_access[i]
      /\ \A i \in 1..Len(ec_slaves) :
           slaves_data_access'[Len(slaves_data_access) + i].position
             = ec_slaves[i].position
  BY <1>2, <1>3, <1>4, DataAccessTyped
<1>6. AllHaveEntries' BY <1>2, <1>3, <1>5 DEF AllHaveEntries
<1>7. CalledIsPlaced'
  BY <1>2 DEF MailboxInv, CalledIsPlaced, Called
<1>8. NothingFoundYet'
  <2>1. scans > 0 BY <1>2 DEF MailboxInv, NothingFoundYet
  <2>2. scans' # 0 BY <1>2, <2>1
  <2> QED BY <1>2, <2>1, <2>2 DEF NothingFoundYet
<1>9. OfThisBus'
  <2>1. SUFFICES ASSUME ~changed PROVE OfThisBus'
    BY <1>2, Zenon DEF OfThisBus
  <2>2. /\ \A m \in Name : position[m] <= Len(bus)
        /\ \A i \in 1..Len(ec_slaves) : ec_slaves[i].position <= Len(bus)
        /\ Len(ec_slaves) >= Len(bus)
        /\ \A i \in 1..Len(bus) : ec_slaves[i].position = i
        /\ \/ slaves_data_access = <<>>
           \/ /\ Len(slaves_data_access) >= Len(bus)
              /\ \A i \in 1..Len(bus) : slaves_data_access[i].position = i
    BY <2>1 DEF MailboxInv, OfThisBus
  <2>3. Len(bus) \in Nat
    <3>1. bus \in Buses \/ Len(bus) = 0 BY DEF MailboxInv, TypedInv, TypeOK
    <3> QED BY <3>1, BusAssumption DEF Position
  <2>4. Len(slaves_data_access') >= Len(bus) BY <1>3, <1>5, <2>2, <2>3
  <2>5. ASSUME NEW i \in 1..Len(bus) PROVE slaves_data_access'[i].position = i
    <3>1. CASE slaves_data_access = <<>>
      <4>1. /\ Len(slaves_data_access) + i = i /\ i \in 1..Len(ec_slaves)
        BY <1>3, <2>2, <2>3, <3>1
      <4> QED BY <1>5, <2>2, <4>1
    <3>2. CASE slaves_data_access # <<>>
      <4>1. i \in 1..Len(slaves_data_access) /\ slaves_data_access[i].position = i
        BY <1>3, <2>2, <2>3, <3>2
      <4> QED BY <1>5, <4>1
    <3> QED BY <3>1, <3>2
  <2>6. /\ \A m \in Name : position'[m] <= Len(bus')
        /\ \A i \in 1..Len(ec_slaves') : ec_slaves'[i].position <= Len(bus')
        /\ Len(ec_slaves') >= Len(bus')
        /\ \A i \in 1..Len(bus') : ec_slaves'[i].position = i
        /\ Len(slaves_data_access') >= Len(bus')
        /\ \A i \in 1..Len(bus') : slaves_data_access'[i].position = i
    BY <1>2, <2>2, <2>4, <2>5
  <2> QED BY <2>6, Zenon DEF OfThisBus
<1> QED BY <1>1, <1>6, <1>7, <1>8, <1>9 DEF MailboxInv

LEMMA NextMailbox == MailboxInv /\ [Next]_vars => MailboxInv'
<1> SUFFICES ASSUME MailboxInv, [Next]_vars PROVE MailboxInv'
  OBVIOUS
<1>1. TypedInv' BY NextTyped DEF MailboxInv
<1>2. CASE InitMaster BY <1>2, InitMasterMailbox
<1>3. CASE ConfigureModule BY <1>3, ConfigureModuleMailbox
<1>4. CASE StartBus BY <1>4, StartBusMailbox
<1>5. CASE LoadModules
  BY <1>1, <1>5, MailboxKept DEF LoadModules, Up, setup
<1>6. CASE SkipModule
  BY <1>1, <1>6, MailboxKept DEF SkipModule, Up, modules, setup
<1>7. CASE Activate
  BY <1>1, <1>7, MailboxKept DEF Activate, Up, modules, setup
<1>8. CASE Leave
  BY <1>1, <1>8, MailboxKept DEF Leave, Up, modules, setup
<1>9. CASE Read
  BY <1>1, <1>9, MailboxKept DEF Read, Up, modules, setup
<1>10. CASE Write
  BY <1>1, <1>10, MailboxKept DEF Write, Up, modules, setup
<1>11. CASE UNCHANGED vars
  BY <1>1, <1>11, MailboxKept DEF vars, Up, modules, setup
<1> QED BY <1>2, <1>3, <1>4, <1>5, <1>6, <1>7, <1>8, <1>9, <1>10, <1>11
        DEF Next, Lifecycle, Finalized

\* The element read() and write() take exists, after any number of
\* configurations with any buses; as long as the bus stays the same it is that
\* of the module's slave.
THEOREM MailboxBelongsToSlave == Spec => []MailboxOfOwnSlave
  BY InitMailbox, NextMailbox, MailboxInvImplies, PTL DEF Spec

-----------------------------------------------------------------------------
(* A slave is set up by the module last configured for its position *)

\* A module is configured for the first slave that matches, the same one in
\* every configuration: later scans append to slaves.
PlacedAtFirst ==
  \A i \in DOMAIN slave_infos :
    position[slave_infos[i].name] # 0 =>
      /\ Candidates(slave_infos[i]) # {}
      /\ position[slave_infos[i].name]
           = ec_slaves[Min(Candidates(slave_infos[i]))].position

\* The hook of a slave is that of the module configured last for it.
HookOfLast == \A p \in hooked : SDO_setup_hook_store[p] = LastAt(p)

SetUpOfLast ==
  Up => \A p \in Position : set_up[p] # Nobody => set_up[p] = LastAt(p)

SetUpInv == MailboxInv /\ (DistinctNames => PlacedAtFirst /\ HookOfLast /\ SetUpOfLast)

LEMMA InitSetUp == Init => SetUpInv
<1> SUFFICES ASSUME Init PROVE SetUpInv
  OBVIOUS
<1>1. MailboxInv BY InitMailbox
<1>2. \A i \in DOMAIN slave_infos : slave_infos[i].name \in Name
  <2>1. slave_infos \in Seq(SlaveInfo) BY HardwareAssumption DEF Init
  <2>2. \A i \in DOMAIN slave_infos : slave_infos[i] \in SlaveInfo BY <2>1
  <2> QED BY <2>2 DEF SlaveInfo
<1>3. PlacedAtFirst BY <1>2 DEF Init, PlacedAtFirst
<1>4. HookOfLast /\ SetUpOfLast BY DEF Init, HookOfLast, SetUpOfLast, Up
<1> QED BY <1>1, <1>3, <1>4 DEF SetUpInv

\* A scan does not change the first slave that matches.
LEMMA FirstCandidateKept ==
  ASSUME MailboxInv, InitMaster, NEW info, Candidates(info) # {}
  PROVE  /\ Candidates(info)' # {}
         /\ ec_slaves'[Min(Candidates(info)')] = ec_slaves[Min(Candidates(info))]
<1> DEFINE C == Candidates(info)
           D == Candidates(info)'
           c == Min(C)
           e == Min(D)
<1>1. /\ ec_slaves \in Seq(Entry) /\ ec_slaves' \in Seq(Entry)
      /\ bus' \in Buses /\ ec_slaves' = Found(bus')
      /\ Len(ec_slaves) \in Nat /\ Len(bus') \in Nat
  <2>1. TypedInv' BY InitMasterTyped DEF MailboxInv
  <2>2. ec_slaves \in Seq(Entry) BY DEF MailboxInv, TypedInv, TypeOK, Entry
  <2>3. ec_slaves' \in Seq(Entry) BY <2>1 DEF TypedInv, TypeOK, Entry
  <2>4. bus' \in Buses /\ ec_slaves' = Found(bus') BY DEF InitMaster
  <2>5. Len(bus') \in Nat BY <2>4, BusAssumption DEF Position
  <2> QED BY <2>2, <2>3, <2>4, <2>5
<1>2. /\ Len(ec_slaves') = Len(ec_slaves) + Len(bus')
      /\ \A i \in 1..Len(ec_slaves) : ec_slaves'[i] = ec_slaves[i]
  BY <1>1, FoundAppends
<1>3. /\ C = {i \in 1..Len(ec_slaves) : Matches(info, ec_slaves[i])}
      /\ D = {i \in 1..Len(ec_slaves') : Matches(info, ec_slaves'[i])}
  BY <1>1 DEF Candidates, Matches
<1>4. C \in SUBSET Nat /\ D \in SUBSET Nat BY <1>1, <1>3
<1>5. C \subseteq D
  <2>1. \A i \in 1..Len(ec_slaves) : i \in 1..Len(ec_slaves') BY <1>1, <1>2
  <2> QED BY <1>2, <1>3, <2>1
<1>6. \A i \in D : i <= Len(ec_slaves) => i \in C
  <2>1. \A i \in 1..Len(ec_slaves') : i <= Len(ec_slaves) => i \in 1..Len(ec_slaves)
    BY <1>1
  <2> QED BY <1>2, <1>3, <2>1
<1> HIDE DEF C, D
<1>7. c \in C /\ \A i \in C : c <= i BY <1>4, MinOfNaturals DEF C
<1>8. e \in D /\ \A i \in D : e <= i BY <1>4, <1>5, <1>7, MinOfNaturals
<1>9. c \in 1..Len(ec_slaves) BY <1>3, <1>7
<1> HIDE DEF c, e
<1>10. e <= c BY <1>5, <1>7, <1>8
<1>11. e \in C BY <1>1, <1>4, <1>6, <1>8, <1>9, <1>10
<1>12. c <= e BY <1>7, <1>11
<1>13. c = e BY <1>4, <1>7, <1>8, <1>10, <1>12
<1>14. ec_slaves'[e] = ec_slaves[c] BY <1>2, <1>9, <1>13
<1> QED BY <1>5, <1>7, <1>14 DEF C, D, c, e

LEMMA InitMasterSetUp == SetUpInv /\ InitMaster => SetUpInv'
<1> SUFFICES ASSUME SetUpInv, InitMaster PROVE SetUpInv'
  OBVIOUS
<1>1. MailboxInv /\ MailboxInv' BY InitMasterMailbox DEF SetUpInv
<1>2. /\ hooked' = {} /\ component' = "configuring"
      /\ UNCHANGED <<slave_infos, position>>
  BY DEF InitMaster, modules
<1>3. SUFFICES ASSUME DistinctNames PROVE (PlacedAtFirst /\ HookOfLast /\ SetUpOfLast)'
  BY <1>1, <1>2 DEF SetUpInv, DistinctNames
<1>4. PlacedAtFirst'
  <2>1. SUFFICES ASSUME NEW i \in DOMAIN slave_infos,
                        position[slave_infos[i].name] # 0
                 PROVE  /\ Candidates(slave_infos[i])' # {}
                        /\ position[slave_infos[i].name]
                             = ec_slaves'[Min(Candidates(slave_infos[i])')].position
    BY <1>2 DEF PlacedAtFirst
  <2>2. /\ Candidates(slave_infos[i]) # {}
        /\ position[slave_infos[i].name]
             = ec_slaves[Min(Candidates(slave_infos[i]))].position
    BY <1>3, <2>1 DEF SetUpInv, PlacedAtFirst
  <2>3. PICK info : info = slave_infos[i] OBVIOUS
  <2>4. /\ Candidates(info)' # {}
        /\ ec_slaves'[Min(Candidates(info)')] = ec_slaves[Min(Candidates(info))]
    BY <1>1, <2>2, <2>3, FirstCandidateKept
  <2>5. Candidates(info)' = Candidates(slave_infos[i])'
    BY <1>2, <2>3 DEF Candidates, Matches
  <2> QED BY <2>2, <2>3, <2>4, <2>5
<1>5. HookOfLast' BY <1>2 DEF HookOfLast
<1>6. SetUpOfLast' BY <1>2 DEF SetUpOfLast, Up
<1> QED BY <1>4, <1>5, <1>6

LEMMA ConfigureModuleSetUp == SetUpInv /\ ConfigureModule => SetUpInv'
<1> SUFFICES ASSUME SetUpInv, ConfigureModule PROVE SetUpInv'
  OBVIOUS
<1>1. MailboxInv /\ MailboxInv' BY ConfigureModuleMailbox DEF SetUpInv
<1> DEFINE info == slave_infos[step]
           m == info.name
           p == ec_slaves[Min(Candidates(info))].position
           n == Len(initialized_slaves)
           at(q) == {i \in DOMAIN initialized_slaves : position[initialized_slaves[i]] = q}
           atNext(q) == {i \in DOMAIN initialized_slaves' :
                           position'[initialized_slaves'[i]] = q}
<1>2. /\ component = "configuring" /\ component' = component /\ step \in DOMAIN slave_infos
      /\ Candidates(info) # {} /\ m \in slaves
      /\ position' = [position EXCEPT ![m] = p]
      /\ UNCHANGED <<slave_infos, ec_slaves, set_up>>
  BY DEF ConfigureModule, AtModule
<1>3. \/ /\ SDO_setup_hook_store' = [SDO_setup_hook_store EXCEPT ![p] = m]
         /\ hooked' = hooked \cup {p}
         /\ initialized_slaves' = Append(initialized_slaves, m)
      \/ UNCHANGED <<SDO_setup_hook_store, hooked, initialized_slaves>>
  BY DEF ConfigureModule, AttachHook
<1>4. SUFFICES ASSUME DistinctNames PROVE (PlacedAtFirst /\ HookOfLast /\ SetUpOfLast)'
  BY <1>1, <1>2 DEF SetUpInv, DistinctNames
<1>5. PlacedAtFirst /\ HookOfLast BY <1>4 DEF SetUpInv
<1>6. /\ position \in [Name -> Position \cup {0}] /\ n \in Nat
      /\ initialized_slaves \in Seq(slaves) /\ slaves \subseteq Name /\ m \in Name
      /\ hooked \subseteq Position
      /\ SDO_setup_hook_store \in [Position -> Name \cup {Nobody}]
      /\ ec_slaves \in Seq(Entry)
  <2>1. /\ position \in [Name -> Position \cup {0}]
        /\ initialized_slaves \in Seq(slaves) /\ slaves \subseteq Name
        /\ hooked \subseteq Position
        /\ SDO_setup_hook_store \in [Position -> Name \cup {Nobody}]
        /\ ec_slaves \in Seq(Entry)
    BY <1>1 DEF MailboxInv, TypedInv, TypeOK, Entry
  <2>2. n \in Nat BY <2>1
  <2>3. m \in Name BY <1>2, <2>1
  <2> QED BY <2>1, <2>2, <2>3
<1>7. p \in Position BY <1>2, <1>6, ChosenIsCandidate
<1>8. position[m] # 0 => position[m] = p
  BY <1>2, <1>5 DEF PlacedAtFirst
<1>9. \A x \in Called : x \in Name /\ position[x] # 0 /\ position'[x] = position[x]
  <2>1. \A x \in Called : x \in Name BY <1>6 DEF Called
  <2>2. \A x \in Called : position[x] # 0 BY <1>1 DEF MailboxInv, CalledIsPlaced
  <2> HIDE DEF m, p
  <2> QED BY <1>2, <1>6, <1>8, <2>1, <2>2
<1>10. PlacedAtFirst'
  <2>1. SUFFICES ASSUME NEW i \in DOMAIN slave_infos,
                        position'[slave_infos[i].name] # 0
                 PROVE  /\ Candidates(slave_infos[i]) # {}
                        /\ position'[slave_infos[i].name]
                             = ec_slaves[Min(Candidates(slave_infos[i]))].position
    BY <1>2, SMTT(30) DEF PlacedAtFirst, Candidates, Matches
  <2>2. CASE i = step BY <1>2, <1>6, <2>2
  <2>3. CASE i # step
    <3>1. slave_infos[i].name # m BY <1>2, <1>4, <2>3 DEF DistinctNames
    <3>2. position'[slave_infos[i].name] = position[slave_infos[i].name]
      BY <1>2, <1>6, <3>1
    <3> QED BY <1>5, <2>1, <3>2 DEF PlacedAtFirst
  <2> QED BY <2>2, <2>3
<1>11. /\ \A q : LastAt(q) = IF at(q) = {} THEN Nobody ELSE initialized_slaves[Max(at(q))]
       /\ \A q : LastAt(q)' = IF atNext(q) = {} THEN Nobody
                              ELSE initialized_slaves'[Max(atNext(q))]
  BY DEF LastAt
<1>12. \A i \in 1..n : initialized_slaves[i] \in Called BY <1>6 DEF Called
<1>13. position'[m] = p BY <1>2, <1>6
<1>14. HookOfLast'
  <2>1. CASE UNCHANGED <<SDO_setup_hook_store, hooked, initialized_slaves>>
    <3>1. \A q : atNext(q) = at(q) BY <1>6, <1>9, <1>12, <2>1
    <3>2. \A q : LastAt(q)' = LastAt(q) BY <1>11, <2>1, <3>1
    <3> QED BY <1>5, <2>1, <3>2 DEF HookOfLast
  <2>2. CASE /\ SDO_setup_hook_store' = [SDO_setup_hook_store EXCEPT ![p] = m]
             /\ hooked' = hooked \cup {p}
             /\ initialized_slaves' = Append(initialized_slaves, m)
    <3> HIDE DEF m, p
    <3>1. /\ DOMAIN initialized_slaves' = 1..(n + 1)
          /\ initialized_slaves'[n + 1] = m
          /\ \A i \in 1..n : initialized_slaves'[i] = initialized_slaves[i]
      BY <1>6, <2>2
    <3>2. DOMAIN initialized_slaves = 1..n BY <1>6
    <3>0. PICK r : r = p OBVIOUS
    <3>3. ASSUME NEW q \in hooked, q # r PROVE LastAt(q)' = LastAt(q)
      <4>1. atNext(q) = at(q)
        BY <1>6, <1>9, <1>12, <1>13, <3>0, <3>1, <3>2, <3>3
      <4>2. CASE at(q) = {} BY <1>11, <4>1, <4>2
      <4>3. CASE at(q) # {}
        <5>1. at(q) \in SUBSET (0..n) BY <1>6, <3>2
        <5>2. Max(at(q)) \in 1..n
          <6>1. Max(at(q)) \in at(q) BY <1>6, <4>3, <5>1, MaxOfBounded
          <6> QED BY <3>2, <6>1
        <5> QED BY <1>11, <3>1, <4>1, <4>3, <5>2
      <4> QED BY <4>2, <4>3
    <3>4. LastAt(r)' = m
      <4>1. n + 1 \in atNext(r) BY <1>6, <1>13, <3>0, <3>1
      <4>2. atNext(r) \in SUBSET (0..(n + 1)) BY <1>6, <3>1
      <4>3. Max(atNext(r)) \in atNext(r) /\ \A x \in atNext(r) : x <= Max(atNext(r))
        <5>1. n + 1 \in Nat BY <1>6
        <5>2. atNext(r) # {} BY <4>1
        <5> HIDE DEF atNext, n
        <5> QED BY <4>2, <5>1, <5>2, MaxOfBounded
      <4>4. Max(atNext(r)) = n + 1
        <5> HIDE DEF atNext, n
        <5> QED BY <1>6, <4>1, <4>2, <4>3
      <4>5. LastAt(r)' = initialized_slaves'[Max(atNext(r))] BY <1>11, <4>1
      <4> QED BY <3>1, <4>4, <4>5
    <3>5. SDO_setup_hook_store'[r] = m
          /\ \A q \in hooked : q # r => SDO_setup_hook_store'[q] = SDO_setup_hook_store[q]
      BY <1>6, <1>7, <2>2, <3>0
    <3>6. \A q \in hooked' : q = r \/ (q \in hooked /\ q # r) BY <2>2, <3>0
    <3> HIDE DEF at, atNext
    <3> QED BY <1>5, <3>3, <3>4, <3>5, <3>6 DEF HookOfLast
  <2> QED BY <1>3, <2>1, <2>2
<1>15. SetUpOfLast' BY <1>2 DEF SetUpOfLast, Up
<1> QED BY <1>10, <1>14, <1>15

\* Actions that change neither the modules called nor their hooks.
LEMMA LastKept ==
  ASSUME UNCHANGED <<initialized_slaves, position>>
  PROVE  \A p : LastAt(p)' = LastAt(p)
  BY DEF LastAt

LEMMA SetUpKept ==
  ASSUME SetUpInv, MailboxInv', Up' => Up,
         UNCHANGED <<slave_infos, position, ec_slaves, initialized_slaves, hooked,
                     SDO_setup_hook_store, set_up>>
  PROVE  SetUpInv'
<1>1. \A p : LastAt(p)' = LastAt(p) BY LastKept
<1>2. DistinctNames' = DistinctNames BY DEF DistinctNames
<1>3. PlacedAtFirst' = PlacedAtFirst BY DEF PlacedAtFirst, Candidates, Matches
<1> QED BY <1>1, <1>2, <1>3 DEF SetUpInv, HookOfLast, SetUpOfLast

LEMMA StartBusSetUp == SetUpInv /\ StartBus => SetUpInv'
<1> SUFFICES ASSUME SetUpInv, StartBus PROVE SetUpInv'
  OBVIOUS
<1>1. MailboxInv' BY StartBusMailbox DEF SetUpInv
<1>2. /\ set_up' = [p \in Position |-> IF p \in hooked \cap DOMAIN bus
                                       THEN SDO_setup_hook_store[p] ELSE Nobody]
      /\ UNCHANGED <<slave_infos, position, ec_slaves, initialized_slaves, hooked,
                     SDO_setup_hook_store>>
  BY DEF StartBus, CallHooks
<1>3. \A p : LastAt(p)' = LastAt(p) BY <1>2, LastKept
<1>4. DistinctNames' = DistinctNames BY <1>2 DEF DistinctNames
<1>5. PlacedAtFirst' = PlacedAtFirst BY <1>2 DEF PlacedAtFirst, Candidates, Matches
<1>6. HookOfLast' = HookOfLast BY <1>2, <1>3 DEF HookOfLast
<1>7. HookOfLast => SetUpOfLast' BY <1>2, <1>3 DEF HookOfLast, SetUpOfLast
<1> QED BY <1>1, <1>4, <1>5, <1>6, <1>7 DEF SetUpInv

LEMMA NextSetUp == SetUpInv /\ [Next]_vars => SetUpInv'
<1> SUFFICES ASSUME SetUpInv, [Next]_vars PROVE SetUpInv'
  OBVIOUS
<1>1. MailboxInv' BY NextMailbox DEF SetUpInv
<1>2. CASE InitMaster BY <1>2, InitMasterSetUp
<1>3. CASE ConfigureModule BY <1>3, ConfigureModuleSetUp
<1>4. CASE StartBus BY <1>4, StartBusSetUp
<1>5. CASE LoadModules
  BY <1>1, <1>5, SetUpKept DEF LoadModules, Up, setup
<1>6. CASE SkipModule
  BY <1>1, <1>6, SetUpKept DEF SkipModule, Up, modules, setup
<1>7. CASE Activate
  BY <1>1, <1>7, SetUpKept DEF Activate, Up, modules, setup
<1>8. CASE Leave
  BY <1>1, <1>8, SetUpKept DEF Leave, Up, modules, setup
<1>9. CASE Read
  BY <1>1, <1>9, SetUpKept DEF Read, Up, modules, setup
<1>10. CASE Write
  BY <1>1, <1>10, SetUpKept DEF Write, Up, modules, setup
<1>11. CASE UNCHANGED vars
  BY <1>1, <1>11, SetUpKept DEF vars, Up, modules, setup
<1> QED BY <1>2, <1>3, <1>4, <1>5, <1>6, <1>7, <1>8, <1>9, <1>10, <1>11
        DEF Next, Lifecycle, Finalized

-----------------------------------------------------------------------------
(* As long as the bus stays the same, each module has its slave's data *)

\* The bus has not been started yet.
BeforeStart == scans = 0 \/ (scans = 1 /\ component = "configuring")

\* Before the first start nothing is mapped; from then on the slaves of the
\* bus are, and each has the bytes of the IOmap it had at the first start.
MappedOnce ==
  /\ Up \/ component = "configuring" => scans > 0
  /\ BeforeStart => layout = <<>> /\ slaves_data_access = <<>>
  /\ ~BeforeStart /\ ~changed => layout \in Layouts /\ Len(layout) = Len(bus)
  /\ \A d \in Direction : DOMAIN IOmap[d] = Group(layout, d)

\* The bytes of the slave at p in the current allocations.
SpansAt(p) == [d \in Direction |-> Span(working, layout, p, d)]

EntriesHoldSpans ==
  ~changed => \A i \in DOMAIN slaves_data_access :
                slaves_data_access[i].buffers = SpansAt(slaves_data_access[i].position)

ModulesHoldSpans ==
  Up /\ ~changed => \A m \in Called : buffers[m] = SpansAt(position[m])

\* Inputs are those of one cycle, or none were delivered yet.
OfOneCycle(inputs) ==
  \/ \A b \in DOMAIN inputs : inputs[b] = Untouched.TxPDO
  \/ \E t \in Time : inputs = Delivered(t)

InputsOfOneCycle ==
  ~changed => OfOneCycle(IOmap.TxPDO) /\ (Up => OfOneCycle(working.TxPDO.data))

\* A joint shows something only if its module has inputs.
JointsOfModules ==
  /\ joint_state = actuator_state
  /\ ~changed => \A m \in Name : joint_state[m] # {} =>
       m \in Called /\ position[m] \in DOMAIN layout /\ layout[position[m]].TxPDO # {}

\* Bytes nobody writes keep what the bus has.
NobodyWrites ==
  Up /\ ~changed => \A b \in DOMAIN IOmap.RxPDO :
                      Writers(b) = {} => working.RxPDO.data[b] = IOmap.RxPDO[b]

SteadyInv ==
  /\ SetUpInv /\ DistinctNames
  /\ MappedOnce /\ EntriesHoldSpans /\ ModulesHoldSpans /\ InputsOfOneCycle
  /\ JointsOfModules /\ NobodyWrites

LEMMA InitSteady == Init /\ DistinctNames => SteadyInv
<1> SUFFICES ASSUME Init, DistinctNames PROVE SteadyInv
  OBVIOUS
<1>1. SetUpInv BY InitSetUp
<1>2. MappedOnce
  <2>1. Group(<<>>, "RxPDO") = {} /\ Group(<<>>, "TxPDO") = {} BY DEF Group
  <2>2. \A d \in Direction : Group(<<>>, d) = {} BY <2>1 DEF Direction
  <2>3. \A d \in Direction : DOMAIN IOmap[d] = {} BY DEF Init
  <2> QED BY <2>2, <2>3 DEF Init, MappedOnce, BeforeStart, Up
<1>3. EntriesHoldSpans BY DEF Init, EntriesHoldSpans
<1>4. ModulesHoldSpans /\ NobodyWrites BY DEF Init, ModulesHoldSpans, NobodyWrites, Up
<1>5. InputsOfOneCycle BY DEF Init, InputsOfOneCycle, OfOneCycle, Up, Direction
<1>6. JointsOfModules BY DEF Init, JointsOfModules
<1> QED BY <1>1, <1>2, <1>3, <1>4, <1>5, <1>6 DEF SteadyInv

\* The module at a slave that is mapped, in a steady bus.
LEMMA CalledIsMapped ==
  ASSUME SteadyInv, ~changed, Up, NEW m \in Called
  PROVE  /\ m \in Name /\ layout \in Layouts /\ position[m] \in DOMAIN layout
         /\ position[m] \in Position
         /\ buffers[m] = [d \in Direction |-> [block |-> working[d].block,
                                               bytes |-> layout[position[m]][d]]]
<1>1. MailboxInv /\ MappedOnce /\ ModulesHoldSpans BY DEF SteadyInv, SetUpInv
<1>2. m \in Name /\ position[m] \in Position \cup {0} /\ scans \in Nat
  BY <1>1, BusAssumption DEF MailboxInv, TypedInv, TypeOK, Called
<1>3. position[m] # 0 BY <1>1 DEF MailboxInv, CalledIsPlaced
<1>4. position[m] <= Len(bus) BY <1>1, <1>2 DEF MailboxInv, OfThisBus
<1>5. ~BeforeStart BY <1>1, <1>2 DEF MappedOnce, Up, BeforeStart
<1>6. layout \in Layouts /\ Len(layout) = Len(bus) BY <1>1, <1>5 DEF MappedOnce
<1>7. layout \in Seq([Direction -> SUBSET Nat]) BY <1>6, LayoutAssumption
<1>8. position[m] \in DOMAIN layout
  BY <1>2, <1>3, <1>4, <1>6, <1>7, BusAssumption DEF Position
<1>9. buffers[m] = SpansAt(position[m]) BY <1>1 DEF ModulesHoldSpans
<1>10. SpansAt(position[m]) = [d \in Direction |-> [block |-> working[d].block,
                                                    bytes |-> layout[position[m]][d]]]
  BY <1>8 DEF SpansAt, Span
<1> QED BY <1>2, <1>3, <1>6, <1>8, <1>9, <1>10

-----------------------------------------------------------------------------
(* Callbacks *)

\* Steps that touch neither data, spans nor modules.
LEMMA SteadyKept ==
  ASSUME SteadyInv, SetUpInv', Up' => Up, (component' = "configuring") = (component = "configuring"),
         UNCHANGED <<slave_infos, ec_slaves, slaves_data_access, position, initialized_slaves, buffers,
                     bus, layout, changed, scans, working, IOmap, actuator_state, joint_state>>
  PROVE  SteadyInv'
<1>1. DistinctNames' BY DEF SteadyInv, DistinctNames
<1>2. MappedOnce' BY DEF SteadyInv, MappedOnce, BeforeStart
<1>3. EntriesHoldSpans' BY DEF SteadyInv, EntriesHoldSpans, SpansAt, Span
<1>4. ModulesHoldSpans' BY DEF SteadyInv, ModulesHoldSpans, SpansAt, Span, Called
<1>5. InputsOfOneCycle' BY DEF SteadyInv, InputsOfOneCycle, OfOneCycle, Delivered
<1>6. JointsOfModules' BY DEF SteadyInv, JointsOfModules, Called
<1>7. NobodyWrites' BY DEF SteadyInv, NobodyWrites, Writers
<1> QED BY <1>1, <1>2, <1>3, <1>4, <1>5, <1>6, <1>7 DEF SteadyInv

LEMMA InitMasterSteady == SteadyInv /\ InitMaster => SteadyInv'
<1> SUFFICES ASSUME SteadyInv, InitMaster PROVE SteadyInv'
  OBVIOUS
<1>1. SetUpInv' /\ MailboxInv BY InitMasterSetUp DEF SteadyInv, SetUpInv
<1>2. /\ component = "unconfigured" /\ component' = "configuring"
      /\ scans' = scans + 1 /\ changed' = (changed \/ (scans > 0 /\ bus' # bus))
      /\ UNCHANGED <<slave_infos, slaves_data_access, position, initialized_slaves, buffers, layout,
                     working, IOmap, actuator_state, joint_state>>
  BY DEF InitMaster, modules, cycle
<1>3. scans \in Nat BY <1>1, BusAssumption DEF MailboxInv, TypedInv, TypeOK
<1>4. MappedOnce'
  <2>1. MappedOnce BY DEF SteadyInv
  <2>2. scans' > 0 BY <1>2, <1>3
  <2>3. BeforeStart' => BeforeStart BY <1>2, <1>3 DEF BeforeStart
  <2>4. ~BeforeStart' => ~BeforeStart /\ scans > 0 BY <1>2, <1>3 DEF BeforeStart
  <2>5. ~BeforeStart' /\ ~changed' => ~BeforeStart /\ ~changed /\ bus' = bus
    BY <1>2, <2>4
  <2> QED BY <1>2, <2>1, <2>2, <2>3, <2>5 DEF MappedOnce
<1>5. DistinctNames' BY <1>2 DEF SteadyInv, DistinctNames
<1>6. EntriesHoldSpans' BY <1>2, ZenonT(60) DEF SteadyInv, EntriesHoldSpans, SpansAt, Span
<1>7. ModulesHoldSpans' /\ NobodyWrites' BY <1>2 DEF ModulesHoldSpans, NobodyWrites, Up
<1>8. InputsOfOneCycle'
  <2>1. \A t : Delivered(t)' = Delivered(t) BY <1>2 DEF Delivered
  <2>2. changed' \/ OfOneCycle(IOmap.TxPDO) BY <1>2 DEF SteadyInv, InputsOfOneCycle
  <2>3. OfOneCycle(IOmap.TxPDO) => OfOneCycle(IOmap.TxPDO)' BY <1>2, <2>1 DEF OfOneCycle
  <2>4. ~Up' BY <1>2 DEF Up
  <2> QED BY <2>2, <2>3, <2>4 DEF InputsOfOneCycle
<1>9. JointsOfModules' BY <1>2 DEF SteadyInv, JointsOfModules, Called
<1> QED BY <1>1, <1>4, <1>5, <1>6, <1>7, <1>8, <1>9 DEF SteadyInv

LEMMA ConfigureModuleSteady == SteadyInv /\ ConfigureModule => SteadyInv'
<1> SUFFICES ASSUME SteadyInv, ConfigureModule PROVE SteadyInv'
  OBVIOUS
<1>1. SetUpInv' /\ SetUpInv /\ MailboxInv BY ConfigureModuleSetUp DEF SteadyInv, SetUpInv
<1> DEFINE info == slave_infos[step]
           m == info.name
           p == ec_slaves[Min(Candidates(info))].position
<1>2. /\ component = "configuring" /\ component' = component /\ step \in DOMAIN slave_infos
      /\ m \in slaves /\ position' = [position EXCEPT ![m] = p]
      /\ \/ initialized_slaves' = Append(initialized_slaves, m)
         \/ UNCHANGED initialized_slaves
      /\ UNCHANGED <<slave_infos, slaves_data_access, buffers, scans, changed, bus, layout,
                     working, IOmap, actuator_state, joint_state>>
  BY DEF ConfigureModule, AtModule, AttachHook, cycle
<1>3. /\ position \in [Name -> Position \cup {0}] /\ slaves \subseteq Name
      /\ initialized_slaves \in Seq(slaves)
  BY <1>1 DEF MailboxInv, TypedInv, TypeOK
<1>4. position[m] # 0 => position[m] = p
  BY <1>1, <1>2 DEF SteadyInv, SetUpInv, PlacedAtFirst
<1>5. \A x \in Called : x \in Called' /\ position'[x] = position[x]
  <2>1. \A x \in Called : x \in Name /\ position[x] # 0
    BY <1>1, <1>3 DEF MailboxInv, CalledIsPlaced, Called
  <2>2. Called \subseteq Called'
    <3>1. \A i \in DOMAIN initialized_slaves : /\ i \in DOMAIN initialized_slaves'
                                               /\ initialized_slaves'[i] = initialized_slaves[i]
      BY <1>2, <1>3
    <3> QED BY <3>1 DEF Called
  <2> HIDE DEF m, p
  <2> QED BY <1>2, <1>3, <1>4, <2>1, <2>2
<1>6. DistinctNames' BY <1>2 DEF SteadyInv, DistinctNames
<1>7. MappedOnce' BY <1>2 DEF SteadyInv, MappedOnce, BeforeStart, Up
<1>8. EntriesHoldSpans' BY <1>2 DEF SteadyInv, EntriesHoldSpans, SpansAt, Span
<1>9. ModulesHoldSpans' /\ NobodyWrites' BY <1>2 DEF ModulesHoldSpans, NobodyWrites, Up
<1>10. InputsOfOneCycle'
  <2>1. \A t : Delivered(t)' = Delivered(t) BY <1>2 DEF Delivered
  <2>2. changed' \/ OfOneCycle(IOmap.TxPDO) BY <1>2 DEF SteadyInv, InputsOfOneCycle
  <2>3. OfOneCycle(IOmap.TxPDO) => OfOneCycle(IOmap.TxPDO)' BY <1>2, <2>1 DEF OfOneCycle
  <2>4. ~Up' BY <1>2 DEF Up
  <2> QED BY <2>2, <2>3, <2>4 DEF InputsOfOneCycle
<1>11. JointsOfModules'
  <2> HIDE DEF m, p
  <2> QED BY <1>2, <1>5 DEF SteadyInv, JointsOfModules
<1> QED BY <1>1, <1>6, <1>7, <1>8, <1>9, <1>10, <1>11 DEF SteadyInv

\* What the invariant says of the vectors.
LEMMA SteadyVectors ==
  ASSUME SteadyInv
  PROVE  /\ VectorOK(working.RxPDO, Output) /\ VectorOK(working.TxPDO, Input)
         /\ IOmap.RxPDO \in Seq(Output) /\ IOmap.TxPDO \in Seq(Input)
         /\ DOMAIN working = Direction /\ DOMAIN IOmap = Direction
         /\ \A d \in Direction : /\ DOMAIN working[d].data = DOMAIN IOmap[d]
                                 /\ DOMAIN IOmap[d] = Group(layout, d)
<1>1. /\ TypeOK /\ Mapped /\ MappedOnce
  BY DEF SteadyInv, SetUpInv, MailboxInv, TypedInv
<1>2. /\ IOmap.RxPDO \in Seq(Output) /\ IOmap.TxPDO \in Seq(Input)
      /\ working.RxPDO.data \in Seq(Output) /\ working.TxPDO.data \in Seq(Input)
      /\ DOMAIN working = Direction /\ DOMAIN IOmap = Direction
      /\ \A d \in Direction : Len(working[d].data) = Len(IOmap[d])
  BY <1>1 DEF TypeOK, Mapped
<1>3. /\ DOMAIN working.RxPDO.data = DOMAIN IOmap.RxPDO
      /\ DOMAIN working.TxPDO.data = DOMAIN IOmap.TxPDO
  BY <1>2 DEF Direction
<1>4. \A d \in Direction : DOMAIN working[d].data = DOMAIN IOmap[d]
  BY <1>3 DEF Direction
<1> QED BY <1>1, <1>2, <1>4 DEF Mapped, MappedOnce

\* Inputs arrive for the same bytes in every cycle.
LEMMA DeliveredKept ==
  ASSUME DOMAIN IOmap'.TxPDO = DOMAIN IOmap.TxPDO, UNCHANGED layout
  PROVE  \A t : Delivered(t)' = Delivered(t)
  BY DEF Delivered

LEMMA ReadSteady == SteadyInv /\ Read => SteadyInv'
<1> SUFFICES ASSUME SteadyInv, Read PROVE SteadyInv'
  OBVIOUS
<1>1. SetUpInv'
  <2>1. SetUpInv /\ MailboxInv' BY NextMailbox DEF SteadyInv, SetUpInv, Next
  <2> QED BY <2>1, SetUpKept DEF Read, Up, modules, setup
<1>2. /\ Up /\ Up' /\ component' = component
      /\ IOmap' = IF component = "active" THEN [IOmap EXCEPT !.TxPDO = Delivered(time')]
                  ELSE IOmap
      /\ working' = IF component = "active" THEN [working EXCEPT !.TxPDO.data = IOmap'.TxPDO]
                    ELSE working
      /\ actuator_state' = [m \in Name |-> IF m \in Called THEN Sensed(working'.TxPDO, m)
                                           ELSE actuator_state[m]]
      /\ joint_state' = actuator_state'
      /\ time' = 1 - time
      /\ UNCHANGED <<slave_infos, initialized_slaves, position, buffers, scans, changed,
                     bus, layout, ec_slaves, slaves_data_access>>
  BY DEF Read, Up, modules, setup, Joint
<1>3. /\ DOMAIN working = Direction /\ DOMAIN IOmap = Direction
      /\ DOMAIN working.TxPDO.data = DOMAIN IOmap.TxPDO
      /\ working.TxPDO \in [block : Nat, capacity : Nat, data : Seq(Input)]
      /\ time' \in Time /\ time \in Time
  <2>1. time \in Time BY DEF SteadyInv, SetUpInv, MailboxInv, TypedInv, TypeOK
  <2>2. time' \in Time BY <1>2, <2>1 DEF Time
  <2> QED BY <2>1, <2>2, SteadyVectors DEF VectorOK, Direction
<1>4. /\ DOMAIN IOmap' = Direction /\ IOmap'.RxPDO = IOmap.RxPDO
      /\ DOMAIN IOmap'.TxPDO = DOMAIN IOmap.TxPDO
      /\ IOmap'.TxPDO = IF component = "active" THEN Delivered(time') ELSE IOmap.TxPDO
  <2>1. DOMAIN Delivered(time') = DOMAIN IOmap.TxPDO BY DEF Delivered
  <2> QED BY <1>2, <1>3, <2>1 DEF Direction
<1>5. /\ working'.RxPDO = working.RxPDO /\ working'.TxPDO.block = working.TxPDO.block
      /\ working'.TxPDO.data = IF component = "active" THEN IOmap'.TxPDO
                               ELSE working.TxPDO.data
  BY <1>2, <1>3 DEF Direction
<1>6. \A d \in Direction : working'[d].block = working[d].block
  BY <1>5 DEF Direction
<1>7. \A p : SpansAt(p)' = SpansAt(p) BY <1>2, <1>6 DEF SpansAt, Span
<1>8. DistinctNames' BY <1>2 DEF SteadyInv, DistinctNames
<1>9. MappedOnce'
  <2>1. \A d \in Direction : DOMAIN IOmap'[d] = DOMAIN IOmap[d] BY <1>4 DEF Direction
  <2> QED BY <1>2, <2>1 DEF SteadyInv, MappedOnce, BeforeStart
<1>10. EntriesHoldSpans' BY <1>2, <1>7 DEF SteadyInv, EntriesHoldSpans
<1>11. ModulesHoldSpans' BY <1>2, <1>7 DEF SteadyInv, ModulesHoldSpans, Called
<1>12. InputsOfOneCycle'
  <2>1. SUFFICES ASSUME ~changed
                 PROVE  OfOneCycle(IOmap.TxPDO)' /\ OfOneCycle(working.TxPDO.data)'
    BY <1>2 DEF InputsOfOneCycle
  <2>2. \A t : Delivered(t)' = Delivered(t) BY <1>2, <1>4, DeliveredKept
  <2>3. OfOneCycle(IOmap.TxPDO) /\ OfOneCycle(working.TxPDO.data)
    BY <1>2, <2>1 DEF SteadyInv, InputsOfOneCycle
  <2>4. CASE component = "active"
    BY <1>3, <1>4, <1>5, <2>2, <2>4 DEF OfOneCycle
  <2>5. CASE component # "active"
    BY <1>4, <1>5, <2>2, <2>3, <2>5 DEF OfOneCycle
  <2> QED BY <2>4, <2>5
<1>13. JointsOfModules'
  <2>1. SUFFICES ASSUME ~changed, NEW m \in Name, joint_state'[m] # {}
                 PROVE  m \in Called /\ position[m] \in DOMAIN layout
                        /\ layout[position[m]].TxPDO # {}
    BY <1>2 DEF JointsOfModules, Called
  <2>2. CASE m \notin Called
    BY <1>2, <2>1, <2>2 DEF SteadyInv, JointsOfModules
  <2>3. CASE m \in Called
    <3>1. Sensed(working'.TxPDO, m) # {} BY <1>2, <2>1, <2>3
    <3>2. buffers[m].TxPDO.bytes # {} BY <3>1 DEF Sensed
    <3>3. /\ position[m] \in DOMAIN layout
          /\ buffers[m].TxPDO.bytes = layout[position[m]].TxPDO
      <4>1. /\ position[m] \in DOMAIN layout
            /\ buffers[m] = [d \in Direction |-> [block |-> working[d].block,
                                                  bytes |-> layout[position[m]][d]]]
        BY <1>2, <2>1, <2>3, CalledIsMapped
      <4>2. "TxPDO" \in Direction BY DEF Direction
      <4> QED BY <4>1, <4>2
    <3> QED BY <2>3, <3>2, <3>3
  <2> QED BY <2>2, <2>3
<1>14. NobodyWrites'
  <2>1. \A b : Writers(b)' = Writers(b) BY <1>2, <1>5 DEF Writers
  <2> QED BY <1>2, <1>4, <1>5, <2>1 DEF SteadyInv, NobodyWrites
<1> QED BY <1>1, <1>8, <1>9, <1>10, <1>11, <1>12, <1>13, <1>14 DEF SteadyInv

LEMMA WriteSteady == SteadyInv /\ Write => SteadyInv'
<1> SUFFICES ASSUME SteadyInv, Write PROVE SteadyInv'
  OBVIOUS
<1>1. SetUpInv'
  <2>1. SetUpInv /\ MailboxInv' BY NextMailbox DEF SteadyInv, SetUpInv, Next
  <2> QED BY <2>1, SetUpKept DEF Write, Up, modules, setup
<1>2. /\ Up /\ Up' /\ component' = component
      /\ working' = [working EXCEPT !.RxPDO.data = Written(Commands)]
      /\ IOmap' = IF component = "active"
                  THEN [IOmap EXCEPT !.RxPDO = working'.RxPDO.data] ELSE IOmap
      /\ UNCHANGED <<slave_infos, initialized_slaves, position, buffers, scans, changed,
                     bus, layout, ec_slaves, slaves_data_access, actuator_state,
                     joint_state>>
  BY DEF Write, Up, modules, setup
<1>3. /\ DOMAIN working = Direction /\ DOMAIN IOmap = Direction
      /\ DOMAIN working.RxPDO.data = DOMAIN IOmap.RxPDO
      /\ working.RxPDO \in [block : Nat, capacity : Nat, data : Seq(Output)]
  BY SteadyVectors DEF VectorOK, Direction
<1>4. /\ working'.TxPDO = working.TxPDO /\ working'.RxPDO.block = working.RxPDO.block
      /\ working'.RxPDO.data = Written(Commands)
  BY <1>2, <1>3 DEF Direction
<1>5. /\ DOMAIN IOmap' = Direction /\ IOmap'.TxPDO = IOmap.TxPDO
      /\ DOMAIN IOmap'.RxPDO = DOMAIN IOmap.RxPDO
      /\ IOmap'.RxPDO = IF component = "active" THEN Written(Commands) ELSE IOmap.RxPDO
  <2>1. DOMAIN Written(Commands) = DOMAIN IOmap.RxPDO BY <1>3 DEF Written
  <2> QED BY <1>2, <1>3, <1>4, <2>1 DEF Direction
<1>6. \A d \in Direction : working'[d].block = working[d].block
  BY <1>4 DEF Direction
<1>7. \A p : SpansAt(p)' = SpansAt(p) BY <1>2, <1>6 DEF SpansAt, Span
<1>8. DistinctNames' BY <1>2 DEF SteadyInv, DistinctNames
<1>9. MappedOnce'
  <2>1. \A d \in Direction : DOMAIN IOmap'[d] = DOMAIN IOmap[d] BY <1>5 DEF Direction
  <2> QED BY <1>2, <2>1 DEF SteadyInv, MappedOnce, BeforeStart
<1>10. EntriesHoldSpans' BY <1>2, <1>7 DEF SteadyInv, EntriesHoldSpans
<1>11. ModulesHoldSpans' BY <1>2, <1>7 DEF SteadyInv, ModulesHoldSpans, Called
<1>12. InputsOfOneCycle'
  <2>1. \A t : Delivered(t)' = Delivered(t) BY <1>2, <1>5, DeliveredKept
  <2> QED BY <1>2, <1>4, <1>5, <2>1 DEF SteadyInv, InputsOfOneCycle, OfOneCycle
<1>13. JointsOfModules' BY <1>2 DEF SteadyInv, JointsOfModules, Called
<1>14. NobodyWrites'
  <2>1. \A b : Writers(b)' = Writers(b) BY <1>2, <1>4 DEF Writers
  <2>2. SUFFICES ASSUME ~changed, NEW b \in DOMAIN IOmap.RxPDO, Writers(b) = {}
                 PROVE  Written(Commands)[b] = IOmap'.RxPDO[b]
    BY <1>2, <1>4, <1>5, <2>1 DEF NobodyWrites
  <2>3. Written(Commands)[b] = working.RxPDO.data[b] BY <1>3, <2>2 DEF Written
  <2>4. working.RxPDO.data[b] = IOmap.RxPDO[b]
    BY <1>2, <2>2 DEF SteadyInv, NobodyWrites
  <2> QED BY <1>5, <2>3, <2>4
<1> QED BY <1>1, <1>8, <1>9, <1>10, <1>11, <1>12, <1>13, <1>14 DEF SteadyInv

LEMMA ActivateSteady == SteadyInv /\ Activate => SteadyInv'
<1> SUFFICES ASSUME SteadyInv, Activate PROVE SteadyInv'
  OBVIOUS
<1>1. SetUpInv'
  <2>1. SetUpInv /\ MailboxInv' BY NextMailbox DEF SteadyInv, SetUpInv, Next, Lifecycle
  <2> QED BY <2>1, SetUpKept DEF Activate, Up, modules, setup
<1>2. /\ Up /\ component = "inactive" /\ component' # "configuring"
      /\ IOmap' \in {IOmap, [IOmap EXCEPT !.TxPDO = Delivered(time)]}
      /\ UNCHANGED <<slave_infos, initialized_slaves, position, buffers, scans, changed,
                     bus, layout, ec_slaves, slaves_data_access, working,
                     actuator_state, joint_state>>
  BY DEF Activate, Up, modules, setup, cycle
<1>3. DOMAIN IOmap = Direction /\ time \in Time
  BY SteadyVectors DEF SteadyInv, SetUpInv, MailboxInv, TypedInv, TypeOK
<1>4. /\ DOMAIN IOmap' = Direction /\ IOmap'.RxPDO = IOmap.RxPDO
      /\ DOMAIN IOmap'.TxPDO = DOMAIN IOmap.TxPDO
      /\ IOmap'.TxPDO \in {IOmap.TxPDO, Delivered(time)}
  <2>1. DOMAIN Delivered(time) = DOMAIN IOmap.TxPDO BY DEF Delivered
  <2> QED BY <1>2, <1>3, <2>1 DEF Direction
<1>5. DistinctNames' BY <1>2 DEF SteadyInv, DistinctNames
<1>6. MappedOnce'
  <2>1. \A d \in Direction : DOMAIN IOmap'[d] = DOMAIN IOmap[d] BY <1>4 DEF Direction
  <2> QED BY <1>2, <2>1 DEF SteadyInv, MappedOnce, BeforeStart
<1>7. EntriesHoldSpans' BY <1>2 DEF SteadyInv, EntriesHoldSpans, SpansAt, Span
<1>8. ModulesHoldSpans' BY <1>2, SMTT(30) DEF SteadyInv, ModulesHoldSpans, SpansAt, Span, Called
<1>9. InputsOfOneCycle'
  <2>1. \A t : Delivered(t)' = Delivered(t) BY <1>2, <1>4, DeliveredKept
  <2> QED BY <1>2, <1>3, <1>4, <2>1 DEF SteadyInv, InputsOfOneCycle, OfOneCycle
<1>10. JointsOfModules' BY <1>2 DEF SteadyInv, JointsOfModules, Called
<1>11. NobodyWrites'
  <2>1. \A b : Writers(b)' = Writers(b) BY <1>2 DEF Writers
  <2> QED BY <1>2, <1>4, <2>1 DEF SteadyInv, NobodyWrites
<1> QED BY <1>1, <1>5, <1>6, <1>7, <1>8, <1>9, <1>10, <1>11 DEF SteadyInv

LEMMA StartBusSteady == SteadyInv /\ StartBus => SteadyInv'
<1> SUFFICES ASSUME SteadyInv, StartBus PROVE SteadyInv'
  OBVIOUS
<1>1. SetUpInv' /\ SetUpInv /\ MailboxInv' /\ MailboxInv
  BY StartBusSetUp DEF SteadyInv, SetUpInv
<1>2. /\ component = "configuring" /\ component' \in {"inactive", "unconfigured", "finalized"}
      /\ layout' \in Layouts /\ Len(layout') = Len(bus)
      /\ changed' = (changed \/ (scans > 1 /\ layout' # layout))
      /\ IOmap' = [d \in Direction |->
                     [b \in 1..Cardinality(Group(layout', d)) |->
                        IF b \in DOMAIN IOmap[d] THEN IOmap[d][b] ELSE Untouched[d]]]
      /\ working' = [d \in Direction |-> Resize(working[d], IOmap'[d])]
      /\ slaves_data_access' = DataAccess(working', layout')
      /\ component' = "inactive" =>
           buffers' = [m \in Name |-> IF m \in Called THEN Assign(slaves_data_access', m)
                                      ELSE buffers[m]]
      /\ UNCHANGED <<slave_infos, initialized_slaves, position, scans, bus, ec_slaves,
                     actuator_state, joint_state>>
  BY DEF StartBus
<1>3. /\ ec_slaves \in Seq(Entry) /\ slaves_data_access \in Seq(AccessType)
      /\ scans \in Nat /\ scans > 0 /\ changed \in BOOLEAN
  BY <1>1, <1>2, BusAssumption
     DEF MailboxInv, NothingFoundYet, TypedInv, TypeOK, Entry, AccessType, BuffersType, SpanType
<1>4. /\ VectorOK(working.RxPDO, Output) /\ VectorOK(working.TxPDO, Input)
      /\ VectorOK(working'.RxPDO, Output) /\ VectorOK(working'.TxPDO, Input)
      /\ IOmap'.RxPDO \in Seq(Output) /\ IOmap'.TxPDO \in Seq(Input)
      /\ DOMAIN IOmap = Direction
  BY <1>1 DEF MailboxInv, TypedInv, TypeOK, Mapped
<1>5. /\ working'.RxPDO = Resize(working.RxPDO, IOmap'.RxPDO)
      /\ working'.TxPDO = Resize(working.TxPDO, IOmap'.TxPDO)
  BY <1>2 DEF Direction
<1>6. working'.RxPDO.data = IOmap'.RxPDO /\ working'.TxPDO.data = IOmap'.TxPDO
  BY <1>4, <1>5, ResizeKeeps
<1>7. \A d \in Direction : DOMAIN IOmap'[d] = Group(layout', d)
  BY <1>2, LayoutAssumption
<1>8. MappedOnce'
  <2>1. ~BeforeStart' /\ (Up' => scans' > 0) BY <1>2, <1>3 DEF BeforeStart, Up
  <2> QED BY <1>2, <1>7, <2>1 DEF MappedOnce
<1>9. ASSUME BeforeStart
      PROVE  /\ layout = <<>> /\ slaves_data_access = <<>>
             /\ \A d \in Direction : \A b \in DOMAIN IOmap'[d] : IOmap'[d][b] = Untouched[d]
  <2>1. layout = <<>> /\ slaves_data_access = <<>> BY <1>9 DEF SteadyInv, MappedOnce
  <2>2. \A d \in Direction : DOMAIN IOmap[d] = {}
    BY <2>1 DEF SteadyInv, MappedOnce, Group
  <2> QED BY <1>2, <2>1, <2>2
<1>10. ASSUME ~BeforeStart, ~changed'
       PROVE  /\ layout' = layout
              /\ IOmap'.RxPDO = IOmap.RxPDO /\ IOmap'.TxPDO = IOmap.TxPDO
              /\ \A d \in Direction : working'[d].block = working[d].block
  <2>1. scans > 1 /\ layout' = layout
    <3>1. component = "configuring" BY <1>2
    <3>2. scans > 1 BY <1>3, <1>10, <3>1 DEF BeforeStart
    <3>3. changed' = (changed \/ (scans > 1 /\ layout' # layout)) BY <1>2
    <3> QED BY <1>10, <3>2, <3>3
  <2>2. \A d \in Direction : DOMAIN IOmap[d] = 1..Cardinality(Group(layout', d))
    BY <1>2, <2>1, LayoutAssumption DEF SteadyInv, MappedOnce
  <2>3. /\ IOmap.RxPDO \in Seq(Output) /\ IOmap.TxPDO \in Seq(Input)
        /\ Len(working.RxPDO.data) = Len(IOmap.RxPDO)
        /\ Len(working.TxPDO.data) = Len(IOmap.TxPDO)
    BY <1>1 DEF MailboxInv, TypedInv, TypeOK, Mapped, Direction
  <2>4. IOmap'.RxPDO = IOmap.RxPDO /\ IOmap'.TxPDO = IOmap.TxPDO
    <3>1. \A d \in Direction : IOmap'[d] = [b \in DOMAIN IOmap[d] |-> IOmap[d][b]]
      BY <1>2, <2>2
    <3>2. /\ IOmap.RxPDO = [b \in DOMAIN IOmap.RxPDO |-> IOmap.RxPDO[b]]
          /\ IOmap.TxPDO = [b \in DOMAIN IOmap.TxPDO |-> IOmap.TxPDO[b]]
      BY <2>3
    <3>3. "RxPDO" \in Direction /\ "TxPDO" \in Direction BY DEF Direction
    <3> QED BY <3>1, <3>2, <3>3
  <2>6. /\ Len(IOmap'.RxPDO) <= working.RxPDO.capacity
        /\ Len(IOmap'.TxPDO) <= working.TxPDO.capacity
    BY <1>4, <2>3, <2>4 DEF VectorOK
  <2>7. /\ working'.RxPDO.block = working.RxPDO.block
        /\ working'.TxPDO.block = working.TxPDO.block
    BY <1>4, <1>5, <2>6 DEF Resize, VectorOK
  <2> QED BY <2>1, <2>4, <2>7 DEF Direction
<1>11. DistinctNames' BY <1>2 DEF SteadyInv, DistinctNames
<1> DEFINE Spans(q) == [d \in Direction |-> Span(working', layout', q, d)]
<1>12. EntriesHoldSpans'
  <2>1. SUFFICES ASSUME ~changed', NEW i \in DOMAIN slaves_data_access'
                 PROVE  slaves_data_access'[i].buffers
                          = Spans(slaves_data_access'[i].position)
    BY DEF EntriesHoldSpans, SpansAt
  <2> DEFINE new == [j \in DOMAIN ec_slaves |->
                       Access(working', layout', ec_slaves[j].position)]
  <2>2. new \in Seq(AccessType) /\ Len(new) = Len(ec_slaves)
    <3>1. \A d \in Direction : working'[d].block \in Nat
      BY <1>4 DEF VectorOK, Direction
    <3>2. \A j \in DOMAIN ec_slaves :
            Access(working', layout', ec_slaves[j].position) \in AccessType
      <4>1. ASSUME NEW j \in DOMAIN ec_slaves
            PROVE Access(working', layout', ec_slaves[j].position) \in AccessType
        <5>1. ec_slaves[j] \in Entry BY <1>3
        <5>2. ec_slaves[j].position \in Position BY <5>1 DEF Entry
        <5>3. \A d \in Direction :
                Span(working', layout', ec_slaves[j].position, d) \in SpanType
          BY <1>2, <3>1, SpanTyped
        <5> QED BY <5>2, <5>3 DEF Access, AccessType, BuffersType
      <4> QED BY <4>1
    <3> QED BY <1>3, <3>2
  <2>3. slaves_data_access' = slaves_data_access \o new BY <1>2 DEF DataAccess
  <2>4. \A j \in DOMAIN ec_slaves : new[j].buffers = Spans(new[j].position)
    BY DEF Access
  <2> HIDE DEF new
  <2>5. /\ Len(slaves_data_access') = Len(slaves_data_access) + Len(new)
        /\ \A j \in 1..Len(slaves_data_access) :
             slaves_data_access'[j] = slaves_data_access[j]
        /\ \A j \in 1..Len(new) :
             slaves_data_access'[Len(slaves_data_access) + j] = new[j]
        /\ slaves_data_access' \in Seq(AccessType)
    BY <1>3, <2>2, <2>3, EntriesAppended
  <2>6. Len(slaves_data_access) \in Nat /\ Len(new) \in Nat BY <1>3, <2>2
  <2>7. CASE i <= Len(slaves_data_access)
    <3>1. i \in 1..Len(slaves_data_access) BY <2>1, <2>5, <2>6, <2>7
    <3>2. slaves_data_access'[i] = slaves_data_access[i] BY <2>5, <3>1
    <3>3. ~BeforeStart
      <4>1. slaves_data_access # <<>> BY <1>3, <3>1
      <4> QED BY <1>9, <4>1
    <3>4. UNCHANGED layout /\ \A d \in Direction : working'[d].block = working[d].block
      BY <1>10, <2>1, <3>3
    <3>5. \A p : Spans(p) = SpansAt(p) BY <3>4 DEF SpansAt, Span
    <3>6. ~changed /\ i \in DOMAIN slaves_data_access BY <1>2, <1>3, <2>1, <3>1
    <3>7. slaves_data_access[i].buffers = SpansAt(slaves_data_access[i].position)
      BY <3>6 DEF SteadyInv, EntriesHoldSpans
    <3> QED BY <3>2, <3>5, <3>7
  <2>8. CASE ~(i <= Len(slaves_data_access))
    <3>1. PICK j \in 1..Len(new) : i = Len(slaves_data_access) + j
      <4>1. i \in 1..(Len(slaves_data_access) + Len(new)) BY <2>1, <2>5
      <4>2. i - Len(slaves_data_access) \in 1..Len(new) BY <2>6, <2>8, <4>1
      <4> QED BY <2>6, <4>1, <4>2
    <3>2. slaves_data_access'[i] = new[j] BY <2>5, <3>1
    <3>3. j \in DOMAIN ec_slaves BY <1>3, <2>2, <3>1
    <3> QED BY <2>4, <3>2, <3>3
  <2> QED BY <2>7, <2>8
<1>13. ModulesHoldSpans'
  <2>1. SUFFICES ASSUME Up', ~changed', NEW m \in Called'
                 PROVE  buffers'[m] = Spans(position[m])
    BY <1>2 DEF ModulesHoldSpans, SpansAt
  <2>2. component' = "inactive" /\ m \in Called /\ m \in Name
    <3>1. m \in Called BY <1>2, <2>1 DEF Called
    <3>2. initialized_slaves \in Seq(slaves) /\ slaves \subseteq Name
      BY <1>1 DEF MailboxInv, TypedInv, TypeOK
    <3> QED BY <1>2, <2>1, <3>1, <3>2 DEF Up, Called
  <2> DEFINE entries == {i \in DOMAIN slaves_data_access' :
                           slaves_data_access'[i].position = position[m]}
  <2>3. buffers'[m] = IF entries = {} THEN buffers[m]
                      ELSE slaves_data_access'[Min(entries)].buffers
    BY <1>2, <2>2 DEF Assign
  <2>4. MailboxOfOwnSlave' BY <1>1, MailboxInvImplies, PTL
  <2>5. position[m] \in entries BY <1>2, <2>1, <2>4 DEF MailboxOfOwnSlave
  <2>6. entries \in SUBSET Nat
    <3>1. slaves_data_access' \in
            Seq([position : Position,
                 buffers : [Direction -> [block : Nat, bytes : SUBSET Nat]]])
      BY <1>1 DEF MailboxInv, TypedInv, TypeOK
    <3> QED BY <3>1
  <2>7. Min(entries) \in entries
    <3>1. entries # {} BY <2>5
    <3> HIDE DEF entries
    <3> QED BY <2>6, <3>1, MinOfNaturals
  <2>8. /\ Min(entries) \in DOMAIN slaves_data_access'
        /\ slaves_data_access'[Min(entries)].position = position[m]
    BY <2>7
  <2>9. \A i \in DOMAIN slaves_data_access' :
          slaves_data_access'[i].buffers = Spans(slaves_data_access'[i].position)
    BY <1>12, <2>1 DEF EntriesHoldSpans, SpansAt
  <2> HIDE DEF entries, Spans
  <2> QED BY <2>3, <2>5, <2>8, <2>9
<1>14. InputsOfOneCycle'
  <2>1. SUFFICES ASSUME ~changed' PROVE OfOneCycle(IOmap.TxPDO)'
    BY <1>6 DEF InputsOfOneCycle
  <2>2. CASE BeforeStart BY <1>9, <2>2 DEF OfOneCycle, Direction
  <2>3. CASE ~BeforeStart
    <3>1. layout' = layout /\ IOmap'.TxPDO = IOmap.TxPDO BY <1>10, <2>1, <2>3
    <3>2. \A t : Delivered(t)' = Delivered(t) BY <3>1, DeliveredKept
    <3>3. OfOneCycle(IOmap.TxPDO) BY <1>2, <2>1 DEF SteadyInv, InputsOfOneCycle
    <3> QED BY <3>1, <3>2, <3>3 DEF OfOneCycle
  <2> QED BY <2>2, <2>3
<1>15. JointsOfModules'
  <2>1. joint_state' = actuator_state' BY <1>2 DEF SteadyInv, JointsOfModules
  <2>2. SUFFICES ASSUME ~changed', NEW m \in Name, joint_state[m] # {}
                 PROVE  m \in Called /\ position[m] \in DOMAIN layout'
                        /\ layout'[position[m]].TxPDO # {}
    BY <1>2, <2>1 DEF JointsOfModules, Called
  <2>3. m \in Called /\ position[m] \in DOMAIN layout /\ layout[position[m]].TxPDO # {}
    BY <1>2, <2>2 DEF SteadyInv, JointsOfModules
  <2>4. ~BeforeStart BY <1>9, <2>3
  <2> QED BY <1>10, <2>2, <2>3, <2>4
<1>16. NobodyWrites' BY <1>6 DEF NobodyWrites
<1> QED BY <1>1, <1>8, <1>11, <1>12, <1>13, <1>14, <1>15, <1>16 DEF SteadyInv

LEMMA NextSteady == SteadyInv /\ [Next]_vars => SteadyInv'
<1> SUFFICES ASSUME SteadyInv, [Next]_vars PROVE SteadyInv'
  OBVIOUS
<1>1. SetUpInv' BY NextSetUp DEF SteadyInv
<1>2. CASE InitMaster BY <1>2, InitMasterSteady
<1>3. CASE ConfigureModule BY <1>3, ConfigureModuleSteady
<1>4. CASE StartBus BY <1>4, StartBusSteady
<1>5. CASE Activate BY <1>5, ActivateSteady
<1>6. CASE Read BY <1>6, ReadSteady
<1>7. CASE Write BY <1>7, WriteSteady
<1>8. CASE LoadModules
  BY <1>1, <1>8, SteadyKept DEF LoadModules, Up, setup, cycle
<1>9. CASE SkipModule
  BY <1>1, <1>9, SteadyKept DEF SkipModule, AtModule, Up, modules, setup, cycle
<1>10. CASE Leave
  BY <1>1, <1>10, SteadyKept DEF Leave, Up, modules, setup, cycle
<1>11. CASE UNCHANGED vars
  BY <1>1, <1>11, SteadyKept DEF vars, Up, modules, setup, cycle
<1> QED BY <1>2, <1>3, <1>4, <1>5, <1>6, <1>7, <1>8, <1>9, <1>10, <1>11
        DEF Next, Lifecycle, Finalized

-----------------------------------------------------------------------------
(* What the bytes of one slave are marked with *)

LEMMA WritersOf ==
  ASSUME SteadyInv, ~changed, Up, NEW p \in DOMAIN layout, NEW b \in layout[p].RxPDO,
         layout \in Layouts
  PROVE  Writers(b) = {i \in DOMAIN initialized_slaves : position[initialized_slaves[i]] = p}
<1>1. SUFFICES ASSUME NEW i \in DOMAIN initialized_slaves
               PROVE  LET span == buffers[initialized_slaves[i]].RxPDO
                      IN (span.block = working.RxPDO.block /\ b \in span.bytes)
                           <=> position[initialized_slaves[i]] = p
  BY DEF Writers
<1> DEFINE m == initialized_slaves[i]
<1>2. m \in Called BY DEF Called
<1>3. /\ position[m] \in DOMAIN layout
      /\ buffers[m] = [d \in Direction |-> [block |-> working[d].block,
                                            bytes |-> layout[position[m]][d]]]
  BY <1>2, CalledIsMapped
<1>4. buffers[m].RxPDO = [block |-> working.RxPDO.block, bytes |-> layout[position[m]].RxPDO]
  <2>1. "RxPDO" \in Direction BY DEF Direction
  <2> QED BY <1>3, <2>1
<1>5. position[m] # p => layout[position[m]].RxPDO \cap layout[p].RxPDO = {}
  BY <1>3, LayoutAssumption DEF Direction
<1> QED BY <1>4, <1>5

\* The module that set a slave up, last in initialized_slaves of those at its
\* position, writes each of its bytes last.
LEMMA SetUpByLastWriter ==
  ASSUME SteadyInv, ~changed, Up, NEW p \in DOMAIN layout, set_up[p] # Nobody,
         NEW b \in layout[p].RxPDO
  PROVE  Writers(b) # {} /\ initialized_slaves[Max(Writers(b))] = set_up[p]
<1> DEFINE at == {i \in DOMAIN initialized_slaves : position[initialized_slaves[i]] = p}
<1>1. layout \in Layouts \cup {<<>>} /\ Len(layout) <= MaxSlaves
  BY DEF SteadyInv, SetUpInv, MailboxInv, TypedInv, TypeOK, Mapped
<1>2. layout \in Layouts BY <1>1
<1>3. p \in Position BY <1>1, <1>2, LayoutAssumption, BusAssumption DEF Position
<1>4. set_up[p] = LastAt(p) BY <1>3 DEF SteadyInv, SetUpInv, SetUpOfLast
<1>5. LastAt(p) = IF at = {} THEN Nobody ELSE initialized_slaves[Max(at)] BY DEF LastAt
<1>6. Writers(b) = at BY <1>2, WritersOf
<1> HIDE DEF at
<1> QED BY <1>4, <1>5, <1>6

LEMMA SteadyImplies == SteadyInv => SetUpByDriver
BY SetUpByLastWriter DEF SetUpByDriver

\* slave_infos is read from the URDF once.
LEMMA NamesKept == [Next]_vars => DistinctNames' = DistinctNames
<1> SUFFICES ASSUME [Next]_vars PROVE slave_infos' = slave_infos
  BY DEF DistinctNames
<1> QED BY DEF Next, Lifecycle, LoadModules, InitMaster, SkipModule, ConfigureModule,
               StartBus, Activate, Leave, Read, Write, Finalized, vars, modules

\* However often the driver is configured and whichever modules refuse: while
\* the bus is the one first found, the module whose hook sets a slave up is the
\* last to write its outputs.
THEOREM SlaveSetUpByItsDriver == Spec => []SetUpByDriver
<1> DEFINE Inv == DistinctNames => SteadyInv
<1>1. Init => Inv BY InitSteady
<1>2. Inv /\ [Next]_vars => Inv' BY NextSteady, NamesKept
<1>3. Inv => SetUpByDriver BY SteadyImplies DEF SetUpByDriver
<1> QED BY <1>1, <1>2, <1>3, PTL DEF Spec

\* After write() the outputs of a slave are marked by its module.
LEMMA WrittenAt ==
  ASSUME SteadyInv, ~changed, Up, NEW p \in DOMAIN layout, NEW b \in layout[p].RxPDO
  PROVE  /\ b \in DOMAIN Written(Commands) /\ b \in DOMAIN IOmap.RxPDO
         /\ Written(Commands)[b] = IF LastAt(p) = Nobody THEN IOmap.RxPDO[b]
                                   ELSE [module |-> LastAt(p), at |-> time]
<1>1. layout \in Layouts
  BY DEF SteadyInv, SetUpInv, MailboxInv, TypedInv, TypeOK
<1> DEFINE at == {i \in DOMAIN initialized_slaves : position[initialized_slaves[i]] = p}
<1>2. Writers(b) = at BY <1>1, WritersOf
<1>3. LastAt(p) = IF at = {} THEN Nobody ELSE initialized_slaves[Max(at)] BY DEF LastAt
<1>4. b \in DOMAIN IOmap.RxPDO /\ b \in DOMAIN working.RxPDO.data
  <2>1. b \in Group(layout, "RxPDO") BY DEF Group
  <2> QED BY <2>1, SteadyVectors DEF Direction
<1>5. Written(Commands)[b] = IF at = {} THEN working.RxPDO.data[b]
                             ELSE [module |-> initialized_slaves[Max(at)],
                                   at |-> Commands[initialized_slaves[Max(at)]]]
  BY <1>2, <1>4 DEF Written
<1>6. b \in DOMAIN Written(Commands) BY <1>4 DEF Written
<1>7. CASE at = {}
  <2>1. working.RxPDO.data[b] = IOmap.RxPDO[b]
    BY <1>2, <1>4, <1>7 DEF SteadyInv, NobodyWrites
  <2> QED BY <1>3, <1>4, <1>5, <1>6, <1>7, <2>1
<1>8. CASE at # {}
  <2>1. initialized_slaves \in Seq(slaves) /\ slaves \subseteq Name
    BY DEF SteadyInv, SetUpInv, MailboxInv, TypedInv, TypeOK
  <2>2. at \in SUBSET (0..Len(initialized_slaves)) /\ Len(initialized_slaves) \in Nat
    BY <2>1
  <2>3. Max(at) \in at
    <3> HIDE DEF at
    <3> QED BY <1>8, <2>2, MaxOfBounded
  <2>4. initialized_slaves[Max(at)] \in Name BY <2>1, <2>3
  <2> HIDE DEF at
  <2>5. LastAt(p) \in Name /\ LastAt(p) = initialized_slaves[Max(at)] BY <1>3, <1>8, <2>4
  <2>6. LastAt(p) # Nobody BY <2>5, NobodyAssumption
  <2>7. Commands[LastAt(p)] = time BY <2>5 DEF Commands
  <2> QED BY <1>4, <1>5, <1>6, <1>8, <2>5, <2>6, <2>7
<1> QED BY <1>7, <1>8

\* The inputs of a slave are marked by it.
LEMMA DeliveredAt ==
  ASSUME SteadyInv, NEW p \in DOMAIN layout, NEW b \in layout[p].TxPDO, NEW t
  PROVE  b \in DOMAIN Delivered(t) /\ Delivered(t)[b] = [slave |-> p, at |-> t]
<1>1. layout \in Layouts
  BY DEF SteadyInv, SetUpInv, MailboxInv, TypedInv, TypeOK
<1>2. b \in DOMAIN IOmap.TxPDO
  <2>1. b \in Group(layout, "TxPDO") BY DEF Group
  <2> QED BY <2>1, SteadyVectors DEF Direction
<1>3. \A q \in DOMAIN layout : b \in layout[q].TxPDO => q = p
  BY <1>1, LayoutAssumption DEF Direction
<1>4. (CHOOSE q \in DOMAIN layout : b \in layout[q].TxPDO) = p BY <1>3
<1> QED BY <1>2, <1>4 DEF Delivered

\* What a module finds is what its slave delivered.
LEMMA SensedAt ==
  ASSUME SteadyInv, ~changed, Up, NEW m \in Called, NEW vector,
         vector.block = working.TxPDO.block, DOMAIN vector.data = DOMAIN IOmap.TxPDO
  PROVE  Sensed(vector, m) = {vector.data[b] : b \in layout[position[m]].TxPDO}
<1>1. /\ position[m] \in DOMAIN layout
      /\ buffers[m] = [d \in Direction |-> [block |-> working[d].block,
                                            bytes |-> layout[position[m]][d]]]
  BY CalledIsMapped
<1>2. buffers[m].TxPDO = [block |-> working.TxPDO.block, bytes |-> layout[position[m]].TxPDO]
  <2>1. "TxPDO" \in Direction BY DEF Direction
  <2> QED BY <1>1, <2>1
<1>3. layout[position[m]].TxPDO \subseteq DOMAIN IOmap.TxPDO
  <2>1. layout[position[m]].TxPDO \subseteq Group(layout, "TxPDO") BY <1>1 DEF Group
  <2> QED BY <2>1, SteadyVectors DEF Direction
<1> QED BY <1>2, <1>3 DEF Sensed

-----------------------------------------------------------------------------
(* What FieldbusDriver sees of a state *)

PhaseSeen == CASE changed -> "void"
               [] ~changed /\ component = "inactive" -> "up"
               [] ~changed /\ component = "active" -> "running"
               [] OTHER -> "down"
DrivesSeen == [p \in Position |-> IF changed THEN Nobody ELSE DrivenBy(p)]
SensesSeen == [m \in Name |-> IF changed THEN 0 ELSE SensedBy(m)]
TimeSeen == IF changed THEN 0 ELSE time
OutputsSeen == [p \in Position |-> IF changed THEN {} ELSE Marks(p)]
JointSeen == [m \in Name |-> IF changed THEN {} ELSE joint_state[m]]
Seen == <<PhaseSeen, DrivesSeen, SensesSeen, TimeSeen, OutputsSeen, JointSeen>>

LEMMA PhaseOf ==
  /\ changed => PhaseSeen = "void"
  /\ ~changed /\ component = "inactive" => PhaseSeen = "up"
  /\ ~changed /\ component = "active" => PhaseSeen = "running"
  /\ ~changed /\ ~Up => PhaseSeen = "down"
  BY DEF PhaseSeen, Up

LEMMA FieldbusVars == Fieldbus!vars = Seen /\ Fieldbus!vars' = Seen'
  BY DEF Fieldbus!vars, Seen, PhaseSeen, DrivesSeen, SensesSeen, TimeSeen, OutputsSeen,
         JointSeen

LEMMA FieldbusInit ==
  Fieldbus!Init <=>
    /\ PhaseSeen = "down" /\ DrivesSeen = [p \in Position |-> Nobody]
    /\ SensesSeen = [m \in Name |-> 0] /\ TimeSeen = 0
    /\ OutputsSeen = [p \in Position |-> {}] /\ JointSeen = [m \in Name |-> {}]
  BY DEF Fieldbus!Init, Fieldbus!NoDrives, Fieldbus!NoSenses, PhaseSeen, DrivesSeen,
         SensesSeen, TimeSeen, OutputsSeen, JointSeen

LEMMA FieldbusAttach ==
  Fieldbus!Attach <=>
    /\ PhaseSeen = "down"
    /\ \/ /\ PhaseSeen' = "up"
          /\ DrivesSeen' \in [Position -> Name \cup {Nobody}]
          /\ SensesSeen' \in [Name -> Position \cup {0}]
       \/ UNCHANGED <<PhaseSeen, DrivesSeen, SensesSeen>>
    /\ DOMAIN OutputsSeen' = Position
    /\ \A p \in Position :
         OutputsSeen'[p] \in {OutputsSeen[p], {}, {Untouched.RxPDO}}
    /\ UNCHANGED <<TimeSeen, JointSeen>>
  BY DEF Fieldbus!Attach, Fieldbus!Untouched, Untouched, PhaseSeen, DrivesSeen,
         SensesSeen, TimeSeen, OutputsSeen, JointSeen

LEMMA FieldbusRun ==
  Fieldbus!Run <=>
    /\ PhaseSeen = "up" /\ PhaseSeen' = "running"
    /\ UNCHANGED <<DrivesSeen, SensesSeen, TimeSeen, OutputsSeen, JointSeen>>
  BY DEF Fieldbus!Run, PhaseSeen, DrivesSeen, SensesSeen, TimeSeen, OutputsSeen, JointSeen

LEMMA FieldbusHalt ==
  Fieldbus!Halt <=>
    /\ PhaseSeen = "running" /\ PhaseSeen' = "up"
    /\ UNCHANGED <<DrivesSeen, SensesSeen, TimeSeen, OutputsSeen, JointSeen>>
  BY DEF Fieldbus!Halt, PhaseSeen, DrivesSeen, SensesSeen, TimeSeen, OutputsSeen, JointSeen

LEMMA FieldbusDetach ==
  Fieldbus!Detach <=>
    /\ PhaseSeen # "void" /\ PhaseSeen' = "down"
    /\ DrivesSeen' = [p \in Position |-> Nobody] /\ SensesSeen' = [m \in Name |-> 0]
    /\ UNCHANGED <<TimeSeen, OutputsSeen, JointSeen>>
  BY DEF Fieldbus!Detach, Fieldbus!NoDrives, Fieldbus!NoSenses, PhaseSeen, DrivesSeen,
         SensesSeen, TimeSeen, OutputsSeen, JointSeen

LEMMA FieldbusSense ==
  Fieldbus!Sense <=>
    /\ PhaseSeen \in {"up", "running"} /\ TimeSeen' = 1 - TimeSeen
    /\ \/ PhaseSeen = "running" /\ JointSeen' = [m \in Name |->
            IF SensesSeen[m] = 0 THEN JointSeen[m]
            ELSE {[slave |-> SensesSeen[m], at |-> TimeSeen']}]
       \/ PhaseSeen = "up" /\ \E t \in Time : JointSeen' = [m \in Name |->
            IF SensesSeen[m] = 0 THEN JointSeen[m]
            ELSE {[slave |-> SensesSeen[m], at |-> t]}]
       \/ PhaseSeen = "up" /\ JointSeen' = [m \in Name |->
            IF SensesSeen[m] = 0 THEN JointSeen[m] ELSE {Untouched.TxPDO}]
    /\ UNCHANGED <<PhaseSeen, DrivesSeen, SensesSeen, OutputsSeen>>
  BY DEF Fieldbus!Sense, Fieldbus!Time, Time, Untouched, PhaseSeen, DrivesSeen,
         SensesSeen, TimeSeen, OutputsSeen, JointSeen

LEMMA FieldbusDrive ==
  Fieldbus!Drive <=>
    /\ PhaseSeen \in {"up", "running"}
    /\ OutputsSeen' = [p \in Position |->
         IF PhaseSeen = "running" /\ DrivesSeen[p] # Nobody
         THEN {[module |-> DrivesSeen[p], at |-> TimeSeen]} ELSE OutputsSeen[p]]
    /\ UNCHANGED <<PhaseSeen, DrivesSeen, SensesSeen, TimeSeen, JointSeen>>
  BY DEF Fieldbus!Drive, PhaseSeen, DrivesSeen, SensesSeen, TimeSeen, OutputsSeen,
         JointSeen

LEMMA FieldbusLose ==
  Fieldbus!Lose <=>
    /\ PhaseSeen' = "void" /\ DrivesSeen' = [p \in Position |-> Nobody]
    /\ SensesSeen' = [m \in Name |-> 0] /\ TimeSeen' = 0
    /\ OutputsSeen' = [p \in Position |-> {}] /\ JointSeen' = [m \in Name |-> {}]
  BY DEF Fieldbus!Lose, Fieldbus!NoDrives, Fieldbus!NoSenses, PhaseSeen, DrivesSeen,
         SensesSeen, TimeSeen, OutputsSeen, JointSeen

-----------------------------------------------------------------------------
(* Every step is one of FieldbusDriver, or none *)

\* A driver that is not up drives and senses nothing.
LEMMA NoRoles ==
  /\ ~Up => DrivesSeen = [p \in Position |-> Nobody] /\ SensesSeen = [m \in Name |-> 0]
  /\ ~Up' => /\ DrivesSeen' = [p \in Position |-> Nobody]
             /\ SensesSeen' = [m \in Name |-> 0]
  BY DEF DrivesSeen, SensesSeen, DrivenBy, SensedBy

LEMMA SeenVoid ==
  /\ changed => /\ PhaseSeen = "void" /\ DrivesSeen = [p \in Position |-> Nobody]
                /\ SensesSeen = [m \in Name |-> 0] /\ TimeSeen = 0
                /\ OutputsSeen = [p \in Position |-> {}]
                /\ JointSeen = [m \in Name |-> {}]
  /\ changed' => /\ PhaseSeen' = "void" /\ DrivesSeen' = [p \in Position |-> Nobody]
                 /\ SensesSeen' = [m \in Name |-> 0] /\ TimeSeen' = 0
                 /\ OutputsSeen' = [p \in Position |-> {}]
                 /\ JointSeen' = [m \in Name |-> {}]
  BY DEF PhaseSeen, DrivesSeen, SensesSeen, TimeSeen, OutputsSeen, JointSeen

LEMMA OutputsKept ==
  ASSUME UNCHANGED <<changed, layout>>, IOmap'.RxPDO = IOmap.RxPDO
  PROVE  UNCHANGED OutputsSeen /\ \A p : Marks(p)' = Marks(p)
  BY DEF OutputsSeen, Marks

LEMMA RolesKept ==
  ASSUME UNCHANGED <<changed, layout, initialized_slaves, position>>, Up' = Up,
         \A p \in Position : (Marks(p)' = {}) = (Marks(p) = {})
  PROVE  UNCHANGED <<DrivesSeen, SensesSeen>>
<1>1. \A p : LastAt(p)' = LastAt(p) BY LastKept
<1>2. \A p \in Position : DrivenBy(p)' = DrivenBy(p) BY <1>1 DEF DrivenBy
<1>3. \A m \in Name : SensedBy(m)' = SensedBy(m) BY DEF SensedBy, Called
<1> QED BY <1>2, <1>3 DEF DrivesSeen, SensesSeen

LEMMA ShownKept ==
  ASSUME UNCHANGED <<changed, time, joint_state>>
  PROVE  UNCHANGED <<TimeSeen, JointSeen>>
  BY DEF TimeSeen, JointSeen

LEMMA ReadSenses == SteadyInv /\ ~changed /\ Read => Fieldbus!Sense
<1> SUFFICES ASSUME SteadyInv, ~changed, Read PROVE Fieldbus!Sense
  OBVIOUS
<1>1. /\ Up /\ Up' /\ component \in {"inactive", "active"} /\ component' = component
      /\ ~changed' /\ time' = 1 - time
      /\ IOmap' = IF component = "active" THEN [IOmap EXCEPT !.TxPDO = Delivered(time')]
                  ELSE IOmap
      /\ working' = IF component = "active" THEN [working EXCEPT !.TxPDO.data = IOmap'.TxPDO]
                    ELSE working
      /\ \A m \in Name : joint_state'[m] = IF m \in Called THEN Sensed(working'.TxPDO, m)
                                           ELSE actuator_state[m]
      /\ UNCHANGED <<initialized_slaves, position, changed, layout>>
  BY DEF Read, Up, modules, setup, Joint
<1>2. /\ DOMAIN working = Direction /\ DOMAIN IOmap = Direction
      /\ DOMAIN working.TxPDO.data = DOMAIN IOmap.TxPDO
      /\ working.TxPDO \in [block : Nat, capacity : Nat, data : Seq(Input)]
  BY SteadyVectors DEF VectorOK, Direction
<1>3. /\ IOmap'.RxPDO = IOmap.RxPDO
      /\ IOmap'.TxPDO = IF component = "active" THEN Delivered(time') ELSE IOmap.TxPDO
  BY <1>1, <1>2 DEF Direction
<1>4. /\ working'.TxPDO.block = working.TxPDO.block
      /\ working'.TxPDO.data = IF component = "active" THEN Delivered(time')
                               ELSE working.TxPDO.data
  BY <1>1, <1>2, <1>3 DEF Direction
<1>5. DOMAIN working'.TxPDO.data = DOMAIN IOmap.TxPDO
  BY <1>2, <1>4 DEF Delivered
<1>6. UNCHANGED <<PhaseSeen, DrivesSeen, SensesSeen, OutputsSeen>>
  <2>1. UNCHANGED OutputsSeen /\ \A p : Marks(p)' = Marks(p)
    BY <1>1, <1>3, OutputsKept
  <2>2. UNCHANGED <<DrivesSeen, SensesSeen>>
    <3>1. Up' = Up BY <1>1 DEF Up
    <3> QED BY <1>1, <2>1, <3>1, RolesKept
  <2>3. UNCHANGED PhaseSeen BY <1>1 DEF PhaseSeen
  <2> QED BY <2>1, <2>2, <2>3
<1>7. TimeSeen = time /\ TimeSeen' = time' BY <1>1 DEF TimeSeen
<1>8. ASSUME NEW m \in Name
      PROVE  /\ JointSeen[m] = joint_state[m] /\ JointSeen'[m] = joint_state'[m]
             /\ SensesSeen[m] = 0 => joint_state'[m] = joint_state[m]
             /\ SensesSeen[m] # 0 =>
                  /\ SensesSeen[m] = position[m] /\ position[m] \in DOMAIN layout
                  /\ layout[position[m]].TxPDO # {}
                  /\ joint_state'[m]
                       = {working'.TxPDO.data[b] : b \in layout[position[m]].TxPDO}
  <2>1. JointSeen[m] = joint_state[m] /\ JointSeen'[m] = joint_state'[m]
    BY <1>1 DEF JointSeen
  <2>2. SensesSeen[m] = IF m \in Called /\ layout[position[m]].TxPDO # {}
                        THEN position[m] ELSE 0
    BY <1>1 DEF SensesSeen, SensedBy
  <2>3. CASE m \notin Called
    <3>1. joint_state'[m] = joint_state[m]
      BY <1>1, <2>3 DEF SteadyInv, JointsOfModules
    <3> QED BY <2>1, <2>2, <2>3, <3>1
  <2>4. CASE m \in Called
    <3>1. position[m] \in DOMAIN layout /\ position[m] \in Position
      BY <1>1, <2>4, CalledIsMapped
    <3>2. joint_state'[m] = {working'.TxPDO.data[b] : b \in layout[position[m]].TxPDO}
      BY <1>1, <1>4, <1>5, <2>4, SensedAt
    <3>3. layout[position[m]].TxPDO = {} => joint_state[m] = {} /\ joint_state'[m] = {}
      BY <3>2 DEF SteadyInv, JointsOfModules
    <3>4. position[m] # 0
      BY <2>4 DEF SteadyInv, SetUpInv, MailboxInv, CalledIsPlaced
    <3> QED BY <2>1, <2>2, <2>4, <3>1, <3>2, <3>3, <3>4
  <2> QED BY <2>3, <2>4
<1> DEFINE found(m) == {working'.TxPDO.data[b] : b \in layout[position[m]].TxPDO}
<1>9. JointSeen' = [m \in Name |-> IF SensesSeen[m] = 0 THEN JointSeen[m] ELSE found(m)]
  <2>1. JointSeen' = [m \in Name |-> JointSeen'[m]] BY DEF JointSeen
  <2> QED BY <1>8, <2>1
<1>10. CASE component = "active"
  <2>1. PhaseSeen = "running" BY <1>1, <1>10, PhaseOf
  <2>2. ASSUME NEW m \in Name, SensesSeen[m] # 0
        PROVE  found(m) = {[slave |-> SensesSeen[m], at |-> TimeSeen']}
    <3>1. \A b \in layout[position[m]].TxPDO :
            working'.TxPDO.data[b] = [slave |-> position[m], at |-> time']
      BY <1>4, <1>8, <1>10, <2>2, DeliveredAt
    <3> QED BY <1>7, <1>8, <2>2, <3>1
  <2>3. JointSeen' = [m \in Name |-> IF SensesSeen[m] = 0 THEN JointSeen[m]
                                     ELSE {[slave |-> SensesSeen[m], at |-> TimeSeen']}]
    <3> HIDE DEF found
    <3> QED BY <1>9, <2>2
  <2> QED BY <1>1, <1>6, <1>7, <2>1, <2>3, FieldbusSense
<1>11. CASE component # "active"
  <2>1. PhaseSeen = "up" BY <1>1, <1>11, PhaseOf
  <2>2. OfOneCycle(working.TxPDO.data) BY <1>1 DEF SteadyInv, InputsOfOneCycle
  <2>3. CASE \A b \in DOMAIN working.TxPDO.data : working.TxPDO.data[b] = Untouched.TxPDO
    <3>1. ASSUME NEW m \in Name, SensesSeen[m] # 0
          PROVE  found(m) = {Untouched.TxPDO}
      <4>1. layout[position[m]].TxPDO \subseteq DOMAIN working.TxPDO.data
        <5>1. layout[position[m]].TxPDO \subseteq Group(layout, "TxPDO")
          BY <1>8, <3>1 DEF Group
        <5> QED BY <5>1, SteadyVectors DEF Direction
      <4> QED BY <1>4, <1>8, <1>11, <2>3, <3>1, <4>1
    <3>2. JointSeen' = [m \in Name |-> IF SensesSeen[m] = 0 THEN JointSeen[m]
                                       ELSE {Untouched.TxPDO}]
      <4> HIDE DEF found
      <4> QED BY <1>9, <3>1
    <3> QED BY <1>1, <1>6, <1>7, <2>1, <3>2, FieldbusSense
  <2>4. CASE \E t \in Time : working.TxPDO.data = Delivered(t)
    <3>1. PICK t \in Time : working.TxPDO.data = Delivered(t) BY <2>4
    <3>2. ASSUME NEW m \in Name, SensesSeen[m] # 0
          PROVE  found(m) = {[slave |-> SensesSeen[m], at |-> t]}
      <4>1. \A b \in layout[position[m]].TxPDO :
              working'.TxPDO.data[b] = [slave |-> position[m], at |-> t]
        BY <1>4, <1>8, <1>11, <3>1, <3>2, DeliveredAt
      <4> QED BY <1>8, <3>2, <4>1
    <3>3. JointSeen' = [m \in Name |-> IF SensesSeen[m] = 0 THEN JointSeen[m]
                                       ELSE {[slave |-> SensesSeen[m], at |-> t]}]
      <4> HIDE DEF found
      <4> QED BY <1>9, <3>2
    <3> QED BY <1>1, <1>6, <1>7, <2>1, <3>3, FieldbusSense
  <2> QED BY <2>2, <2>3, <2>4 DEF OfOneCycle
<1> QED BY <1>10, <1>11

LEMMA WriteDrives == SteadyInv /\ ~changed /\ Write => Fieldbus!Drive
<1> SUFFICES ASSUME SteadyInv, ~changed, Write PROVE Fieldbus!Drive
  OBVIOUS
<1>1. /\ Up /\ Up' /\ component \in {"inactive", "active"} /\ component' = component
      /\ working' = [working EXCEPT !.RxPDO.data = Written(Commands)]
      /\ IOmap' = IF component = "active"
                  THEN [IOmap EXCEPT !.RxPDO = working'.RxPDO.data] ELSE IOmap
      /\ UNCHANGED <<initialized_slaves, position, changed, layout, time, joint_state>>
  BY DEF Write, Up, modules, setup
<1>2. /\ DOMAIN working = Direction /\ DOMAIN IOmap = Direction
      /\ working.RxPDO \in [block : Nat, capacity : Nat, data : Seq(Output)]
  BY SteadyVectors DEF VectorOK, Direction
<1>3. IOmap'.RxPDO = IF component = "active" THEN Written(Commands) ELSE IOmap.RxPDO
  <2>1. working'.RxPDO.data = Written(Commands) BY <1>1, <1>2 DEF Direction
  <2> QED BY <1>1, <1>2, <2>1 DEF Direction
<1>4. ASSUME NEW p \in Position
      PROVE  /\ (Marks(p)' = {}) = (Marks(p) = {})
             /\ Marks(p)' = IF component = "active" /\ DrivesSeen[p] # Nobody
                            THEN {[module |-> DrivesSeen[p], at |-> time]} ELSE Marks(p)
  <2>1. DrivesSeen[p] = IF Marks(p) # {} THEN LastAt(p) ELSE Nobody
    BY <1>1 DEF DrivesSeen, DrivenBy
  <2>2. CASE p \notin DOMAIN layout
    <3>1. Marks(p) = {} /\ Marks(p)' = {} BY <1>1, <2>2 DEF Marks
    <3> QED BY <2>1, <3>1
  <2>3. CASE p \in DOMAIN layout
    <3>1. /\ Marks(p) = {IOmap.RxPDO[b] : b \in layout[p].RxPDO}
          /\ Marks(p)' = {IOmap'.RxPDO[b] : b \in layout[p].RxPDO}
      BY <1>1, <2>3 DEF Marks
    <3>2. CASE component # "active" BY <1>3, <3>1, <3>2
    <3>3. CASE component = "active"
      <4>1. \A b \in layout[p].RxPDO :
              IOmap'.RxPDO[b] = IF LastAt(p) = Nobody THEN IOmap.RxPDO[b]
                                ELSE [module |-> LastAt(p), at |-> time]
        BY <1>1, <1>3, <2>3, <3>3, WrittenAt
      <4>2. CASE LastAt(p) = Nobody BY <2>1, <3>1, <4>1, <4>2
      <4>3. CASE LastAt(p) # Nobody
        <5>1. CASE layout[p].RxPDO = {} BY <2>1, <3>1, <5>1
        <5>2. CASE layout[p].RxPDO # {}
          <6>1. Marks(p) # {} BY <3>1, <5>2
          <6>2. DrivesSeen[p] = LastAt(p) BY <2>1, <6>1
          <6>3. Marks(p)' = {[module |-> LastAt(p), at |-> time]}
            BY <3>1, <4>1, <4>3, <5>2
          <6> QED BY <3>3, <4>3, <6>1, <6>2, <6>3
        <5> QED BY <5>1, <5>2
      <4> QED BY <4>2, <4>3
    <3> QED BY <3>2, <3>3
  <2> QED BY <2>2, <2>3
<1>5. UNCHANGED <<DrivesSeen, SensesSeen>>
  <2>1. Up' = Up BY <1>1 DEF Up
  <2> QED BY <1>1, <1>4, <2>1, RolesKept
<1>6. UNCHANGED <<TimeSeen, JointSeen>> BY <1>1, ShownKept
<1>7. UNCHANGED PhaseSeen BY <1>1 DEF PhaseSeen
<1>8. TimeSeen = time /\ (PhaseSeen = "running") = (component = "active")
      /\ PhaseSeen \in {"up", "running"}
  BY <1>1, PhaseOf DEF TimeSeen
<1>9. \A p \in Position : OutputsSeen[p] = Marks(p) /\ OutputsSeen'[p] = Marks(p)'
  BY <1>1 DEF OutputsSeen
<1>10. OutputsSeen' = [p \in Position |-> OutputsSeen'[p]] BY DEF OutputsSeen
<1>11. OutputsSeen' = [p \in Position |->
          IF PhaseSeen = "running" /\ DrivesSeen[p] # Nobody
          THEN {[module |-> DrivesSeen[p], at |-> TimeSeen]} ELSE OutputsSeen[p]]
  BY <1>4, <1>8, <1>9, <1>10
<1> QED BY <1>5, <1>6, <1>7, <1>8, <1>11, FieldbusDrive

LEMMA StartBusAttaches == SteadyInv /\ StartBus /\ ~changed' => Fieldbus!Attach
<1> SUFFICES ASSUME SteadyInv, StartBus, ~changed' PROVE Fieldbus!Attach
  OBVIOUS
<1>1. /\ component = "configuring" /\ component' \in {"inactive", "unconfigured", "finalized"}
      /\ changed' = (changed \/ (scans > 1 /\ layout' # layout))
      /\ IOmap' = [d \in Direction |->
                     [b \in 1..Cardinality(Group(layout', d)) |->
                        IF b \in DOMAIN IOmap[d] THEN IOmap[d][b] ELSE Untouched[d]]]
      /\ layout' \in Layouts
      /\ UNCHANGED <<initialized_slaves, position, scans, time, joint_state>>
  BY DEF StartBus
<1>2. SteadyInv' BY StartBusSteady
<1>3. /\ ~changed /\ ~Up /\ UNCHANGED changed
  <2>1. ~changed /\ ~Up BY <1>1 DEF Up
  <2>2. changed \in BOOLEAN /\ changed' \in BOOLEAN
    BY <1>2 DEF SteadyInv, SetUpInv, MailboxInv, TypedInv, TypeOK
  <2> QED BY <2>1, <2>2
<1>4. PhaseSeen = "down" BY <1>3, PhaseOf
<1>5. DrivesSeen = [p \in Position |-> Nobody] /\ SensesSeen = [m \in Name |-> 0]
  BY <1>3, NoRoles
<1>6. UNCHANGED <<TimeSeen, JointSeen>> BY <1>1, <1>3, ShownKept
<1>7. \/ /\ PhaseSeen' = "up"
         /\ DrivesSeen' \in [Position -> Name \cup {Nobody}]
         /\ SensesSeen' \in [Name -> Position \cup {0}]
      \/ UNCHANGED <<PhaseSeen, DrivesSeen, SensesSeen>>
  <2>1. CASE component' = "inactive"
    <3>1. PhaseSeen' = "up" BY <1>3, <2>1, PhaseOf DEF PhaseSeen
    <3>2. \A p \in Position : LastAt(p)' \in Name \cup {Nobody}
      <4>1. initialized_slaves' \in Seq(slaves') /\ slaves' \subseteq Name
        BY <1>2 DEF SteadyInv, SetUpInv, MailboxInv, TypedInv, TypeOK
      <4> SUFFICES ASSUME NEW p \in Position PROVE LastAt(p)' \in Name \cup {Nobody}
        OBVIOUS
      <4> DEFINE at == {i \in DOMAIN initialized_slaves' :
                          position'[initialized_slaves'[i]] = p}
      <4>2. LastAt(p)' = IF at = {} THEN Nobody ELSE initialized_slaves'[Max(at)]
        BY DEF LastAt
      <4>3. at \in SUBSET (0..Len(initialized_slaves')) /\ Len(initialized_slaves') \in Nat
        BY <4>1
      <4>4. at # {} => Max(at) \in at
        <5> HIDE DEF at
        <5> QED BY <4>3, MaxOfBounded
      <4>5. at # {} => initialized_slaves'[Max(at)] \in Name BY <4>1, <4>4
      <4> HIDE DEF at
      <4> QED BY <4>2, <4>5
    <3>3. DrivesSeen' \in [Position -> Name \cup {Nobody}]
      <4>1. \A p \in Position : DrivenBy(p)' \in Name \cup {Nobody}
        BY <3>2 DEF DrivenBy
      <4> QED BY <4>1 DEF DrivesSeen
    <3>4. SensesSeen' \in [Name -> Position \cup {0}]
      <4>1. position' \in [Name -> Position \cup {0}]
        BY <1>2 DEF SteadyInv, SetUpInv, MailboxInv, TypedInv, TypeOK
      <4>2. \A m \in Name : SensedBy(m)' \in Position \cup {0}
        BY <4>1 DEF SensedBy
      <4> QED BY <4>2 DEF SensesSeen
    <3> QED BY <3>1, <3>3, <3>4
  <2>2. CASE component' # "inactive"
    <3>1. ~Up' BY <1>1, <2>2 DEF Up
    <3>2. DrivesSeen' = [p \in Position |-> Nobody] /\ SensesSeen' = [m \in Name |-> 0]
      BY <3>1, NoRoles
    <3>3. PhaseSeen' = "down" BY <1>1, <2>2 DEF PhaseSeen
    <3> QED BY <1>4, <1>5, <3>2, <3>3
  <2> QED BY <2>1, <2>2
<1>8. DOMAIN OutputsSeen' = Position
      /\ \A p \in Position : OutputsSeen[p] = Marks(p) /\ OutputsSeen'[p] = Marks(p)'
  BY <1>3 DEF OutputsSeen
<1>9. ASSUME NEW p \in Position
      PROVE  Marks(p)' \in {Marks(p), {}, {Untouched.RxPDO}}
  <2>1. CASE BeforeStart
    <3>1. \A b \in DOMAIN IOmap'.RxPDO : IOmap'.RxPDO[b] = Untouched.RxPDO
      <4>1. layout = <<>> BY <2>1 DEF SteadyInv, MappedOnce
      <4>2. \A d \in Direction : DOMAIN IOmap[d] = {}
        BY <4>1 DEF SteadyInv, MappedOnce, Group
      <4>3. "RxPDO" \in Direction BY DEF Direction
      <4> QED BY <1>1, <4>2, <4>3
    <3>2. p \in DOMAIN layout' => layout'[p].RxPDO \subseteq DOMAIN IOmap'.RxPDO
      <4>1. DOMAIN IOmap'.RxPDO = Group(layout', "RxPDO")
        BY <1>2 DEF SteadyInv, MappedOnce, Direction
      <4> QED BY <4>1 DEF Group
    <3>3. Marks(p)' = IF p \in DOMAIN layout' THEN {IOmap'.RxPDO[b] : b \in layout'[p].RxPDO}
                      ELSE {}
      BY DEF Marks
    <3> QED BY <3>1, <3>2, <3>3
  <2>2. CASE ~BeforeStart
    <3>1. scans \in Nat /\ scans > 0
      BY <1>1, BusAssumption DEF SteadyInv, SetUpInv, MailboxInv, NothingFoundYet, TypedInv, TypeOK
    <3>2. scans > 1 BY <1>1, <2>2, <3>1 DEF BeforeStart
    <3>3. layout' = layout BY <1>1, <3>2
    <3>4. IOmap'.RxPDO = IOmap.RxPDO
      <4>1. "RxPDO" \in Direction BY DEF Direction
      <4>2. DOMAIN IOmap.RxPDO = 1..Cardinality(Group(layout', "RxPDO"))
        BY <1>1, <3>3, <4>1, LayoutAssumption DEF SteadyInv, MappedOnce
      <4>3. IOmap'.RxPDO = [b \in DOMAIN IOmap.RxPDO |-> IOmap.RxPDO[b]]
        BY <1>1, <4>1, <4>2
      <4>4. IOmap.RxPDO = [b \in DOMAIN IOmap.RxPDO |-> IOmap.RxPDO[b]]
        BY SteadyVectors
      <4> QED BY <4>3, <4>4
    <3> QED BY <1>3, <3>3, <3>4, OutputsKept
  <2> QED BY <2>1, <2>2
<1>10. \A p \in Position : OutputsSeen'[p] \in {OutputsSeen[p], {}, {Untouched.RxPDO}}
  BY <1>8, <1>9
<1> QED BY <1>4, <1>6, <1>7, <1>8, <1>10, FieldbusAttach

\* Steps that leave the process data of the slaves and the joints alone.
LEMMA QuietSteps ==
  ASSUME ~changed, IOmap'.RxPDO = IOmap.RxPDO, Up' => Up,
         Up' => UNCHANGED <<initialized_slaves, position>>,
         UNCHANGED <<changed, layout, time, joint_state>>
  PROVE  Fieldbus!Run \/ Fieldbus!Halt \/ Fieldbus!Detach \/ UNCHANGED Seen
<1>1. UNCHANGED OutputsSeen /\ \A p : Marks(p)' = Marks(p) BY OutputsKept
<1>2. UNCHANGED <<TimeSeen, JointSeen>> BY ShownKept
<1>3. Up /\ Up' => UNCHANGED <<DrivesSeen, SensesSeen>>
  <2>1. Up \in BOOLEAN /\ Up' \in BOOLEAN BY DEF Up
  <2> QED BY <1>1, <2>1, RolesKept
<1>4. ~Up' => /\ DrivesSeen' = [p \in Position |-> Nobody]
              /\ SensesSeen' = [m \in Name |-> 0] /\ PhaseSeen' = "down"
  <2>1. ~Up' => PhaseSeen' = "down" BY DEF PhaseSeen, Up
  <2>2. ~Up' => DrivesSeen' = [p \in Position |-> Nobody] /\ SensesSeen' = [m \in Name |-> 0]
    BY NoRoles
  <2> QED BY <2>1, <2>2
<1>5. CASE ~Up'
  BY <1>1, <1>2, <1>4, <1>5, PhaseOf, FieldbusDetach DEF PhaseSeen
<1>6. CASE Up /\ Up'
  <2>1. UNCHANGED <<DrivesSeen, SensesSeen>> BY <1>3, <1>6
  <2>2. /\ component \in {"inactive", "active"} /\ component' \in {"inactive", "active"}
    BY <1>6 DEF Up
  <2>3. /\ PhaseSeen = IF component = "active" THEN "running" ELSE "up"
        /\ PhaseSeen' = IF component' = "active" THEN "running" ELSE "up"
    BY <2>2 DEF PhaseSeen
  <2>4. CASE component' = component BY <1>1, <1>2, <2>1, <2>3, <2>4 DEF Seen
  <2>5. CASE component = "inactive" /\ component' = "active"
    BY <1>1, <1>2, <2>1, <2>3, <2>5, FieldbusRun
  <2>6. CASE component = "active" /\ component' = "inactive"
    BY <1>1, <1>2, <2>1, <2>3, <2>6, FieldbusHalt
  <2> QED BY <2>2, <2>4, <2>5, <2>6
<1> QED BY <1>5, <1>6

LEMMA ChangedForGood == TypedInv /\ changed /\ [Next]_vars => changed' = changed
<1> SUFFICES ASSUME TypedInv, changed, [Next]_vars PROVE changed' = changed
  OBVIOUS
<1>1. changed' \in BOOLEAN /\ changed \in BOOLEAN BY NextTyped DEF TypedInv, TypeOK
<1>2. changed'
  BY DEF Next, Lifecycle, LoadModules, InitMaster, SkipModule, ConfigureModule, StartBus,
         Activate, Leave, Read, Write, Finalized, vars, setup
<1> QED BY <1>1, <1>2

LEMMA FieldbusStep == SteadyInv /\ [Next]_vars => [Fieldbus!Next]_(Fieldbus!vars)
<1> SUFFICES ASSUME SteadyInv, [Next]_vars PROVE Fieldbus!Next \/ UNCHANGED Seen
  BY FieldbusVars
<1>1. TypedInv BY DEF SteadyInv, SetUpInv, MailboxInv
<1>2. CASE changed
  <2>1. changed' BY <1>1, <1>2, ChangedForGood
  <2>2. /\ PhaseSeen' = "void" /\ DrivesSeen' = [p \in Position |-> Nobody]
        /\ SensesSeen' = [m \in Name |-> 0] /\ TimeSeen' = 0
        /\ OutputsSeen' = [p \in Position |-> {}] /\ JointSeen' = [m \in Name |-> {}]
    BY <2>1, SeenVoid
  <2> QED BY <1>2, <2>2, SeenVoid DEF Seen
<1>3. CASE ~changed /\ changed'
  <2>1. Fieldbus!Lose BY <1>3, SeenVoid, FieldbusLose
  <2> QED BY <2>1 DEF Fieldbus!Next
<1>4. CASE ~changed /\ ~changed'
  <2>1. changed' = changed
    <3>1. changed \in BOOLEAN /\ changed' \in BOOLEAN
      BY <1>1, NextTyped DEF TypedInv, TypeOK
    <3> QED BY <1>4, <3>1
  <2>2. CASE Read BY <1>4, <2>2, ReadSenses DEF Fieldbus!Next
  <2>3. CASE Write BY <1>4, <2>3, WriteDrives DEF Fieldbus!Next
  <2>4. CASE StartBus BY <1>4, <2>4, StartBusAttaches DEF Fieldbus!Next
  <2>5. SUFFICES ASSUME /\ Up' => Up
                        /\ Up' => UNCHANGED <<initialized_slaves, position>>
                        /\ UNCHANGED <<layout, time, joint_state>>
                        /\ IOmap'.RxPDO = IOmap.RxPDO
                 PROVE  Fieldbus!Next \/ UNCHANGED Seen
    <3>1. CASE Activate
      <4>1. IOmap' \in {IOmap, [IOmap EXCEPT !.TxPDO = Delivered(time)]}
        BY <3>1 DEF Activate
      <4>2. IOmap'.RxPDO = IOmap.RxPDO BY <4>1, SteadyVectors DEF Direction
      <4> QED BY <2>5, <3>1, <4>2 DEF Activate, Up, modules, setup, cycle
    <3>2. CASE LoadModules BY <2>5, <3>2 DEF LoadModules, Up, setup, cycle
    <3>3. CASE InitMaster BY <2>5, <3>3 DEF InitMaster, Up, modules, cycle
    <3>4. CASE SkipModule BY <2>5, <3>4 DEF SkipModule, AtModule, Up, modules, setup, cycle
    <3>5. CASE ConfigureModule BY <2>5, <3>5 DEF ConfigureModule, AtModule, Up, cycle
    <3>6. CASE Leave BY <2>5, <3>6 DEF Leave, Up, modules, setup, cycle
    <3>7. CASE UNCHANGED vars BY <2>5, <3>7 DEF vars, Up, modules, setup, cycle
    <3> QED BY <2>2, <2>3, <2>4, <3>1, <3>2, <3>3, <3>4, <3>5, <3>6, <3>7
            DEF Next, Lifecycle, Finalized
  <2> QED BY <1>4, <2>1, <2>5, QuietSteps DEF Fieldbus!Next
<1> QED BY <1>2, <1>3, <1>4

LEMMA FieldbusStart == Init => Fieldbus!Init
<1> SUFFICES ASSUME Init PROVE Fieldbus!Init
  OBVIOUS
<1>1. /\ ~changed /\ ~Up /\ time = 0 /\ layout = <<>>
      /\ joint_state = [m \in Name |-> {}]
  BY DEF Init, Up
<1>2. PhaseSeen = "down" BY <1>1, PhaseOf
<1>3. DrivesSeen = [p \in Position |-> Nobody] /\ SensesSeen = [m \in Name |-> 0]
  BY <1>1, NoRoles
<1>4. TimeSeen = 0 /\ JointSeen = [m \in Name |-> {}] BY <1>1 DEF TimeSeen, JointSeen
<1>5. OutputsSeen = [p \in Position |-> {}] BY <1>1 DEF OutputsSeen, Marks
<1> QED BY <1>2, <1>3, <1>4, <1>5, FieldbusInit

\* For any hardware description of distinct modules, any buses and any number
\* of configurations: while the bus stays the same, each module works with its
\* own slave on this cycle's data.
THEOREM FieldbusRefinement == Spec /\ DistinctNames => ImplementsFieldbusDriver
<1>1. Init /\ DistinctNames => Fieldbus!Init /\ SteadyInv BY FieldbusStart, InitSteady
<1>2. SteadyInv /\ [Next]_vars => SteadyInv' /\ [Fieldbus!Next]_(Fieldbus!vars)
  BY NextSteady, FieldbusStep
<1> QED BY <1>1, <1>2, PTL DEF Spec, ImplementsFieldbusDriver, Fieldbus!Spec
=============================================================================
