-------------------------- MODULE MCClaimsResolver --------------------------
(* Two drives and a mock slave behind three joints, two of them actuators    *)
(* with a transmission; claims overlap, name single interfaces or a slave   *)
(* that does not exist, and in one configuration a drive is overallocated.  *)
EXTENDS ClaimsResolver

All(claim) == <<<<claim, "position">>, <<claim, "velocity">>, <<claim, "effort">>>>
Drive == All("drive") \o <<<<"gripper", "position">>>>

MCExports ==
  [left  |-> [state |-> Drive, command |-> Drive],
   right |-> [state |-> Drive, command |-> Drive],
   mock  |-> [state   |-> All("joint_unit") \o All("sensor_unit"),
              command |-> All("joint_unit") \o All("actuator_unit")]]

Whole(slave, claim) == [slave |-> slave, claim |-> claim, type |-> "", name |-> ""]
Part(slave, claim, type, name) ==
  [slave |-> slave, claim |-> claim, type |-> type, name |-> name]

MCConfigurations ==
  {[motor |-> <<Whole("left", "drive")>>,
    elbow |-> <<Part("right", "drive", "command", "velocity"),
                Whole("mock", "joint_unit"), Whole("right", "drive")>>,
    hand  |-> <<Whole("left", "gripper")>>],
   [motor |-> <<Whole("left", "gripper"), Whole("left", "drive")>>,
    elbow |-> <<Whole("none", "drive"), Part("mock", "sensor_unit", "state", ""),
                Part("right", "drive", "command", "")>>,
    hand  |-> <<Part("right", "gripper", "command", "position"),
                Part("left", "gripper", "state", "position")>>],
   [motor |-> <<Whole("left", "drive")>>, elbow |-> <<Whole("left", "drive")>>,
    hand  |-> <<Whole("right", "gripper")>>]}

MCTransmissions == [motor |-> "shoulder", hand |-> "fingers"]

MCInterfaces ==
  [trajectory |-> <<<<"shoulder", "position">>, <<"elbow", "position">>>>,
   spin       |-> <<<<"shoulder", "velocity">>>>,
   push       |-> <<<<"elbow", "velocity">>, <<"base", "velocity">>>>,
   both       |-> <<<<"shoulder", "effort">>, <<"elbow", "effort">>,
                    <<"elbow", "velocity">>>>,
   grip       |-> <<<<"fingers", "position">>>>]

MCForeign == {<<"base", "velocity">>}

\* What two of the theorems about ClaimsResolver take for granted.
ASSUME UniqueNames == NamesAreUnique
=============================================================================
