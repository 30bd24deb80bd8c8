---------------------------- MODULE MCSOEMDriver ----------------------------
(* Two modules and up to three slaves: a bus found again, one with a slave   *)
(* more or less, where the slave with the alias has changed its place.       *)
EXTENDS SOEMDriver

CONSTANTS drive, gripper

Info(name, alias, pos) == [name |-> name, alias |-> alias, position |-> pos]

\* By position and by alias; both for one slave; one name for two slaves.
MCHardware == {<<Info(drive, 7, 0), Info(gripper, 0, 2)>>,
               <<Info(drive, 0, 1), Info(gripper, 7, 0)>>,
               <<Info(drive, 0, 1), Info(drive, 0, 2)>>}

MCBuses == {<<7, 0>>, <<0, 0, 7>>}

Maps(RxPDO, TxPDO) == [RxPDO |-> RxPDO, TxPDO |-> TxPDO]

\* A slave of one byte each way; one of two; one without outputs.
MCLayouts == {<<Maps({1}, {1}), Maps({2}, {2})>>,
              <<Maps({1, 2}, {1}), Maps({}, {2, 3})>>,
              <<Maps({1}, {1}), Maps({2}, {2}), Maps({3}, {3})>>}

\* The mapping of a bus is always the same.
OneLayoutEach == {<<Maps({1}, {1}), Maps({2}, {2})>>,
                  <<Maps({1}, {1}), Maps({2}, {2}), Maps({3}, {3})>>}
=============================================================================
