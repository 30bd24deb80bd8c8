----------------------------- MODULE MCTMCM1610 -----------------------------
(* Inputs in which one condition holds tell the states apart; those of a    *)
(* zeroed image and those in which all hold make the most steps possible.   *)
EXTENDS TMCM1610

MCInputs == {{}, ZeroInput, Condition} \cup {{c} : c \in Condition}
FewInputs == {{}, Condition}
=============================================================================
