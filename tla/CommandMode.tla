----------------------------- MODULE CommandMode -----------------------------
(***************************************************************************)
(* The command modes of the Trinamic TMCM1610 module and how a command     *)
(* mode switch changes them.  A claim is a pair of the claim's name and an *)
(* interface of it; the gripper's claim belongs to no mode.                *)
(***************************************************************************)
EXTENDS SequencesExt

Claim == {<<"drive", "position">>, <<"drive", "velocity">>,
          <<"drive", "effort">>, <<"gripper", "position">>}
COMMAND_MODE == {"STOP", "POSITION", "VELOCITY", "EFFORT"}

\* "<none>" is what the mode STOP claims.
command_mode_to_claim ==
  [m \in COMMAND_MODE |-> CASE m = "POSITION" -> <<"drive", "position">>
                            [] m = "VELOCITY" -> <<"drive", "velocity">>
                            [] m = "EFFORT"   -> <<"drive", "effort">>
                            [] m = "STOP"     -> <<"<none>", "">>]

\* Variant: the gripper has a mode the rest of the module does not know.
claim_to_gripper_mode ==
  [c \in Claim |-> CASE c = <<"drive", "position">> -> "POSITION"
                     [] c = <<"drive", "velocity">> -> "VELOCITY"
                     [] c = <<"drive", "effort">>   -> "EFFORT"
                     [] OTHER                       -> "GRIPPER"]

claim_to_command_mode ==
  [c \in Claim |-> CASE c = <<"drive", "position">> -> "POSITION"
                     [] c = <<"drive", "velocity">> -> "VELOCITY"
                     [] c = <<"drive", "effort">>   -> "EFFORT"
                     [] OTHER                       -> "STOP"]

\* One claim to start: it must not contradict the mode reached so far.
StartClaim(mode, claim) ==
  LET start_mode == claim_to_command_mode[claim]
  IN IF mode # "refused" /\ (start_mode = mode \/ mode = "STOP")
     THEN start_mode ELSE "refused"

\* Variant: the claims to stop are ignored.
NextModeKeepStopped(mode, start, stop) == FoldLeft(StartClaim, mode, start)

\* The mode after stopping a set and starting a sequence of claims, or
\* "refused".  prepare and perform compute it alike; only perform keeps it.
NextMode(mode, start, stop) ==
  FoldLeft(StartClaim,
           IF command_mode_to_claim[mode] \in stop THEN "STOP" ELSE mode,
           start)
=============================================================================
