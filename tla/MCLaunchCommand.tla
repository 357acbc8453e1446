-------------------------- MODULE MCLaunchCommand --------------------------
(* Every launch template of up to three characters over '%', the two     *)
(* token letters and one plain character: tokens at the end, adjacent    *)
(* tokens, and "%%" all occur.                                            *)
EXTENDS LaunchCommand

MCChars == {"%", "c", "h", "x"}
=============================================================================
