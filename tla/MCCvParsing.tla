----------------------------- MODULE MCCvParsing -----------------------------
(***************************************************************************)
(* An instance of CvParsing for TLC: whatever may go wrong does.  Each     *)
(* property says which faults it does not survive.                         *)
(***************************************************************************)
EXTENDS CvParsing

AllFaults == {"worker", "api", "broker", "setup", "save", "slow"}

=============================================================================
