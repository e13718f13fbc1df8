------------------------------ MODULE MCVoiceRoom ------------------------------
(* Instances of VoiceRoom for TLC.                                          *)
EXTENDS VoiceRoom

=============================================================================
