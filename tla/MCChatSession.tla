---------------------------- MODULE MCChatSession ----------------------------
(***************************************************************************)
(* Instances of ChatSession for TLC.  The agendas are those the planner    *)
(* freezes, cut to the stages a run is about.                              *)
(***************************************************************************)
EXTENDS ChatSession, TLC

(* An interview in miniature, with two technical turns or, where requests   *)
(* interleave, with one between the warm-up and the behavioral turn.        *)
ShortAgenda  == <<"WARM_UP", "DEEP_DIVE", "BEHAVIORAL">>
TwoTechnical == <<"DEEP_DIVE", "CHALLENGE", "BEHAVIORAL">>

(* The zones a run tells apart: those the choice of the next question       *)
(* depends on, and just enough to run out of time.                          *)
PacingZones == {Opening, Reserve, Cutoff, Hard}
CoarseZones == {Opening, Cutoff, Abandoned}
RaceZones   == {Opening, Abandoned}

MsgSymmetry == Permutations(Msgs)
Symmetry == Permutations(Msgs) \cup Permutations(Requests)

(* Runs about the conversation leave the lobby and the presence marks alone. *)
InTheRoom == lobby = "fresh" /\ meta.left = "none" /\ meta.seen = "none"

=============================================================================
