---------------------------- MODULE MCVoiceAgent ----------------------------
(* Instances of VoiceAgent for TLC. *)
EXTENDS VoiceAgent

Load(p, c, r, k, s) ==
    [pieces |-> p, turns |-> IF p = 0 THEN 0 ELSE 1, choices |-> c,
     requests |-> r, kinds |-> k, sounds |-> s]

\* Text alone, text with mimics, requests at once, text with a request, and voices.
FiveLoads ==
    {Load(3, 0, 0, {}, 0), Load(2, 2, 0, {}, 0), Load(0, 0, 2, {"CameraSnapShotRequest"}, 0),
     Load(1, 0, 1, RequestTypes, 0), Load(0, 0, 0, {}, 3)}
=============================================================================
