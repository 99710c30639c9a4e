---------------------------- MODULE MCVoiceInput ----------------------------
(* VoiceInput with frames of two bytes and two ticks and three detectors:    *)
(* one whose limit is met by a whole number of frames, one whose limit a     *)
(* frame can only exceed, and one that starts with a single loud frame and   *)
(* so splits long speech within one frame.                                   *)
EXTENDS VoiceInput

Config(startFrames, endFrames, preRollFrames, maxDuration, maxBytes, bargeIn) ==
    [startFrames |-> startFrames, endFrames |-> endFrames, preRollFrames |-> preRollFrames,
     maxDuration |-> maxDuration, maxBytes |-> maxBytes, bargeIn |-> bargeIn]

MCConfigs ==
    {Config(2, 2, 1, 8, 9, TRUE), Config(2, 1, 1, 9, 7, FALSE), Config(1, 2, 2, 5, 8, TRUE)}
=============================================================================
