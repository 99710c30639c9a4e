---------------------- MODULE MCPresentationScheduler ----------------------
(* Two layers over two resources. "nod" needs both resources, so it takes the    *)
(* other layer's cue away, and waits for an audio marker; "frown" has no binding *)
(* and falls back to "smile"; the third request speaks for the speech track and  *)
(* is exempt from the limits.                                                    *)
EXTENDS PresentationScheduler

MCLayers == {"expression", "motion"}
MCLayerOrder == <<"expression", "motion">>
MCKeys == {"smile", "frown", "nod", "neutralFace", "neutralBody"}
MCLayerOf == [k \in MCKeys |-> IF k \in {"nod", "neutralBody"} THEN "motion" ELSE "expression"]

Binding(key, resources, lease, cooldown) ==
    [key |-> key, resources |-> resources, lease |-> lease, cooldown |-> cooldown]

MCNeutral == [l \in MCLayers |->
    IF l = "motion" THEN Binding("neutralBody", {"body"}, 4, 0)
    ELSE Binding("neutralFace", {"face"}, 4, 0)]
MCCapabilities == [k \in {"smile", "nod"} |->
    IF k = "smile" THEN Binding("smile", {"face"}, 2, 0) ELSE Binding("nod", {"face", "body"}, 1, 1)]
MCFallbacks == [k \in {"frown"} |-> "smile"]

MCRequests ==
    {[id |-> <<"cue", "c1">>, key |-> "frown", source |-> "model", ttl |-> 1, lease |-> 0,
      anchor |-> "none", offset |-> 0],
     [id |-> <<"cue", "c2">>, key |-> "nod", source |-> "model", ttl |-> 2, lease |-> 0,
      anchor |-> "start", offset |-> 1],
     [id |-> <<"cue", "c3">>, key |-> "smile", source |-> "speech_sync", ttl |-> 1, lease |-> 1,
      anchor |-> "none", offset |-> 0]}

MCGlobalLimit == [max |-> 2, window |-> 2]
MCLayerLimits == [l \in {"motion"} |-> [max |-> 1, window |-> 2]]
=============================================================================
