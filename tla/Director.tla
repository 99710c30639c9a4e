------------------------------ MODULE Director ------------------------------
(* PerformanceDirector (avatar/director.py) over an AvatarCapabilityProfile  *)
(* (avatar/capabilities.py): how a request for a semantic key becomes a cue  *)
(* that the renderer of one avatar can play. Abstracted: adapter actions,    *)
(* blends and intensities, which no decision of the scheduler reads.         *)
EXTENDS Naturals, FiniteSets

CONSTANTS Layers,          \* PresentationLayer
          Keys,            \* semantic keys
          LayerOf,         \* the layer a key's namespace names
          Capabilities,    \* the profile's bindings: key -> binding
          NeutralBinding,  \* the neutral binding of each layer
          Fallbacks,       \* key -> key
          Suppressed,      \* suppressed_semantics of the style
          NoAnchor,        \* a request or a cue without an audio binding
          Never            \* a time no clock reaches: None for a lease or a TTL

\* AvatarCapabilityProfile.__post_init__: fallbacks stay in a layer and have no cycle, which
\* a rank that falls along every fallback expresses.
ValidProfile ==
    /\ LayerOf \in [Keys -> Layers]
    /\ DOMAIN Capabilities \subseteq Keys /\ DOMAIN Fallbacks \subseteq Keys
    /\ DOMAIN NeutralBinding = Layers
    /\ \A k \in DOMAIN Fallbacks : Fallbacks[k] \in Keys /\ LayerOf[Fallbacks[k]] = LayerOf[k]
    /\ \E rank \in [Keys -> 0..Cardinality(Keys)] :
          \A k \in DOMAIN Fallbacks : rank[Fallbacks[k]] < rank[k]

ASSUME ProfileAssumption == ValidProfile

\* AvatarCapabilityProfile.resolve: along the fallbacks to a binding, else the layer's neutral.
BindingOf[k \in Keys] ==
    IF k \in DOMAIN Capabilities THEN Capabilities[k]
    ELSE IF k \in DOMAIN Fallbacks THEN BindingOf[Fallbacks[k]]
    ELSE NeutralBinding[LayerOf[k]]

SourcePriority(source) ==
    CASE source = "reactive_idle" -> 10
      [] source = "game_event" -> 20
      [] source = "model" -> 30
      [] source = "interaction_state" -> 40
      [] source = "scripted_show" -> 50
      [] source = "speech_sync" -> 60
      [] source = "operator" -> 70

ExemptSources == {"operator", "speech_sync"}

\* PerformanceDirector.resolve: a suppressed semantic is played as neutral.
ResolvedBinding(request) ==
    IF request.key \in Suppressed THEN NeutralBinding[LayerOf[request.key]]
    ELSE BindingOf[request.key]

\* _make_cue. A request without a lease of its own (0) takes the binding's.
MakeCue(request, generation, requestedAt) ==
    LET binding == ResolvedBinding(request)
        layer == LayerOf[request.key]
        neutral == binding = NeutralBinding[layer]
    IN  [id |-> request.id, generation |-> generation, layer |-> layer,
         priority |-> SourcePriority(request.source),
         notAfter |-> requestedAt + request.ttl,
         lease |-> IF request.lease = 0 THEN binding.lease ELSE request.lease,
         resources |-> binding.resources,
         cooldownKey |-> binding.key,
         cooldown |-> IF neutral THEN 0 ELSE binding.cooldown,
         anchor |-> request.anchor, offset |-> request.offset,
         neutral |-> neutral,
         exempt |-> neutral \/ request.source \in ExemptSources]

\* neutral_cue: the baseline the scheduler restores by itself.
NeutralCue(layer, generation) ==
    [id |-> <<"neutral", layer>>, generation |-> generation, layer |-> layer,
     priority |-> SourcePriority("reactive_idle"),
     notAfter |-> Never, lease |-> Never,
     resources |-> NeutralBinding[layer].resources,
     cooldownKey |-> NeutralBinding[layer].key, cooldown |-> 0,
     anchor |-> NoAnchor, offset |-> 0, neutral |-> TRUE, exempt |-> TRUE]
=============================================================================
