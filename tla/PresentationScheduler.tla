------------------------ MODULE PresentationScheduler ------------------------
(* PresentationScheduler of avatar/scheduler.py: the cues that own the       *)
(* avatar's layers and resources, the cues that wait for an audio marker,    *)
(* the cooldowns and rate limits, and the neutral baselines it falls back    *)
(* to. It has no task of its own: each action is one call, which expires     *)
(* what is over, does its work and restores the neutral layers. The steps    *)
(* of a call are functions on the scheduler's state.                         *)
EXTENDS Director, Sequences, FiniteSetsExt, SequencesExt

CONSTANTS Requests,                 \* the requests a run submits
          LayerOrder,               \* the layers sorted by value
          Anchors,                  \* audio marker keys
          MaxTime, MaxGeneration,   \* bounds: the clock and the generations
          MaxLag,                   \* bound: how late a request or a marker arrives
          GlobalLimit,              \* global_rate_limit
          LayerLimits,              \* layer_rate_limits, for some layers
          MaxPending, MaxMarkers    \* of SchedulerPolicy

Limits == [max : Nat \ {0}, window : Nat \ {0}]

\* A request's key is a semantic key, and its id is not one of the baselines'.
ASSUME RequestAssumption ==
    \A r \in Requests : r.key \in Keys /\ \A l \in Layers : r.id /= <<"neutral", l>>

ASSUME PolicyAssumption ==
    /\ LayerOrder \in Seq(Layers) /\ ToSet(LayerOrder) = Layers
    /\ GlobalLimit \in Limits
    /\ DOMAIN LayerLimits \subseteq Layers
    /\ \A l \in DOMAIN LayerLimits : LayerLimits[l] \in Limits
    /\ MaxPending \in Nat \ {0} /\ MaxMarkers \in Nat \ {0}
    /\ MaxLag \in Nat /\ Never > MaxTime + MaxLag

VARIABLES sched,    \* the scheduler; .events is what the call under way has emitted
          now,      \* its clock
          shown,    \* the cues the renderer shows: the events played in order
          used,     \* history: the layers the connected renderer has been given a cue for
          starts    \* history: when limited cues started, on all layers and on each one

vars == <<sched, now, shown, used, starts>>

Times == 0..MaxTime
NoCue == <<"none", "none">>

\* What a rate limit counts over: all layers, or one.
Scopes == {Layers} \cup {{l} : l \in Layers}

Init ==
    /\ sched = [generation |-> 0, connected |-> TRUE,
                active |-> {}, byLayer |-> [l \in Layers |-> NoCue],
                pending |-> <<>>, markers |-> <<>>,
                cooldown |-> [k \in Keys |-> 0],
                globalStarts |-> <<>>, layerStarts |-> [l \in Layers |-> <<>>],
                needsNeutral |-> {}, events |-> <<>>]
    /\ now = 0
    /\ shown = {}
    /\ used = {}
    /\ starts = [scope \in Scopes |-> <<>>]

-----------------------------------------------------------------------------
(* Helpers of the scheduler                                                 *)

ActiveIds(s) == {lease.cue.id : lease \in s.active}
PendingIds(s) == {s.pending[i].cue.id : i \in DOMAIN s.pending}
CuesOf(leases) == {lease.cue : lease \in leases}
LayersOf(leases) == {lease.cue.layer : lease \in leases}

\* The events of a call are batches: cues that start or stop one after the other.
Batch(kind, cues) == [kind |-> kind, cues |-> cues]
Emit(s, kind, cues) == [s EXCEPT !.events = Append(@, Batch(kind, cues))]

\* _remove_active of these leases, with the STOPPED event every caller adds.
StopAll(s, leases) ==
    LET gone(l) == \E lease \in leases : lease.cue.layer = l /\ lease.cue.id = s.byLayer[l]
    IN  [Emit(s, "stopped", CuesOf(leases)) EXCEPT
            !.active = @ \ leases,
            !.byLayer = [l \in Layers |-> IF gone(l) THEN NoCue ELSE @[l]]]

\* The layers they leave need their neutral.
Release(s, leases) == [StopAll(s, leases) EXCEPT !.needsNeutral = @ \cup LayersOf(leases)]

\* _conflicting_leases: the same layer or a shared resource.
ConflictingLeases(s, cue) ==
    {lease \in s.active : \/ lease.cue.layer = cue.layer
                          \/ lease.cue.resources \cap cue.resources /= {}}

\* Where the starts begin that a window still counts.
FirstWithin(times, window, time) ==
    Min({i \in DOMAIN times : times[i] + window > time} \cup {Len(times) + 1})

\* Seeded fault: starts leave the window one tick early.
PruneWindowEarly(times, window) == SubSeq(times, FirstWithin(times, window, now + 1), Len(times))

\* _prune_window
PruneWindow(times, window) == SubSeq(times, FirstWithin(times, window, now), Len(times))

LayerLimited(layer) == layer \in DOMAIN LayerLimits

\* _within_rate_limits prunes as it looks, and looks at the layer only if the global limit
\* leaves room.
PruneWindows(s, layer) ==
    LET global == [s EXCEPT !.globalStarts = PruneWindow(@, GlobalLimit.window)]
    IN  IF Len(global.globalStarts) < GlobalLimit.max /\ LayerLimited(layer)
        THEN [global EXCEPT !.layerStarts[layer] = PruneWindow(@, LayerLimits[layer].window)]
        ELSE global

WithinRateLimits(pruned, layer) ==
    /\ Len(pruned.globalStarts) < GlobalLimit.max
    /\ LayerLimited(layer) => Len(pruned.layerStarts[layer]) < LayerLimits[layer].max

\* _record_start, and the cooldown that starts with the cue.
RecordStart(s, cue) ==
    [s EXCEPT !.globalStarts = Append(@, now),
              !.layerStarts[cue.layer] = IF LayerLimited(cue.layer) THEN Append(@, now) ELSE @,
              !.cooldown[cue.cooldownKey] = IF cue.cooldown > 0 THEN now + cue.cooldown ELSE @]

Limited(cue) == ~cue.exempt /\ ~cue.neutral

\* A new lease on the cue's layer, which then needs no neutral.
Hold(s, cue) ==
    [Emit(s, "started", {cue}) EXCEPT
        !.active = @ \cup {[cue |-> cue, startedAt |-> now,
                            expiresAt |-> IF cue.lease = Never THEN Never ELSE now + cue.lease]},
        !.byLayer[cue.layer] = cue.id,
        !.needsNeutral = @ \ {cue.layer}]

\* Seeded fault: a layer that loses its cue to one of another layer is not marked.
StartForgetting(s, cue) == Hold(StopAll(s, ConflictingLeases(s, cue)), cue)

\* The end of _attempt_start: the cue takes its layer and its resources from the leases it
\* conflicts with, and the other layers these held need their neutral back.
Start(s, cue) == Hold(Release(s, ConflictingLeases(s, cue)), cue)

Blocked(s, cue) ==
    \E lease \in ConflictingLeases(s, cue) : lease.cue.priority > cue.priority

\* _attempt_start
AttemptStart(s, cue) ==
    LET pruned == PruneWindows(s, cue.layer)
    IN  IF \/ now > cue.notAfter
           \/ cue.generation /= s.generation
           \/ ~s.connected
           \/ Blocked(s, cue)
        THEN s
        ELSE IF ~Limited(cue) THEN Start(s, cue)
        ELSE IF now < s.cooldown[cue.cooldownKey] THEN s
        ELSE IF ~WithinRateLimits(pruned, cue.layer) THEN pruned
        ELSE RecordStart(Start(pruned, cue), cue)

\* _start_due: by due time, then priority, then age.
Before(pending, i, j) ==
    LET p == pending[i]
        q == pending[j]
    IN  \/ p.due < q.due
        \/ p.due = q.due /\ p.cue.priority > q.cue.priority
        \/ p.due = q.due /\ p.cue.priority = q.cue.priority /\ i < j

FirstDue(s) ==
    LET due == {i \in DOMAIN s.pending : s.pending[i].due <= now}
    IN  {i \in due : \A j \in due \ {i} : Before(s.pending, i, j)}

\* The first due cue leaves the queue, whether or not it can start.
StartFirstDue(s) ==
    IF FirstDue(s) = {} THEN s
    ELSE LET i == CHOOSE i \in FirstDue(s) : TRUE
         IN  AttemptStart([s EXCEPT !.pending = RemoveAt(@, i)], s.pending[i].cue)

StartDue(s) ==
    LET after[n \in 0..Len(s.pending)] == IF n = 0 THEN s ELSE StartFirstDue(after[n - 1])
    IN  after[Len(s.pending)]

\* The waiting cues whose TTL has not elapsed, in the same order.
Unexpired(pending) ==
    LET kept[n \in 0..Len(pending)] ==
            IF n = 0 THEN <<>>
            ELSE IF now <= pending[n].cue.notAfter THEN Append(kept[n - 1], pending[n])
            ELSE kept[n - 1]
    IN  kept[Len(pending)]

\* _expire
Expire(s) ==
    [Release(s, {lease \in s.active : lease.expiresAt <= now}) EXCEPT
        !.pending = Unexpired(@),
        !.cooldown = [k \in Keys |-> IF @[k] <= now THEN 0 ELSE @[k]]]

\* _restore_neutrals for one layer: a layer that is taken needs nothing more, one whose
\* neutral would conflict waits.
RestoreNeutral(s, layer) ==
    LET cue == NeutralCue(layer, s.generation)
    IN  IF layer \notin s.needsNeutral THEN s
        ELSE IF s.byLayer[layer] /= NoCue THEN [s EXCEPT !.needsNeutral = @ \ {layer}]
        ELSE IF ConflictingLeases(s, cue) /= {} THEN s
        ELSE Hold(s, cue)

RestoreNeutrals(s) ==
    LET after[n \in 0..Len(LayerOrder)] ==
            IF n = 0 THEN s ELSE RestoreNeutral(after[n - 1], LayerOrder[n])
    IN  IF s.connected THEN after[Len(LayerOrder)] ELSE s

-----------------------------------------------------------------------------
(* The calls                                                                *)

\* The renderer plays the events of a call in order: it shows what it showed before, or a
\* cue that started, unless the cue stopped afterwards.
Play(events) ==
    LET stops(c, j) == events[j].kind = "stopped" /\ c \in events[j].cues
        began(c, i) == IF i = 0 THEN c \in shown
                       ELSE events[i].kind = "started" /\ c \in events[i].cues
    IN  {c \in shown \cup UNION {events[i].cues : i \in DOMAIN events} :
            \E i \in 0..Len(events) : began(c, i) /\ \A j \in i + 1..Len(events) : ~stops(c, j)}

\* The limited cues that a call starts on the layers of a scope.
LimitedStarts(events, scope) ==
    {i \in DOMAIN events : /\ events[i].kind = "started"
                           /\ \E c \in events[i].cues : c.layer \in scope /\ Limited(c)}

\* n more starts at this time.
Extended(times, n) ==
    [i \in 1..Len(times) + n |-> IF i <= Len(times) THEN times[i] ELSE now]

\* The call leaves the scheduler in state s.
Becomes(s) ==
    /\ sched' = [s EXCEPT !.events = <<>>]
    /\ shown' = Play(s.events)
    /\ used' = IF s.connected THEN used \cup {c.layer : c \in shown'} ELSE {}
    /\ starts' = [scope \in Scopes |->
                    Extended(starts[scope], Cardinality(LimitedStarts(s.events, scope)))]
    /\ UNCHANGED now

\* _validate_submission
Admissible(s, cue) ==
    /\ s.connected
    /\ cue.generation = s.generation
    /\ now <= cue.notAfter
    /\ cue.id \notin ActiveIds(s) \cup PendingIds(s)

\* The due time of an audio-bound cue: Never while its marker has not come.
DueAt(s, cue) ==
    LET marked == {i \in DOMAIN s.markers : s.markers[i].key = cue.anchor}
    IN  IF marked = {} THEN Never ELSE s.markers[CHOOSE i \in marked : TRUE].at + cue.offset

\* submit. A full queue rejects an audio-bound cue even if its marker is already past.
Submitted(s, cue) ==
    IF ~Admissible(s, cue) THEN s
    ELSE IF cue.anchor = NoAnchor THEN AttemptStart(s, cue)
    ELSE IF Len(s.pending) >= MaxPending THEN s
    ELSE IF DueAt(s, cue) > now
    THEN [s EXCEPT !.pending = Append(@, [cue |-> cue, due |-> DueAt(s, cue)])]
    ELSE AttemptStart(s, cue)

\* What arrives is at most MaxLag old.
Recent == {t \in 0..now : t + MaxLag >= now}

Submit ==
    \E request \in Requests, generation \in 0..MaxGeneration, requestedAt \in Recent :
        LET cue == MakeCue(request, generation, requestedAt)
        IN  Becomes(RestoreNeutrals(Submitted(Expire(sched), cue)))

\* The newest markers, the one that was just set last.
Remember(markers, marker) ==
    LET same == {i \in DOMAIN markers : markers[i].key = marker.key}
        others == IF same = {} THEN markers ELSE RemoveAt(markers, CHOOSE i \in same : TRUE)
    IN  IF Len(others) < MaxMarkers THEN Append(others, marker) ELSE Append(Tail(others), marker)

\* notify_audio for the current generation, while connected; otherwise it does nothing.
NotifyAudio ==
    /\ sched.connected
    /\ \E key \in Anchors, at \in Recent :
          LET expired == Expire(sched)
              bound(p) == [cue |-> p.cue,
                           due |-> IF p.cue.anchor = key THEN at + p.cue.offset ELSE p.due]
              marked == [expired EXCEPT
                            !.markers = Remember(@, [key |-> key, at |-> at]),
                            !.pending = [i \in DOMAIN @ |-> bound(@[i])]]
          IN  Becomes(RestoreNeutrals(StartDue(marked)))

Tick == Becomes(RestoreNeutrals(StartDue(Expire(sched))))

\* Every lease goes and its layer needs its neutral.
Drop(s) == Release(s, s.active)

\* Seeded fault: the cues that wait for audio outlive their generation.
AdvanceGenerationKeeping ==
    \E generation \in sched.generation + 1..MaxGeneration :
        Becomes(RestoreNeutrals([Drop(sched) EXCEPT !.generation = generation]))

\* advance_generation
AdvanceGeneration ==
    \E generation \in sched.generation + 1..MaxGeneration :
        Becomes(RestoreNeutrals([Drop(sched) EXCEPT
            !.generation = generation, !.pending = <<>>, !.markers = <<>>]))

\* cancel: a pending or an active cue.
Cancel ==
    \E id \in {r.id : r \in Requests} :
        LET s == Expire(sched)
            waiting == {i \in DOMAIN s.pending : s.pending[i].cue.id = id}
            leases == {lease \in s.active : lease.cue.id = id}
        IN  Becomes(RestoreNeutrals(
                IF waiting /= {}
                THEN [s EXCEPT !.pending = RemoveAt(@, CHOOSE i \in waiting : TRUE)]
                ELSE Release(s, leases)))

\* reset_to_neutral: the operator's reset, which keeps the markers.
ResetToNeutral ==
    Becomes(RestoreNeutrals([Drop(sched) EXCEPT !.pending = <<>>, !.needsNeutral = Layers]))

\* disconnect, adapter_failed
Disconnect ==
    /\ sched.connected
    /\ Becomes([StopAll(sched, sched.active) EXCEPT
            !.connected = FALSE, !.pending = <<>>, !.markers = <<>>, !.needsNeutral = {}])

\* reconnect
Reconnect ==
    /\ ~sched.connected
    /\ Becomes(RestoreNeutrals([sched EXCEPT !.connected = TRUE, !.needsNeutral = Layers]))

\* accepts_adapter_result: the gate for a late acknowledgement of the renderer.
AcceptsAdapterResult(id, generation) ==
    /\ sched.connected
    /\ generation = sched.generation
    /\ \E lease \in sched.active : lease.cue.id = id /\ lease.cue.generation = generation

ClockAdvances ==
    /\ now < MaxTime
    /\ now' = now + 1
    /\ UNCHANGED <<sched, shown, used, starts>>

Next ==
    \/ Submit \/ NotifyAudio \/ Tick \/ AdvanceGeneration \/ Cancel
    \/ ResetToNeutral \/ Disconnect \/ Reconnect \/ ClockAdvances

Spec == Init /\ [][Next]_vars

-----------------------------------------------------------------------------
(* Properties                                                               *)

Cues ==
    {MakeCue(r, g, t) : r \in Requests, g \in 0..MaxGeneration, t \in Times}
        \cup {NeutralCue(l, g) : l \in Layers, g \in 0..MaxGeneration}

\* The renderer, which only sees the events of each call, shows exactly the leases the
\* scheduler holds: one cue a layer, no resource in two cues, none of an older generation,
\* nothing while it is disconnected. A cue that waits for audio is of the current generation
\* too, and the only acknowledgements accepts_adapter_result lets in are of cues on show. The
\* tables stay within the bounds of SchedulerPolicy, one marker a key.
RendererAgrees ==
    /\ shown = CuesOf(sched.active)
    /\ \A c, d \in shown :
          c /= d => c.layer /= d.layer /\ c.resources \cap d.resources = {}
    /\ \A c \in shown : c.generation = sched.generation /\ sched.byLayer[c.layer] = c.id
    /\ ~sched.connected => shown = {} /\ sched.pending = <<>>
    /\ \A i \in DOMAIN sched.pending : /\ sched.pending[i].cue.generation = sched.generation
                                       /\ sched.pending[i].cue.id \notin ActiveIds(sched)
    /\ \A c \in Cues : AcceptsAdapterResult(c.id, c.generation) <=>
          \E d \in shown : d.id = c.id /\ d.generation = c.generation
    /\ Len(sched.pending) <= MaxPending /\ Len(sched.markers) <= MaxMarkers
    /\ \A i, j \in DOMAIN sched.markers :
          sched.markers[i].key = sched.markers[j].key => i = j

\* A layer that the connected renderer was ever given a cue for is never left frozen on a cue
\* that is over: it has a lease, or it is marked as needing its neutral and what keeps the
\* neutral away is a lease in its way, whatever the order in which cues expired, were
\* preempted, cancelled or reset.
NoLayerForgotten ==
    \A l \in used :
        \/ \E lease \in sched.active : lease.cue.layer = l
        \/ /\ l \in sched.needsNeutral
           /\ ConflictingLeases(sched, NeutralCue(l, sched.generation)) /= {}

\* A start and the one a limit's maximum later are a window apart.
Spaced(times, limit) ==
    \A i \in DOMAIN times :
        i + limit.max \in DOMAIN times => times[i] + limit.window <= times[i + limit.max]

\* In every window of a rate limit, counted from the events the renderer got and not from
\* the scheduler's own deques, no more limited cues start than the limit allows, globally
\* and on each limited layer, although the deques are pruned only when a start is tried.
RateLimited ==
    /\ Spaced(starts[Layers], GlobalLimit)
    /\ \A l \in DOMAIN LayerLimits : Spaced(starts[{l}], LayerLimits[l])
=============================================================================
