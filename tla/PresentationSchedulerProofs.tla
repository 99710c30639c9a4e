--------------------- MODULE PresentationSchedulerProofs ---------------------
(* PresentationScheduler for any profile, layers, requests, limits and       *)
(* bounds: the renderer agrees with the scheduler, no layer is forgotten and *)
(* the rate limits hold. A call is a chain of stages (expire, start, restore *)
(* the neutrals); the invariant of a call is kept by each of them.           *)
EXTENDS PresentationScheduler, FiniteSetTheorems, SequenceTheorems, WellFoundedInduction, TLAPS

-----------------------------------------------------------------------------
(* Sequences and recursion                                                   *)

\* A sequence of whatever elements it has.
IsSequence(q) == q \in Seq({q[i] : i \in DOMAIN q})

LEMMA LeastNumber ==
    ASSUME NEW T, T \subseteq Nat, T /= {}
    PROVE  \E x \in T : \A y \in T : x <= y
<1>1. PICK x \in T : \A y \in T : <<y, x>> \notin OpToRel(<, Nat)
  BY NatLessThanWellFounded, WFMin, Zenon
<1>2. \A y \in T : ~(y < x)
  BY <1>1 DEF OpToRel
<1> QED BY <1>2

LEMMA SequenceOf ==
    ASSUME NEW S, NEW q \in Seq(S)
    PROVE  IsSequence(q)
<1>1. q \in [1..Len(q) -> {q[i] : i \in DOMAIN q}] /\ Len(q) \in Nat
  BY LenProperties
<1> QED BY <1>1, SeqDef DEF IsSequence

LEMMA EmptySequence == IsSequence(<<>>) /\ Len(<<>>) = 0 /\ DOMAIN <<>> = {}
<1>1. <<>> \in Seq({}) /\ Len(<<>>) = 0
  BY EmptySeq
<1>2. DOMAIN <<>> = 1..0
  BY <1>1, LenProperties
<1>3. 1..0 = {}
  OBVIOUS
<1> QED BY <1>1, <1>2, <1>3, SequenceOf

LEMMA SequenceFacts ==
    ASSUME NEW q, IsSequence(q)
    PROVE  Len(q) \in Nat /\ DOMAIN q = 1..Len(q)
  BY LenProperties DEF IsSequence

LEMMA AppendFacts ==
    ASSUME NEW q, IsSequence(q), NEW e
    PROVE  /\ IsSequence(Append(q, e))
           /\ Len(Append(q, e)) = Len(q) + 1
           /\ DOMAIN Append(q, e) = 1..Len(q) + 1
           /\ \A i \in 1..Len(q) : Append(q, e)[i] = q[i]
           /\ Append(q, e)[Len(q) + 1] = e
<1> DEFINE S == {q[i] : i \in DOMAIN q} \cup {e}
<1>1. q \in Seq(S) /\ e \in S
  BY SeqMonotonic DEF IsSequence
<1> HIDE DEF S
<1>2. /\ Append(q, e) \in Seq(S) /\ Len(Append(q, e)) = Len(q) + 1
      /\ \A i \in 1..Len(q) : Append(q, e)[i] = q[i]
      /\ Append(q, e)[Len(q) + 1] = e
  BY <1>1, AppendProperties
<1> QED BY <1>2, SequenceOf, LenProperties

LEMMA RemoveAtFacts ==
    ASSUME NEW q, IsSequence(q), NEW i \in 1..Len(q)
    PROVE  /\ IsSequence(RemoveAt(q, i))
           /\ Len(RemoveAt(q, i)) = Len(q) - 1
           /\ DOMAIN RemoveAt(q, i) = 1..Len(q) - 1
           /\ \A j \in 1..Len(q) - 1 : RemoveAt(q, i)[j] = IF j < i THEN q[j] ELSE q[j + 1]
<1> DEFINE S == {q[j] : j \in DOMAIN q}
           front == SubSeq(q, 1, i - 1)
           back == SubSeq(q, i + 1, Len(q))
<1>1. q \in Seq(S) /\ Len(q) \in Nat /\ i - 1 \in Int /\ i + 1 \in Int /\ \A j \in 1..Len(q) : q[j] \in S
  BY SequenceFacts DEF IsSequence
<1> HIDE DEF S
<1>2. /\ front \in Seq(S) /\ Len(front) = i - 1
      /\ \A j \in 1..i - 1 : front[j] = q[j]
  BY <1>1, SubSeqProperties
<1>3. /\ back \in Seq(S) /\ Len(back) = Len(q) - i
      /\ \A j \in 1..Len(q) - i : back[j] = q[i + j]
  BY <1>1, SubSeqProperties
<1>4. RemoveAt(q, i) = front \o back
  BY DEF RemoveAt
<1> HIDE DEF front, back
<1>5. /\ front \o back \in Seq(S) /\ Len(front \o back) = Len(q) - 1
      /\ \A j \in 1..Len(q) - 1 :
            (front \o back)[j] = IF j <= Len(front) THEN front[j] ELSE back[j - Len(front)]
  <2>1. /\ front \o back \in Seq(S) /\ Len(front \o back) = Len(front) + Len(back)
        /\ \A j \in 1..Len(front) + Len(back) :
              (front \o back)[j] = IF j <= Len(front) THEN front[j] ELSE back[j - Len(front)]
    BY <1>2, <1>3, ConcatProperties
  <2>2. Len(front) + Len(back) = Len(q) - 1
    BY <1>1, <1>2, <1>3
  <2> QED BY <2>1, <2>2
<1>6. ASSUME NEW j \in 1..Len(q) - 1
      PROVE  (front \o back)[j] = IF j < i THEN q[j] ELSE q[j + 1]
  <2>1. CASE j < i
    BY <2>1, <1>1, <1>2, <1>5
  <2>2. CASE ~(j < i)
    <3>1. j - Len(front) \in 1..Len(q) - i /\ j > Len(front) /\ i + (j - Len(front)) = j + 1
      BY <2>2, <1>1, <1>2
    <3>2. (front \o back)[j] = back[j - Len(front)]
      BY <3>1, <1>1, <1>2, <1>5
    <3> QED BY <3>1, <3>2, <2>2, <1>3
  <2> QED BY <2>1, <2>2
<1> QED BY <1>4, <1>5, <1>6, SequenceOf, LenProperties

\* What is left keeps its order, so different places were different places.
LEMMA RemoveAtSource ==
    ASSUME NEW q, IsSequence(q), NEW i \in 1..Len(q)
    PROVE  \E source \in [1..Len(q) - 1 -> (1..Len(q)) \ {i}] :
              /\ \A j \in 1..Len(q) - 1 : RemoveAt(q, i)[j] = q[source[j]]
              /\ \A j, k \in 1..Len(q) - 1 : source[j] = source[k] => j = k
<1> DEFINE source == [j \in 1..Len(q) - 1 |-> IF j < i THEN j ELSE j + 1]
<1>1. Len(q) \in Nat /\ \A j \in 1..Len(q) - 1 : RemoveAt(q, i)[j] = IF j < i THEN q[j] ELSE q[j + 1]
  BY SequenceFacts, RemoveAtFacts
<1>2. source \in [1..Len(q) - 1 -> (1..Len(q)) \ {i}]
  BY <1>1
<1>3. \A j \in 1..Len(q) - 1 : RemoveAt(q, i)[j] = q[source[j]]
  BY <1>1
<1>4. \A j, k \in 1..Len(q) - 1 : source[j] = source[k] => j = k
  BY <1>1
<1> QED BY <1>2, <1>3, <1>4

\* The recursion of Unexpired.
LEMMA UnexpiredRecursion ==
    ASSUME NEW q, Len(q) \in Nat
    PROVE  \E kept : /\ Unexpired(q) = kept[Len(q)]
                     /\ kept[0] = <<>>
                     /\ \A n \in 1..Len(q) : kept[n] = IF now <= q[n].cue.notAfter
                                                       THEN Append(kept[n - 1], q[n]) ELSE kept[n - 1]
<1> DEFINE Step(v, n) == IF now <= q[n].cue.notAfter THEN Append(v, q[n]) ELSE v
           Upto(f, n) == f = [i \in 0..n |-> IF i = 0 THEN <<>> ELSE Step(f[i - 1], i)]
<1> DEFINE kept == CHOOSE f : Upto(f, Len(q))
<1>1. Unexpired(q) = kept[Len(q)]
  BY DEF Unexpired
<1> HIDE DEF Step
<1>2. ASSUME NEW n \in Nat PROVE \E f : Upto(f, n)
  <2> DEFINE T == {k \in Nat : ~\E f : Upto(f, k)}
  <2>1. T \subseteq Nat /\ (T = {} => \E f : Upto(f, n))
    OBVIOUS
  <2> SUFFICES ASSUME T /= {} PROVE FALSE
    BY <2>1
  <2>2. PICK m \in T : \A k \in T : m <= k
    BY <2>1, LeastNumber
  <2>3. m /= 0
    <3> DEFINE f == [i \in 0..0 |-> <<>>]
    <3>1. Upto(f, 0)
      OBVIOUS
    <3> QED BY <3>1
  <2>4. m - 1 \in Nat /\ m - 1 \notin T
    <3> HIDE DEF T
    <3> QED BY <2>1, <2>2, <2>3
  <2>5. PICK f : Upto(f, m - 1)
    BY <2>4
  <2> DEFINE g == [i \in 0..m |-> IF i = m THEN Step(f[m - 1], m) ELSE f[i]]
  <2>6. \A i \in 0..m - 1 : f[i] = IF i = 0 THEN <<>> ELSE Step(f[i - 1], i)
    BY <2>5, Zenon
  <2>7. ASSUME NEW i \in 0..m
        PROVE  g[i] = IF i = 0 THEN <<>> ELSE Step(g[i - 1], i)
    BY <2>3, <2>4, <2>6
  <2>8. Upto(g, m)
    BY <2>7
  <2> QED BY <2>8
<1>3. Upto(kept, Len(q))
  BY <1>2
<1> HIDE DEF kept
<1>4. kept[0] = <<>> /\ \A n \in 1..Len(q) : kept[n] = Step(kept[n - 1], n)
  <2>1. \A n \in 0..Len(q) : kept[n] = IF n = 0 THEN <<>> ELSE Step(kept[n - 1], n)
    BY <1>3, Zenon
  <2> QED BY <2>1
<1> QED BY <1>1, <1>4 DEF Step

\* The recursion of StartDue.
LEMMA StartDueRecursion ==
    ASSUME NEW s, Len(s.pending) \in Nat
    PROVE  \E after : /\ StartDue(s) = after[Len(s.pending)]
                      /\ after[0] = s
                      /\ \A n \in 1..Len(s.pending) : after[n] = StartFirstDue(after[n - 1])
<1> DEFINE Step(v, n) == StartFirstDue(v)
           Upto(f, n) == f = [i \in 0..n |-> IF i = 0 THEN s ELSE Step(f[i - 1], i)]
<1> DEFINE after == CHOOSE f : Upto(f, Len(s.pending))
<1>1. StartDue(s) = after[Len(s.pending)]
  BY DEF StartDue
<1> HIDE DEF Step
<1>2. ASSUME NEW n \in Nat PROVE \E f : Upto(f, n)
  <2> DEFINE T == {k \in Nat : ~\E f : Upto(f, k)}
  <2>1. T \subseteq Nat /\ (T = {} => \E f : Upto(f, n))
    OBVIOUS
  <2> SUFFICES ASSUME T /= {} PROVE FALSE
    BY <2>1
  <2>2. PICK m \in T : \A k \in T : m <= k
    BY <2>1, LeastNumber
  <2>3. m /= 0
    <3> DEFINE f == [i \in 0..0 |-> s]
    <3>1. Upto(f, 0)
      OBVIOUS
    <3> QED BY <3>1
  <2>4. m - 1 \in Nat /\ m - 1 \notin T
    <3> HIDE DEF T
    <3> QED BY <2>1, <2>2, <2>3
  <2>5. PICK f : Upto(f, m - 1)
    BY <2>4
  <2> DEFINE g == [i \in 0..m |-> IF i = m THEN Step(f[m - 1], m) ELSE f[i]]
  <2>6. \A i \in 0..m - 1 : f[i] = IF i = 0 THEN s ELSE Step(f[i - 1], i)
    BY <2>5, Zenon
  <2>7. ASSUME NEW i \in 0..m
        PROVE  g[i] = IF i = 0 THEN s ELSE Step(g[i - 1], i)
    BY <2>3, <2>4, <2>6
  <2>8. Upto(g, m)
    BY <2>7
  <2> QED BY <2>8
<1>3. Upto(after, Len(s.pending))
  BY <1>2
<1> HIDE DEF after
<1>4. after[0] = s /\ \A n \in 1..Len(s.pending) : after[n] = Step(after[n - 1], n)
  <2>1. \A n \in 0..Len(s.pending) : after[n] = IF n = 0 THEN s ELSE Step(after[n - 1], n)
    BY <1>3, Zenon
  <2> QED BY <2>1
<1> QED BY <1>1, <1>4 DEF Step

\* The recursion of RestoreNeutrals.
LEMMA RestoreNeutralsRecursion ==
    ASSUME NEW s, s.connected
    PROVE  \E after : /\ RestoreNeutrals(s) = after[Len(LayerOrder)]
                      /\ after[0] = s
                      /\ \A n \in 1..Len(LayerOrder) :
                            after[n] = RestoreNeutral(after[n - 1], LayerOrder[n])
<1>0. Len(LayerOrder) \in Nat
  BY PolicyAssumption, LenProperties
<1> DEFINE Step(v, n) == RestoreNeutral(v, LayerOrder[n])
           Upto(f, n) == f = [i \in 0..n |-> IF i = 0 THEN s ELSE Step(f[i - 1], i)]
<1> DEFINE after == CHOOSE f : Upto(f, Len(LayerOrder))
<1>1. RestoreNeutrals(s) = after[Len(LayerOrder)]
  BY DEF RestoreNeutrals
<1> HIDE DEF Step
<1>2. ASSUME NEW n \in Nat PROVE \E f : Upto(f, n)
  <2> DEFINE T == {k \in Nat : ~\E f : Upto(f, k)}
  <2>1. T \subseteq Nat /\ (T = {} => \E f : Upto(f, n))
    OBVIOUS
  <2> SUFFICES ASSUME T /= {} PROVE FALSE
    BY <2>1
  <2>2. PICK m \in T : \A k \in T : m <= k
    BY <2>1, LeastNumber
  <2>3. m /= 0
    <3> DEFINE f == [i \in 0..0 |-> s]
    <3>1. Upto(f, 0)
      OBVIOUS
    <3> QED BY <3>1
  <2>4. m - 1 \in Nat /\ m - 1 \notin T
    <3> HIDE DEF T
    <3> QED BY <2>1, <2>2, <2>3
  <2>5. PICK f : Upto(f, m - 1)
    BY <2>4
  <2> DEFINE g == [i \in 0..m |-> IF i = m THEN Step(f[m - 1], m) ELSE f[i]]
  <2>6. \A i \in 0..m - 1 : f[i] = IF i = 0 THEN s ELSE Step(f[i - 1], i)
    BY <2>5, Zenon
  <2>7. ASSUME NEW i \in 0..m
        PROVE  g[i] = IF i = 0 THEN s ELSE Step(g[i - 1], i)
    BY <2>3, <2>4, <2>6
  <2>8. Upto(g, m)
    BY <2>7
  <2> QED BY <2>8
<1>3. Upto(after, Len(LayerOrder))
  BY <1>0, <1>2
<1> HIDE DEF after
<1>4. after[0] = s /\ \A n \in 1..Len(LayerOrder) : after[n] = Step(after[n - 1], n)
  <2>1. \A n \in 0..Len(LayerOrder) : after[n] = IF n = 0 THEN s ELSE Step(after[n - 1], n)
    BY <1>3, Zenon
  <2> QED BY <2>1
<1> QED BY <1>1, <1>4 DEF Step
-----------------------------------------------------------------------------
(* The invariant of a call                                                   *)

\* A scheduler state is a record of these fields.
IsRecord(s) ==
    s = [generation |-> s.generation, connected |-> s.connected, active |-> s.active,
         byLayer |-> s.byLayer, pending |-> s.pending, markers |-> s.markers,
         cooldown |-> s.cooldown, globalStarts |-> s.globalStarts,
         layerStarts |-> s.layerStarts, needsNeutral |-> s.needsNeutral, events |-> s.events]

Typed(s) ==
    /\ IsRecord(s)
    /\ s.byLayer = [l \in Layers |-> s.byLayer[l]]
    /\ IsSequence(s.pending) /\ IsSequence(s.markers) /\ IsSequence(s.events)
    /\ s.globalStarts \in Seq(Nat) /\ s.layerStarts \in [Layers -> Seq(Nat)]
    /\ s.needsNeutral \subseteq Layers

\* Leases own their layer and their resources alone, and _active_by_layer names them.
Exclusive(s) ==
    /\ \A x \in s.active : /\ x.cue.layer \in Layers
                           /\ x.cue.generation = s.generation
                           /\ s.byLayer[x.cue.layer] = x.cue.id
    /\ \A x, y \in s.active :
          x /= y => x.cue.layer /= y.cue.layer /\ x.cue.resources \cap y.cue.resources = {}
    /\ \A l \in Layers : s.byLayer[l] /= NoCue => \E x \in s.active : x.cue.layer = l

\* A cue that may still start: of this generation, and not a baseline.
Startable(s, cue) ==
    /\ cue.layer \in Layers /\ cue.generation = s.generation
    /\ \A l \in Layers : cue.id /= <<"neutral", l>>

\* A cue waits once, and not while it is active.
Waiting(s) ==
    /\ Len(s.pending) <= MaxPending
    /\ \A i \in 1..Len(s.pending) :
          Startable(s, s.pending[i].cue) /\ s.pending[i].cue.id \notin ActiveIds(s)
    /\ \A i, j \in 1..Len(s.pending) : s.pending[i].cue.id = s.pending[j].cue.id => i = j

Marked(s) ==
    /\ Len(s.markers) <= MaxMarkers
    /\ \A i, j \in 1..Len(s.markers) : s.markers[i].key = s.markers[j].key => i = j

Online(s) == s.connected
OfflineIsEmpty(s) == ~s.connected => s.active = {} /\ s.pending = <<>>

\* The renderer, once it has played what the call emitted so far.
Displayed(s) == Play(s.events) = CuesOf(s.active)

\* A layer that was used is taken or marked.
Covered(s) == s.connected => used \subseteq s.needsNeutral \cup LayersOf(s.active)

\* A deque is the end of the history; what it has dropped is out of the window.
Windowed(deque, times, limit) ==
    /\ Spaced(times, limit)
    /\ Len(deque) <= Len(times)
    /\ \A i \in 1..Len(deque) : deque[i] = times[Len(times) - Len(deque) + i]
    /\ \A i \in 1..Len(times) - Len(deque) : times[i] + limit.window <= now

StartsAfter(s, scope) == Extended(starts[scope], Cardinality(LimitedStarts(s.events, scope)))

Rated(s) ==
    /\ Windowed(s.globalStarts, StartsAfter(s, Layers), GlobalLimit)
    /\ \A l \in DOMAIN LayerLimits :
          Windowed(s.layerStarts[l], StartsAfter(s, {l}), LayerLimits[l])

Kept(s) ==
    /\ Typed(s) /\ Exclusive(s) /\ Waiting(s) /\ Marked(s)
    /\ OfflineIsEmpty(s) /\ Displayed(s) /\ Covered(s)

CallInv(s) == Kept(s) /\ Rated(s)

\* Between the calls.
History == now \in Nat /\ used \subseteq Layers /\ starts \in [Scopes -> Seq(Nat)]

IInv == History /\ CallInv(sched) /\ sched.events = <<>> /\ NoLayerForgotten

-----------------------------------------------------------------------------
(* What the renderer shows and what the limits count                         *)

LEMMA PlayNothing == Play(<<>>) = shown
<1>1. Len(<<>>) = 0 /\ DOMAIN <<>> = {} /\ 0..0 = {0} /\ 1..0 = {}
  BY EmptySequence
<1> QED BY <1>1 DEF Play

\* A cue that starts is shown, and the cues of a stop are not.
LEMMA PlayOneMore ==
    ASSUME NEW events, IsSequence(events), NEW C
    PROVE  /\ Play(Append(events, Batch("started", C))) = Play(events) \cup C
           /\ Play(Append(events, Batch("stopped", C))) = Play(events) \ C
<1> DEFINE stops(q, c, j) == q[j].kind = "stopped" /\ c \in q[j].cues
           began(q, c, i) == IF i = 0 THEN c \in shown
                             ELSE q[i].kind = "started" /\ c \in q[i].cues
           shows(q, c) == \E i \in 0..Len(q) :
                             began(q, c, i) /\ \A j \in i + 1..Len(q) : ~stops(q, c, j)
           N == Len(events)
<1>1. ASSUME NEW q, IsSequence(q), NEW c
      PROVE  c \in Play(q) <=> shows(q, c)
  <2>1. Len(q) \in Nat /\ DOMAIN q = 1..Len(q)
    BY SequenceFacts
  <2>2. shows(q, c) => c \in shown \cup UNION {q[i].cues : i \in DOMAIN q}
    BY <2>1
  <2> QED BY <2>2 DEF Play
<1>2. ASSUME NEW e, NEW c
      PROVE  shows(Append(events, e), c) <=>
                \/ e.kind = "started" /\ c \in e.cues
                \/ shows(events, c) /\ ~(e.kind = "stopped" /\ c \in e.cues)
  <2> DEFINE q == Append(events, e)
  <2>1. /\ N \in Nat /\ Len(q) = N + 1
        /\ \A i \in 1..N : q[i] = events[i]
        /\ q[N + 1] = e
    BY AppendFacts, SequenceFacts
  <2> HIDE DEF q
  <2>2. /\ \A i \in 0..N : began(q, c, i) <=> began(events, c, i)
        /\ \A j \in 1..N : stops(q, c, j) <=> stops(events, c, j)
        /\ began(q, c, N + 1) <=> e.kind = "started" /\ c \in e.cues
        /\ stops(q, c, N + 1) <=> e.kind = "stopped" /\ c \in e.cues
    BY <2>1
  <2> HIDE DEF stops, began
  <2>3. ASSUME NEW i \in 0..N
        PROVE  (\A j \in i + 1..Len(q) : ~stops(q, c, j)) <=>
                  /\ \A j \in i + 1..N : ~stops(events, c, j)
                  /\ ~stops(q, c, N + 1)
    BY <2>1, <2>2
  <2>4. ASSUME shows(q, c) PROVE began(q, c, N + 1) \/ (shows(events, c) /\ ~stops(q, c, N + 1))
    <3>1. PICK i \in 0..Len(q) : began(q, c, i) /\ \A j \in i + 1..Len(q) : ~stops(q, c, j)
      BY <2>4
    <3>2. CASE i \in 0..N
      BY <3>1, <3>2, <2>2, <2>3
    <3>3. CASE i = N + 1
      BY <3>1, <3>3, Zenon
    <3> QED BY <3>2, <3>3, <2>1
  <2>5. ASSUME began(q, c, N + 1) PROVE shows(q, c)
    <3>1. N + 1 \in 0..Len(q) /\ N + 1 + 1..Len(q) = {}
      BY <2>1
    <3> QED BY <3>1, <2>5
  <2>6. ASSUME shows(events, c), ~stops(q, c, N + 1) PROVE shows(q, c)
    <3>1. PICK i \in 0..N : began(events, c, i) /\ \A j \in i + 1..N : ~stops(events, c, j)
      BY <2>6
    <3>2. i \in 0..Len(q)
      BY <2>1
    <3> QED BY <3>1, <3>2, <2>2, <2>3, <2>6
  <2> QED BY <2>2, <2>4, <2>5, <2>6 DEF q
<1> HIDE DEF shows
<1>3. ASSUME NEW e, NEW c
      PROVE  c \in Play(Append(events, e)) <=>
                \/ e.kind = "started" /\ c \in e.cues
                \/ c \in Play(events) /\ ~(e.kind = "stopped" /\ c \in e.cues)
  BY <1>1, <1>2, AppendFacts
<1>4. \A c : c \in Play(Append(events, Batch("started", C))) <=> c \in Play(events) \cup C
  BY <1>3 DEF Batch
<1>5. \A c : c \in Play(Append(events, Batch("stopped", C))) <=> c \in Play(events) \ C
  BY <1>3 DEF Batch
<1> QED BY <1>4, <1>5

\* The starts a call counts on a scope after one more event.
LEMMA StartsOneMore ==
    ASSUME NEW events, IsSequence(events), NEW kind, NEW C, NEW scope
    PROVE  LET e == Batch(kind, C)
               before == LimitedStarts(events, scope)
               after == LimitedStarts(Append(events, e), scope)
               counts == kind = "started" /\ \E c \in C : c.layer \in scope /\ Limited(c)
           IN  /\ IsFiniteSet(before) /\ Cardinality(before) \in Nat
               /\ ~counts => after = before
               /\ counts => Cardinality(after) = Cardinality(before) + 1
<1> DEFINE e == Batch(kind, C)
           counting(x) == x.kind = "started" /\ \E c \in x.cues : c.layer \in scope /\ Limited(c)
           before == LimitedStarts(events, scope)
           after == LimitedStarts(Append(events, e), scope)
           N == Len(events)
<1>1. /\ N \in Nat /\ DOMAIN events = 1..N /\ DOMAIN Append(events, e) = 1..N + 1
      /\ \A i \in 1..N : Append(events, e)[i] = events[i]
      /\ Append(events, e)[N + 1] = e
  BY AppendFacts, SequenceFacts
<1>2. /\ before = {i \in 1..N : counting(events[i])}
      /\ after = {i \in 1..N + 1 : counting(Append(events, e)[i])}
  BY <1>1 DEF LimitedStarts
<1>3. IsFiniteSet(1..N) /\ before \subseteq 1..N
  BY <1>1, <1>2, FS_Interval
<1>4. IsFiniteSet(before) /\ Cardinality(before) \in Nat
  BY <1>3, FS_Subset, FS_CardinalityType
<1>5. after = IF counting(e) THEN before \cup {N + 1} ELSE before
  <2> HIDE DEF counting, e
  <2>1. \A i : i \in 1..N + 1 <=> i \in 1..N \/ i = N + 1
    BY <1>1
  <2> HIDE DEF before, after
  <2>2. \A i : i \in after <=> i \in before \/ (i = N + 1 /\ counting(e))
    BY <1>1, <1>2, <2>1
  <2> QED BY <2>2
<1>6. N + 1 \notin before
  BY <1>1, <1>3
<1>7. Cardinality(before \cup {N + 1}) = Cardinality(before) + 1
  BY <1>4, <1>6, FS_AddElement
<1> QED BY <1>4, <1>5, <1>7 DEF Batch

-----------------------------------------------------------------------------
(* The stages of a call: what they change                                    *)

\* _active_by_layer without the leases in X, and with a new one.
NamesLeft(s, X) ==
    [l \in Layers |-> IF \E x \in X : x.cue.layer = l /\ x.cue.id = s.byLayer[l] THEN NoCue
                      ELSE s.byLayer[l]]
NamesWith(s, cue) == [s.byLayer EXCEPT ![cue.layer] = cue.id]

LEMMA StopAllFields ==
    ASSUME NEW s, IsRecord(s), NEW X, NEW t, t = StopAll(s, X)
    PROVE  /\ IsRecord(t)
           /\ t.generation = s.generation /\ t.connected = s.connected
           /\ t.active = s.active \ X
           /\ t.byLayer = NamesLeft(s, X)
           /\ t.pending = s.pending /\ t.markers = s.markers /\ t.cooldown = s.cooldown
           /\ t.globalStarts = s.globalStarts /\ t.layerStarts = s.layerStarts
           /\ t.needsNeutral = s.needsNeutral
           /\ t.events = Append(s.events, Batch("stopped", CuesOf(X)))
<1> DEFINE e == Append(s.events, Batch("stopped", CuesOf(X)))
           b == NamesLeft(s, X)
<1>1. StopAll(s, X) = [[s EXCEPT !.events = e] EXCEPT !.active = s.active \ X, !.byLayer = b]
  BY DEF StopAll, Emit, NamesLeft, IsRecord
<1> HIDE DEF e, b
<1> QED BY <1>1 DEF IsRecord, e, b

LEMMA ReleaseFields ==
    ASSUME NEW s, IsRecord(s), NEW X, NEW t, t = Release(s, X)
    PROVE  /\ IsRecord(t)
           /\ t.generation = s.generation /\ t.connected = s.connected
           /\ t.active = s.active \ X
           /\ t.byLayer = NamesLeft(s, X)
           /\ t.pending = s.pending /\ t.markers = s.markers /\ t.cooldown = s.cooldown
           /\ t.globalStarts = s.globalStarts /\ t.layerStarts = s.layerStarts
           /\ t.needsNeutral = s.needsNeutral \cup LayersOf(X)
           /\ t.events = Append(s.events, Batch("stopped", CuesOf(X)))
<1> DEFINE u == StopAll(s, X)
<1>1. /\ IsRecord(u)
      /\ u.generation = s.generation /\ u.connected = s.connected
      /\ u.active = s.active \ X /\ u.byLayer = NamesLeft(s, X)
      /\ u.pending = s.pending /\ u.markers = s.markers /\ u.cooldown = s.cooldown
      /\ u.globalStarts = s.globalStarts /\ u.layerStarts = s.layerStarts
      /\ u.needsNeutral = s.needsNeutral
      /\ u.events = Append(s.events, Batch("stopped", CuesOf(X)))
  BY StopAllFields
<1>2. Release(s, X) = [u EXCEPT !.needsNeutral = u.needsNeutral \cup LayersOf(X)]
  BY <1>1 DEF Release, IsRecord
<1> HIDE DEF u
<1> QED BY <1>1, <1>2 DEF IsRecord, u

\* The lease Hold adds.
NewLease(cue) ==
    [cue |-> cue, startedAt |-> now,
     expiresAt |-> IF cue.lease = Never THEN Never ELSE now + cue.lease]

LeasesWith(s, cue) == s.active \cup {NewLease(cue)}
NeedsWithout(s, cue) == s.needsNeutral \ {cue.layer}
Started(cue) == Batch("started", {cue})

LEMMA HoldFields ==
    ASSUME NEW s, IsRecord(s), NEW cue, NEW t, t = Hold(s, cue)
    PROVE  /\ IsRecord(t)
           /\ t.generation = s.generation /\ t.connected = s.connected
           /\ t.active = LeasesWith(s, cue)
           /\ t.byLayer = NamesWith(s, cue)
           /\ t.pending = s.pending /\ t.markers = s.markers /\ t.cooldown = s.cooldown
           /\ t.globalStarts = s.globalStarts /\ t.layerStarts = s.layerStarts
           /\ t.needsNeutral = NeedsWithout(s, cue)
           /\ t.events = Append(s.events, Started(cue))
<1> DEFINE e == Append(s.events, Started(cue))
           a == LeasesWith(s, cue)
           b == NamesWith(s, cue)
           n == NeedsWithout(s, cue)
<1>1. Hold(s, cue) = [[s EXCEPT !.events = e] EXCEPT !.active = a, !.byLayer = b, !.needsNeutral = n]
  BY DEF Hold, Emit, IsRecord, NewLease, NamesWith, LeasesWith,
         NeedsWithout, Started
<1> HIDE DEF e, a, b, n
<1> QED BY <1>1 DEF IsRecord, e, a, b, n

-----------------------------------------------------------------------------
(* The stages of a call: what they keep                                      *)

LEMMA SameRates ==
    ASSUME NEW s, NEW t, Rated(s),
           t.globalStarts = s.globalStarts, t.layerStarts = s.layerStarts,
           \A scope : LimitedStarts(t.events, scope) = LimitedStarts(s.events, scope)
    PROVE  Rated(t)
<1>1. \A scope : StartsAfter(t, scope) = StartsAfter(s, scope)
  BY DEF StartsAfter
<1> QED BY <1>1 DEF Rated

\* The parts of the invariant that do not read the queues.
LEMMA SameLeases ==
    ASSUME NEW s, NEW t, Kept(s), Typed(t), Waiting(t), Marked(t), OfflineIsEmpty(t),
           t.generation = s.generation, t.connected = s.connected, t.active = s.active,
           t.byLayer = s.byLayer, t.needsNeutral = s.needsNeutral, t.events = s.events
    PROVE  Kept(t)
  BY DEF Kept, Exclusive, Displayed, Covered

LEMMA StopAllExclusive ==
    ASSUME NEW s, Typed(s), Exclusive(s), Displayed(s), NEW X, X \subseteq s.active
    PROVE  Exclusive(StopAll(s, X)) /\ Displayed(StopAll(s, X))
<1> DEFINE t == StopAll(s, X)
<1>1. IsRecord(s) /\ IsSequence(s.events)
  BY DEF Typed
<1>2. /\ t.generation = s.generation
      /\ t.active = s.active \ X
      /\ t.byLayer = NamesLeft(s, X)
      /\ t.events = Append(s.events, Batch("stopped", CuesOf(X)))
  BY <1>1, StopAllFields
<1> HIDE DEF t
<1>3. Exclusive(t)
  <2>1. ASSUME NEW x \in t.active
        PROVE  x.cue.layer \in Layers /\ x.cue.generation = t.generation /\ t.byLayer[x.cue.layer] = x.cue.id
    <3>1. x \in s.active /\ \A y \in X : y.cue.layer /= x.cue.layer
      BY <1>2 DEF Exclusive
    <3> QED BY <3>1, <1>2 DEF Exclusive, NamesLeft
  <2>2. ASSUME NEW l \in Layers, t.byLayer[l] /= NoCue
        PROVE  \E x \in t.active : x.cue.layer = l
    <3>1. t.byLayer[l] = s.byLayer[l] /\ ~\E x \in X : x.cue.layer = l /\ x.cue.id = s.byLayer[l]
      BY <1>2, <2>2 DEF NamesLeft
    <3>2. PICK x \in s.active : x.cue.layer = l
      BY <3>1, <2>2 DEF Exclusive
    <3>3. x \notin X
      BY <3>1, <3>2 DEF Exclusive
    <3> QED BY <3>2, <3>3, <1>2
  <2> QED BY <1>2, <2>1, <2>2 DEF Exclusive
<1>4. Displayed(t)
  <2>1. Play(t.events) = Play(s.events) \ CuesOf(X)
    BY <1>1, <1>2, PlayOneMore
  <2>2. \A x \in s.active, y \in X : x.cue = y.cue => x = y
    BY DEF Exclusive
  <2> QED BY <2>1, <2>2, <1>2 DEF Displayed, CuesOf
<1> QED BY <1>3, <1>4 DEF t

LEMMA StopAllRates ==
    ASSUME NEW s, Typed(s), Rated(s), NEW X
    PROVE  Rated(StopAll(s, X)) /\ Rated(Release(s, X))
<1>1. IsRecord(s) /\ IsSequence(s.events)
  BY DEF Typed
<1>2. \A scope : LimitedStarts(Append(s.events, Batch("stopped", CuesOf(X))), scope)
                    = LimitedStarts(s.events, scope)
  BY <1>1, StartsOneMore
<1>3. ASSUME NEW t, t = StopAll(s, X) \/ t = Release(s, X)
      PROVE  Rated(t)
  <2>1. /\ t.globalStarts = s.globalStarts /\ t.layerStarts = s.layerStarts
        /\ t.events = Append(s.events, Batch("stopped", CuesOf(X)))
    BY <1>1, <1>3, StopAllFields, ReleaseFields
  <2>2. \A scope : LimitedStarts(t.events, scope) = LimitedStarts(s.events, scope)
    BY <1>2, <2>1
  <2> QED BY <2>1, <2>2, SameRates
<1>4. Rated(StopAll(s, X)) /\ Rated(Release(s, X))
  BY <1>3
<1> QED BY <1>3, <1>4

\* Leases that end, with their layers marked.
LEMMA ReleaseKeeps ==
    ASSUME NEW s, CallInv(s), NEW X, X \subseteq s.active
    PROVE  CallInv(Release(s, X))
<1> DEFINE t == Release(s, X)
           u == StopAll(s, X)
<1>1. /\ Typed(s) /\ IsRecord(s) /\ Exclusive(s) /\ Displayed(s) /\ Waiting(s) /\ Marked(s)
      /\ OfflineIsEmpty(s) /\ Covered(s) /\ Rated(s) /\ IsSequence(s.events)
  BY DEF CallInv, Kept, Typed
<1>2. /\ IsRecord(t)
      /\ t.generation = s.generation /\ t.connected = s.connected
      /\ t.active = s.active \ X
      /\ t.byLayer = NamesLeft(s, X)
      /\ t.pending = s.pending /\ t.markers = s.markers
      /\ t.globalStarts = s.globalStarts /\ t.layerStarts = s.layerStarts
      /\ t.needsNeutral = s.needsNeutral \cup LayersOf(X)
      /\ t.events = Append(s.events, Batch("stopped", CuesOf(X)))
  BY <1>1, ReleaseFields
<1>3. /\ u.generation = s.generation /\ u.active = s.active \ X /\ u.events = t.events
      /\ u.byLayer = t.byLayer /\ t.byLayer = [l \in Layers |-> t.byLayer[l]]
  BY <1>1, <1>2, StopAllFields DEF NamesLeft
<1>4. Exclusive(u) /\ Displayed(u)
  BY <1>1, StopAllExclusive
<1>5. Rated(t)
  BY <1>1, StopAllRates
<1> HIDE DEF t, u
<1>6. Typed(t)
  <2>1. IsSequence(t.events)
    BY <1>1, <1>2, AppendFacts
  <2>2. LayersOf(X) \subseteq Layers
    BY <1>1 DEF Exclusive, LayersOf
  <2> QED BY <2>1, <2>2, <1>1, <1>2, <1>3 DEF Typed
<1>7. Exclusive(t) /\ Displayed(t)
  BY <1>2, <1>3, <1>4 DEF Exclusive, Displayed
<1>8. Waiting(t) /\ Marked(t) /\ OfflineIsEmpty(t)
  BY <1>1, <1>2 DEF Waiting, Startable, Marked, OfflineIsEmpty, ActiveIds
<1>9. Covered(t)
  BY <1>1, <1>2 DEF Covered, LayersOf
<1> QED BY <1>5, <1>6, <1>7, <1>8, <1>9 DEF CallInv, Kept, t

\* A cue that nothing conflicts with takes its layer; a limited one is not counted yet.
LEMMA HoldKeeps ==
    ASSUME NEW s, Kept(s), Online(s), NEW cue,
           cue.layer \in Layers, cue.generation = s.generation,
           ConflictingLeases(s, cue) = {}, cue.id \notin PendingIds(s)
    PROVE  Kept(Hold(s, cue)) /\ (Rated(s) /\ ~Limited(cue) => Rated(Hold(s, cue)))
<1> DEFINE t == Hold(s, cue)
           new == NewLease(cue)
<1>1. /\ Typed(s) /\ IsRecord(s) /\ Exclusive(s) /\ Displayed(s) /\ Waiting(s) /\ Marked(s)
      /\ OfflineIsEmpty(s) /\ Covered(s) /\ IsSequence(s.events) /\ IsSequence(s.pending)
  BY DEF Kept, Typed
<1>2. /\ IsRecord(t)
      /\ t.generation = s.generation /\ t.connected = s.connected
      /\ t.active = LeasesWith(s, cue)
      /\ t.byLayer = NamesWith(s, cue)
      /\ t.pending = s.pending /\ t.markers = s.markers
      /\ t.globalStarts = s.globalStarts /\ t.layerStarts = s.layerStarts
      /\ t.needsNeutral = NeedsWithout(s, cue)
      /\ t.events = Append(s.events, Started(cue))
  BY <1>1, HoldFields
<1>3. new.cue = cue /\ t.active = s.active \cup {new} /\ t.needsNeutral = s.needsNeutral \ {cue.layer}
  BY <1>2 DEF NewLease, LeasesWith, NeedsWithout
<1> HIDE DEF t, new
<1>4. /\ DOMAIN s.byLayer = Layers /\ t.byLayer[cue.layer] = cue.id
      /\ \A l \in Layers : l /= cue.layer => t.byLayer[l] = s.byLayer[l]
      /\ t.byLayer = [l \in Layers |-> t.byLayer[l]]
  BY <1>1, <1>2 DEF Typed, NamesWith
<1>5. \A x \in s.active : /\ x.cue.layer /= cue.layer
                          /\ x.cue.resources \cap cue.resources = {}
  BY DEF ConflictingLeases
<1>6. Typed(t)
  <2>1. IsSequence(t.events)
    BY <1>1, <1>2, AppendFacts
  <2> QED BY <2>1, <1>1, <1>2, <1>3, <1>4 DEF Typed
<1>7. Exclusive(t)
  <2>1. \A x \in t.active : /\ x.cue.layer \in Layers
                            /\ x.cue.generation = t.generation
                            /\ t.byLayer[x.cue.layer] = x.cue.id
    BY <1>1, <1>2, <1>3, <1>4, <1>5 DEF Exclusive
  <2>2. \A x, y \in t.active :
           x /= y => x.cue.layer /= y.cue.layer /\ x.cue.resources \cap y.cue.resources = {}
    BY <1>1, <1>2, <1>3, <1>5 DEF Exclusive
  <2>3. \A l \in Layers : t.byLayer[l] /= NoCue => \E x \in t.active : x.cue.layer = l
    BY <1>1, <1>2, <1>3, <1>4 DEF Exclusive
  <2> QED BY <2>1, <2>2, <2>3 DEF Exclusive
<1>8. Displayed(t)
  BY <1>1, <1>2, <1>3, PlayOneMore DEF Started, Displayed, CuesOf
<1>9. Waiting(t)
  <2>1. \A i \in 1..Len(s.pending) : s.pending[i].cue.id /= cue.id
    BY <1>1, SequenceFacts DEF PendingIds
  <2>2. ActiveIds(t) = ActiveIds(s) \cup {cue.id}
    BY <1>2, <1>3 DEF ActiveIds
  <2> QED BY <2>1, <2>2, <1>1, <1>2 DEF Waiting, Startable
<1>10. Marked(t) /\ OfflineIsEmpty(t)
  BY <1>1, <1>2 DEF Marked, OfflineIsEmpty, Online
<1>11. Covered(t)
  BY <1>1, <1>2, <1>3 DEF Covered, LayersOf
<1>12. ASSUME Rated(s), ~Limited(cue) PROVE Rated(t)
  <2>1. \A scope : LimitedStarts(t.events, scope) = LimitedStarts(s.events, scope)
    BY <1>1, <1>2, <1>12, StartsOneMore DEF Started
  <2> QED BY <2>1, <1>2, <1>12, SameRates
<1> QED BY <1>6, <1>7, <1>8, <1>9, <1>10, <1>11, <1>12 DEF Kept, t

-----------------------------------------------------------------------------
(* The rate windows                                                          *)

\* A history with one more start, now.
OneMore(times, more) ==
    /\ Len(more) = Len(times) + 1
    /\ \A i \in 1..Len(times) : more[i] = times[i]
    /\ more[Len(times) + 1] = now

LEMMA ExtendedFacts ==
    ASSUME History, NEW times \in Seq(Nat), NEW n \in Nat
    PROVE  /\ Extended(times, n) \in Seq(Nat)
           /\ Len(Extended(times, n)) = Len(times) + n
           /\ OneMore(Extended(times, n), Extended(times, n + 1))
<1>1. Len(times) \in Nat /\ now \in Nat /\ \A i \in 1..Len(times) : times[i] \in Nat
  BY ElementOfSeq, LenProperties DEF History
<1>2. ASSUME NEW m \in Nat
      PROVE  /\ Extended(times, m) \in Seq(Nat)
             /\ Len(Extended(times, m)) = Len(times) + m
             /\ \A i \in 1..Len(times) + m :
                   Extended(times, m)[i] = IF i <= Len(times) THEN times[i] ELSE now
  <2>1. Len(times) + m \in Nat
    BY <1>1
  <2>2. Extended(times, m) \in [1..Len(times) + m -> Nat]
    BY <1>1, <2>1 DEF Extended
  <2>3. Extended(times, m) \in Seq(Nat)
    BY <2>1, <2>2, SeqDef
  <2>4. DOMAIN Extended(times, m) = 1..Len(Extended(times, m)) /\ Len(Extended(times, m)) \in Nat
    BY <2>3, LenProperties
  <2>5. Len(Extended(times, m)) = Len(times) + m
    BY <2>1, <2>2, <2>4
  <2> QED BY <2>3, <2>5 DEF Extended
<1> DEFINE later == Extended(times, n)
           more == Extended(times, n + 1)
<1>3. /\ later \in Seq(Nat) /\ Len(later) = Len(times) + n
      /\ \A i \in 1..Len(times) + n : later[i] = IF i <= Len(times) THEN times[i] ELSE now
  BY <1>2
<1>4. n + 1 \in Nat
  OBVIOUS
<1>5. /\ more \in Seq(Nat) /\ Len(more) = Len(times) + (n + 1)
      /\ \A i \in 1..Len(times) + (n + 1) : more[i] = IF i <= Len(times) THEN times[i] ELSE now
  BY <1>2, <1>4
<1> HIDE DEF later, more
<1>6. Len(more) = Len(later) + 1
  BY <1>1, <1>3, <1>5
<1>7. ASSUME NEW i \in 1..Len(later) PROVE more[i] = later[i]
  <2>1. i \in 1..Len(times) + n /\ i \in 1..Len(times) + (n + 1)
    BY <1>1, <1>3
  <2> QED BY <2>1, <1>3, <1>5
<1>8. more[Len(later) + 1] = now
  <2>1. Len(later) + 1 \in 1..Len(times) + (n + 1) /\ ~(Len(later) + 1 <= Len(times))
    BY <1>1, <1>3
  <2> QED BY <2>1, <1>5
<1> QED BY <1>3, <1>6, <1>7, <1>8 DEF later, more, OneMore

\* _prune_window drops a prefix, all of it out of the window.
LEMMA PruneFacts ==
    ASSUME History, NEW q \in Seq(Nat), NEW w \in Nat
    PROVE  LET pruned == PruneWindow(q, w)
           IN  /\ pruned \in Seq(Nat) /\ Len(pruned) <= Len(q)
               /\ \A i \in 1..Len(pruned) : pruned[i] = q[Len(q) - Len(pruned) + i]
               /\ \A i \in 1..Len(q) - Len(pruned) : q[i] + w <= now
<1> DEFINE N == Len(q)
           T == {i \in DOMAIN q : q[i] + w > now} \cup {N + 1}
           k == FirstWithin(q, w, now)
<1>1. N \in Nat /\ DOMAIN q = 1..N /\ (\A i \in 1..N : q[i] \in Nat) /\ now \in Nat
  BY LenProperties, ElementOfSeq DEF History
<1>2. T \subseteq 1..N + 1 /\ T \subseteq Nat /\ T /= {}
  BY <1>1
<1>3. k \in T /\ \A i \in T : k <= i
  BY <1>2, LeastNumber DEF FirstWithin, Min
<1>4. k \in 1..N + 1
  BY <1>2, <1>3
<1>5. \A i \in 1..k - 1 : q[i] + w <= now
  <2> SUFFICES ASSUME NEW i \in 1..k - 1, q[i] + w > now PROVE FALSE
    BY <1>1, <1>4
  <2>1. i \in T
    BY <1>1, <1>4
  <2> QED BY <1>3, <1>4, <2>1
<1>6. PruneWindow(q, w) = SubSeq(q, k, N)
  BY DEF PruneWindow
<1> HIDE DEF T, k
<1>7. /\ SubSeq(q, k, N) \in Seq(Nat)
      /\ Len(SubSeq(q, k, N)) = IF k <= N THEN N - k + 1 ELSE 0
      /\ \A i \in 1..N - k + 1 : SubSeq(q, k, N)[i] = q[k + i - 1]
  <2>1. k \in Int /\ N \in Int /\ \A i \in k..N : q[i] \in Nat
    BY <1>1, <1>4
  <2> HIDE DEF N
  <2> QED BY <2>1, SubSeqProperties
<1> DEFINE pruned == SubSeq(q, k, N)
<1> HIDE DEF N
<1>8. Len(pruned) = N - k + 1 /\ N - Len(pruned) = k - 1
  BY <1>1, <1>4, <1>7
<1> HIDE DEF pruned
<1>9. ASSUME NEW i \in 1..Len(pruned) PROVE pruned[i] = q[N - Len(pruned) + i]
  <2>1. i \in 1..N - k + 1 /\ k + i - 1 = N - Len(pruned) + i
    BY <1>1, <1>4, <1>8
  <2> QED BY <1>7, <2>1 DEF pruned
<1>10. /\ pruned \in Seq(Nat) /\ Len(pruned) <= N
       /\ \A i \in 1..N - Len(pruned) : q[i] + w <= now
  BY <1>1, <1>4, <1>5, <1>7, <1>8 DEF pruned
<1> QED BY <1>6, <1>9, <1>10 DEF pruned, N

LEMMA PruneWindowed ==
    ASSUME History, NEW q \in Seq(Nat), NEW times \in Seq(Nat), NEW limit \in Limits,
           Windowed(q, times, limit)
    PROVE  Windowed(PruneWindow(q, limit.window), times, limit)
<1> DEFINE p == PruneWindow(q, limit.window)
           N == Len(times)
<1>1. limit.window \in Nat
  BY DEF Limits
<1>2. /\ p \in Seq(Nat) /\ Len(p) <= Len(q)
      /\ \A i \in 1..Len(p) : p[i] = q[Len(q) - Len(p) + i]
      /\ \A i \in 1..Len(q) - Len(p) : q[i] + limit.window <= now
  BY <1>1, PruneFacts
<1>3. N \in Nat /\ Len(q) \in Nat /\ Len(p) \in Nat
  BY <1>2, LenProperties
<1> HIDE DEF p, N
<1>4. /\ Len(q) <= N
      /\ \A i \in 1..Len(q) : q[i] = times[N - Len(q) + i]
      /\ \A i \in 1..N - Len(q) : times[i] + limit.window <= now
  BY DEF Windowed, N
<1>5. ASSUME NEW i \in 1..Len(p) PROVE p[i] = times[N - Len(p) + i]
  <2>1. /\ Len(q) - Len(p) + i \in 1..Len(q)
        /\ N - Len(q) + (Len(q) - Len(p) + i) = N - Len(p) + i
    BY <1>2, <1>3
  <2> QED BY <1>2, <1>4, <2>1
<1>6. ASSUME NEW i \in 1..N - Len(p) PROVE times[i] + limit.window <= now
  <2>1. CASE i <= N - Len(q)
    BY <1>3, <1>4, <2>1
  <2>2. CASE i > N - Len(q)
    <3>1. /\ i - (N - Len(q)) \in 1..Len(q) - Len(p) /\ i - (N - Len(q)) \in 1..Len(q)
          /\ N - Len(q) + (i - (N - Len(q))) = i
      BY <1>2, <1>3, <2>2
    <3> QED BY <1>2, <1>4, <3>1
  <2> QED BY <1>3, <2>1, <2>2
<1>7. Spaced(times, limit) /\ Len(p) <= N
  BY <1>2, <1>3, <1>4 DEF Windowed
<1> QED BY <1>5, <1>6, <1>7 DEF Windowed, p, N

\* A start that the deque has room for: what is a maximum of starts back has left it.
LEMMA RecordWindowed ==
    ASSUME History, NEW q \in Seq(Nat), NEW times \in Seq(Nat), NEW more \in Seq(Nat),
           NEW limit \in Limits, Windowed(q, times, limit), Len(q) < limit.max,
           OneMore(times, more)
    PROVE  Windowed(Append(q, now), more, limit)
<1> USE DEF OneMore
<1> DEFINE N == Len(times)
           K == Len(q)
           r == Append(q, now)
<1>1. N \in Nat /\ K \in Nat /\ now \in Nat /\ limit.window \in Nat /\ limit.max \in Nat \ {0}
  BY LenProperties DEF History, Limits
<1>2. /\ Len(r) = K + 1 /\ (\A i \in 1..K : r[i] = q[i]) /\ r[K + 1] = now
  BY <1>1, AppendProperties
<1>3. DOMAIN more = 1..N + 1 /\ DOMAIN times = 1..N /\ \A i \in 1..N : times[i] \in Nat
  BY LenProperties, ElementOfSeq
<1>4. /\ K <= N
      /\ \A i \in 1..K : q[i] = times[N - K + i]
      /\ \A i \in 1..N - K : times[i] + limit.window <= now
      /\ \A i \in 1..N : i + limit.max \in 1..N => times[i] + limit.window <= times[i + limit.max]
  BY <1>3 DEF Windowed, Spaced
<1> HIDE DEF N, K, r
<1>5. ASSUME NEW i \in 1..N + 1, i + limit.max \in 1..N + 1
      PROVE  more[i] + limit.window <= more[i + limit.max]
  <2>1. i \in 1..N /\ more[i] = times[i]
    <3>1. i \in 1..N
      BY <1>1, <1>5
    <3> QED BY <3>1 DEF N
  <2>2. CASE i + limit.max \in 1..N
    <3>1. more[i + limit.max] = times[i + limit.max]
      BY <2>2 DEF N
    <3> QED BY <1>4, <2>1, <2>2, <3>1
  <2>3. CASE i + limit.max = N + 1
    <3>1. i \in 1..N - K
      BY <1>1, <1>4, <2>1, <2>3 DEF K
    <3>2. more[i + limit.max] = now
      BY <2>3 DEF N
    <3> QED BY <1>4, <2>1, <3>1, <3>2
  <2>4. i + limit.max \in 1..N \/ i + limit.max = N + 1
    BY <1>1, <1>5
  <2> QED BY <2>2, <2>3, <2>4
<1>6. ASSUME NEW i \in 1..K + 1 PROVE r[i] = more[N - K + i]
  <2>1. CASE i <= K
    <3>1. i \in 1..K /\ N - K + i \in 1..N
      BY <1>1, <1>4, <2>1
    <3> QED BY <1>2, <1>4, <3>1 DEF N
  <2>2. CASE i = K + 1
    <3>1. N - K + i = N + 1
      BY <1>1, <2>2
    <3> QED BY <1>2, <2>2, <3>1 DEF N
  <2> QED BY <1>1, <2>1, <2>2
<1>7. ASSUME NEW i \in 1..N - K PROVE more[i] + limit.window <= now
  <2>1. i \in 1..N
    BY <1>1, <1>4
  <2> QED BY <1>4, <2>1 DEF N
<1>8. Spaced(more, limit)
  BY <1>3, <1>5 DEF Spaced
<1>9. Len(more) = N + 1 /\ K + 1 <= N + 1
  BY <1>1, <1>4 DEF N
<1>10. /\ Len(r) <= Len(more)
       /\ \A i \in 1..Len(r) : r[i] = more[Len(more) - Len(r) + i]
       /\ \A i \in 1..Len(more) - Len(r) : more[i] + limit.window <= now
  <2>1. Len(r) <= Len(more)
    BY <1>2, <1>9
  <2>2. Len(more) - Len(r) = N - K /\ 1..Len(r) = 1..K + 1
    BY <1>1, <1>2, <1>9
  <2>3. \A i \in 1..Len(r) : r[i] = more[Len(more) - Len(r) + i]
    BY <1>6, <2>2, Zenon
  <2>4. \A i \in 1..Len(more) - Len(r) : more[i] + limit.window <= now
    BY <1>7, <2>2, Zenon
  <2> QED BY <2>1, <2>3, <2>4
<1> QED BY <1>8, <1>10 DEF Windowed, r

LEMMA StartsTyped ==
    ASSUME History, NEW s, IsSequence(s.events), NEW scope \in Scopes
    PROVE  StartsAfter(s, scope) \in Seq(Nat)
<1>1. Cardinality(LimitedStarts(s.events, scope)) \in Nat
  BY StartsOneMore
<1>2. starts[scope] \in Seq(Nat)
  BY DEF History
<1> QED BY <1>1, <1>2, ExtendedFacts DEF StartsAfter

LayerPruned(s, layer) ==
    [s.layerStarts EXCEPT ![layer] = PruneWindow(s.layerStarts[layer], LayerLimits[layer].window)]

LEMMA PruneWindowsFields ==
    ASSUME NEW s, IsRecord(s), NEW layer, NEW t, t = PruneWindows(s, layer)
    PROVE  /\ IsRecord(t)
           /\ t.generation = s.generation /\ t.connected = s.connected
           /\ t.active = s.active /\ t.byLayer = s.byLayer
           /\ t.pending = s.pending /\ t.markers = s.markers /\ t.cooldown = s.cooldown
           /\ t.globalStarts = PruneWindow(s.globalStarts, GlobalLimit.window)
           /\ \/ t.layerStarts = s.layerStarts
              \/ LayerLimited(layer) /\ t.layerStarts = LayerPruned(s, layer)
           /\ t.needsNeutral = s.needsNeutral /\ t.events = s.events
<1> DEFINE g == PruneWindow(s.globalStarts, GlobalLimit.window)
           u == [s EXCEPT !.globalStarts = g]
<1>1. /\ IsRecord(u)
      /\ u.generation = s.generation /\ u.connected = s.connected
      /\ u.active = s.active /\ u.byLayer = s.byLayer
      /\ u.pending = s.pending /\ u.markers = s.markers /\ u.cooldown = s.cooldown
      /\ u.globalStarts = g /\ u.layerStarts = s.layerStarts
      /\ u.needsNeutral = s.needsNeutral /\ u.events = s.events
  <2> HIDE DEF g
  <2> QED BY DEF IsRecord
<1>2. \/ t = u
      \/ LayerLimited(layer) /\ t = [u EXCEPT !.layerStarts = LayerPruned(s, layer)]
  BY <1>1 DEF PruneWindows, LayerPruned, IsRecord
<1> HIDE DEF u
<1>3. CASE t = u
  BY <1>1, <1>3
<1>4. CASE LayerLimited(layer) /\ t = [u EXCEPT !.layerStarts = LayerPruned(s, layer)]
  <2> HIDE DEF g
  <2>1. /\ IsRecord(t) /\ t.layerStarts = LayerPruned(s, layer)
        /\ t.generation = u.generation /\ t.connected = u.connected
        /\ t.active = u.active /\ t.byLayer = u.byLayer
        /\ t.pending = u.pending /\ t.markers = u.markers /\ t.cooldown = u.cooldown
        /\ t.globalStarts = u.globalStarts
        /\ t.needsNeutral = u.needsNeutral /\ t.events = u.events
    BY <1>1, <1>4 DEF IsRecord
  <2> QED BY <1>1, <1>4, <2>1 DEF g
<1> QED BY <1>2, <1>3, <1>4

LEMMA PruneWindowsKeeps ==
    ASSUME History, NEW s, CallInv(s), NEW layer \in Layers
    PROVE  CallInv(PruneWindows(s, layer))
<1> DEFINE t == PruneWindows(s, layer)
<1>1. /\ Kept(s) /\ Rated(s) /\ Typed(s) /\ IsRecord(s) /\ Waiting(s) /\ Marked(s)
      /\ OfflineIsEmpty(s) /\ IsSequence(s.events)
  BY DEF CallInv, Kept, Typed
<1>2. /\ IsRecord(t)
      /\ t.generation = s.generation /\ t.connected = s.connected
      /\ t.active = s.active /\ t.byLayer = s.byLayer
      /\ t.pending = s.pending /\ t.markers = s.markers
      /\ t.globalStarts = PruneWindow(s.globalStarts, GlobalLimit.window)
      /\ \/ t.layerStarts = s.layerStarts
         \/ LayerLimited(layer) /\ t.layerStarts = LayerPruned(s, layer)
      /\ t.needsNeutral = s.needsNeutral /\ t.events = s.events
  BY <1>1, PruneWindowsFields
<1> HIDE DEF t
<1>3. /\ GlobalLimit \in Limits /\ GlobalLimit.window \in Nat
      /\ \A l \in DOMAIN LayerLimits : l \in Layers /\ LayerLimits[l] \in Limits
  BY PolicyAssumption DEF Limits
<1>4. s.globalStarts \in Seq(Nat) /\ s.layerStarts \in [Layers -> Seq(Nat)]
  BY <1>1 DEF Typed
<1>5. /\ t.globalStarts \in Seq(Nat)
      /\ Windowed(t.globalStarts, StartsAfter(s, Layers), GlobalLimit)
  <2>1. StartsAfter(s, Layers) \in Seq(Nat)
    BY <1>1, StartsTyped DEF Scopes
  <2> QED BY <1>1, <1>2, <1>3, <1>4, <2>1, PruneFacts, PruneWindowed DEF Rated
<1>6. /\ t.layerStarts \in [Layers -> Seq(Nat)]
      /\ \A l \in DOMAIN LayerLimits : Windowed(t.layerStarts[l], StartsAfter(s, {l}), LayerLimits[l])
  <2>1. CASE t.layerStarts = s.layerStarts
    BY <2>1, <1>1, <1>4 DEF Rated
  <2>2. CASE LayerLimited(layer) /\ t.layerStarts = LayerPruned(s, layer)
    <3> DEFINE p == PruneWindow(s.layerStarts[layer], LayerLimits[layer].window)
    <3>1. LayerLimits[layer] \in Limits /\ LayerLimits[layer].window \in Nat
      BY <1>3, <2>2 DEF LayerLimited, Limits
    <3>2. StartsAfter(s, {layer}) \in Seq(Nat)
      BY <1>1, StartsTyped DEF Scopes
    <3>3. s.layerStarts[layer] \in Seq(Nat)
      BY <1>4
    <3>4. Windowed(s.layerStarts[layer], StartsAfter(s, {layer}), LayerLimits[layer])
      BY <1>1, <2>2 DEF Rated, LayerLimited
    <3>5. p \in Seq(Nat)
      BY <3>1, <3>3, PruneFacts
    <3>6. Windowed(p, StartsAfter(s, {layer}), LayerLimits[layer])
      BY <3>1, <3>2, <3>3, <3>4, PruneWindowed
    <3>7. t.layerStarts = [s.layerStarts EXCEPT ![layer] = p]
      BY <2>2 DEF LayerPruned
    <3> HIDE DEF p
    <3>8. /\ t.layerStarts \in [Layers -> Seq(Nat)] /\ t.layerStarts[layer] = p
          /\ \A l \in Layers : l /= layer => t.layerStarts[l] = s.layerStarts[l]
      BY <1>4, <3>5, <3>7
    <3>9. \A l \in DOMAIN LayerLimits : Windowed(s.layerStarts[l], StartsAfter(s, {l}), LayerLimits[l])
      BY <1>1 DEF Rated
    <3>10. ASSUME NEW l \in DOMAIN LayerLimits
           PROVE  Windowed(t.layerStarts[l], StartsAfter(s, {l}), LayerLimits[l])
      <4>1. CASE l = layer
        BY <4>1, <3>6, <3>8
      <4>2. CASE l /= layer
        BY <4>2, <3>8, <3>9, <1>3
      <4> QED BY <4>1, <4>2
    <3> QED BY <3>8, <3>10
  <2> QED BY <1>2, <2>1, <2>2
<1>7. \A scope : StartsAfter(t, scope) = StartsAfter(s, scope)
  BY <1>2 DEF StartsAfter
<1>8. Rated(t)
  BY <1>5, <1>6, <1>7 DEF Rated
<1>9. Typed(t)
  BY <1>1, <1>2, <1>5, <1>6 DEF Typed
<1>10. Waiting(t) /\ Marked(t) /\ OfflineIsEmpty(t)
  BY <1>1, <1>2 DEF Waiting, Startable, Marked, OfflineIsEmpty, ActiveIds
<1>11. Kept(t)
  BY <1>1, <1>2, <1>9, <1>10, SameLeases
<1> QED BY <1>8, <1>11 DEF CallInv, t

-----------------------------------------------------------------------------
(* _attempt_start                                                            *)

\* What AttemptStart needs of the cue it is given.
MayStart(s, cue) == cue.layer \in Layers /\ cue.id \notin PendingIds(s)

\* What a start emits.
EmitsStart(s, t, cue) ==
    \E C : t.events = Append(Append(s.events, Batch("stopped", C)), Started(cue))

LEMMA StartKeeps ==
    ASSUME History, NEW s, CallInv(s), Online(s), NEW cue, MayStart(s, cue),
           cue.generation = s.generation, NEW t, t = Start(s, cue)
    PROVE  /\ Kept(t)
           /\ ~Limited(cue) => Rated(t)
           /\ t.globalStarts = s.globalStarts /\ t.layerStarts = s.layerStarts
           /\ EmitsStart(s, t, cue)
<1> DEFINE X == ConflictingLeases(s, cue)
           u == Release(s, X)
<1>1. IsRecord(s) /\ X \subseteq s.active
  BY DEF CallInv, Kept, Typed, ConflictingLeases
<1>2. /\ IsRecord(u) /\ u.generation = s.generation /\ u.connected = s.connected
      /\ u.active = s.active \ X /\ u.pending = s.pending
      /\ u.globalStarts = s.globalStarts /\ u.layerStarts = s.layerStarts
      /\ u.events = Append(s.events, Batch("stopped", CuesOf(X)))
  BY <1>1, ReleaseFields
<1>3. CallInv(u)
  BY <1>1, ReleaseKeeps
<1>4. t = Hold(u, cue)
  BY DEF Start
<1>5. ConflictingLeases(u, cue) = {}
  BY <1>2 DEF ConflictingLeases
<1> HIDE DEF u, X
<1>6. Online(u) /\ cue.layer \in Layers /\ cue.generation = u.generation /\ cue.id \notin PendingIds(u)
  BY <1>2 DEF Online, MayStart, PendingIds
<1>7. Kept(t) /\ (~Limited(cue) => Rated(t))
  BY <1>3, <1>4, <1>5, <1>6, HoldKeeps DEF CallInv
<1>8. /\ t.globalStarts = u.globalStarts /\ t.layerStarts = u.layerStarts
      /\ t.events = Append(u.events, Started(cue))
  BY <1>2, <1>4, HoldFields
<1> QED BY <1>2, <1>7, <1>8 DEF EmitsStart

LayerRecorded(s, layer) ==
    [s.layerStarts EXCEPT ![layer] = IF LayerLimited(layer) THEN Append(s.layerStarts[layer], now)
                                     ELSE s.layerStarts[layer]]

LEMMA RecordStartFields ==
    ASSUME NEW s, IsRecord(s), NEW cue, NEW t, t = RecordStart(s, cue)
    PROVE  /\ IsRecord(t)
           /\ t.generation = s.generation /\ t.connected = s.connected
           /\ t.active = s.active /\ t.byLayer = s.byLayer
           /\ t.pending = s.pending /\ t.markers = s.markers
           /\ t.globalStarts = Append(s.globalStarts, now)
           /\ t.layerStarts = LayerRecorded(s, cue.layer)
           /\ t.needsNeutral = s.needsNeutral /\ t.events = s.events
<1> DEFINE g == Append(s.globalStarts, now)
           r == LayerRecorded(s, cue.layer)
           c == [s.cooldown EXCEPT ![cue.cooldownKey] =
                    IF cue.cooldown > 0 THEN now + cue.cooldown ELSE s.cooldown[cue.cooldownKey]]
<1>1. t = [s EXCEPT !.globalStarts = g, !.layerStarts = r, !.cooldown = c]
  BY DEF RecordStart, LayerRecorded, IsRecord
<1> HIDE DEF g, r, c
<1> QED BY <1>1 DEF IsRecord, g, r

\* One more limited start, on its layer and on all of them.
LEMMA CountsOneMore ==
    ASSUME History, NEW s, NEW t, IsSequence(s.events), NEW cue, Limited(cue),
           EmitsStart(s, t, cue), NEW scope \in Scopes
    PROVE  /\ StartsAfter(s, scope) \in Seq(Nat) /\ StartsAfter(t, scope) \in Seq(Nat)
           /\ cue.layer \in scope => OneMore(StartsAfter(s, scope), StartsAfter(t, scope))
           /\ cue.layer \notin scope => StartsAfter(t, scope) = StartsAfter(s, scope)
<1>0. PICK C : t.events = Append(Append(s.events, Batch("stopped", C)), Started(cue))
  BY DEF EmitsStart
<1> DEFINE e == Append(s.events, Batch("stopped", C))
           n == Cardinality(LimitedStarts(s.events, scope))
<1>1. IsSequence(e) /\ IsSequence(Append(e, Started(cue)))
  BY AppendFacts
<1>2. LimitedStarts(e, scope) = LimitedStarts(s.events, scope) /\ n \in Nat
  BY StartsOneMore
<1>3. /\ cue.layer \in scope => Cardinality(LimitedStarts(t.events, scope)) = n + 1
      /\ cue.layer \notin scope => LimitedStarts(t.events, scope) = LimitedStarts(s.events, scope)
  BY <1>0, <1>1, <1>2, StartsOneMore DEF Started
<1>4. starts[scope] \in Seq(Nat)
  BY DEF History
<1>5. StartsAfter(s, scope) \in Seq(Nat) /\ StartsAfter(t, scope) \in Seq(Nat)
  BY <1>0, <1>1, StartsTyped
<1> HIDE DEF n
<1>6. ASSUME cue.layer \in scope
      PROVE  StartsAfter(t, scope) = Extended(starts[scope], n + 1)
  BY <1>3, <1>6 DEF StartsAfter
<1>7. StartsAfter(s, scope) = Extended(starts[scope], n)
  BY DEF StartsAfter, n
<1>8. cue.layer \notin scope => StartsAfter(t, scope) = StartsAfter(s, scope)
  BY <1>3 DEF StartsAfter
<1>9. OneMore(Extended(starts[scope], n), Extended(starts[scope], n + 1))
  BY <1>2, <1>4, ExtendedFacts
<1> QED BY <1>5, <1>6, <1>7, <1>8, <1>9

\* A limited cue that the pruned windows have room for.
LEMMA RecordKeeps ==
    ASSUME History, NEW s, CallInv(s), Online(s), NEW cue, MayStart(s, cue),
           cue.generation = s.generation, Limited(cue), WithinRateLimits(s, cue.layer)
    PROVE  CallInv(RecordStart(Start(s, cue), cue))
<1> DEFINE u == Start(s, cue)
           t == RecordStart(u, cue)
<1>1. /\ Kept(u) /\ u.globalStarts = s.globalStarts /\ u.layerStarts = s.layerStarts
      /\ EmitsStart(s, u, cue)
  BY StartKeeps
<1>2. /\ Typed(u) /\ IsRecord(u) /\ Waiting(u) /\ Marked(u) /\ OfflineIsEmpty(u)
      /\ Typed(s) /\ Rated(s) /\ IsSequence(s.events) /\ cue.layer \in Layers
  BY <1>1 DEF CallInv, Kept, Typed, MayStart
<1>3. /\ IsRecord(t)
      /\ t.generation = u.generation /\ t.connected = u.connected
      /\ t.active = u.active /\ t.byLayer = u.byLayer
      /\ t.pending = u.pending /\ t.markers = u.markers
      /\ t.globalStarts = Append(u.globalStarts, now)
      /\ t.layerStarts = LayerRecorded(u, cue.layer)
      /\ t.needsNeutral = u.needsNeutral /\ t.events = u.events
  BY <1>2, RecordStartFields
<1> HIDE DEF u, t
<1>4. EmitsStart(s, t, cue)
  BY <1>1, <1>3 DEF EmitsStart
<1>5. /\ GlobalLimit \in Limits
      /\ \A l \in DOMAIN LayerLimits : l \in Layers /\ LayerLimits[l] \in Limits
  BY PolicyAssumption
<1>6. s.globalStarts \in Seq(Nat) /\ s.layerStarts \in [Layers -> Seq(Nat)] /\ now \in Nat
  BY <1>2 DEF Typed, History
<1>7. /\ t.globalStarts \in Seq(Nat)
      /\ Windowed(t.globalStarts, StartsAfter(t, Layers), GlobalLimit)
  <2> DEFINE times == StartsAfter(s, Layers)
             more == StartsAfter(t, Layers)
  <2>1. Layers \in Scopes
    BY DEF Scopes
  <2>2. times \in Seq(Nat) /\ more \in Seq(Nat) /\ OneMore(times, more)
    BY <1>2, <1>4, <2>1, CountsOneMore
  <2>3. Windowed(s.globalStarts, times, GlobalLimit) /\ Len(s.globalStarts) < GlobalLimit.max
    BY <1>2 DEF Rated, WithinRateLimits
  <2>4. t.globalStarts = Append(s.globalStarts, now)
    BY <1>1, <1>3
  <2> HIDE DEF times, more
  <2>5. Windowed(Append(s.globalStarts, now), more, GlobalLimit)
    BY <1>5, <1>6, <2>2, <2>3, RecordWindowed
  <2>6. Append(s.globalStarts, now) \in Seq(Nat)
    BY <1>6, AppendProperties
  <2> QED BY <2>4, <2>5, <2>6 DEF more
<1>8. /\ \A l \in Layers : t.layerStarts[l] = IF l = cue.layer /\ LayerLimited(l)
                                              THEN Append(s.layerStarts[l], now) ELSE s.layerStarts[l]
      /\ t.layerStarts \in [Layers -> Seq(Nat)]
  <2>1. Append(s.layerStarts[cue.layer], now) \in Seq(Nat) /\ s.layerStarts[cue.layer] \in Seq(Nat)
    BY <1>2, <1>6, AppendProperties
  <2> DEFINE v == IF LayerLimited(cue.layer) THEN Append(s.layerStarts[cue.layer], now)
                  ELSE s.layerStarts[cue.layer]
  <2>2. t.layerStarts = [s.layerStarts EXCEPT ![cue.layer] = v] /\ v \in Seq(Nat)
    BY <1>1, <1>3, <2>1 DEF LayerRecorded
  <2>3. ASSUME NEW l \in Layers
        PROVE  t.layerStarts[l] = IF l = cue.layer /\ LayerLimited(l)
                                  THEN Append(s.layerStarts[l], now) ELSE s.layerStarts[l]
    BY <1>6, <2>2
  <2> HIDE DEF v
  <2> QED BY <1>6, <2>2, <2>3
<1>9. ASSUME NEW l \in DOMAIN LayerLimits
      PROVE  Windowed(t.layerStarts[l], StartsAfter(t, {l}), LayerLimits[l])
  <2> DEFINE times == StartsAfter(s, {l})
             more == StartsAfter(t, {l})
  <2>1. {l} \in Scopes /\ l \in Layers /\ LayerLimits[l] \in Limits /\ LayerLimited(l)
    BY <1>5 DEF Scopes, LayerLimited
  <2>2. Windowed(s.layerStarts[l], times, LayerLimits[l]) /\ s.layerStarts[l] \in Seq(Nat)
    BY <1>2, <1>6, <2>1 DEF Rated
  <2>3. CASE l = cue.layer
    <3>1. times \in Seq(Nat) /\ more \in Seq(Nat) /\ OneMore(times, more)
      BY <1>2, <1>4, <2>1, <2>3, CountsOneMore
    <3>2. Len(s.layerStarts[l]) < LayerLimits[l].max
      BY <2>1, <2>3 DEF WithinRateLimits
    <3>3. t.layerStarts[l] = Append(s.layerStarts[l], now)
      BY <1>8, <2>1, <2>3
    <3> HIDE DEF times, more
    <3>4. Windowed(Append(s.layerStarts[l], now), more, LayerLimits[l])
      BY <1>5, <1>6, <2>1, <2>2, <3>1, <3>2, RecordWindowed
    <3> QED BY <3>3, <3>4 DEF more
  <2>4. CASE l /= cue.layer
    <3>0. cue.layer \notin {l}
      BY <2>4
    <3>1. more = times
      BY <1>2, <1>4, <2>1, <3>0, CountsOneMore
    <3>2. t.layerStarts[l] = s.layerStarts[l]
      BY <1>8, <2>1, <2>4
    <3> QED BY <2>2, <3>1, <3>2
  <2> QED BY <2>3, <2>4
<1>10. Rated(t)
  BY <1>7, <1>9 DEF Rated
<1>11. Typed(t)
  BY <1>2, <1>3, <1>7, <1>8 DEF Typed
<1>12. Waiting(t) /\ Marked(t) /\ OfflineIsEmpty(t)
  BY <1>2, <1>3 DEF Waiting, Startable, Marked, OfflineIsEmpty, ActiveIds
<1>13. Kept(t)
  BY <1>1, <1>3, <1>11, <1>12, SameLeases
<1> QED BY <1>10, <1>13 DEF CallInv, t, u

LEMMA AttemptStartKeeps ==
    ASSUME History, NEW s, CallInv(s), NEW cue, MayStart(s, cue)
    PROVE  CallInv(AttemptStart(s, cue))
<1> DEFINE pruned == PruneWindows(s, cue.layer)
           stays == \/ now > cue.notAfter
                    \/ cue.generation /= s.generation
                    \/ ~s.connected
                    \/ Blocked(s, cue)
<1>1. CASE stays
  BY <1>1 DEF AttemptStart
<1>2. CASE ~stays
  <2>1. cue.generation = s.generation /\ Online(s) /\ cue.layer \in Layers /\ IsRecord(s)
    BY <1>2 DEF Online, MayStart, CallInv, Kept, Typed
  <2>2. CallInv(pruned)
    BY <2>1, PruneWindowsKeeps
  <2>3. pruned.generation = s.generation /\ pruned.connected = s.connected /\ pruned.pending = s.pending
    BY <2>1, PruneWindowsFields
  <2>4. Online(pruned) /\ MayStart(pruned, cue)
    BY <2>1, <2>3 DEF Online, MayStart, PendingIds
  <2>5. CASE ~Limited(cue)
    <3>1. AttemptStart(s, cue) = Start(s, cue)
      BY <1>2, <2>5 DEF AttemptStart
    <3> QED BY <2>1, <2>5, <3>1, StartKeeps DEF CallInv
  <2>6. CASE Limited(cue)
    <3>1. \/ AttemptStart(s, cue) = s
          \/ AttemptStart(s, cue) = pruned
          \/ /\ AttemptStart(s, cue) = RecordStart(Start(pruned, cue), cue)
             /\ WithinRateLimits(pruned, cue.layer)
      BY <1>2, <2>6 DEF AttemptStart
    <3> HIDE DEF pruned
    <3>2. WithinRateLimits(pruned, cue.layer) => CallInv(RecordStart(Start(pruned, cue), cue))
      BY <2>1, <2>2, <2>3, <2>4, <2>6, RecordKeeps
    <3> QED BY <2>2, <3>1, <3>2
  <2> QED BY <2>5, <2>6
<1> QED BY <1>1, <1>2

-----------------------------------------------------------------------------
(* The queues                                                                *)

\* A stage that only changes the cues that wait, the markers and the cooldowns.
LEMMA QueuesKeep ==
    ASSUME NEW s, CallInv(s), NEW t, IsRecord(t),
           IsSequence(t.pending), IsSequence(t.markers), Waiting(t), Marked(t), OfflineIsEmpty(t),
           t.generation = s.generation, t.connected = s.connected, t.active = s.active,
           t.byLayer = s.byLayer, t.needsNeutral = s.needsNeutral, t.events = s.events,
           t.globalStarts = s.globalStarts, t.layerStarts = s.layerStarts
    PROVE  CallInv(t)
<1>1. Typed(t)
  BY DEF CallInv, Kept, Typed
<1>2. Rated(t)
  BY SameRates DEF CallInv
<1>3. Kept(t)
  BY <1>1, SameLeases DEF CallInv
<1> QED BY <1>2, <1>3 DEF CallInv

WithPending(s, q) == [s EXCEPT !.pending = q]

LEMMA WithPendingFields ==
    ASSUME NEW s, IsRecord(s), NEW q, NEW t, t = WithPending(s, q)
    PROVE  /\ IsRecord(t) /\ t.pending = q /\ t.markers = s.markers
           /\ t.generation = s.generation /\ t.connected = s.connected /\ t.active = s.active
           /\ t.byLayer = s.byLayer /\ t.needsNeutral = s.needsNeutral /\ t.events = s.events
           /\ t.globalStarts = s.globalStarts /\ t.layerStarts = s.layerStarts
  BY DEF WithPending, IsRecord

WithPendingAndCooldown(s, q, c) == [s EXCEPT !.pending = q, !.cooldown = c]

LEMMA WithPendingAndCooldownFields ==
    ASSUME NEW s, IsRecord(s), NEW q, NEW c, NEW t, t = WithPendingAndCooldown(s, q, c)
    PROVE  /\ IsRecord(t) /\ t.pending = q /\ t.markers = s.markers
           /\ t.generation = s.generation /\ t.connected = s.connected /\ t.active = s.active
           /\ t.byLayer = s.byLayer /\ t.needsNeutral = s.needsNeutral /\ t.events = s.events
           /\ t.globalStarts = s.globalStarts /\ t.layerStarts = s.layerStarts
  BY DEF WithPendingAndCooldown, IsRecord

\* A waiting cue that is taken out waits no more.
LEMMA RemovePendingKeeps ==
    ASSUME NEW s, CallInv(s), NEW i \in 1..Len(s.pending), NEW t,
           t = WithPending(s, RemoveAt(s.pending, i))
    PROVE  CallInv(t) /\ s.pending[i].cue.id \notin PendingIds(t)
<1> DEFINE q == s.pending
           r == RemoveAt(q, i)
           N == Len(q)
<1>1. /\ IsRecord(s) /\ IsSequence(q) /\ IsSequence(s.markers) /\ Waiting(s) /\ Marked(s)
      /\ OfflineIsEmpty(s)
  BY DEF CallInv, Kept, Typed
<1>2. N \in Nat /\ DOMAIN q = 1..N
  BY <1>1, SequenceFacts
<1>3. /\ IsSequence(r) /\ Len(r) = N - 1 /\ DOMAIN r = 1..N - 1
  BY <1>1, RemoveAtFacts
<1>4. PICK source \in [1..N - 1 -> (1..N) \ {i}] :
         /\ \A j \in 1..N - 1 : r[j] = q[source[j]]
         /\ \A j, k \in 1..N - 1 : source[j] = source[k] => j = k
  BY <1>1, RemoveAtSource
<1>5. /\ IsRecord(t) /\ t.pending = r /\ t.markers = s.markers
      /\ t.generation = s.generation /\ t.connected = s.connected /\ t.active = s.active
      /\ t.byLayer = s.byLayer /\ t.needsNeutral = s.needsNeutral /\ t.events = s.events
      /\ t.globalStarts = s.globalStarts /\ t.layerStarts = s.layerStarts
  BY <1>1, WithPendingFields
<1>6. /\ N <= MaxPending /\ MaxPending \in Nat
      /\ \A j \in 1..N : Startable(s, q[j].cue) /\ q[j].cue.id \notin ActiveIds(s)
      /\ \A j, k \in 1..N : q[j].cue.id = q[k].cue.id => j = k
  BY <1>1, PolicyAssumption DEF Waiting
<1> HIDE DEF q, r, N
<1>7. \A j \in 1..N - 1 : source[j] \in 1..N /\ source[j] /= i
  BY <1>4
<1>8. Waiting(t)
  <2>1. Len(t.pending) <= MaxPending
    BY <1>2, <1>3, <1>5, <1>6
  <2>2. \A j \in 1..N - 1 : Startable(t, r[j].cue) /\ r[j].cue.id \notin ActiveIds(t)
    BY <1>4, <1>5, <1>6, <1>7 DEF Startable, ActiveIds
  <2>3. \A j, k \in 1..N - 1 : r[j].cue.id = r[k].cue.id => j = k
    BY <1>4, <1>6, <1>7
  <2> QED BY <1>3, <1>5, <2>1, <2>2, <2>3 DEF Waiting
<1>9. q[i].cue.id \notin PendingIds(t)
  <2>1. i \in 1..N
    BY DEF N, q
  <2>2. \A j \in 1..N - 1 : r[j].cue.id /= q[i].cue.id
    BY <1>4, <1>6, <1>7, <2>1
  <2> QED BY <1>3, <1>5, <2>2 DEF PendingIds
<1>10. Marked(t)
  BY <1>1, <1>5 DEF Marked
<1>11. OfflineIsEmpty(t)
  <2>1. s.pending /= <<>>
    BY EmptySequence
  <2> QED BY <1>1, <1>5, <2>1 DEF OfflineIsEmpty
<1>12. CallInv(t)
  BY <1>1, <1>3, <1>5, <1>8, <1>10, <1>11, QueuesKeep
<1> QED BY <1>9, <1>12 DEF q

LEMMA StartFirstDueKeeps ==
    ASSUME History, NEW s, CallInv(s)
    PROVE  CallInv(StartFirstDue(s))
<1>1. CASE FirstDue(s) = {}
  BY <1>1 DEF StartFirstDue
<1>2. CASE FirstDue(s) /= {}
  <2> DEFINE i == CHOOSE i \in FirstDue(s) : TRUE
             t == WithPending(s, RemoveAt(s.pending, i))
             cue == s.pending[i].cue
  <2>1. IsSequence(s.pending) /\ Waiting(s)
    BY DEF CallInv, Kept, Typed
  <2>2. i \in FirstDue(s) /\ FirstDue(s) \subseteq DOMAIN s.pending
    BY <1>2 DEF FirstDue
  <2>3. i \in 1..Len(s.pending)
    BY <2>1, <2>2, SequenceFacts
  <2>4. StartFirstDue(s) = AttemptStart(t, cue)
    BY <1>2 DEF StartFirstDue, WithPending
  <2> HIDE DEF i
  <2>5. CallInv(t) /\ cue.id \notin PendingIds(t)
    BY <2>3, RemovePendingKeeps
  <2>6. cue.layer \in Layers
    BY <2>1, <2>3 DEF Waiting, Startable
  <2> HIDE DEF t, cue
  <2>7. CallInv(AttemptStart(t, cue))
    BY <2>5, <2>6, AttemptStartKeeps DEF MayStart
  <2> QED BY <2>4, <2>7
<1> QED BY <1>1, <1>2

LEMMA StartDueKeeps ==
    ASSUME History, NEW s, CallInv(s)
    PROVE  CallInv(StartDue(s))
<1> DEFINE N == Len(s.pending)
<1>1. N \in Nat
  BY SequenceFacts DEF CallInv, Kept, Typed
<1>2. PICK after : /\ StartDue(s) = after[N] /\ after[0] = s
                   /\ \A n \in 1..N : after[n] = StartFirstDue(after[n - 1])
  BY <1>1, StartDueRecursion
<1> HIDE DEF N
<1> DEFINE T == {n \in 0..N : ~CallInv(after[n])}
<1>3. T \subseteq Nat /\ (T = {} => CallInv(after[N]))
  BY <1>1
<1>4. ASSUME T /= {} PROVE FALSE
  <2>1. PICK m \in T : \A k \in T : m <= k
    BY <1>3, <1>4, LeastNumber
  <2>2. m \in 0..N /\ ~CallInv(after[m])
    OBVIOUS
  <2>3. m /= 0
    BY <1>2, <2>2
  <2>4. m \in 1..N /\ m - 1 \in 0..N /\ m - 1 \notin T
    <3> HIDE DEF T
    <3> QED BY <1>1, <2>1, <2>2, <2>3
  <2>5. CallInv(after[m - 1])
    BY <2>4
  <2> QED BY <1>2, <2>2, <2>4, <2>5, StartFirstDueKeeps
<1> QED BY <1>2, <1>3, <1>4

\* _expire drops waiting cues and nothing else of the queue.
LEMMA UnexpiredFacts ==
    ASSUME NEW q, IsSequence(q), \A i, j \in 1..Len(q) : q[i].cue.id = q[j].cue.id => i = j,
           NEW r, r = Unexpired(q)
    PROVE  /\ IsSequence(r) /\ Len(r) <= Len(q)
           /\ \A k \in 1..Len(r) : \E i \in 1..Len(q) : r[k] = q[i]
           /\ \A j, k \in 1..Len(r) : r[j].cue.id = r[k].cue.id => j = k
<1> DEFINE N == Len(q)
           Good(x, n) == /\ IsSequence(x) /\ Len(x) <= n
                         /\ \A k \in 1..Len(x) : \E i \in 1..n : x[k] = q[i]
                         /\ \A j, k \in 1..Len(x) : x[j].cue.id = x[k].cue.id => j = k
<1>1. N \in Nat
  BY SequenceFacts
<1>2. PICK kept : /\ r = kept[N] /\ kept[0] = <<>>
                  /\ \A n \in 1..N : kept[n] = IF now <= q[n].cue.notAfter
                                               THEN Append(kept[n - 1], q[n]) ELSE kept[n - 1]
  BY <1>1, UnexpiredRecursion
<1>3. Good(kept[0], 0)
  BY <1>2, EmptySequence
<1>4. ASSUME NEW n \in 1..N, Good(kept[n - 1], n - 1)
      PROVE  Good(kept[n], n)
  <2> DEFINE x == kept[n - 1]
             y == Append(x, q[n])
             K == Len(x)
  <2>1. /\ IsSequence(x) /\ K \in Nat /\ K <= n - 1 /\ n \in Nat
        /\ \A k \in 1..K : \E i \in 1..n - 1 : x[k] = q[i]
        /\ \A j, k \in 1..K : x[j].cue.id = x[k].cue.id => j = k
    <3>1. Good(x, n - 1) /\ n \in Nat
      BY <1>1, <1>4
    <3> HIDE DEF x
    <3> QED BY <3>1, SequenceFacts
  <2>2. \A i \in 1..n - 1 : i \in 1..n /\ i \in 1..N /\ i /= n /\ n \in 1..n
    BY <1>1
  <2>3. CASE kept[n] = x
    BY <2>1, <2>2, <2>3
  <2>4. CASE kept[n] = y
    <3>1. /\ IsSequence(y) /\ Len(y) = K + 1
          /\ (\A i \in 1..K : y[i] = x[i]) /\ y[K + 1] = q[n]
      BY <2>1, AppendFacts
    <3> HIDE DEF x, y, K
    <3>2. Len(y) <= n
      BY <2>1, <3>1
    <3>3. ASSUME NEW k \in 1..Len(y) PROVE \E i \in 1..n : y[k] = q[i]
      <4>1. CASE k \in 1..K
        BY <2>1, <2>2, <3>1, <4>1
      <4>2. CASE k = K + 1
        <5>1. n \in 1..n
          BY <2>1
        <5> QED BY <3>1, <4>2, <5>1
      <4> QED BY <2>1, <3>1, <4>1, <4>2
    <3>4. \A k \in 1..K : y[k].cue.id /= q[n].cue.id
      <4> SUFFICES ASSUME NEW k \in 1..K PROVE y[k].cue.id /= q[n].cue.id
        OBVIOUS
      <4>1. PICK i \in 1..n - 1 : x[k] = q[i]
        BY <2>1
      <4> QED BY <1>1, <2>2, <3>1, <4>1
    <3>5. ASSUME NEW j \in 1..Len(y), NEW k \in 1..Len(y), y[j].cue.id = y[k].cue.id
          PROVE  j = k
      <4>1. (j \in 1..K \/ j = K + 1) /\ (k \in 1..K \/ k = K + 1)
        BY <2>1, <3>1
      <4> QED BY <2>1, <3>1, <3>4, <3>5, <4>1
    <3>6. Good(y, n)
      BY <3>1, <3>2, <3>3, <3>5
    <3> HIDE DEF Good
    <3> QED BY <2>4, <3>6
  <2> QED BY <1>2, <2>3, <2>4
<1> HIDE DEF Good, N
<1> DEFINE T == {n \in 0..N : ~Good(kept[n], n)}
<1>5. T \subseteq Nat /\ (T = {} => Good(kept[N], N))
  BY <1>1
<1>6. ASSUME T /= {} PROVE FALSE
  <2>1. PICK m \in T : \A k \in T : m <= k
    BY <1>5, <1>6, LeastNumber
  <2>2. m \in 0..N /\ ~Good(kept[m], m)
    OBVIOUS
  <2>3. m /= 0
    BY <1>3, <2>2
  <2>4. m \in 1..N /\ m - 1 \in 0..N /\ m - 1 \notin T
    <3> HIDE DEF T
    <3> QED BY <1>1, <2>1, <2>2, <2>3
  <2>5. Good(kept[m - 1], m - 1)
    BY <2>4
  <2> QED BY <1>4, <2>2, <2>4, <2>5
<1> QED BY <1>2, <1>5, <1>6 DEF Good, N

LEMMA ExpireKeeps ==
    ASSUME History, NEW s, CallInv(s)
    PROVE  CallInv(Expire(s))
<1> DEFINE X == {lease \in s.active : lease.expiresAt <= now}
           r == Release(s, X)
           q == r.pending
           p == Unexpired(q)
           c == [k \in Keys |-> IF r.cooldown[k] <= now THEN 0 ELSE r.cooldown[k]]
           t == WithPendingAndCooldown(r, p, c)
<1>1. CallInv(r)
  <2> HIDE DEF r
  <2>1. X \subseteq s.active
    OBVIOUS
  <2> HIDE DEF X
  <2> QED BY <2>1, ReleaseKeeps DEF r
<1>2. IsRecord(r) /\ IsSequence(q) /\ IsSequence(r.markers) /\ Waiting(r) /\ Marked(r) /\ OfflineIsEmpty(r)
  BY <1>1 DEF CallInv, Kept, Typed
<1>3. Expire(s) = t
  BY <1>2 DEF Expire, IsRecord, WithPendingAndCooldown
<1> HIDE DEF r, X, c
<1>4. /\ Len(q) <= MaxPending /\ MaxPending \in Nat
      /\ \A j \in 1..Len(q) : Startable(r, q[j].cue) /\ q[j].cue.id \notin ActiveIds(r)
      /\ \A j, k \in 1..Len(q) : q[j].cue.id = q[k].cue.id => j = k
  BY <1>2, PolicyAssumption DEF Waiting
<1>5. /\ IsSequence(p) /\ Len(p) <= Len(q)
      /\ \A k \in 1..Len(p) : \E i \in 1..Len(q) : p[k] = q[i]
      /\ \A j, k \in 1..Len(p) : p[j].cue.id = p[k].cue.id => j = k
  BY <1>2, <1>4, UnexpiredFacts
<1>6. Len(p) \in Nat /\ Len(q) \in Nat
  BY <1>2, <1>5, SequenceFacts
<1> HIDE DEF p
<1>7. /\ IsRecord(t) /\ t.pending = p /\ t.markers = r.markers
      /\ t.generation = r.generation /\ t.connected = r.connected /\ t.active = r.active
      /\ t.byLayer = r.byLayer /\ t.needsNeutral = r.needsNeutral /\ t.events = r.events
      /\ t.globalStarts = r.globalStarts /\ t.layerStarts = r.layerStarts
  BY <1>2, WithPendingAndCooldownFields
<1> HIDE DEF t
<1>8. Waiting(t)
  <2>1. Len(p) <= MaxPending
    BY <1>4, <1>5, <1>6
  <2>2. /\ ActiveIds(t) = ActiveIds(r)
        /\ \A k \in 1..Len(q) : Startable(t, q[k].cue)
    BY <1>4, <1>7 DEF Startable, ActiveIds
  <2>3. \A k \in 1..Len(p) : Startable(t, p[k].cue) /\ p[k].cue.id \notin ActiveIds(t)
    BY <1>4, <1>5, <2>2
  <2> QED BY <1>5, <1>7, <2>1, <2>3 DEF Waiting
<1>9. Marked(t)
  BY <1>2, <1>7 DEF Marked
<1>10. OfflineIsEmpty(t)
  <2>1. q = <<>> => p = <<>>
    <3>1. q = <<>> => Len(p) = 0
      BY <1>5, <1>6, EmptySequence
    <3> QED BY <1>5, <3>1, EmptySeq DEF IsSequence
  <2> QED BY <1>2, <1>7, <2>1 DEF OfflineIsEmpty
<1>11. CallInv(t)
  BY <1>1, <1>2, <1>5, <1>7, <1>8, <1>9, <1>10, QueuesKeep
<1> QED BY <1>3, <1>11

-----------------------------------------------------------------------------
(* _restore_neutrals                                                         *)

\* The neutral of a layer that still needs it has a lease in its way.
Delayed(s, l) == ConflictingLeases(s, NeutralCue(l, s.generation)) /= {}
Restored(s) == s.connected => \A l \in s.needsNeutral : Delayed(s, l)

\* What one step of _restore_neutrals does to the layers.
RestoresFrom(s, t) ==
    /\ Online(t) /\ t.generation = s.generation
    /\ s.active \subseteq t.active /\ t.needsNeutral \subseteq s.needsNeutral

LEMMA DelayedStays ==
    ASSUME NEW s, NEW t, RestoresFrom(s, t), NEW l, Delayed(s, l)
    PROVE  Delayed(t, l)
  BY DEF Delayed, RestoresFrom, ConflictingLeases

WithNeeds(s, needs) == [s EXCEPT !.needsNeutral = needs]

LEMMA WithNeedsFields ==
    ASSUME NEW s, IsRecord(s), NEW needs, NEW t, t = WithNeeds(s, needs)
    PROVE  /\ IsRecord(t) /\ t.needsNeutral = needs
           /\ t.generation = s.generation /\ t.connected = s.connected /\ t.active = s.active
           /\ t.byLayer = s.byLayer /\ t.events = s.events
           /\ t.pending = s.pending /\ t.markers = s.markers
           /\ t.globalStarts = s.globalStarts /\ t.layerStarts = s.layerStarts
  BY DEF WithNeeds, IsRecord

LEMMA RestoreNeutralKeeps ==
    ASSUME History, NEW s, CallInv(s), Online(s), NEW layer \in Layers
    PROVE  LET t == RestoreNeutral(s, layer)
           IN  /\ CallInv(t) /\ RestoresFrom(s, t)
               /\ layer \in t.needsNeutral => Delayed(t, layer)
<1> DEFINE cue == NeutralCue(layer, s.generation)
           t == RestoreNeutral(s, layer)
           needs == s.needsNeutral \ {layer}
<1>1. /\ Kept(s) /\ Rated(s) /\ Typed(s) /\ IsRecord(s) /\ Exclusive(s) /\ Waiting(s) /\ Marked(s)
      /\ OfflineIsEmpty(s) /\ Covered(s) /\ Displayed(s) /\ IsSequence(s.pending)
  BY DEF CallInv, Kept, Typed
<1>2. CASE layer \notin s.needsNeutral
  BY <1>2 DEF RestoreNeutral, RestoresFrom
<1>3. CASE layer \in s.needsNeutral /\ s.byLayer[layer] /= NoCue
  <2>1. t = WithNeeds(s, needs)
    BY <1>3 DEF RestoreNeutral, WithNeeds
  <2> HIDE DEF t
  <2>2. /\ IsRecord(t) /\ t.needsNeutral = needs
        /\ t.generation = s.generation /\ t.connected = s.connected /\ t.active = s.active
        /\ t.byLayer = s.byLayer /\ t.events = s.events
        /\ t.pending = s.pending /\ t.markers = s.markers
        /\ t.globalStarts = s.globalStarts /\ t.layerStarts = s.layerStarts
    <3> HIDE DEF needs
    <3> QED BY <1>1, <2>1, WithNeedsFields
  <2>3. \E x \in s.active : x.cue.layer = layer
    BY <1>1, <1>3 DEF Exclusive
  <2>4. Covered(t)
    BY <1>1, <2>2, <2>3 DEF Covered, LayersOf
  <2>5. Typed(t)
    BY <1>1, <2>2 DEF Typed
  <2>6. Exclusive(t) /\ Displayed(t) /\ Marked(t) /\ OfflineIsEmpty(t)
    BY <1>1, <2>2 DEF Exclusive, Displayed, Marked, OfflineIsEmpty
  <2>7. Waiting(t)
    BY <1>1, <2>2 DEF Waiting, Startable, ActiveIds
  <2>8. Rated(t)
    BY <1>1, <2>2, SameRates
  <2>9. RestoresFrom(s, t) /\ layer \notin t.needsNeutral
    BY <2>2 DEF RestoresFrom, Online
  <2> QED BY <2>4, <2>5, <2>6, <2>7, <2>8, <2>9 DEF CallInv, Kept, t
<1>4. CASE /\ layer \in s.needsNeutral /\ s.byLayer[layer] = NoCue
           /\ ConflictingLeases(s, cue) /= {}
  <2>1. t = s
    BY <1>4 DEF RestoreNeutral
  <2> QED BY <1>4, <2>1 DEF RestoresFrom, Delayed
<1>5. CASE /\ layer \in s.needsNeutral /\ s.byLayer[layer] = NoCue
           /\ ConflictingLeases(s, cue) = {}
  <2>1. t = Hold(s, cue)
    BY <1>5 DEF RestoreNeutral
  <2>2. cue.layer = layer /\ cue.generation = s.generation /\ cue.id = <<"neutral", layer>> /\ ~Limited(cue)
    BY DEF NeutralCue, Limited
  <2> HIDE DEF cue, t
  <2>3. cue.id \notin PendingIds(s)
    BY <1>1, <2>2, SequenceFacts DEF Waiting, Startable, PendingIds
  <2>4. CallInv(t)
    BY <1>1, <1>5, <2>1, <2>2, <2>3, HoldKeeps DEF CallInv
  <2>5. /\ t.generation = s.generation /\ t.connected = s.connected
        /\ t.active = LeasesWith(s, cue) /\ t.needsNeutral = NeedsWithout(s, cue)
    <3> HIDE <1>5
    <3> QED BY <1>1, <2>1, HoldFields
  <2>6. RestoresFrom(s, t) /\ layer \notin t.needsNeutral
    BY <2>2, <2>5 DEF RestoresFrom, Online, LeasesWith, NeedsWithout
  <2> QED BY <2>4, <2>6 DEF t
<1> QED BY <1>2, <1>3, <1>4, <1>5

LEMMA RestoreNeutralsKeeps ==
    ASSUME History, NEW s, CallInv(s)
    PROVE  CallInv(RestoreNeutrals(s)) /\ Restored(RestoreNeutrals(s))
<1>1. CASE ~s.connected
  BY <1>1 DEF RestoreNeutrals, Restored
<1>2. CASE s.connected
  <2> DEFINE N == Len(LayerOrder)
  <2>1. /\ N \in Nat /\ DOMAIN LayerOrder = 1..N
        /\ \A n \in 1..N : LayerOrder[n] \in Layers
        /\ \A l \in Layers : \E n \in 1..N : l = LayerOrder[n]
    BY PolicyAssumption, LenProperties, ElementOfSeq DEF ToSet
  <2>2. PICK after : /\ RestoreNeutrals(s) = after[N] /\ after[0] = s
                     /\ \A n \in 1..N : after[n] = RestoreNeutral(after[n - 1], LayerOrder[n])
    BY <1>2, RestoreNeutralsRecursion
  <2> HIDE DEF N
  <2> DEFINE Good(n) == /\ CallInv(after[n]) /\ Online(after[n])
                        /\ \A k \in 1..n : LayerOrder[k] \in after[n].needsNeutral
                                              => Delayed(after[n], LayerOrder[k])
             T == {n \in 0..N : ~Good(n)}
  <2>3. Good(0)
    BY <1>2, <2>2 DEF Online
  <2>4. ASSUME NEW n \in 1..N, Good(n - 1)
        PROVE  Good(n)
    <3> DEFINE u == after[n - 1]
               t == after[n]
    <3>1. CallInv(u) /\ Online(u) /\ LayerOrder[n] \in Layers /\ t = RestoreNeutral(u, LayerOrder[n])
      BY <2>1, <2>2, <2>4
    <3>2. \A k \in 1..n - 1 : LayerOrder[k] \in u.needsNeutral => Delayed(u, LayerOrder[k])
      BY <2>4
    <3> HIDE DEF u, t
    <3>3. /\ CallInv(t) /\ RestoresFrom(u, t)
          /\ LayerOrder[n] \in t.needsNeutral => Delayed(t, LayerOrder[n])
      BY <3>1, RestoreNeutralKeeps
    <3>4. Online(t) /\ t.needsNeutral \subseteq u.needsNeutral
      BY <3>3 DEF RestoresFrom
    <3>5. ASSUME NEW k \in 1..n, LayerOrder[k] \in t.needsNeutral
          PROVE  Delayed(t, LayerOrder[k])
      <4>1. CASE k = n
        BY <3>3, <3>5, <4>1
      <4>2. CASE k /= n
        <5>1. k \in 1..n - 1
          BY <2>1, <4>2
        <5>2. Delayed(u, LayerOrder[k])
          BY <3>2, <3>4, <3>5, <5>1
        <5> QED BY <3>3, <5>2, DelayedStays
      <4> QED BY <4>1, <4>2
    <3> QED BY <3>3, <3>4, <3>5 DEF t
  <2> HIDE DEF Good
  <2>5. T \subseteq Nat /\ (T = {} => Good(N))
    BY <2>1
  <2>6. ASSUME T /= {} PROVE FALSE
    <3>1. PICK m \in T : \A k \in T : m <= k
      BY <2>5, <2>6, LeastNumber
    <3>2. m \in 0..N /\ ~Good(m)
      OBVIOUS
    <3>3. m /= 0
      BY <2>3, <3>2
    <3>4. m \in 1..N /\ m - 1 \in 0..N /\ m - 1 \notin T
      <4> HIDE DEF T
      <4> QED BY <2>1, <3>1, <3>2, <3>3
    <3>5. Good(m - 1)
      BY <3>4
    <3> QED BY <2>4, <3>2, <3>4, <3>5
  <2>7. Good(N)
    BY <2>5, <2>6
  <2> DEFINE t == after[N]
  <2>8. CallInv(t) /\ \A l \in Layers : l \in t.needsNeutral => Delayed(t, l)
    BY <2>1, <2>7 DEF Good
  <2> HIDE DEF t
  <2>9. Restored(t)
    BY <2>8 DEF Restored, CallInv, Kept, Typed
  <2> QED BY <2>2, <2>8, <2>9 DEF t
<1> QED BY <1>1, <1>2

-----------------------------------------------------------------------------
(* A call and its end                                                        *)

\* A call whose last state satisfies the invariant leaves it between the calls.
LEMMA BecomesKeeps ==
    ASSUME History, NEW s, CallInv(s), Restored(s), Becomes(s)
    PROVE  IInv'
<1>1. /\ Typed(s) /\ IsRecord(s) /\ Exclusive(s) /\ Waiting(s) /\ Marked(s) /\ OfflineIsEmpty(s)
      /\ Covered(s) /\ Displayed(s) /\ Rated(s) /\ IsSequence(s.events)
  BY DEF CallInv, Kept, Typed
<1>2. /\ sched' = [s EXCEPT !.events = <<>>]
      /\ shown' = CuesOf(s.active)
      /\ used' = IF s.connected THEN used \cup {c.layer : c \in shown'} ELSE {}
      /\ starts' = [scope \in Scopes |-> StartsAfter(s, scope)]
      /\ now' = now
  BY <1>1 DEF Becomes, Displayed, StartsAfter
<1>3. /\ IsRecord(sched') /\ sched'.events = <<>>
      /\ sched'.generation = s.generation /\ sched'.connected = s.connected
      /\ sched'.active = s.active /\ sched'.byLayer = s.byLayer
      /\ sched'.pending = s.pending /\ sched'.markers = s.markers
      /\ sched'.globalStarts = s.globalStarts /\ sched'.layerStarts = s.layerStarts
      /\ sched'.needsNeutral = s.needsNeutral
  BY <1>1, <1>2 DEF IsRecord
<1>4. used' \subseteq Layers /\ (s.connected => used' \subseteq s.needsNeutral \cup LayersOf(s.active))
  <2>1. {c.layer : c \in shown'} = LayersOf(s.active)
    BY <1>2 DEF CuesOf, LayersOf
  <2>2. LayersOf(s.active) \subseteq Layers
    BY <1>1 DEF Exclusive, LayersOf
  <2>3. used \subseteq Layers
    BY DEF History
  <2> QED BY <1>1, <1>2, <2>1, <2>2, <2>3 DEF Covered
<1>5. History'
  <2>1. \A scope \in Scopes : StartsAfter(s, scope) \in Seq(Nat)
    BY <1>1, StartsTyped
  <2>2. starts' \in [Scopes -> Seq(Nat)]
    BY <1>2, <2>1
  <2>3. now' \in Nat
    BY <1>2 DEF History
  <2> QED BY <1>4, <2>2, <2>3 DEF History
<1>6. Typed(sched')
  BY <1>1, <1>3, EmptySequence DEF Typed
<1>7. Exclusive(sched') /\ Marked(sched') /\ OfflineIsEmpty(sched')
  BY <1>1, <1>3 DEF Exclusive, Marked, OfflineIsEmpty
<1>8. Waiting(sched')
  BY <1>1, <1>3 DEF Waiting, Startable, ActiveIds
<1>9. Displayed(sched)'
  <2>1. Len(<<>>) = 0 /\ DOMAIN <<>> = {} /\ 0..0 = {0} /\ 1..0 = {}
    BY EmptySequence
  <2>2. Play(<<>>)' = shown'
    BY <2>1 DEF Play
  <2> QED BY <1>2, <1>3, <2>2 DEF Displayed, CuesOf
<1>10. Covered(sched)'
  BY <1>3, <1>4 DEF Covered
<1>11. Rated(sched)'
  <2>1. ASSUME NEW scope \in Scopes PROVE StartsAfter(sched, scope)' = StartsAfter(s, scope)
    <3> DEFINE times == StartsAfter(s, scope)
    <3>1. times \in Seq(Nat) /\ starts'[scope] = times
      BY <1>1, <1>2, StartsTyped
    <3>2. LimitedStarts(sched.events, scope)' = {}
      BY <1>3, EmptySequence DEF LimitedStarts
    <3> DEFINE later == starts'[scope]
    <3>3. StartsAfter(sched, scope)' =
             [i \in 1..Len(later) + 0 |-> IF i <= Len(later) THEN later[i] ELSE now']
      BY <3>2, FS_EmptySet DEF StartsAfter, Extended
    <3> HIDE DEF times, later
    <3>4. later = times /\ later = [i \in 1..Len(later) |-> later[i]] /\ Len(later) \in Nat
      BY <3>1 DEF later
    <3>5. StartsAfter(sched, scope)' = later
      BY <3>3, <3>4
    <3> QED BY <3>4, <3>5 DEF times
  <2>2. Layers \in Scopes /\ \A l \in DOMAIN LayerLimits : {l} \in Scopes
    BY PolicyAssumption DEF Scopes
  <2>3. ASSUME NEW deque, NEW times, NEW limit, Windowed(deque, times, limit)
        PROVE  Windowed(deque, times, limit)'
    BY <1>2, <2>3 DEF Windowed
  <2>4. Windowed(sched.globalStarts, StartsAfter(sched, Layers), GlobalLimit)'
    BY <1>1, <1>3, <2>1, <2>2, <2>3 DEF Rated
  <2>5. ASSUME NEW l \in DOMAIN LayerLimits
        PROVE  Windowed(sched.layerStarts[l], StartsAfter(sched, {l}), LayerLimits[l])'
    BY <1>1, <1>3, <2>1, <2>2, <2>3 DEF Rated
  <2> QED BY <2>4, <2>5 DEF Rated
<1>12. NoLayerForgotten'
  <2> SUFFICES ASSUME NEW l \in used'
               PROVE  (\/ \E lease \in sched.active : lease.cue.layer = l
                       \/ /\ l \in sched.needsNeutral
                          /\ ConflictingLeases(sched, NeutralCue(l, sched.generation)) /= {})'
    BY DEF NoLayerForgotten
  <2>1. s.connected
    BY <1>2
  <2>2. l \in s.needsNeutral \cup LayersOf(s.active)
    BY <1>4, <2>1
  <2>3. l \in s.needsNeutral => Delayed(s, l)
    BY <2>1 DEF Restored
  <2>4. Delayed(s, l) => ConflictingLeases(sched', NeutralCue(l, sched'.generation)) /= {}
    BY <1>3 DEF Delayed, ConflictingLeases
  <2> QED BY <1>3, <2>2, <2>3, <2>4 DEF LayersOf
<1>13. CallInv(sched)'
  BY <1>6, <1>7, <1>8, <1>9, <1>10, <1>11 DEF CallInv, Kept
<1> QED BY <1>3, <1>5, <1>12, <1>13 DEF IInv

\* The calls end in _restore_neutrals; disconnect ends with the renderer gone.
LEMMA CallKeeps ==
    ASSUME History, NEW s, CallInv(s), Becomes(RestoreNeutrals(s))
    PROVE  IInv'
<1> DEFINE t == RestoreNeutrals(s)
<1>1. CallInv(t) /\ Restored(t)
  BY RestoreNeutralsKeeps
<1> HIDE DEF t
<1>2. Becomes(t)
  BY DEF t
<1> QED BY <1>1, <1>2, BecomesKeeps

\* A cue joins the queue.
LEMMA AppendPendingKeeps ==
    ASSUME NEW s, CallInv(s), Online(s), NEW cue, NEW due, Startable(s, cue),
           cue.id \notin ActiveIds(s), cue.id \notin PendingIds(s), Len(s.pending) < MaxPending
    PROVE  CallInv(WithPending(s, Append(s.pending, [cue |-> cue, due |-> due])))
<1> DEFINE q == s.pending
           e == [cue |-> cue, due |-> due]
           r == Append(q, e)
           t == WithPending(s, r)
           N == Len(q)
<1>1. /\ IsRecord(s) /\ IsSequence(q) /\ IsSequence(s.markers) /\ Waiting(s) /\ Marked(s)
  BY DEF CallInv, Kept, Typed
<1>2. N \in Nat /\ DOMAIN q = 1..N /\ MaxPending \in Nat /\ e.cue = cue
  BY <1>1, SequenceFacts, PolicyAssumption
<1> HIDE DEF e
<1>3. /\ IsSequence(r) /\ Len(r) = N + 1
      /\ (\A i \in 1..N : r[i] = q[i]) /\ r[N + 1] = e
  BY <1>1, AppendFacts
<1> HIDE DEF r
<1>4. /\ IsRecord(t) /\ t.pending = r /\ t.markers = s.markers
      /\ t.generation = s.generation /\ t.connected = s.connected /\ t.active = s.active
      /\ t.byLayer = s.byLayer /\ t.needsNeutral = s.needsNeutral /\ t.events = s.events
      /\ t.globalStarts = s.globalStarts /\ t.layerStarts = s.layerStarts
  BY <1>1, WithPendingFields
<1>5. /\ \A j \in 1..N : Startable(s, q[j].cue) /\ q[j].cue.id \notin ActiveIds(s)
      /\ \A j, k \in 1..N : q[j].cue.id = q[k].cue.id => j = k
      /\ \A j \in 1..N : q[j].cue.id /= cue.id
      /\ N < MaxPending
  BY <1>1, <1>2 DEF Waiting, PendingIds
<1>6. ActiveIds(t) = ActiveIds(s) /\ \A c : Startable(s, c) => Startable(t, c)
  BY <1>4 DEF ActiveIds, Startable
<1> HIDE DEF q, r, t, N
<1>7. Waiting(t)
  <2>1. \A i \in 1..N + 1 : i \in 1..N \/ i = N + 1
    BY <1>2
  <2>2. \A i \in 1..N + 1 : Startable(t, r[i].cue) /\ r[i].cue.id \notin ActiveIds(t)
    BY <1>2, <1>3, <1>5, <1>6, <2>1
  <2>3. \A i, j \in 1..N + 1 : r[i].cue.id = r[j].cue.id => i = j
    BY <1>2, <1>3, <1>5, <2>1
  <2>4. N + 1 <= MaxPending
    BY <1>2, <1>5
  <2> QED BY <1>3, <1>4, <2>2, <2>3, <2>4 DEF Waiting
<1>8. Marked(t) /\ OfflineIsEmpty(t)
  BY <1>1, <1>4 DEF Marked, OfflineIsEmpty, Online
<1>9. CallInv(t)
  BY <1>1, <1>3, <1>4, <1>7, <1>8, QueuesKeep
<1> QED BY <1>9 DEF t, r, q, e

LEMMA SubmittedKeeps ==
    ASSUME History, NEW s, CallInv(s), NEW request \in Requests, NEW g, NEW at,
           NEW cue, cue = MakeCue(request, g, at)
    PROVE  CallInv(Submitted(s, cue))
<1>1. cue.id = request.id /\ cue.layer = LayerOf[request.key]
  BY DEF MakeCue
<1>2. cue.layer \in Layers /\ \A l \in Layers : cue.id /= <<"neutral", l>>
  BY <1>1, ProfileAssumption, RequestAssumption DEF ValidProfile
<1>3. CASE ~Admissible(s, cue)
  BY <1>3 DEF Submitted
<1>4. CASE Admissible(s, cue)
  <2>1. /\ Online(s) /\ cue.id \notin ActiveIds(s) /\ cue.id \notin PendingIds(s)
        /\ Startable(s, cue) /\ MayStart(s, cue)
    BY <1>2, <1>4 DEF Admissible, Online, Startable, MayStart
  <2>2. CallInv(AttemptStart(s, cue))
    BY <2>1, AttemptStartKeeps
  <2>3. \/ Submitted(s, cue) = AttemptStart(s, cue)
        \/ Submitted(s, cue) = s
        \/ /\ ~(Len(s.pending) >= MaxPending)
           /\ Submitted(s, cue) = WithPending(s, Append(s.pending, [cue |-> cue, due |-> DueAt(s, cue)]))
    BY <1>4 DEF Submitted, WithPending
  <2>4. Len(s.pending) \in Nat /\ MaxPending \in Nat
    BY SequenceFacts, PolicyAssumption DEF CallInv, Kept, Typed
  <2>5. Len(s.pending) < MaxPending =>
           CallInv(WithPending(s, Append(s.pending, [cue |-> cue, due |-> DueAt(s, cue)])))
    BY <2>1, AppendPendingKeeps
  <2> QED BY <2>2, <2>3, <2>4, <2>5
<1> QED BY <1>3, <1>4

\* One marker a key, and no more of them than the policy allows.
GoodMarkers(m) ==
    /\ IsSequence(m) /\ Len(m) <= MaxMarkers
    /\ \A i, j \in 1..Len(m) : m[i].key = m[j].key => i = j

LEMMA RememberKeeps ==
    ASSUME NEW m, GoodMarkers(m), NEW marker
    PROVE  GoodMarkers(Remember(m, marker))
<1> DEFINE same == {i \in DOMAIN m : m[i].key = marker.key}
           i == CHOOSE i \in same : TRUE
           others == IF same = {} THEN m ELSE RemoveAt(m, i)
           \* At most n markers of other keys.
           Foreign(x, n) == /\ IsSequence(x) /\ Len(x) <= n
                            /\ \A j \in 1..Len(x) : x[j].key /= marker.key
                            /\ \A j, k \in 1..Len(x) : x[j].key = x[k].key => j = k
<1>1. Len(m) \in Nat /\ DOMAIN m = 1..Len(m) /\ MaxMarkers \in Nat \ {0}
  BY SequenceFacts, PolicyAssumption DEF GoodMarkers
<1>2. Foreign(others, MaxMarkers)
  <2>1. CASE same = {}
    BY <1>1, <2>1 DEF GoodMarkers
  <2>2. CASE same /= {}
    <3>1. i \in same /\ i \in 1..Len(m) /\ m[i].key = marker.key
      BY <1>1, <2>2
    <3> HIDE DEF i, same
    <3>2. IsSequence(RemoveAt(m, i)) /\ Len(RemoveAt(m, i)) = Len(m) - 1
      BY <3>1, RemoveAtFacts DEF GoodMarkers
    <3>3. PICK source \in [1..Len(m) - 1 -> (1..Len(m)) \ {i}] :
             /\ \A j \in 1..Len(m) - 1 : RemoveAt(m, i)[j] = m[source[j]]
             /\ \A j, k \in 1..Len(m) - 1 : source[j] = source[k] => j = k
      BY <3>1, RemoveAtSource DEF GoodMarkers
    <3>4. \A j \in 1..Len(m) - 1 : source[j] \in 1..Len(m) /\ source[j] /= i
      BY <3>3
    <3>5. \A j \in 1..Len(m) - 1 : RemoveAt(m, i)[j].key /= marker.key
      BY <3>1, <3>3, <3>4 DEF GoodMarkers
    <3>6. \A j, k \in 1..Len(m) - 1 : RemoveAt(m, i)[j].key = RemoveAt(m, i)[k].key => j = k
      BY <3>3, <3>4 DEF GoodMarkers
    <3>7. Len(m) - 1 <= MaxMarkers
      BY <1>1 DEF GoodMarkers
    <3> QED BY <2>2, <3>2, <3>5, <3>6, <3>7
  <2> QED BY <2>1, <2>2
<1>3. Remember(m, marker) = IF Len(others) < MaxMarkers THEN Append(others, marker)
                            ELSE Append(Tail(others), marker)
  BY DEF Remember
<1> HIDE DEF others
<1>4. ASSUME NEW x, Foreign(x, MaxMarkers - 1) PROVE GoodMarkers(Append(x, marker))
  <2> DEFINE y == Append(x, marker)
             K == Len(x)
  <2>1. /\ IsSequence(y) /\ Len(y) = K + 1 /\ K \in Nat /\ K + 1 <= MaxMarkers
        /\ (\A j \in 1..K : y[j] = x[j]) /\ y[K + 1] = marker
    BY <1>1, <1>4, AppendFacts, SequenceFacts
  <2>2. ASSUME NEW j \in 1..K + 1, NEW k \in 1..K + 1, y[j].key = y[k].key
        PROVE  j = k
    <3> HIDE DEF y
    <3>1. (j \in 1..K \/ j = K + 1) /\ (k \in 1..K \/ k = K + 1)
      BY <2>1
    <3> QED BY <1>4, <2>1, <2>2, <3>1
  <2> HIDE DEF y
  <2> QED BY <2>1, <2>2 DEF GoodMarkers, y
<1>5. Len(others) \in Nat /\ IsSequence(others)
  BY <1>2, SequenceFacts
<1>6. CASE Len(others) < MaxMarkers
  <2>1. Foreign(others, MaxMarkers - 1)
    BY <1>1, <1>2, <1>5, <1>6
  <2> HIDE DEF Foreign
  <2> QED BY <1>3, <1>4, <1>6, <2>1
<1>7. CASE ~(Len(others) < MaxMarkers)
  <2>1. Len(others) = MaxMarkers /\ others /= <<>>
    BY <1>1, <1>2, <1>5, <1>7, EmptySequence
  <2>2. /\ IsSequence(Tail(others)) /\ Len(Tail(others)) = Len(others) - 1
        /\ \A j \in 1..Len(Tail(others)) : Tail(others)[j] = others[j + 1]
    <3> DEFINE S == {others[j] : j \in DOMAIN others}
    <3>1. others \in Seq(S) /\ others /= <<>>
      BY <1>5, <2>1 DEF IsSequence
    <3> HIDE DEF S
    <3>2. Tail(others) \in Seq(S) /\ Len(Tail(others)) = Len(others) - 1
      BY <3>1, HeadTailProperties
    <3>3. \A j \in 1..Len(Tail(others)) : Tail(others)[j] = others[j + 1]
      BY <3>1, HeadTailProperties
    <3> QED BY <3>2, <3>3, SequenceOf
  <2>3. \A j \in 1..Len(Tail(others)) : j + 1 \in 1..Len(others)
    BY <1>5, <2>2
  <2>4. Foreign(Tail(others), MaxMarkers - 1)
    BY <1>1, <1>2, <2>1, <2>2, <2>3
  <2> HIDE DEF Foreign
  <2> QED BY <1>3, <1>4, <1>7, <2>4
<1> QED BY <1>6, <1>7

-----------------------------------------------------------------------------
(* The calls                                                                 *)

LEMMA SubmitKeeps == IInv /\ Submit => IInv'
<1> SUFFICES ASSUME IInv, Submit PROVE IInv'
  OBVIOUS
<1>1. History /\ CallInv(sched)
  BY DEF IInv
<1>2. PICK request \in Requests, generation \in 0..MaxGeneration, requestedAt \in Recent :
         Becomes(RestoreNeutrals(Submitted(Expire(sched), MakeCue(request, generation, requestedAt))))
  BY DEF Submit
<1> DEFINE cue == MakeCue(request, generation, requestedAt)
           s == Expire(sched)
           t == Submitted(s, cue)
<1>3. CallInv(s)
  BY <1>1, ExpireKeeps
<1> HIDE DEF s
<1>4. CallInv(t)
  <2> HIDE DEF cue
  <2>1. cue = MakeCue(request, generation, requestedAt)
    BY DEF cue
  <2> QED BY <1>1, <1>3, <2>1, SubmittedKeeps
<1>5. Becomes(RestoreNeutrals(t))
  BY <1>2 DEF s
<1> HIDE DEF t
<1> QED BY <1>1, <1>4, <1>5, CallKeeps

LEMMA TickKeeps == IInv /\ Tick => IInv'
<1> SUFFICES ASSUME IInv, Tick PROVE IInv'
  OBVIOUS
<1>1. History /\ CallInv(sched)
  BY DEF IInv
<1> DEFINE s == Expire(sched)
           t == StartDue(s)
<1>2. CallInv(s)
  BY <1>1, ExpireKeeps
<1> HIDE DEF s
<1>3. CallInv(t)
  BY <1>1, <1>2, StartDueKeeps
<1>4. Becomes(RestoreNeutrals(t))
  BY DEF Tick, s
<1> HIDE DEF t
<1> QED BY <1>1, <1>3, <1>4, CallKeeps

\* What notify_audio does before it starts the cues that are due.
WithQueues(s, q, m) == [s EXCEPT !.markers = m, !.pending = q]

LEMMA WithQueuesFields ==
    ASSUME NEW s, IsRecord(s), NEW q, NEW m, NEW t, t = WithQueues(s, q, m)
    PROVE  /\ IsRecord(t) /\ t.pending = q /\ t.markers = m
           /\ t.generation = s.generation /\ t.connected = s.connected /\ t.active = s.active
           /\ t.byLayer = s.byLayer /\ t.needsNeutral = s.needsNeutral /\ t.events = s.events
           /\ t.globalStarts = s.globalStarts /\ t.layerStarts = s.layerStarts
  BY DEF WithQueues, IsRecord

\* The same cues wait, with new due times.
Redated(q, p) == /\ IsSequence(q) /\ Len(q) = Len(p)
                 /\ \A i \in 1..Len(p) : q[i].cue = p[i].cue

LEMMA RedatedKeeps ==
    ASSUME NEW s, CallInv(s), NEW q, Redated(q, s.pending), NEW m, GoodMarkers(m),
           NEW t, t = WithQueues(s, q, m)
    PROVE  CallInv(t)
<1>1. /\ IsRecord(s) /\ IsSequence(s.pending) /\ Waiting(s) /\ OfflineIsEmpty(s)
  BY DEF CallInv, Kept, Typed
<1>2. /\ IsRecord(t) /\ t.pending = q /\ t.markers = m
      /\ t.generation = s.generation /\ t.connected = s.connected /\ t.active = s.active
      /\ t.byLayer = s.byLayer /\ t.needsNeutral = s.needsNeutral /\ t.events = s.events
      /\ t.globalStarts = s.globalStarts /\ t.layerStarts = s.layerStarts
  BY <1>1, WithQueuesFields
<1>3. Waiting(t)
  <2>1. ActiveIds(t) = ActiveIds(s) /\ \A c : Startable(s, c) => Startable(t, c)
    BY <1>2 DEF ActiveIds, Startable
  <2> QED BY <1>1, <1>2, <2>1 DEF Waiting, Redated
<1>4. Marked(t) /\ IsSequence(t.markers) /\ IsSequence(t.pending)
  BY <1>2 DEF Marked, GoodMarkers, Redated
<1>5. OfflineIsEmpty(t)
  <2>1. s.pending = <<>> => q = <<>>
    <3>1. s.pending = <<>> => Len(q) = 0
      BY EmptySequence DEF Redated
    <3> QED BY <3>1, EmptySeq DEF IsSequence, Redated
  <2> QED BY <1>1, <1>2, <2>1 DEF OfflineIsEmpty
<1> QED BY <1>2, <1>3, <1>4, <1>5, QueuesKeep

LEMMA NotifyAudioKeeps == IInv /\ NotifyAudio => IInv'
<1> SUFFICES ASSUME IInv, NotifyAudio PROVE IInv'
  OBVIOUS
<1>1. History /\ CallInv(sched)
  BY DEF IInv
<1> DEFINE s == Expire(sched)
           due(key, at, p) == IF p.cue.anchor = key THEN at + p.cue.offset ELSE p.due
           bound(key, at, p) == [cue |-> p.cue, due |-> due(key, at, p)]
           Queue(key, at) == [i \in DOMAIN s.pending |-> bound(key, at, s.pending[i])]
           Markers(key, at) == Remember(s.markers, [key |-> key, at |-> at])
<1>2. CallInv(s)
  BY <1>1, ExpireKeeps
<1>3. /\ IsRecord(s) /\ IsSequence(s.pending) /\ IsSequence(s.markers) /\ Marked(s)
      /\ Len(s.pending) \in Nat /\ DOMAIN s.pending = 1..Len(s.pending)
  BY <1>2, SequenceFacts DEF CallInv, Kept, Typed
<1>4. PICK key \in Anchors, at \in Recent :
         Becomes(RestoreNeutrals(StartDue(WithQueues(s, Queue(key, at), Markers(key, at)))))
  <2>1. PICK key \in Anchors, at \in Recent :
           Becomes(RestoreNeutrals(StartDue(
              [s EXCEPT !.markers = Remember(@, [key |-> key, at |-> at]),
                        !.pending = [i \in DOMAIN @ |-> bound(key, at, @[i])]])))
    BY DEF NotifyAudio
  <2> HIDE DEF s, bound
  <2>2. [s EXCEPT !.markers = Remember(@, [key |-> key, at |-> at]),
                  !.pending = [i \in DOMAIN @ |-> bound(key, at, @[i])]]
           = WithQueues(s, Queue(key, at), Markers(key, at))
    BY <1>3 DEF WithQueues, IsRecord
  <2> QED BY <2>1, <2>2
<1> HIDE DEF s
<1>5. Redated(Queue(key, at), s.pending)
  <2> DEFINE S == {Queue(key, at)[i] : i \in DOMAIN Queue(key, at)}
  <2>1. Queue(key, at) = [i \in 1..Len(s.pending) |-> bound(key, at, s.pending[i])]
    BY <1>3
  <2>2. Queue(key, at) \in [1..Len(s.pending) -> S]
    <3> HIDE DEF bound
    <3> QED BY <2>1
  <2>3. \A i \in 1..Len(s.pending) : Queue(key, at)[i].cue = s.pending[i].cue
    BY <2>1
  <2> HIDE DEF Queue, S
  <2>4. Queue(key, at) \in Seq(S) /\ Len(Queue(key, at)) = Len(s.pending)
    BY <1>3, <2>2, SeqDef, LenProperties
  <2> QED BY <2>3, <2>4, SequenceOf DEF Redated
<1>6. GoodMarkers(Markers(key, at))
  <2>1. GoodMarkers(s.markers)
    BY <1>3 DEF Marked, GoodMarkers
  <2> QED BY <2>1, RememberKeeps
<1> HIDE DEF Queue, Markers
<1> DEFINE t == WithQueues(s, Queue(key, at), Markers(key, at))
           u == StartDue(t)
<1>7. CallInv(t)
  BY <1>2, <1>5, <1>6, RedatedKeeps
<1> HIDE DEF t
<1>8. CallInv(u)
  BY <1>1, <1>7, StartDueKeeps
<1>9. Becomes(RestoreNeutrals(u))
  BY <1>4 DEF t
<1> HIDE DEF u
<1> QED BY <1>1, <1>8, <1>9, CallKeeps

LEMMA CancelKeeps == IInv /\ Cancel => IInv'
<1> SUFFICES ASSUME IInv, Cancel PROVE IInv'
  OBVIOUS
<1>1. History /\ CallInv(sched)
  BY DEF IInv
<1> DEFINE s == Expire(sched)
           waiting(id) == {i \in DOMAIN s.pending : s.pending[i].cue.id = id}
           leases(id) == {lease \in s.active : lease.cue.id = id}
           first(id) == CHOOSE i \in waiting(id) : TRUE
           t(id) == IF waiting(id) /= {} THEN WithPending(s, RemoveAt(s.pending, first(id)))
                    ELSE Release(s, leases(id))
<1>2. CallInv(s)
  BY <1>1, ExpireKeeps
<1>3. IsRecord(s) /\ IsSequence(s.pending)
  BY <1>2 DEF CallInv, Kept, Typed
<1>4. PICK id : Becomes(RestoreNeutrals(t(id)))
  BY DEF Cancel, WithPending
<1> HIDE DEF s
<1>5. CallInv(t(id))
  <2>1. CASE waiting(id) /= {}
    <3>1. first(id) \in DOMAIN s.pending
      BY <2>1
    <3>2. first(id) \in 1..Len(s.pending)
      BY <1>3, <3>1, SequenceFacts
    <3> HIDE DEF first
    <3>3. CallInv(WithPending(s, RemoveAt(s.pending, first(id))))
      BY <1>2, <3>2, RemovePendingKeeps
    <3> QED BY <2>1, <3>3
  <2>2. CASE waiting(id) = {}
    <3>1. leases(id) \subseteq s.active
      OBVIOUS
    <3> HIDE DEF leases
    <3>2. CallInv(Release(s, leases(id)))
      BY <1>2, <3>1, ReleaseKeeps
    <3> QED BY <2>2, <3>2
  <2> QED BY <2>1, <2>2
<1> HIDE DEF t
<1> QED BY <1>1, <1>4, <1>5, CallKeeps

Emptied(r, g, c, m, n) ==
    [r EXCEPT !.generation = g, !.connected = c, !.pending = <<>>, !.markers = m,
              !.needsNeutral = n]

LEMMA EmptiedFields ==
    ASSUME NEW r, IsRecord(r), NEW g, NEW c, NEW m, NEW n, NEW t, t = Emptied(r, g, c, m, n)
    PROVE  /\ IsRecord(t) /\ t.active = r.active /\ t.byLayer = r.byLayer /\ t.events = r.events
           /\ t.globalStarts = r.globalStarts /\ t.layerStarts = r.layerStarts
           /\ t.connected = c /\ t.pending = <<>> /\ t.markers = m /\ t.needsNeutral = n
  BY DEF Emptied, IsRecord

\* A call that clears everything: the queue is empty and no lease is left.
LEMMA EmptiedKeeps ==
    ASSUME NEW r, CallInv(r), r.active = {}, NEW t, IsRecord(t),
           t.active = {}, t.pending = <<>>, IsSequence(t.markers), Marked(t),
           t.byLayer = r.byLayer, t.events = r.events,
           t.globalStarts = r.globalStarts, t.layerStarts = r.layerStarts,
           t.needsNeutral \subseteq Layers, Covered(t)
    PROVE  CallInv(t)
<1>1. Typed(r) /\ Exclusive(r) /\ Displayed(r) /\ Rated(r)
  BY DEF CallInv, Kept
<1>2. Typed(t)
  BY <1>1, EmptySequence DEF Typed
<1>3. Exclusive(t) /\ Displayed(t) /\ OfflineIsEmpty(t)
  BY <1>1 DEF Exclusive, Displayed, OfflineIsEmpty
<1>4. Waiting(t)
  <2>1. Len(t.pending) = 0 /\ 1..0 = {} /\ 0 <= MaxPending
    BY EmptySequence, PolicyAssumption
  <2> QED BY <2>1 DEF Waiting
<1>5. Rated(t)
  BY <1>1, SameRates
<1> QED BY <1>2, <1>3, <1>4, <1>5 DEF CallInv, Kept

LEMMA NoMarkers ==
    ASSUME NEW t, t.markers = <<>>
    PROVE  IsSequence(t.markers) /\ Marked(t)
<1>1. Len(t.markers) = 0 /\ 1..0 = {} /\ 0 <= MaxMarkers
  BY EmptySequence, PolicyAssumption
<1> QED BY <1>1, EmptySequence DEF Marked

LEMMA DropFacts ==
    ASSUME NEW s, CallInv(s), NEW r, r = Drop(s)
    PROVE  CallInv(r) /\ IsRecord(r) /\ r.active = {} /\ r.markers = s.markers
<1>1. IsRecord(s)
  BY DEF CallInv, Kept, Typed
<1>2. CallInv(r)
  BY ReleaseKeeps DEF Drop
<1>3. r.active = s.active \ s.active /\ r.markers = s.markers
  BY <1>1, ReleaseFields DEF Drop
<1> QED BY <1>2, <1>3 DEF CallInv, Kept, Typed

LEMMA AdvanceGenerationKeeps == IInv /\ AdvanceGeneration => IInv'
<1> SUFFICES ASSUME IInv, AdvanceGeneration PROVE IInv'
  OBVIOUS
<1>1. History /\ CallInv(sched)
  BY DEF IInv
<1> DEFINE r == Drop(sched)
           t(g) == [r EXCEPT !.generation = g, !.pending = <<>>, !.markers = <<>>]
<1>2. CallInv(r) /\ IsRecord(r) /\ r.active = {}
  BY <1>1, DropFacts
<1>3. PICK g : Becomes(RestoreNeutrals(t(g)))
  BY DEF AdvanceGeneration
<1> HIDE DEF r
<1>4. t(g) = Emptied(r, g, r.connected, <<>>, r.needsNeutral)
  BY <1>2 DEF Emptied, IsRecord
<1> HIDE DEF t
<1>5. /\ IsRecord(t(g)) /\ t(g).active = r.active /\ t(g).pending = <<>> /\ t(g).markers = <<>>
      /\ t(g).connected = r.connected /\ t(g).byLayer = r.byLayer /\ t(g).events = r.events
      /\ t(g).globalStarts = r.globalStarts /\ t(g).layerStarts = r.layerStarts
      /\ t(g).needsNeutral = r.needsNeutral
  BY <1>2, <1>4, EmptiedFields
<1>6. Covered(t(g)) /\ t(g).needsNeutral \subseteq Layers
  BY <1>2, <1>5 DEF CallInv, Kept, Covered, Typed
<1>7. CallInv(t(g))
  BY <1>2, <1>5, <1>6, NoMarkers, EmptiedKeeps
<1> QED BY <1>1, <1>3, <1>7, CallKeeps

LEMMA ResetToNeutralKeeps == IInv /\ ResetToNeutral => IInv'
<1> SUFFICES ASSUME IInv, ResetToNeutral PROVE IInv'
  OBVIOUS
<1>1. History /\ CallInv(sched)
  BY DEF IInv
<1> DEFINE r == Drop(sched)
           t == [r EXCEPT !.pending = <<>>, !.needsNeutral = Layers]
<1>2. CallInv(r) /\ IsRecord(r) /\ r.active = {}
  BY <1>1, DropFacts
<1>3. Becomes(RestoreNeutrals(t))
  BY DEF ResetToNeutral
<1> HIDE DEF r
<1>4. t = Emptied(r, r.generation, r.connected, r.markers, Layers)
  BY <1>2 DEF Emptied, IsRecord
<1> HIDE DEF t
<1>5. /\ IsRecord(t) /\ t.active = r.active /\ t.pending = <<>> /\ t.markers = r.markers
      /\ t.byLayer = r.byLayer /\ t.events = r.events
      /\ t.globalStarts = r.globalStarts /\ t.layerStarts = r.layerStarts
      /\ t.needsNeutral = Layers
  BY <1>2, <1>4, EmptiedFields
<1>6. Covered(t) /\ IsSequence(t.markers) /\ Marked(t)
  BY <1>1, <1>2, <1>5 DEF CallInv, Kept, Covered, Typed, Marked, History
<1>7. CallInv(t)
  BY <1>2, <1>5, <1>6, EmptiedKeeps
<1> QED BY <1>1, <1>3, <1>7, CallKeeps

LEMMA ReconnectKeeps == IInv /\ Reconnect => IInv'
<1> SUFFICES ASSUME IInv, Reconnect PROVE IInv'
  OBVIOUS
<1>1. History /\ CallInv(sched) /\ IsRecord(sched)
  BY DEF IInv, CallInv, Kept, Typed
<1> DEFINE t == [sched EXCEPT !.connected = TRUE, !.needsNeutral = Layers]
<1>2. sched.active = {} /\ sched.pending = <<>>
  BY <1>1 DEF CallInv, Kept, OfflineIsEmpty, Reconnect
<1>3. Becomes(RestoreNeutrals(t))
  BY DEF Reconnect
<1> DEFINE online == TRUE
<1>4. t = Emptied(sched, sched.generation, online, sched.markers, Layers)
  BY <1>1, <1>2 DEF Emptied, IsRecord
<1> HIDE DEF t, online
<1>5. /\ IsRecord(t) /\ t.active = sched.active /\ t.pending = <<>>
      /\ t.markers = sched.markers /\ t.byLayer = sched.byLayer /\ t.events = sched.events
      /\ t.globalStarts = sched.globalStarts /\ t.layerStarts = sched.layerStarts
      /\ t.needsNeutral = Layers
  BY <1>1, <1>4, EmptiedFields
<1>6. Covered(t) /\ IsSequence(t.markers) /\ Marked(t)
  BY <1>1, <1>5 DEF CallInv, Kept, Covered, Typed, Marked, History
<1>7. CallInv(t)
  BY <1>1, <1>2, <1>5, <1>6, EmptiedKeeps
<1> QED BY <1>1, <1>3, <1>7, CallKeeps

LEMMA DisconnectKeeps == IInv /\ Disconnect => IInv'
<1> SUFFICES ASSUME IInv, Disconnect PROVE IInv'
  OBVIOUS
<1>1. History /\ CallInv(sched) /\ IsRecord(sched)
  BY DEF IInv, CallInv, Kept, Typed
<1> DEFINE r == Drop(sched)
           u == StopAll(sched, sched.active)
           t == [u EXCEPT !.connected = FALSE, !.pending = <<>>, !.markers = <<>>,
                          !.needsNeutral = {}]
<1>2. CallInv(r) /\ r.active = {}
  BY <1>1, DropFacts
<1>3. /\ IsRecord(u) /\ u.active = r.active /\ u.byLayer = r.byLayer /\ u.events = r.events
      /\ u.globalStarts = r.globalStarts /\ u.layerStarts = r.layerStarts
  <2>1. /\ IsRecord(u) /\ u.active = sched.active \ sched.active
        /\ u.byLayer = NamesLeft(sched, sched.active)
        /\ u.events = Append(sched.events, Batch("stopped", CuesOf(sched.active)))
        /\ u.globalStarts = sched.globalStarts /\ u.layerStarts = sched.layerStarts
    BY <1>1, StopAllFields
  <2>2. /\ r.active = sched.active \ sched.active
        /\ r.byLayer = NamesLeft(sched, sched.active)
        /\ r.events = Append(sched.events, Batch("stopped", CuesOf(sched.active)))
        /\ r.globalStarts = sched.globalStarts /\ r.layerStarts = sched.layerStarts
    BY <1>1, ReleaseFields DEF Drop
  <2> HIDE DEF r, u
  <2> QED BY <2>1, <2>2
<1>4. Becomes(t)
  BY DEF Disconnect
<1> HIDE DEF r, u
<1> DEFINE offline == FALSE
<1>5. t = Emptied(u, u.generation, offline, <<>>, {})
  BY <1>3 DEF Emptied, IsRecord
<1> HIDE DEF t, offline
<1>6. /\ IsRecord(t) /\ t.active = u.active /\ t.pending = <<>> /\ t.markers = <<>>
      /\ t.connected = offline /\ t.byLayer = u.byLayer /\ t.events = u.events
      /\ t.globalStarts = u.globalStarts /\ t.layerStarts = u.layerStarts
      /\ t.needsNeutral = {}
  BY <1>3, <1>5, EmptiedFields
<1>7. Covered(t) /\ Restored(t)
  BY <1>6 DEF Covered, Restored, offline
<1>8. CallInv(t)
  BY <1>2, <1>3, <1>6, <1>7, NoMarkers, EmptiedKeeps
<1> QED BY <1>1, <1>4, <1>7, <1>8, BecomesKeeps

\* Between the calls nothing is left to count.
LEMMA StartsBetween ==
    ASSUME History, NEW s, s.events = <<>>, NEW scope \in Scopes
    PROVE  StartsAfter(s, scope) = starts[scope]
<1> DEFINE times == starts[scope]
<1>1. times \in Seq(Nat)
  BY DEF History
<1>2. LimitedStarts(s.events, scope) = {}
  BY EmptySequence DEF LimitedStarts
<1>3. StartsAfter(s, scope) = [i \in 1..Len(times) + 0 |-> IF i <= Len(times) THEN times[i] ELSE now]
  BY <1>2, FS_EmptySet DEF StartsAfter, Extended
<1> HIDE DEF times
<1>4. times = [i \in 1..Len(times) |-> times[i]] /\ Len(times) \in Nat
  BY <1>1
<1> QED BY <1>3, <1>4 DEF times

LEMMA ScopesFacts == Layers \in Scopes /\ \A l \in DOMAIN LayerLimits : {l} \in Scopes
  BY PolicyAssumption DEF Scopes

\* What is out of a window stays out.
LEMMA ClockAdvancesKeeps == IInv /\ ClockAdvances => IInv'
<1> SUFFICES ASSUME IInv, ClockAdvances PROVE IInv'
  OBVIOUS
<1>1. /\ History /\ sched.events = <<>> /\ NoLayerForgotten
      /\ Typed(sched) /\ Exclusive(sched) /\ Waiting(sched) /\ Marked(sched)
      /\ OfflineIsEmpty(sched) /\ Displayed(sched) /\ Covered(sched) /\ Rated(sched)
  BY DEF IInv, CallInv, Kept
<1>2. /\ now' = now + 1 /\ sched' = sched /\ shown' = shown /\ used' = used /\ starts' = starts
      /\ now \in Nat
  BY <1>1 DEF ClockAdvances, History
<1>3. History' /\ sched'.events = <<>> /\ NoLayerForgotten'
  BY <1>1, <1>2 DEF History, NoLayerForgotten
<1>4. Kept(sched)'
  <2>1. Typed(sched)' /\ Exclusive(sched)' /\ Waiting(sched)' /\ Marked(sched)' /\ OfflineIsEmpty(sched)'
    BY <1>1, <1>2
  <2>2. Covered(sched)'
    BY <1>1, <1>2 DEF Covered
  <2>3. Displayed(sched)'
    BY <1>1, <1>2 DEF Displayed, Play
  <2> QED BY <2>1, <2>2, <2>3 DEF Kept
<1>5. \A scope \in Scopes : StartsAfter(sched, scope) = starts[scope]
  BY <1>1, StartsBetween
<1>6. ASSUME NEW scope \in Scopes PROVE StartsAfter(sched, scope)' = starts[scope]
  <2> DEFINE times == starts[scope]
  <2>1. times \in Seq(Nat) /\ starts'[scope] = times
    BY <1>1, <1>2 DEF History
  <2>2. LimitedStarts(sched.events, scope)' = {}
    BY <1>3, EmptySequence DEF LimitedStarts
  <2>3. StartsAfter(sched, scope)' =
           [i \in 1..Len(times) + 0 |-> IF i <= Len(times) THEN times[i] ELSE now']
    BY <2>1, <2>2, FS_EmptySet DEF StartsAfter, Extended
  <2> HIDE DEF times
  <2>4. times = [i \in 1..Len(times) |-> times[i]] /\ Len(times) \in Nat
    BY <2>1
  <2> QED BY <2>3, <2>4 DEF times
<1>7. ASSUME NEW deque, NEW times \in Seq(Nat), NEW limit \in Limits, Len(deque) \in Nat,
             Windowed(deque, times, limit)
      PROVE  Windowed(deque, times, limit)'
  <2>1. \A i \in 1..Len(times) - Len(deque) : times[i] + limit.window <= now
    BY <1>7 DEF Windowed
  <2>2. Len(times) \in Nat /\ \A i \in 1..Len(times) : times[i] \in Nat
    BY LenProperties, ElementOfSeq
  <2>3. limit.window \in Nat
    BY DEF Limits
  <2>4. \A i \in 1..Len(times) - Len(deque) : times[i] + limit.window <= now + 1
    BY <1>2, <1>7, <2>1, <2>2, <2>3
  <2> QED BY <1>2, <1>7, <2>4 DEF Windowed
<1>8. \A scope \in Scopes : starts[scope] \in Seq(Nat)
  BY <1>1 DEF History
<1>9. Windowed(sched.globalStarts, StartsAfter(sched, Layers), GlobalLimit)'
  <2>1. GlobalLimit \in Limits /\ Len(sched.globalStarts) \in Nat
    BY <1>1, PolicyAssumption, LenProperties DEF Typed
  <2>2. Windowed(sched.globalStarts, starts[Layers], GlobalLimit)
    BY <1>1, <1>5, ScopesFacts DEF Rated
  <2> QED BY <1>2, <1>6, <1>7, <1>8, <2>1, <2>2, ScopesFacts
<1>10. ASSUME NEW l \in DOMAIN LayerLimits
       PROVE  Windowed(sched.layerStarts[l], StartsAfter(sched, {l}), LayerLimits[l])'
  <2>1. LayerLimits[l] \in Limits /\ Len(sched.layerStarts[l]) \in Nat
    BY <1>1, PolicyAssumption, LenProperties DEF Typed
  <2>2. Windowed(sched.layerStarts[l], starts[{l}], LayerLimits[l])
    BY <1>1, <1>5, ScopesFacts DEF Rated
  <2> QED BY <1>2, <1>6, <1>7, <1>8, <2>1, <2>2, ScopesFacts
<1>11. Rated(sched)'
  BY <1>9, <1>10 DEF Rated
<1> QED BY <1>3, <1>4, <1>11 DEF IInv, CallInv

LEMMA InitKeeps == Init => IInv
<1> SUFFICES ASSUME Init PROVE IInv
  OBVIOUS
<1>1. /\ IsRecord(sched) /\ sched.active = {} /\ sched.byLayer = [l \in Layers |-> NoCue]
      /\ sched.pending = <<>> /\ sched.markers = <<>> /\ sched.needsNeutral = {}
      /\ sched.globalStarts = <<>> /\ sched.layerStarts = [l \in Layers |-> <<>>]
      /\ sched.events = <<>>
  BY DEF Init, IsRecord
<1>2. /\ now = 0 /\ shown = {} /\ used = {}
      /\ starts = [scope \in Scopes |-> <<>>] /\ <<>> \in Seq(Nat)
  BY EmptySeq DEF Init
<1>3. History
  BY <1>2 DEF History
<1>4. Typed(sched) /\ Exclusive(sched) /\ OfflineIsEmpty(sched)
  BY <1>1, <1>2, EmptySequence DEF Typed, Exclusive, OfflineIsEmpty
<1>5. Waiting(sched) /\ Marked(sched)
  <2>1. Len(<<>>) = 0 /\ 1..0 = {} /\ 0 <= MaxPending /\ 0 <= MaxMarkers
    BY EmptySequence, PolicyAssumption
  <2> QED BY <1>1, <2>1 DEF Waiting, Marked
<1>6. Displayed(sched) /\ Covered(sched)
  BY <1>1, <1>2, PlayNothing DEF Displayed, Covered, CuesOf
<1>7. Rated(sched)
  <2>1. \A limit : Windowed(<<>>, <<>>, limit)
    <3>1. Len(<<>>) = 0 /\ DOMAIN <<>> = {} /\ 1..0 = {}
      BY EmptySequence
    <3> QED BY <3>1 DEF Windowed, Spaced
  <2>2. \A scope \in Scopes : StartsAfter(sched, scope) = <<>>
    BY <1>1, <1>2, <1>3, StartsBetween
  <2>3. \A l \in DOMAIN LayerLimits : l \in Layers
    BY PolicyAssumption
  <2> QED BY <1>1, <2>1, <2>2, <2>3, ScopesFacts DEF Rated
<1>8. NoLayerForgotten
  BY <1>2 DEF NoLayerForgotten
<1> QED BY <1>1, <1>3, <1>4, <1>5, <1>6, <1>7, <1>8 DEF IInv, CallInv, Kept

LEMMA NextKeeps == IInv /\ [Next]_vars => IInv'
<1> SUFFICES ASSUME IInv, [Next]_vars PROVE IInv'
  OBVIOUS
<1>1. CASE Submit
  BY <1>1, SubmitKeeps
<1>2. CASE NotifyAudio
  BY <1>2, NotifyAudioKeeps
<1>3. CASE Tick
  BY <1>3, TickKeeps
<1>4. CASE AdvanceGeneration
  BY <1>4, AdvanceGenerationKeeps
<1>5. CASE Cancel
  BY <1>5, CancelKeeps
<1>6. CASE ResetToNeutral
  BY <1>6, ResetToNeutralKeeps
<1>7. CASE Disconnect
  BY <1>7, DisconnectKeeps
<1>8. CASE Reconnect
  BY <1>8, ReconnectKeeps
<1>9. CASE ClockAdvances
  BY <1>9, ClockAdvancesKeeps
<1>10. CASE UNCHANGED vars
  <2>1. sched' = sched /\ now' = now /\ shown' = shown /\ used' = used /\ starts' = starts
    BY <1>10 DEF vars
  <2>2. History' /\ sched'.events = <<>> /\ NoLayerForgotten'
    BY <2>1 DEF IInv, History, NoLayerForgotten
  <2>3. CallInv(sched)'
    <3>1. /\ Typed(sched)' /\ Exclusive(sched)' /\ Waiting(sched)' /\ Marked(sched)'
          /\ OfflineIsEmpty(sched)'
      BY <2>1 DEF IInv, CallInv, Kept
    <3>2. Displayed(sched)' /\ Covered(sched)'
      BY <2>1 DEF IInv, CallInv, Kept, Displayed, Play, Covered
    <3>3. \A scope : StartsAfter(sched, scope)' = StartsAfter(sched, scope)
      BY <2>1 DEF StartsAfter, Extended
    <3>4. Rated(sched)'
      BY <2>1, <3>3 DEF IInv, CallInv, Rated, Windowed
    <3> QED BY <3>1, <3>2, <3>4 DEF CallInv, Kept
  <2> QED BY <2>2, <2>3 DEF IInv
<1> QED BY <1>1, <1>2, <1>3, <1>4, <1>5, <1>6, <1>7, <1>8, <1>9, <1>10 DEF Next

\* The invariant of the calls holds whenever no call runs.
THEOREM SchedulerInvariant == Spec => []IInv
  BY InitKeeps, NextKeeps, PTL DEF Spec

\* At every state of every run, for any avatar profile and policy, the renderer shows exactly
\* the leases of the scheduler, exclusive in layers and resources and of the current
\* generation, and only acknowledgements of what is on show pass accepts_adapter_result.
THEOREM RendererAlwaysAgrees == Spec => []RendererAgrees
<1>1. IInv => RendererAgrees
  <2> SUFFICES ASSUME IInv PROVE RendererAgrees
    OBVIOUS
  <2>1. /\ Typed(sched) /\ Exclusive(sched) /\ Waiting(sched) /\ Marked(sched)
        /\ OfflineIsEmpty(sched) /\ Displayed(sched) /\ sched.events = <<>>
    BY DEF IInv, CallInv, Kept
  <2>2. shown = CuesOf(sched.active)
    BY <2>1, PlayNothing DEF Displayed
  <2>3. \A c, d \in shown :
           c /= d => c.layer /= d.layer /\ c.resources \cap d.resources = {}
    BY <2>1, <2>2 DEF Exclusive, CuesOf
  <2>4. \A c \in shown : c.generation = sched.generation /\ sched.byLayer[c.layer] = c.id
    BY <2>1, <2>2 DEF Exclusive, CuesOf
  <2>5. ~sched.connected => shown = {} /\ sched.pending = <<>>
    BY <2>1, <2>2 DEF OfflineIsEmpty, CuesOf
  <2>6. /\ DOMAIN sched.pending = 1..Len(sched.pending)
        /\ DOMAIN sched.markers = 1..Len(sched.markers)
    BY <2>1, SequenceFacts DEF Typed
  <2>7. \A i \in DOMAIN sched.pending : /\ sched.pending[i].cue.generation = sched.generation
                                        /\ sched.pending[i].cue.id \notin ActiveIds(sched)
    BY <2>1, <2>6 DEF Waiting, Startable
  <2>8. \A c \in Cues : AcceptsAdapterResult(c.id, c.generation) <=>
           \E d \in shown : d.id = c.id /\ d.generation = c.generation
    BY <2>2, <2>4, <2>5 DEF AcceptsAdapterResult, CuesOf
  <2>9. /\ Len(sched.pending) <= MaxPending /\ Len(sched.markers) <= MaxMarkers
        /\ \A i, j \in DOMAIN sched.markers : sched.markers[i].key = sched.markers[j].key => i = j
    BY <2>1, <2>6 DEF Waiting, Marked
  <2> QED BY <2>2, <2>3, <2>4, <2>5, <2>7, <2>8, <2>9 DEF RendererAgrees
<1> QED BY <1>1, SchedulerInvariant, PTL

\* A layer the renderer was given a cue for is never left on a cue that is over: it has a
\* lease, or waits for its neutral behind a lease in the neutral's way.
THEOREM NoLayerIsForgotten == Spec => []NoLayerForgotten
<1>1. IInv => NoLayerForgotten
  BY DEF IInv
<1> QED BY <1>1, SchedulerInvariant, PTL

\* No window of a rate limit, counted from the events the renderer got, holds more limited
\* starts than the limit's maximum.
THEOREM RatesAreLimited == Spec => []RateLimited
<1>1. IInv => RateLimited
  <2> SUFFICES ASSUME IInv PROVE RateLimited
    OBVIOUS
  <2>1. History /\ Rated(sched) /\ sched.events = <<>>
    BY DEF IInv, CallInv
  <2>2. \A scope \in Scopes : StartsAfter(sched, scope) = starts[scope]
    BY <2>1, StartsBetween
  <2> QED BY <2>1, <2>2, ScopesFacts DEF Rated, Windowed, RateLimited
<1> QED BY <1>1, SchedulerInvariant, PTL
=============================================================================
