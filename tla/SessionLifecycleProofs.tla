----------------------- MODULE SessionLifecycleProofs -----------------------
(* What holds of a SessionActor's end for any number of children, stop()    *)
(* calls, messages and failures. EndedActorIsNotRunning fails with two      *)
(* failures; that it takes two is proved.                                   *)
EXTENDS SessionLifecycle, TLAPS

\* A session that was not started has no task.
NewIsEmpty == lifecycle = "NEW" => actor = "none" /\ \A c \in Children : child[c] = "off"

\* The actor gathers its children behind a closed inbox.
CleanupClosed == actor = "cleanup" => closing /\ inbox.closed

\* _stopped is set together with the terminal state, and never before the actor
\* task is over.
StoppedActorIsOver ==
    /\ stopped <=> lifecycle \in Terminal
    /\ stopped => actor \in {"none", "ended", "escaped"}
    /\ actor = "ended" => stopped

QueuedWasSubmitted == inbox.queued <= messages

IInv ==
    /\ TypeOK
    /\ NewIsEmpty
    /\ CleanupClosed
    /\ StoppedActorIsOver
    /\ QueuedWasSubmitted
    /\ StoppedIsQuiet
    /\ StopReturnsStopped

\* Types after the finally clause, whether or not it waits for children.
LEMMA EnterFinallyType ==
    ASSUME TypeOK, NEW state \in Terminal, EnterFinally(state),
           failure' \in BOOLEAN, raised' \in 0 .. MaxFailures
    PROVE  TypeOK' /\ QueuedWasSubmitted'
<1>1. /\ lifecycle' \in {"NEW", "RUNNING", "STOPPING"} \cup Terminal
      /\ outboxClosed' \in BOOLEAN /\ stopped' \in BOOLEAN
      /\ actor' \in {"ended", "cleanup"}
  <2>1. CASE Unfinished = {}
    BY <2>1 DEF EnterFinally, Finalize
  <2>2. CASE Unfinished # {}
    BY <2>2 DEF TypeOK, EnterFinally
  <2> QED BY <2>1, <2>2
<1>2. child' \in [Children -> {"off", "live", "cancelling", "failing", "ending", "gone"}]
  BY DEF TypeOK, EnterFinally, BeginCleanup, CancelChildren
<1>3. closing' \in BOOLEAN /\ cancelled' \in BOOLEAN /\ terminal' \in Terminal
  BY DEF EnterFinally, BeginCleanup
<1>4. /\ inbox' \in [queued : 0 .. MaxMessages, closed : BOOLEAN]
      /\ inbox'.queued = 0 /\ messages' = messages /\ messages \in Nat
  BY LimitsAssumption DEF TypeOK, EnterFinally, BeginCleanup
<1>5. UNCHANGED <<stopper, watcher, messages>>
  BY DEF EnterFinally
<1> QED BY <1>1, <1>2, <1>3, <1>4, <1>5 DEF TypeOK, QueuedWasSubmitted

\* Every step keeps the types and counts.
LEMMA NextType ==
    ASSUME IInv, [Next]_vars
    PROVE  TypeOK' /\ QueuedWasSubmitted'
<1> USE DEF IInv, TypeOK, Terminal, QueuedWasSubmitted
<1>1. CASE Start
  BY <1>1, LimitsAssumption DEF Start, tasks, counters
<1>2. CASE Submit
  BY <1>2, LimitsAssumption DEF Submit, tasks, counters
<1>3. CASE Begin
  <2>1. CASE cancelled
    BY <1>3, <2>1 DEF Begin, tasks, counters
  <2>2. CASE ~cancelled
    BY <1>3, <2>2 DEF Begin, tasks, counters
  <2> QED BY <2>1, <2>2
<1>4. CASE TakeMessage
  BY <1>4, LimitsAssumption DEF TakeMessage, tasks, counters
<1>5. CASE HandlerReturns
  BY <1>5, LimitsAssumption DEF HandlerReturns, tasks, counters
<1>6. CASE HandlerRaises
  <2>1. EnterFinally("FAILED") /\ failure' = TRUE
    BY <1>6 DEF HandlerRaises
  <2>2. raised' \in 0 .. MaxFailures
    BY <1>6, LimitsAssumption DEF HandlerRaises
  <2> QED BY <2>1, <2>2, EnterFinallyType
<1>7. CASE InboxEnds
  <2>1. EnterFinally("STOPPED") /\ UNCHANGED <<failure, raised>>
    BY <1>7 DEF InboxEnds
  <2> QED BY <2>1, EnterFinallyType
<1>8. CASE CancelDelivered
  <2>1. PICK state \in Terminal : EnterFinally(state)
    BY <1>8 DEF CancelDelivered
  <2>2. UNCHANGED <<failure, raised>>
    BY <1>8 DEF CancelDelivered
  <2> QED BY <2>1, <2>2, EnterFinallyType
<1>9. CASE CleanupEnds
  BY <1>9, LimitsAssumption DEF CleanupEnds, ChildrenGathered, Finalize, tasks, counters
<1>10. CASE CleanupCancelled
  BY <1>10, LimitsAssumption DEF CleanupCancelled, tasks, counters
<1>11. CASE Watch
  BY <1>11, LimitsAssumption DEF Watch, tasks, counters
<1>12. ASSUME NEW c \in Children, Spawn(c) PROVE TypeOK' /\ QueuedWasSubmitted'
  BY <1>12, LimitsAssumption DEF Spawn, tasks, counters
<1>13. ASSUME NEW c \in Children, ChildEnds(c) PROVE TypeOK' /\ QueuedWasSubmitted'
  BY <1>13, LimitsAssumption DEF ChildEnds, tasks, counters
<1>14. ASSUME NEW c \in Children, ChildDone(c) PROVE TypeOK' /\ QueuedWasSubmitted'
  <2>1. child' \in [Children -> {"off", "live", "cancelling", "failing", "ending", "gone"}]
    BY <1>14 DEF ChildDone
  <2>2. failure' \in BOOLEAN /\ cancelled' \in BOOLEAN
    BY <1>14 DEF ChildDone, CancelActor, TaskDone
  <2> QED BY <1>14, <2>1, <2>2 DEF ChildDone, counters
<1>15. ASSUME NEW s \in Stoppers, StopReturns(s) PROVE TypeOK' /\ QueuedWasSubmitted'
  BY <1>15, LimitsAssumption DEF StopReturns, tasks, counters
<1>16. ASSUME NEW s \in Stoppers, StopNew(s) PROVE TypeOK' /\ QueuedWasSubmitted'
  BY <1>16, LimitsAssumption DEF StopNew, Finalize, tasks, counters
<1>17. ASSUME NEW s \in Stoppers, StopTimeout(s) PROVE TypeOK' /\ QueuedWasSubmitted'
  BY <1>17, LimitsAssumption DEF StopTimeout, CancelActor, TaskDone, tasks, counters
<1>18. ASSUME NEW s \in Stoppers, StopSees(s) PROVE TypeOK' /\ QueuedWasSubmitted'
  BY <1>18, LimitsAssumption DEF StopSees, tasks, counters
<1>19. ASSUME NEW s \in Stoppers, StopCleans(s) PROVE TypeOK' /\ QueuedWasSubmitted'
  <2>1. stopper' = [stopper EXCEPT ![s] = "returned"]
    BY <1>19 DEF StopCleans
  <2>2. UNCHANGED <<actor, cancelled, failure, terminal, watcher, counters>>
    BY <1>19 DEF StopCleans
  <2>3. CASE NeedsFinalizing
    <3>1. BeginCleanup /\ Finalize("STOPPED")
      BY <1>19, <2>3 DEF StopCleans
    <3>2. child' \in [Children -> {"off", "live", "cancelling", "failing", "ending", "gone"}]
      BY <3>1 DEF BeginCleanup, CancelChildren
    <3>3. inbox' \in [queued : 0 .. MaxMessages, closed : BOOLEAN] /\ inbox'.queued = 0
      BY <3>1, LimitsAssumption DEF BeginCleanup
    <3>4. /\ lifecycle' = "STOPPED" /\ closing' \in BOOLEAN
          /\ outboxClosed' \in BOOLEAN /\ stopped' \in BOOLEAN
      BY <3>1 DEF BeginCleanup, Finalize
    <3> QED BY <2>1, <2>2, <3>2, <3>3, <3>4, LimitsAssumption DEF counters
  <2>4. CASE ~NeedsFinalizing
    BY <1>19, <2>1, <2>2, <2>4 DEF StopCleans, counters
  <2> QED BY <2>3, <2>4
<1>20. ASSUME NEW s \in Stoppers, NEW graceful \in BOOLEAN, StopBegin(s, graceful)
      PROVE  TypeOK' /\ QueuedWasSubmitted'
  <2>1. cancelled' \in BOOLEAN
    BY <1>20 DEF StopBegin, CancelActor, TaskDone
  <2>2. stopper' \in [Stoppers -> {"idle", "graceful", "forced", "timed_out", "returned",
                                   "raised"}]
    BY <1>20 DEF StopBegin
  <2>3. inbox' \in [queued : 0 .. MaxMessages, closed : BOOLEAN] /\ inbox'.queued <= messages
    BY <1>20, LimitsAssumption DEF StopBegin
  <2> QED BY <1>20, <2>1, <2>2, <2>3 DEF StopBegin, counters
<1>21. CASE UNCHANGED vars
  BY <1>21, LimitsAssumption DEF vars, tasks, counters
<1> QED
  BY <1>1, <1>2, <1>3, <1>4, <1>5, <1>6, <1>7, <1>8, <1>9, <1>10,
     <1>11, <1>12, <1>13, <1>14, <1>15, <1>16, <1>17, <1>18, <1>19, <1>20, <1>21
     DEF Next, ActorStep, StopStep

\* Every step keeps what _stopped stands for.
LEMMA NextOver ==
    ASSUME IInv, [Next]_vars
    PROVE  (NewIsEmpty /\ CleanupClosed /\ StoppedActorIsOver)'
<1> USE DEF IInv, TypeOK, Terminal, NewIsEmpty, CleanupClosed, StoppedActorIsOver
<1>1. CASE Start
  BY <1>1 DEF Start, tasks, counters
<1>2. CASE Submit
  BY <1>2 DEF Submit, tasks, counters
<1>3. CASE Begin
  BY <1>3 DEF Begin, tasks, counters
<1>4. CASE TakeMessage
  BY <1>4 DEF TakeMessage, tasks, counters
<1>5. CASE HandlerReturns
  BY <1>5 DEF HandlerReturns, tasks, counters
<1>6. CASE HandlerRaises
  BY <1>6
     DEF HandlerRaises, EnterFinally, BeginCleanup, CancelChildren, Finalize, Unfinished,
         tasks, counters
<1>7. CASE InboxEnds
  BY <1>7
     DEF InboxEnds, EnterFinally, BeginCleanup, CancelChildren, Finalize, Unfinished, tasks,
         counters
<1>8. CASE CancelDelivered
  BY <1>8
     DEF CancelDelivered, EnterFinally, BeginCleanup, CancelChildren, Finalize, Unfinished,
         tasks, counters
<1>9. CASE CleanupEnds
  BY <1>9 DEF CleanupEnds, ChildrenGathered, Finalize, tasks, counters
<1>10. CASE CleanupCancelled
  BY <1>10 DEF CleanupCancelled, tasks, counters
<1>11. CASE Watch
  BY <1>11 DEF Watch, tasks, counters
<1>12. ASSUME NEW c \in Children, Spawn(c)
      PROVE  (NewIsEmpty /\ CleanupClosed /\ StoppedActorIsOver)'
  BY <1>12 DEF Spawn, tasks, counters
<1>13. ASSUME NEW c \in Children, ChildEnds(c)
      PROVE  (NewIsEmpty /\ CleanupClosed /\ StoppedActorIsOver)'
  BY <1>13 DEF ChildEnds, tasks, counters
<1>14. ASSUME NEW c \in Children, ChildDone(c)
      PROVE  (NewIsEmpty /\ CleanupClosed /\ StoppedActorIsOver)'
  BY <1>14 DEF ChildDone, CancelActor, TaskDone, ChildFails, tasks, counters
<1>15. ASSUME NEW s \in Stoppers, StopReturns(s)
      PROVE  (NewIsEmpty /\ CleanupClosed /\ StoppedActorIsOver)'
  BY <1>15 DEF StopReturns, tasks, counters
<1>16. ASSUME NEW s \in Stoppers, StopNew(s)
      PROVE  (NewIsEmpty /\ CleanupClosed /\ StoppedActorIsOver)'
  BY <1>16 DEF StopNew, Finalize, tasks, counters
<1>17. ASSUME NEW s \in Stoppers, StopTimeout(s)
      PROVE  (NewIsEmpty /\ CleanupClosed /\ StoppedActorIsOver)'
  BY <1>17 DEF StopTimeout, CancelActor, TaskDone, tasks, counters
<1>18. ASSUME NEW s \in Stoppers, StopSees(s)
      PROVE  (NewIsEmpty /\ CleanupClosed /\ StoppedActorIsOver)'
  BY <1>18 DEF StopSees, tasks, counters
<1>19. ASSUME NEW s \in Stoppers, StopCleans(s)
      PROVE  (NewIsEmpty /\ CleanupClosed /\ StoppedActorIsOver)'
  BY <1>19
     DEF StopCleans, BeginCleanup, CancelChildren, Finalize, NeedsFinalizing,
         ChildrenGathered, tasks, counters
<1>20. ASSUME NEW s \in Stoppers, NEW graceful \in BOOLEAN, StopBegin(s, graceful)
      PROVE  (NewIsEmpty /\ CleanupClosed /\ StoppedActorIsOver)'
  BY <1>20 DEF StopBegin, CancelActor, TaskDone, MayStop, tasks, counters
<1>21. CASE UNCHANGED vars
  BY <1>21 DEF vars, tasks, counters
<1> QED
  BY <1>1, <1>2, <1>3, <1>4, <1>5, <1>6, <1>7, <1>8, <1>9, <1>10,
     <1>11, <1>12, <1>13, <1>14, <1>15, <1>16, <1>17, <1>18, <1>19, <1>20, <1>21
     DEF Next, ActorStep, StopStep

\* Every step keeps the two safety invariants.
LEMMA NextQuiet ==
    ASSUME IInv, [Next]_vars
    PROVE  (StoppedIsQuiet /\ StopReturnsStopped)'
<1> USE DEF IInv, TypeOK, Terminal, NewIsEmpty, CleanupClosed, StoppedActorIsOver, StoppedIsQuiet,
            StopReturnsStopped, Unfinished
<1>1. CASE Start
  BY <1>1 DEF Start, tasks, counters
<1>2. CASE Submit
  BY <1>2 DEF Submit, tasks, counters
<1>3. CASE Begin
  BY <1>3 DEF Begin, tasks, counters
<1>4. CASE TakeMessage
  BY <1>4 DEF TakeMessage, tasks, counters
<1>5. CASE HandlerReturns
  BY <1>5 DEF HandlerReturns, tasks, counters
<1>6. CASE HandlerRaises
  BY <1>6
     DEF HandlerRaises, EnterFinally, BeginCleanup, CancelChildren, Finalize, Unfinished,
         tasks, counters
<1>7. CASE InboxEnds
  BY <1>7
     DEF InboxEnds, EnterFinally, BeginCleanup, CancelChildren, Finalize, Unfinished, tasks,
         counters
<1>8. CASE CancelDelivered
  BY <1>8
     DEF CancelDelivered, EnterFinally, BeginCleanup, CancelChildren, Finalize, Unfinished,
         tasks, counters
<1>9. CASE CleanupEnds
  BY <1>9 DEF CleanupEnds, ChildrenGathered, Finalize, tasks, counters
<1>10. CASE CleanupCancelled
  BY <1>10 DEF CleanupCancelled, tasks, counters
<1>11. CASE Watch
  BY <1>11 DEF Watch, tasks, counters
<1>12. ASSUME NEW c \in Children, Spawn(c) PROVE (StoppedIsQuiet /\ StopReturnsStopped)'
  BY <1>12 DEF Spawn, tasks, counters
<1>13. ASSUME NEW c \in Children, ChildEnds(c) PROVE (StoppedIsQuiet /\ StopReturnsStopped)'
  BY <1>13 DEF ChildEnds, tasks, counters
<1>14. ASSUME NEW c \in Children, ChildDone(c) PROVE (StoppedIsQuiet /\ StopReturnsStopped)'
  BY <1>14 DEF ChildDone, CancelActor, TaskDone, ChildFails, tasks, counters
<1>15. ASSUME NEW s \in Stoppers, StopReturns(s) PROVE (StoppedIsQuiet /\ StopReturnsStopped)'
  BY <1>15 DEF StopReturns, tasks, counters
<1>16. ASSUME NEW s \in Stoppers, StopNew(s) PROVE (StoppedIsQuiet /\ StopReturnsStopped)'
  BY <1>16 DEF StopNew, Finalize, tasks, counters
<1>17. ASSUME NEW s \in Stoppers, StopTimeout(s) PROVE (StoppedIsQuiet /\ StopReturnsStopped)'
  BY <1>17 DEF StopTimeout, CancelActor, TaskDone, tasks, counters
<1>18. ASSUME NEW s \in Stoppers, StopSees(s) PROVE (StoppedIsQuiet /\ StopReturnsStopped)'
  BY <1>18 DEF StopSees, tasks, counters
<1>19. ASSUME NEW s \in Stoppers, StopCleans(s) PROVE (StoppedIsQuiet /\ StopReturnsStopped)'
  BY <1>19
     DEF StopCleans, BeginCleanup, CancelChildren, Finalize, NeedsFinalizing,
         ChildrenGathered, tasks, counters
<1>20. ASSUME NEW s \in Stoppers, NEW graceful \in BOOLEAN, StopBegin(s, graceful)
      PROVE  (StoppedIsQuiet /\ StopReturnsStopped)'
  BY <1>20, LimitsAssumption DEF StopBegin, CancelActor, TaskDone, MayStop, tasks, counters
<1>21. CASE UNCHANGED vars
  BY <1>21, LimitsAssumption DEF vars, tasks, counters
<1> QED
  BY <1>1, <1>2, <1>3, <1>4, <1>5, <1>6, <1>7, <1>8, <1>9, <1>10,
     <1>11, <1>12, <1>13, <1>14, <1>15, <1>16, <1>17, <1>18, <1>19, <1>20, <1>21
     DEF Next, ActorStep, StopStep

LEMMA InitIInv == Init => IInv
<1> SUFFICES ASSUME Init PROVE IInv
  OBVIOUS
<1>1. TypeOK
  <2>1. /\ inbox \in [queued : 0 .. MaxMessages, closed : BOOLEAN]
        /\ messages \in 0 .. MaxMessages /\ raised \in 0 .. MaxFailures
    BY LimitsAssumption DEF Init
  <2>2. watcher \in [state : {"none", "waiting", "ended"}, recorded : BOOLEAN]
    BY DEF Init
  <2>3. child \in [Children -> {"off", "live", "cancelling", "failing", "ending", "gone"}]
    BY DEF Init
  <2>4. stopper \in [Stoppers -> {"idle", "graceful", "forced", "timed_out", "returned",
                                  "raised"}]
    BY DEF Init
  <2> QED BY <2>1, <2>2, <2>3, <2>4 DEF Init, TypeOK, Terminal
<1>2. NewIsEmpty /\ CleanupClosed /\ QueuedWasSubmitted
  BY DEF Init, NewIsEmpty, CleanupClosed, QueuedWasSubmitted
<1>3. StoppedActorIsOver /\ StoppedIsQuiet /\ StopReturnsStopped
  BY DEF Init, StoppedActorIsOver, StoppedIsQuiet, StopReturnsStopped, Terminal
<1> QED BY <1>1, <1>2, <1>3 DEF IInv

LEMMA Inductive == Spec => []IInv
<1>1. IInv /\ [Next]_vars => IInv'
  BY NextType, NextOver, NextQuiet DEF IInv
<1> QED BY <1>1, InitIInv, PTL DEF Spec

\* Every reachable state of the lifecycle is well typed.
THEOREM TypeCorrect == Spec => []TypeOK
<1>1. IInv => TypeOK
  BY DEF IInv
<1> QED BY <1>1, Inductive, PTL

\* However many children and stop() calls there are, once _stopped is set the
\* mailboxes are closed, the state is terminal and every child has ended
\* (_run's finally clause and _finalize_cancelled_before_run).
THEOREM StoppedSessionsAreQuiet == Spec => []StoppedIsQuiet
<1>1. IInv => StoppedIsQuiet
  BY DEF IInv
<1> QED BY <1>1, Inductive, PTL

\* stop() never returns before the session has stopped.
THEOREM StopIsSynchronous == Spec => []StopReturnsStopped
<1>1. IInv => StopReturnsStopped
  BY DEF IInv
<1> QED BY <1>1, Inductive, PTL

\* The outcome that wait_stopped() reports is never changed afterwards.
THEOREM OutcomesAreFinal == Spec => OutcomeIsFinal
<1>1. IInv /\ [Next]_vars => [stopped => stopped' /\ lifecycle' = lifecycle]_vars
  <2> SUFFICES ASSUME IInv, Next, stopped
               PROVE  stopped' /\ lifecycle' = lifecycle
    OBVIOUS
  <2>1. lifecycle \in Terminal /\ actor \in {"none", "ended", "escaped"}
    BY DEF IInv, StoppedActorIsOver
  <2> QED
    BY <2>1
       DEF Next, ActorStep, StopStep, Start, Submit, Begin, TakeMessage, HandlerReturns,
           HandlerRaises, InboxEnds, CancelDelivered, CleanupEnds, CleanupCancelled, Watch, Spawn,
           ChildEnds, ChildDone, StopReturns, StopNew, StopTimeout, StopSees, StopCleans,
           NeedsFinalizing, StopBegin, MayStop, Terminal
<1> QED BY <1>1, Inductive, PTL DEF Spec, OutcomeIsFinal

----------------------------------------------------------------------------
(* A single failure *)

\* While the session runs, its one exception is in one place: a failed child
\* whose callback has still to run, a cancel() request that the callback made,
\* or the finally clause that the request or a handler's exception has entered.
\* The actor is then never both in its finally clause and asked to end, which
\* is what lets it escape. EndedActorIsNotRunning says nothing of these places,
\* so it is not inductive.
OneFailure ==
    /\ lifecycle = "RUNNING" =>
        /\ actor \in {"created", "loop", "handler", "cleanup"}
        /\ ~inbox.closed \/ actor = "cleanup"
        /\ cancelled => raised >= 1 /\ actor \in {"loop", "handler"}
        /\ actor = "cleanup" => raised >= 1
        /\ \A c \in Children : child[c] = "failing" =>
              /\ raised >= 1 /\ ~cancelled /\ actor # "cleanup"
              /\ \A d \in Children : child[d] = "failing" => d = c
        /\ actor = "created" => \A c \in Children : child[c] = "off"
    /\ lifecycle = "NEW" => ~cancelled /\ ~inbox.closed
    /\ \A s \in Stoppers : stopper[s] \in {"graceful", "forced", "timed_out"} =>
          lifecycle \notin {"NEW", "RUNNING"}

Single == raised <= 1 => OneFailure

LEMMA SingleInit == Init => Single
  BY DEF Init, Single, OneFailure

LEMMA SingleActor ==
    ASSUME IInv, Single, ActorStep
    PROVE  Single'
<1> USE DEF IInv, TypeOK, Terminal, NewIsEmpty, Single, OneFailure
<1>0. raised \in Nat
  BY LimitsAssumption
<1>1. CASE Begin
  BY <1>1 DEF Begin, tasks, counters
<1>2. CASE TakeMessage
  BY <1>2 DEF TakeMessage, tasks, counters
<1>3. CASE HandlerReturns
  BY <1>3 DEF HandlerReturns, tasks, counters
<1>4. ASSUME NEW state \in Terminal, EnterFinally(state), raised' \in Nat,
             lifecycle = "RUNNING" /\ raised' <= 1 =>
                raised <= 1 /\ raised' >= 1 /\ \A c \in Children : child[c] # "failing",
             lifecycle # "NEW"
      PROVE  Single'
  <2>1. CASE Unfinished = {}
    BY <1>4, <2>1 DEF EnterFinally, Finalize
  <2>2. CASE Unfinished # {}
    <3>1. /\ lifecycle' = lifecycle /\ actor' = "cleanup" /\ cancelled' = FALSE
          /\ child' = [c \in Children |-> IF child[c] = "live" THEN "cancelling" ELSE child[c]]
          /\ stopper' = stopper
      BY <1>4, <2>2 DEF EnterFinally, BeginCleanup, CancelChildren
    <3> QED BY <1>4, <3>1
  <2> QED BY <2>1, <2>2
<1>5. CASE HandlerRaises
  <2>1. EnterFinally("FAILED") /\ raised' = IF lifecycle = "RUNNING" THEN raised + 1 ELSE raised
    BY <1>5 DEF HandlerRaises
  <2>2. lifecycle # "NEW"
    BY <1>5 DEF HandlerRaises
  <2> QED BY <1>0, <1>4, <2>1, <2>2
<1>6. CASE InboxEnds
  <2>1. EnterFinally("STOPPED") /\ raised' = raised /\ actor = "loop" /\ inbox.closed
    BY <1>6 DEF InboxEnds
  <2> QED BY <1>0, <1>4, <2>1
<1>7. CASE CancelDelivered
  <2>1. PICK state \in Terminal : EnterFinally(state)
    BY <1>7 DEF CancelDelivered
  <2>2. raised' = raised /\ cancelled /\ actor \in {"loop", "handler"}
    BY <1>7 DEF CancelDelivered
  <2> QED BY <1>0, <1>4, <2>1, <2>2
<1>8. CASE CleanupEnds
  BY <1>8 DEF CleanupEnds, Finalize
<1>9. CASE CleanupCancelled
  BY <1>9 DEF CleanupCancelled, tasks, counters
<1> QED BY <1>1, <1>2, <1>3, <1>5, <1>6, <1>7, <1>8, <1>9 DEF ActorStep

LEMMA SingleChild ==
    ASSUME IInv, Single, NEW c \in Children, Spawn(c) \/ ChildEnds(c) \/ ChildDone(c)
    PROVE  Single'
<1> USE DEF IInv, TypeOK, Terminal, NewIsEmpty, Single, OneFailure
<1>0. raised \in Nat
  BY LimitsAssumption
<1>1. CASE Spawn(c)
  BY <1>1 DEF Spawn, counters
<1>2. CASE ChildEnds(c)
  <2>1. CASE child' = [child EXCEPT ![c] = "ending"] /\ UNCHANGED raised
    BY <1>2, <2>1 DEF ChildEnds
  <2>2. CASE child[c] = "live" /\ child' = [child EXCEPT ![c] = "failing"] /\ raised' = raised + 1
    <3>1. raised' <= 1 => raised = 0
      BY <1>0, <2>2
    <3>2. ASSUME raised' <= 1, lifecycle = "RUNNING"
          PROVE  \A d \in Children : child'[d] = "failing" => d = c
      BY <1>0, <2>2, <3>1, <3>2
    <3> QED BY <1>0, <1>2, <2>2, <3>1, <3>2 DEF ChildEnds
  <2> QED BY <1>2, <2>1, <2>2 DEF ChildEnds
<1>3. CASE ChildDone(c)
  <2>1. UNCHANGED <<lifecycle, actor, inbox, raised, stopper>> /\ child' = [child EXCEPT ![c] = "gone"]
    BY <1>3 DEF ChildDone, counters
  <2>2. CASE ChildFails(c)
    <3>1. lifecycle = "RUNNING" /\ child[c] = "failing"
      BY <2>2 DEF ChildFails
    <3>2. raised <= 1 => \A d \in Children : child'[d] # "failing"
      BY <2>1, <3>1
    <3> QED BY <2>1, <3>1, <3>2
  <2>3. CASE ~ChildFails(c)
    <3>1. cancelled' = cancelled
      BY <1>3, <2>3 DEF ChildDone
    <3>2. \A d \in Children : child'[d] = "failing" => child[d] = "failing"
      BY <2>1
    <3>3. \A d \in Children : child[d] = "off" => child'[d] = "off"
      BY <1>3, <2>1 DEF ChildDone
    <3> QED BY <2>1, <3>1, <3>2, <3>3
  <2> QED BY <2>2, <2>3
<1> QED BY <1>1, <1>2, <1>3

LEMMA SingleStop ==
    ASSUME IInv, Single, NEW s \in Stoppers,
           \/ StopReturns(s) \/ StopNew(s) \/ StopTimeout(s) \/ StopStep(s)
           \/ \E graceful \in BOOLEAN : StopBegin(s, graceful)
    PROVE  Single'
<1> USE DEF IInv, TypeOK, Terminal, NewIsEmpty, StopReturnsStopped, StoppedActorIsOver, Single,
            OneFailure
<1>1. CASE StopReturns(s)
  BY <1>1 DEF StopReturns, counters
<1>2. CASE StopNew(s)
  BY <1>2 DEF StopNew, Finalize
<1>3. CASE StopTimeout(s)
  BY <1>3 DEF StopTimeout, counters
<1>4. CASE StopSees(s)
  BY <1>4 DEF StopSees, counters
<1>5. CASE StopCleans(s)
  BY <1>5 DEF StopCleans, Finalize, counters
<1>6. ASSUME NEW graceful \in BOOLEAN, StopBegin(s, graceful)
      PROVE  Single'
  BY <1>6 DEF StopBegin
<1> QED BY <1>1, <1>2, <1>3, <1>4, <1>5, <1>6 DEF StopStep

LEMMA SingleNext == IInv /\ Single /\ [Next]_vars => Single'
<1> SUFFICES ASSUME IInv, Single, [Next]_vars PROVE Single'
  OBVIOUS
<1>1. CASE Start \/ Submit \/ Watch \/ UNCHANGED vars
  BY <1>1 DEF Start, Submit, Watch, vars, tasks, counters, IInv, TypeOK, NewIsEmpty, Single, OneFailure
<1> QED BY <1>1, SingleActor, SingleChild, SingleStop DEF Next

\* It takes two exceptions for the actor task to end while the session is still
\* RUNNING: until a second one is raised, a child's failure or a handler's
\* fails the session, for any number of children and messages
\* ("Create a child task whose failure fails [...] the actor", session.py:382).
THEOREM OneFailureFailsSession == Spec => [](raised <= 1 => EndedActorIsNotRunning)
<1>1. Single => (raised <= 1 => EndedActorIsNotRunning)
  BY DEF Single, OneFailure, EndedActorIsNotRunning, TaskDone
<1> QED BY <1>1, SingleInit, SingleNext, Inductive, PTL DEF Spec
=============================================================================
