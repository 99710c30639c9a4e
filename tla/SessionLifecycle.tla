-------------------------- MODULE SessionLifecycle --------------------------
(* runtime/session.py: how a SessionActor starts, fails and stops, with its *)
(* child tasks, concurrent stop() calls and the supervisor's watcher.       *)
(*                                                                          *)
(* asyncio is modelled at the level the code depends on: Task.cancel() is a *)
(* request delivered when the task next resumes from a suspension, repeated *)
(* requests merge until then, and done callbacks run in a later step than   *)
(* the task's end. Everything between two suspensions is one action. What   *)
(* the messages mean is left to module ForegroundSession.                   *)
EXTENDS Integers, FiniteSets

CONSTANTS Children,     \* child tasks the handlers may spawn
          Stoppers,     \* tasks that call stop() once each
          MaxMessages,  \* bound: messages of one behaviour
          MaxFailures   \* bound: exceptions raised by children and handlers

ASSUME ChildrenAssumption == IsFiniteSet(Children)
ASSUME LimitsAssumption == MaxMessages \in Nat /\ MaxFailures \in Nat

VARIABLES
    lifecycle,   \* _lifecycle (STARTING is never seen by another task)
    closing,     \* the cancellation source is closed
    actor,       \* where the actor task is
    cancelled,   \* a cancel() request not yet delivered to the actor task
    failure,     \* _failure is not None
    terminal,    \* the local variable of _run
    child,       \* each child task and whether its done callback has run
    inbox,       \* messages queued, and whether the inbox is closed
    outboxClosed,
    stopped,     \* _stopped.is_set()
    stopper,     \* where each stop() call is
    watcher,     \* the supervisor: its watcher and the failure it recorded
    messages,    \* messages submitted so far
    raised       \* exceptions raised so far

tasks == <<child, stopper, watcher>>
counters == <<messages, raised>>
vars == <<lifecycle, closing, actor, cancelled, failure, terminal, inbox, outboxClosed, stopped,
          tasks, counters>>

Terminal == {"STOPPED", "FAILED"}
TaskDone == actor \in {"ended", "escaped"}

Init ==
    /\ lifecycle = "NEW"
    /\ closing = FALSE
    /\ actor = "none"
    /\ cancelled = FALSE
    /\ failure = FALSE
    /\ terminal = "STOPPED"
    /\ child = [c \in Children |-> "off"]
    /\ inbox = [queued |-> 0, closed |-> FALSE]
    /\ outboxClosed = FALSE
    /\ stopped = FALSE
    /\ stopper = [s \in Stoppers |-> "idle"]
    /\ watcher = [state |-> "none", recorded |-> FALSE]
    /\ messages = 0
    /\ raised = 0

\* start_session: start() creates the actor task, then the watcher is created.
Start ==
    /\ lifecycle = "NEW"
    /\ lifecycle' = "RUNNING"
    /\ actor' = "created"
    /\ watcher' = [watcher EXCEPT !.state = "waiting"]
    /\ UNCHANGED <<closing, cancelled, failure, terminal, child, inbox, outboxClosed, stopped,
                   stopper, counters>>

\* submit: _ensure_running, then ensure_current under the generation gate
Submit ==
    /\ lifecycle = "RUNNING" /\ ~closing
    /\ messages < MaxMessages
    /\ messages' = messages + 1
    /\ inbox' = [inbox EXCEPT !.queued = @ + 1]
    /\ UNCHANGED <<lifecycle, closing, actor, cancelled, failure, terminal, outboxClosed, stopped,
                   tasks, raised>>

----------------------------------------------------------------------------
(* The end of the actor, shared by _run and _finalize_cancelled_before_run *)

Unfinished == {c \in Children : child[c] \in {"live", "cancelling"}}

\* Seeded fault of CancelChildren: the children are left to themselves.
CancelChildrenNever == UNCHANGED child

\* _cancel_children asks every unfinished child to end.
CancelChildren ==
    child' = [c \in Children |-> IF child[c] = "live" THEN "cancelling" ELSE child[c]]

\* Up to the gather in _cancel_children; finished children are not waited for.
BeginCleanup ==
    /\ closing' = TRUE
    /\ inbox' = [queued |-> 0, closed |-> TRUE]
    /\ CancelChildren

\* Seeded fault of ChildrenGathered: the children are cancelled, not awaited.
ChildrenGatheredAtOnce == TRUE

\* gather has seen every child end. A child's callbacks run together, _child_done
\* first, and those of children that ended earlier are ahead of them.
ChildrenGathered == \A c \in Children : child[c] \in {"off", "gone"}

Finalize(state) ==
    /\ outboxClosed' = TRUE
    /\ lifecycle' = state
    /\ stopped' = TRUE

----------------------------------------------------------------------------
(* _run *)

\* A task cancelled before its first step never enters _run.
Begin ==
    /\ actor = "created"
    /\ actor' = IF cancelled THEN "escaped" ELSE "loop"
    /\ cancelled' = FALSE
    /\ UNCHANGED <<lifecycle, closing, failure, terminal, inbox, outboxClosed, stopped, tasks,
                   counters>>

\* Seeded fault of TakeMessage: the empty inbox is not waited for.
TakeMessageUnguarded ==
    /\ actor = "loop" /\ ~cancelled
    /\ actor' = "handler"
    /\ inbox' = [inbox EXCEPT !.queued = @ - 1]
    /\ UNCHANGED <<lifecycle, closing, cancelled, failure, terminal, outboxClosed, stopped, tasks,
                   counters>>

TakeMessage ==
    /\ actor = "loop" /\ ~cancelled
    /\ inbox.queued > 0
    /\ actor' = "handler"
    /\ inbox' = [inbox EXCEPT !.queued = @ - 1]
    /\ UNCHANGED <<lifecycle, closing, cancelled, failure, terminal, outboxClosed, stopped, tasks,
                   counters>>

\* spawn, called by a handler or by another child (_run_turn stores its messages
\* that way)
Spawn(c) ==
    /\ \/ actor = "handler" /\ ~cancelled
       \/ \E parent \in Children : child[parent] = "live"
    /\ lifecycle = "RUNNING"
    /\ child[c] = "off"
    /\ child' = [child EXCEPT ![c] = "live"]
    /\ UNCHANGED <<lifecycle, closing, actor, cancelled, failure, terminal, inbox, outboxClosed,
                   stopped, stopper, watcher, counters>>

HandlerReturns ==
    /\ actor = "handler" /\ ~cancelled
    /\ actor' = "loop"
    /\ UNCHANGED <<lifecycle, closing, cancelled, failure, terminal, inbox, outboxClosed, stopped,
                   tasks, counters>>

\* The finally clause up to the gather; without children to wait for it runs
\* to its end.
EnterFinally(state) ==
    /\ terminal' = state
    /\ BeginCleanup
    /\ cancelled' = FALSE
    /\ IF Unfinished = {}
       THEN actor' = "ended" /\ Finalize(state)
       ELSE actor' = "cleanup" /\ UNCHANGED <<outboxClosed, lifecycle, stopped>>
    /\ UNCHANGED <<stopper, watcher, messages>>

\* An exception of the handler: any handler may raise, and a handler that
\* spawns outside RUNNING does.
HandlerRaises ==
    /\ actor = "handler" /\ ~cancelled
    /\ raised < MaxFailures \/ lifecycle # "RUNNING"
    /\ raised' = IF lifecycle = "RUNNING" THEN raised + 1 ELSE raised
    /\ failure' = TRUE
    /\ EnterFinally("FAILED")

InboxEnds ==
    /\ actor = "loop" /\ ~cancelled
    /\ inbox.closed /\ inbox.queued = 0
    /\ EnterFinally("STOPPED")
    /\ UNCHANGED <<failure, raised>>

\* except CancelledError
CancelDelivered ==
    /\ actor \in {"loop", "handler"} /\ cancelled
    /\ EnterFinally(IF failure THEN "FAILED" ELSE "STOPPED")
    /\ UNCHANGED <<failure, raised>>

CleanupEnds ==
    /\ actor = "cleanup" /\ ~cancelled
    /\ ChildrenGathered
    /\ actor' = "ended"
    /\ Finalize(terminal)
    /\ UNCHANGED <<closing, cancelled, failure, terminal, inbox, tasks, counters>>

\* A request delivered at the gather leaves the finally clause: nothing after
\* it runs.
CleanupCancelled ==
    /\ actor = "cleanup" /\ cancelled
    /\ ChildrenGathered
    /\ actor' = "escaped"
    /\ cancelled' = FALSE
    /\ UNCHANGED <<lifecycle, closing, failure, terminal, inbox, outboxClosed, stopped, tasks,
                   counters>>

ActorStep ==
    \/ Begin \/ TakeMessage \/ HandlerReturns \/ HandlerRaises \/ InboxEnds
    \/ CancelDelivered \/ CleanupEnds \/ CleanupCancelled

----------------------------------------------------------------------------
(* Child tasks *)

\* A child fails only before it is asked to end: the tasks spawned by the
\* session (_run_turn and _await_worker) end in CancelledError or return.
\* "failing" and "ending" children still have their done callback to run.
ChildEnds(c) ==
    /\ \/ /\ child[c] \in {"live", "cancelling"}
          /\ child' = [child EXCEPT ![c] = "ending"]
          /\ UNCHANGED raised
       \/ /\ child[c] = "live" /\ raised < MaxFailures
          /\ child' = [child EXCEPT ![c] = "failing"]
          /\ raised' = raised + 1
    /\ UNCHANGED <<lifecycle, closing, actor, cancelled, failure, terminal, inbox, outboxClosed,
                   stopped, stopper, watcher, messages>>

\* Seeded fault of ChildFails: a cancelled child counts as a failed one.
ChildDoneAlways(c) == lifecycle = "RUNNING" /\ child[c] \in {"failing", "ending"}

\* The exits of _child_done before it fails the actor
ChildFails(c) == lifecycle = "RUNNING" /\ child[c] = "failing"

\* Seeded fault of CancelActor: the request is only noted.
CancelActorNever == UNCHANGED cancelled

\* Task.cancel() on the actor task; a finished task ignores it.
CancelActor == cancelled' = ~TaskDone

\* _child_done
ChildDone(c) ==
    /\ child[c] \in {"failing", "ending"}
    /\ child' = [child EXCEPT ![c] = "gone"]
    /\ IF ChildFails(c) THEN failure' = TRUE /\ CancelActor ELSE UNCHANGED <<failure, cancelled>>
    /\ UNCHANGED <<lifecycle, closing, actor, terminal, inbox, outboxClosed, stopped, stopper,
                   watcher, counters>>

----------------------------------------------------------------------------
(* stop *)

StopReturns(s) ==
    /\ stopper[s] = "idle"
    /\ lifecycle \in Terminal
    /\ stopper' = [stopper EXCEPT ![s] = "returned"]
    /\ UNCHANGED <<lifecycle, closing, actor, cancelled, failure, terminal, child, inbox,
                   outboxClosed, stopped, watcher, counters>>

StopNew(s) ==
    /\ stopper[s] = "idle"
    /\ lifecycle = "NEW"
    /\ closing' = TRUE
    /\ inbox' = [queued |-> 0, closed |-> TRUE]
    /\ Finalize("STOPPED")
    /\ stopper' = [stopper EXCEPT ![s] = "returned"]
    /\ UNCHANGED <<actor, cancelled, failure, terminal, child, watcher, counters>>

\* Seeded fault of MayStop: no early return for a session that has ended.
MayStopAlways == lifecycle # "NEW"

MayStop == lifecycle \in {"RUNNING", "STOPPING"}

\* Up to the wait for the actor task. A graceful stop leaves the queued
\* messages to be handled.
StopBegin(s, graceful) ==
    /\ stopper[s] = "idle"
    /\ MayStop
    /\ lifecycle' = "STOPPING"
    /\ closing' = TRUE
    /\ inbox' = [queued |-> IF graceful THEN inbox.queued ELSE 0, closed |-> TRUE]
    /\ IF graceful THEN UNCHANGED cancelled ELSE CancelActor
    /\ stopper' = [stopper EXCEPT ![s] = IF graceful THEN "graceful" ELSE "forced"]
    /\ UNCHANGED <<actor, failure, terminal, child, outboxClosed, stopped, watcher, counters>>

\* The actor task ended normally, or a graceful stop sees it cancelled by
\* someone else and raises CancelledError itself.
StopSees(s) ==
    /\ \/ actor = "ended" /\ stopper[s] \in {"graceful", "forced", "timed_out"}
          /\ stopper' = [stopper EXCEPT ![s] = "returned"]
       \/ actor = "escaped" /\ stopper[s] = "graceful"
          /\ stopper' = [stopper EXCEPT ![s] = "raised"]
    /\ UNCHANGED <<lifecycle, closing, actor, cancelled, failure, terminal, child, inbox,
                   outboxClosed, stopped, watcher, counters>>

StopTimeout(s) ==
    /\ stopper[s] \in {"graceful", "forced"} /\ ~TaskDone
    /\ CancelActor
    /\ stopper' = [stopper EXCEPT ![s] = "timed_out"]
    /\ UNCHANGED <<lifecycle, closing, actor, failure, terminal, child, inbox, outboxClosed,
                   stopped, watcher, counters>>

\* Seeded fault of NeedsFinalizing: the finally clause of _run is trusted to
\* have run.
NeedsFinalizingNever == FALSE

\* The guard of _finalize_cancelled_before_run
NeedsFinalizing == ~stopped

\* _finalize_cancelled_before_run. A cancelled gather still waits for every child
\* and a task cancelled before its first step has none, so the second
\* _cancel_children finds nothing to wait for.
StopCleans(s) ==
    /\ stopper[s] \in {"forced", "timed_out"} /\ actor = "escaped"
    /\ ChildrenGathered
    /\ IF NeedsFinalizing THEN BeginCleanup /\ Finalize("STOPPED")
       ELSE UNCHANGED <<closing, inbox, child, outboxClosed, lifecycle, stopped>>
    /\ stopper' = [stopper EXCEPT ![s] = "returned"]
    /\ UNCHANGED <<actor, cancelled, failure, terminal, watcher, counters>>

StopStep(s) == StopSees(s) \/ StopCleans(s)

\* SessionSupervisor._watch
Watch ==
    /\ watcher.state = "waiting" /\ stopped
    /\ watcher' = [state |-> "ended", recorded |-> (lifecycle = "FAILED" /\ failure)]
    /\ UNCHANGED <<lifecycle, closing, actor, cancelled, failure, terminal, child, inbox,
                   outboxClosed, stopped, stopper, counters>>

----------------------------------------------------------------------------

Next ==
    \/ Start \/ Submit \/ ActorStep \/ Watch
    \/ \E c \in Children : Spawn(c) \/ ChildEnds(c) \/ ChildDone(c)
    \/ \E s \in Stoppers :
        \/ StopReturns(s) \/ StopNew(s) \/ StopTimeout(s) \/ StopStep(s)
        \/ \E graceful \in BOOLEAN : StopBegin(s, graceful)

\* The event loop runs every runnable task. A handler is only sure to return
\* once the cancellation source is closed, which releases its publications; a
\* child is only sure to end once it is cancelled.
Fairness ==
    /\ WF_vars(Begin \/ TakeMessage \/ InboxEnds \/ CancelDelivered
               \/ CleanupEnds \/ CleanupCancelled)
    /\ WF_vars(closing /\ HandlerReturns)
    /\ \A c \in Children : WF_vars(child[c] = "cancelling" /\ ChildEnds(c)) /\ WF_vars(ChildDone(c))
    /\ \A s \in Stoppers : WF_vars(StopStep(s))
    /\ WF_vars(Watch)

Spec == Init /\ [][Next]_vars /\ Fairness

----------------------------------------------------------------------------
(* Properties *)

TypeOK ==
    /\ lifecycle \in {"NEW", "RUNNING", "STOPPING"} \cup Terminal
    /\ closing \in BOOLEAN /\ cancelled \in BOOLEAN /\ failure \in BOOLEAN
    /\ outboxClosed \in BOOLEAN /\ stopped \in BOOLEAN
    /\ actor \in {"none", "created", "loop", "handler", "cleanup", "ended", "escaped"}
    /\ terminal \in Terminal
    /\ child \in [Children -> {"off", "live", "cancelling", "failing", "ending", "gone"}]
    /\ inbox \in [queued : 0 .. MaxMessages, closed : BOOLEAN]
    /\ stopper \in [Stoppers -> {"idle", "graceful", "forced", "timed_out", "returned",
                                 "raised"}]
    /\ watcher \in [state : {"none", "waiting", "ended"}, recorded : BOOLEAN]
    /\ messages \in 0 .. MaxMessages
    /\ raised \in 0 .. MaxFailures

\* When _stopped is set nothing of the session is left running: both mailboxes
\* are closed, the state is terminal and no child task is unfinished, whichever
\* of _run and the stop() calls did the cleanup (session.py:511-524, 545-554).
StoppedIsQuiet ==
    stopped => lifecycle \in Terminal /\ closing /\ inbox.closed /\ outboxClosed /\ Unfinished = {}

\* stop() returns normally only when the session has stopped, however many
\* calls, timeouts and cancellations overlap (session.py:392-424).
StopReturnsStopped == \A s \in Stoppers : stopper[s] = "returned" => stopped

\* A terminal state is never left: no late stop(), callback or finalizer
\* changes the outcome that wait_stopped() reported (session.py:396, 548).
OutcomeIsFinal == [][stopped => stopped' /\ lifecycle' = lifecycle]_vars

\* An actor task that has ended is not RUNNING: "Create a child task whose
\* failure fails [...] the actor" (session.py:382).
EndedActorIsNotRunning == TaskDone => lifecycle # "RUNNING"

\* The failure of a child ends the session by itself and the supervisor records
\* it, unless somebody calls stop() meanwhile (_child_done and _watch; the test
\* test_child_failure_fails_actor_and_supervisor_records_it).
FailureRecorded ==
    (failure /\ lifecycle = "RUNNING") ~> (watcher.recorded \/ \E s \in Stoppers : stopper[s] # "idle")

\* Every stop() call, graceful or not, ends the session, even if its handlers
\* and children wait for a client that reads nothing (session.py:392-424).
StopEndsSession == (\E s \in Stoppers : stopper[s] # "idle") ~> stopped
=============================================================================
