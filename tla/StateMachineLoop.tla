-------------------------- MODULE StateMachineLoop --------------------------
(***************************************************************************)
(* The locks and the condition variable below Robot: StateMachine::loop on *)
(* the worker, postEvent and stop on the RobotControllerService thread     *)
(* (statemachines/state_machine.cpp).  What the events are is the business *)
(* of Robot; here the queue and the timers are counted.                    *)
(*                                                                         *)
(* _mtx protects the queue.  _timerMtx is left out: after start() only the *)
(* worker touches the timers, in the handlers it calls and in loop().      *)
(*                                                                         *)
(* Names that PublisherLocks has too are LoopX here: LockProofs extends    *)
(* both modules.                                                           *)
(***************************************************************************)
EXTENDS Integers

CONSTANTS
    MaxPosts,    \* bound: events posted from outside
    MaxTimers    \* bound: delayed events posted by the handlers

ASSUME LimitsAssumption == MaxPosts \in Nat /\ MaxTimers \in Nat

VARIABLES
    loopRunning,  \* _running
    mtx,          \* the holder of _mtx: "none" or "worker"
    queued,       \* _eventQueue.size()
    timers,       \* _timers.size()
    due,          \* how many of the timers have reached their time
    workerPc,     \* where the worker is in loop()
    callerPc,     \* where the service thread is in postEvent or stop
    posted,       \* events posted by the service thread
    pushed,       \* events pushed by either thread
    armed         \* delayed events posted

loopVars ==
    <<loopRunning, mtx, queued, timers, due, workerPc, callerPc, posted, pushed, armed>>

LoopInit ==
    /\ loopRunning = TRUE /\ mtx = "none"
    /\ queued = 0 /\ timers = 0 /\ due = 0
    /\ workerPc = "check" /\ callerPc = "idle"
    /\ posted = 0 /\ pushed = 0 /\ armed = 0

-----------------------------------------------------------------------------
(* The service thread.                                                     *)

\* Seeded fault: a notification that wakes nobody.
Woken_Lost(where) == where

\* notify_one and notify_all: the worker is the only thread that waits.
Woken(where) == IF where = "asleep" THEN "awake" ELSE where

\* postEvent: push under _mtx ...
PushEvent ==
    /\ callerPc = "idle" /\ mtx = "none" /\ posted < MaxPosts
    /\ queued' = queued + 1
    /\ posted' = posted + 1 /\ pushed' = pushed + 1
    /\ callerPc' = "notify"
    /\ UNCHANGED <<loopRunning, mtx, timers, due, workerPc, armed>>

\* ... and notify when it is released.
NotifyPush ==
    /\ callerPc = "notify"
    /\ workerPc' = Woken(workerPc)
    /\ callerPc' = "idle"
    /\ UNCHANGED <<loopRunning, mtx, queued, timers, due, posted, pushed, armed>>

\* stop(): _running is cleared without the lock.
Stop ==
    /\ callerPc = "idle" /\ loopRunning
    /\ loopRunning' = FALSE
    /\ callerPc' = "stopNotify"
    /\ UNCHANGED <<mtx, queued, timers, due, workerPc, posted, pushed, armed>>

NotifyStop ==
    /\ callerPc = "stopNotify"
    /\ workerPc' = Woken(workerPc)
    /\ callerPc' = "join"
    /\ UNCHANGED <<loopRunning, mtx, queued, timers, due, posted, pushed, armed>>

Join ==
    /\ callerPc = "join" /\ workerPc = "done"
    /\ callerPc' = "stopped"
    /\ UNCHANGED <<loopRunning, mtx, queued, timers, due, workerPc, posted, pushed, armed>>

-----------------------------------------------------------------------------
(* The worker.                                                             *)

\* while (_running)
CheckRunning ==
    /\ workerPc = "check"
    /\ workerPc' = IF loopRunning THEN "timers" ELSE "done"
    /\ UNCHANGED <<loopRunning, mtx, queued, timers, due, callerPc, posted, pushed, armed>>

\* A timer that is due is posted and erased; each postEvent takes _mtx.
PostTimer ==
    /\ workerPc = "timers" /\ due > 0 /\ mtx = "none"
    /\ due' = due - 1 /\ timers' = timers - 1
    /\ queued' = queued + 1 /\ pushed' = pushed + 1
    /\ UNCHANGED <<loopRunning, mtx, workerPc, callerPc, posted, armed>>

\* No timer is due any more: lock the queue, and wait if it is empty.
LockQueue ==
    /\ workerPc = "timers" /\ due = 0 /\ mtx = "none"
    /\ mtx' = "worker"
    /\ workerPc' = IF queued = 0 THEN "predicate" ELSE "pop"
    /\ UNCHANGED <<loopRunning, queued, timers, due, callerPc, posted, pushed, armed>>

\* Seeded fault: the wait goes on although an event is queued.
Predicate_RunningOnly == ~loopRunning

\* The predicate of both waits.
Predicate == queued > 0 \/ ~loopRunning

TestPredicate ==
    /\ workerPc = "predicate"
    /\ workerPc' = IF Predicate THEN "pop" ELSE "block"
    /\ UNCHANGED <<loopRunning, mtx, queued, timers, due, callerPc, posted, pushed, armed>>

\* The wait itself releases the lock; a notification before it is lost.
Block ==
    /\ workerPc = "block"
    /\ mtx' = "none"
    /\ workerPc' = "asleep"
    /\ UNCHANGED <<loopRunning, queued, timers, due, callerPc, posted, pushed, armed>>

WakeLoop ==
    /\ workerPc = "asleep"
    /\ workerPc' = "awake"
    /\ UNCHANGED <<loopRunning, mtx, queued, timers, due, callerPc, posted, pushed, armed>>

\* Seeded fault: wait instead of wait_until.
Overdue_Never == FALSE

\* With timers, the wait is wait_until the time of the first one.
Overdue == timers > 0 /\ due > 0

WaitTimesOut ==
    /\ workerPc = "asleep" /\ Overdue
    /\ workerPc' = "awake"
    /\ UNCHANGED <<loopRunning, mtx, queued, timers, due, callerPc, posted, pushed, armed>>

\* Back with the lock: wait_until gives up when its time has come, else the
\* predicate is tested again.
Relock ==
    /\ workerPc = "awake" /\ mtx = "none"
    /\ mtx' = "worker"
    /\ workerPc' = IF Overdue THEN "pop" ELSE "predicate"
    /\ UNCHANGED <<loopRunning, queued, timers, due, callerPc, posted, pushed, armed>>

AfterPop == IF queued > 0 THEN queued - 1 ELSE queued

\* Take the first event, if there is one, and release the lock.
PopEvent ==
    /\ workerPc = "pop"
    /\ mtx' = "none"
    /\ queued' = AfterPop
    /\ workerPc' = IF queued > 0 THEN "dispatch" ELSE "check"
    /\ UNCHANGED <<loopRunning, timers, due, callerPc, posted, pushed, armed>>

\* The handlers may post delayed events; MovingState does.
Dispatch ==
    /\ workerPc = "dispatch"
    /\ workerPc' = "check"
    /\ \/ UNCHANGED <<timers, armed>>
       \/ armed < MaxTimers /\ armed' = armed + 1 /\ timers' = timers + 1
    /\ UNCHANGED <<loopRunning, mtx, queued, due, callerPc, posted, pushed>>

-----------------------------------------------------------------------------
\* The first timer that is not due yet comes due.
Clock ==
    /\ due < timers
    /\ due' = due + 1
    /\ UNCHANGED <<loopRunning, mtx, queued, timers, workerPc, callerPc, posted, pushed, armed>>

Worker ==
    \/ CheckRunning \/ PostTimer \/ LockQueue \/ TestPredicate \/ Block \/ Relock
    \/ WaitTimesOut \/ PopEvent \/ Dispatch
Caller == PushEvent \/ Stop \/ NotifyPush \/ NotifyStop \/ Join

LoopNext == Worker \/ Caller \/ WakeLoop \/ Clock

\* Time passes and both threads are scheduled.  Nothing has to be posted,
\* stop() has not to be called, and a wait need not return spuriously.
LoopSpec ==
    /\ LoopInit /\ [][LoopNext]_loopVars
    /\ WF_loopVars(Worker) /\ WF_loopVars(NotifyPush \/ NotifyStop \/ Join)
    /\ WF_loopVars(Clock)

-----------------------------------------------------------------------------
\* Events that were dispatched, and timers that were posted.
Handled == pushed - queued - (IF workerPc = "dispatch" THEN 1 ELSE 0)
Fired == armed - timers

\* Every variable has its type: loop() pops no event from an empty queue, and
\* no more timers are due than there are.
LoopTypeOK ==
    /\ loopRunning \in BOOLEAN /\ mtx \in {"none", "worker"}
    /\ queued \in 0 .. MaxPosts + MaxTimers
    /\ timers \in 0 .. MaxTimers /\ due \in 0 .. timers
    /\ workerPc \in {"check", "timers", "predicate", "block", "asleep", "awake",
                     "pop", "dispatch", "done"}
    /\ callerPc \in {"idle", "notify", "stopNotify", "join", "stopped"}
    /\ posted \in 0 .. MaxPosts /\ armed \in 0 .. MaxTimers
    /\ pushed \in 0 .. MaxPosts + MaxTimers

\* The worker is not asleep over an event: when it sleeps and the queue is not
\* empty, the postEvent that filled it has its notification still to give.
NoLostWakeup == workerPc = "asleep" /\ queued > 0 => callerPc = "notify"

\* The inductive invariant: the worker holds _mtx from the test of the
\* predicate to the wait, and every push is one post or one timer.
LoopLockInv ==
    /\ mtx = "worker" <=> workerPc \in {"predicate", "block", "pop"}
    /\ workerPc = "block" => queued = 0
QueueInv ==
    pushed = posted + armed - timers /\ queued <= pushed /\ timers <= armed
LoopInv == LoopTypeOK /\ LoopLockInv /\ QueueInv /\ NoLostWakeup

\* Every event that postEvent or a timer pushed is dispatched, unless stop()
\* comes first: the push is under _mtx, so its notification cannot be lost.
EventHandled ==
    \A k \in 1 .. MaxPosts + MaxTimers : pushed = k ~> Handled >= k \/ ~loopRunning

\* Every delayed event is posted when its time has come, unless stop() comes
\* first: the worker never sleeps past the first timer.
TimerFires == \A k \in 1 .. MaxTimers : armed = k ~> Fired >= k \/ ~loopRunning

\* stop() returns if a timer is pending: the watchdog of MovingState ends a
\* wait whose notification was lost.  Without a timer it need not: stop()
\* clears _running without _mtx, so it may notify between the test of the
\* predicate and the wait.
StopReturnsWithTimer ==
    (callerPc = "stopNotify" /\ timers > 0) ~> callerPc = "stopped"
=============================================================================
