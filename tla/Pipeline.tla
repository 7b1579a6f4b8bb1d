------------------------------- MODULE Pipeline -------------------------------
(***************************************************************************)
(* Tasks whose processing functions are the consumers of a MultiConsumer:  *)
(* the product of Task and MultiConsumer, joined where a thread calls pop  *)
(* and where stop() releases the queues that the task has declared as      *)
(* finalizers.  The application that puts them together is any; the        *)
(* repository has none (test_threading_multiconsumer is commented out).    *)
(* Its source may be any IFifo; here it is the one that has its own push,  *)
(* doPop and state, the circular buffer.                                   *)
(***************************************************************************)
EXTENDS Task, MultiConsumer

CONSTANT PushBound  \* bound: the number of items produced

ASSUME PushBoundAssumption == PushBound \in Nat
ASSUME ValuesAssumption == 1 .. PushBound \subseteq Values
ASSUME TasksAssumption == Tasks = Consumers /\ Threads = TaskThreads
ASSUME ConsumersAssumption == \A th \in Threads : ConsumerOf[th] = th[1]

VARIABLE pushesLeft

vars == <<taskVars, bufferVars, multiVars, pushesLeft>>

Init == TaskInit /\ MultiInit /\ pushesLeft = PushBound

\* The n-th item pushed is n.
Produce ==
  /\ pushesLeft > 0
  /\ SourcePush(PushBound - pushesLeft + 1)
  /\ pushesLeft' = pushesLeft - 1
  /\ UNCHANGED taskVars

\* The consumers subscribe, which gives them their IDs, before a task starts.
SubscribeNext ==
  Subscribe /\ UNCHANGED <<taskVars, pushesLeft>>

CallTask(t) ==
  /\ m_currentSubscriberID = NbConsumers
  /\ AppCall(t)
  /\ UNCHANGED <<bufferVars, multiVars, pushesLeft>>

FlagsAreSeen ==
  /\ \E q \in Queues : FlagSeen(q)
  /\ UNCHANGED <<taskVars, pushesLeft>>

AppGoesOn == AppReturns /\ UNCHANGED <<bufferVars, multiVars, pushesLeft>>

\* cleanup(): the next statement of a finalizer's release().
Cleanup ==
  /\ Runs(App)
  /\ app.op = "cleanup"
  /\ app.todo # <<>>
  /\ LET step == Head(app.todo)
     IN  IF step.does = "flag" THEN FlagReleased(step.on)
                               ELSE NotifyReleased(step.on)
  /\ app' = [app EXCEPT !.todo = Tail(@)]
  /\ UNCHANGED <<setUp, lifeVars, tpc, cpu, crashed, lawful,
                 pushesLeft>>

TaskThread(th) ==
  ThreadStep(th) /\ UNCHANGED <<bufferVars, multiVars, pushesLeft>>

\* A step of the processing function, which pops once; process() goes round
\* when it returns.
Process(th) ==
  /\ Runs(th)
  /\ tpc[th] = "body"
  /\ PopStep(th)
  /\ tpc' = [tpc EXCEPT ![th] = IF mpc'[th] = "out" THEN "loop" ELSE "body"]
  /\ UNCHANGED <<setUp, lifeVars, app, cpu, crashed, lawful,
                 pushesLeft>>

SourceCleared == SourceClear /\ UNCHANGED <<taskVars, pushesLeft>>

WokenForNothing(th) ==
  SpuriousWakeup(th) /\ UNCHANGED <<taskVars, pushesLeft>>

\* A fiber gives the processor away where it ends, yields (processing
\* functions call FiberTask::yield), or waits for the fiber mutex or condition
\* variable of the source and of m_mutex.  The consumers' own buffers are
\* plain SharedFifos: waiting there stops the thread of all the fibers.
MayYield(x) ==
  IF x = App THEN app.op \in {"idle", "await", "join"}
  ELSE \/ tpc[x] \in {"ended", "loop"}
       \/ mpc[x] = "sourceAsleep"
       \/ mpc[x] \in {"out", "count"} /\ ~MutexFree

SwitchTo(y) ==
  /\ setUp.class = "FiberTask"
  /\ MayYield(cpu)
  /\ y # cpu
  /\ y # App => tpc[y] \in {"spawned", "loop", "body"}
  /\ cpu' = y
  /\ UNCHANGED <<setUp, lifeVars, tpc, app, crashed, lawful,
                 bufferVars, multiVars, pushesLeft>>

AppStep == AppGoesOn \/ Cleanup
Step(th) == TaskThread(th) \/ Process(th)

Next ==
  /\ ~crashed /\ ~undefined
  /\ \/ Produce \/ SubscribeNext \/ SourceCleared \/ FlagsAreSeen
     \/ \E t \in Tasks : CallTask(t)
     \/ AppStep
     \/ \E th \in Threads : Step(th) \/ WokenForNothing(th)
     \/ \E y \in Threads \union {App} : SwitchTo(y)

Spec == Init /\ [][Next]_vars

(* Threads that can run do run, a call of the application that began goes  *)
(* on, and a flag that was stored is seen.  Nothing is assumed of the       *)
(* producer, of the calls the application makes, of clear, of spurious      *)
(* wake-ups or of fibers, which give the processor away only where they     *)
(* choose to.                                                               *)
Fairness ==
  /\ WF_vars(~crashed /\ ~undefined /\ AppStep)
  /\ WF_vars(~crashed /\ ~undefined /\ FlagsAreSeen)
  /\ \A th \in Threads : WF_vars(~crashed /\ ~undefined /\ Step(th))

FairSpec == Spec /\ Fairness
-----------------------------------------------------------------------------
(* Properties.                                                             *)

TypeOK == TaskTypeOK /\ MultiTypeOK /\ pushesLeft \in 0 .. PushBound

\* Expected to fail.  A stop() that began returns: it sets the flag that
\* process() tests, and calls the finalizers that are there to end the threads
\* properly (BaseTask.h:156, "Add FIFOs finalize methods to end threading
\* properly").  The join waits for ever for a thread that sleeps in the source,
\* which the release() of a MultiConsumer leaves alone, and for one that was
\* between its test and its wait when a release() without a lock came.
StopReturns ==
  app.op \in {"cleanup", "join"}
    ~> app.op \notin {"cleanup", "join"} \/ crashed \/ undefined
=============================================================================
