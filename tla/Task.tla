--------------------------------- MODULE Task ---------------------------------
(***************************************************************************)
(* BaseTask.cpp: one application thread starts, awaits, stops and destroys *)
(* tasks; each start spawns a thread that runs process().  The three       *)
(* classes differ in when they renew the promise that awaitRunning waits   *)
(* for, and FiberTask's threads share one processor with the application.  *)
(* What a processing function does, and what stop() releases, is the       *)
(* business of the module that composes this one with queues (Pipeline).   *)
(***************************************************************************)
EXTENDS Naturals, Sequences

CONSTANTS
  Tasks,
  SetUps,        \* what the behaviours are about: the class of the tasks, the
                 \* constructor's argument, the finalizers declared, and how
                 \* often (bound) each task is started
  MaxStarts,     \* bound: the start() calls of a task
  App            \* the application's own thread

AllTaskClasses == {"BaseTask", "DelegateTask", "FiberTask"}
TaskThreads == Tasks \X (1 .. MaxStarts)

ASSUME SetUpsAssumption ==
  \A s \in SetUps : /\ s.class \in AllTaskClasses
                    /\ s.joinable \in BOOLEAN
                    /\ s.starts \in [Tasks -> 0 .. MaxStarts]
ASSUME MaxStartsAssumption == MaxStarts \in Nat
ASSUME AppAssumption == App \notin TaskThreads

VARIABLES
  setUp,         \* the set-up of this behaviour
  m_stop,
  m_thread,      \* the start whose thread m_thread can join, 0 if none
  m_startedPromise,
  future,        \* of awaitRunning: none yet, valid, or retrieved before
  starts,        \* the start() calls so far
  tpc,           \* where each thread is in process()
  app,           \* the call the application is in
  cpu,           \* who runs, of the application and its fibers
  alive,         \* the task has not been destroyed
  crashed,       \* std::terminate, or a use of a destroyed task
  lawful         \* history: the application kept to the life cycle

lifeVars == <<m_stop, m_thread, m_startedPromise, future, starts, alive>>
taskVars == <<setUp, lifeVars, tpc, app, cpu,
              crashed, lawful>>

Idle == [op |-> "idle", task |-> CHOOSE t \in Tasks : TRUE, todo |-> <<>>]

TaskInit ==
  /\ setUp \in SetUps
  /\ m_stop = [t \in Tasks |-> FALSE]
  /\ m_thread = [t \in Tasks |-> 0]
  /\ m_startedPromise = [t \in Tasks |-> "fresh"]
  /\ future = [t \in Tasks |-> "none"]
  /\ starts = [t \in Tasks |-> 0]
  /\ tpc = [th \in TaskThreads |-> "none"]
  /\ app = Idle
  /\ cpu = App
  /\ alive = [t \in Tasks |-> TRUE]
  /\ crashed = FALSE
  /\ lawful = TRUE

Current(t) == <<t, starts[t]>>
Handle(t) == <<t, m_thread[t]>>
Live(t) ==
  {th \in TaskThreads : th[1] = t /\ tpc[th] \in {"spawned", "loop", "body"}}

\* Fibers and the application take turns on one thread of the system.
Runs(x) == setUp.class = "FiberTask" => cpu = x

AppCalls(t) ==
  /\ Runs(App)
  /\ app.op = "idle"
  /\ alive[t]

\* The life cycle: one starts a task that is not running, a BaseTask once, and
\* destroys a task that is not running.
Started(t) == starts[t] > 0 /\ ~m_stop[t]

KeepsTo(rule) == lawful' = (lawful /\ rule)

-----------------------------------------------------------------------------
(* The application's calls.                                                *)

\* (Definitions marked "Faulty" are variants with a plausible mistake.  No
\* specification uses them: put in place of the definition that follows, each
\* makes one of the properties fail.)

\* Faulty: a second start() inherits the promise of the first.
RenewPromiseNever(t) ==
  /\ future' = [future EXCEPT ![t] = "valid"]
  /\ UNCHANGED m_startedPromise

\* DelegateTask and FiberTask make a promise and its future in every start,
\* BaseTask has one promise for its life.
RenewPromise(t) ==
  IF setUp.class = "BaseTask" THEN UNCHANGED <<m_startedPromise, future>>
  ELSE /\ m_startedPromise' = [m_startedPromise EXCEPT ![t] = "fresh"]
       /\ future' = [future EXCEPT ![t] = "valid"]

\* Assigning to a thread that can still be joined terminates the program; a
\* task that is not joinable detaches its thread at once.
Start(t) ==
  /\ AppCalls(t)
  /\ starts[t] < setUp.starts[t]
  /\ m_stop' = [m_stop EXCEPT ![t] = FALSE]
  /\ starts' = [starts EXCEPT ![t] = @ + 1]
  /\ tpc' = [tpc EXCEPT ![<<t, starts[t] + 1>>] = "spawned"]
  /\ RenewPromise(t)
  /\ crashed' = (m_thread[t] # 0)
  /\ m_thread' =
       [m_thread EXCEPT ![t] = IF setUp.joinable THEN starts[t] + 1 ELSE 0]
  /\ KeepsTo(~Started(t) /\ (setUp.class = "BaseTask" => starts[t] = 0))
  /\ UNCHANGED <<setUp, app, cpu, alive>>

Stop(t) ==
  /\ AppCalls(t)
  /\ m_stop' = [m_stop EXCEPT ![t] = TRUE]
  /\ app' = [op |-> "cleanup", task |-> t, todo |-> setUp.finalizers]
  /\ UNCHANGED <<setUp, m_thread, m_startedPromise, future, starts,
                 tpc, cpu, alive, crashed, lawful>>

\* What awaitRunning cannot wait for: a BaseTask asks its promise for the
\* future, which throws the second time; a DelegateTask that was never started
\* has no future, and wait() throws.  The application goes on from there.
NoFuture(t) ==
  future[t] = IF setUp.class = "BaseTask" THEN "retrieved" ELSE "none"

\* Of a task that is stopped it returns at once.
AwaitRunning(t) ==
  /\ AppCalls(t)
  /\ IF m_stop[t] \/ NoFuture(t)
       THEN UNCHANGED <<future, app>>
       ELSE /\ future' =
                 [future EXCEPT
                    ![t] = IF setUp.class = "BaseTask" THEN "retrieved" ELSE @]
            /\ app' = [op |-> "await", task |-> t, todo |-> <<>>]
  /\ UNCHANGED <<setUp, m_stop, m_thread, m_startedPromise, starts,
                 tpc, cpu, alive, crashed, lawful>>

\* A BaseTask stops in its destructor, when the derived class that implements
\* process() is gone already; the others destroy their thread object, which
\* terminates the program if it can still be joined.
Destroy(t) ==
  /\ AppCalls(t)
  /\ alive' = [alive EXCEPT ![t] = FALSE]
  /\ crashed' = (Live(t) # {} \/ (setUp.class # "BaseTask" /\ m_thread[t] # 0))
  /\ IF setUp.class = "BaseTask"
       THEN /\ m_stop' = [m_stop EXCEPT ![t] = TRUE]
            /\ app' = [op |-> "cleanup", task |-> t, todo |-> setUp.finalizers]
       ELSE UNCHANGED <<m_stop, app>>
  /\ KeepsTo(~Started(t))
  /\ UNCHANGED <<setUp, m_thread, m_startedPromise, future, starts,
                 tpc, cpu>>

Cleaned == app.op = "cleanup" /\ app.todo = <<>>

\* stop() joins only a thread it can join.
StopReturnsOrJoins ==
  /\ Runs(App)
  /\ Cleaned
  /\ app' = IF setUp.joinable /\ m_thread[app.task] # 0
              THEN [app EXCEPT !.op = "join", !.todo = <<>>] ELSE Idle
  /\ UNCHANGED <<setUp, lifeVars, tpc, cpu, crashed,
                 lawful>>

\* Faulty: stop() does not wait for the thread.
JoinedAtOnce(t) == TRUE

Joined(t) == tpc[Handle(t)] = "ended"

Join ==
  /\ Runs(App)
  /\ app.op = "join"
  /\ Joined(app.task)
  /\ m_thread' = [m_thread EXCEPT ![app.task] = 0]
  /\ app' = Idle
  /\ UNCHANGED <<setUp, m_stop, m_startedPromise, future, starts,
                 alive, tpc, cpu, crashed, lawful>>

AwaitReturns ==
  /\ Runs(App)
  /\ app.op = "await"
  /\ m_startedPromise[app.task] = "set"
  /\ app' = Idle
  /\ UNCHANGED <<setUp, lifeVars, tpc, cpu, crashed,
                 lawful>>

-----------------------------------------------------------------------------
(* process()                                                               *)

\* set_value throws when the promise has its value: nothing catches it.
Signal(th) ==
  LET t == th[1]
  IN  IF m_startedPromise[t] = "set"
        THEN crashed' = TRUE /\ UNCHANGED <<m_startedPromise, tpc>>
        ELSE /\ m_startedPromise' = [m_startedPromise EXCEPT ![t] = "set"]
             /\ tpc' = [tpc EXCEPT ![th] = "loop"]
             /\ UNCHANGED crashed

SignalRunning(th) ==
  /\ Runs(th)
  /\ tpc[th] = "spawned"
  /\ Signal(th)
  /\ UNCHANGED <<setUp, m_stop, m_thread, future, starts, alive,
                 app, cpu, lawful>>

\* while(!stopped())
AfterTest(t) == IF m_stop[t] THEN "ended" ELSE "body"

LoopTest(th) ==
  /\ Runs(th)
  /\ tpc[th] = "loop"
  /\ tpc' = [tpc EXCEPT ![th] = AfterTest(th[1])]
  /\ UNCHANGED <<setUp, lifeVars, app, cpu, crashed,
                 lawful>>

ThreadStep(th) == SignalRunning(th) \/ LoopTest(th)

AppReturns == StopReturnsOrJoins \/ Join \/ AwaitReturns

AppCall(t) == Start(t) \/ Stop(t) \/ AwaitRunning(t) \/ Destroy(t)

-----------------------------------------------------------------------------
TaskTypeOK ==
  /\ setUp \in SetUps
  /\ m_stop \in [Tasks -> BOOLEAN]
  /\ m_thread \in [Tasks -> 0 .. MaxStarts]
  /\ m_startedPromise \in [Tasks -> {"fresh", "set"}]
  /\ future \in [Tasks -> {"none", "valid", "retrieved"}]
  /\ starts \in [Tasks -> 0 .. MaxStarts]
  /\ tpc \in [TaskThreads -> {"none", "spawned", "loop", "body", "ended"}]
  /\ app.op \in {"idle", "cleanup", "join", "await"}
  /\ app.task \in Tasks
  /\ cpu \in TaskThreads \union {App}
  /\ alive \in [Tasks -> BOOLEAN]
  /\ crashed \in BOOLEAN
  /\ lawful \in BOOLEAN

\* A joinable task never has two threads in process(), so the processing
\* function needs no lock against itself: stop() returns, and start() can
\* run again, only when the thread is joined.  (A task that is not joinable
\* has no such protection: start() clears the flag that the thread of the
\* start before has not read yet.)
OneThreadPerTask ==
  setUp.joinable /\ ~crashed => \A t \in Tasks : Live(t) \subseteq {Handle(t)}

\* No call of an application that keeps to the life cycle terminates the
\* program or touches a task that is gone: threads reassigned or destroyed
\* before they are joined, promises set twice.
LawfulTasksNeverCrash == setUp.joinable /\ lawful => ~crashed

\* When awaitRunning has returned from a task in its life cycle, the thread
\* of the last start has run, not a thread of an earlier one.
AwaitedHasStarted ==
  [][ \A t \in Tasks :
        setUp.joinable /\ lawful /\ app.op = "await" /\ app.task = t
          /\ app'.op = "idle"
          => tpc[Current(t)] \in {"loop", "body", "ended"} ]_app
=============================================================================
