------------------------------ MODULE MCPipeline ------------------------------
(***************************************************************************)
(* Two consumers on a buffer of two.  Every class of task; stop() releases *)
(* the MultiConsumer, as in the disabled test, or its source as well; and  *)
(* a task that is not joinable, whose two threads pop with one consumer    *)
(* ID.                                                                     *)
(***************************************************************************)
EXTENDS Pipeline

MCThreads == Tasks \X (1 .. MaxStarts)
MCConsumerOf == [th \in MCThreads |-> th[1]]

ReleaseOf(q) == <<[on |-> q, does |-> "flag"], [on |-> q, does |-> "notify"]>>
ReleaseMulti == ReleaseOf(1) \o ReleaseOf(2)
ReleaseBoth == ReleaseMulti \o ReleaseOf(Source)

SetUp(c, j, f, s) ==
  [class |-> c, joinable |-> j, finalizers |-> f, starts |-> s]

MCSetUps ==
  {SetUp("BaseTask", TRUE, ReleaseMulti, <<2, 0>>),
   SetUp("DelegateTask", TRUE, ReleaseMulti, <<2, 1>>),
   SetUp("DelegateTask", TRUE, ReleaseBoth, <<1, 1>>),
   SetUp("DelegateTask", FALSE, ReleaseMulti, <<2, 0>>),
   SetUp("FiberTask", TRUE, ReleaseBoth, <<1, 1>>)}

\* A task per consumer, started once, whose finalizer is the MultiConsumer.
MCStopSetUps == {SetUp("DelegateTask", TRUE, ReleaseMulti, <<1, 1>>)}
=============================================================================
