----------------------------- MODULE SharedBuffer -----------------------------
(***************************************************************************)
(* SharedBuffer.h: the queue with a capacity, on which push blocks too, and*)
(* with a start offset, below which push wakes no consumer.  The consumer  *)
(* side is the one SharedBuffer inherits from SharedFifo; its doPop also   *)
(* notifies m_condQueueNotFull.                                            *)
(***************************************************************************)
EXTENDS SharedFifo

CONSTANTS
  Producers,     \* the threads that call push
  MaxSizeBound   \* bound: the largest max (and startAt) the constructor gets

ASSUME ProducersFinite == IsFiniteSet(Producers)
ASSUME ProducersAssumption ==
  Producers \intersect Consumers = {} /\ Free \notin Producers
ASSUME MaxSizeBoundAssumption == MaxSizeBound \in Nat

VARIABLES
  m_maxSize,
  m_bufferedStartOffset,
  m_started,
  notFull,       \* the producers asleep on m_condQueueNotFull
  ppc,           \* where each producer is in push
  pval,          \* the value it pushes
  pslept,        \* history: the push in progress has been asleep
  cleared        \* history: clear() was called

pushVars == <<notFull, ppc, pval, pslept>>
shapeVars == <<m_maxSize, m_bufferedStartOffset>>
bufferVars == <<m_maxSize, m_bufferedStartOffset, m_started, notFull, ppc,
                pval, pslept, cleared>>
bvars == <<vars, bufferVars>>

StartOffset(max, startAt) == IF max < startAt THEN max ELSE startAt

\* The constructor.
BInit ==
  /\ Init /\ class = "SharedFifo"
  /\ \E max, startAt \in 0 .. MaxSizeBound :
       /\ m_maxSize = max
       /\ m_bufferedStartOffset = StartOffset(max, startAt)
       /\ m_started = (startAt = 0)
  /\ notFull = {}
  /\ ppc = [p \in Producers |-> "idle"]
  /\ pval \in [Producers -> {None}]
  /\ pslept = [p \in Producers |-> FALSE]
  /\ cleared = FALSE

-----------------------------------------------------------------------------
(* push, cut at the same places as pop.                                    *)
\* Faulty: off by one.
FullBeyondMax == m_nbNotified > m_maxSize

Full == m_nbNotified >= m_maxSize

LockAndTestFull(p) ==
  /\ m_mutex = Free
  /\ m_mutex' = p
  /\ ppc' = [ppc EXCEPT ![p] = IF ~m_bReleased /\ Full THEN "sleep" ELSE "ready"]

PushCall(p, v) ==
  /\ ppc[p] = "idle"
  /\ pushesLeft > 0
  /\ LockAndTestFull(p)
  /\ pval' = [pval EXCEPT ![p] = v]
  /\ pushesLeft' = pushesLeft - 1
  /\ UNCHANGED <<dataVars, m_bReleased, notEmpty, callVars, fpc, missed,
                 shapeVars, m_started, notFull, pslept, cleared>>

PushSleep(p) ==
  /\ ppc[p] = "sleep"
  /\ m_mutex' = Free
  /\ notFull' = notFull \union {p}
  /\ ppc' = [ppc EXCEPT ![p] = "waiting"]
  /\ pslept' = [pslept EXCEPT ![p] = TRUE]
  /\ UNCHANGED <<dataVars, m_bReleased, notEmpty, callVars, fpc, pushesLeft,
                 missed, shapeVars, m_started, pval, cleared>>

PushSpuriousWakeup(p) ==
  /\ p \in notFull
  /\ notFull' = notFull \ {p}
  /\ UNCHANGED <<vars, shapeVars, m_started, ppc, pval, pslept, cleared>>

PushResume(p) ==
  /\ ppc[p] = "waiting"
  /\ p \notin notFull
  /\ LockAndTestFull(p)
  /\ UNCHANGED <<dataVars, m_bReleased, notEmpty, callVars, fpc, pushesLeft,
                 missed, shapeVars, m_started, notFull, pval, pslept, cleared>>

\* Faulty: the buffer starts, and push still notifies nobody.
StartAndNotifyNobody ==
  /\ m_started' = (m_started \/ m_nbNotified' >= m_bufferedStartOffset)
  /\ UNCHANGED notEmpty

\* The push that reaches the start offset starts the buffer and notifies
\* nobody.
StartOrNotify ==
  IF m_started
    THEN NotifyOne(notEmpty, notEmpty') /\ UNCHANGED m_started
    ELSE /\ m_started' = (m_nbNotified' >= m_bufferedStartOffset)
         /\ UNCHANGED notEmpty

\* What follows the loop: push throws when released and full.
PushFinish(p) ==
  /\ ppc[p] = "ready"
  /\ m_mutex' = Free
  /\ ppc' = [ppc EXCEPT ![p] = "idle"]
  /\ IF m_bReleased /\ Full
       THEN UNCHANGED <<m_data, m_nbNotified, notEmpty, m_started>>
       ELSE /\ m_data' = Insert(m_data, pval[p])
            /\ m_nbNotified' = CountAfterPush
            /\ StartOrNotify
  /\ pval' = [pval EXCEPT ![p] = None]
  /\ pslept' = [pslept EXCEPT ![p] = FALSE]
  /\ UNCHANGED <<class, m_bReleased, callVars, fpc, pushesLeft, missed,
                 shapeVars, notFull, cleared>>

-----------------------------------------------------------------------------
(* The inherited operations.  SharedBuffer::doPop ends by waking a producer.*)
\* Faulty: the inherited doPop, which knows of no capacity.
NotifyNoProducer == UNCHANGED notFull

NotifyNotFull ==
  IF m_nbNotified' < m_nbNotified
    THEN NotifyOne(notFull, notFull') ELSE UNCHANGED notFull

BFinishPop(c) ==
  /\ FinishPop(c)
  /\ NotifyNotFull
  /\ UNCHANGED <<shapeVars, m_started, ppc, pval, pslept, cleared>>

BTryPop(c) ==
  /\ TryPop(c)
  /\ NotifyNotFull
  /\ UNCHANGED <<shapeVars, m_started, ppc, pval, pslept, cleared>>

\* clear wakes no producer, although it makes room.
BClear ==
  /\ \A p \in Producers : ppc[p] = "idle" \/ p \in notFull
  /\ Clear
  /\ cleared' = TRUE
  /\ UNCHANGED <<shapeVars, m_started, pushVars>>

Inherited(c) ==
  /\ \/ \E op \in Ops : Call(c, op)
     \/ Sleep(c)
     \/ Resume(c)
     \/ FinishBack(c)
  /\ UNCHANGED bufferVars

BConsumerStep(c) == Inherited(c) \/ BFinishPop(c) \/ BTryPop(c)
BTimeout(c) == Timeout(c) /\ UNCHANGED bufferVars
BSpuriousWakeup(c) == SpuriousWakeup(c) /\ UNCHANGED bufferVars
BReleaseSeen == ReleaseSeen /\ UNCHANGED bufferVars
BRelease(f) == (ReleaseFlag(f) \/ ReleaseNotify(f)) /\ UNCHANGED bufferVars
ProducerStep(p) == PushSleep(p) \/ PushResume(p) \/ PushFinish(p)

BNext ==
  \/ \E p \in Producers :
       \/ \E v \in Values : PushCall(p, v)
       \/ ProducerStep(p)
       \/ PushSpuriousWakeup(p)
  \/ \E c \in Consumers :
       BConsumerStep(c) \/ BTimeout(c) \/ BSpuriousWakeup(c)
  \/ \E f \in Finalizers : BRelease(f)
  \/ BReleaseSeen
  \/ BClear

BSpec == BInit /\ [][BNext]_bvars

(* Threads in a call run when they can; consumers are tasks that call their *)
(* processing function again and again; nobody has to push or to release.   *)
(* Spurious wake-ups, allowed at any time, do not go on for ever, and a     *)
(* producer that waits for the mutex is not overtaken for ever (SF).        *)
SpuriousStep ==
  \/ \E p \in Producers : PushSpuriousWakeup(p)
  \/ \E c \in Consumers : BSpuriousWakeup(c)

BFairness ==
  /\ <>[][~SpuriousStep]_bvars
  /\ \A p \in Producers : SF_bvars(ProducerStep(p))
  /\ \A c \in Consumers : WF_bvars(BConsumerStep(c)) /\ WF_bvars(BTimeout(c))
  /\ \A f \in Finalizers :
       WF_bvars(ReleaseNotify(f) /\ UNCHANGED bufferVars)

FairBSpec == BSpec /\ BFairness

-----------------------------------------------------------------------------
(* Properties.                                                             *)

\* The buffer never holds more than max items, whichever producers wait at
\* the limit, wake together, or are let through by a release.
WithinCapacity == m_nbNotified = Len(m_data) /\ Len(m_data) <= m_maxSize

\* The producers that were asleep and are on their way to the buffer again.
WokenProducers ==
  {p \in Producers :
     \/ ppc[p] = "waiting" /\ p \notin notFull
     \/ ppc[p] = "ready" /\ pslept[p]}

\* While producers sleep, every free slot has a woken producer of its own;
\* only clear() makes room without telling anybody.
NoStrandedSlot ==
  notFull # {} /\ ~cleared
    => m_maxSize - m_nbNotified <= Cardinality(WokenProducers)

\* Consumers asleep for want of items and producers asleep for want of room
\* at the same time, nobody on the way: that happens only when the start
\* offset is the whole capacity, or to callers of back() and clear().
EveryoneAsleep ==
  /\ notEmpty # {} /\ Woken = {}
  /\ notFull # {} /\ WokenProducers = {}

DeadlockOnlyAtFullOffset ==
  EveryoneAsleep /\ ~missed /\ ~cleared => m_bufferedStartOffset = m_maxSize

\* Items beyond the start offset do not stay in the buffer: its consumers are
\* woken for them and come.
ItemsAreConsumed ==
  (m_nbNotified > m_bufferedStartOffset)
    ~> (m_nbNotified <= m_bufferedStartOffset \/ missed)

\* A push that found the buffer full comes to its end, with room or with the
\* exception of a released queue, while the consumers go on popping; a
\* buffer that starts only when full is the exception.
PushCompletes ==
  \A p \in Producers :
    ppc[p] = "waiting"
      ~> \/ ppc[p] = "idle" \/ missed \/ cleared
         \/ m_bufferedStartOffset = m_maxSize
=============================================================================
