-------------------------- MODULE SharedBufferProofs --------------------------
(***************************************************************************)
(* The safety properties of SharedBuffer, for any number of producers and  *)
(* consumers, any capacity and any start offset.  The steps it inherits    *)
(* from SharedFifo keep what the lemmas of SharedFifoProofs say they keep; *)
(* what is new is the producers' side of the monitor and the two amounts   *)
(* the wake-ups are counted against, the free slots and the start offset.  *)
(***************************************************************************)
EXTENDS SharedBuffer, SharedFifoProofs

BufferTypeOK ==
  /\ class = "SharedFifo"
  /\ m_mutex \in Consumers \union Producers \union {Free}
  /\ m_maxSize \in Nat
  /\ m_bufferedStartOffset \in 0 .. m_maxSize
  /\ m_started \in BOOLEAN
  /\ notFull \in SUBSET Producers
  /\ ppc \in [Producers -> {"idle", "sleep", "waiting", "ready"}]
  /\ pval \in [Producers -> Values \union {None}]
  /\ pslept \in [Producers -> BOOLEAN]
  /\ cleared \in BOOLEAN

(* A producer inside a critical section of push is the owner of the mutex. *)
ProducerOwnsLock ==
  \A p \in Producers : ppc[p] \in {"sleep", "ready"} <=> m_mutex = p

(* What the locals of a push say about where the push is.                  *)
PushState ==
  \A p \in Producers :
    /\ p \in notFull => ppc[p] = "waiting"
    /\ ppc[p] = "waiting" => pslept[p]
    /\ ppc[p] = "idle" => ~pslept[p]
    /\ ppc[p] # "idle" => pval[p] \in Values

(* What the test of the loop of push found is still true when it goes on.  *)
FullTestStands ==
  \A p \in Producers :
    /\ ppc[p] = "sleep" => Full
    /\ ppc[p] = "ready" => ~Full \/ m_bReleased

(* A buffer that has not started is below its offset, or can hold nothing. *)
StartState ==
  ~m_started => m_nbNotified < m_bufferedStartOffset \/ m_maxSize = 0

PushInv ==
  /\ BufferTypeOK /\ ProducerOwnsLock /\ PushState /\ FullTestStands
  /\ StartState /\ m_nbNotified <= m_maxSize

BufferInv == MonitorInv /\ PushInv

(* The consumers' wake-ups are owed from the start offset on.              *)
AnnouncedBeyondOffset == Announced(m_bufferedStartOffset)

-----------------------------------------------------------------------------
(* The steps the buffer inherits.                                          *)

(* Whatever is no step of a producer.                                      *)
InheritedStep ==
  \/ \E c \in Consumers : BConsumerStep(c) \/ BTimeout(c) \/ BSpuriousWakeup(c)
  \/ \E f \in Finalizers : BRelease(f)
  \/ BReleaseSeen
  \/ BClear
  \/ UNCHANGED bvars

\* They are steps of the fifo, and of push they see at most the wake-up.
LEMMA InheritedIsFifoStep ==
  ASSUME InheritedStep
  PROVE  /\ [Next]_vars
         /\ UNCHANGED <<shapeVars, m_started, ppc, pval, pslept>>
<1> USE DEF shapeVars, bufferVars, pushVars
<1>1. ASSUME NEW c \in Consumers,
             BConsumerStep(c) \/ BTimeout(c) \/ BSpuriousWakeup(c)
      PROVE  Next /\ UNCHANGED <<shapeVars, m_started, ppc, pval, pslept>>
  BY <1>1
  DEF BConsumerStep, Inherited, BFinishPop, BTryPop, BTimeout,
      BSpuriousWakeup, Next, ConsumerStep
<1>2. ASSUME NEW f \in Finalizers, BRelease(f)
      PROVE  Next /\ UNCHANGED <<shapeVars, m_started, ppc, pval, pslept>>
  BY <1>2 DEF BRelease, Next
<1>5. ASSUME BReleaseSeen
      PROVE  Next /\ UNCHANGED <<shapeVars, m_started, ppc, pval, pslept>>
  BY <1>5 DEF BReleaseSeen, Next
<1>3. ASSUME BClear
      PROVE  Next /\ UNCHANGED <<shapeVars, m_started, ppc, pval, pslept>>
  BY <1>3 DEF BClear, Next
<1>4. ASSUME UNCHANGED bvars
      PROVE  UNCHANGED vars
             /\ UNCHANGED <<shapeVars, m_started, ppc, pval, pslept>>
  BY <1>4 DEF bvars
<1> QED BY <1>1, <1>2, <1>3, <1>4, <1>5 DEF InheritedStep

(* What they do to the two amounts push reads, and to the mutex: an item   *)
(* leaves the buffer only while no producer is between its test and its    *)
(* sleep.                                                                  *)
LEMMA InheritedEffects ==
  ASSUME BufferInv, InheritedStep
  PROVE  /\ class' = class
         /\ m_bReleased => m_bReleased'
         /\ m_nbNotified' \in Nat /\ m_nbNotified' <= m_nbNotified
         /\ notFull' \subseteq notFull
         /\ cleared' \in BOOLEAN
         /\ m_nbNotified' # m_nbNotified
              => \A p \in Producers : ppc[p] # "sleep"
<1> DEFINE Effects ==
      /\ class' = class
      /\ m_bReleased => m_bReleased'
      /\ m_nbNotified' \in Nat /\ m_nbNotified' <= m_nbNotified
      /\ notFull' \subseteq notFull
      /\ cleared' \in BOOLEAN
      /\ m_nbNotified' # m_nbNotified
           => \A p \in Producers : ppc[p] # "sleep"
<1> USE DEF dataVars, callVars, bufferVars, pushVars
<1>n. m_nbNotified \in Nat /\ cleared \in BOOLEAN
  BY DEF BufferInv, MonitorInv, MonitorTypeOK, PushInv, BufferTypeOK
<1>1. ASSUME NEW c \in Consumers, BFinishPop(c)
      PROVE  Effects
  <2>n. m_nbNotified' \in Nat
    BY <1>1, PopTypes DEF BFinishPop, FinishPop, BufferInv, Ops
  <2>o. m_nbNotified' = m_nbNotified \/ m_nbNotified' = m_nbNotified - 1
    BY <1>1 DEF BFinishPop, FinishPop, NoItem, DoPop
  <2>1. m_nbNotified' \in Nat /\ m_nbNotified' <= m_nbNotified
    BY <2>n, <2>o, <1>n
  <2>2. notFull' \subseteq notFull
    BY <1>1 DEF BFinishPop, NotifyNotFull, NotifyOne
  <2>3. m_mutex = c
    BY <1>1
    DEF BFinishPop, FinishPop, Leave, BufferInv, MonitorInv, LockOwner
  <2>4. \A p \in Producers : ppc[p] # "sleep"
    BY <2>3, ProducersAssumption DEF BufferInv, PushInv, ProducerOwnsLock
  <2> QED
    BY <1>1, <1>n, <2>1, <2>2, <2>4 DEF BFinishPop, FinishPop, Leave, NoItem, DoPop
<1>2. ASSUME NEW c \in Consumers, BTryPop(c)
      PROVE  Effects
  <2>n. m_nbNotified' \in Nat
    BY <1>2, PopTypes DEF BTryPop, TryPop, BufferInv, Ops
  <2>o. m_nbNotified' = m_nbNotified \/ m_nbNotified' = m_nbNotified - 1
    BY <1>2 DEF BTryPop, TryPop, NoItem, DoPop
  <2>1. m_nbNotified' \in Nat /\ m_nbNotified' <= m_nbNotified
    BY <2>n, <2>o, <1>n
  <2>2. notFull' \subseteq notFull
    BY <1>2 DEF BTryPop, NotifyNotFull, NotifyOne
  <2>3. m_nbNotified' # m_nbNotified => m_mutex = Free
    BY <1>2 DEF BTryPop, TryPop, NoItem
  <2>4. m_mutex = Free => \A p \in Producers : ppc[p] # "sleep"
    BY ProducersAssumption DEF BufferInv, PushInv, ProducerOwnsLock
  <2> QED
    BY <1>2, <1>n, <2>1, <2>2, <2>3, <2>4 DEF BTryPop, TryPop, NoItem, DoPop
<1>3. ASSUME NEW c \in Consumers,
             Inherited(c) \/ BTimeout(c) \/ BSpuriousWakeup(c)
      PROVE  Effects
  BY <1>3, <1>n
  DEF Inherited, BTimeout, BSpuriousWakeup, Call, Sleep, Resume, FinishBack,
      Leave, Timeout, SpuriousWakeup
<1>4. ASSUME (\E f \in Finalizers : BRelease(f)) \/ BReleaseSeen
      PROVE  Effects
  BY <1>4, <1>n DEF BRelease, BReleaseSeen, ReleaseFlag, ReleaseNotify, ReleaseSeen
<1>5. ASSUME BClear
      PROVE  Effects
  <2>1. \A p \in Producers : ppc[p] # "sleep"
    BY <1>5 DEF BClear, BufferInv, PushInv, PushState
  <2> QED BY <1>5, <1>n, <2>1 DEF BClear, Clear
<1>6. ASSUME UNCHANGED bvars
      PROVE  Effects
  BY <1>6, <1>n DEF bvars, vars
<1>7. ASSUME NEW c \in Consumers, BConsumerStep(c)
      PROVE  Inherited(c) \/ BFinishPop(c) \/ BTryPop(c)
  BY <1>7 DEF BConsumerStep
<1>8. Effects
  <2> HIDE DEF Effects
  <2> QED BY <1>1, <1>2, <1>3, <1>4, <1>5, <1>6, <1>7 DEF InheritedStep
<1> QED BY <1>8

\* They keep the invariant of both sides of the monitor.
LEMMA InheritedBufferInv ==
  ASSUME BufferInv, InheritedStep
  PROVE  BufferInv'
<1>1. [Next]_vars /\ UNCHANGED <<shapeVars, m_started, ppc, pval, pslept>>
  BY InheritedIsFifoStep
<1>2. MonitorInv'
  BY <1>1, NextMonitorInv DEF BufferInv
<1>3. \/ m_mutex' = m_mutex
      \/ {m_mutex, m_mutex'} \subseteq Consumers \union {Free}
  BY <1>1, MutexMoves DEF BufferInv
<1>4. BufferTypeOK'
  BY <1>1, <1>3, InheritedEffects
  DEF BufferInv, PushInv, BufferTypeOK, shapeVars
<1>5. ProducerOwnsLock'
  BY <1>1, <1>3, ProducersAssumption DEF BufferInv, PushInv, ProducerOwnsLock
<1>6. PushState'
  BY <1>1, InheritedEffects DEF BufferInv, PushInv, PushState
<1>n. m_nbNotified \in Nat /\ m_maxSize \in Nat
      /\ m_bufferedStartOffset \in Nat
  BY DEF BufferInv, MonitorInv, MonitorTypeOK, PushInv, BufferTypeOK
<1>7. FullTestStands'
  BY <1>1, <1>n, InheritedEffects
  DEF BufferInv, PushInv, FullTestStands, Full, shapeVars
<1>8. StartState' /\ (m_nbNotified <= m_maxSize)'
  BY <1>1, <1>n, InheritedEffects
  DEF BufferInv, PushInv, StartState, shapeVars
<1> QED BY <1>2, <1>4, <1>5, <1>6, <1>7, <1>8 DEF BufferInv, PushInv

-----------------------------------------------------------------------------
(* The steps of push.                                                      *)

\* Where push only locks, unlocks or wakes up, the consumers' side of the
\* monitor sees the mutex move between a producer and nobody.
LEMMA PushLeavesMonitor ==
  ASSUME BufferInv, NEW p \in Producers,
         \/ \E v \in Values : PushCall(p, v)
         \/ PushSleep(p) \/ PushResume(p) \/ PushSpuriousWakeup(p)
  PROVE  /\ MonitorInv'
         /\ UNCHANGED <<dataVars, m_bReleased, notEmpty, callVars, fpc, missed>>
<1> USE DEF dataVars, callVars
<1>1. UNCHANGED <<dataVars, m_bReleased, notEmpty, callVars, fpc, missed>>
  BY DEF PushCall, PushSleep, PushResume, PushSpuriousWakeup, vars
<1>2. pushesLeft' \in Nat
  BY DEF PushCall, PushSleep, PushResume, PushSpuriousWakeup, vars, BufferInv,
         MonitorInv, MonitorTypeOK
<1>3. m_mutex' = m_mutex \/ {m_mutex, m_mutex'} \subseteq {p, Free}
  BY DEF PushCall, PushSleep, PushResume, PushSpuriousWakeup, LockAndTestFull,
         vars, BufferInv, PushInv, ProducerOwnsLock
<1>4. LockOwner'
  BY <1>1, <1>3, ProducersAssumption, FreeIsNoThread
  DEF BufferInv, MonitorInv, LockOwner
<1>5. MonitorTypeOK' /\ CountMatchesData' /\ CallState' /\ TestStands'
  BY <1>1, <1>2
  DEF BufferInv, MonitorInv, MonitorTypeOK, CountMatchesData, CallState,
      TestStands
<1> QED BY <1>1, <1>4, <1>5 DEF MonitorInv

\* The push that goes through inserts its item and wakes one consumer at
\* most, as the push of the fifo does.
LEMMA PushFinishKeepsMonitor ==
  ASSUME BufferInv, NEW p \in Producers, PushFinish(p)
  PROVE  MonitorInv'
<1> USE DEF dataVars, callVars
<1>1. pval[p] \in Values /\ m_mutex = p
  BY DEF PushFinish, BufferInv, PushInv, PushState, ProducerOwnsLock
<1>2. /\ m_data' \in Seq(Values)
      /\ m_nbNotified' = Len(m_data')
      /\ m_nbNotified' \in Nat
      /\ m_nbNotified' # 0 \/ m_nbNotified' = m_nbNotified
  <2>1. CASE m_bReleased /\ Full
    BY <2>1
    DEF PushFinish, BufferInv, MonitorInv, MonitorTypeOK, CountMatchesData
  <2>2. CASE ~(m_bReleased /\ Full)
    BY <1>1, <2>2, InsertType DEF PushFinish, BufferInv
  <2> QED BY <2>1, <2>2
<1>3. notEmpty' \subseteq notEmpty
  BY DEF PushFinish, StartOrNotify, NotifyOne
<1>4. MonitorTypeOK' /\ CountMatchesData'
  BY <1>2, <1>3
  DEF PushFinish, BufferInv, MonitorInv, MonitorTypeOK, CountMatchesData
<1>5. LockOwner'
  BY <1>1, ProducersAssumption, FreeIsNoThread
  DEF PushFinish, BufferInv, MonitorInv, LockOwner
<1>6. \A c \in Consumers : pc[c] # "sleep"
  BY <1>1, ProducersAssumption DEF BufferInv, MonitorInv, LockOwner
<1>7. CallState' /\ TestStands'
  BY <1>2, <1>3, <1>6
  DEF PushFinish, BufferInv, MonitorInv, CallState, TestStands
<1> QED BY <1>4, <1>5, <1>7 DEF MonitorInv

\* No step of a producer takes the mutex from another, forgets what it
\* found under it, or fills the buffer beyond max.
LEMMA ProducerBufferInv ==
  ASSUME BufferInv, NEW p \in Producers,
         \/ \E v \in Values : PushCall(p, v)
         \/ ProducerStep(p) \/ PushSpuriousWakeup(p)
  PROVE  BufferInv'
<1> USE DEF dataVars, callVars, shapeVars
<1> USE DEF BufferInv, PushInv
<1>n. m_nbNotified \in Nat /\ m_maxSize \in Nat
      /\ m_bufferedStartOffset \in Nat
  BY DEF MonitorInv, MonitorTypeOK, BufferTypeOK
<1>lock. ASSUME LockAndTestFull(p), UNCHANGED <<dataVars, m_bReleased>>,
                UNCHANGED <<shapeVars, m_started, notFull, pslept, cleared>>,
                pval' \in [Producers -> Values \union {None}],
                pval'[p] \in Values,
                \A q \in Producers \ {p} : pval'[q] = pval[q],
                ppc[p] \in {"idle", "waiting"}, p \notin notFull
         PROVE  PushInv'
  <2>1. BufferTypeOK'
    BY <1>lock DEF BufferTypeOK, LockAndTestFull
  <2>2. \A q \in Producers : ppc[q] \notin {"sleep", "ready"}
    BY <1>lock, ProducersAssumption DEF LockAndTestFull, ProducerOwnsLock
  <2>3. ProducerOwnsLock' /\ FullTestStands'
    BY <1>lock, <2>2
    DEF LockAndTestFull, ProducerOwnsLock, FullTestStands, Full, BufferTypeOK
  <2>4. PushState'
    BY <1>lock DEF LockAndTestFull, PushState, BufferTypeOK
  <2>5. StartState' /\ (m_nbNotified <= m_maxSize)'
    BY <1>lock DEF StartState
  <2> QED BY <2>1, <2>3, <2>4, <2>5
<1>1. ASSUME NEW v \in Values, PushCall(p, v) PROVE BufferInv'
  <2>1. p \notin notFull
    BY <1>1 DEF PushCall, PushState
  <2>2. /\ pval' \in [Producers -> Values \union {None}]
        /\ pval'[p] \in Values
        /\ \A q \in Producers \ {p} : pval'[q] = pval[q]
    BY <1>1 DEF PushCall, BufferTypeOK
  <2>3. PushInv'
    <3> HIDE DEF PushInv
    <3> QED BY <1>1, <2>1, <2>2, <1>lock DEF PushCall
  <2> QED BY <1>1, <2>3, PushLeavesMonitor
<1>2. ASSUME PushResume(p) PROVE BufferInv'
  <2>1. /\ pval' \in [Producers -> Values \union {None}]
        /\ pval'[p] \in Values
        /\ \A q \in Producers \ {p} : pval'[q] = pval[q]
    BY <1>2 DEF PushResume, BufferTypeOK, PushState
  <2>2. PushInv'
    <3> HIDE DEF PushInv
    <3> QED BY <1>2, <2>1, <1>lock DEF PushResume
  <2> QED BY <1>2, <2>2, PushLeavesMonitor
<1>3. ASSUME PushSleep(p) PROVE BufferInv'
  <2>1. BufferTypeOK'
    BY <1>3 DEF PushSleep, BufferTypeOK
  <2>2. \A q \in Producers \ {p} : ppc[q] \notin {"sleep", "ready"}
    BY <1>3 DEF PushSleep, ProducerOwnsLock
  <2>3. ProducerOwnsLock' /\ FullTestStands'
    BY <1>3, <2>2, ProducersAssumption
    DEF PushSleep, ProducerOwnsLock, FullTestStands, Full, BufferTypeOK
  <2>4. PushState'
    BY <1>3 DEF PushSleep, PushState, BufferTypeOK
  <2>5. StartState' /\ (m_nbNotified <= m_maxSize)'
    BY <1>3 DEF PushSleep, StartState
  <2> QED BY <1>3, <2>1, <2>3, <2>4, <2>5, PushLeavesMonitor
<1>4. ASSUME PushSpuriousWakeup(p) PROVE BufferInv'
  <2>1. PushInv'
    BY <1>4
    DEF PushSpuriousWakeup, vars, BufferTypeOK, ProducerOwnsLock, PushState,
        FullTestStands, Full, StartState
  <2> QED BY <1>4, <2>1, PushLeavesMonitor
<1>5. ASSUME PushFinish(p) PROVE BufferInv'
  <2>1. \/ UNCHANGED <<m_nbNotified, m_started>>
        \/ /\ m_nbNotified < m_maxSize
           /\ m_nbNotified' = m_nbNotified + 1
           /\ StartOrNotify
    BY <1>5, <1>n
    DEF PushFinish, CountAfterPush, Full, FullTestStands, BufferTypeOK
  <2>2. (m_nbNotified <= m_maxSize)'
    BY <1>5, <1>n, <2>1 DEF PushFinish
  <2>a. ASSUME UNCHANGED <<m_nbNotified, m_started>>
        PROVE  StartState' /\ m_started' \in BOOLEAN
    <3>1. m_started' \in BOOLEAN
      BY <2>a DEF BufferTypeOK
    <3> QED BY <1>5, <2>a, <3>1 DEF PushFinish, StartState
  <2>b. ASSUME m_nbNotified < m_maxSize, m_started, UNCHANGED m_started
        PROVE  StartState' /\ m_started' \in BOOLEAN
    <3>1. m_started' \in BOOLEAN /\ m_started'
      BY <2>b DEF BufferTypeOK
    <3> QED BY <3>1 DEF StartState
  <2>c. ASSUME m_started' = (m_nbNotified' >= m_bufferedStartOffset)
        PROVE  StartState' /\ m_started' \in BOOLEAN
    <3>1. m_nbNotified' \in Nat
      BY <2>1, <1>n
    <3>2. m_bufferedStartOffset' = m_bufferedStartOffset
      BY <1>5 DEF PushFinish
    <3>3. m_started' \in BOOLEAN
      BY <2>c, <3>1, <1>n
    <3>4. ~m_started' => ~(m_nbNotified' >= m_bufferedStartOffset)
      BY <2>c
    <3>5. ~m_started' => m_nbNotified' < m_bufferedStartOffset
      BY <3>1, <3>4, <1>n
    <3> QED BY <3>2, <3>3, <3>5 DEF StartState
  <2>3. StartState' /\ m_started' \in BOOLEAN
    <3> HIDE DEF StartState
    <3> QED BY <2>1, <2>a, <2>b, <2>c DEF StartOrNotify
  <2>4. m_started' \in BOOLEAN
    BY <2>3
  <2>5. BufferTypeOK'
    BY <1>5, <2>4 DEF PushFinish, BufferTypeOK
  <2>6. \A q \in Producers \ {p} : ppc[q] \notin {"sleep", "ready"}
    BY <1>5 DEF PushFinish, ProducerOwnsLock
  <2>7. ProducerOwnsLock' /\ FullTestStands'
    BY <1>5, <2>6, ProducersAssumption
    DEF PushFinish, ProducerOwnsLock, FullTestStands, BufferTypeOK
  <2>8. PushState'
    BY <1>5 DEF PushFinish, PushState, BufferTypeOK
  <2> QED BY <1>5, <2>2, <2>3, <2>5, <2>7, <2>8, PushFinishKeepsMonitor
<1> QED BY <1>1, <1>2, <1>3, <1>4, <1>5 DEF ProducerStep

\* The invariant of the buffer is inductive.
LEMMA InitBufferInv == BInit => BufferInv
<1> SUFFICES ASSUME BInit PROVE BufferInv
  OBVIOUS
<1>1. MonitorInv
  BY InitMonitorInv DEF BInit
<1>2. PICK max, startAt \in 0 .. MaxSizeBound :
        /\ m_maxSize = max
        /\ m_bufferedStartOffset = StartOffset(max, startAt)
        /\ m_started = (startAt = 0)
  BY DEF BInit
<1>3. max \in Nat /\ startAt \in Nat
  BY <1>2, MaxSizeBoundAssumption
<1>4. m_nbNotified = 0 /\ m_mutex = Free
  BY DEF BInit, Init
<1>5. m_bufferedStartOffset \in 0 .. m_maxSize
  BY <1>2, <1>3 DEF StartOffset
<1>6. StartState /\ m_nbNotified <= m_maxSize
  <2>1. m_nbNotified <= m_maxSize
    BY <1>2, <1>3, <1>4
  <2>2. CASE startAt = 0
    BY <1>2, <2>1, <2>2 DEF StartState
  <2>3. CASE startAt # 0
    <3>1. m_bufferedStartOffset > 0 \/ m_maxSize = 0
      BY <1>2, <1>3, <2>3 DEF StartOffset
    <3> QED BY <1>2, <1>3, <1>4, <1>5, <2>1, <3>1 DEF StartState
  <2> QED BY <2>2, <2>3
<1>7. BufferTypeOK
  BY <1>2, <1>3, <1>4, <1>5 DEF BInit, BufferTypeOK
<1>8. ProducerOwnsLock /\ PushState /\ FullTestStands
  BY <1>4, ProducersAssumption
  DEF BInit, ProducerOwnsLock, PushState, FullTestStands
<1> QED BY <1>1, <1>6, <1>7, <1>8 DEF BufferInv, PushInv

\* Each step belongs to one side of the monitor.
LEMMA BufferSteps ==
  ASSUME [BNext]_bvars
  PROVE  \/ InheritedStep
         \/ \E p \in Producers : \/ \E v \in Values : PushCall(p, v)
                                \/ ProducerStep(p) \/ PushSpuriousWakeup(p)
BY DEF BNext, InheritedStep

\* The invariant holds throughout: one owner of the mutex among producers
\* and consumers together, and every test of a full or an empty buffer is
\* still true when the thread that made it acts on it.
THEOREM BufferInvariant == BSpec => []BufferInv
<1>1. BInit => BufferInv
  BY InitBufferInv
<1>2. BufferInv /\ [BNext]_bvars => BufferInv'
  BY BufferSteps, InheritedBufferInv, ProducerBufferInv
<1> QED BY <1>1, <1>2, PTL DEF BSpec

(* The buffer never holds more than max items, and m_nbNotified, which both *)
(* loops test, is their number.                                            *)
THEOREM CapacityKept == BSpec => []WithinCapacity
<1>1. BufferInv => WithinCapacity
  BY DEF BufferInv, PushInv, MonitorInv, CountMatchesData, WithinCapacity
<1> QED BY <1>1, BufferInvariant, PTL

-----------------------------------------------------------------------------
(* Wake-ups of the consumers: what is beyond the start offset is announced. *)

\* The steps of push keep the announcement: below the offset nobody is told,
\* beyond it a push wakes one consumer for the item it adds.
LEMMA ProducerAnnounces ==
  ASSUME BufferInv, AnnouncedBeyondOffset, NEW p \in Producers,
         \/ \E v \in Values : PushCall(p, v)
         \/ ProducerStep(p) \/ PushSpuriousWakeup(p)
  PROVE  AnnouncedBeyondOffset'
<1> USE DEF dataVars, callVars, shapeVars
<1>n. /\ m_nbNotified \in Nat /\ m_maxSize \in Nat
      /\ m_bufferedStartOffset \in Nat
  BY DEF BufferInv, PushInv, MonitorInv, MonitorTypeOK, BufferTypeOK
<1>1. m_bufferedStartOffset' = m_bufferedStartOffset
  BY DEF PushCall, ProducerStep, PushSleep, PushResume, PushFinish,
         PushSpuriousWakeup
<1>2. ASSUME \/ \E v \in Values : PushCall(p, v)
             \/ PushSleep(p) \/ PushResume(p) \/ PushSpuriousWakeup(p)
      PROVE  AnnouncedBeyondOffset'
  <2>1. UNCHANGED <<m_nbNotified, notEmpty, missed, pc, slept>>
    BY <1>2, PushLeavesMonitor
  <2>2. Woken' = Woken
    BY <2>1 DEF Woken
  <2> QED BY <1>1, <2>1, <2>2 DEF AnnouncedBeyondOffset, Announced
<1>3. ASSUME PushFinish(p), notEmpty' # {}, ~missed'
      PROVE  m_nbNotified' <= m_bufferedStartOffset + Cardinality(Woken')
  <2>1. UNCHANGED <<missed, pc, slept>>
    BY <1>3 DEF PushFinish
  <2>2. CASE m_bReleased /\ Full
    <3>1. UNCHANGED <<m_nbNotified, notEmpty>> /\ Woken' = Woken
      BY <1>3, <2>1, <2>2 DEF PushFinish, Woken
    <3> QED BY <1>3, <2>1, <3>1 DEF AnnouncedBeyondOffset, Announced
  <2>3. CASE ~(m_bReleased /\ Full)
    <3>1. m_nbNotified' = m_nbNotified + 1 /\ StartOrNotify
      BY <1>3, <2>3
      DEF PushFinish, CountAfterPush, BufferInv, PushInv, BufferTypeOK
    <3>2. CASE m_started
      <4>1. PICK t \in notEmpty : notEmpty' = notEmpty \ {t}
        BY <1>3, <3>1, <3>2 DEF StartOrNotify, NotifyOne
      <4>2. Woken' = Woken \union {t} /\ t \notin Woken
        BY <2>1, <4>1
        DEF Woken, BufferInv, MonitorInv, CallState, MonitorTypeOK
      <4>3. Cardinality(Woken') = Cardinality(Woken) + 1
        BY <4>2, WokenFinite, FS_AddElement
      <4>4. m_nbNotified <= m_bufferedStartOffset + Cardinality(Woken)
        BY <1>3, <2>1, <4>1 DEF AnnouncedBeyondOffset, Announced
      <4> QED BY <3>1, <4>3, <4>4, <1>n, WokenFinite
    <3>3. CASE ~m_started
      <4>1. m_nbNotified < m_maxSize
        BY <1>3, <2>3, <1>n
        DEF PushFinish, Full, BufferInv, PushInv, FullTestStands
      <4>2. m_nbNotified < m_bufferedStartOffset
        BY <3>3, <4>1, <1>n DEF BufferInv, PushInv, StartState
      <4> QED BY <3>1, <4>2, <1>n, WokenFinite
    <3> QED BY <3>2, <3>3
  <2> QED BY <2>2, <2>3
<1>4. ASSUME PushFinish(p) PROVE AnnouncedBeyondOffset'
  BY <1>1, <1>3, <1>4 DEF AnnouncedBeyondOffset, Announced
<1> QED BY <1>2, <1>4 DEF ProducerStep

\* So do the inherited steps, by the lemma about the fifo.
LEMMA NextAnnouncedBeyondOffset ==
  BufferInv /\ AnnouncedBeyondOffset /\ [BNext]_bvars => AnnouncedBeyondOffset'
<1> SUFFICES ASSUME BufferInv, AnnouncedBeyondOffset, [BNext]_bvars
             PROVE  AnnouncedBeyondOffset'
  OBVIOUS
<1>1. ASSUME InheritedStep PROVE AnnouncedBeyondOffset'
  <2>1. PICK k \in Nat : k = m_bufferedStartOffset
    BY DEF BufferInv, PushInv, BufferTypeOK
  <2>2. [Next]_vars /\ m_bufferedStartOffset' = k
    BY <1>1, <2>1, InheritedIsFifoStep DEF shapeVars
  <2>3. Announced(k)
    BY <2>1 DEF AnnouncedBeyondOffset
  <2>4. Announced(k)'
    BY <2>2, <2>3, NextAnnounced DEF BufferInv
  <2> QED BY <2>2, <2>4 DEF AnnouncedBeyondOffset, Announced
<1> QED BY <1>1, BufferSteps, ProducerAnnounces

-----------------------------------------------------------------------------
(* Wake-ups of the producers: every free slot is somebody's.               *)

(* Woken producers are finitely many, before and after a step.             *)
LEMMA WokenProducersFinite ==
  /\ IsFiniteSet(WokenProducers) /\ Cardinality(WokenProducers) \in Nat
  /\ IsFiniteSet(WokenProducers') /\ Cardinality(WokenProducers') \in Nat
<1>1. WokenProducers \in SUBSET Producers /\ WokenProducers' \in SUBSET Producers
  BY DEF WokenProducers
<1>2. IsFiniteSet(WokenProducers) /\ IsFiniteSet(WokenProducers')
  BY <1>1, ProducersFinite, FS_Subset
<1> QED BY <1>2, FS_CardinalityType

\* No step of a producer takes a slot away from the count without leaving
\* the wake-up that went with it.
LEMMA ProducerNoStrandedSlot ==
  ASSUME BufferInv, NoStrandedSlot, NEW p \in Producers,
         \/ \E v \in Values : PushCall(p, v)
         \/ ProducerStep(p) \/ PushSpuriousWakeup(p)
  PROVE  NoStrandedSlot'
<1> SUFFICES ASSUME notFull' # {}, ~cleared'
             PROVE  m_maxSize' - m_nbNotified' <= Cardinality(WokenProducers')
  BY DEF NoStrandedSlot
<1> USE DEF dataVars, callVars, shapeVars
<1>n. m_nbNotified \in Nat /\ m_maxSize \in Nat
  BY DEF BufferInv, PushInv, MonitorInv, MonitorTypeOK, BufferTypeOK
<1>m. m_maxSize' = m_maxSize /\ cleared' = cleared
  BY DEF PushCall, ProducerStep, PushSleep, PushResume, PushFinish,
         PushSpuriousWakeup
<1>full. ASSUME Full, m_nbNotified' = m_nbNotified
         PROVE  m_maxSize' - m_nbNotified' <= Cardinality(WokenProducers')
  BY <1>full, <1>n, <1>m, WokenProducersFinite DEF Full
<1>same. ASSUME WokenProducers' = WokenProducers, notFull # {},
                m_nbNotified' = m_nbNotified
         PROVE  m_maxSize' - m_nbNotified' <= Cardinality(WokenProducers')
  BY <1>same, <1>m DEF NoStrandedSlot
<1>1. ASSUME NEW v \in Values, PushCall(p, v)
      PROVE  m_maxSize' - m_nbNotified' <= Cardinality(WokenProducers')
  <2>1. WokenProducers' = WokenProducers
    BY <1>1
    DEF PushCall, LockAndTestFull, WokenProducers, BufferInv, PushInv,
        PushState, BufferTypeOK
  <2> QED BY <1>1, <2>1, <1>same DEF PushCall
<1>2. ASSUME PushSleep(p)
      PROVE  m_maxSize' - m_nbNotified' <= Cardinality(WokenProducers')
  BY <1>2, <1>full DEF PushSleep, BufferInv, PushInv, FullTestStands
<1>3. ASSUME PushResume(p)
      PROVE  m_maxSize' - m_nbNotified' <= Cardinality(WokenProducers')
  <2>1. CASE ~m_bReleased /\ Full
    BY <1>3, <2>1, <1>full DEF PushResume
  <2>2. CASE ~(~m_bReleased /\ Full)
    <3>1. WokenProducers' = WokenProducers
      BY <1>3, <2>2
      DEF PushResume, LockAndTestFull, WokenProducers, BufferInv, PushInv,
          PushState, BufferTypeOK
    <3> QED BY <1>3, <3>1, <1>same DEF PushResume
  <2> QED BY <2>1, <2>2
<1>4. ASSUME PushFinish(p)
      PROVE  m_maxSize' - m_nbNotified' <= Cardinality(WokenProducers')
  <2>1. CASE m_bReleased /\ Full
    BY <1>4, <2>1, <1>full DEF PushFinish
  <2>2. CASE ~(m_bReleased /\ Full)
    <3>1. m_nbNotified' = m_nbNotified + 1
      BY <1>4, <2>2
      DEF PushFinish, CountAfterPush, BufferInv, PushInv, BufferTypeOK
    <3>2. WokenProducers' = WokenProducers \ {p}
      BY <1>4
      DEF PushFinish, WokenProducers, BufferInv, PushInv, BufferTypeOK
    <3>3. Cardinality(WokenProducers') >= Cardinality(WokenProducers) - 1
      BY <3>2, WokenProducersFinite, FS_RemoveElement
    <3>4. m_maxSize - m_nbNotified <= Cardinality(WokenProducers)
      BY <1>4, <1>m DEF PushFinish, NoStrandedSlot
    <3> QED BY <3>1, <3>3, <3>4, <1>n, <1>m, WokenProducersFinite
  <2> QED BY <2>1, <2>2
<1>5. ASSUME PushSpuriousWakeup(p)
      PROVE  m_maxSize' - m_nbNotified' <= Cardinality(WokenProducers')
  <2>1. WokenProducers' = WokenProducers \union {p} /\ p \notin WokenProducers
    BY <1>5
    DEF PushSpuriousWakeup, WokenProducers, BufferInv, PushInv, PushState,
        BufferTypeOK
  <2>2. Cardinality(WokenProducers') = Cardinality(WokenProducers) + 1
    BY <2>1, WokenProducersFinite, FS_AddElement
  <2>3. m_nbNotified' = m_nbNotified /\ notFull # {}
    BY <1>5 DEF PushSpuriousWakeup, vars
  <2>4. m_maxSize - m_nbNotified <= Cardinality(WokenProducers)
    BY <2>3, <1>m DEF NoStrandedSlot
  <2> QED BY <2>2, <2>3, <2>4, <1>n, <1>m, WokenProducersFinite
<1> QED BY <1>1, <1>2, <1>3, <1>4, <1>5 DEF ProducerStep

\* An item that leaves the buffer wakes a producer for its slot.
LEMMA InheritedNoStrandedSlot ==
  ASSUME BufferInv, NoStrandedSlot, InheritedStep
  PROVE  NoStrandedSlot'
<1> SUFFICES ASSUME notFull' # {}, ~cleared'
             PROVE  m_maxSize' - m_nbNotified' <= Cardinality(WokenProducers')
  BY DEF NoStrandedSlot
<1> USE DEF dataVars, callVars, shapeVars, bufferVars, pushVars
<1>n. m_nbNotified \in Nat /\ m_maxSize \in Nat
  BY DEF BufferInv, PushInv, MonitorInv, MonitorTypeOK, BufferTypeOK
<1>m. m_maxSize' = m_maxSize /\ UNCHANGED <<ppc, pslept>>
  BY InheritedIsFifoStep
<1>same. ASSUME UNCHANGED <<m_nbNotified, notFull, cleared>>
         PROVE  m_maxSize' - m_nbNotified' <= Cardinality(WokenProducers')
  <2>1. WokenProducers' = WokenProducers
    BY <1>same, <1>m DEF WokenProducers
  <2> QED BY <1>same, <1>m, <2>1 DEF NoStrandedSlot
<1>pop. ASSUME NotifyNotFull, cleared' = cleared,
               m_nbNotified' = m_nbNotified \/ m_nbNotified' = m_nbNotified - 1
        PROVE  m_maxSize' - m_nbNotified' <= Cardinality(WokenProducers')
  <2>1. CASE m_nbNotified' = m_nbNotified
    BY <1>pop, <1>same, <1>n, <2>1 DEF NotifyNotFull
  <2>2. CASE m_nbNotified' = m_nbNotified - 1
    <3>1. PICK t \in notFull : notFull' = notFull \ {t}
      BY <1>pop, <1>n, <2>2 DEF NotifyNotFull, NotifyOne
    <3>2. WokenProducers' = WokenProducers \union {t} /\ t \notin WokenProducers
      BY <1>m, <3>1
      DEF WokenProducers, BufferInv, PushInv, PushState, BufferTypeOK
    <3>3. Cardinality(WokenProducers') = Cardinality(WokenProducers) + 1
      BY <3>2, WokenProducersFinite, FS_AddElement
    <3>4. m_maxSize - m_nbNotified <= Cardinality(WokenProducers)
      BY <1>pop, <3>1 DEF NoStrandedSlot
    <3> QED BY <2>2, <3>3, <3>4, <1>n, <1>m, WokenProducersFinite
  <2> QED BY <1>pop, <2>1, <2>2
<1>1. ASSUME NEW c \in Consumers, BFinishPop(c)
      PROVE  m_maxSize' - m_nbNotified' <= Cardinality(WokenProducers')
  BY <1>1, <1>pop DEF BFinishPop, FinishPop, NoItem, DoPop
<1>2. ASSUME NEW c \in Consumers, BTryPop(c)
      PROVE  m_maxSize' - m_nbNotified' <= Cardinality(WokenProducers')
  BY <1>2, <1>pop DEF BTryPop, TryPop, NoItem, DoPop
<1>3. ASSUME NEW c \in Consumers,
             Inherited(c) \/ BTimeout(c) \/ BSpuriousWakeup(c)
      PROVE  m_maxSize' - m_nbNotified' <= Cardinality(WokenProducers')
  BY <1>3, <1>same
  DEF Inherited, BTimeout, BSpuriousWakeup, Call, Sleep, Resume, FinishBack,
      Leave, Timeout, SpuriousWakeup
<1>4. ASSUME (\E f \in Finalizers : BRelease(f)) \/ BReleaseSeen
      PROVE  m_maxSize' - m_nbNotified' <= Cardinality(WokenProducers')
  BY <1>4, <1>same DEF BRelease, BReleaseSeen, ReleaseFlag, ReleaseNotify, ReleaseSeen
<1>5. ASSUME UNCHANGED bvars
      PROVE  m_maxSize' - m_nbNotified' <= Cardinality(WokenProducers')
  BY <1>5, <1>same DEF bvars, vars
<1>6. ~BClear
  BY DEF BClear
<1> QED
  BY <1>1, <1>2, <1>3, <1>4, <1>5, <1>6 DEF InheritedStep, BConsumerStep

(* While producers sleep, every free slot has a woken producer of its own, *)
(* as long as nobody calls clear(), which makes room and wakes nobody.     *)
THEOREM EverySlotIsAnnounced == BSpec => []NoStrandedSlot
<1>1. BInit => NoStrandedSlot
  BY DEF BInit, NoStrandedSlot
<1>2. BufferInv /\ NoStrandedSlot /\ [BNext]_bvars => NoStrandedSlot'
  BY BufferSteps, ProducerNoStrandedSlot, InheritedNoStrandedSlot
<1> QED BY <1>1, <1>2, BufferInvariant, PTL DEF BSpec

(* Consumers and producers of one buffer all sleep, with nobody on the way, *)
(* only when the start offset is the whole capacity (or after a back() or  *)
(* a clear() that took the notification, or the need for it, away).        *)
THEOREM OnlyFullOffsetDeadlocks == BSpec => []DeadlockOnlyAtFullOffset
<1>1. BInit => AnnouncedBeyondOffset
  BY DEF BInit, Init, AnnouncedBeyondOffset, Announced
<1>2. BufferInv /\ AnnouncedBeyondOffset /\ NoStrandedSlot
        => DeadlockOnlyAtFullOffset
  <2> SUFFICES ASSUME BufferInv, AnnouncedBeyondOffset, NoStrandedSlot,
                      EveryoneAsleep, ~missed, ~cleared
               PROVE  m_bufferedStartOffset = m_maxSize
    BY DEF DeadlockOnlyAtFullOffset
  <2>1. Cardinality(Woken) = 0 /\ Cardinality(WokenProducers) = 0
    BY FS_EmptySet DEF EveryoneAsleep
  <2>2. /\ m_nbNotified \in Nat /\ m_maxSize \in Nat
        /\ m_bufferedStartOffset \in 0 .. m_maxSize
    BY DEF BufferInv, PushInv, MonitorInv, MonitorTypeOK, BufferTypeOK
  <2>3. m_nbNotified <= m_bufferedStartOffset
    BY <2>1, <2>2 DEF EveryoneAsleep, AnnouncedBeyondOffset, Announced
  <2>4. m_maxSize - m_nbNotified <= 0
    BY <2>1 DEF EveryoneAsleep, NoStrandedSlot
  <2> QED BY <2>2, <2>3, <2>4
<1> QED
  BY <1>1, <1>2, NextAnnouncedBeyondOffset, BufferInvariant,
     EverySlotIsAnnounced, PTL DEF BSpec

-----------------------------------------------------------------------------
(* Refinement: the buffer, too, is the queue its callers are promised.     *)

\* A push that goes through inserts its item at one instant, one that throws
\* changes nothing.
LEMMA ProducerImplementsContract ==
  ASSUME BufferInv, NEW p \in Producers,
         \/ \E v \in Values : PushCall(p, v)
         \/ ProducerStep(p) \/ PushSpuriousWakeup(p)
  PROVE  [Contract!Next]_(Contract!vars)
<1> USE DEF dataVars, callVars
<1>1. ASSUME PushFinish(p), ~(m_bReleased /\ Full)
      PROVE  Contract!Next
  <2>1. pval[p] \in Values
    BY <1>1 DEF PushFinish, BufferInv, PushInv, PushState
  <2>2. Contract!Put(pval[p])
    BY <1>1 DEF PushFinish, Insert, Contract!Put
  <2> QED BY <2>1, <2>2 DEF Contract!Next
<1>2. ASSUME PushFinish(p), m_bReleased /\ Full
      PROVE  UNCHANGED Contract!vars
  BY <1>2 DEF PushFinish, Contract!vars
<1>3. ASSUME \/ \E v \in Values : PushCall(p, v)
             \/ PushSleep(p) \/ PushResume(p) \/ PushSpuriousWakeup(p)
      PROVE  UNCHANGED Contract!vars
  BY <1>3, PushLeavesMonitor DEF Contract!vars
<1> QED BY <1>1, <1>2, <1>3 DEF ProducerStep

(* Every behaviour of the bounded queue is one of the abstract queue: the  *)
(* order, and no item lost or handed out twice, whoever waits for room.    *)
THEOREM BufferRefinement == BSpec => ImplementsContract
<1>1. BInit => Contract!Init
  BY DEF BInit, Init, NoCall, Contract!Init
<1>2. BufferInv /\ [BNext]_bvars => [Contract!Next]_(Contract!vars)
  BY BufferSteps, InheritedIsFifoStep, StepImplementsContract,
     ProducerImplementsContract DEF BufferInv
<1> QED
  BY <1>1, <1>2, BufferInvariant, PTL
  DEF BSpec, ImplementsContract, Contract!Spec
=============================================================================
