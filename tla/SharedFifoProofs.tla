--------------------------- MODULE SharedFifoProofs ---------------------------
(***************************************************************************)
(* The safety properties of SharedFifo, for any number of threads, items,  *)
(* pushes and releases.  The lemmas about the steps of the monitor do not  *)
(* ask whose the mutex may be: SharedBuffer, whose producers lock it too,  *)
(* inherits the operations and, with them, the lemmas.                     *)
(***************************************************************************)
EXTENDS SharedFifo, FiniteSetTheorems, SequenceTheorems, TLAPS

(* The mutex belongs to the one thread that is inside a critical section.  *)
LockOwner == \A c \in Consumers : pc[c] \in {"sleep", "ready"} <=> m_mutex = c

(* What the locals of a call say about where the call is.                  *)
CallState ==
  \A c \in Consumers :
    /\ c \in notEmpty => pc[c] = "waiting"
    /\ pc[c] = "waiting" => slept[c]
    /\ pc[c] = "idle" => ~slept[c] /\ status[c] = "no_timeout"
    /\ status[c] = "timeout" => call[c] = "timedPop"
    /\ call[c] = "tryPop" => pc[c] = "idle"

(* What the test of the loop found is still true when the call goes on.    *)
TestStands ==
  \A c \in Consumers :
    /\ pc[c] = "sleep" => m_nbNotified = 0
    /\ pc[c] = "ready" =>
         m_nbNotified # 0 \/ m_bReleased \/ status[c] = "timeout"

(* A release whose notification was not early came when the flag could be  *)
(* read, and left at most one thread asleep or about to be.                *)
Dormant == notEmpty \union {c \in Consumers : pc[c] = "sleep"}

ReleaseState ==
  \A f \in Finalizers :
    /\ fpc[f] = "done" => m_bReleased
    /\ fpc[f] = "done" => \A c, d \in Dormant : c = d

(* TypeOK, but for the owner of the mutex.                                 *)
MonitorTypeOK ==
  /\ class \in Classes
  /\ m_data \in Seq(Values)
  /\ m_nbNotified \in Nat
  /\ m_bReleased \in BOOLEAN
  /\ notEmpty \in SUBSET Consumers
  /\ pc \in [Consumers -> {"idle", "sleep", "waiting", "ready"}]
  /\ call \in [Consumers -> Ops]
  /\ status \in [Consumers -> {"no_timeout", "timeout"}]
  /\ slept \in [Consumers -> BOOLEAN]
  /\ returned \in [by : Consumers \union {None}, op : Ops \union {None},
                  val : Values \union {None}, ok : BOOLEAN]
  /\ fpc \in [Finalizers -> {"idle", "flagged", "early", "done"}]
  /\ pushesLeft \in Nat
  /\ missed \in BOOLEAN

MonitorInv ==
  MonitorTypeOK /\ CountMatchesData /\ LockOwner /\ CallState /\ TestStands

LockInv == MonitorInv /\ m_mutex \in Consumers \union {Free}

-----------------------------------------------------------------------------
(* The types and the lock invariant are inductive together.                *)

\* A new queue satisfies the monitor invariant: nobody is in a call.
LEMMA InitMonitorInv == Init => MonitorInv
<1> SUFFICES ASSUME Init PROVE MonitorInv
  OBVIOUS
<1>1. m_data \in Seq(Values) /\ CountMatchesData
  BY DEF Init, CountMatchesData
<1>2. returned \in [by : Consumers \union {None}, op : Ops \union {None},
                   val : Values \union {None}, ok : BOOLEAN]
  BY DEF Init, NoCall
<1>3. MonitorTypeOK
  BY <1>1, <1>2, PushBoundAssumption DEF Init, MonitorTypeOK, Ops, Peeks
<1>4. LockOwner /\ CallState /\ TestStands
  BY FreeIsNoThread DEF Init, LockOwner, CallState, TestStands
<1> QED BY <1>1, <1>3, <1>4 DEF MonitorInv

(* Removing the next item of a nonempty queue leaves a shorter queue.      *)
LEMMA RemainingType ==
  ASSUME NEW data \in Seq(Values), data # <<>>
  PROVE  /\ Remaining(data) \in Seq(Values)
         /\ Len(Remaining(data)) = Len(data) - 1
         /\ NextItem(data) \in Values
<1>1. Len(data) \in Nat \ {0}
  OBVIOUS
<1>2. CASE class = "SharedFifo"
  BY <1>1, <1>2 DEF Remaining, NextItem
<1>3. CASE class # "SharedFifo"
  <2>1. \A i \in 1 .. Len(data) - 1 : data[i] \in Values
    BY <1>1
  <2>2. /\ SubSeq(data, 1, Len(data) - 1) \in Seq(Values)
        /\ Len(SubSeq(data, 1, Len(data) - 1)) = Len(data) - 1
    <3> DEFINE n == Len(data) - 1
    <3>1. n \in Int /\ n >= 0
      BY <1>1
    <3>2. /\ SubSeq(data, 1, n) \in Seq(Values)
          /\ Len(SubSeq(data, 1, n)) = IF 1 <= n THEN n - 1 + 1 ELSE 0
      <4> HIDE DEF n
      <4>1. \A i \in 1 .. n : data[i] \in Values
        BY <2>1 DEF n
      <4> QED BY <3>1, <4>1, SubSeqProperties
    <3>3. Len(SubSeq(data, 1, n)) = n
      <4> HIDE DEF n
      <4> QED BY <3>1, <3>2
    <3> QED BY <3>2, <3>3, Zenon
  <2>3. data[Len(data)] \in Values
    BY <1>1
  <2> QED BY <1>3, <2>2, <2>3 DEF Remaining, NextItem
<1> QED BY <1>2, <1>3

(* Inserting an item keeps the count in step with the queue.               *)
LEMMA InsertType ==
  ASSUME MonitorInv, NEW v \in Values
  PROVE  /\ Insert(m_data, v) \in Seq(Values)
         /\ CountAfterPush = Len(Insert(m_data, v))
         /\ CountAfterPush \in Nat \ {0}
  BY DEF Insert, CountAfterPush, MonitorInv, CountMatchesData, MonitorTypeOK

\* What a call of a pop does to the queue and answers: an item, or none.
LEMMA PopTypes ==
  ASSUME MonitorInv, NEW c \in Consumers, NEW op \in Ops,
         DoPop(c, op) \/ NoItem(c, op)
  PROVE  /\ m_data' \in Seq(Values)
         /\ m_nbNotified' = Len(m_data')
         /\ m_nbNotified' \in Nat
         /\ returned' \in [by : Consumers \union {None}, op : Ops \union {None},
                          val : Values \union {None}, ok : BOOLEAN]
<1> USE DEF MonitorInv, MonitorTypeOK, CountMatchesData, Returns
<1>1. CASE DoPop(c, op)
  <2>1. /\ Remaining(m_data) \in Seq(Values)
        /\ Len(Remaining(m_data)) = Len(m_data) - 1
        /\ NextItem(m_data) \in Values
    BY <1>1, RemainingType DEF DoPop
  <2>2. Len(m_data) \in Nat \ {0}
    BY <1>1 DEF DoPop
  <2> QED BY <1>1, <2>1, <2>2 DEF DoPop
<1>2. CASE NoItem(c, op)
  BY <1>2 DEF NoItem, dataVars
<1> QED BY <1>1, <1>2

\* No step of push, pop, back, release or clear breaks the monitor invariant.
LEMMA NextMonitorInv == MonitorInv /\ [Next]_vars => MonitorInv'
<1> SUFFICES ASSUME MonitorInv, [Next]_vars PROVE MonitorInv'
  OBVIOUS
<1> USE DEF MonitorInv, dataVars, callVars
<1>1. ASSUME NEW v \in Values, Push(v) PROVE MonitorInv'
  <2>1. /\ m_data' \in Seq(Values)
        /\ m_nbNotified' = Len(m_data')
        /\ m_nbNotified' \in Nat \ {0}
    BY <1>1, InsertType DEF Push
  <2>2. notEmpty' \subseteq notEmpty
    BY <1>1 DEF Push, NotifyOne
  <2>3. MonitorTypeOK' /\ CountMatchesData'
    BY <1>1, <2>1, <2>2 DEF Push, MonitorTypeOK, CountMatchesData
  <2>4. LockOwner' /\ CallState' /\ TestStands'
    BY <1>1, <2>1, <2>2, FreeIsNoThread
    DEF Push, LockOwner, CallState, TestStands, MonitorTypeOK
  <2> QED BY <2>3, <2>4
<1>2. ASSUME NEW c \in Consumers, NEW op \in Ops, Call(c, op) PROVE MonitorInv'
  <2>1. MonitorTypeOK' /\ CountMatchesData'
    BY <1>2 DEF Call, LockAndTest, MonitorTypeOK, CountMatchesData
  <2>2. LockOwner'
    BY <1>2, FreeIsNoThread DEF Call, LockAndTest, MonitorTypeOK, LockOwner
  <2>3. CallState' /\ TestStands'
    BY <1>2, FreeIsNoThread
    DEF Call, LockAndTest, MustWait, MonitorTypeOK, LockOwner, CallState, TestStands
  <2> QED BY <2>1, <2>2, <2>3
<1>3. ASSUME NEW c \in Consumers, Sleep(c) PROVE MonitorInv'
  <2>1. MonitorTypeOK' /\ CountMatchesData'
    BY <1>3 DEF Sleep, MonitorTypeOK, CountMatchesData
  <2>2. LockOwner' /\ CallState' /\ TestStands'
    BY <1>3, FreeIsNoThread
    DEF Sleep, MonitorTypeOK, LockOwner, CallState, TestStands
  <2> QED BY <2>1, <2>2
<1>4. ASSUME NEW c \in Consumers, SpuriousWakeup(c) PROVE MonitorInv'
  BY <1>4
  DEF SpuriousWakeup, MonitorTypeOK, CountMatchesData, LockOwner, CallState,
      TestStands
<1>5. ASSUME NEW c \in Consumers, Timeout(c) PROVE MonitorInv'
  BY <1>5
  DEF Timeout, MonitorTypeOK, CountMatchesData, LockOwner, CallState, TestStands
<1>6. ASSUME NEW c \in Consumers, Resume(c) PROVE MonitorInv'
  <2>1. MonitorTypeOK' /\ CountMatchesData'
    BY <1>6 DEF Resume, LockAndTest, MonitorTypeOK, CountMatchesData
  <2>2. LockOwner' /\ CallState' /\ TestStands'
    BY <1>6, FreeIsNoThread
    DEF Resume, LockAndTest, MustWait, MonitorTypeOK, LockOwner, CallState, TestStands
  <2> QED BY <2>1, <2>2
<1>7. ASSUME NEW c \in Consumers, FinishPop(c) PROVE MonitorInv'
  <2>1. /\ m_data' \in Seq(Values)
        /\ m_nbNotified' = Len(m_data')
        /\ m_nbNotified' \in Nat
        /\ returned' \in [by : Consumers \union {None},
                          op : Ops \union {None}, val : Values \union {None}, ok : BOOLEAN]
    BY <1>7, PopTypes DEF FinishPop, Ops
  <2>2. MonitorTypeOK' /\ CountMatchesData'
    BY <1>7, <2>1
    DEF FinishPop, Leave, DoPop, NoItem, MonitorTypeOK, CountMatchesData, Ops
  <2>3. \A d \in Consumers \ {c} : pc[d] \notin {"sleep", "ready"}
    BY <1>7 DEF FinishPop, Leave, LockOwner
  <2>4. LockOwner' /\ CallState' /\ TestStands'
    BY <1>7, <2>3, FreeIsNoThread
    DEF FinishPop, Leave, MonitorTypeOK, LockOwner, CallState, TestStands, Ops
  <2> QED BY <2>2, <2>4
<1>8. ASSUME NEW c \in Consumers, FinishBack(c) PROVE MonitorInv'
  <2>1. m_nbNotified # 0 => Head(m_data) \in Values
    BY DEF MonitorTypeOK, CountMatchesData
  <2>a. \A found \in BOOLEAN : BackAnswers(c, found) \in BOOLEAN
    BY DEF BackAnswers, MonitorTypeOK
  <2>r. returned' \in [by : Consumers \union {None},
                      op : Ops \union {None}, val : Values \union {None}, ok : BOOLEAN]
    BY <1>8, <2>1, <2>a DEF FinishBack, Returns, Ops
  <2>2. MonitorTypeOK' /\ CountMatchesData'
    BY <1>8, <2>r DEF FinishBack, Leave, MonitorTypeOK, CountMatchesData, Ops
  <2>3. \A d \in Consumers \ {c} : pc[d] \notin {"sleep", "ready"}
    BY <1>8 DEF FinishBack, Leave, LockOwner
  <2>4. LockOwner' /\ CallState' /\ TestStands'
    BY <1>8, <2>3, FreeIsNoThread
    DEF FinishBack, Leave, MonitorTypeOK, LockOwner, CallState, TestStands
  <2> QED BY <2>2, <2>4
<1>9. ASSUME NEW c \in Consumers, TryPop(c) PROVE MonitorInv'
  <2>1. /\ m_data' \in Seq(Values)
        /\ m_nbNotified' = Len(m_data')
        /\ m_nbNotified' \in Nat
        /\ returned' \in [by : Consumers \union {None},
                          op : Ops \union {None}, val : Values \union {None}, ok : BOOLEAN]
    BY <1>9, PopTypes DEF TryPop, Ops
  <2>2. MonitorTypeOK' /\ CountMatchesData'
    BY <1>9, <2>1 DEF TryPop, DoPop, NoItem, MonitorTypeOK, CountMatchesData
  <2>3. LockOwner' /\ CallState'
    BY <1>9 DEF TryPop, LockOwner, CallState
  <2>4. TestStands'
    BY <1>9, FreeIsNoThread
    DEF TryPop, NoItem, DoPop, LockOwner, TestStands
  <2> QED BY <2>2, <2>3, <2>4
<1>10. ASSUME NEW f \in Finalizers, ReleaseFlag(f) PROVE MonitorInv'
  BY <1>10
  DEF ReleaseFlag, MonitorTypeOK, CountMatchesData, LockOwner, CallState, TestStands
<1>11. ASSUME NEW f \in Finalizers, ReleaseNotify(f) PROVE MonitorInv'
  BY <1>11
  DEF ReleaseNotify, MonitorTypeOK, CountMatchesData, LockOwner, CallState, TestStands
<1>14. ASSUME ReleaseSeen PROVE MonitorInv'
  BY <1>14
  DEF ReleaseSeen, MonitorTypeOK, CountMatchesData, LockOwner, CallState, TestStands
<1>12. ASSUME Clear PROVE MonitorInv'
  BY <1>12
  DEF Clear, Quiescent, MonitorTypeOK, CountMatchesData, LockOwner, CallState,
      TestStands
<1>13. ASSUME UNCHANGED vars PROVE MonitorInv'
  BY <1>13
  DEF vars, MonitorTypeOK, CountMatchesData, LockOwner, CallState, TestStands
<1> QED
  BY <1>1, <1>2, <1>3, <1>4, <1>5, <1>6, <1>7, <1>8, <1>9, <1>10, <1>11,
     <1>12, <1>13, <1>14
  DEF Next, ConsumerStep

\* Where the mutex moves, it moves between a thread of the queue and nobody.
LEMMA MutexMoves ==
  ASSUME MonitorInv, [Next]_vars
  PROVE  m_mutex' = m_mutex \/ {m_mutex, m_mutex'} \subseteq Consumers \union {Free}
<1> USE DEF dataVars, callVars
<1>1. ASSUME NEW c \in Consumers, ConsumerStep(c)
      PROVE  \/ m_mutex' = m_mutex
             \/ {m_mutex, m_mutex'} \subseteq Consumers \union {Free}
  <2>1. CASE \E op \in Ops : Call(c, op)
    BY <2>1 DEF Call, LockAndTest
  <2>2. CASE Resume(c)
    BY <2>2 DEF Resume, LockAndTest
  <2>3. CASE Sleep(c)
    BY <2>3 DEF Sleep, MonitorInv, LockOwner
  <2>4. CASE FinishPop(c) \/ FinishBack(c)
    BY <2>4 DEF FinishPop, FinishBack, Leave, MonitorInv, LockOwner
  <2>5. CASE TryPop(c)
    BY <2>5 DEF TryPop
  <2> QED BY <1>1, <2>1, <2>2, <2>3, <2>4, <2>5 DEF ConsumerStep
<1> QED
  BY <1>1
  DEF Next, Push, SpuriousWakeup, Timeout, ReleaseFlag, ReleaseNotify, ReleaseSeen,
      Clear, vars

\* The lock invariant holds throughout: the mutex has the owner that pc says,
\* and a thread past its loop has found an item or a reason to give up.
THEOREM LockInvariant == Spec => []LockInv
<1>1. Init => LockInv
  BY InitMonitorInv DEF LockInv, Init
<1>2. LockInv /\ [Next]_vars => LockInv'
  BY NextMonitorInv, MutexMoves DEF LockInv
<1> QED BY <1>1, <1>2, PTL DEF Spec

(* The type invariant and the count, for every instance.                   *)
THEOREM TypeCorrect == Spec => []TypeOK
<1>1. LockInv => TypeOK
  BY DEF LockInv, MonitorInv, MonitorTypeOK, TypeOK
<1> QED BY <1>1, LockInvariant, PTL

(* m_nbNotified counts the items of m_data in every reachable state.       *)
THEOREM CountCorrect == Spec => []CountMatchesData
<1>1. LockInv => CountMatchesData
  BY DEF LockInv, MonitorInv
<1> QED BY <1>1, LockInvariant, PTL

(* No call of doPop meets an empty deque, however release interleaves.     *)
THEOREM PopsAreSafe == Spec => []NeverPopsEmpty
<1>1. MonitorInv => NeverPopsEmpty
  BY DEF MonitorInv, MonitorTypeOK, CountMatchesData, CallState, TestStands,
         NeverPopsEmpty, GivesUp
<1> QED BY <1>1, LockInvariant, PTL DEF LockInv

-----------------------------------------------------------------------------
(* release(): at most one thread misses it.                                *)

\* A finished release() stays finished and its flag stays set, and no step
\* of a consumer lets a second one miss it.
LEMMA NextReleaseState ==
  MonitorInv /\ ReleaseState /\ [Next]_vars => ReleaseState'
<1> SUFFICES ASSUME MonitorInv, ReleaseState, [Next]_vars PROVE ReleaseState'
  OBVIOUS
<1> USE DEF dataVars, callVars
<1>1. ASSUME NEW c \in Consumers, LockAndTest(c, status[c]) \/ LockAndTest(c, "no_timeout"),
             UNCHANGED <<m_bReleased, notEmpty, fpc>>
      PROVE  ReleaseState'
  <2>1. m_bReleased => Dormant' = Dormant
    BY <1>1, FreeIsNoThread
    DEF LockAndTest, MustWait, Dormant, MonitorInv, LockOwner, MonitorTypeOK
  <2> QED BY <1>1, <2>1 DEF ReleaseState
<1>2. ASSUME NEW c \in Consumers, Sleep(c) PROVE ReleaseState'
  <2>1. Dormant' = Dormant
    BY <1>2 DEF Sleep, Dormant, MonitorInv, MonitorTypeOK
  <2> QED BY <1>2, <2>1 DEF ReleaseState, Sleep
<1>3. ASSUME Dormant' \subseteq Dormant, UNCHANGED <<m_bReleased, fpc>>
      PROVE  ReleaseState'
  BY <1>3 DEF ReleaseState
<1>4. ASSUME NEW v \in Values, Push(v) PROVE ReleaseState'
  BY <1>4, <1>3 DEF Push, NotifyOne, Dormant
<1>5. ASSUME NEW c \in Consumers, Leave(c) PROVE ReleaseState'
  BY <1>5, <1>3 DEF Leave, Dormant, MonitorInv, MonitorTypeOK
<1>6. ASSUME NEW c \in Consumers, SpuriousWakeup(c) \/ Timeout(c) \/ TryPop(c)
      PROVE  ReleaseState'
  BY <1>6, <1>3 DEF SpuriousWakeup, Timeout, TryPop, Dormant
<1>7. ASSUME NEW f \in Finalizers, ReleaseFlag(f) PROVE ReleaseState'
  BY <1>7 DEF ReleaseFlag, ReleaseState, Dormant, MonitorInv, MonitorTypeOK
<1>8. ASSUME NEW f \in Finalizers, ReleaseNotify(f) PROVE ReleaseState'
  <2>1. Dormant' \subseteq {m_mutex}
    BY <1>8 DEF ReleaseNotify, Dormant, MonitorInv, LockOwner
  <2>2. UNCHANGED m_bReleased
    BY <1>8 DEF ReleaseNotify
  <2>3. CASE m_bReleased
    BY <2>1, <2>2, <2>3 DEF ReleaseState
  <2>4. CASE ~m_bReleased
    <3>1. \A g \in Finalizers : fpc'[g] # "done"
      BY <1>8, <2>4 DEF ReleaseNotify, ReleaseState, MonitorInv, MonitorTypeOK
    <3> QED BY <3>1 DEF ReleaseState
  <2> QED BY <2>3, <2>4
<1>9. ASSUME Clear PROVE ReleaseState'
  BY <1>9, <1>3 DEF Clear, Dormant
<1>10. ASSUME UNCHANGED vars PROVE ReleaseState'
  BY <1>10, <1>3 DEF vars, Dormant
<1>11. ASSUME ReleaseSeen PROVE ReleaseState'
  BY <1>11 DEF ReleaseSeen, ReleaseState, Dormant
<1> QED
  BY <1>1, <1>2, <1>4, <1>5, <1>6, <1>7, <1>8, <1>9, <1>10, <1>11
  DEF Next, ConsumerStep, Call, Resume, FinishPop, FinishBack

(* A release() that notifies when its flag can be read leaves at most one  *)
(* consumer asleep: the one whose test and wait it fell between.           *)
THEOREM SeenReleaseIsMissedByAtMostOne == Spec => []SeenReleaseMissesAtMostOne
<1>1. Init => ReleaseState
  BY DEF Init, ReleaseState
<1>2. MonitorInv /\ ReleaseState => SeenReleaseMissesAtMostOne
  <2> SUFFICES ASSUME MonitorInv, ReleaseState,
                      NEW f \in Finalizers, fpc[f] = "done"
               PROVE  Cardinality(Dormant) <= 1
    BY DEF SeenReleaseMissesAtMostOne, Dormant
  <2>1. \A c, d \in Dormant : c = d
    BY DEF ReleaseState
  <2>2. CASE Dormant = {}
    BY <2>2, FS_EmptySet
  <2>3. CASE Dormant # {}
    <3>1. PICK c \in Dormant : Dormant = {c}
      BY <2>1, <2>3
    <3>2. Cardinality({c}) = 1
      BY FS_Singleton
    <3> QED BY <3>1, <3>2
  <2> QED BY <2>2, <2>3
<1> QED BY <1>1, <1>2, LockInvariant, NextReleaseState, PTL DEF Spec, LockInv

-----------------------------------------------------------------------------
(* Wake-ups: every item is somebody's.                                     *)

(* Woken is finite, and loses at most one member when a thread leaves it.  *)
LEMMA WokenFinite ==
  /\ IsFiniteSet(Woken) /\ Cardinality(Woken) \in Nat
  /\ IsFiniteSet(Woken') /\ Cardinality(Woken') \in Nat
<1>1. Woken \in SUBSET Consumers /\ Woken' \in SUBSET Consumers
  BY DEF Woken
<1>2. IsFiniteSet(Woken) /\ IsFiniteSet(Woken')
  BY <1>1, ConsumersFinite, FS_Subset
<1> QED BY <1>2, FS_CardinalityType

(* While consumers sleep, every item but k of them has a woken consumer.   *)
Announced(k) ==
  notEmpty # {} /\ ~missed => m_nbNotified <= k + Cardinality(Woken)

\* No step leaves one more item beside a sleeper without a woken consumer
\* for it.
LEMMA NextAnnounced ==
  ASSUME NEW k \in Nat, MonitorInv, Announced(k), [Next]_vars
  PROVE  Announced(k)'
<1> SUFFICES ASSUME notEmpty' # {}, ~missed'
             PROVE  m_nbNotified' <= k + Cardinality(Woken')
  BY DEF Announced
<1> USE DEF dataVars, callVars
<1>n. m_nbNotified \in Nat /\ missed \in BOOLEAN
  BY DEF MonitorInv, MonitorTypeOK
<1>0. ASSUME m_nbNotified' = 0 PROVE m_nbNotified' <= k + Cardinality(Woken')
  BY <1>0, WokenFinite
<1>same. ASSUME Woken' = Woken, notEmpty # {}, ~missed,
                m_nbNotified' \in Nat, m_nbNotified' <= m_nbNotified
         PROVE  m_nbNotified' <= k + Cardinality(Woken')
  BY <1>same, <1>n, WokenFinite DEF Announced
<1>add. ASSUME NEW t, Woken' = Woken \union {t}, t \notin Woken,
               notEmpty # {}, ~missed,
               m_nbNotified' \in Nat, m_nbNotified' <= m_nbNotified + 1
        PROVE  m_nbNotified' <= k + Cardinality(Woken')
  <2>1. Cardinality(Woken') = Cardinality(Woken) + 1
    BY <1>add, WokenFinite, FS_AddElement
  <2> QED BY <1>add, <2>1, <1>n, WokenFinite DEF Announced
<1>1. ASSUME NEW v \in Values, Push(v)
      PROVE  m_nbNotified' <= k + Cardinality(Woken')
  <2>1. PICK t \in notEmpty : notEmpty' = notEmpty \ {t}
    BY <1>1 DEF Push, NotifyOne
  <2>2. Woken' = Woken \union {t} /\ t \notin Woken
    BY <1>1, <2>1 DEF Push, Woken, MonitorInv, CallState, MonitorTypeOK
  <2>3. m_nbNotified' \in Nat /\ m_nbNotified' <= m_nbNotified + 1
    BY <1>1, <1>n DEF Push, CountAfterPush
  <2>4. notEmpty # {} /\ ~missed
    BY <1>1, <2>1 DEF Push
  <2> QED BY <2>2, <2>3, <2>4, <1>add
<1>2. ASSUME NEW c \in Consumers, NEW op \in Ops, Call(c, op)
      PROVE  m_nbNotified' <= k + Cardinality(Woken')
  <2>1. Woken' = Woken
    BY <1>2 DEF Call, LockAndTest, Woken, MonitorInv, CallState, MonitorTypeOK
  <2> QED BY <1>2, <2>1, <1>same, <1>n DEF Call
<1>3. ASSUME NEW c \in Consumers, Sleep(c)
      PROVE  m_nbNotified' <= k + Cardinality(Woken')
  BY <1>3, <1>0 DEF Sleep, MonitorInv, TestStands
<1>4. ASSUME NEW c \in Consumers, SpuriousWakeup(c)
      PROVE  m_nbNotified' <= k + Cardinality(Woken')
  <2>1. Woken' = Woken \union {c} /\ c \notin Woken
    BY <1>4 DEF SpuriousWakeup, Woken, MonitorInv, CallState, MonitorTypeOK
  <2> QED BY <1>4, <2>1, <1>add, <1>n DEF SpuriousWakeup
<1>5. ASSUME NEW c \in Consumers, Timeout(c)
      PROVE  m_nbNotified' <= k + Cardinality(Woken')
  <2>1. notEmpty # {} /\ ~missed /\ m_nbNotified' = m_nbNotified
    BY <1>5 DEF Timeout
  <2>2. CASE c \in notEmpty
    <3>1. Woken' = Woken \union {c} /\ c \notin Woken
      BY <1>5, <2>2 DEF Timeout, Woken, MonitorInv, CallState, MonitorTypeOK
    <3> QED BY <2>1, <3>1, <1>add, <1>n
  <2>3. CASE c \notin notEmpty
    <3>1. Woken' = Woken
      BY <1>5, <2>3 DEF Timeout, Woken
    <3> QED BY <2>1, <3>1, <1>same, <1>n
  <2> QED BY <2>2, <2>3
<1>6. ASSUME NEW c \in Consumers, Resume(c)
      PROVE  m_nbNotified' <= k + Cardinality(Woken')
  <2>1. CASE MustWait(status[c])
    BY <1>6, <2>1, <1>0 DEF Resume, MustWait
  <2>2. CASE ~MustWait(status[c])
    <3>1. Woken' = Woken
      BY <1>6, <2>2 DEF Resume, LockAndTest, Woken, MonitorInv, CallState, MonitorTypeOK
    <3> QED BY <1>6, <3>1, <1>same, <1>n DEF Resume
  <2> QED BY <2>1, <2>2
<1>7. ASSUME NEW c \in Consumers, FinishPop(c)
      PROVE  m_nbNotified' <= k + Cardinality(Woken')
  <2>1. CASE GivesUp(c)
    BY <1>7, <2>1, <1>0 DEF FinishPop, GivesUp, NoItem
  <2>2. CASE ~GivesUp(c)
    <3>1. m_nbNotified' = m_nbNotified - 1 /\ notEmpty # {} /\ ~missed
      BY <1>7, <2>2 DEF FinishPop, DoPop, Leave
    <3>2. Woken' = Woken \ {c}
      BY <1>7 DEF FinishPop, Leave, Woken, MonitorInv, MonitorTypeOK
    <3>3. Cardinality(Woken') >= Cardinality(Woken) - 1
      BY <3>2, WokenFinite, FS_RemoveElement
    <3> QED BY <3>1, <3>3, <1>n, WokenFinite DEF Announced
  <2> QED BY <2>1, <2>2
<1>8. ASSUME NEW c \in Consumers, FinishBack(c)
      PROVE  m_nbNotified' <= k + Cardinality(Woken')
  <2>1. m_nbNotified' = m_nbNotified /\ notEmpty # {} /\ ~missed
    BY <1>8, <1>n DEF FinishBack, Leave
  <2>2. CASE m_nbNotified = 0
    BY <2>1, <2>2, <1>0
  <2>3. CASE m_nbNotified # 0
    <3>1. ~slept[c]
      BY <1>8, <2>3 DEF FinishBack
    <3>2. Woken' = Woken
      BY <1>8, <3>1 DEF FinishBack, Leave, Woken, MonitorInv, MonitorTypeOK
    <3> QED BY <2>1, <3>2, <1>same, <1>n
  <2> QED BY <2>2, <2>3
<1>9. ASSUME NEW c \in Consumers, TryPop(c)
      PROVE  m_nbNotified' <= k + Cardinality(Woken')
  <2>1. Woken' = Woken /\ notEmpty # {} /\ ~missed
    BY <1>9 DEF TryPop, Woken
  <2>n. m_nbNotified' \in Nat
    BY <1>9, PopTypes DEF TryPop, Ops
  <2>o. m_nbNotified' = m_nbNotified \/ m_nbNotified' = m_nbNotified - 1
    BY <1>9 DEF TryPop, DoPop, NoItem
  <2>2. m_nbNotified' \in Nat /\ m_nbNotified' <= m_nbNotified
    BY <2>n, <2>o, <1>n
  <2> QED BY <2>1, <2>2, <1>same
<1>10. ASSUME NEW f \in Finalizers, ReleaseFlag(f)
       PROVE  m_nbNotified' <= k + Cardinality(Woken')
  <2>1. Woken' = Woken
    BY <1>10 DEF ReleaseFlag, Woken
  <2> QED BY <1>10, <2>1, <1>same, <1>n DEF ReleaseFlag
<1>11. ASSUME NEW f \in Finalizers, ReleaseNotify(f)
       PROVE  m_nbNotified' <= k + Cardinality(Woken')
  BY <1>11 DEF ReleaseNotify
<1>14. ASSUME ReleaseSeen PROVE m_nbNotified' <= k + Cardinality(Woken')
  <2>1. Woken' = Woken
    BY <1>14 DEF ReleaseSeen, Woken
  <2> QED BY <1>14, <2>1, <1>same, <1>n DEF ReleaseSeen
<1>12. ASSUME Clear PROVE m_nbNotified' <= k + Cardinality(Woken')
  BY <1>12, <1>0 DEF Clear
<1>13. ASSUME UNCHANGED vars PROVE m_nbNotified' <= k + Cardinality(Woken')
  <2>1. Woken' = Woken
    BY <1>13 DEF vars, Woken
  <2> QED BY <1>13, <2>1, <1>same, <1>n DEF vars
<1> QED
  BY <1>1, <1>2, <1>3, <1>4, <1>5, <1>6, <1>7, <1>8, <1>9, <1>10, <1>11,
     <1>12, <1>13, <1>14
  DEF Next, ConsumerStep

(* While a consumer sleeps, every item has a woken consumer of its own,    *)
(* unless a call of back() took a notification.                            *)
THEOREM EveryItemIsAnnounced == Spec => []NoStrandedItem
<1>1. Init => NoStrandedItem
  BY DEF Init, NoStrandedItem
<1>2. MonitorInv /\ NoStrandedItem /\ [Next]_vars => NoStrandedItem'
  <2>1. NoStrandedItem <=> Announced(0)
    BY WokenFinite DEF NoStrandedItem, Announced
  <2>2. NoStrandedItem' <=> Announced(0)'
    BY WokenFinite DEF NoStrandedItem, Announced
  <2> QED BY <2>1, <2>2, NextAnnounced
<1> QED BY <1>1, <1>2, LockInvariant, PTL DEF Spec, LockInv

-----------------------------------------------------------------------------
(* Refinement: the monitor implements the queue its callers are promised.  *)

\* A sequence is the function of its elements, as the contract builds it.
LEMMA SequenceIsFunction ==
  ASSUME NEW S, NEW s \in Seq(S)
  PROVE  s = [j \in 1 .. Len(s) |-> s[j]]
  OBVIOUS

(* doPop removes the item the contract removes, and hands that one out.    *)
LEMMA PopTakesNext ==
  ASSUME m_data \in Seq(Values), m_data # <<>>
  PROVE  /\ NextItem(m_data) = m_data[Contract!NextPosition]
         /\ Remaining(m_data) = Contract!Without(Contract!NextPosition)
<1>1. m_data \in Seq(Values) /\ Len(m_data) \in Nat \ {0}
  OBVIOUS
<1>2. CASE class = "SharedFifo"
  <2>1. Tail(m_data) = [j \in 1 .. Len(m_data) - 1 |-> m_data[j + 1]]
    <3>1. /\ Tail(m_data) \in Seq(Values)
          /\ Len(Tail(m_data)) = Len(m_data) - 1
          /\ \A j \in 1 .. Len(Tail(m_data)) : Tail(m_data)[j] = m_data[j + 1]
      BY <1>1, HeadTailProperties
    <3> DEFINE t == Tail(m_data)
    <3> HIDE DEF t
    <3>2. t = [j \in 1 .. Len(t) |-> t[j]]
      BY <3>1, SequenceIsFunction DEF t
    <3>3. t = [j \in 1 .. Len(m_data) - 1 |-> m_data[j + 1]]
      BY <3>1, <3>2 DEF t
    <3> QED BY <3>3 DEF t
  <2>2. Contract!Without(1) = [j \in 1 .. Len(m_data) - 1 |-> m_data[j + 1]]
    BY <1>1 DEF Contract!Without
  <2> QED BY <1>1, <1>2, <2>1, <2>2
          DEF NextItem, Remaining, Contract!NextPosition
<1>3. CASE class # "SharedFifo"
  <2>1. SubSeq(m_data, 1, Len(m_data) - 1)
          = [j \in 1 .. Len(m_data) - 1 |-> m_data[j]]
    BY <1>1
  <2>2. Contract!Without(Len(m_data))
          = [j \in 1 .. Len(m_data) - 1 |-> m_data[j]]
    BY <1>1 DEF Contract!Without
  <2> QED BY <1>3, <2>1, <2>2 DEF NextItem, Remaining, Contract!NextPosition
<1> QED BY <1>2, <1>3

\* Each step of the monitor is a step of the abstract queue or none.
LEMMA StepImplementsContract ==
  MonitorInv /\ [Next]_vars => [Contract!Next]_(Contract!vars)
<1> SUFFICES ASSUME MonitorInv, [Next]_vars
             PROVE  [Contract!Next]_(Contract!vars)
  OBVIOUS
<1> USE DEF dataVars, callVars
<1>s. ASSUME UNCHANGED <<class, m_data, m_bReleased, returned>>
      PROVE  [Contract!Next]_(Contract!vars)
  BY <1>s DEF Contract!vars
<1>pop. ASSUME NEW c \in Consumers, NEW op \in {"pop", "timedPop", "tryPop"},
               DoPop(c, op), UNCHANGED m_bReleased
        PROVE  Contract!Next
  <2>1. Contract!Take(c, op)
    BY <1>pop, PopTakesNext
    DEF DoPop, Returns, Contract!Take, Contract!Returned, MonitorInv, MonitorTypeOK
  <2> QED BY <2>1 DEF Contract!Next
<1>none. ASSUME NEW c \in Consumers, NEW op \in {"pop", "timedPop", "tryPop"},
                NoItem(c, op), UNCHANGED m_bReleased,
                op = "pop" => m_bReleased /\ m_data = <<>>,
                op = "timedPop" => m_data = <<>>
         PROVE  Contract!Next
  <2>1. Contract!Refuse(c, op)
    BY <1>none DEF NoItem, Returns, Contract!Refuse, Contract!Returned
  <2> QED BY <2>1 DEF Contract!Next
<1>empty. m_nbNotified = 0 <=> m_data = <<>>
  BY DEF MonitorInv, CountMatchesData, MonitorTypeOK
<1>1. ASSUME NEW v \in Values, Push(v) PROVE Contract!Next
  <2>1. Contract!Put(v)
    BY <1>1 DEF Push, Insert, Contract!Put
  <2> QED BY <2>1 DEF Contract!Next
<1>2. ASSUME NEW c \in Consumers, NEW op \in Ops, Call(c, op)
      PROVE  [Contract!Next]_(Contract!vars)
  BY <1>2, <1>s DEF Call
<1>3. ASSUME NEW c \in Consumers,
             Sleep(c) \/ SpuriousWakeup(c) \/ Timeout(c) \/ Resume(c)
      PROVE  [Contract!Next]_(Contract!vars)
  BY <1>3, <1>s DEF Sleep, SpuriousWakeup, Timeout, Resume
<1>4. ASSUME NEW c \in Consumers, FinishPop(c) PROVE Contract!Next
  <2>1. CASE GivesUp(c)
    BY <1>4, <2>1, <1>none, <1>empty
    DEF FinishPop, Leave, GivesUp, Ops
  <2>2. CASE ~GivesUp(c)
    BY <1>4, <2>2, <1>pop DEF FinishPop, Leave
  <2> QED BY <2>1, <2>2
<1>5. ASSUME NEW c \in Consumers, FinishBack(c) PROVE Contract!Next
  <2> DEFINE found == m_nbNotified # 0
  <2>1. /\ call[c] \in {"back", "backInto"}
        /\ Returns(c, call[c], IF found THEN Head(m_data) ELSE None,
                   BackAnswers(c, found))
        /\ UNCHANGED <<class, m_data, m_bReleased>>
    BY <1>5 DEF FinishBack, Leave, Peeks
  <2>2. CASE ~found
    <3>1. m_bReleased
      BY <1>5, <2>2
      DEF FinishBack, Leave, Peeks, MonitorInv, TestStands, CallState, MonitorTypeOK
    <3>2. BackAnswers(c, found) = (call[c] = "backInto")
      BY <2>2, <3>1 DEF BackAnswers
    <3>3. Contract!Refuse(c, call[c])
      BY <2>1, <2>2, <3>1, <3>2, <1>empty
      DEF Returns, Contract!Refuse, Contract!Returned
    <3> QED BY <2>1, <3>3 DEF Contract!Next
  <2>3. CASE found
    <3>1. BackAnswers(c, found) = (call[c] = "backInto" => m_bReleased)
      BY <2>3 DEF BackAnswers, MonitorInv, MonitorTypeOK
    <3>2. m_data # <<>> /\ Head(m_data) = m_data[1]
      BY <2>3, <1>empty DEF MonitorInv, MonitorTypeOK
    <3>3. Contract!Peek(c, call[c])
      BY <2>1, <2>3, <3>1, <3>2 DEF Returns, Contract!Peek, Contract!Returned
    <3> QED BY <2>1, <3>3 DEF Contract!Next
  <2> QED BY <2>2, <2>3
<1>6. ASSUME NEW c \in Consumers, TryPop(c) PROVE Contract!Next
  BY <1>6, <1>pop, <1>none DEF TryPop, Ops
<1>7. ASSUME ReleaseSeen PROVE Contract!Next
  <2>1. Contract!Close
    BY <1>7 DEF ReleaseSeen, Contract!Close
  <2> QED BY <2>1 DEF Contract!Next
<1>8. ASSUME NEW f \in Finalizers, ReleaseFlag(f) \/ ReleaseNotify(f)
      PROVE  [Contract!Next]_(Contract!vars)
  BY <1>8, <1>s DEF ReleaseFlag, ReleaseNotify
<1>9. ASSUME Clear PROVE Contract!Next
  <2>1. Contract!Discard
    BY <1>9 DEF Clear, Contract!Discard
  <2> QED BY <2>1 DEF Contract!Next
<1>10. ASSUME UNCHANGED vars PROVE [Contract!Next]_(Contract!vars)
  BY <1>10, <1>s DEF vars
<1> QED
  BY <1>1, <1>2, <1>3, <1>4, <1>5, <1>6, <1>7, <1>8, <1>9, <1>10
  DEF Next, ConsumerStep

(* Every behaviour of the monitor is a behaviour of the abstract queue.    *)
THEOREM Refinement == Spec => ImplementsContract
<1>1. Init => Contract!Init
  BY DEF Init, NoCall, Contract!Init
<1> QED
  BY <1>1, LockInvariant, StepImplementsContract, PTL
  DEF Spec, LockInv, ImplementsContract, Contract!Spec
=============================================================================
