------------------------------ MODULE SharedFifo ------------------------------
(***************************************************************************)
(* The monitor of SharedFifo.h and of the classes that only change how an  *)
(* item is inserted or removed: SharedLifo.h and DropBuffer.h.             *)
(*                                                                         *)
(* A step is one critical section of m_mutex, cut where other threads can  *)
(* interfere: release() takes no lock, so it may run between the test of   *)
(* the while loop and the wait, and again between the loop and the code    *)
(* that follows it.  Taking the lock and testing is one step (no other     *)
(* thread can tell the two apart); going to sleep is another; what follows *)
(* the loop up to the unlock is the third.                                 *)
(*                                                                         *)
(* m_bReleased is a volatile bool that release() writes and the calls read *)
(* with nothing to order them: a data race.  The compiler keeps each access*)
(* of a volatile, but nothing says when the store is seen, not even that   *)
(* it is before the notify_all that follows it in release() returns.  All  *)
(* reads are made under m_mutex, which orders them, and reads of one bool  *)
(* that are ordered do not go back: first they find false, from some moment*)
(* on true.  The variable m_bReleased is what they find, ReleaseSeen that  *)
(* moment.                                                                 *)
(*                                                                         *)
(* m_data lists the deque from back() to front(): push_front appends.      *)
(***************************************************************************)
EXTENDS Naturals, Sequences, FiniteSets

CONSTANTS
  Consumers,   \* the threads that call pop, tryPop and back
  Finalizers,  \* the threads that call release, through ITask::stop
  Values,      \* the items
  OpsOf,       \* the calls each consumer's processing function makes
  Classes,     \* the classes createFifo is asked for
  PushBound,   \* bound: the number of push calls of a behaviour
  Free,        \* the owner of a mutex nobody holds
  None         \* the outcome of a call that returns no item

(* "pop" is pop() and pop(T&), which differ in how they report a failure.  *)
(* "back" is back(), "backInto" is back(T&), which reports something else. *)
Peeks == {"back", "backInto"}
Ops == {"pop", "timedPop", "tryPop"} \union Peeks
AllClasses == {"SharedFifo", "SharedLifo", "DropBuffer"}

ASSUME ConsumersFinite == IsFiniteSet(Consumers)
ASSUME FreeIsNoThread == Free \notin Consumers
ASSUME NoneIsNoValue == None \notin Values
ASSUME OpsOfAssumption == OpsOf \in [Consumers -> SUBSET Ops]
ASSUME ClassesAssumption == Classes \subseteq AllClasses
ASSUME PushBoundAssumption == PushBound \in Nat

VARIABLES
  class,         \* the class of the queue
  m_data,        \* its items, back() first
  m_nbNotified,  \* its own count of them
  m_bReleased,   \* what a call that reads the flag finds
  m_mutex,       \* the owner of the mutex
  notEmpty,      \* the threads asleep on m_condQueueNotEmpty
  pc,            \* where each consumer is in its call
  call,          \* the call each consumer is making
  status,        \* the cv_status local of the timed pop
  slept,         \* history: the call in progress has been asleep
  returned,      \* history: the last call that returned, and its outcome
  fpc,           \* where each finalizer is in release(), or how that ended
  pushesLeft,    \* pushes that PushBound still allows
  missed         \* history: a notification was spent on a call of back()

dataVars == <<class, m_data, m_nbNotified>>
callVars == <<pc, call, status, slept, returned>>
vars == <<class, m_data, m_nbNotified, m_bReleased, m_mutex, notEmpty, pc,
          call, status, slept, returned, fpc, pushesLeft, missed>>

NoCall == [by |-> None, op |-> None, val |-> None, ok |-> FALSE]

Init ==
  /\ class \in Classes
  /\ m_data = <<>>
  /\ m_nbNotified = 0
  /\ m_bReleased = FALSE
  /\ m_mutex = Free
  /\ notEmpty = {}
  /\ pc = [c \in Consumers |-> "idle"]
  /\ call = [c \in Consumers |-> "pop"]
  /\ status = [c \in Consumers |-> "no_timeout"]
  /\ slept = [c \in Consumers |-> FALSE]
  /\ returned = NoCall
  /\ fpc = [f \in Finalizers |-> "idle"]
  /\ pushesLeft = PushBound
  /\ missed = FALSE

-----------------------------------------------------------------------------
(* The two data disciplines that the derived classes override.             *)

\* DropBuffer::push empties the deque before it inserts.
Insert(data, v) ==
  IF class = "DropBuffer" THEN <<v>> ELSE Append(data, v)

\* (Definitions marked "Faulty" are variants with a plausible mistake.  No
\* specification uses them: put in place of the definition that follows, each
\* makes one of the properties fail.)

\* Faulty: one more item, for a class that has just dropped the others.
CountAfterPushUndropped == m_nbNotified + 1

CountAfterPush ==
  IF class = "DropBuffer" THEN 1 ELSE m_nbNotified + 1

\* Faulty: front() for every class.
NextItemAtFront(data) == data[Len(data)]

\* doPop takes back() in SharedFifo, front() in SharedLifo and DropBuffer.
NextItem(data) ==
  IF class = "SharedFifo" THEN Head(data) ELSE data[Len(data)]

\* Faulty: pop_back() for every class.
RemainingWithoutBack(data) == Tail(data)

Remaining(data) ==
  IF class = "SharedFifo" THEN Tail(data) ELSE SubSeq(data, 1, Len(data) - 1)

\* Faulty: the notification is forgotten.
NotifyNobody(asleep, asleepAfter) == asleepAfter = asleep

\* notify_one: one sleeper, any of them, stops sleeping.
NotifyOne(asleep, asleepAfter) ==
  \/ asleep = {} /\ asleepAfter = {}
  \/ \E t \in asleep : asleepAfter = asleep \ {t}

-----------------------------------------------------------------------------
(* push: one critical section.                                             *)
Push(v) ==
  /\ pushesLeft > 0
  /\ m_mutex = Free
  /\ m_data' = Insert(m_data, v)
  /\ m_nbNotified' = CountAfterPush
  /\ NotifyOne(notEmpty, notEmpty')
  /\ pushesLeft' = pushesLeft - 1
  /\ UNCHANGED <<class, m_bReleased, m_mutex, callVars, fpc, missed>>

(* The while loop shared by pop, back and the timed pop: the mutex is held  *)
(* and the predicate read; "sleep" is the point just before wait(lock).     *)
\* Faulty: the loop waits for an item only.
MustWaitForItem(st) == m_nbNotified = 0 /\ st # "timeout"

MustWait(st) == ~m_bReleased /\ m_nbNotified = 0 /\ st # "timeout"

LockAndTest(c, st) ==
  /\ m_mutex = Free
  /\ m_mutex' = c
  /\ pc' = [pc EXCEPT ![c] = IF MustWait(st) THEN "sleep" ELSE "ready"]

\* A blocking call starts.
Call(c, op) ==
  /\ pc[c] = "idle"
  /\ op \in OpsOf[c] \ {"tryPop"}
  /\ LockAndTest(c, "no_timeout")
  /\ call' = [call EXCEPT ![c] = op]
  /\ UNCHANGED <<dataVars, m_bReleased, notEmpty, status, slept, returned, fpc,
                 pushesLeft, missed>>

\* wait(lock) gives the mutex back and falls asleep in one step.
Sleep(c) ==
  /\ pc[c] = "sleep"
  /\ m_mutex' = Free
  /\ notEmpty' = notEmpty \union {c}
  /\ pc' = [pc EXCEPT ![c] = "waiting"]
  /\ slept' = [slept EXCEPT ![c] = TRUE]
  /\ UNCHANGED <<dataVars, m_bReleased, call, status, returned, fpc, pushesLeft,
                 missed>>

\* A condition variable may wake a sleeper that nobody notified.
SpuriousWakeup(c) ==
  /\ c \in notEmpty
  /\ notEmpty' = notEmpty \ {c}
  /\ UNCHANGED <<dataVars, m_bReleased, m_mutex, callVars, fpc, pushesLeft,
                 missed>>

\* wait_for reports a timeout whether or not a notification came as well.
Timeout(c) ==
  /\ pc[c] = "waiting"
  /\ call[c] = "timedPop"
  /\ status[c] = "no_timeout"
  /\ status' = [status EXCEPT ![c] = "timeout"]
  /\ notEmpty' = notEmpty \ {c}
  /\ UNCHANGED <<dataVars, m_bReleased, m_mutex, pc, call, slept, returned, fpc,
                 pushesLeft, missed>>

\* A woken thread takes the mutex again and goes round the loop.
Resume(c) ==
  /\ pc[c] = "waiting"
  /\ c \notin notEmpty
  /\ LockAndTest(c, status[c])
  /\ UNCHANGED <<dataVars, m_bReleased, notEmpty, call, status, slept, returned,
                 fpc, pushesLeft, missed>>

\* What a call hands out, and the bool it answers (where it has none: that it
\* does not throw).
Returns(c, op, v, ok) ==
  returned' = [by |-> c, op |-> op, val |-> v, ok |-> ok]

\* Faulty: doPop and the pop that calls it both count the item.
DoPopCountedTwice(c, op) ==
  /\ m_data # <<>>
  /\ m_data' = Remaining(m_data)
  /\ m_nbNotified' = m_nbNotified - 2
  /\ Returns(c, op, NextItem(m_data), TRUE)
  /\ UNCHANGED class

\* doPop on a deque that holds an item; NeverPopsEmpty is the obligation
\* that it is called on no other.
DoPop(c, op) ==
  /\ m_data # <<>>
  /\ m_data' = Remaining(m_data)
  /\ m_nbNotified' = m_nbNotified - 1
  /\ Returns(c, op, NextItem(m_data), TRUE)
  /\ UNCHANGED class

NoItem(c, op) ==
  /\ Returns(c, op, None, FALSE)
  /\ UNCHANGED dataVars

\* What follows the loop, up to the unlock.  m_bReleased is read again here,
\* and the locals of the call are gone when it returns.
Leave(c) ==
  /\ pc[c] = "ready"
  /\ m_mutex' = Free
  /\ pc' = [pc EXCEPT ![c] = "idle"]
  /\ call' = [call EXCEPT ![c] = "pop"]
  /\ status' = [status EXCEPT ![c] = "no_timeout"]
  /\ slept' = [slept EXCEPT ![c] = FALSE]
  /\ UNCHANGED <<m_bReleased, notEmpty, fpc, pushesLeft>>

\* Faulty: the timed pop forgets that it timed out.
GivesUpReleased(c) == m_nbNotified = 0 /\ m_bReleased

\* pop() throws and pop(T&) returns false when released and empty; the timed
\* pop returns false when it timed out or was released, and is empty.
GivesUp(c) ==
  /\ m_nbNotified = 0
  /\ m_bReleased \/ (call[c] = "timedPop" /\ status[c] = "timeout")

FinishPop(c) ==
  /\ call[c] \in {"pop", "timedPop"}
  /\ Leave(c)
  /\ IF GivesUp(c) THEN NoItem(c, call[c]) ELSE DoPop(c, call[c])
  /\ UNCHANGED missed

\* back(T&) answers m_bReleased, back() throws when it finds nothing.
BackAnswers(c, found) == IF call[c] = "backInto" THEN m_bReleased ELSE found

\* back copies the oldest item, whatever the class, and wakes nobody.
FinishBack(c) ==
  /\ call[c] \in Peeks
  /\ Leave(c)
  /\ LET found == m_nbNotified # 0
     IN  Returns(c, call[c], IF found THEN Head(m_data) ELSE None,
                 BackAnswers(c, found))
  /\ UNCHANGED dataVars
  /\ missed' = (missed \/ (slept[c] /\ m_nbNotified # 0))

\* tryPop: fails when the mutex is taken as well as when there is no item.
TryPop(c) ==
  /\ pc[c] = "idle"
  /\ "tryPop" \in OpsOf[c]
  /\ IF m_mutex = Free /\ m_nbNotified > 0
       THEN DoPop(c, "tryPop") ELSE NoItem(c, "tryPop")
  /\ UNCHANGED <<m_bReleased, m_mutex, notEmpty, pc, call, status, slept, fpc,
                 pushesLeft, missed>>

(* release(): two statements, no lock.  The first is a store that the other *)
(* threads see later: possibly after the second.                            *)
ReleaseFlag(f) ==
  /\ fpc[f] = "idle"
  /\ fpc' = [fpc EXCEPT ![f] = "flagged"]
  /\ UNCHANGED <<dataVars, m_bReleased, m_mutex, notEmpty, callVars, pushesLeft,
                 missed>>

ReleaseSeen ==
  /\ ~m_bReleased
  /\ \E f \in Finalizers : fpc[f] # "idle"
  /\ m_bReleased' = TRUE
  /\ UNCHANGED <<dataVars, m_mutex, notEmpty, callVars, fpc, pushesLeft, missed>>

\* "early": notify_all has come before the store that it was to announce.
ReleaseNotify(f) ==
  /\ fpc[f] = "flagged"
  /\ notEmpty' = {}
  /\ fpc' = [fpc EXCEPT ![f] = IF m_bReleased THEN "done" ELSE "early"]
  /\ UNCHANGED <<dataVars, m_bReleased, m_mutex, callVars, pushesLeft, missed>>

(* clear() takes no lock either: two calls on one deque would be a data     *)
(* race, so its caller runs it while no other call is in progress (threads  *)
(* that are asleep do not touch the deque).                                 *)
Quiescent ==
  \A c \in Consumers : pc[c] = "idle" \/ c \in notEmpty

Clear ==
  /\ Quiescent
  /\ m_data' = <<>>
  /\ m_nbNotified' = 0
  /\ UNCHANGED <<class, m_bReleased, m_mutex, notEmpty, callVars, fpc,
                 pushesLeft, missed>>

-----------------------------------------------------------------------------
ConsumerStep(c) ==
  \/ \E op \in Ops : Call(c, op)
  \/ Sleep(c)
  \/ Resume(c)
  \/ FinishPop(c)
  \/ FinishBack(c)
  \/ TryPop(c)

Next ==
  \/ \E v \in Values : Push(v)
  \/ \E c \in Consumers :
       ConsumerStep(c) \/ SpuriousWakeup(c) \/ Timeout(c)
  \/ \E f \in Finalizers : ReleaseFlag(f) \/ ReleaseNotify(f)
  \/ ReleaseSeen
  \/ Clear

Spec == Init /\ [][Next]_vars

-----------------------------------------------------------------------------
(* Properties.                                                             *)

TypeOK ==
  /\ class \in Classes
  /\ m_data \in Seq(Values)
  /\ m_nbNotified \in Nat
  /\ m_bReleased \in BOOLEAN
  /\ m_mutex \in Consumers \union {Free}
  /\ notEmpty \in SUBSET Consumers
  /\ pc \in [Consumers -> {"idle", "sleep", "waiting", "ready"}]
  /\ call \in [Consumers -> Ops]
  /\ status \in [Consumers -> {"no_timeout", "timeout"}]
  /\ slept \in [Consumers -> BOOLEAN]
  /\ returned \in [by : Consumers \union {None}, op : Ops \union {None},
                  val : Values \union {None}, ok : BOOLEAN]
  /\ fpc \in [Finalizers -> {"idle", "flagged", "early", "done"}]
  /\ pushesLeft \in Nat
  /\ missed \in BOOLEAN

\* Every test of the code reads m_nbNotified, every access m_data: the count
\* the class keeps by hand in push, doPop and clear never drifts from the
\* deque.
CountMatchesData == m_nbNotified = Len(m_data)

\* Past its while loop a pop either gives up or finds an item: although
\* m_bReleased is written without the lock between the two reads of it,
\* doPop is never reached with an empty deque.
NeverPopsEmpty ==
  \A c \in Consumers :
    /\ pc[c] = "ready"
    /\ call[c] \in {"pop", "timedPop"}
    /\ ~GivesUp(c)
    => m_data # <<>>

\* The consumers that were asleep and are on their way to the queue again.
Woken ==
  {c \in Consumers :
     \/ pc[c] = "waiting" /\ c \notin notEmpty
     \/ pc[c] = "ready" /\ slept[c]}

\* No item waits beside a sleeper nobody woke for it: while consumers sleep,
\* every item in the queue has a woken consumer of its own, in spite of
\* stolen items, spurious wake-ups, and notifications that race a timeout.
\* The one thing that breaks it is a notification taken by back(), which
\* leaves the item and passes the notification on to nobody.
NoStrandedItem ==
  notEmpty # {} /\ ~missed => m_nbNotified <= Cardinality(Woken)

\* A release() whose notify_all comes when the flag can be read leaves at most
\* one consumer asleep or about to be: the threads it does not reach are
\* between their test and their wait, and the mutex allows only one of these.
\* (The first release() of a queue is not sure to be one of those: its
\* notification may be early, and then any number of consumers fall asleep
\* after it.  One that is called when a call has found the queue released is.)
SeenReleaseMissesAtMostOne ==
  (\E f \in Finalizers : fpc[f] = "done")
    => Cardinality(notEmpty \union {c \in Consumers : pc[c] = "sleep"}) <= 1

\* Every behaviour of the monitor is one of the queue its callers are
\* promised: class order, no item lost or handed out twice, no call that
\* gives up with items left, and a back(T&) that answers false has an item.
Contract == INSTANCE QueueContract WITH queue <- m_data, closed <- m_bReleased
ImplementsContract == Contract!Spec
=============================================================================
