----------------------------- MODULE MultiConsumer -----------------------------
(***************************************************************************)
(* MultiConsumer.h over a circular buffer: NbConsumers consumers share one *)
(* source queue, and each has a buffer (a SharedFifo) of its own.  Whoever *)
(* completes a round pops the source and fills the buffers for the next.   *)
(*                                                                         *)
(* A step of a thread ends where another thread can tell the difference.   *)
(* Both queues are monitors like SharedFifo's: release() writes without    *)
(* the lock, so "tested and about to sleep" is a state of its own, in      *)
(* which the queue's mutex is held.  Mutexes have no variable: the program *)
(* counters say who holds them.  The flags that release() writes are those *)
(* of SharedFifo, and as there a thread may find the new value any time    *)
(* after it was stored.                                                    *)
(***************************************************************************)
EXTENDS CircularBuffer, FiniteSets

CONSTANTS
  NbConsumers,  \* the constructor's nbConsumers
  Threads,      \* the threads that call pop
  ConsumerOf    \* the consumer ID each of them passes

Consumers == 1 .. NbConsumers
Source == 0  \* what a finalizer may release besides the consumers' buffers
Queues == {Source} \union Consumers

ASSUME NbConsumersAssumption == NbConsumers \in Nat \ {0}
ASSUME ConsumerOfAssumption == ConsumerOf \in [Threads -> Consumers]

VARIABLES
  m_bFirstInit,
  m_nbConsumed,
  m_currentSubscriberID,
  buffers,   \* m_consumersBuffers: the items of each, front() last
  released,  \* the m_bReleased of each, as a read of it finds it
  stored,    \* whether release() of each queue has stored to its m_bReleased
  mpc,       \* where each thread is in pop
  filling    \* init()'s local value, and the buffer it pushes to next

roundVars == <<m_bFirstInit, m_nbConsumed>>
flagVars == <<released, stored>>
multiVars ==
  <<roundVars, m_currentSubscriberID, buffers, flagVars, mpc, filling>>

NotFilling == [value |-> Default, next |-> 1]

MultiInit ==
  /\ BufferInit
  /\ m_bFirstInit = TRUE
  /\ m_nbConsumed = 0
  /\ m_currentSubscriberID = 0
  /\ buffers = [c \in Consumers |-> <<>>]
  /\ released = [c \in Consumers |-> FALSE]
  /\ stored = [q \in Queues |-> FALSE]
  /\ mpc = [th \in Threads |-> "out"]
  /\ filling = NotFilling

\* init() runs, blocking pop of the source included, under m_mutex.
InInit == {"source", "sourceFalls", "sourceAsleep", "publish"}

MutexFree == \A th \in Threads : mpc[th] \notin InInit
SourceFree == \A th \in Threads : mpc[th] # "sourceFalls"
OwnFree(c) ==
  \A th \in Threads : ConsumerOf[th] = c => mpc[th] # "ownFalls"

Goes(th, label) == mpc' = [mpc EXCEPT ![th] = label]

\* notify_one on a condition variable whose sleepers are at `asleep`; the
\* woken go back to the test in front of their loop.
Wakes(sleepers, retry) ==
  IF sleepers = {} THEN UNCHANGED mpc
  ELSE \E th \in sleepers : Goes(th, retry)

SourceSleepers == {th \in Threads : mpc[th] = "sourceAsleep"}
OwnSleepers(c) ==
  {th \in Threads : mpc[th] = "ownAsleep" /\ ConsumerOf[th] = c}

-----------------------------------------------------------------------------
(* The queue's other users.                                                *)

\* A producer pushes into the source.
SourcePush(v) ==
  /\ SourceFree
  /\ Push(v)
  /\ Wakes(SourceSleepers, "source")
  /\ UNCHANGED <<roundVars, m_currentSubscriberID, buffers, flagVars, filling>>

\* clear() takes no lock: its caller keeps it away from a push or a pop.
SourceClear ==
  /\ m_data # <<>>
  /\ \A th \in Threads : mpc[th] \notin InInit
  /\ Clear
  /\ UNCHANGED multiVars

Subscribe ==
  /\ m_currentSubscriberID < NbConsumers
  /\ m_currentSubscriberID' = m_currentSubscriberID + 1
  /\ UNCHANGED <<bufferVars, roundVars, buffers, flagVars, mpc, filling>>

-----------------------------------------------------------------------------
(* release(), one statement at a time; `target` is a consumer, or the      *)
(* source when the application releases that as well.                      *)

FlagReleased(target) ==
  /\ stored' = [stored EXCEPT ![target] = TRUE]
  /\ UNCHANGED <<bufferVars, roundVars, m_currentSubscriberID, buffers,
                 released, mpc, filling>>

\* From here on the reads of the flag find the store.
FlagSeen(target) ==
  /\ stored[target]
  /\ IF target = Source
       THEN ~m_bReleased /\ Release /\ UNCHANGED released
       ELSE /\ ~released[target]
            /\ released' = [released EXCEPT ![target] = TRUE]
            /\ UNCHANGED bufferVars
  /\ UNCHANGED <<roundVars, m_currentSubscriberID, buffers, stored, mpc,
                 filling>>

NotifyReleased(target) ==
  /\ mpc' = [th \in Threads |->
               IF target = Source
                 THEN IF th \in SourceSleepers THEN "source" ELSE mpc[th]
                 ELSE IF th \in OwnSleepers(target) THEN "own" ELSE mpc[th]]
  /\ UNCHANGED <<bufferVars, roundVars, m_currentSubscriberID, buffers,
                 flagVars, filling>>

-----------------------------------------------------------------------------
(* pop(consumerID), for an ID below NbConsumers: any other is refused with *)
(* an exception before anything is touched.                                *)

\* (Definitions marked "Faulty" are variants with a plausible mistake.  No
\* specification uses them: put in place of the definition that follows, each
\* makes one of the properties fail.)

StartInit(th) == Goes(th, "source") /\ m_nbConsumed' = 0

\* The first thread in pops the first item; the others wait for m_mutex.
Enter(th) ==
  /\ mpc[th] = "out"
  /\ MutexFree
  /\ IF m_bFirstInit THEN StartInit(th)
                     ELSE Goes(th, "own") /\ UNCHANGED m_nbConsumed
  /\ UNCHANGED <<bufferVars, m_bFirstInit, m_currentSubscriberID, buffers,
                 flagVars, filling>>

\* m_fifo->pop(value) in init().
SourceTest(th) ==
  /\ mpc[th] = "source"
  /\ SourceFree
  /\ m_nbNotified = 0
  /\ ~m_bReleased
  /\ Goes(th, "sourceFalls")
  /\ UNCHANGED <<bufferVars, roundVars, m_currentSubscriberID, buffers,
                 flagVars, filling>>

SourceSleep(th) ==
  /\ mpc[th] = "sourceFalls"
  /\ Goes(th, "sourceAsleep")
  /\ UNCHANGED <<bufferVars, roundVars, m_currentSubscriberID, buffers,
                 flagVars, filling>>

\* A released and empty source leaves the local as T's constructor made it:
\* init() does not look at what pop returned.
SourcePop(th) ==
  /\ mpc[th] = "source"
  /\ SourceFree
  /\ IF m_nbNotified > 0
       THEN DoPop /\ filling' = [value |-> Oldest, next |-> 1]
       ELSE /\ m_bReleased
            /\ filling' = [value |-> Default, next |-> 1]
            /\ UNCHANGED bufferVars
  /\ Goes(th, "publish")
  /\ UNCHANGED <<roundVars, m_currentSubscriberID, buffers, flagVars>>

\* One buffer.push(value) of the loop in init().
Fill(th) ==
  LET c == filling.next
  IN  /\ mpc[th] = "publish"
      /\ c \in Consumers
      /\ OwnFree(c)
      /\ buffers' = [buffers EXCEPT ![c] = Append(@, filling.value)]
      /\ filling' = [filling EXCEPT !.next = c + 1]
      /\ Wakes(OwnSleepers(c), "own")
      /\ UNCHANGED <<bufferVars, roundVars, m_currentSubscriberID, flagVars>>

\* init() returns: the first one to the pop that goes on to its own buffer,
\* the others to one that is about to return its value.
Filled(th) ==
  /\ mpc[th] = "publish"
  /\ filling.next \notin Consumers
  /\ Goes(th, IF m_bFirstInit THEN "own" ELSE "out")
  /\ m_bFirstInit' = FALSE
  /\ filling' = NotFilling
  /\ UNCHANGED <<bufferVars, m_nbConsumed, m_currentSubscriberID, buffers,
                 flagVars>>

\* m_consumersBuffers.at(consumerID).pop()
OwnTest(th) ==
  LET c == ConsumerOf[th]
  IN  /\ mpc[th] = "own"
      /\ OwnFree(c)
      /\ buffers[c] = <<>>
      \* released and empty: pop() throws, and the caller's handler returns
      /\ Goes(th, IF released[c] THEN "out" ELSE "ownFalls")
      /\ UNCHANGED <<bufferVars, roundVars, m_currentSubscriberID, buffers,
                     flagVars, filling>>

OwnSleep(th) ==
  /\ mpc[th] = "ownFalls"
  /\ Goes(th, "ownAsleep")
  /\ UNCHANGED <<bufferVars, roundVars, m_currentSubscriberID, buffers,
                 flagVars, filling>>

OwnPop(th) ==
  LET c == ConsumerOf[th]
  IN  /\ mpc[th] = "own"
      /\ OwnFree(c)
      /\ buffers[c] # <<>>
      /\ buffers' = [buffers EXCEPT ![c] = Tail(@)]
      /\ Goes(th, "count")
      /\ UNCHANGED <<bufferVars, roundVars, m_currentSubscriberID, flagVars,
                     filling>>

\* Faulty: the round is over one consumer early.
CompletesRoundEarly == m_nbConsumed + 1 >= NbConsumers - 1

CompletesRound == m_nbConsumed + 1 = NbConsumers

Count(th) ==
  /\ mpc[th] = "count"
  /\ MutexFree
  /\ IF CompletesRound THEN StartInit(th)
                       ELSE Goes(th, "out") /\ m_nbConsumed' = m_nbConsumed + 1
  /\ UNCHANGED <<bufferVars, m_bFirstInit, m_currentSubscriberID, buffers,
                 flagVars, filling>>

\* Either condition variable may wake a sleeper nobody notified.
SpuriousWakeup(th) ==
  /\ \/ mpc[th] = "sourceAsleep" /\ Goes(th, "source")
     \/ mpc[th] = "ownAsleep" /\ Goes(th, "own")
  /\ UNCHANGED <<bufferVars, roundVars, m_currentSubscriberID, buffers,
                 flagVars, filling>>

PopStep(th) ==
  \/ Enter(th)
  \/ SourceTest(th) \/ SourceSleep(th) \/ SourcePop(th)
  \/ Fill(th) \/ Filled(th)
  \/ OwnTest(th) \/ OwnSleep(th) \/ OwnPop(th)
  \/ Count(th)

-----------------------------------------------------------------------------
MultiTypeOK ==
  /\ BufferTypeOK
  /\ m_bFirstInit \in BOOLEAN
  /\ m_nbConsumed \in 0 .. NbConsumers - 1
  /\ m_currentSubscriberID \in 0 .. NbConsumers
  /\ buffers \in [Consumers -> Seq(Items)]
  /\ released \in [Consumers -> BOOLEAN]
  /\ stored \in [Queues -> BOOLEAN]
  /\ mpc \in [Threads -> {"out", "source", "sourceFalls", "sourceAsleep",
                          "publish", "own", "ownFalls", "ownAsleep", "count"}]
  /\ filling \in [value : Items, next : 1 .. NbConsumers + 1]

\* An item is pending for a consumer from the pop of the source: the pushes
\* into the buffers are not one step, and the last consumers' come late.
ToTake ==
  [c \in Consumers |->
     IF filling.next <= c /\ (\E th \in Threads : mpc[th] = "publish")
       THEN Append(buffers[c], filling.value)
       ELSE buffers[c]]

\* Every item of the source reaches every consumer once and in order, and
\* none is popped before the last has been taken by all: although the count
\* of takers, the flag of the first round, the buffers and the source have
\* three different locks between them.
AllHear == INSTANCE Broadcast
             WITH window <- Contents, usable <- (m_data # <<>>),
                  closed <- m_bReleased, pending <- ToTake
ImplementsBroadcast == AllHear!BroadcastSpec
=============================================================================
