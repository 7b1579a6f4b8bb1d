---------------------------- MODULE CircularBuffer ----------------------------
(***************************************************************************)
(* SharedCircularBuffer.h: a deque of fixed length and two cursors.  push  *)
(* overwrites; the rest of the monitor is SharedFifo's, and every action   *)
(* here is one critical section of it.  The calls that block are cut into  *)
(* their steps by the module that makes them (MultiConsumer).              *)
(***************************************************************************)
EXTENDS Naturals, Sequences

CONSTANTS
  Size,    \* the length the constructor gives the deque
  Values,  \* the items
  Default  \* a value-initialised T

ASSUME SizeAssumption == Size \in Nat

VARIABLES
  m_data,        \* the deque, position i of the code at i + 1
  m_pushCursor,
  m_popCursor,
  m_nbNotified,
  m_bReleased,
  undefined      \* an element of an empty deque was written

cursorVars == <<m_data, m_pushCursor, m_popCursor, m_nbNotified>>
bufferVars == <<cursorVars, m_bReleased, undefined>>

Items == Values \union {Default}

BufferInit ==
  /\ m_data = [i \in 1 .. Size |-> Default]
  /\ m_pushCursor = 0
  /\ m_popCursor = 0
  /\ m_nbNotified = 0
  /\ m_bReleased = FALSE
  /\ undefined = FALSE

\* (Definitions marked "Faulty" are variants with a plausible mistake.  No
\* specification uses them: put in place of the definition that follows, each
\* makes one of the properties fail.)

\* increaseCursor
Increased(cursor) == IF cursor + 1 = Len(m_data) THEN 0 ELSE cursor + 1

\* Faulty: a push into a full buffer leaves the pop cursor where it is.
OverwriteOrGrowStill ==
  /\ m_nbNotified' = IF m_nbNotified + 1 > Len(m_data) THEN m_nbNotified
                                                       ELSE m_nbNotified + 1
  /\ UNCHANGED m_popCursor

\* The count goes up, or the oldest item has just been lost.
OverwriteOrGrow ==
  IF m_nbNotified + 1 > Len(m_data)
    THEN m_popCursor' = Increased(m_popCursor) /\ UNCHANGED m_nbNotified
    ELSE m_nbNotified' = m_nbNotified + 1 /\ UNCHANGED m_popCursor

Store(v) ==
  /\ m_data # <<>>
  /\ m_data' = [m_data EXCEPT ![m_pushCursor + 1] = v]
  /\ m_pushCursor' = Increased(m_pushCursor)
  /\ OverwriteOrGrow
  /\ UNCHANGED <<m_bReleased, undefined>>

\* After the inherited clear(), m_data[m_pushCursor] is outside the deque.
StoreNowhere ==
  /\ m_data = <<>>
  /\ undefined' = TRUE
  /\ UNCHANGED <<cursorVars, m_bReleased>>

Push(v) == Store(v) \/ StoreNowhere

Oldest == m_data[m_popCursor + 1]

\* Faulty: doPop and the pop that calls it both count the item.
DoPopCountedTwice ==
  /\ m_nbNotified > 0
  /\ m_popCursor' = Increased(m_popCursor)
  /\ m_nbNotified' = m_nbNotified - 2
  /\ UNCHANGED <<m_data, m_pushCursor, m_bReleased, undefined>>

\* doPop; the loop in front of it lets no call reach it while the count is 0.
DoPop ==
  /\ m_nbNotified > 0
  /\ m_popCursor' = Increased(m_popCursor)
  /\ m_nbNotified' = m_nbNotified - 1
  /\ UNCHANGED <<m_data, m_pushCursor, m_bReleased, undefined>>

\* The inherited clear(): the deque loses its length, the cursors stay.
Clear ==
  /\ m_data' = <<>>
  /\ m_nbNotified' = 0
  /\ UNCHANGED <<m_pushCursor, m_popCursor, m_bReleased, undefined>>

\* The first statement of the inherited release().
Release ==
  /\ m_bReleased' = TRUE
  /\ UNCHANGED <<cursorVars, undefined>>

BufferNext ==
  ~undefined /\ ((\E v \in Values : Push(v)) \/ DoPop \/ Clear \/ Release)

BufferSpec == BufferInit /\ [][BufferNext]_bufferVars
-----------------------------------------------------------------------------
(* Properties.                                                             *)

\* The element n places after a cursor.
Forward(cursor, n) ==
  IF cursor + n < Size THEN cursor + n ELSE cursor + n - Size

BufferTypeOK ==
  /\ m_data \in Seq(Items)
  /\ m_pushCursor \in Nat
  /\ m_popCursor \in Nat
  /\ m_nbNotified \in Nat
  /\ m_bReleased \in BOOLEAN
  /\ undefined \in BOOLEAN

\* push moves three counters that pop and the inherited clear move too: as
\* long as the deque has its length, the push cursor is exactly the count
\* ahead of the pop cursor, around the end, and both stay inside the deque.
CursorsAgree ==
  \/ m_data = <<>> /\ m_nbNotified = 0
  \/ /\ Len(m_data) = Size
     /\ m_pushCursor < Size
     /\ m_popCursor < Size
     /\ m_nbNotified <= Size
     /\ m_pushCursor = Forward(m_popCursor, m_nbNotified)

\* The items of the buffer, oldest first.
Contents ==
  [i \in 1 .. m_nbNotified |-> m_data[Forward(m_popCursor, i - 1) + 1]]

\* Whatever the interleaving of pushes, pops, release and clear, the buffer
\* behaves as the window of the newest Size items.
Window == INSTANCE SlidingWindow
            WITH window <- Contents, usable <- (m_data # <<>>),
                 closed <- m_bReleased
ImplementsWindow == Window!WindowSpec
=============================================================================
