---------------------------- MODULE PipelineProofs ----------------------------
(***************************************************************************)
(* Proofs about tasks that consume a circular buffer, for any number of    *)
(* consumers and starts, any size of the buffer and any items.  First the  *)
(* buffer by itself; then the life cycle of the tasks; then the rounds of  *)
(* the consumers, whose specification is the one of the composition.       *)
(***************************************************************************)
EXTENDS Pipeline, FiniteSetTheorems, SequenceTheorems, TLAPS

-----------------------------------------------------------------------------
(* The buffer: the cursors agree with the count.                           *)

BufferInv == BufferTypeOK /\ CursorsAgree

\* A constant deque has the length that it is given.
LEMMA ConstantDeque ==
  ASSUME NEW n \in Nat
  PROVE  LET d == [i \in 1 .. n |-> Default]
         IN  d \in Seq(Items) /\ Len(d) = n /\ (n = 0 => d = <<>>)
BY DEF Items

\* The positions reached from a cursor by fewer than Size places differ.
LEMMA ForwardInjective ==
  ASSUME NEW c \in Nat, c < Size, NEW i \in Nat, NEW j \in Nat,
         i < Size, j < Size, i # j
  PROVE  /\ Forward(c, i) # Forward(c, j)
         /\ Forward(c, i) \in 0 .. Size - 1
BY SizeAssumption DEF Forward

LEMMA BufferInitInv == BufferInit => BufferInv
<1> SUFFICES ASSUME BufferInit PROVE BufferInv
  OBVIOUS
<1>1. /\ m_data \in Seq(Items) /\ Len(m_data) = Size
      /\ Size = 0 => m_data = <<>>
  BY ConstantDeque, SizeAssumption DEF BufferInit
<1>2. BufferTypeOK
  BY <1>1 DEF BufferInit, BufferTypeOK
<1>3. CASE Size = 0
  BY <1>1, <1>2, <1>3 DEF BufferInit, BufferInv, CursorsAgree
<1>4. CASE Size > 0
  BY <1>1, <1>2, <1>4, SizeAssumption DEF BufferInit, BufferInv, CursorsAgree, Forward
<1> QED
  BY <1>3, <1>4, SizeAssumption

\* What holds whenever an item can be stored.
LEMMA Usable ==
  ASSUME BufferInv, m_data # <<>>
  PROVE  /\ Size > 0 /\ Len(m_data) = Size /\ m_data \in Seq(Items)
         /\ m_pushCursor \in 0 .. Size - 1
         /\ m_popCursor \in 0 .. Size - 1
         /\ m_nbNotified \in 0 .. Size
         /\ m_pushCursor = Forward(m_popCursor, m_nbNotified)
BY SizeAssumption DEF BufferInv, BufferTypeOK, CursorsAgree

LEMMA StoredData ==
  ASSUME NEW v \in Values, BufferInv, Store(v)
  PROVE  /\ m_data' \in Seq(Items) /\ Len(m_data') = Size /\ m_data' # <<>>
         /\ m_data'[m_pushCursor + 1] = v
         /\ \A i \in 1 .. Size : i # m_pushCursor + 1 => m_data'[i] = m_data[i]
<1>1. m_data # <<>>
  BY DEF Store
<1>2. v \in Items
  BY DEF Items
<1>3. m_data' = [m_data EXCEPT ![m_pushCursor + 1] = v]
  BY DEF Store
<1>4. m_data \in Seq(Items) /\ Len(m_data) = Size /\ m_pushCursor + 1 \in 1 .. Size
  BY <1>1, Usable, SizeAssumption
<1>5. m_data' \in Seq(Items) /\ Len(m_data') = Size
  BY <1>2, <1>3, <1>4
<1>6. m_data' # <<>>
  BY <1>4, <1>5, SizeAssumption
<1> QED
  BY <1>3, <1>4, <1>5, <1>6

LEMMA BufferNextInv ==
  ASSUME BufferInv, [BufferNext]_bufferVars
  PROVE  BufferInv'
<1>1. ASSUME NEW v \in Values, Store(v) PROVE BufferInv'
  <2>1. /\ Size > 0 /\ Len(m_data) = Size
        /\ m_pushCursor \in 0 .. Size - 1
        /\ m_popCursor \in 0 .. Size - 1
        /\ m_nbNotified \in 0 .. Size
        /\ m_pushCursor = Forward(m_popCursor, m_nbNotified)
    BY <1>1, Usable DEF Store
  <2>2. m_data' \in Seq(Items) /\ Len(m_data') = Size
    BY <1>1, StoredData
  <2>3. /\ m_pushCursor' = IF m_pushCursor + 1 = Size THEN 0 ELSE m_pushCursor + 1
        /\ m_bReleased' = m_bReleased /\ undefined' = undefined
    BY <1>1, <2>1 DEF Store, Increased
  <2>4. CASE m_nbNotified + 1 > Size
    <3>1. /\ m_popCursor' = IF m_popCursor + 1 = Size THEN 0 ELSE m_popCursor + 1
          /\ m_nbNotified' = m_nbNotified
      BY <1>1, <2>1, <2>4 DEF Store, OverwriteOrGrow, Increased
    <3> QED
      BY <2>1, <2>2, <2>3, <2>4, <3>1, SizeAssumption
      DEF BufferInv, BufferTypeOK, CursorsAgree, Forward
  <2>5. CASE ~ (m_nbNotified + 1 > Size)
    <3>1. m_popCursor' = m_popCursor /\ m_nbNotified' = m_nbNotified + 1
      BY <1>1, <2>1, <2>5 DEF Store, OverwriteOrGrow
    <3> QED
      BY <2>1, <2>2, <2>3, <2>5, <3>1, SizeAssumption
      DEF BufferInv, BufferTypeOK, CursorsAgree, Forward
  <2> QED
    BY <2>4, <2>5
<1>2. CASE StoreNowhere
  BY <1>2 DEF StoreNowhere, cursorVars, BufferInv, BufferTypeOK, CursorsAgree, Forward
<1>3. CASE DoPop
  <2>1. m_data # <<>>
    BY <1>3 DEF DoPop, BufferInv, BufferTypeOK, CursorsAgree
  <2>2. m_popCursor' = IF m_popCursor + 1 = Size THEN 0 ELSE m_popCursor + 1
    BY <1>3, <2>1, Usable DEF DoPop, Increased
  <2> QED
    BY <1>3, <2>1, <2>2, Usable, SizeAssumption
    DEF DoPop, BufferInv, BufferTypeOK, CursorsAgree, Forward
<1>4. CASE Clear
  BY <1>4 DEF Clear, BufferInv, BufferTypeOK, CursorsAgree
<1>5. CASE Release
  BY <1>5 DEF Release, cursorVars, BufferInv, BufferTypeOK, CursorsAgree, Forward
<1>6. CASE UNCHANGED bufferVars
  BY <1>6 DEF bufferVars, cursorVars, BufferInv, BufferTypeOK, CursorsAgree, Forward
<1> QED
  BY <1>1, <1>2, <1>3, <1>4, <1>5, <1>6 DEF BufferNext, Push

\* As long as the deque has its length, the cursors of SharedCircularBuffer
\* are exactly the count of items apart, for every size.
THEOREM CursorsAlwaysAgree == BufferSpec => [](BufferTypeOK /\ CursorsAgree)
<1>1. BufferInit => BufferInv
  BY BufferInitInv
<1>2. BufferInv /\ [BufferNext]_bufferVars => BufferInv'
  BY BufferNextInv
<1> QED
  BY <1>1, <1>2, PTL DEF BufferSpec, BufferInv
-----------------------------------------------------------------------------
(* The refinement.                                                         *)

\* The n items of a deque from a cursor on.
Unrolled(d, c, n) == [i \in 1 .. n |-> d[Forward(c, i - 1) + 1]]

LEMMA UnrolledIsSeq ==
  ASSUME NEW d \in Seq(Items), Len(d) = Size, NEW c \in 0 .. Size - 1,
         NEW n \in 0 .. Size
  PROVE  /\ Unrolled(d, c, n) \in Seq(Items)
         /\ Len(Unrolled(d, c, n)) = n
         /\ \A i \in 1 .. n : Unrolled(d, c, n)[i] = d[Forward(c, i - 1) + 1]
<1>1. \A i \in 1 .. n : Forward(c, i - 1) + 1 \in 1 .. Size
  BY SizeAssumption DEF Forward
<1>2. \A i \in 1 .. n : d[Forward(c, i - 1) + 1] \in Items
  BY <1>1
<1> QED
  BY <1>2 DEF Unrolled

\* e is the deque d after v has been written behind the n items from c on.
Written(d, e, c, n, v) ==
  /\ d \in Seq(Items) /\ Len(d) = Size
  /\ e \in Seq(Items) /\ Len(e) = Size
  /\ c \in 0 .. Size - 1 /\ n \in 0 .. Size - 1 /\ v \in Items
  /\ e[Forward(c, n) + 1] = v
  /\ \A i \in 1 .. Size : i # Forward(c, n) + 1 => e[i] = d[i]

\* An item written behind the last one is appended.
LEMMA UnrolledGrows ==
  ASSUME NEW d, NEW e, NEW c, NEW n, NEW v, Written(d, e, c, n, v)
  PROVE  Unrolled(e, c, n + 1) = Append(Unrolled(d, c, n), v)
<1> USE DEF Written
<1> DEFINE s == Unrolled(d, c, n)
           t == Unrolled(e, c, n + 1)
<1>0. n \in 0 .. Size /\ n + 1 \in 0 .. Size
  BY SizeAssumption
<1>1. /\ s \in Seq(Items) /\ Len(s) = n
      /\ \A i \in 1 .. n : s[i] = d[Forward(c, i - 1) + 1]
  BY <1>0, UnrolledIsSeq, Zenon
<1>2. /\ t \in Seq(Items) /\ Len(t) = n + 1
      /\ \A i \in 1 .. n + 1 : t[i] = e[Forward(c, i - 1) + 1]
  BY <1>0, UnrolledIsSeq, Zenon
<1>3. \A i \in 1 .. n : /\ Forward(c, i - 1) + 1 # Forward(c, n) + 1
                       /\ Forward(c, i - 1) + 1 \in 1 .. Size
  BY SizeAssumption DEF Forward
<1> HIDE DEF s, t
<1>4. /\ Append(s, v) \in Seq(Items) /\ Len(Append(s, v)) = n + 1
      /\ \A i \in 1 .. n : Append(s, v)[i] = s[i]
      /\ Append(s, v)[n + 1] = v
  BY <1>1, AppendProperties
<1>5. \A i \in 1 .. n : t[i] = Append(s, v)[i]
  BY <1>1, <1>2, <1>3, <1>4
<1>6. t[n + 1] = Append(s, v)[n + 1]
  BY <1>2, <1>4
<1>7. \A i \in 1 .. Len(t) : t[i] = Append(s, v)[i]
  <2> SUFFICES ASSUME NEW i \in 1 .. n + 1 PROVE t[i] = Append(s, v)[i]
    BY <1>2
  <2>1. i \in 1 .. n \/ i = n + 1
    OBVIOUS
  <2> QED
    BY <1>5, <1>6, <2>1, Zenon
<1>8. t = Append(s, v)
  BY <1>2, <1>4, <1>7, SeqEqual
<1> QED
  BY <1>8 DEF s, t

\* One place further and one item less is the tail.
LEMMA UnrolledShrinks ==
  ASSUME NEW d \in Seq(Items), Len(d) = Size,
         NEW c \in 0 .. Size - 1, NEW n \in 1 .. Size
  PROVE  /\ Unrolled(d, c, n) # <<>>
         /\ Unrolled(d, Forward(c, 1), n - 1) = Tail(Unrolled(d, c, n))
<1> DEFINE s == Unrolled(d, c, n)
           t == Unrolled(d, Forward(c, 1), n - 1)
<1>0. n \in 0 .. Size /\ n - 1 \in 0 .. Size
  BY SizeAssumption
<1>1. /\ s \in Seq(Items) /\ Len(s) = n
      /\ \A i \in 1 .. n : s[i] = d[Forward(c, i - 1) + 1]
  BY <1>0, UnrolledIsSeq, Zenon
<1>2. Forward(c, 1) \in 0 .. Size - 1
  BY SizeAssumption DEF Forward
<1>3. /\ t \in Seq(Items) /\ Len(t) = n - 1
      /\ \A i \in 1 .. n - 1 : t[i] = d[Forward(Forward(c, 1), i - 1) + 1]
  BY <1>0, <1>2, UnrolledIsSeq, Zenon
<1>4. \A i \in 1 .. n - 1 : Forward(Forward(c, 1), i - 1) = Forward(c, (i + 1) - 1)
  BY SizeAssumption DEF Forward
<1> HIDE DEF s, t
<1>5. s # <<>>
  BY <1>1
<1>6. /\ Tail(s) \in Seq(Items) /\ Len(Tail(s)) = n - 1
      /\ \A i \in 1 .. n - 1 : Tail(s)[i] = s[i + 1]
  BY <1>1, <1>5, HeadTailProperties
<1>7. \A i \in 1 .. Len(t) : t[i] = Tail(s)[i]
  BY <1>1, <1>3, <1>4, <1>6
<1>8. t = Tail(s)
  BY <1>3, <1>6, <1>7, SeqEqual
<1> QED
  BY <1>5, <1>8 DEF s, t

LEMMA ContentsUnrolled == Contents = Unrolled(m_data, m_popCursor, m_nbNotified)
BY DEF Contents, Unrolled

LEMMA NothingUnrolled == \A d, c : Unrolled(d, c, 0) = <<>>
BY DEF Unrolled

LEMMA WindowInit == BufferInit => Window!WindowInit
BY ContentsUnrolled, NothingUnrolled DEF BufferInit, Window!WindowInit

\* A push slides the window.
LEMMA StoreSlides ==
  ASSUME BufferInv, NEW v \in Values, Store(v)
  PROVE  Window!Slide(v)
<1>0. /\ Contents = Unrolled(m_data, m_popCursor, m_nbNotified)
      /\ Contents' = Unrolled(m_data', m_popCursor', m_nbNotified')
  BY DEF Contents, Unrolled
<1>1. /\ Size > 0 /\ Len(m_data) = Size /\ m_data \in Seq(Items)
      /\ m_pushCursor \in 0 .. Size - 1
      /\ m_popCursor \in 0 .. Size - 1
      /\ m_nbNotified \in 0 .. Size
      /\ m_pushCursor = Forward(m_popCursor, m_nbNotified)
  BY Usable DEF Store
<1>2. /\ m_data' \in Seq(Items) /\ Len(m_data') = Size /\ m_data' # <<>>
      /\ m_data'[m_pushCursor + 1] = v
      /\ \A i \in 1 .. Size : i # m_pushCursor + 1 => m_data'[i] = m_data[i]
  BY StoredData
<1>3. v \in Items
  BY DEF Items
<1>4. (m_data # <<>>) /\ (m_data' # <<>>) /\ m_bReleased' = m_bReleased
  BY <1>2 DEF Store
<1>5. /\ Contents \in Seq(Items) /\ Len(Contents) = m_nbNotified
  BY <1>0, <1>1, UnrolledIsSeq
<1>6. /\ Append(Contents, v) \in Seq(Items)
      /\ Len(Append(Contents, v)) = m_nbNotified + 1
  BY <1>3, <1>5, AppendProperties
<1>7. Contents' = IF m_nbNotified + 1 > Size THEN Tail(Append(Contents, v))
                                             ELSE Append(Contents, v)
  <2>1. CASE m_nbNotified + 1 > Size
    <3>1. /\ m_nbNotified = Size /\ m_nbNotified' = Size
          /\ m_popCursor' = Forward(m_popCursor, 1)
          /\ m_pushCursor = m_popCursor
      BY <1>1, <2>1, SizeAssumption
      DEF Store, OverwriteOrGrow, Increased, Forward
    <3> DEFINE c == Forward(m_popCursor, 1)
               s == Unrolled(m_data, c, Size - 1)
    <3>2. c \in 0 .. Size - 1 /\ Size - 1 \in 0 .. Size - 1 /\ Size \in 1 .. Size
      BY <1>1, SizeAssumption DEF Forward
    <3>3. Forward(c, Size - 1) = m_pushCursor
      BY <1>1, <3>1, SizeAssumption DEF Forward
    <3>4. s = Tail(Contents) /\ Contents # <<>>
      BY <1>0, <1>1, <3>1, <3>2, UnrolledShrinks
    <3>5. Written(m_data, m_data', c, Size - 1, v)
      BY <1>1, <1>2, <1>3, <3>2, <3>3 DEF Written
    <3>6. Unrolled(m_data', c, (Size - 1) + 1) = Append(s, v)
      BY <3>5, UnrolledGrows
    <3>7. (Size - 1) + 1 = Size
      BY SizeAssumption
    <3>8. Contents' = Append(Tail(Contents), v)
      BY <1>0, <3>1, <3>4, <3>6, <3>7
    <3>9. Tail(Append(Contents, v)) = Append(Tail(Contents), v)
      BY <1>5, <3>4, HeadTailAppend
    <3> QED
      BY <2>1, <3>8, <3>9
  <2>2. CASE ~ (m_nbNotified + 1 > Size)
    <3>1. /\ m_nbNotified \in 0 .. Size - 1 /\ m_nbNotified' = m_nbNotified + 1
          /\ m_popCursor' = m_popCursor
      BY <1>1, <2>2, SizeAssumption DEF Store, OverwriteOrGrow
    <3>2. Unrolled(m_data', m_popCursor, m_nbNotified + 1)
            = Append(Unrolled(m_data, m_popCursor, m_nbNotified), v)
      <4>1. Written(m_data, m_data', m_popCursor, m_nbNotified, v)
        BY <1>1, <1>2, <1>3, <3>1 DEF Written
      <4> QED
        BY <4>1, UnrolledGrows, SMT
    <3> QED
      BY <1>0, <2>2, <3>1, <3>2
  <2> QED
    BY <2>1, <2>2
<1> QED
  BY <1>4, <1>6, <1>7 DEF Window!Slide, Window!Newest

\* A pop takes the oldest item of the window.
LEMMA PopTakesOldest ==
  ASSUME BufferInv, DoPop
  PROVE  /\ Window!TakeOldest
         /\ Contents # <<>> /\ Head(Contents) = Oldest /\ Oldest \in Items
<1>0. /\ Contents = Unrolled(m_data, m_popCursor, m_nbNotified)
      /\ Contents' = Unrolled(m_data', m_popCursor', m_nbNotified')
  BY DEF Contents, Unrolled
<1>1. m_data # <<>>
  BY DEF DoPop, BufferInv, BufferTypeOK, CursorsAgree
<1>2. /\ Len(m_data) = Size /\ m_data \in Seq(Items)
      /\ m_popCursor \in 0 .. Size - 1
      /\ m_nbNotified \in 1 .. Size
  BY <1>1, Usable DEF DoPop
<1>3. /\ m_popCursor' = Forward(m_popCursor, 1)
      /\ m_nbNotified' = m_nbNotified - 1
      /\ UNCHANGED <<m_data, m_bReleased>>
  BY <1>2 DEF DoPop, Increased, Forward
<1>4. Contents # <<>> /\ Contents' = Tail(Contents)
  BY <1>0, <1>2, <1>3, UnrolledShrinks
<1>5. Window!TakeOldest
  BY <1>3, <1>4 DEF Window!TakeOldest
<1>6. /\ Contents[1] = m_data[Forward(m_popCursor, 0) + 1]
      /\ Contents \in Seq(Items) /\ Len(Contents) = m_nbNotified
  BY <1>0, <1>2, UnrolledIsSeq
<1>7. Forward(m_popCursor, 0) = m_popCursor
  BY <1>2, SizeAssumption DEF Forward
<1>8. Head(Contents) = Oldest
  BY <1>2, <1>6, <1>7 DEF Oldest
<1>9. Oldest \in Items
  BY <1>2 DEF Oldest
<1> QED
  BY <1>4, <1>5, <1>8, <1>9

\* Every step of the buffer is a step of the window, or changes nothing of it.
LEMMA WindowStep ==
  ASSUME BufferInv, [BufferNext]_bufferVars
  PROVE  [Window!WindowNext]_(Window!windowVars)
<1>0. /\ Contents = Unrolled(m_data, m_popCursor, m_nbNotified)
      /\ Contents' = Unrolled(m_data', m_popCursor', m_nbNotified')
  BY DEF Contents, Unrolled
<1>1. ASSUME NEW v \in Values, Store(v) PROVE Window!Slide(v)
  BY <1>1, StoreSlides
<1>2. CASE StoreNowhere
  BY <1>0, <1>2 DEF StoreNowhere, cursorVars, Window!windowVars
<1>3. CASE DoPop
  BY <1>3, PopTakesOldest DEF Window!WindowNext
<1>4. CASE Clear
  <2>1. Contents' = <<>>
    BY <1>0, <1>4, NothingUnrolled DEF Clear
  <2> QED
    BY <1>4, <2>1 DEF Clear, Window!Empty, Window!WindowNext
<1>5. CASE Release
  BY <1>0, <1>5 DEF Release, cursorVars, Window!Close, Window!WindowNext
<1>6. CASE UNCHANGED bufferVars
  BY <1>0, <1>6 DEF bufferVars, cursorVars, Window!windowVars
<1> QED
  BY <1>1, <1>2, <1>3, <1>4, <1>5, <1>6 DEF BufferNext, Push, Window!WindowNext

\* Whatever is called in whatever order, SharedCircularBuffer holds the newest
\* items, oldest first: for every size, the buffer implements SlidingWindow.
THEOREM BufferImplementsWindow == BufferSpec => ImplementsWindow
<1>1. BufferInit => BufferInv /\ Window!WindowInit
  BY BufferInitInv, WindowInit
<1>2. BufferInv /\ [BufferNext]_bufferVars => BufferInv'
  BY BufferNextInv
<1>3. BufferInv /\ [BufferNext]_bufferVars
        => [Window!WindowNext]_(Window!windowVars)
  BY WindowStep
<1> QED
  BY <1>1, <1>2, <1>3, PTL DEF BufferSpec, ImplementsWindow, Window!WindowSpec

-----------------------------------------------------------------------------
(* The composition: what each step does to the buffer.                     *)

\* pop() takes from the source, or leaves it alone.
LEMMA PopUsesBuffer ==
  ASSUME NEW th \in Threads, PopStep(th)
  PROVE  DoPop \/ UNCHANGED bufferVars
<1>1. CASE SourcePop(th)
  BY <1>1 DEF SourcePop
<1>2. CASE Enter(th) \/ SourceTest(th) \/ SourceSleep(th)
  BY <1>2 DEF Enter, SourceTest, SourceSleep
<1>3. CASE Fill(th) \/ Filled(th)
  BY <1>3 DEF Fill, Filled
<1>4. CASE OwnTest(th) \/ OwnSleep(th) \/ OwnPop(th) \/ Count(th)
  BY <1>4 DEF OwnTest, OwnSleep, OwnPop, Count
<1> QED
  BY <1>1, <1>2, <1>3, <1>4 DEF PopStep

\* Every step uses the buffer as one of the buffer's own steps would.
LEMMA StepOfBuffer ==
  ASSUME pushesLeft \in 0 .. PushBound, [Next]_vars
  PROVE  [BufferNext]_bufferVars /\ pushesLeft' \in 0 .. PushBound
<1>1. CASE UNCHANGED vars
  BY <1>1 DEF vars
<1>2. CASE Next
  <2>0. ~undefined
    BY <1>2 DEF Next
  <2>1. CASE Produce
    <3>1. /\ PushBound - pushesLeft + 1 \in Values
          /\ pushesLeft' \in 0 .. PushBound
      BY <2>1, PushBoundAssumption, ValuesAssumption DEF Produce
    <3>2. Push(PushBound - pushesLeft + 1)
      BY <2>1 DEF Produce, SourcePush
    <3> QED
      BY <2>0, <3>1, <3>2 DEF BufferNext
  <2>2. CASE SubscribeNext
    BY <2>2 DEF SubscribeNext, Subscribe
  <2>3. CASE SourceCleared
    BY <2>0, <2>3 DEF SourceCleared, SourceClear, BufferNext
  <2>4. CASE \E t \in Tasks : CallTask(t)
    BY <2>4 DEF CallTask
  <2>5. CASE AppGoesOn
    BY <2>5 DEF AppGoesOn
  <2>6. CASE Cleanup
    BY <2>6 DEF Cleanup, FlagReleased, NotifyReleased
  <2>7. CASE \E th \in Threads : TaskThread(th)
    BY <2>7 DEF TaskThread
  <2>8. CASE \E th \in Threads : Process(th)
    BY <2>0, <2>8, PopUsesBuffer DEF Process, BufferNext
  <2>9. CASE \E th \in Threads : WokenForNothing(th)
    BY <2>9 DEF WokenForNothing, SpuriousWakeup
  <2>10. CASE \E y \in Threads \union {App} : SwitchTo(y)
    BY <2>10 DEF SwitchTo
  <2>11. CASE FlagsAreSeen
    BY <2>0, <2>11 DEF FlagsAreSeen, FlagSeen, BufferNext
  <2> QED
    BY <1>2, <2>1, <2>2, <2>3, <2>4, <2>5, <2>6, <2>7, <2>8, <2>9, <2>10, <2>11
       DEF Next, AppStep, Step
<1> QED
  BY <1>1, <1>2

\* The buffer of the composition is a CircularBuffer.
LEMMA BufferOfPipeline == Spec => BufferSpec /\ [](pushesLeft \in 0 .. PushBound)
<1>1. Init => BufferInit /\ pushesLeft \in 0 .. PushBound
  BY PushBoundAssumption DEF Init, MultiInit
<1>2. pushesLeft \in 0 .. PushBound /\ [Next]_vars
        => [BufferNext]_bufferVars /\ (pushesLeft \in 0 .. PushBound)'
  BY StepOfBuffer
<1> QED
  BY <1>1, <1>2, PTL DEF Spec, BufferSpec

\* Whatever the tasks, the producer, stop() and clear() do, and however the
\* threads interleave, the source holds the newest items, oldest first, and
\* loses one only to a push that finds it full.
THEOREM SourceIsAWindow == Spec => ImplementsWindow
BY BufferOfPipeline, BufferImplementsWindow, PTL

-----------------------------------------------------------------------------
(* The life cycle of the tasks.                                            *)

\* The record of the application's call has its fields.
AppShape == app = [op |-> app.op, task |-> app.task, todo |-> app.todo]

TaskInv == TaskTypeOK /\ AppShape

\* In the life cycle of a joinable task: the thread that can be joined is that
\* of the last start; a stop that began is still busy as long as there is one;
\* a thread that was spawned finds a promise without its value, and a promise
\* has its value only from the thread of the last start.
LifeCycle ==
  setUp.joinable /\ lawful =>
    \A t \in Tasks :
      /\ m_thread[t] \in {0, starts[t]}
      /\ m_stop[t] /\ m_thread[t] # 0
           => app.op \in {"cleanup", "join"} /\ app.task = t
      /\ \A th \in Live(t) : tpc[th] = "spawned" => m_startedPromise[t] = "fresh"
      /\ m_startedPromise[t] = "set"
           => starts[t] > 0 /\ tpc[Current(t)] \in {"loop", "body", "ended"}

LifeInv == TaskInv /\ OneThreadPerTask /\ LawfulTasksNeverCrash /\ LifeCycle

LEMMA TasksExist == Tasks # {} /\ (CHOOSE t \in Tasks : TRUE) \in Tasks
BY TasksAssumption, NbConsumersAssumption DEF Consumers

LEMMA InitTask == TaskInit => LifeInv
<1> SUFFICES ASSUME TaskInit PROVE LifeInv
  OBVIOUS
<1> USE DEF TaskInit
<1>1. AppShape /\ app.op = "idle" /\ app.task \in Tasks
  BY TasksExist DEF Idle, AppShape
<1>2. TaskTypeOK
  <2>1. 0 \in 0 .. MaxStarts
    BY MaxStartsAssumption
  <2>2. /\ m_thread \in [Tasks -> 0 .. MaxStarts]
        /\ starts \in [Tasks -> 0 .. MaxStarts]
    BY <2>1
  <2> QED
    BY <1>1, <2>2 DEF TaskTypeOK
<1>3. \A t \in Tasks : Live(t) = {}
  BY DEF Live
<1>4. OneThreadPerTask /\ LawfulTasksNeverCrash
  BY <1>3 DEF OneThreadPerTask, LawfulTasksNeverCrash
<1>5. LifeCycle
  BY <1>3 DEF LifeCycle
<1> QED
  BY <1>1, <1>2, <1>4, <1>5 DEF LifeInv, TaskInv

\* The threads of a task, and those that are in process().
LEMMA ThreadsOfTasks ==
  ASSUME TaskInv
  PROVE  /\ \A th \in TaskThreads :
              th[1] \in Tasks /\ th[2] \in 1 .. MaxStarts /\ th = <<th[1], th[2]>>
         /\ \A t \in Tasks, n \in 1 .. MaxStarts : <<t, n>> \in TaskThreads
         /\ \A t \in Tasks : starts[t] > 0 => Current(t) \in TaskThreads
         /\ \A t \in Tasks : m_thread[t] # 0 => Handle(t) \in TaskThreads
<1>1. /\ \A th \in TaskThreads :
           th[1] \in Tasks /\ th[2] \in 1 .. MaxStarts /\ th = <<th[1], th[2]>>
      /\ \A t \in Tasks, n \in 1 .. MaxStarts : <<t, n>> \in TaskThreads
  BY DEF TaskThreads
<1>2. \A t \in Tasks : starts[t] \in 0 .. MaxStarts /\ m_thread[t] \in 0 .. MaxStarts
  BY DEF TaskInv, TaskTypeOK
<1> QED
  BY <1>1, <1>2, MaxStartsAssumption DEF Current, Handle

\* A task whose thread cannot be joined has none.
LEMMA NoHandleNoThread ==
  ASSUME LifeInv, setUp.joinable, ~crashed, NEW t \in Tasks, m_thread[t] = 0
  PROVE  Live(t) = {}
<1>1. Live(t) \subseteq {<<t, 0>>}
  BY DEF LifeInv, OneThreadPerTask, Handle
<1>2. \A th \in Live(t) : th[2] \in 1 .. MaxStarts
  BY ThreadsOfTasks DEF Live, LifeInv
<1> QED
  BY <1>1, <1>2, MaxStartsAssumption

\* An application that keeps to the life cycle starts and destroys tasks that
\* have no thread to join.
LEMMA LawfulMeansJoined ==
  ASSUME LifeInv, setUp.joinable, ~crashed, lawful, NEW t \in Tasks,
         app.op = "idle", ~Started(t)
  PROVE  m_thread[t] = 0 /\ Live(t) = {}
<1>1. starts[t] \in Nat /\ m_stop[t] \in BOOLEAN
  BY DEF LifeInv, TaskInv, TaskTypeOK
<1>2. starts[t] = 0 \/ m_stop[t]
  BY <1>1 DEF Started
<1>3. m_thread[t] = 0
  BY <1>2 DEF LifeInv, LifeCycle
<1> QED
  BY <1>3, NoHandleNoThread

\* start(): the new thread is the only one, and finds a promise of its own.
LEMMA StartKeeps ==
  ASSUME LifeInv, ~crashed, NEW t \in Tasks, Start(t)
  PROVE  LifeInv'
<1>1. /\ app.op = "idle" /\ starts[t] < setUp.starts[t] /\ RenewPromise(t)
      /\ UNCHANGED <<setUp, app, cpu, alive>>
      /\ m_stop' = [m_stop EXCEPT ![t] = FALSE]
      /\ starts' = [starts EXCEPT ![t] = @ + 1]
      /\ tpc' = [tpc EXCEPT ![<<t, starts[t] + 1>>] = "spawned"]
      /\ crashed' = (m_thread[t] # 0)
      /\ m_thread' = [m_thread EXCEPT ![t] = IF setUp.joinable THEN starts[t] + 1 ELSE 0]
      /\ KeepsTo(~Started(t) /\ (setUp.class = "BaseTask" => starts[t] = 0))
  BY DEF Start, AppCalls
<1> PICK n \in 1 .. MaxStarts : n = starts[t] + 1
  BY <1>1, SetUpsAssumption, MaxStartsAssumption DEF LifeInv, TaskInv, TaskTypeOK
<1> PICK new \in TaskThreads : new = <<t, n>>
  BY ThreadsOfTasks DEF LifeInv
<1>2. lawful' \in BOOLEAN /\ (lawful' => lawful /\ ~Started(t))
      /\ (lawful' /\ setUp.class = "BaseTask" => starts[t] = 0)
  BY <1>1 DEF KeepsTo, LifeInv, TaskInv, TaskTypeOK
<1>3. /\ tpc' \in [TaskThreads -> {"none", "spawned", "loop", "body", "ended"}]
      /\ tpc'[new] = "spawned"
      /\ \A th \in TaskThreads : th # new => tpc'[th] = tpc[th]
  BY <1>1 DEF LifeInv, TaskInv, TaskTypeOK
<1>4. /\ starts' \in [Tasks -> 0 .. MaxStarts] /\ starts'[t] = n
      /\ \A u \in Tasks : u # t => starts'[u] = starts[u]
  BY <1>1, MaxStartsAssumption DEF LifeInv, TaskInv, TaskTypeOK
<1>5. /\ m_thread' \in [Tasks -> 0 .. MaxStarts]
      /\ m_thread'[t] = (IF setUp.joinable THEN n ELSE 0)
      /\ \A u \in Tasks : u # t => m_thread'[u] = m_thread[u]
  <2>1. 0 \in 0 .. MaxStarts /\ n \in 0 .. MaxStarts
    BY MaxStartsAssumption
  <2> QED
    BY <1>1, <2>1 DEF LifeInv, TaskInv, TaskTypeOK
<1>6. /\ m_startedPromise' \in [Tasks -> {"fresh", "set"}]
      /\ future' \in [Tasks -> {"none", "valid", "retrieved"}]
      /\ \A u \in Tasks : u # t => m_startedPromise'[u] = m_startedPromise[u]
      /\ setUp.class # "BaseTask" => m_startedPromise'[t] = "fresh"
      /\ setUp.class = "BaseTask" => m_startedPromise'[t] = m_startedPromise[t]
  BY <1>1 DEF RenewPromise, LifeInv, TaskInv, TaskTypeOK
<1>7. /\ m_stop' \in [Tasks -> BOOLEAN] /\ ~m_stop'[t]
      /\ \A u \in Tasks : u # t => m_stop'[u] = m_stop[u]
  BY <1>1 DEF LifeInv, TaskInv, TaskTypeOK
<1>8. TaskInv'
  <2>1. TaskTypeOK'
    BY <1>1, <1>2, <1>3, <1>4, <1>5, <1>6, <1>7 DEF LifeInv, TaskInv, TaskTypeOK
  <2> QED
    BY <1>1, <2>1 DEF LifeInv, TaskInv, AppShape
<1>9. \A u \in Tasks : u # t => Live(u)' = Live(u)
  BY <1>3 DEF Live
<1>10. Live(t) = {} => Live(t)' = {new}
  BY <1>3, ThreadsOfTasks DEF Live, LifeInv
<1>11. OneThreadPerTask'
  <2> SUFFICES ASSUME setUp.joinable, ~crashed', NEW u \in Tasks
               PROVE  Live(u)' \subseteq {Handle(u)'}
    BY <1>1 DEF OneThreadPerTask
  <2>1. CASE u = t
    <3>1. Live(t)' = {new}
      BY <1>1, <1>10, NoHandleNoThread
    <3> QED
      BY <1>5, <2>1, <3>1 DEF Handle
  <2>2. CASE u # t
    BY <1>5, <1>9, <2>2 DEF Handle, LifeInv, OneThreadPerTask
  <2> QED
    BY <2>1, <2>2
<1>12. setUp.joinable /\ lawful' => m_thread[t] = 0 /\ Live(t)' = {new}
  BY <1>1, <1>2, <1>10, LawfulMeansJoined
<1>13. LawfulTasksNeverCrash'
  BY <1>1, <1>12 DEF LawfulTasksNeverCrash
<1>14. LifeCycle'
  <2> SUFFICES ASSUME setUp.joinable, lawful', NEW u \in Tasks
               PROVE  /\ m_thread'[u] \in {0, starts'[u]}
                      /\ m_stop'[u] /\ m_thread'[u] # 0
                           => app.op \in {"cleanup", "join"} /\ app.task = u
                      /\ \A th \in Live(u)' :
                           tpc'[th] = "spawned" => m_startedPromise'[u] = "fresh"
                      /\ m_startedPromise'[u] = "set"
                           => starts'[u] > 0 /\ tpc'[Current(u)'] \in {"loop", "body", "ended"}
    BY <1>1 DEF LifeCycle
  <2>0. LifeCycle /\ lawful
    BY <1>2 DEF LifeInv
  <2>1. CASE u = t
    <3>1. m_startedPromise'[t] = "fresh"
      <4>1. CASE setUp.class # "BaseTask"
        BY <1>6, <4>1
      <4>2. CASE setUp.class = "BaseTask"
        <5>1. starts[t] = 0
          BY <1>2, <4>2
        <5>2. m_startedPromise[t] # "set" /\ m_startedPromise[t] \in {"fresh", "set"}
          BY <2>0, <5>1 DEF LifeCycle, LifeInv, TaskInv, TaskTypeOK
        <5> QED
          BY <1>6, <4>2, <5>2
      <4> QED
        BY <4>1, <4>2
    <3> QED
      BY <1>4, <1>5, <1>7, <2>1, <3>1
  <2>2. CASE u # t
    <3>1. /\ m_thread'[u] = m_thread[u] /\ starts'[u] = starts[u]
          /\ m_stop'[u] = m_stop[u] /\ m_startedPromise'[u] = m_startedPromise[u]
          /\ Live(u)' = Live(u) /\ Current(u)' = Current(u)
      BY <1>4, <1>5, <1>6, <1>7, <1>9, <2>2 DEF Current
    <3>2. \A th \in Live(u) : tpc'[th] = tpc[th]
      BY <1>3, <2>2 DEF Live
    <3>3. starts[u] > 0 => tpc'[Current(u)] = tpc[Current(u)]
      BY <1>3, <2>2, ThreadsOfTasks DEF Current, LifeInv
    <3> QED
      BY <2>0, <3>1, <3>2, <3>3 DEF LifeCycle
  <2> QED
    BY <2>1, <2>2
<1> QED
  BY <1>8, <1>11, <1>13, <1>14 DEF LifeInv

\* Steps of the application that start and join no thread.
LEMMA CallKeeps ==
  ASSUME LifeInv, TaskInv',
         UNCHANGED <<setUp, m_thread, m_startedPromise, starts, tpc>>,
         lawful' => lawful, ~crashed' => ~crashed,
         setUp.joinable /\ lawful' => ~crashed',
         \A u \in Tasks :
           setUp.joinable /\ lawful /\ m_stop'[u] /\ m_thread[u] # 0
             => app'.op \in {"cleanup", "join"} /\ app'.task = u
  PROVE  LifeInv'
<1>1. OneThreadPerTask'
  BY DEF LifeInv, OneThreadPerTask, Live, Handle
<1>2. LawfulTasksNeverCrash'
  BY DEF LawfulTasksNeverCrash
<1>3. LifeCycle'
  BY DEF LifeInv, LifeCycle, Live, Current
<1> QED
  BY <1>1, <1>2, <1>3 DEF LifeInv

\* While the application is in no call, no task is between stop and join.
LEMMA IdleMeansJoined ==
  ASSUME LifeInv, app.op = "idle" \/ app.op = "await", NEW t \in Tasks,
         setUp.joinable, lawful, m_stop[t]
  PROVE  m_thread[t] = 0
BY DEF LifeInv, LifeCycle

\* stop() up to the finalizers.
LEMMA StopKeeps ==
  ASSUME LifeInv, ~crashed, NEW t \in Tasks, Stop(t)
  PROVE  LifeInv'
<1>1. /\ app.op = "idle" /\ m_stop' = [m_stop EXCEPT ![t] = TRUE]
      /\ app' = [op |-> "cleanup", task |-> t, todo |-> setUp.finalizers]
      /\ UNCHANGED <<setUp, m_thread, m_startedPromise, starts, tpc>>
      /\ UNCHANGED <<future, alive, cpu, crashed, lawful>>
  BY DEF Stop, AppCalls
<1>2. TaskInv'
  BY <1>1 DEF LifeInv, TaskInv, TaskTypeOK, AppShape
<1>3. \A u \in Tasks : u # t => m_stop'[u] = m_stop[u]
  BY <1>1 DEF LifeInv, TaskInv, TaskTypeOK
<1>4. \A u \in Tasks :
        setUp.joinable /\ lawful /\ m_stop'[u] /\ m_thread[u] # 0
          => app'.op \in {"cleanup", "join"} /\ app'.task = u
  BY <1>1, <1>3, IdleMeansJoined
<1>5. setUp.joinable /\ lawful' => ~crashed'
  BY <1>1
<1> QED
  BY <1>1, <1>2, <1>4, <1>5, CallKeeps

\* awaitRunning() up to the wait, or to the end if there is nothing to await.
LEMMA AwaitKeeps ==
  ASSUME LifeInv, ~crashed, NEW t \in Tasks, AwaitRunning(t)
  PROVE  LifeInv'
<1>1. /\ app.op = "idle"
      /\ UNCHANGED <<setUp, m_thread, m_startedPromise, starts, tpc>>
      /\ UNCHANGED <<m_stop, alive, cpu, crashed, lawful>>
  BY DEF AwaitRunning, AppCalls
<1>2. \/ UNCHANGED <<future, app>>
      \/ /\ future' = [future EXCEPT ![t] =
                          IF setUp.class = "BaseTask" THEN "retrieved" ELSE @]
         /\ app' = [op |-> "await", task |-> t, todo |-> <<>>]
  BY DEF AwaitRunning
<1>3. TaskInv'
  <2>1. CASE UNCHANGED <<future, app>>
    BY <1>1, <2>1 DEF LifeInv, TaskInv, TaskTypeOK, AppShape
  <2>2. CASE /\ future' = [future EXCEPT ![t] =
                             IF setUp.class = "BaseTask" THEN "retrieved" ELSE @]
             /\ app' = [op |-> "await", task |-> t, todo |-> <<>>]
    BY <1>1, <2>2 DEF LifeInv, TaskInv, TaskTypeOK, AppShape
  <2> QED
    BY <1>2, <2>1, <2>2
<1>4. \A u \in Tasks :
        setUp.joinable /\ lawful /\ m_stop'[u] /\ m_thread[u] # 0
          => app'.op \in {"cleanup", "join"} /\ app'.task = u
  BY <1>1, IdleMeansJoined
<1>5. setUp.joinable /\ lawful' => ~crashed'
  BY <1>1
<1> QED
  BY <1>1, <1>3, <1>4, <1>5, CallKeeps

\* The destructor: in the life cycle there is no thread left to destroy.
LEMMA DestroyKeeps ==
  ASSUME LifeInv, ~crashed, NEW t \in Tasks, Destroy(t)
  PROVE  LifeInv'
<1>1. /\ app.op = "idle" /\ alive' = [alive EXCEPT ![t] = FALSE]
      /\ crashed' = (Live(t) # {} \/ (setUp.class # "BaseTask" /\ m_thread[t] # 0))
      /\ KeepsTo(~Started(t))
      /\ UNCHANGED <<setUp, m_thread, m_startedPromise, starts, tpc>>
      /\ UNCHANGED <<future, cpu>>
  BY DEF Destroy, AppCalls
<1>2. \/ /\ m_stop' = [m_stop EXCEPT ![t] = TRUE]
         /\ app' = [op |-> "cleanup", task |-> t, todo |-> setUp.finalizers]
      \/ UNCHANGED <<m_stop, app>>
  BY DEF Destroy
<1>3. crashed' \in BOOLEAN
  BY <1>1
<1>4. lawful' \in BOOLEAN /\ (lawful' => lawful /\ ~Started(t))
  BY <1>1 DEF KeepsTo, LifeInv, TaskInv, TaskTypeOK
<1>5. m_stop' \in [Tasks -> BOOLEAN] /\ \A u \in Tasks : u # t => m_stop'[u] = m_stop[u]
  BY <1>2 DEF LifeInv, TaskInv, TaskTypeOK
<1>6. app'.op \in {"idle", "cleanup"} /\ app'.task \in Tasks /\ AppShape'
  BY <1>1, <1>2 DEF LifeInv, TaskInv, TaskTypeOK, AppShape
<1>7. TaskInv'
  <2>1. alive' \in [Tasks -> BOOLEAN]
    BY <1>1 DEF LifeInv, TaskInv, TaskTypeOK
  <2>2. TaskTypeOK'
    BY <1>1, <1>3, <1>4, <1>5, <1>6, <2>1 DEF LifeInv, TaskInv, TaskTypeOK
  <2> QED
    BY <1>6, <2>2 DEF TaskInv
<1>8. setUp.joinable /\ lawful' => ~crashed'
  BY <1>1, <1>4, LawfulMeansJoined
<1>9. \A u \in Tasks :
        setUp.joinable /\ lawful /\ m_stop'[u] /\ m_thread[u] # 0
          => app'.op \in {"cleanup", "join"} /\ app'.task = u
  BY <1>1, <1>2, <1>5, IdleMeansJoined
<1> QED
  BY <1>1, <1>4, <1>7, <1>8, <1>9, CallKeeps

\* The application between two statements of a finalizer, at the end of the
\* finalizers, and at the end of a wait.
LEMMA AppGoesOnKeeps ==
  ASSUME LifeInv, ~crashed,
         \/ StopReturnsOrJoins
         \/ AwaitReturns
         \/ /\ app.op = "cleanup" /\ app' = [app EXCEPT !.todo = Tail(@)]
            /\ UNCHANGED <<setUp, lifeVars, tpc, cpu, crashed, lawful>>
  PROVE  LifeInv'
<1>1. /\ UNCHANGED <<setUp, m_thread, m_startedPromise, starts, tpc>>
      /\ UNCHANGED <<m_stop, future, alive, cpu, crashed, lawful>>
  BY DEF StopReturnsOrJoins, AwaitReturns, lifeVars
<1>2. app = [op |-> app.op, task |-> app.task, todo |-> app.todo] /\ app.task \in Tasks
  BY DEF LifeInv, TaskInv, TaskTypeOK, AppShape
<1>3. Idle.op = "idle" /\ Idle.task \in Tasks
      /\ Idle = [op |-> Idle.op, task |-> Idle.task, todo |-> Idle.todo]
  BY TasksExist DEF Idle
<1>4. /\ app'.op \in {"idle", "cleanup", "join"} /\ app'.task \in Tasks /\ AppShape'
      /\ app'.op # "idle" => app'.task = app.task
      /\ app'.op = "idle" /\ app.op = "cleanup"
           => (setUp.joinable => m_thread[app.task] = 0)
      /\ app.op \in {"cleanup", "await"}
      /\ app.op = "await" => app'.op = "idle"
  <2>1. CASE StopReturnsOrJoins
    <3>1. CASE setUp.joinable /\ m_thread[app.task] # 0
      <4>1. app' = [app EXCEPT !.op = "join", !.todo = <<>>] /\ app.op = "cleanup"
        BY <2>1, <3>1 DEF StopReturnsOrJoins, Cleaned
      <4>2. app' = [op |-> "join", task |-> app.task, todo |-> <<>>]
        BY <1>2, <4>1
      <4> QED
        BY <1>2, <4>1, <4>2 DEF AppShape
    <3>2. CASE ~(setUp.joinable /\ m_thread[app.task] # 0)
      <4>1. app' = Idle /\ app.op = "cleanup"
        BY <2>1, <3>2 DEF StopReturnsOrJoins, Cleaned
      <4> QED
        BY <1>3, <3>2, <4>1 DEF AppShape
    <3> QED
      BY <3>1, <3>2
  <2>2. CASE AwaitReturns
    BY <1>3, <2>2 DEF AwaitReturns, AppShape
  <2>3. CASE /\ app.op = "cleanup" /\ app' = [app EXCEPT !.todo = Tail(@)]
    <3>1. app' = [op |-> "cleanup", task |-> app.task, todo |-> Tail(app.todo)]
      BY <1>2, <2>3
    <3> QED
      BY <1>2, <2>3, <3>1 DEF AppShape
  <2> QED
    BY <2>1, <2>2, <2>3
<1>5. TaskInv'
  <2>1. TaskTypeOK'
    BY <1>1, <1>4 DEF LifeInv, TaskInv, TaskTypeOK
  <2> QED
    BY <1>4, <2>1 DEF TaskInv
<1>6. \A u \in Tasks :
        setUp.joinable /\ lawful /\ m_stop'[u] /\ m_thread[u] # 0
          => app'.op \in {"cleanup", "join"} /\ app'.task = u
  BY <1>1, <1>4 DEF LifeInv, LifeCycle
<1>7. setUp.joinable /\ lawful' => ~crashed'
  BY <1>1
<1> QED
  BY <1>1, <1>5, <1>6, <1>7, CallKeeps

\* stop() returns from the join: the thread has ended.
LEMMA JoinKeeps ==
  ASSUME LifeInv, ~crashed, Join
  PROVE  LifeInv'
<1> PICK t \in Tasks : t = app.task
  BY DEF LifeInv, TaskInv, TaskTypeOK
<1>1. /\ tpc[Handle(t)] = "ended" /\ app' = Idle
      /\ m_thread' = [m_thread EXCEPT ![t] = 0]
      /\ UNCHANGED <<setUp, m_stop, m_startedPromise, future, starts, alive, tpc,
                     cpu, crashed, lawful>>
  BY DEF Join, Joined
<1>2. /\ m_thread' \in [Tasks -> 0 .. MaxStarts] /\ m_thread'[t] = 0
      /\ \A u \in Tasks : u # t => m_thread'[u] = m_thread[u]
  BY <1>1, MaxStartsAssumption DEF LifeInv, TaskInv, TaskTypeOK
<1>3. app'.op = "idle" /\ app'.task \in Tasks /\ AppShape'
  BY <1>1, TasksExist DEF Idle, AppShape
<1>4. TaskInv'
  <2>1. TaskTypeOK'
    BY <1>1, <1>2, <1>3 DEF LifeInv, TaskInv, TaskTypeOK
  <2> QED
    BY <1>3, <2>1 DEF TaskInv
<1>5. \A u \in Tasks : Live(u)' = Live(u)
  BY <1>1 DEF Live
<1>6. OneThreadPerTask'
  <2> SUFFICES ASSUME setUp.joinable, NEW u \in Tasks
               PROVE  Live(u) \subseteq {Handle(u)'}
    BY <1>1, <1>5 DEF OneThreadPerTask
  <2>1. Live(u) \subseteq {Handle(u)}
    BY DEF LifeInv, OneThreadPerTask
  <2>2. CASE u = t
    BY <1>1, <2>1, <2>2 DEF Live
  <2>3. CASE u # t
    BY <1>2, <2>1, <2>3 DEF Handle
  <2> QED
    BY <2>2, <2>3
<1>7. LawfulTasksNeverCrash'
  BY <1>1 DEF LawfulTasksNeverCrash
<1>8. LifeCycle'
  <2> SUFFICES ASSUME setUp.joinable, lawful, NEW u \in Tasks
               PROVE  /\ m_thread'[u] \in {0, starts[u]}
                      /\ m_stop[u] => m_thread'[u] = 0
                      /\ \A th \in Live(u) :
                           tpc[th] = "spawned" => m_startedPromise[u] = "fresh"
                      /\ m_startedPromise[u] = "set"
                           => starts[u] > 0 /\ tpc[Current(u)] \in {"loop", "body", "ended"}
    BY <1>1, <1>5 DEF LifeCycle, Current
  <2>1. LifeCycle
    BY DEF LifeInv
  <2>2. CASE u = t
    BY <1>2, <2>1, <2>2 DEF LifeCycle
  <2>3. CASE u # t
    BY <1>2, <2>1, <2>3 DEF LifeCycle
  <2> QED
    BY <2>2, <2>3
<1> QED
  BY <1>4, <1>6, <1>7, <1>8 DEF LifeInv

\* A thread that is past its promise goes on in process().
LEMMA LoopKeeps ==
  ASSUME LifeInv, ~crashed, NEW th \in TaskThreads, tpc[th] \in {"loop", "body"},
         NEW x \in {"loop", "body", "ended"}, tpc' = [tpc EXCEPT ![th] = x],
         UNCHANGED <<setUp, lifeVars, app, cpu, crashed, lawful>>
  PROVE  LifeInv'
<1>1. /\ tpc' \in [TaskThreads -> {"none", "spawned", "loop", "body", "ended"}]
      /\ tpc'[th] = x
      /\ \A tx \in TaskThreads : tx # th => tpc'[tx] = tpc[tx]
  BY DEF LifeInv, TaskInv, TaskTypeOK
<1>2. TaskInv'
  BY <1>1 DEF LifeInv, TaskInv, TaskTypeOK, AppShape, lifeVars
<1>3. \A t \in Tasks : Live(t)' \subseteq Live(t)
  BY <1>1 DEF Live
<1>4. OneThreadPerTask'
  BY <1>3 DEF LifeInv, OneThreadPerTask, Handle, lifeVars
<1>5. LawfulTasksNeverCrash'
  BY DEF LifeInv, LawfulTasksNeverCrash
<1>6. LifeCycle'
  <2> SUFFICES ASSUME setUp.joinable, lawful, NEW t \in Tasks
               PROVE  /\ m_thread[t] \in {0, starts[t]}
                      /\ m_stop[t] /\ m_thread[t] # 0
                           => app.op \in {"cleanup", "join"} /\ app.task = t
                      /\ \A tx \in Live(t)' :
                           tpc'[tx] = "spawned" => m_startedPromise[t] = "fresh"
                      /\ m_startedPromise[t] = "set"
                           => starts[t] > 0 /\ tpc'[Current(t)] \in {"loop", "body", "ended"}
    BY DEF LifeCycle, Current, lifeVars
  <2>1. LifeCycle
    BY DEF LifeInv
  <2>2. \A tx \in Live(t)' :
          tpc'[tx] = "spawned" => m_startedPromise[t] = "fresh"
    BY <1>1, <1>3, <2>1 DEF LifeCycle, Live
  <2>3. m_startedPromise[t] = "set"
          => starts[t] > 0 /\ tpc'[Current(t)] \in {"loop", "body", "ended"}
    BY <1>1, <2>1, ThreadsOfTasks DEF LifeCycle, LifeInv
  <2> QED
    BY <2>1, <2>2, <2>3 DEF LifeCycle
<1> QED
  BY <1>2, <1>4, <1>5, <1>6 DEF LifeInv

\* process() signals that it runs: in the life cycle its promise has no value.
LEMMA SignalKeeps ==
  ASSUME LifeInv, ~crashed, NEW th \in TaskThreads, SignalRunning(th)
  PROVE  LifeInv'
<1> PICK t \in Tasks : t = th[1]
  BY ThreadsOfTasks DEF LifeInv
<1>1. /\ tpc[th] = "spawned" /\ Signal(th) /\ th \in Live(t)
      /\ UNCHANGED <<setUp, m_stop, m_thread, future, starts, alive, app, cpu, lawful>>
  BY DEF SignalRunning, Live
<1>2. CASE m_startedPromise[t] = "set"
  <2>1. crashed' = TRUE /\ UNCHANGED <<m_startedPromise, tpc>>
    BY <1>1, <1>2 DEF Signal
  <2>2. TaskInv'
    BY <1>1, <2>1 DEF LifeInv, TaskInv, TaskTypeOK, AppShape
  <2>3. ~(setUp.joinable /\ lawful)
    BY <1>1, <1>2 DEF LifeInv, LifeCycle
  <2> QED
    BY <1>1, <2>1, <2>2, <2>3
       DEF LifeInv, OneThreadPerTask, LawfulTasksNeverCrash, LifeCycle
<1>3. CASE m_startedPromise[t] # "set"
  <2>1. /\ m_startedPromise' = [m_startedPromise EXCEPT ![t] = "set"]
        /\ tpc' = [tpc EXCEPT ![th] = "loop"]
        /\ UNCHANGED crashed
    BY <1>1, <1>3 DEF Signal
  <2>2. /\ tpc' \in [TaskThreads -> {"none", "spawned", "loop", "body", "ended"}]
        /\ tpc'[th] = "loop"
        /\ \A tx \in TaskThreads : tx # th => tpc'[tx] = tpc[tx]
    BY <2>1 DEF LifeInv, TaskInv, TaskTypeOK
  <2>3. /\ m_startedPromise' \in [Tasks -> {"fresh", "set"}]
        /\ \A u \in Tasks : u # t => m_startedPromise'[u] = m_startedPromise[u]
    BY <2>1 DEF LifeInv, TaskInv, TaskTypeOK
  <2>4. TaskInv'
    BY <1>1, <2>1, <2>2, <2>3 DEF LifeInv, TaskInv, TaskTypeOK, AppShape
  <2>5. \A u \in Tasks : Live(u)' = Live(u)
    BY <1>1, <2>2 DEF Live
  <2>6. OneThreadPerTask'
    BY <1>1, <2>1, <2>5 DEF LifeInv, OneThreadPerTask, Handle
  <2>7. LawfulTasksNeverCrash'
    BY <1>1, <2>1 DEF LifeInv, LawfulTasksNeverCrash
  <2>8. LifeCycle'
    <3> SUFFICES ASSUME setUp.joinable, lawful, NEW u \in Tasks
                 PROVE  /\ m_thread[u] \in {0, starts[u]}
                        /\ m_stop[u] /\ m_thread[u] # 0
                             => app.op \in {"cleanup", "join"} /\ app.task = u
                        /\ \A tx \in Live(u) :
                             tpc'[tx] = "spawned" => m_startedPromise'[u] = "fresh"
                        /\ m_startedPromise'[u] = "set"
                             => starts[u] > 0 /\ tpc'[Current(u)] \in {"loop", "body", "ended"}
      BY <1>1, <2>5 DEF LifeCycle, Current
    <3>1. LifeCycle
      BY DEF LifeInv
    <3>2. Live(u) \subseteq {Handle(u)}
      BY DEF LifeInv, OneThreadPerTask
    <3>3. CASE u = t
      <4>1. Live(u) = {th} /\ th = Handle(u)
        BY <1>1, <3>2, <3>3
      <4>2. m_thread[u] # 0 /\ starts[u] > 0 /\ th = Current(u)
        <5>1. th[2] = m_thread[u] /\ th[2] \in 1 .. MaxStarts
          BY <4>1, ThreadsOfTasks DEF Handle, LifeInv
        <5>2. m_thread[u] # 0 /\ m_thread[u] > 0
          BY <5>1, MaxStartsAssumption
        <5> QED
          BY <3>1, <4>1, <5>2 DEF LifeCycle, Current, Handle
      <4> QED
        BY <2>2, <3>1, <4>1, <4>2 DEF LifeCycle
    <3>4. CASE u # t
      <4>1. \A tx \in Live(u) : tpc'[tx] = tpc[tx]
        BY <2>2, <3>4 DEF Live
      <4>2. starts[u] > 0 => tpc'[Current(u)] = tpc[Current(u)]
        BY <2>2, <3>4, ThreadsOfTasks DEF Current, LifeInv
      <4> QED
        BY <2>3, <3>1, <3>4, <4>1, <4>2 DEF LifeCycle
    <3> QED
      BY <3>3, <3>4
  <2> QED
    BY <2>4, <2>6, <2>7, <2>8 DEF LifeInv
<1> QED
  BY <1>2, <1>3

\* No step leaves the invariant; the consumers and the queues touch the tasks
\* only where the processing function goes on.
LEMMA LifeStep ==
  ASSUME LifeInv, [Next]_vars
  PROVE  LifeInv'
<1>1. ASSUME UNCHANGED taskVars PROVE LifeInv'
  <2>1. /\ UNCHANGED <<setUp, m_stop, m_thread, m_startedPromise, future, starts>>
        /\ UNCHANGED <<alive, tpc, app, cpu, crashed, lawful>>
    BY <1>1 DEF taskVars, lifeVars
  <2>2. TaskInv'
    BY <2>1 DEF LifeInv, TaskInv, TaskTypeOK, AppShape
  <2> QED
    BY <2>1, <2>2
       DEF LifeInv, OneThreadPerTask, LawfulTasksNeverCrash, LifeCycle, Live, Handle, Current
<1>2. CASE UNCHANGED vars
  BY <1>1, <1>2 DEF vars
<1>3. CASE Next
  <2>0. ~crashed
    BY <1>3 DEF Next
  <2>1. CASE Produce \/ SubscribeNext \/ SourceCleared \/ FlagsAreSeen
    BY <1>1, <2>1 DEF Produce, SubscribeNext, SourceCleared, FlagsAreSeen
  <2>2. CASE \E t \in Tasks : CallTask(t)
    BY <2>0, <2>2, StartKeeps, StopKeeps, AwaitKeeps, DestroyKeeps
       DEF CallTask, AppCall
  <2>3. CASE AppGoesOn
    BY <2>0, <2>3, AppGoesOnKeeps, JoinKeeps DEF AppGoesOn, AppReturns
  <2>4. CASE Cleanup
    <3>1. /\ app.op = "cleanup" /\ app' = [app EXCEPT !.todo = Tail(@)]
          /\ UNCHANGED <<setUp, lifeVars, tpc, cpu, crashed, lawful>>
      BY <2>4 DEF Cleanup
    <3> QED
      BY <2>0, <3>1, AppGoesOnKeeps
  <2>5. ASSUME NEW th \in Threads, TaskThread(th) PROVE LifeInv'
    <3>1. CASE SignalRunning(th)
      BY <2>0, <3>1, SignalKeeps, TasksAssumption
    <3>2. CASE LoopTest(th)
      <4>1. /\ tpc[th] = "loop" /\ AfterTest(th[1]) \in {"loop", "body", "ended"}
            /\ tpc' = [tpc EXCEPT ![th] = AfterTest(th[1])]
            /\ UNCHANGED <<setUp, lifeVars, app, cpu, crashed, lawful>>
        BY <3>2 DEF LoopTest, AfterTest
      <4> QED
        BY <2>0, <4>1, LoopKeeps, TasksAssumption
    <3> QED
      BY <2>5, <3>1, <3>2 DEF TaskThread, ThreadStep
  <2>6. ASSUME NEW th \in Threads, Process(th) PROVE LifeInv'
    <3>1. /\ tpc[th] = "body"
          /\ tpc' = [tpc EXCEPT ![th] = IF mpc'[th] = "out" THEN "loop" ELSE "body"]
          /\ UNCHANGED <<setUp, lifeVars, app, cpu, crashed, lawful>>
      BY <2>6 DEF Process
    <3> PICK x \in {"loop", "body", "ended"} :
             x = (IF mpc'[th] = "out" THEN "loop" ELSE "body")
      OBVIOUS
    <3> QED
      BY <2>0, <3>1, LoopKeeps, TasksAssumption
  <2>7. CASE \E th \in Threads : WokenForNothing(th)
    BY <1>1, <2>7 DEF WokenForNothing
  <2>8. ASSUME NEW y \in Threads \union {App}, SwitchTo(y) PROVE LifeInv'
    <3>1. /\ cpu' = y
          /\ UNCHANGED <<setUp, m_stop, m_thread, m_startedPromise, future, starts>>
          /\ UNCHANGED <<alive, tpc, app, crashed, lawful>>
      BY <2>8 DEF SwitchTo, lifeVars
    <3>2. TaskInv'
      BY <3>1, TasksAssumption DEF LifeInv, TaskInv, TaskTypeOK, AppShape
    <3> QED
      BY <3>1, <3>2
         DEF LifeInv, OneThreadPerTask, LawfulTasksNeverCrash, LifeCycle, Live, Handle, Current
  <2> QED
    BY <1>3, <2>1, <2>2, <2>3, <2>4, <2>5, <2>6, <2>7, <2>8 DEF Next, AppStep, Step
<1> QED
  BY <1>2, <1>3

LEMMA LifeInvariant == Spec => []LifeInv
<1>1. Init => LifeInv
  BY InitTask DEF Init
<1>2. LifeInv /\ [Next]_vars => LifeInv'
  BY LifeStep
<1> QED
  BY <1>1, <1>2, PTL DEF Spec

\* A joinable task never has two threads in process(), whatever the
\* application calls, until it has terminated the program: start() returns only
\* if m_thread is not joinable, and only the join of stop() makes it so.
THEOREM TasksHaveOneThread == Spec => []OneThreadPerTask
BY LifeInvariant, PTL DEF LifeInv

\* An application that starts what does not run, a BaseTask once, and destroys
\* what does not run, never reaches std::terminate or a task that is gone: no
\* promise is set twice, no thread that can be joined assigned or destroyed.
THEOREM LawfulNeverCrash == Spec => []LawfulTasksNeverCrash
BY LifeInvariant, PTL DEF LifeInv

AwaitedStep ==
  \A t \in Tasks :
    setUp.joinable /\ lawful /\ app.op = "await" /\ app.task = t
      /\ app'.op = "idle"
      => tpc[Current(t)] \in {"loop", "body", "ended"}

\* Only the promise of the last start lets awaitRunning() return.
LEMMA AwaitedByLast ==
  ASSUME LifeInv, [Next]_vars
  PROVE  [AwaitedStep]_app
<1>1. CASE AwaitReturns
  <2>1. \A t \in Tasks : app.task = t => m_startedPromise[t] = "set"
    BY <1>1 DEF AwaitReturns
  <2> QED
    BY <2>1 DEF AwaitedStep, LifeInv, LifeCycle
<1>2. CASE app.op # "await"
  BY <1>2 DEF AwaitedStep
<1>3. CASE UNCHANGED app
  BY <1>3
<1>4. app.op # "await" \/ UNCHANGED app \/ AwaitReturns
  <2>1. CASE UNCHANGED vars
    BY <2>1 DEF vars, taskVars
  <2>2. CASE Produce \/ SubscribeNext \/ SourceCleared \/ FlagsAreSeen
    BY <2>2 DEF Produce, SubscribeNext, SourceCleared, FlagsAreSeen, taskVars
  <2>3. CASE \E t \in Tasks : CallTask(t)
    BY <2>3 DEF CallTask, AppCall, Start, Stop, AwaitRunning, Destroy, AppCalls
  <2>4. CASE AppGoesOn \/ Cleanup
    BY <2>4 DEF AppGoesOn, AppReturns, StopReturnsOrJoins, Cleaned, Join, Cleanup
  <2>5. CASE \E th \in Threads : TaskThread(th) \/ Process(th) \/ WokenForNothing(th)
    BY <2>5 DEF TaskThread, ThreadStep, SignalRunning, LoopTest, Process,
       WokenForNothing, taskVars
  <2>6. CASE \E y \in Threads \union {App} : SwitchTo(y)
    BY <2>6 DEF SwitchTo
  <2> QED
    BY <2>1, <2>2, <2>3, <2>4, <2>5, <2>6 DEF Next, AppStep, Step
<1> QED
  BY <1>1, <1>2, <1>3, <1>4

\* When awaitRunning() returns from a task in its life cycle, the thread of the
\* last start has run: no promise keeps the value of an earlier start.
THEOREM AwaitingMeansStarted == Spec => AwaitedHasStarted
<1>1. LifeInv /\ [Next]_vars => [AwaitedStep]_app
  BY AwaitedByLast
<1>2. Spec => [][AwaitedStep]_app
  BY <1>1, LifeInvariant, PTL DEF Spec
<1> QED
  BY <1>2 DEF AwaitedHasStarted, AwaitedStep

-----------------------------------------------------------------------------
(* The consumers: types.                                                   *)

Labels == {"out", "source", "sourceFalls", "sourceAsleep", "publish",
           "own", "ownFalls", "ownAsleep", "count"}

\* The variables of the MultiConsumer itself.
ConsumersTypeOK ==
  /\ m_bFirstInit \in BOOLEAN
  /\ m_nbConsumed \in 0 .. NbConsumers - 1
  /\ m_currentSubscriberID \in 0 .. NbConsumers
  /\ buffers \in [Consumers -> Seq(Items)]
  /\ released \in [Consumers -> BOOLEAN]
  /\ stored \in [Queues -> BOOLEAN]
  /\ mpc \in [Threads -> Labels]
  /\ filling \in [value : Items, next : 1 .. NbConsumers + 1]

MultiInv == BufferInv /\ ConsumersTypeOK

\* One thread goes on.
LEMMA Moves ==
  ASSUME ConsumersTypeOK, NEW th \in Threads, NEW label \in Labels, Goes(th, label)
  PROVE  /\ mpc' \in [Threads -> Labels]
         /\ mpc'[th] = label
         /\ \A tx \in Threads : tx # th => mpc'[tx] = mpc[tx]
BY DEF Goes, ConsumersTypeOK

\* A notification moves one sleeper at most.
LEMMA Notifies ==
  ASSUME ConsumersTypeOK, NEW sleepers \in SUBSET Threads, NEW retry \in Labels,
         Wakes(sleepers, retry)
  PROVE  /\ mpc' \in [Threads -> Labels]
         /\ \A th \in Threads :
              mpc'[th] = mpc[th] \/ (th \in sleepers /\ mpc'[th] = retry)
<1>1. CASE sleepers = {}
  BY <1>1 DEF Wakes, ConsumersTypeOK
<1>2. ASSUME NEW th \in sleepers, Goes(th, retry)
      PROVE  /\ mpc' \in [Threads -> Labels]
             /\ \A tx \in Threads :
                  mpc'[tx] = mpc[tx] \/ (tx \in sleepers /\ mpc'[tx] = retry)
  BY <1>2, Moves
<1> QED
  BY <1>1, <1>2 DEF Wakes

LEMMA InitConsumers == MultiInit => MultiInv
<1> SUFFICES ASSUME MultiInit PROVE MultiInv
  OBVIOUS
<1>1. BufferInv
  BY BufferInitInv DEF MultiInit
<1>2. Default \in Items /\ 0 \in 0 .. NbConsumers - 1 /\ 1 \in 1 .. NbConsumers + 1
      /\ 0 \in 0 .. NbConsumers
  BY NbConsumersAssumption DEF Items
<1>3. filling \in [value : Items, next : 1 .. NbConsumers + 1]
  BY <1>2 DEF MultiInit, NotFilling
<1> QED
  BY <1>1, <1>2, <1>3 DEF MultiInit, MultiInv, ConsumersTypeOK, Labels

\* The steps of pop() keep the types of what they change.
LEMMA PopTypes ==
  ASSUME MultiInv, NEW th \in Threads, PopStep(th)
  PROVE  ConsumersTypeOK'
<1> USE DEF MultiInv, flagVars
<1>0. /\ NbConsumers \in Nat \ {0} /\ Default \in Items
      /\ 0 \in 0 .. NbConsumers - 1 /\ 1 \in 1 .. NbConsumers + 1
      /\ ConsumerOf[th] \in Consumers
  BY NbConsumersAssumption, ConsumerOfAssumption DEF Items
<1>1. CASE Enter(th)
  <2>1. PICK label \in Labels :
          Goes(th, label) /\ (m_nbConsumed' = 0 \/ UNCHANGED m_nbConsumed)
    BY <1>1 DEF Enter, StartInit, Labels
  <2> QED
    BY <1>0, <1>1, <2>1, Moves DEF Enter, ConsumersTypeOK
<1>2. CASE SourceTest(th)
  BY <1>2, Moves DEF SourceTest, Labels, roundVars, ConsumersTypeOK
<1>3. CASE SourceSleep(th)
  BY <1>3, Moves DEF SourceSleep, Labels, roundVars, ConsumersTypeOK
<1>4. CASE SourcePop(th)
  <2>1. filling' \in [value : Items, next : 1 .. NbConsumers + 1]
    BY <1>0, <1>4, PopTakesOldest DEF SourcePop
  <2>2. mpc' \in [Threads -> Labels]
    BY <1>4, Moves DEF SourcePop, Labels
  <2> QED
    BY <1>4, <2>1, <2>2 DEF SourcePop, roundVars, ConsumersTypeOK
<1>5. CASE Fill(th)
  <2> PICK c \in Consumers : c = filling.next
    BY <1>5 DEF Fill
  <2>1. /\ buffers' = [buffers EXCEPT ![c] = Append(@, filling.value)]
        /\ filling' = [filling EXCEPT !.next = c + 1]
        /\ Wakes(OwnSleepers(c), "own")
        /\ UNCHANGED <<m_bFirstInit, m_nbConsumed, m_currentSubscriberID, flagVars>>
    BY <1>5 DEF Fill, roundVars
  <2>2. buffers[c] \in Seq(Items) /\ filling.value \in Items
    BY DEF ConsumersTypeOK
  <2>3. Append(buffers[c], filling.value) \in Seq(Items)
    BY <2>2
  <2>4. c + 1 \in 1 .. NbConsumers + 1
    BY <1>0 DEF Consumers
  <2>5. mpc' \in [Threads -> Labels]
    BY <2>1, Notifies DEF OwnSleepers, Labels
  <2> QED
    BY <2>1, <2>3, <2>4, <2>5 DEF ConsumersTypeOK
<1>6. CASE Filled(th)
  <2>1. filling' \in [value : Items, next : 1 .. NbConsumers + 1]
    BY <1>0, <1>6 DEF Filled, NotFilling
  <2>2. PICK label \in Labels : Goes(th, label)
    BY <1>6 DEF Filled, Labels
  <2> QED
    BY <1>6, <2>1, <2>2, Moves DEF Filled, ConsumersTypeOK
<1>7. CASE OwnTest(th)
  <2>1. PICK label \in Labels : Goes(th, label)
    BY <1>7 DEF OwnTest, Labels
  <2> QED
    BY <1>7, <2>1, Moves DEF OwnTest, roundVars, ConsumersTypeOK
<1>8. CASE OwnSleep(th)
  BY <1>8, Moves DEF OwnSleep, Labels, roundVars, ConsumersTypeOK
<1>9. CASE OwnPop(th)
  <2> PICK c \in Consumers : c = ConsumerOf[th]
    BY <1>0
  <2>1. buffers' = [buffers EXCEPT ![c] = Tail(@)] /\ buffers[c] # <<>>
    BY <1>9 DEF OwnPop
  <2>2. Tail(buffers[c]) \in Seq(Items)
    BY <2>1 DEF ConsumersTypeOK
  <2>3. buffers' \in [Consumers -> Seq(Items)]
    BY <2>1, <2>2 DEF ConsumersTypeOK
  <2>4. mpc' \in [Threads -> Labels]
    BY <1>9, Moves DEF OwnPop, Labels
  <2> QED
    BY <1>9, <2>3, <2>4 DEF OwnPop, roundVars, ConsumersTypeOK
<1>10. CASE Count(th)
  <2>1. m_nbConsumed' \in 0 .. NbConsumers - 1
    BY <1>0, <1>10 DEF Count, CompletesRound, StartInit, ConsumersTypeOK
  <2>2. PICK label \in Labels : Goes(th, label)
    BY <1>10 DEF Count, StartInit, Labels
  <2> QED
    BY <1>10, <2>1, <2>2, Moves DEF Count, ConsumersTypeOK
<1> QED
  BY <1>1, <1>2, <1>3, <1>4, <1>5, <1>6, <1>7, <1>8, <1>9, <1>10 DEF PopStep

\* So do all steps.
LEMMA MultiStep ==
  ASSUME MultiInv, pushesLeft \in 0 .. PushBound, [Next]_vars
  PROVE  MultiInv'
<1> USE DEF MultiInv
<1>0. BufferInv'
  BY StepOfBuffer, BufferNextInv
<1>1. CASE UNCHANGED vars \/ SourceCleared \/ (\E t \in Tasks : CallTask(t)) \/ AppGoesOn
           \/ (\E th \in Threads : TaskThread(th)) \/ (\E y \in Threads \union {App} : SwitchTo(y))
  <2>1. UNCHANGED <<multiVars>>
    BY <1>1 DEF vars, SourceCleared, SourceClear, CallTask, AppGoesOn, TaskThread, SwitchTo
  <2>2. /\ UNCHANGED <<m_bFirstInit, m_nbConsumed, m_currentSubscriberID>>
        /\ UNCHANGED <<buffers, released, stored, mpc, filling>>
    BY <2>1 DEF multiVars, roundVars, flagVars
  <2> QED
    BY <1>0, <2>2 DEF ConsumersTypeOK
<1>2. CASE Produce
  <2>1. /\ UNCHANGED <<m_bFirstInit, m_nbConsumed, m_currentSubscriberID>>
        /\ UNCHANGED <<buffers, released, stored, filling>>
        /\ Wakes(SourceSleepers, "source")
    BY <1>2 DEF Produce, SourcePush, roundVars, flagVars
  <2>2. mpc' \in [Threads -> Labels]
    BY <2>1, Notifies DEF SourceSleepers, Labels
  <2> QED
    BY <1>0, <2>1, <2>2 DEF ConsumersTypeOK
<1>3. CASE SubscribeNext
  <2>1. /\ UNCHANGED <<m_bFirstInit, m_nbConsumed, buffers, released, stored, mpc, filling>>
        /\ m_currentSubscriberID < NbConsumers
        /\ m_currentSubscriberID' = m_currentSubscriberID + 1
    BY <1>3 DEF SubscribeNext, Subscribe, roundVars, flagVars
  <2> QED
    BY <1>0, <2>1, NbConsumersAssumption DEF ConsumersTypeOK
<1>4. CASE Cleanup
  <2>1. PICK target : FlagReleased(target) \/ NotifyReleased(target)
    BY <1>4 DEF Cleanup
  <2>2. CASE FlagReleased(target)
    <3>1. stored' \in [Queues -> BOOLEAN]
      BY <2>2 DEF FlagReleased, ConsumersTypeOK
    <3> QED
      BY <1>0, <2>2, <3>1 DEF FlagReleased, roundVars, ConsumersTypeOK
  <2>3. CASE NotifyReleased(target)
    <3>1. mpc' \in [Threads -> Labels]
      BY <2>3 DEF NotifyReleased, ConsumersTypeOK, Labels
    <3> QED
      BY <1>0, <2>3, <3>1 DEF NotifyReleased, roundVars, flagVars, ConsumersTypeOK
  <2> QED
    BY <2>1, <2>2, <2>3
<1>5. CASE \E th \in Threads : Process(th)
  BY <1>0, <1>5, PopTypes DEF Process
<1>6. CASE \E th \in Threads : WokenForNothing(th)
  <2>1. PICK th \in Threads, label \in Labels :
          Goes(th, label) /\ SpuriousWakeup(th)
    BY <1>6 DEF WokenForNothing, SpuriousWakeup, Labels
  <2> QED
    BY <1>0, <2>1, Moves DEF SpuriousWakeup, roundVars, flagVars, ConsumersTypeOK
<1>7. CASE FlagsAreSeen
  <2>1. PICK q \in Queues : FlagSeen(q)
    BY <1>7 DEF FlagsAreSeen
  <2>2. released' \in [Consumers -> BOOLEAN]
    BY <2>1 DEF FlagSeen, ConsumersTypeOK
  <2> QED
    BY <1>0, <2>1, <2>2 DEF FlagSeen, roundVars, ConsumersTypeOK
<1> QED
  BY <1>1, <1>2, <1>3, <1>4, <1>5, <1>6, <1>7 DEF Next, AppStep, Step

LEMMA MultiInvariant == Spec => []MultiInv
<1>1. Init => MultiInv
  BY InitConsumers DEF Init
<1>2. MultiInv /\ pushesLeft \in 0 .. PushBound /\ [Next]_vars => MultiInv'
  BY MultiStep
<1> QED
  BY <1>1, <1>2, BufferOfPipeline, PTL DEF Spec

\* Type correctness of the composition; the item that init() hands round is
\* always one of the deque or a default value, although the deque can lose its
\* length in a clear().
THEOREM TypeCorrect == Spec => []TypeOK
<1>1. LifeInv /\ MultiInv /\ pushesLeft \in 0 .. PushBound => TypeOK
  BY DEF LifeInv, TaskInv, MultiInv, BufferInv, ConsumersTypeOK, Labels, MultiTypeOK, TypeOK
<1> QED
  BY <1>1, LifeInvariant, MultiInvariant, BufferOfPipeline, PTL

-----------------------------------------------------------------------------
(* The rounds of the consumers.                                            *)

\* The threads that fill the buffers or wait for what they fill them with,
\* those that are after their item, and those that have it and did not count.
InSource == {th \in Threads : mpc[th] \in {"source", "sourceFalls", "sourceAsleep"}}
Publishing == {th \in Threads : mpc[th] = "publish"}
Taking == {th \in Threads : mpc[th] \in {"own", "ownFalls", "ownAsleep"}}
Counting == {th \in Threads : mpc[th] = "count"}

\* The consumers that have not taken the item of the round.
Waiting == {c \in Consumers : ToTake[c] # <<>>}

\* No item is out: none was popped yet, or the next one is about to be.
Between == InSource # {} \/ (m_bFirstInit /\ Publishing = {})

\* init() runs in one thread.
OneInInit == \A th, tx \in InSource \union Publishing : th = tx

\* Until the first init() has ended, everybody else is in front of pop().
FirstRound == m_bFirstInit => Taking = {} /\ Counting = {}

\* An item that is out is in front of every consumer at most once, and the
\* consumers that have it to take, those that have it, and those counted, are
\* all the consumers: the three are guarded by different locks.
RoundAccounted ==
  IF Between
    THEN /\ m_nbConsumed = 0 /\ Counting = {}
         /\ \A c \in Consumers : buffers[c] = <<>>
    ELSE /\ m_nbConsumed + Cardinality(Counting) + Cardinality(Waiting) = NbConsumers
         /\ \A c \in Consumers : Len(ToTake[c]) <= 1

RoundInv == OneInInit /\ FirstRound /\ RoundAccounted

\* The threads and the consumers can be counted.
LEMMA ThreadsAreFinite ==
  /\ IsFiniteSet(Threads) /\ IsFiniteSet(Consumers)
  /\ Cardinality(Consumers) = NbConsumers
<1>1. IsFiniteSet(Consumers) /\ Cardinality(Consumers) = NbConsumers
  BY FS_Interval, NbConsumersAssumption DEF Consumers
<1>2. IsFiniteSet(1 .. MaxStarts)
  BY FS_Interval, MaxStartsAssumption
<1>3. IsFiniteSet(Tasks \X (1 .. MaxStarts))
  BY <1>1, <1>2, FS_Product, TasksAssumption
<1> QED
  BY <1>1, <1>3, TasksAssumption DEF TaskThreads

LEMMA Counted ==
  /\ IsFiniteSet(Counting) /\ Cardinality(Counting) \in Nat
  /\ IsFiniteSet(Waiting) /\ Cardinality(Waiting) \in Nat
<1>1. IsFiniteSet(Counting) /\ IsFiniteSet(Waiting)
  BY ThreadsAreFinite, FS_Subset DEF Counting, Waiting
<1> QED
  BY <1>1, FS_CardinalityType

\* What is pending for a consumer.
LEMMA Pends ==
  ASSUME ConsumersTypeOK
  PROVE  \A c \in Consumers :
           /\ ToTake[c] \in Seq(Items) /\ buffers[c] \in Seq(Items)
           /\ (Publishing = {} \/ ~(filling.next <= c)) => ToTake[c] = buffers[c]
           /\ (Publishing # {} /\ filling.next <= c)
                => ToTake[c] = Append(buffers[c], filling.value)
<1> SUFFICES ASSUME NEW c \in Consumers
             PROVE  /\ ToTake[c] \in Seq(Items) /\ buffers[c] \in Seq(Items)
                    /\ (Publishing = {} \/ ~(filling.next <= c)) => ToTake[c] = buffers[c]
                    /\ (Publishing # {} /\ filling.next <= c)
                         => ToTake[c] = Append(buffers[c], filling.value)
  OBVIOUS
<1>1. buffers[c] \in Seq(Items) /\ filling.value \in Items
  BY DEF ConsumersTypeOK
<1>2. Publishing # {} <=> \E th \in Threads : mpc[th] = "publish"
  BY DEF Publishing
<1>3. ToTake[c] = IF filling.next <= c /\ Publishing # {}
                    THEN Append(buffers[c], filling.value) ELSE buffers[c]
  BY <1>2 DEF ToTake
<1>4. Append(buffers[c], filling.value) \in Seq(Items)
  BY <1>1
<1> QED
  BY <1>1, <1>3, <1>4

\* Steps that change nothing of a round.
LEMMA QuietRound ==
  ASSUME RoundInv,
         UNCHANGED <<m_bFirstInit, m_nbConsumed, buffers, filling>>,
         InSource' = InSource, Publishing' = Publishing, Counting' = Counting,
         m_bFirstInit => Taking' = {}
  PROVE  RoundInv' /\ ToTake' = ToTake
<1>1. (\E th \in Threads : mpc'[th] = "publish") <=> (\E th \in Threads : mpc[th] = "publish")
  BY DEF Publishing
<1>2. ToTake' = ToTake
  BY <1>1 DEF ToTake
<1>3. Waiting' = Waiting /\ Between' = Between
  BY <1>2 DEF Waiting, Between
<1>4. RoundAccounted'
  BY <1>2, <1>3 DEF RoundInv, RoundAccounted
<1> QED
  BY <1>2, <1>4 DEF RoundInv, OneInInit, FirstRound

\* pop() up to the source or the consumer's own buffer.
LEMMA EnterRound ==
  ASSUME MultiInv, RoundInv, NEW th \in Threads, Enter(th)
  PROVE  RoundInv' /\ ToTake' = ToTake
<1>1. /\ mpc[th] = "out" /\ MutexFree
      /\ UNCHANGED <<m_bFirstInit, buffers, filling>>
  BY DEF Enter
<1>2. InSource = {} /\ Publishing = {}
  BY <1>1 DEF MutexFree, InInit, InSource, Publishing
<1>3. CASE m_bFirstInit
  <2>1. Goes(th, "source") /\ m_nbConsumed' = 0
    BY <1>3 DEF Enter, StartInit
  <2>2. mpc'[th] = "source" /\ \A tx \in Threads : tx # th => mpc'[tx] = mpc[tx]
    BY <2>1, Moves DEF MultiInv, Labels
  <2>3. InSource' = {th}
    BY <1>2, <2>2 DEF InSource
  <2>4. Publishing' = {}
    BY <1>2, <2>2 DEF Publishing
  <2>5. Counting' = Counting /\ Taking' = Taking
    BY <1>1, <2>2 DEF Counting, Taking
  <2>6. Between /\ Between'
    BY <1>2, <1>3, <2>3 DEF Between
  <2>7. RoundInv'
    BY <1>1, <2>1, <2>3, <2>4, <2>5, <2>6
       DEF RoundInv, OneInInit, FirstRound, RoundAccounted
  <2>8. ToTake' = ToTake
    BY <1>1, <1>2, <2>4 DEF ToTake, Publishing
  <2> QED
    BY <2>7, <2>8
<1>4. CASE ~m_bFirstInit
  <2>1. Goes(th, "own") /\ UNCHANGED m_nbConsumed
    BY <1>4 DEF Enter
  <2>2. mpc'[th] = "own" /\ \A tx \in Threads : tx # th => mpc'[tx] = mpc[tx]
    BY <2>1, Moves DEF MultiInv, Labels
  <2>3. InSource' = InSource /\ Publishing' = Publishing /\ Counting' = Counting
    BY <1>1, <2>2 DEF InSource, Publishing, Counting
  <2> QED
    BY <1>1, <1>4, <2>1, <2>3, QuietRound
<1> QED
  BY <1>3, <1>4

\* Waiting at the source, or in front of one's own buffer.
LEMMA WaitRound ==
  ASSUME MultiInv, RoundInv, NEW th \in Threads,
         \/ SourceTest(th) \/ SourceSleep(th) \/ OwnTest(th) \/ OwnSleep(th)
         \/ SpuriousWakeup(th)
  PROVE  RoundInv' /\ ToTake' = ToTake
<1>1. UNCHANGED <<m_bFirstInit, m_nbConsumed, buffers, filling>>
  BY DEF SourceTest, SourceSleep, OwnTest, OwnSleep, SpuriousWakeup, roundVars
<1>2. PICK label \in Labels :
        /\ Goes(th, label)
        /\ \/ /\ mpc[th] \in {"source", "sourceFalls", "sourceAsleep"}
              /\ label \in {"source", "sourceFalls", "sourceAsleep"}
           \/ /\ mpc[th] \in {"own", "ownFalls", "ownAsleep"}
              /\ label \in {"own", "ownFalls", "ownAsleep", "out"}
  BY DEF SourceTest, SourceSleep, OwnTest, OwnSleep, SpuriousWakeup, Labels
<1>3. mpc'[th] = label /\ \A tx \in Threads : tx # th => mpc'[tx] = mpc[tx]
  BY <1>2, Moves DEF MultiInv
<1>4. InSource' = InSource
  BY <1>2, <1>3 DEF InSource
<1>5. Publishing' = Publishing /\ Counting' = Counting
  BY <1>2, <1>3 DEF Publishing, Counting
<1>6. Taking' \subseteq Taking
  BY <1>2, <1>3 DEF Taking
<1> QED
  BY <1>1, <1>4, <1>5, <1>6, QuietRound DEF RoundInv, FirstRound

\* A notification lets a sleeper test again.
LEMMA NotifiedRound ==
  ASSUME RoundInv, UNCHANGED <<m_bFirstInit, m_nbConsumed, buffers, filling>>,
         \A th \in Threads :
           \/ mpc'[th] = mpc[th]
           \/ mpc[th] = "sourceAsleep" /\ mpc'[th] = "source"
           \/ mpc[th] = "ownAsleep" /\ mpc'[th] = "own"
  PROVE  RoundInv' /\ ToTake' = ToTake
<1>1. InSource' = InSource
  BY DEF InSource
<1>2. Publishing' = Publishing /\ Counting' = Counting
  BY DEF Publishing, Counting
<1>3. Taking' = Taking
  BY DEF Taking
<1> QED
  BY <1>1, <1>2, <1>3, QuietRound DEF RoundInv, FirstRound

\* Where a thread is at the source, nothing is pending.
LEMMA NothingOut ==
  ASSUME MultiInv, RoundInv, NEW th \in InSource
  PROVE  /\ Between /\ Publishing = {} /\ InSource = {th}
         /\ m_nbConsumed = 0 /\ Counting = {}
         /\ \A c \in Consumers : buffers[c] = <<>> /\ ToTake[c] = <<>>
<1>1. Between
  BY DEF Between
<1>2. Publishing = {} /\ InSource = {th}
  BY DEF RoundInv, OneInInit, InSource, Publishing
<1>3. /\ m_nbConsumed = 0 /\ Counting = {}
      /\ \A c \in Consumers : buffers[c] = <<>>
  BY <1>1 DEF RoundInv, RoundAccounted
<1> QED
  BY <1>1, <1>2, <1>3, Pends DEF MultiInv

\* What is pending after a step.
LEMMA PendsNext ==
  \A c \in Consumers :
    /\ (Publishing' = {} \/ ~(filling'.next <= c)) => ToTake'[c] = buffers'[c]
    /\ (Publishing' # {} /\ filling'.next <= c)
         => ToTake'[c] = Append(buffers'[c], filling'.value)
<1> SUFFICES ASSUME NEW c \in Consumers
             PROVE  /\ (Publishing' = {} \/ ~(filling'.next <= c)) => ToTake'[c] = buffers'[c]
                    /\ (Publishing' # {} /\ filling'.next <= c)
                         => ToTake'[c] = Append(buffers'[c], filling'.value)
  OBVIOUS
<1>1. Publishing' # {} <=> \E th \in Threads : mpc'[th] = "publish"
  BY DEF Publishing
<1>2. ToTake'[c] = IF filling'.next <= c /\ Publishing' # {}
                     THEN Append(buffers'[c], filling'.value) ELSE buffers'[c]
  BY <1>1 DEF ToTake
<1> QED
  BY <1>2

\* The pop of the source: every consumer has the item to take.
LEMMA SourcePopRound ==
  ASSUME MultiInv, MultiInv', RoundInv, NEW th \in Threads, SourcePop(th)
  PROVE  /\ RoundInv'
         /\ \A c \in Consumers : ToTake[c] = <<>>
         /\ ToTake' = [c \in Consumers |-> <<filling'.value>>]
<1>1. /\ mpc[th] = "source" /\ Goes(th, "publish")
      /\ UNCHANGED <<m_bFirstInit, m_nbConsumed, buffers>>
      /\ filling'.next = 1
  BY DEF SourcePop, roundVars
<1>2. mpc'[th] = "publish" /\ \A tx \in Threads : tx # th => mpc'[tx] = mpc[tx]
  BY <1>1, Moves DEF MultiInv, Labels
<1>3. th \in InSource
  BY <1>1 DEF InSource
<1>4. /\ Between /\ Publishing = {} /\ InSource = {th}
      /\ m_nbConsumed = 0 /\ Counting = {}
      /\ \A c \in Consumers : buffers[c] = <<>> /\ ToTake[c] = <<>>
  BY <1>3, NothingOut
<1>5. Publishing' = {th}
  BY <1>2, <1>4 DEF Publishing
<1>6. InSource' = {}
  BY <1>2, <1>4 DEF InSource
<1>7. Counting' = {} /\ Taking' = Taking
  BY <1>1, <1>2, <1>4 DEF Counting, Taking
<1>8. ~Between'
  BY <1>5, <1>6 DEF Between
<1>9. \A c \in Consumers : ToTake'[c] = <<filling'.value>> /\ Len(ToTake'[c]) <= 1
  <2> TAKE c \in Consumers
  <2>1. 1 <= c
    BY NbConsumersAssumption DEF Consumers
  <2>2. ToTake'[c] = Append(buffers'[c], filling'.value)
    BY <1>1, <1>5, <2>1, PendsNext
  <2>3. buffers'[c] = <<>>
    BY <1>1, <1>4
  <2>4. PICK x \in Items : x = filling'.value
    BY DEF MultiInv, ConsumersTypeOK
  <2>5. Append(<<>>, x) = <<x>> /\ Len(<<x>>) = 1
    OBVIOUS
  <2> QED
    BY <2>2, <2>3, <2>4, <2>5
<1>10. ToTake' = [c \in Consumers |-> <<filling'.value>>]
  BY <1>9 DEF ToTake
<1>11. Waiting' = Consumers
  BY <1>9 DEF Waiting
<1>12. RoundAccounted'
  <2>1. Cardinality(Counting') = 0 /\ Cardinality(Waiting') = NbConsumers
    BY <1>7, <1>11, FS_EmptySet, ThreadsAreFinite
  <2>2. m_nbConsumed' + Cardinality(Counting') + Cardinality(Waiting') = NbConsumers
    BY <1>1, <1>4, <2>1, NbConsumersAssumption
  <2>3. \A c \in Consumers : Len(ToTake'[c]) <= 1
    BY <1>9
  <2> QED
    BY <1>8, <2>2, <2>3 DEF RoundAccounted
<1>13. OneInInit' /\ FirstRound'
  BY <1>1, <1>5, <1>6, <1>7 DEF RoundInv, OneInInit, FirstRound
<1> QED
  BY <1>4, <1>10, <1>12, <1>13 DEF RoundInv

\* A buffer is filled with what was pending for it.
LEMMA FillRound ==
  ASSUME MultiInv, RoundInv, NEW th \in Threads, Fill(th)
  PROVE  RoundInv' /\ ToTake' = ToTake
<1> PICK c \in Consumers : c = filling.next
  BY DEF Fill
<1>1. /\ mpc[th] = "publish" /\ Wakes(OwnSleepers(c), "own")
      /\ UNCHANGED <<m_bFirstInit, m_nbConsumed>>
      /\ buffers' = [buffers EXCEPT ![c] = Append(@, filling.value)]
      /\ filling'.next = c + 1 /\ filling'.value = filling.value
  BY DEF Fill, roundVars, MultiInv, ConsumersTypeOK
<1>2. \A tx \in Threads : mpc'[tx] = mpc[tx] \/ (mpc[tx] = "ownAsleep" /\ mpc'[tx] = "own")
  BY <1>1, Notifies DEF MultiInv, OwnSleepers, Labels
<1>3. InSource' = InSource /\ Publishing' = Publishing
  BY <1>2 DEF InSource, Publishing
<1>4. Counting' = Counting /\ Taking' = Taking
  BY <1>2 DEF Counting, Taking
<1>5. Publishing # {}
  BY <1>1 DEF Publishing
<1>6. \A d \in Consumers : ToTake'[d] = ToTake[d]
  <2> TAKE d \in Consumers
  <2>1. c \in Nat /\ d \in Nat
    BY NbConsumersAssumption DEF Consumers
  <2>2. CASE d = c
    <3>1. buffers'[d] = Append(buffers[d], filling.value)
      BY <1>1, <2>2 DEF MultiInv, ConsumersTypeOK
    <3>2. ToTake[d] = Append(buffers[d], filling.value)
      BY <1>5, <2>1, <2>2, Pends DEF MultiInv
    <3>3. ToTake'[d] = buffers'[d]
      BY <1>1, <2>1, <2>2, PendsNext
    <3> QED
      BY <3>1, <3>2, <3>3
  <2>3. CASE d # c
    <3>1. buffers'[d] = buffers[d]
      BY <1>1, <2>3 DEF MultiInv, ConsumersTypeOK
    <3>2. (filling'.next <= d) <=> (filling.next <= d)
      BY <1>1, <2>1, <2>3
    <3>3. CASE filling.next <= d
      BY <1>1, <1>3, <1>5, <3>1, <3>2, <3>3, Pends, PendsNext DEF MultiInv
    <3>4. CASE ~(filling.next <= d)
      BY <3>1, <3>2, <3>4, Pends, PendsNext DEF MultiInv
    <3> QED
      BY <3>3, <3>4
  <2> QED
    BY <2>2, <2>3
<1>7. ToTake' = ToTake
  BY <1>6 DEF ToTake
<1>8. Waiting' = Waiting /\ Between' = Between /\ ~Between
  BY <1>1, <1>3, <1>5, <1>7 DEF Waiting, Between, RoundInv, OneInInit, InSource, Publishing
<1>9. RoundAccounted'
  BY <1>1, <1>4, <1>7, <1>8 DEF RoundInv, RoundAccounted
<1> QED
  BY <1>1, <1>3, <1>4, <1>7, <1>9 DEF RoundInv, OneInInit, FirstRound

\* init() returns: all buffers are filled.
LEMMA FilledRound ==
  ASSUME MultiInv, RoundInv, NEW th \in Threads, Filled(th)
  PROVE  RoundInv' /\ ToTake' = ToTake
<1>1. /\ mpc[th] = "publish" /\ filling.next \notin Consumers
      /\ m_bFirstInit' = FALSE /\ UNCHANGED <<m_nbConsumed, buffers>>
  BY DEF Filled
<1>2. PICK label \in {"own", "out"} : Goes(th, label)
  BY DEF Filled
<1>3. mpc'[th] = label /\ \A tx \in Threads : tx # th => mpc'[tx] = mpc[tx]
  BY <1>2, Moves DEF MultiInv, Labels
<1>4. th \in Publishing /\ th \notin InSource
  BY <1>1 DEF Publishing, InSource
<1>5. Publishing = {th} /\ InSource = {}
  BY <1>4 DEF RoundInv, OneInInit, Publishing, InSource
<1>6. Publishing' = {} /\ InSource' = {}
  BY <1>3, <1>5 DEF Publishing, InSource
<1>7. Counting' = Counting
  BY <1>1, <1>3 DEF Counting
<1>8. ~Between /\ ~Between'
  BY <1>1, <1>5, <1>6 DEF Between
<1>9. \A c \in Consumers : ToTake'[c] = ToTake[c]
  <2> TAKE c \in Consumers
  <2>1. filling.next \in 1 .. NbConsumers + 1
    BY DEF MultiInv, ConsumersTypeOK
  <2>2. ~(filling.next <= c)
    BY <1>1, <2>1, NbConsumersAssumption DEF Consumers
  <2> QED
    BY <1>1, <1>6, <2>2, Pends, PendsNext DEF MultiInv
<1>10. ToTake' = ToTake
  BY <1>9 DEF ToTake
<1>11. Waiting' = Waiting
  BY <1>10 DEF Waiting
<1>12. RoundAccounted'
  BY <1>1, <1>7, <1>8, <1>10, <1>11 DEF RoundInv, RoundAccounted
<1> QED
  BY <1>1, <1>6, <1>10, <1>12 DEF RoundInv, OneInInit, FirstRound

\* A sequence of one item at most has an empty tail.
LEMMA AtMostOne ==
  ASSUME NEW S, NEW s \in Seq(S), s # <<>>, Len(s) <= 1
  PROVE  Tail(s) = <<>> /\ Len(Tail(s)) = 0
<1>1. \A n \in Nat : n # 0 /\ n <= 1 => n - 1 = 0
  OBVIOUS
<1>2. Len(s) \in Nat /\ Len(s) # 0
  BY EmptySeq
<1>3. Tail(s) \in Seq(S) /\ Len(Tail(s)) = Len(s) - 1
  BY HeadTailProperties
<1>4. Len(Tail(s)) = 0
  BY <1>1, <1>2, <1>3
<1> QED
  BY <1>3, <1>4, EmptySeq

\* A consumer takes its item: what it is after it has not counted yet.
LEMMA OwnPopRound ==
  ASSUME MultiInv, RoundInv, NEW th \in Threads, NEW c \in Consumers,
         c = ConsumerOf[th], OwnPop(th)
  PROVE  /\ RoundInv' /\ ToTake[c] # <<>>
         /\ ToTake' = [ToTake EXCEPT ![c] = Tail(@)]
<1>1. /\ mpc[th] = "own" /\ buffers[c] # <<>> /\ Goes(th, "count")
      /\ buffers' = [buffers EXCEPT ![c] = Tail(@)]
      /\ UNCHANGED <<m_bFirstInit, m_nbConsumed, filling>>
  BY DEF OwnPop, roundVars
<1>2. mpc'[th] = "count" /\ \A tx \in Threads : tx # th => mpc'[tx] = mpc[tx]
  BY <1>1, Moves DEF MultiInv, Labels
<1>3. InSource' = InSource /\ Publishing' = Publishing
  BY <1>1, <1>2 DEF InSource, Publishing
<1>4. Counting' = Counting \union {th} /\ th \notin Counting
  BY <1>1, <1>2 DEF Counting
<1>5. ~m_bFirstInit
  BY <1>1 DEF RoundInv, FirstRound, Taking
<1>6. ~Between
  BY <1>1 DEF RoundInv, RoundAccounted
<1>7. /\ buffers[c] \in Seq(Items) /\ filling.value \in Items
      /\ Len(ToTake[c]) <= 1
  BY <1>6 DEF MultiInv, ConsumersTypeOK, RoundInv, RoundAccounted
<1>8. Len(Append(buffers[c], filling.value)) >= 2
  BY <1>1, <1>7
<1>9. ToTake[c] = buffers[c] /\ (Publishing = {} \/ ~(filling.next <= c))
  BY <1>7, <1>8, Pends DEF MultiInv
<1>10. Tail(ToTake[c]) = <<>> /\ Len(Tail(ToTake[c])) = 0
  BY <1>1, <1>7, <1>9, AtMostOne
<1>11. buffers'[c] = Tail(buffers[c]) /\ \A d \in Consumers : d # c => buffers'[d] = buffers[d]
  BY <1>1 DEF MultiInv, ConsumersTypeOK
<1>12. ToTake'[c] = Tail(ToTake[c])
  BY <1>1, <1>3, <1>9, <1>11, PendsNext
<1>13. \A d \in Consumers : d # c => ToTake'[d] = ToTake[d]
  <2> TAKE d \in Consumers
  <2> HAVE d # c
  <2>1. CASE Publishing = {} \/ ~(filling.next <= d)
    BY <1>1, <1>3, <1>11, <2>1, Pends, PendsNext DEF MultiInv
  <2>2. CASE Publishing # {} /\ filling.next <= d
    BY <1>1, <1>3, <1>11, <2>2, Pends, PendsNext DEF MultiInv
  <2> QED
    BY <2>1, <2>2
<1>14. ToTake' = [ToTake EXCEPT ![c] = Tail(@)]
  <2>1. ToTake = [d \in Consumers |-> ToTake[d]]
    BY DEF ToTake
  <2>2. ToTake' = [d \in Consumers |-> ToTake'[d]]
    BY DEF ToTake
  <2> QED
    BY <1>12, <1>13, <2>1, <2>2
<1>15. Waiting' = Waiting \ {c} /\ c \in Waiting
  BY <1>1, <1>9, <1>10, <1>12, <1>13 DEF Waiting
<1>16. Cardinality(Counting') = Cardinality(Counting) + 1
  BY <1>4, Counted, FS_AddElement
<1>17. Cardinality(Waiting') = Cardinality(Waiting) - 1
  BY <1>15, Counted, FS_RemoveElement
<1>18. ~Between'
  BY <1>1, <1>3, <1>6 DEF Between
<1>19. RoundAccounted'
  <2>1. m_nbConsumed + Cardinality(Counting) + Cardinality(Waiting) = NbConsumers
    BY <1>6 DEF RoundInv, RoundAccounted
  <2>2. m_nbConsumed \in Nat
    BY NbConsumersAssumption DEF MultiInv, ConsumersTypeOK
  <2>3. m_nbConsumed' + Cardinality(Counting') + Cardinality(Waiting') = NbConsumers
    BY <1>1, <1>16, <1>17, <2>1, <2>2, Counted
  <2>4. Len(ToTake'[c]) = 0
    BY <1>10, <1>12
  <2>5. \A d \in Consumers : Len(ToTake'[d]) <= 1
    BY <1>6, <1>13, <2>4 DEF RoundInv, RoundAccounted
  <2> QED
    BY <1>18, <2>3, <2>5 DEF RoundAccounted
<1> QED
  BY <1>1, <1>3, <1>5, <1>9, <1>14, <1>19 DEF RoundInv, OneInInit, FirstRound

\* A consumer is counted; the last one of the round becomes the one that pops
\* the source, and by then all have their item.
LEMMA CountRound ==
  ASSUME MultiInv, RoundInv, NEW th \in Threads, Count(th)
  PROVE  RoundInv' /\ ToTake' = ToTake
<1>1. /\ mpc[th] = "count" /\ MutexFree
      /\ UNCHANGED <<m_bFirstInit, buffers, filling>>
  BY DEF Count
<1>2. InSource = {} /\ Publishing = {}
  BY <1>1 DEF MutexFree, InInit, InSource, Publishing
<1>3. th \in Counting
  BY <1>1 DEF Counting
<1>4. ~m_bFirstInit
  BY <1>3 DEF RoundInv, FirstRound
<1>5. ~Between
  BY <1>2, <1>4 DEF Between
<1>6. /\ m_nbConsumed \in Nat /\ NbConsumers \in Nat
      /\ m_nbConsumed + Cardinality(Counting) + Cardinality(Waiting) = NbConsumers
  BY <1>5, NbConsumersAssumption DEF RoundInv, RoundAccounted, MultiInv, ConsumersTypeOK
<1>7. /\ IsFiniteSet(Counting \ {th})
      /\ Cardinality(Counting \ {th}) = Cardinality(Counting) - 1
  BY <1>3, Counted, FS_RemoveElement
<1>8. Cardinality(Counting \ {th}) \in Nat
  BY <1>7, FS_CardinalityType
<1>9. PICK label \in {"source", "out"} :
        /\ Goes(th, label)
        /\ IF CompletesRound THEN label = "source" /\ m_nbConsumed' = 0
                             ELSE label = "out" /\ m_nbConsumed' = m_nbConsumed + 1
  BY DEF Count, StartInit
<1>10. mpc'[th] = label /\ \A tx \in Threads : tx # th => mpc'[tx] = mpc[tx]
  BY <1>9, Moves DEF MultiInv, Labels
<1>11. Publishing' = {} /\ Counting' = Counting \ {th}
  BY <1>2, <1>9, <1>10 DEF Publishing, Counting
<1>12. \A c \in Consumers : ToTake'[c] = ToTake[c] /\ ToTake[c] = buffers[c]
  BY <1>1, <1>2, <1>11, Pends, PendsNext DEF MultiInv
<1>13. ToTake' = ToTake
  BY <1>12 DEF ToTake
<1>14. CASE CompletesRound
  <2>1. Cardinality(Counting \ {th}) = 0 /\ Cardinality(Waiting) = 0
    BY <1>6, <1>7, <1>8, <1>14, Counted DEF CompletesRound
  <2>2. Counting \ {th} = {} /\ Waiting = {}
    BY <1>7, <2>1, Counted, FS_EmptySet
  <2>3. \A c \in Consumers : buffers'[c] = <<>>
    BY <1>1, <1>12, <2>2 DEF Waiting
  <2>4. InSource' = {th}
    BY <1>2, <1>9, <1>10, <1>14 DEF InSource
  <2>5. Between'
    BY <2>4 DEF Between
  <2>6. RoundAccounted'
    BY <1>9, <1>11, <1>14, <2>2, <2>3, <2>5 DEF RoundAccounted
  <2> QED
    BY <1>1, <1>4, <1>11, <1>13, <2>4, <2>6 DEF RoundInv, OneInInit, FirstRound
<1>15. CASE ~CompletesRound
  <2>1. InSource' = {}
    BY <1>2, <1>9, <1>10, <1>15 DEF InSource
  <2>2. ~Between'
    BY <1>1, <1>4, <2>1 DEF Between
  <2>3. Waiting' = Waiting
    BY <1>13 DEF Waiting
  <2>4. m_nbConsumed' + Cardinality(Counting') + Cardinality(Waiting') = NbConsumers
    BY <1>6, <1>7, <1>8, <1>9, <1>11, <1>15, <2>3, Counted
  <2>5. RoundAccounted'
    BY <1>5, <1>13, <2>2, <2>4 DEF RoundInv, RoundAccounted
  <2> QED
    BY <1>1, <1>4, <1>11, <1>13, <2>1, <2>5 DEF RoundInv, OneInInit, FirstRound
<1> QED
  BY <1>14, <1>15

-----------------------------------------------------------------------------
(* The composition implements Broadcast.                                   *)

\* What the source's other users do to it, a broadcast allows.
LEMMA SourceHeard ==
  ASSUME BufferInv, ToTake' = ToTake,
         (\E v \in Values : Push(v)) \/ Clear \/ Release \/ UNCHANGED bufferVars
  PROVE  [AllHear!NextBroadcast]_<<AllHear!windowVars, ToTake>>
<1>0. UNCHANGED cursorVars => Contents' = Contents
  BY DEF Contents, cursorVars, Forward
<1>1. ASSUME NEW v \in Values, Store(v) PROVE AllHear!Slide(v)
  BY <1>1, StoreSlides
     DEF Window!Slide, AllHear!Slide, Window!Newest, AllHear!Newest
<1>2. CASE StoreNowhere \/ UNCHANGED bufferVars
  <2>1. UNCHANGED cursorVars /\ UNCHANGED m_bReleased
    BY <1>2 DEF StoreNowhere, bufferVars
  <2>2. UNCHANGED AllHear!windowVars
    BY <1>0, <2>1 DEF AllHear!windowVars, cursorVars
  <2> QED
    BY <2>2
<1>3. CASE Clear
  <2>1. Contents' = <<>>
    BY <1>3, NothingUnrolled, ContentsUnrolled DEF Clear, Contents, Unrolled
  <2>2. AllHear!Empty
    BY <1>3, <2>1 DEF Clear, AllHear!Empty
  <2> QED
    BY <2>2 DEF AllHear!NextBroadcast
<1>4. CASE Release
  <2>1. AllHear!Close
    BY <1>0, <1>4 DEF Release, cursorVars, AllHear!Close
  <2> QED
    BY <2>1 DEF AllHear!NextBroadcast
<1>5. CASE \E v \in Values : Store(v)
  BY <1>1, <1>5 DEF AllHear!NextBroadcast
<1> QED
  BY <1>2, <1>3, <1>4, <1>5 DEF Push

\* The steps of pop() keep the accounts, and a broadcast allows them.
LEMMA PopRound ==
  ASSUME MultiInv, MultiInv', RoundInv, NEW th \in Threads, PopStep(th)
  PROVE  RoundInv' /\ [AllHear!NextBroadcast]_<<AllHear!windowVars, ToTake>>
<1>1. CASE SourcePop(th)
  <2>1. /\ RoundInv' /\ \A c \in Consumers : ToTake[c] = <<>>
        /\ ToTake' = [c \in Consumers |-> <<filling'.value>>]
    BY <1>1, SourcePopRound
  <2>2. CASE m_nbNotified > 0
    <3>1. DoPop /\ filling'.value = Oldest
      BY <1>1, <2>2 DEF SourcePop
    <3>2. Window!TakeOldest /\ Head(Contents) = Oldest
      BY <3>1, PopTakesOldest DEF MultiInv
    <3>3. AllHear!TakeOldest
      BY <3>2 DEF Window!TakeOldest, AllHear!TakeOldest
    <3>4. AllHear!Publish(Head(Contents))
      BY <2>1, <3>1, <3>2 DEF AllHear!Publish
    <3> QED
      BY <2>1, <3>3, <3>4 DEF AllHear!PublishOldest, AllHear!NextBroadcast
  <2>3. CASE ~(m_nbNotified > 0)
    <3>1. m_bReleased /\ filling'.value = Default /\ UNCHANGED bufferVars
      BY <1>1, <2>3 DEF SourcePop
    <3>2. m_nbNotified = 0
      BY <2>3 DEF MultiInv, BufferInv, BufferTypeOK
    <3>3. Contents = <<>>
      BY <3>2, NothingUnrolled, ContentsUnrolled
    <3>4. UNCHANGED AllHear!windowVars
      BY <3>1 DEF AllHear!windowVars, bufferVars, cursorVars, Contents, Forward
    <3>5. AllHear!Publish(Default)
      BY <2>1, <3>1 DEF AllHear!Publish
    <3> QED
      BY <2>1, <3>1, <3>3, <3>4, <3>5 DEF AllHear!PublishDefault, AllHear!NextBroadcast
  <2> QED
    BY <2>2, <2>3
<1>2. CASE OwnPop(th)
  <2> PICK c \in Consumers : c = ConsumerOf[th]
    BY ConsumerOfAssumption
  <2>1. /\ RoundInv' /\ ToTake[c] # <<>>
        /\ ToTake' = [ToTake EXCEPT ![c] = Tail(@)]
    BY <1>2, OwnPopRound
  <2>2. UNCHANGED bufferVars
    BY <1>2 DEF OwnPop
  <2>3. UNCHANGED AllHear!windowVars
    BY <2>2 DEF AllHear!windowVars, bufferVars, cursorVars, Contents, Forward
  <2>4. AllHear!Take(c)
    BY <2>1, <2>3 DEF AllHear!Take
  <2> QED
    BY <2>1, <2>4 DEF AllHear!NextBroadcast
<1>3. ASSUME ~SourcePop(th), ~OwnPop(th)
      PROVE  RoundInv' /\ ToTake' = ToTake /\ UNCHANGED bufferVars
  <2>1. CASE Enter(th)
    BY <2>1, EnterRound DEF Enter
  <2>2. CASE SourceTest(th) \/ SourceSleep(th)
    BY <2>2, WaitRound DEF SourceTest, SourceSleep
  <2>3. CASE OwnTest(th) \/ OwnSleep(th)
    BY <2>3, WaitRound DEF OwnTest, OwnSleep
  <2>4. CASE Fill(th)
    BY <2>4, FillRound DEF Fill
  <2>5. CASE Filled(th)
    BY <2>5, FilledRound DEF Filled
  <2>6. CASE Count(th)
    BY <2>6, CountRound DEF Count
  <2> QED
    BY <1>3, <2>1, <2>2, <2>3, <2>4, <2>5, <2>6 DEF PopStep
<1>4. CASE ~SourcePop(th) /\ ~OwnPop(th)
  BY <1>3, <1>4, SourceHeard DEF MultiInv
<1> QED
  BY <1>1, <1>2, <1>4

\* So do all steps.
LEMMA RoundStep ==
  ASSUME MultiInv, MultiInv', RoundInv, pushesLeft \in 0 .. PushBound, [Next]_vars
  PROVE  RoundInv' /\ [AllHear!NextBroadcast]_<<AllHear!windowVars, ToTake>>
<1>1. ASSUME UNCHANGED <<m_bFirstInit, m_nbConsumed, buffers, mpc, filling>>
      PROVE  RoundInv' /\ ToTake' = ToTake
  BY <1>1, NotifiedRound
<1>2. CASE UNCHANGED vars \/ (\E t \in Tasks : CallTask(t)) \/ AppGoesOn
           \/ (\E th \in Threads : TaskThread(th)) \/ (\E y \in Threads \union {App} : SwitchTo(y))
  <2>1. UNCHANGED bufferVars /\ UNCHANGED multiVars
    BY <1>2 DEF vars, CallTask, AppGoesOn, TaskThread, SwitchTo
  <2>2. RoundInv' /\ ToTake' = ToTake
    BY <1>1, <2>1 DEF multiVars, roundVars
  <2> QED
    BY <2>1, <2>2, SourceHeard DEF MultiInv
<1>3. CASE SubscribeNext
  <2>1. /\ UNCHANGED bufferVars
        /\ UNCHANGED <<m_bFirstInit, m_nbConsumed, buffers, mpc, filling>>
    BY <1>3 DEF SubscribeNext, Subscribe, roundVars
  <2>2. RoundInv' /\ ToTake' = ToTake
    BY <1>1, <2>1
  <2> QED
    BY <2>1, <2>2, SourceHeard DEF MultiInv
<1>4. CASE SourceCleared
  <2>1. Clear /\ UNCHANGED multiVars
    BY <1>4 DEF SourceCleared, SourceClear
  <2>2. RoundInv' /\ ToTake' = ToTake
    BY <1>1, <2>1 DEF multiVars, roundVars
  <2> QED
    BY <2>1, <2>2, SourceHeard DEF MultiInv
<1>5. CASE Produce
  <2>1. PICK v \in Values : v = PushBound - pushesLeft + 1
    BY <1>5, PushBoundAssumption, ValuesAssumption DEF Produce
  <2>2. /\ Push(v) /\ Wakes(SourceSleepers, "source")
        /\ UNCHANGED <<m_bFirstInit, m_nbConsumed, buffers, filling>>
    BY <1>5, <2>1 DEF Produce, SourcePush, roundVars
  <2>3. \A th \in Threads :
          mpc'[th] = mpc[th] \/ (mpc[th] = "sourceAsleep" /\ mpc'[th] = "source")
    BY <2>2, Notifies DEF MultiInv, SourceSleepers, Labels
  <2>4. RoundInv' /\ ToTake' = ToTake
    BY <2>2, <2>3, NotifiedRound
  <2> QED
    BY <2>2, <2>4, SourceHeard DEF MultiInv
<1>6. CASE Cleanup
  <2>1. PICK target : FlagReleased(target) \/ NotifyReleased(target)
    BY <1>6 DEF Cleanup
  <2>2. CASE FlagReleased(target)
    <3>1. /\ UNCHANGED bufferVars
          /\ UNCHANGED <<m_bFirstInit, m_nbConsumed, buffers, mpc, filling>>
      BY <2>2 DEF FlagReleased, roundVars
    <3>2. RoundInv' /\ ToTake' = ToTake
      BY <1>1, <3>1
    <3> QED
      BY <3>1, <3>2, SourceHeard DEF MultiInv
  <2>3. CASE NotifyReleased(target)
    <3>1. /\ UNCHANGED bufferVars
          /\ UNCHANGED <<m_bFirstInit, m_nbConsumed, buffers, filling>>
      BY <2>3 DEF NotifyReleased, roundVars
    <3>2. \A th \in Threads :
            \/ mpc'[th] = mpc[th]
            \/ mpc[th] = "sourceAsleep" /\ mpc'[th] = "source"
            \/ mpc[th] = "ownAsleep" /\ mpc'[th] = "own"
      BY <2>3 DEF NotifyReleased, SourceSleepers, OwnSleepers
    <3>3. RoundInv' /\ ToTake' = ToTake
      BY <3>1, <3>2, NotifiedRound
    <3> QED
      BY <3>1, <3>3, SourceHeard DEF MultiInv
  <2> QED
    BY <2>1, <2>2, <2>3
<1>7. CASE \E th \in Threads : Process(th)
  BY <1>7, PopRound DEF Process
<1>8. CASE \E th \in Threads : WokenForNothing(th)
  <2>1. PICK th \in Threads : SpuriousWakeup(th)
    BY <1>8 DEF WokenForNothing
  <2>2. RoundInv' /\ ToTake' = ToTake
    BY <2>1, WaitRound
  <2>3. UNCHANGED bufferVars
    BY <2>1 DEF SpuriousWakeup
  <2> QED
    BY <2>2, <2>3, SourceHeard DEF MultiInv
<1>9. CASE FlagsAreSeen
  <2>1. PICK q \in Queues : FlagSeen(q)
    BY <1>9 DEF FlagsAreSeen
  <2>2. /\ Release \/ UNCHANGED bufferVars
        /\ UNCHANGED <<m_bFirstInit, m_nbConsumed, buffers, mpc, filling>>
    BY <2>1 DEF FlagSeen, roundVars
  <2>3. RoundInv' /\ ToTake' = ToTake
    BY <1>1, <2>2
  <2> QED
    BY <2>2, <2>3, SourceHeard DEF MultiInv
<1> QED
  BY <1>2, <1>3, <1>4, <1>5, <1>6, <1>7, <1>8, <1>9 DEF Next, AppStep, Step

\* Nothing is out at first.
LEMMA InitRound == MultiInit => RoundInv /\ AllHear!InitBroadcast
<1> SUFFICES ASSUME MultiInit PROVE RoundInv /\ AllHear!InitBroadcast
  OBVIOUS
<1>1. InSource = {} /\ Publishing = {} /\ Taking = {} /\ Counting = {}
  BY DEF MultiInit, InSource, Publishing, Taking, Counting
<1>2. Between /\ m_nbConsumed = 0 /\ \A c \in Consumers : buffers[c] = <<>>
  BY <1>1 DEF Between, MultiInit
<1>3. RoundInv
  BY <1>1, <1>2 DEF RoundInv, OneInInit, FirstRound, RoundAccounted
<1>4. ToTake = [c \in Consumers |-> <<>>]
  BY <1>1, <1>2, InitConsumers, Pends DEF MultiInv, ToTake
<1>5. AllHear!WindowInit
  BY WindowInit DEF MultiInit, Window!WindowInit, AllHear!WindowInit
<1> QED
  BY <1>3, <1>4, <1>5 DEF AllHear!InitBroadcast

\* Every item that is popped from the source, or the default value that takes
\* its place once the source is released and empty, reaches every consumer
\* once and in order, and none is popped before all have taken the last: for
\* any number of consumers, buffer size and number of threads that pop, and
\* whatever the tasks, stop(), clear() and the wake-ups do in between.
THEOREM BroadcastImplemented == Spec => ImplementsBroadcast
<1>1. Init => RoundInv /\ AllHear!InitBroadcast
  BY InitRound DEF Init
<1>2. MultiInv /\ MultiInv' /\ RoundInv /\ pushesLeft \in 0 .. PushBound /\ [Next]_vars
        => RoundInv' /\ [AllHear!NextBroadcast]_<<AllHear!windowVars, ToTake>>
  BY RoundStep
<1> QED
  BY <1>1, <1>2, MultiInvariant, BufferOfPipeline, PTL
     DEF Spec, ImplementsBroadcast, AllHear!BroadcastSpec
==============================================================================
