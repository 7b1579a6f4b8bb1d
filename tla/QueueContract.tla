---------------------------- MODULE QueueContract -----------------------------
(***************************************************************************)
(* What an IFifo promises its callers, without threads, locks or wake-ups: *)
(* every call takes effect at one instant.  An item handed out is the next *)
(* one of the class, it leaves the queue when it is popped and only then;  *)
(* a blocking pop comes back empty-handed only from a queue that is closed *)
(* and drained, a timed one only from a drained queue.  The bool of back(T&)*)
(* is false only with an item.                                             *)
(***************************************************************************)
EXTENDS Naturals, Sequences

CONSTANTS Consumers, Values, Classes, None

VARIABLES class, queue, closed, returned

vars == <<class, queue, closed, returned>>

\* The position of the item that the next pop takes.
NextPosition == IF class = "SharedFifo" THEN 1 ELSE Len(queue)

Without(i) ==
  [j \in 1 .. Len(queue) - 1 |-> IF j < i THEN queue[j] ELSE queue[j + 1]]

Returned(c, op, v, ok) ==
  returned' = [by |-> c, op |-> op, val |-> v, ok |-> ok]

Init ==
  /\ class \in Classes
  /\ queue = <<>>
  /\ closed = FALSE
  /\ returned = [by |-> None, op |-> None, val |-> None, ok |-> FALSE]

\* A drop buffer keeps the newest item and no other.
Put(v) ==
  /\ queue' = IF class = "DropBuffer" THEN <<v>> ELSE Append(queue, v)
  /\ UNCHANGED <<class, closed, returned>>

Take(c, op) ==
  /\ queue # <<>>
  /\ Returned(c, op, queue[NextPosition], TRUE)
  /\ queue' = Without(NextPosition)
  /\ UNCHANGED <<class, closed>>

\* back(T&) answers whether the queue is closed, back() that it has an item.
Peek(c, op) ==
  /\ queue # <<>>
  /\ Returned(c, op, queue[1], op = "backInto" => closed)
  /\ UNCHANGED <<class, queue, closed>>

\* tryPop may fail on a queue that holds items: somebody else is using it.
Refuse(c, op) ==
  /\ op \in {"pop", "back", "backInto"} => closed /\ queue = <<>>
  /\ op = "timedPop" => queue = <<>>
  /\ Returned(c, op, None, op = "backInto")
  /\ UNCHANGED <<class, queue, closed>>

Close ==
  /\ closed' = TRUE
  /\ UNCHANGED <<class, queue, returned>>

Discard ==
  /\ queue' = <<>>
  /\ UNCHANGED <<class, closed, returned>>

Next ==
  \/ \E v \in Values : Put(v)
  \/ \E c \in Consumers :
       \/ \E op \in {"pop", "timedPop", "tryPop"} : Take(c, op)
       \/ \E op \in {"back", "backInto"} : Peek(c, op)
       \/ \E op \in {"pop", "timedPop", "tryPop", "back", "backInto"} : Refuse(c, op)
  \/ Close
  \/ Discard

Spec == Init /\ [][Next]_vars
=============================================================================
