----------------------------- MODULE SlidingWindow -----------------------------
(***************************************************************************)
(* What a circular buffer promises: the newest Size items, oldest first.   *)
(* Pushing never blocks and costs the oldest item when the window is full; *)
(* popping takes the oldest.  Clearing ends its life: nothing can be       *)
(* pushed into a window that has been cleared.                             *)
(***************************************************************************)
EXTENDS Naturals, Sequences

CONSTANTS Size, Values

VARIABLES
  window,  \* the items, oldest first
  usable,  \* no clear so far
  closed   \* release was called

windowVars == <<window, usable, closed>>

\* The last Size items of a sequence that is at most one longer.
Newest(s) == IF Len(s) > Size THEN Tail(s) ELSE s

WindowInit == window = <<>> /\ usable \in BOOLEAN /\ closed = FALSE

Slide(v) ==
  /\ usable
  /\ window' = Newest(Append(window, v))
  /\ UNCHANGED <<usable, closed>>

TakeOldest ==
  /\ window # <<>>
  /\ window' = Tail(window)
  /\ UNCHANGED <<usable, closed>>

Close == closed' = TRUE /\ UNCHANGED <<window, usable>>

Empty == window' = <<>> /\ usable' = FALSE /\ UNCHANGED closed

WindowNext == (\E v \in Values : Slide(v)) \/ TakeOldest \/ Close \/ Empty

WindowSpec == WindowInit /\ [][WindowNext]_windowVars
=============================================================================
