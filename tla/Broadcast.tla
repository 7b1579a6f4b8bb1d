------------------------------- MODULE Broadcast -------------------------------
(***************************************************************************)
(* What MultiConsumer.h promises: every item popped from the source        *)
(* reaches every consumer once, in the order of the source, and the next   *)
(* item is popped only when every consumer has taken the last one.  Once   *)
(* the source is closed and drained, a default value takes its place.      *)
(***************************************************************************)
EXTENDS SlidingWindow

CONSTANTS Consumers, Default

VARIABLE pending  \* what each consumer still has to take, oldest first

InitBroadcast == WindowInit /\ pending = [c \in Consumers |-> <<>>]

Publish(v) ==
  /\ \A c \in Consumers : pending[c] = <<>>
  /\ pending' = [c \in Consumers |-> <<v>>]

PublishOldest == TakeOldest /\ Publish(Head(window))

PublishDefault ==
  closed /\ window = <<>> /\ Publish(Default) /\ UNCHANGED windowVars

Take(c) ==
  /\ pending[c] # <<>>
  /\ pending' = [pending EXCEPT ![c] = Tail(@)]
  /\ UNCHANGED windowVars

NextBroadcast ==
  \/ PublishOldest \/ PublishDefault
  \/ \E c \in Consumers : Take(c)
  \/ ((\E v \in Values : Slide(v)) \/ Close \/ Empty) /\ UNCHANGED pending

BroadcastSpec ==
  InitBroadcast /\ [][NextBroadcast]_<<windowVars, pending>>
=============================================================================
