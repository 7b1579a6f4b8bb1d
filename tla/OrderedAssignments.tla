-------------------------- MODULE OrderedAssignments --------------------------
(***************************************************************************)
(* What a configuration promises: the assignments that the file makes are  *)
(* applied in the order of the file, all of them if it succeeds, and those *)
(* before the fault if it fails.  cells are the items of the properties.   *)
(***************************************************************************)
EXTENDS Integers, Sequences

CONSTANT Fault  \* an assignment that cannot be made

VARIABLES cells,    \* property -> its items
          pending,  \* the assignments not made yet: <<property, index, value>>
          verdict   \* "idle", "applying", "applied" or "failed"

Write(a) ==
  cells' = [cells EXCEPT ![a[1]] = [@ EXCEPT ![a[2] + 1] = a[3]]]

AInit == pending = <<>> /\ verdict = "idle"

\* A file may hold any assignments.
Begin ==
  verdict # "applying" /\ verdict' = "applying" /\ UNCHANGED cells

Assign ==
  /\ verdict = "applying"
  /\ LET left == pending
     IN  /\ left # <<>>
         /\ left[1] # Fault
         /\ Write(left[1])
         /\ pending' = Tail(left)
  /\ UNCHANGED verdict

\* A value with characters left over is assigned, and is a fault.
Fail ==
  /\ verdict = "applying"
  /\ verdict' = "failed"
  /\ LET left == pending
     IN  \/ left # <<>> /\ left[1] = Fault /\ UNCHANGED cells
         \/ Len(left) > 1 /\ left[2] = Fault /\ Write(left[1])
  /\ pending' = <<>>

Succeed ==
  /\ verdict = "applying"
  /\ verdict' = "applied"
  /\ pending = <<>>
  /\ UNCHANGED <<cells, pending>>

\* Nobody else changes a property during a configuration.
Elsewhere == verdict # "applying" /\ verdict' = "idle" /\ UNCHANGED pending

ANext == Begin \/ Assign \/ Fail \/ Succeed \/ Elsewhere

ASpec == AInit /\ [][ANext]_<<cells, pending, verdict>>
=============================================================================
