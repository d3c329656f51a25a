----------------------------- MODULE EventStream -----------------------------
(***************************************************************************)
(* What StartMonitorEvents promises: the daemon's events arrive once each, *)
(* in order, up to some point at which the stream breaks.                  *)
(***************************************************************************)
EXTENDS Naturals, Sequences

CONSTANT MaxEvents   \* bound: the events that are emitted

VARIABLES
  emitted,     \* the number of events so far; event number n is n
  pending,     \* events that are still to arrive
  delivered,   \* events that have arrived
  up           \* whether the stream is whole

vars == <<emitted, pending, delivered, up>>

Emit ==
  /\ emitted < MaxEvents
  /\ emitted' = emitted + 1
  /\ pending' = IF up THEN Append(pending, emitted') ELSE pending
  /\ UNCHANGED <<delivered, up>>

Deliver ==
  /\ pending # <<>>
  /\ delivered' = Append(delivered, Head(pending))
  /\ pending' = Tail(pending)
  /\ UNCHANGED <<emitted, up>>

\* Of what is on its way, the oldest events may still arrive.
Break ==
  /\ up' = FALSE
  /\ \E n \in 0..Len(pending) : pending' = SubSeq(pending, 1, n)
  /\ UNCHANGED <<emitted, delivered>>

Init == emitted = 0 /\ pending = <<>> /\ delivered = <<>> /\ up = TRUE

Next == Emit \/ Deliver \/ Break

\* What is not lost arrives.
Spec == Init /\ [][Next]_vars /\ WF_vars(Deliver)
=============================================================================
