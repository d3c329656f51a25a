-------------------------------- MODULE Audit --------------------------------
(***************************************************************************)
(* What the registry of a collector promises, without its slice, its lock  *)
(* and its goroutines: every container is followed or not, a followed one  *)
(* may be paused; changes come one at a time; and UpdateNode is called     *)
(* after each of them, before the next one is made.  What UpdateNode makes *)
(* of a change is not part of it: it sends the counters of active entries, *)
(* and a write may be lost.                                                *)
(*                                                                         *)
(* AuditRefinement shows that DockerCollector implements this.             *)
(***************************************************************************)
CONSTANT Container

VARIABLES
  excluded,   \* containers whose name has matched -f all along
  followed,   \* how the collector follows each container
  shipped     \* the same as UpdateNode has been given it

vars == <<excluded, followed, shipped>>

How == {"not", "active", "paused"}

\* A change waits until the one before it has been shipped.
Change(c, from, to) ==
  /\ shipped = followed
  /\ followed[c] \in from
  /\ followed' = [followed EXCEPT ![c] = to]
  /\ UNCHANGED excluded

Add(c) == c \notin excluded /\ Change(c, {"not"}, "active") /\ UNCHANGED shipped

Pause(c) == Change(c, {"active"}, "paused") /\ UNCHANGED shipped

Resume(c) == Change(c, {"paused"}, "active") /\ UNCHANGED shipped

\* A container is removed, and that it is gone is shipped in the same breath.
Remove(c) == Change(c, {"active", "paused"}, "not") /\ shipped' = followed'

Ship == shipped' = followed /\ UNCHANGED <<excluded, followed>>

\* A container that gets another name may be added, whatever that name is.
Rename(c) == excluded' = excluded \ {c} /\ UNCHANGED <<followed, shipped>>

Init ==
  /\ followed \in [Container -> {"not", "active"}]
  /\ excluded \in SUBSET {c \in Container : followed[c] = "not"}
  /\ shipped = followed

Next == Ship \/ \E c \in Container :
          Add(c) \/ Pause(c) \/ Resume(c) \/ Remove(c) \/ Rename(c)

\* Every change is shipped.
Spec == Init /\ [][Next]_vars /\ WF_vars(Ship)
=============================================================================
