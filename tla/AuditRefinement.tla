--------------------------- MODULE AuditRefinement ---------------------------
(***************************************************************************)
(* DockerCollector implements Audit: what a slice of entries says of a     *)
(* container is whether it has an entry, and whether one of its entries is *)
(* active.                                                                 *)
(***************************************************************************)
EXTENDS DockerCollector

\* How a container is followed by the registry cs.
Follows(cs, c) ==
  IF \E i \in DOMAIN cs : cs[i].id = c /\ cs[i].active THEN "active"
  ELSE IF c \in Ids(cs) THEN "paused" ELSE "not"

AuditOf(cs) == [c \in Container |-> Follows(cs, c)]

Abstract == INSTANCE Audit WITH excluded <- Excluded,
                                followed <- AuditOf(containers),
                                shipped <- AuditOf(published)

\* Every critical section changes at most one container of the registry, on top of
\* a registry that UpdateNode has been given; it adds none whose name has matched -f
\* all along; and every change is given to UpdateNode.
ImplementsAudit == Abstract!Spec

\* The part of it that speaks of single steps.
AuditSteps == Abstract!Init /\ [][Abstract!Next]_(Abstract!vars)
=============================================================================
