------------------------------ MODULE Registry ------------------------------
(***************************************************************************)
(* The container registry of one collector: the slice Node.Containers and  *)
(* the operations of utils/comm/container-stats.go (type Node) and         *)
(* containersregistry.go (type ContainersRegistry) that read or change it. *)
(*                                                                         *)
(* A slice is a sequence.  Of a Container the registry keeps what tells    *)
(* the operations apart: the Docker id, the PID under which /proc is read, *)
(* and IsActive.  The network counters are left to a module of their own.  *)
(* Everything here is a constant-level operator, so that the state machine *)
(* and the proofs share one definition of each operation.                  *)
(***************************************************************************)
EXTENDS Naturals, Sequences, FiniteSets, SequencesExt

CONSTANT Container   \* the Docker ids of the containers of this host

\* One element of Node.Containers.
Entry == [id : Container, pid : Nat, active : BOOLEAN]

\* The Docker ids that occur in a registry.
Ids(cs) == {cs[i].id : i \in DOMAIN cs}

\* No Docker id occurs twice.
NoDuplicates(cs) == \A i, j \in DOMAIN cs : cs[i].id = cs[j].id => i = j

\* Faulty variant of GetSliceIndex: the first entry counts as not found.
GetSliceIndexPastFirst(cs, id) ==
  SelectInSeq(cs, LAMBDA entry : entry.id = id /\ entry # cs[1])

\* Node.GetSliceIndex: the first entry with that Docker id.  Sequences start
\* at 1, so 0 plays the part of the -1 that says "not found".
GetSliceIndex(cs, id) == SelectInSeq(cs, LAMBDA entry : entry.id = id)

\* Node.ActiveContainers counts the entries with IsActive set.
ActiveContainers(cs) == Cardinality({i \in DOMAIN cs : cs[i].active})

\* Faulty variant of NewEntry: IsActive is left at the zero value of its type.
NewEntryInactive(id, pid) == [id |-> id, pid |-> pid, active |-> FALSE]

NewEntry(id, pid) == [id |-> id, pid |-> pid, active |-> TRUE]

\* Node.Create, once InspectContainer and createNetworkInterfaces have
\* succeeded: the entry is appended, without a look at the ids already there.
Created(cs, id, pid) == Append(cs, NewEntry(id, pid))

\* Node.Activate on an entry that exists, once createNetworkInterfaces has
\* succeeded.  The test on the error of strconv.Atoi is the wrong way round:
\* the PID is kept when the conversion fails and becomes 0 when it succeeds,
\* and a PID printed by strconv.Itoa always converts.
Reactivated(cs, i) == ReplaceAt(cs, i, [cs[i] EXCEPT !.active = TRUE, !.pid = 0])

\* Node.Deactivate on the entry it found.
Deactivated(cs, i) == ReplaceAt(cs, i, [cs[i] EXCEPT !.active = FALSE])

\* Faulty variants of DeletedByIndex: the tail of the slice is dropped with the
\* entry; the last entry goes instead of the one found.
DeletedWithTail(cs, i) == SubSeq(cs, 1, i - 1)
DeletedLast(cs, i) == Front(cs)

\* ContainersRegistry.DeleteByIndex: append(cs[:i], cs[i+1:]...).
DeletedByIndex(cs, i) == RemoveAt(cs, i)
=============================================================================
