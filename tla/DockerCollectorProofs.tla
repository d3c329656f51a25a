------------------------ MODULE DockerCollectorProofs ------------------------
(***************************************************************************)
(* Proofs about DockerCollector for every set of containers, every filter  *)
(* and every bound on the events: what the operations on the registry      *)
(* return, the safety properties, and that every step implements a step of *)
(* Audit.  That changes are shipped in the end rests on fairness and is    *)
(* left to TLC.                                                            *)
(***************************************************************************)
EXTENDS AuditRefinement, SequenceTheorems, FiniteSetTheorems, WellFoundedInduction, TLAPS

-----------------------------------------------------------------------------
(* The registry *)

\* A nonempty set of numbers has a least element, and Min (FiniteSetsExt) is that
\* element, which GetSliceIndex takes through SelectInSeq.
LEMMA MinOfNats ==
  ASSUME NEW S \in SUBSET Nat, S # {}
  PROVE  Min(S) \in S /\ \A y \in S : Min(S) <= y
<1>1. PICK x \in S : \A y \in S : ~(<<y, x>> \in OpToRel(<, Nat))
  BY NatLessThanWellFounded, WFMin
<1>2. OpToRel(<, Nat) = {p \in Nat \X Nat : p[1] < p[2]}
  BY DEF OpToRel
<1>3. ASSUME NEW y \in S  PROVE x <= y
  <2>1. ~(<<y, x>> \in {p \in Nat \X Nat : p[1] < p[2]})
    BY <1>1, <1>2, Zenon
  <2>2. ~(y < x)
    BY <2>1
  <2> QED
    BY <2>2
<1> QED
  BY <1>3 DEF Min

\* GetSliceIndex returns the index of the first entry with the id, and 0 if
\* and only if there is none.
LEMMA GetSliceIndexProperties ==
  ASSUME NEW cs \in Seq(Entry), NEW id
  PROVE  /\ GetSliceIndex(cs, id) \in 0..Len(cs)
         /\ GetSliceIndex(cs, id) = 0 <=> id \notin Ids(cs)
         /\ GetSliceIndex(cs, id) # 0 => cs[GetSliceIndex(cs, id)].id = id
<1> DEFINE I == {i \in 1..Len(cs) : cs[i].id = id}
<1>1. GetSliceIndex(cs, id) = IF I # {} THEN Min(I) ELSE 0
  BY DEF GetSliceIndex, SelectInSeq
<1>2. DOMAIN cs = 1..Len(cs) /\ Len(cs) \in Nat
  BY LenProperties
<1>3. I = {} <=> id \notin Ids(cs)
  BY <1>2 DEF Ids
<1>4. I \in SUBSET Nat
  BY <1>2
<1>5. I # {} => Min(I) \in I
  BY <1>4, MinOfNats
<1>6. \A i \in I : i \in 1..Len(cs) /\ cs[i].id = id
  OBVIOUS
<1> HIDE DEF I
<1>7. CASE I = {}
  BY <1>1, <1>2, <1>3, <1>7
<1>8. CASE I # {}
  BY <1>1, <1>2, <1>3, <1>5, <1>6, <1>8
<1> QED
  BY <1>7, <1>8

\* Node.Create adds an entry; it keeps the ids distinct only if the new one
\* was not registered.
LEMMA CreatedProperties ==
  ASSUME NEW cs \in Seq(Entry), NEW id \in Container, NEW p \in Nat
  PROVE  /\ Created(cs, id, p) \in Seq(Entry)
         /\ Ids(Created(cs, id, p)) = Ids(cs) \cup {id}
         /\ NoDuplicates(cs) /\ id \notin Ids(cs) => NoDuplicates(Created(cs, id, p))
         /\ \A j \in DOMAIN Created(cs, id, p) :
              \/ Created(cs, id, p)[j] = [id |-> id, pid |-> p, active |-> TRUE]
              \/ \E k \in DOMAIN cs : Created(cs, id, p)[j] = cs[k]
<1> DEFINE entry == [id |-> id, pid |-> p, active |-> TRUE]
           ds == Created(cs, id, p)
<1>1. entry \in Entry /\ entry.id = id
  BY DEF Entry
<1>2. Len(cs) \in Nat /\ DOMAIN cs = 1..Len(cs)
  BY LenProperties
<1> HIDE DEF entry
<1>3. /\ ds \in Seq(Entry)
      /\ Len(ds) = Len(cs) + 1
      /\ \A i \in 1..Len(cs) : ds[i] = cs[i]
      /\ ds[Len(cs) + 1] = entry
  BY <1>1, AppendProperties DEF Created, NewEntry, entry
<1>4. DOMAIN ds = 1..(Len(cs) + 1)
  BY <1>3, LenProperties
<1> HIDE DEF ds
<1>5. Ids(ds) = Ids(cs) \cup {id}
  BY <1>1, <1>2, <1>3, <1>4 DEF Ids
<1>6. ASSUME NoDuplicates(cs), id \notin Ids(cs)  PROVE NoDuplicates(ds)
  BY <1>1, <1>2, <1>3, <1>4, <1>6 DEF NoDuplicates, Ids
<1>7. \A j \in DOMAIN ds : ds[j] = entry \/ \E k \in DOMAIN cs : ds[j] = cs[k]
  BY <1>2, <1>3, <1>4
<1> QED
  BY <1>3, <1>5, <1>6, <1>7 DEF ds, entry

\* An entry that is replaced by one with the same id leaves the ids in place.
LEMMA ReplacedProperties ==
  ASSUME NEW cs \in Seq(Entry), NEW i \in 1..Len(cs), NEW e \in Entry,
         e.id = cs[i].id
  PROVE  /\ ReplaceAt(cs, i, e) \in Seq(Entry)
         /\ Ids(ReplaceAt(cs, i, e)) = Ids(cs)
         /\ NoDuplicates(cs) => NoDuplicates(ReplaceAt(cs, i, e))
         /\ \A j \in DOMAIN ReplaceAt(cs, i, e) :
              \/ ReplaceAt(cs, i, e)[j].id = cs[i].id
              \/ \E k \in DOMAIN cs : ReplaceAt(cs, i, e)[j] = cs[k]
<1> DEFINE ds == ReplaceAt(cs, i, e)
<1>1. Len(cs) \in Nat /\ DOMAIN cs = 1..Len(cs)
  BY LenProperties
<1>2. ds \in Seq(Entry) /\ Len(ds) = Len(cs)
  BY ExceptSeq DEF ReplaceAt
<1>3. DOMAIN ds = 1..Len(cs)
  BY <1>2, LenProperties
<1>4. \A j \in 1..Len(cs) : ds[j].id = cs[j].id /\ (j # i => ds[j] = cs[j])
  BY <1>1 DEF ReplaceAt
<1> HIDE DEF ds
<1>5. Ids(ds) = Ids(cs)
  BY <1>1, <1>3, <1>4 DEF Ids
<1>6. NoDuplicates(cs) => NoDuplicates(ds)
  BY <1>1, <1>3, <1>4 DEF NoDuplicates
<1>7. \A j \in DOMAIN ds : ds[j].id = cs[i].id \/ \E k \in DOMAIN cs : ds[j] = cs[k]
  BY <1>1, <1>3, <1>4
<1> QED
  BY <1>2, <1>5, <1>6, <1>7 DEF ds

\* Node.Activate and Node.Deactivate on an entry change no id, and no other entry.
LEMMA SwitchedProperties ==
  ASSUME NEW cs \in Seq(Entry), NEW i \in 1..Len(cs)
  PROVE  /\ Reactivated(cs, i) \in Seq(Entry)
         /\ Ids(Reactivated(cs, i)) = Ids(cs)
         /\ NoDuplicates(cs) => NoDuplicates(Reactivated(cs, i))
         /\ Deactivated(cs, i) \in Seq(Entry)
         /\ Ids(Deactivated(cs, i)) = Ids(cs)
         /\ NoDuplicates(cs) => NoDuplicates(Deactivated(cs, i))
         /\ \A j \in DOMAIN Reactivated(cs, i) :
              \/ Reactivated(cs, i)[j].id = cs[i].id
              \/ \E k \in DOMAIN cs : Reactivated(cs, i)[j] = cs[k]
         /\ \A j \in DOMAIN Deactivated(cs, i) :
              \/ Deactivated(cs, i)[j].id = cs[i].id
              \/ \E k \in DOMAIN cs : Deactivated(cs, i)[j] = cs[k]
<1>1. cs[i] \in Entry
  BY ElementOfSeq
<1>2. /\ [cs[i] EXCEPT !.active = TRUE, !.pid = 0] \in Entry
      /\ [cs[i] EXCEPT !.active = TRUE, !.pid = 0].id = cs[i].id
      /\ [cs[i] EXCEPT !.active = FALSE] \in Entry
      /\ [cs[i] EXCEPT !.active = FALSE].id = cs[i].id
  BY <1>1 DEF Entry
<1> QED
  BY <1>2, ReplacedProperties DEF Reactivated, Deactivated

\* DeleteByIndex moves up the entries behind the one removed.
LEMMA DeletedElements ==
  ASSUME NEW cs \in Seq(Entry), NEW i \in 1..Len(cs)
  PROVE  /\ DeletedByIndex(cs, i) \in Seq(Entry)
         /\ DOMAIN DeletedByIndex(cs, i) = 1..(Len(cs) - 1)
         /\ \A j \in 1..(Len(cs) - 1) :
              DeletedByIndex(cs, i)[j] = IF j < i THEN cs[j] ELSE cs[j + 1]
<1> DEFINE n == Len(cs)
           left == SubSeq(cs, 1, i - 1)
           right == SubSeq(cs, i + 1, n)
           ds == left \o right
<1>1. /\ n \in Nat
      /\ i \in 1..n
      /\ DOMAIN cs = 1..n
      /\ \A j \in 1..n : cs[j] \in Entry
  BY LenProperties, ElementOfSeq
<1> HIDE DEF n
<1>2. /\ left \in Seq(Entry)
      /\ Len(left) = i - 1
      /\ \A j \in 1..(i - 1) : left[j] = cs[j]
  <2>1. \A j \in 1..(i - 1) : cs[j] \in Entry
    BY <1>1
  <2>2. /\ left \in Seq(Entry)
        /\ Len(left) = IF 1 <= i - 1 THEN (i - 1) - 1 + 1 ELSE 0
        /\ \A j \in 1..((i - 1) - 1 + 1) : left[j] = cs[1 + j - 1]
    BY <2>1, <1>1, SubSeqProperties
  <2> HIDE DEF left
  <2> QED
    BY <2>2, <1>1
<1>3. /\ right \in Seq(Entry)
      /\ Len(right) = n - i
      /\ \A j \in 1..(n - i) : right[j] = cs[i + j]
  <2>1. \A j \in (i + 1)..n : cs[j] \in Entry
    BY <1>1
  <2>2. /\ right \in Seq(Entry)
        /\ Len(right) = IF i + 1 <= n THEN n - (i + 1) + 1 ELSE 0
        /\ \A j \in 1..(n - (i + 1) + 1) : right[j] = cs[(i + 1) + j - 1]
    BY <2>1, <1>1, SubSeqProperties
  <2> HIDE DEF right
  <2>3. \A j \in 1..(n - i) : (i + 1) + j - 1 = i + j /\ j \in 1..(n - (i + 1) + 1)
    BY <1>1
  <2>4. Len(right) = n - i
    BY <2>2, <1>1
  <2> QED
    BY <2>2, <2>3, <2>4
<1> HIDE DEF left, right
<1>4. /\ ds \in Seq(Entry)
      /\ Len(ds) = n - 1
      /\ \A j \in 1..(n - 1) : ds[j] = IF j <= i - 1 THEN left[j] ELSE right[j - (i - 1)]
  <2>1. /\ ds \in Seq(Entry)
        /\ Len(ds) = Len(left) + Len(right)
        /\ \A j \in 1..(Len(left) + Len(right)) :
             ds[j] = IF j <= Len(left) THEN left[j] ELSE right[j - Len(left)]
    BY <1>2, <1>3, ConcatProperties
  <2> HIDE DEF ds
  <2>2. Len(left) + Len(right) = n - 1
    BY <1>1, <1>2, <1>3
  <2> QED
    BY <2>1, <2>2, <1>2
<1>5. DOMAIN ds = 1..(n - 1)
  BY <1>4, LenProperties
<1> HIDE DEF ds
<1>6. \A j \in 1..(n - 1) : ds[j] = IF j < i THEN cs[j] ELSE cs[j + 1]
  <2> TAKE j \in 1..(n - 1)
  <2>1. CASE j < i
    BY <2>1, <1>1, <1>2, <1>4
  <2>2. CASE j >= i
    <3>1. j - (i - 1) \in 1..(n - i) /\ i + (j - (i - 1)) = j + 1 /\ ~(j <= i - 1) /\ ~(j < i)
      BY <2>2, <1>1
    <3> QED
      BY <3>1, <1>3, <1>4
  <2> QED
    BY <2>1, <2>2, <1>1
<1>7. ds = DeletedByIndex(cs, i)
  BY DEF ds, left, right, n, DeletedByIndex, RemoveAt
<1> QED
  BY <1>4, <1>5, <1>6, <1>7 DEF n

\* DeleteByIndex on a registry without duplicates removes that id and no other.
LEMMA DeletedProperties ==
  ASSUME NEW cs \in Seq(Entry), NEW i \in 1..Len(cs)
  PROVE  /\ DeletedByIndex(cs, i) \in Seq(Entry)
         /\ NoDuplicates(cs) =>
              /\ Ids(DeletedByIndex(cs, i)) = Ids(cs) \ {cs[i].id}
              /\ NoDuplicates(DeletedByIndex(cs, i))
         /\ \A j \in DOMAIN DeletedByIndex(cs, i) :
              \E k \in DOMAIN cs : DeletedByIndex(cs, i)[j] = cs[k]
<1> DEFINE n == Len(cs)
           ds == DeletedByIndex(cs, i)
<1>1. /\ n \in Nat
      /\ i \in 1..n
      /\ DOMAIN cs = 1..n
  BY LenProperties
<1>2. /\ ds \in Seq(Entry)
      /\ DOMAIN ds = 1..(n - 1)
      /\ \A j \in 1..(n - 1) : ds[j] = IF j < i THEN cs[j] ELSE cs[j + 1]
  BY DeletedElements
<1> HIDE DEF n, ds
<1>3. ASSUME NoDuplicates(cs)  PROVE NoDuplicates(ds)
  <2> SUFFICES ASSUME NEW j \in 1..(n - 1), NEW k \in 1..(n - 1), ds[j].id = ds[k].id
               PROVE  j = k
    BY <1>2 DEF NoDuplicates
  <2> DEFINE Old(m) == IF m < i THEN m ELSE m + 1
  <2>1. /\ Old(j) \in 1..n /\ ds[j] = cs[Old(j)]
        /\ Old(k) \in 1..n /\ ds[k] = cs[Old(k)]
    BY <1>1, <1>2
  <2>2. Old(j) = Old(k)
    <3> HIDE DEF Old
    <3> QED
      BY <2>1, <1>1, <1>3 DEF NoDuplicates
  <2> QED
    BY <2>2, <1>1
<1>4. ASSUME NoDuplicates(cs)  PROVE Ids(ds) = Ids(cs) \ {cs[i].id}
  <2>1. ASSUME NEW x \in Ids(ds)  PROVE x \in Ids(cs) \ {cs[i].id}
    <3>1. PICK j \in 1..(n - 1) : x = ds[j].id
      BY <1>2 DEF Ids
    <3>2. PICK k \in 1..n : ds[j] = cs[k] /\ k # i
      BY <1>1, <1>2
    <3> QED
      BY <3>1, <3>2, <1>1, <1>4 DEF Ids, NoDuplicates
  <2>2. ASSUME NEW x \in Ids(cs), x # cs[i].id  PROVE x \in Ids(ds)
    <3>1. PICK j \in 1..n : x = cs[j].id
      BY <1>1 DEF Ids
    <3>2. CASE j < i
      <4>1. j \in 1..(n - 1) /\ ds[j] = cs[j]
        BY <3>2, <1>1, <1>2
      <4> QED
        BY <4>1, <3>1, <1>2 DEF Ids
    <3>3. CASE j > i
      <4>1. j - 1 \in 1..(n - 1) /\ ds[j - 1] = cs[j]
        BY <3>3, <1>1, <1>2
      <4> QED
        BY <4>1, <3>1, <1>2 DEF Ids
    <3> QED
      BY <3>1, <3>2, <3>3, <2>2, <1>1
  <2> QED
    BY <2>1, <2>2
<1>5. \A j \in DOMAIN ds : \E k \in DOMAIN cs : ds[j] = cs[k]
  BY <1>1, <1>2
<1> QED
  BY <1>2, <1>3, <1>4, <1>5 DEF ds
-----------------------------------------------------------------------------
(* The initial states, and what steps leave alone *)

\* What the steps of the daemon leave alone.
LEMMA DockerFrame ==
  ASSUME Docker
  PROVE  UNCHANGED <<monitor, waiting, inside, hpc, hpid, mpc, cursor,
                     containersMutex, containers, published, faulted>>
<1>1. PICK c \in Container :
        \/ DockerCreate(c) \/ DockerStart(c) \/ DockerDie(c) \/ DockerDestroy(c)
        \/ DockerStop(c) \/ DockerStopped(c) \/ DockerRename(c)
  BY DEF Docker
<1>2. \E s : Emit(c, s)
  BY <1>1 DEF DockerCreate, DockerStart, DockerDie, DockerStop, DockerStopped, DockerDestroy,
              DockerRename, Exit
<1> QED
  BY <1>2 DEF Emit, handlerVars, mainVars, dataVars

\* What the steps of main leave alone.
LEMMA MainFrame ==
  ASSUME Main
  PROVE  UNCHANGED <<status, pid, lastPid, stopping, matching, ambiguous, lastSeq, calm,
                     monitor, stream, waiting, inside, hpc, hpid, containers, faulted>>
BY DEF Main, MainInside, MainLock, FirstIndex, ReadContainer, DiscardDone, ReadDone, MainUnlock,
       MainWakes, mainFrame, dockerVars, handlerVars

\* The registry that start-up leaves behind: typed, without duplicates, with an
\* entry for every running container that was not skipped and did not fail.
LEMMA InitRegistry ==
  ASSUME Init
  PROVE  /\ containers \in Seq(Entry)
         /\ NoDuplicates(containers)
         /\ Ids(containers) = Running \ (matching \cup ambiguous \cup faulted)
         /\ \A i \in DOMAIN containers :
              containers[i] = [id |-> containers[i].id, pid |-> pid[containers[i].id],
                               active |-> TRUE]
<1> DEFINE S == Running \ (matching \cup ambiguous \cup faulted)
           n == Cardinality(S)
<1>1. n \in Nat
  BY ConstantsAssumption, FS_Subset, FS_CardinalityType DEF Running
<1>2. PICK order \in SetToSeqs(S) :
        containers = [i \in DOMAIN order |->
                        [id |-> order[i], pid |-> pid[order[i]], active |-> TRUE]]
  BY DEF Init
<1>3. /\ DOMAIN order = 1..n
      /\ \A i \in 1..n : order[i] \in S
      /\ \A i, j \in 1..n : i # j => order[i] # order[j]
  BY DEF SetToSeqs
<1>4. S \subseteq Container /\ \A c \in S : pid[c] \in Nat
  BY ConstantsAssumption, FS_CardinalityType DEF Running, Init
<1>a. \A c \in S : \E i \in 1..n : order[i] = c
  <2>1. IsFiniteSet(S)
    BY ConstantsAssumption, FS_Subset DEF Running
  <2>2. order \in Injection(1..n, S)
    <3>1. order \in [1..n -> S]
      BY <1>2 DEF SetToSeqs
    <3>2. IsInjective(order)
      BY <1>3 DEF IsInjective
    <3> QED
      BY <3>1, <3>2 DEF Injection
  <2>3. Cardinality(1..n) = Cardinality(S)
    <3> HIDE DEF S
    <3>1. n \in Int /\ 1 \in Int /\ ~(1 > n + 1)
      BY <1>1
    <3> HIDE DEF n
    <3>2. Cardinality(1..n) = n
      BY <1>1, <3>1, FS_Interval
    <3> QED
      BY <3>2 DEF n
  <2> HIDE DEF n, S
  <2>4. order \in Surjection(1..n, S)
    BY <2>1, <2>2, <2>3, FS_Injection
  <2> QED
    BY <2>4 DEF Surjection
<1> HIDE DEF n, S
<1>5. /\ DOMAIN containers = 1..n
      /\ \A i \in 1..n :
           /\ containers[i] \in Entry
           /\ containers[i].id = order[i]
           /\ containers[i] = [id |-> order[i], pid |-> pid[order[i]], active |-> TRUE]
  BY <1>2, <1>3, <1>4 DEF Entry
<1>6. containers \in [1..n -> Entry]
  BY <1>2, <1>3, <1>5
<1>7. containers \in Seq(Entry)
  BY <1>1, <1>6, SeqDef
<1>8. NoDuplicates(containers)
  BY <1>3, <1>5 DEF NoDuplicates
<1>9. Ids(containers) = S
  BY <1>3, <1>5, <1>a DEF Ids
<1> QED
  BY <1>5, <1>7, <1>8, <1>9 DEF S
-----------------------------------------------------------------------------
(* Types *)

\* The types of all variables but monitor, whose values the start-up adds to.
StateTypeOK ==
  /\ status \in [Container -> {"absent", "created", "running", "exited", "removed"}]
  /\ pid \in [Container -> Nat]
  /\ lastPid \in Nat
  /\ lastSeq \in Nat
  /\ stopping \in SUBSET Container
  /\ matching \in SUBSET Filterable /\ ambiguous \in SUBSET Filterable
  /\ stream \in SUBSET Event /\ waiting \in SUBSET Event /\ inside \in SUBSET Event
  /\ hpc \in {"none", "inspect", "activate", "create", "list", "deactivate",
              "delete", "update", "unlock"}
  /\ hpid \in Nat
  /\ mpc \in {"first", "asleep", "awake", "discard", "setup", "read", "unlock"}
  /\ cursor \in Nat \ {0}
  /\ containersMutex \in {"free", "main", "handler"}
  /\ containers \in Seq(Entry) /\ published \in Seq(Entry)
  /\ calm \in SUBSET Container
  /\ faulted \in SUBSET Container
  /\ sampled \in [Container -> {"no", "read", "shipped"}]

LEMMA TypesSplit == TypeOK <=> StateTypeOK /\ monitor \in {"on", "dead"}
BY DEF TypeOK, StateTypeOK

\* The daemon emits one event at a time, with a number of its own.
LEMMA EmittedIsNew ==
  ASSUME StateTypeOK, NEW c \in Container, NEW s \in EventStatus, Emit(c, s)
  PROVE  /\ NewEvent(c, s) \in Event
         /\ NewEvent(c, s).seq = lastSeq + 1
         /\ NewEvent(c, s).id = c
         /\ NewEvent(c, s).status = s
         /\ lastSeq' = lastSeq + 1 /\ lastSeq \in Nat
         /\ stream \subseteq stream'
         /\ stream' \subseteq stream \cup {NewEvent(c, s)}
         /\ monitor = "on" => NewEvent(c, s) \in stream'
         /\ stream' \in SUBSET Event
<1>1. /\ NewEvent(c, s) \in Event
      /\ NewEvent(c, s).seq = lastSeq + 1
      /\ NewEvent(c, s).id = c
      /\ NewEvent(c, s).status = s
      /\ lastSeq \in Nat /\ stream \in SUBSET Event
  BY DEF StateTypeOK, NewEvent, Event
<1> QED
  BY <1>1 DEF Emit

\* Every step of the daemon concerns one container and emits one event of it.
LEMMA DockerCases ==
  ASSUME Docker
  PROVE  \E c \in Container, s \in EventStatus :
           /\ Emit(c, s)
           /\ \/ DockerCreate(c) /\ s = "create"
              \/ DockerStart(c) /\ s = "start"
              \/ (DockerDie(c) \/ DockerStop(c)) /\ s = "die"
              \/ DockerStopped(c) /\ s = "stop"
              \/ DockerDestroy(c) /\ s = "destroy"
              \/ DockerRename(c) /\ s = "rename"
<1>1. {"create", "rename", "start", "stop", "die", "destroy"} = EventStatus
  BY DEF EventStatus
<1> QED
  BY <1>1 DEF Docker, DockerCreate, DockerStart, DockerDie, DockerStop, DockerStopped,
              DockerDestroy, DockerRename, Exit

\* The variables that only the daemon and the stream write.
DockerTypeOK ==
  /\ status \in [Container -> {"absent", "created", "running", "exited", "removed"}]
  /\ pid \in [Container -> Nat]
  /\ lastPid \in Nat
  /\ lastSeq \in Nat
  /\ stopping \in SUBSET Container
  /\ matching \in SUBSET Filterable /\ ambiguous \in SUBSET Filterable
  /\ stream \in SUBSET Event
  /\ calm \in SUBSET Container
  /\ sampled \in [Container -> {"no", "read", "shipped"}]

LEMMA DockerTypes ==
  ASSUME StateTypeOK, Docker
  PROVE  DockerTypeOK'
<1>1. PICK c \in Container, s \in EventStatus :
        /\ Emit(c, s)
        /\ \/ DockerCreate(c) \/ DockerStart(c) \/ DockerDie(c) \/ DockerDestroy(c)
           \/ DockerStop(c) \/ DockerStopped(c) \/ DockerRename(c)
  BY DockerCases
<1>2. stream' \in SUBSET Event /\ lastSeq' \in Nat
  BY <1>1, EmittedIsNew
<1>3. CASE DockerCreate(c)
  BY <1>2, <1>3 DEF DockerCreate, DockerTypeOK, StateTypeOK, nameVars
<1>4. CASE DockerStart(c)
  <2>1. calm' \in SUBSET Container
    BY <1>4 DEF DockerStart, StateTypeOK
  <2> QED
    BY <1>2, <1>4, <2>1 DEF DockerStart, DockerTypeOK, StateTypeOK, nameVars
<1>5. CASE DockerDie(c) \/ DockerStop(c)
  <2>1. /\ status' = [status EXCEPT ![c] = "exited"] /\ pid' = [pid EXCEPT ![c] = 0]
        /\ sampled' = [sampled EXCEPT ![c] = "no"]
        /\ UNCHANGED <<lastPid, calm, matching, ambiguous>>
        /\ stopping' = stopping \/ stopping' = stopping \cup {c}
    BY <1>5 DEF DockerDie, DockerStop, Exit, nameVars
  <2>2. stopping' \in SUBSET Container
    BY <2>1 DEF StateTypeOK
  <2> QED
    BY <1>2, <2>1, <2>2 DEF DockerTypeOK, StateTypeOK
<1>6. CASE DockerStopped(c)
  BY <1>2, <1>6 DEF DockerStopped, DockerTypeOK, StateTypeOK, nameVars
<1>7. CASE DockerDestroy(c)
  BY <1>2, <1>7 DEF DockerDestroy, DockerTypeOK, StateTypeOK, nameVars
<1>8. CASE DockerRename(c)
  BY <1>2, <1>8 DEF DockerRename, DockerTypeOK, StateTypeOK, lifeVars
<1> QED
  BY <1>1, <1>3, <1>4, <1>5, <1>6, <1>7, <1>8

\* The daemon only ever takes containers out of Excluded and Included, and calms none.
LEMMA NamesStep ==
  ASSUME Docker
  PROVE  Excluded' \subseteq Excluded /\ Included' \subseteq Included /\ calm' \subseteq calm
<1>1. PICK c \in Container :
        \/ DockerCreate(c) \/ DockerStart(c) \/ DockerDie(c) \/ DockerDestroy(c)
        \/ DockerStop(c) \/ DockerStopped(c) \/ DockerRename(c)
  BY DEF Docker
<1>2. /\ \/ UNCHANGED nameVars
         \/ /\ matching' \subseteq matching \cup {c} /\ matching \subseteq matching' \cup {c}
            /\ ambiguous' = ambiguous \cup {c}
      /\ calm' = calm \/ calm' = calm \ {c}
  <2>1. CASE DockerRename(c)
    BY <2>1 DEF DockerRename, lifeVars
  <2>2. CASE DockerStart(c)
    BY <2>2 DEF DockerStart
  <2>3. CASE \/ DockerCreate(c) \/ DockerDie(c) \/ DockerStop(c) \/ DockerStopped(c)
             \/ DockerDestroy(c)
    BY <2>3 DEF DockerCreate, DockerDie, DockerStop, DockerStopped, DockerDestroy, Exit
  <2> QED
    BY <1>1, <2>1, <2>2, <2>3
<1> QED
  BY <1>2 DEF Excluded, Included, nameVars

\* Every step keeps the types.
LEMMA StateTypes == StateTypeOK /\ [Next]_vars => StateTypeOK'
<1> SUFFICES ASSUME StateTypeOK, [Next]_vars  PROVE StateTypeOK'
  OBVIOUS
<1>1. CASE Docker
  BY <1>1, DockerFrame, DockerTypes DEF StateTypeOK, DockerTypeOK
<1>2. CASE StreamFails
  BY <1>2 DEF StreamFails, StateTypeOK, dockerVars, handlerVars, mainVars, dataVars
<1>3. CASE ListenForEvents
  BY <1>3 DEF ListenForEvents, StateTypeOK, dockerVars, handlerVars, mainVars, dataVars
<1>4. CASE HandlerLock
  <2>1. PICK e \in waiting :
          waiting' = waiting \ {e} /\ inside' = {e} /\ hpc' = FirstStep(e.status)
    BY <1>4 DEF HandlerLock
  <2>2. e.status \in EventStatus /\ e \in Event
    BY <2>1 DEF StateTypeOK, Event
  <2>3. hpc' \in {"inspect", "deactivate", "delete", "unlock"}
    BY <2>1, <2>2 DEF FirstStep
  <2> QED
    BY <1>4, <2>1, <2>2, <2>3 DEF HandlerLock, StateTypeOK, dockerVars, mainVars, dataVars
<1>5. ASSUME NEW e \in inside, InspectOnStart(e)  PROVE StateTypeOK'
  BY <1>5 DEF InspectOnStart, Matches, Fault, StateTypeOK, Event, handlerFrame, dockerVars,
              mainVars, dataVars
<1>6. ASSUME NEW e \in inside, Activate(e)  PROVE StateTypeOK'
  <2> DEFINE i == GetSliceIndex(containers, e.id)
  <2>1. e.id \in Container
    BY DEF StateTypeOK, Event
  <2>2. i # 0 => i \in 1..Len(containers)
    BY GetSliceIndexProperties DEF StateTypeOK
  <2>3. containers' \in Seq(Entry)
    BY <1>6, <2>2, SwitchedProperties DEF Activate, StateTypeOK
  <2> QED
    BY <1>6, <2>1, <2>3 DEF Activate, Fault, StateTypeOK, handlerFrame, dockerVars, mainVars
<1>7. ASSUME NEW e \in inside, CreateInspect(e)  PROVE StateTypeOK'
  BY <1>7 DEF CreateInspect, Fault, StateTypeOK, Event, handlerFrame, dockerVars, mainVars,
              dataVars
<1>8. ASSUME NEW e \in inside, CreateAppend(e)  PROVE StateTypeOK'
  <2>1. e.id \in Container
    BY DEF StateTypeOK, Event
  <2>2. containers \in Seq(Entry) /\ hpid \in Nat
    BY DEF StateTypeOK
  <2>3. Created(containers, e.id, hpid) \in Seq(Entry)
    BY <2>1, <2>2, CreatedProperties
  <2>4. containers' \in Seq(Entry)
    BY <1>8, <2>2, <2>3 DEF CreateAppend
  <2> QED
    BY <1>8, <2>1, <2>4 DEF CreateAppend, Fault, StateTypeOK, handlerFrame, dockerVars, mainVars
<1>9. ASSUME NEW e \in inside, DeactivateOnStop(e)  PROVE StateTypeOK'
  <2> DEFINE i == GetSliceIndex(containers, e.id)
  <2>1. i # 0 => i \in 1..Len(containers)
    BY GetSliceIndexProperties DEF StateTypeOK
  <2>2. containers' \in Seq(Entry)
    BY <1>9, <2>1, SwitchedProperties DEF DeactivateOnStop, AfterPause, StateTypeOK
  <2> QED
    BY <1>9, <2>2 DEF DeactivateOnStop, AfterPause, StateTypeOK, handlerFrame, dockerVars, mainVars
<1>10. ASSUME NEW e \in inside, DeleteOnDie(e)  PROVE StateTypeOK'
  <2> DEFINE i == GetSliceIndex(containers, e.id)
  <2>1. i # 0 => i \in 1..Len(containers)
    BY GetSliceIndexProperties DEF StateTypeOK
  <2>2. containers' \in Seq(Entry) /\ published' \in Seq(Entry)
    BY <1>10, <2>1, DeletedProperties DEF DeleteOnDie, StateTypeOK, dataVars
  <2> QED
    BY <1>10, <2>2 DEF DeleteOnDie, StateTypeOK, handlerFrame, dockerVars, mainVars
<1>11. CASE HandlerUpdateDBNode
  BY <1>11 DEF HandlerUpdateDBNode, StateTypeOK, handlerFrame, dockerVars, mainVars
<1>12. CASE HandlerUnlock
  BY <1>12 DEF HandlerUnlock, StateTypeOK, dockerVars, mainVars, dataVars
<1>13. CASE MainLock
  BY <1>13 DEF MainLock, FirstIndex, StateTypeOK, mainFrame, dockerVars, handlerVars
<1>14. CASE ReadContainer
  <2>1. containers \in Seq(Entry) /\ cursor \in Nat \ {0} /\ cursor <= Len(containers)
    BY <1>14 DEF ReadContainer, StateTypeOK
  <2>2. cursor \in 1..Len(containers)
    BY <2>1, LenProperties
  <2>3. containers[cursor] \in Entry
    BY <2>1, <2>2, ElementOfSeq
  <2>4. containers[cursor].id \in Container
    BY <2>3 DEF Entry
  <2> QED
    BY <1>14, <2>4 DEF ReadContainer, StateTypeOK, mainFrame, dockerVars, handlerVars
<1>15. CASE DiscardDone
  BY <1>15 DEF DiscardDone, StateTypeOK, mainFrame, dockerVars, handlerVars
<1>16. CASE ReadDone
  BY <1>16 DEF ReadDone, UpdateAfterReading, StateTypeOK, mainFrame, dockerVars, handlerVars
<1>17. CASE MainUnlock
  BY <1>17 DEF MainUnlock, StateTypeOK, mainFrame, dockerVars, handlerVars
<1>18. CASE MainWakes
  BY <1>18 DEF MainWakes, StateTypeOK, mainFrame, dockerVars, handlerVars
<1>19. CASE UNCHANGED vars
  BY <1>19 DEF vars, StateTypeOK, dockerVars, handlerVars, mainVars, dataVars
<1> QED
  BY <1>1, <1>2, <1>3, <1>4, <1>5, <1>6, <1>7, <1>8, <1>9, <1>10, <1>11, <1>12,
     <1>13, <1>14, <1>15, <1>16, <1>17, <1>18, <1>19 DEF Next, Handler, Main, MainInside

\* No step takes a variable out of its type.
LEMMA TypeStep == TypeOK /\ [Next]_vars => TypeOK'
<1> SUFFICES ASSUME TypeOK, [Next]_vars  PROVE TypeOK'
  OBVIOUS
<1>1. StateTypeOK'
  BY StateTypes, TypesSplit
<1>2. monitor' \in {"on", "dead"}
  <2>1. monitor' = monitor \/ monitor' = "dead"
    BY DockerFrame, MainFrame
       DEF Next, StreamFails, ListenForEvents, HandlerLock, Handler, InspectOnStart,
           Activate, CreateInspect, CreateAppend, DeactivateOnStop, DeleteOnDie,
           HandlerUpdateDBNode, HandlerUnlock, handlerFrame, vars
  <2> QED
    BY <2>1 DEF TypeOK
<1> QED
  BY <1>1, <1>2 DEF TypeOK, StateTypeOK

\* Every variable keeps its type.
THEOREM TypeCorrect == Spec => []TypeOK
<1>1. Init => TypeOK
  <2> SUFFICES ASSUME Init  PROVE TypeOK
    OBVIOUS
  <2>1. Cardinality(Container) \in Nat
    BY ConstantsAssumption, FS_CardinalityType
  <2>2. containers \in Seq(Entry)
    BY InitRegistry
  <2> QED
    BY <2>1, <2>2 DEF Init, TypeOK, Running
<1> QED
  BY <1>1, TypeStep, PTL DEF Spec
-----------------------------------------------------------------------------
(* The lock and the branches of the switch *)

\* What the event goroutine leaves alone while it is inside.
LEMMA HandlerFrame ==
  ASSUME NEW e,
         \/ InspectOnStart(e) \/ Activate(e) \/ CreateInspect(e) \/ CreateAppend(e)
         \/ DeactivateOnStop(e) \/ DeleteOnDie(e) \/ HandlerUpdateDBNode
  PROVE  /\ UNCHANGED <<status, pid, lastPid, lastSeq, stopping, matching, ambiguous, calm,
                        monitor, stream, waiting, inside, mpc, cursor, containersMutex,
                        sampled>>
         /\ hpc # "none" /\ hpc' # "none"
BY DEF InspectOnStart, Matches, Activate, CreateInspect, CreateAppend, DeactivateOnStop, AfterPause,
       DeleteOnDie, HandlerUpdateDBNode, handlerFrame, dockerVars, mainVars

\* The steps of Next, with the event of the goroutine named.
LEMMA NextCases ==
  ASSUME [Next]_vars
  PROVE  \/ Docker \/ StreamFails \/ ListenForEvents \/ HandlerLock
         \/ \E e \in inside :
              \/ InspectOnStart(e) \/ Activate(e) \/ CreateInspect(e)
              \/ CreateAppend(e) \/ DeactivateOnStop(e) \/ DeleteOnDie(e)
         \/ HandlerUpdateDBNode \/ HandlerUnlock
         \/ Main
         \/ UNCHANGED vars
BY DEF Next, Handler

\* A step goes into a critical section with the lock, and gives it back when it leaves.
LEMMA LockStep == StateTypeOK /\ LockInv /\ [Next]_vars => LockInv'
<1> SUFFICES ASSUME StateTypeOK, LockInv, [Next]_vars  PROVE LockInv'
  OBVIOUS
<1>1. CASE Docker
  BY <1>1, DockerFrame DEF LockInv
<1>2. CASE StreamFails
  BY <1>2 DEF StreamFails, LockInv, handlerVars, mainVars
<1>3. CASE ListenForEvents
  BY <1>3 DEF ListenForEvents, LockInv, handlerVars, mainVars
<1>4. CASE HandlerLock
  <2>1. PICK e \in waiting :
          waiting' = waiting \ {e} /\ inside' = {e} /\ hpc' = FirstStep(e.status)
    BY <1>4 DEF HandlerLock
  <2>2. e.status \in EventStatus
    BY <2>1 DEF StateTypeOK, Event
  <2>3. hpc' # "none"
    BY <2>1, <2>2 DEF FirstStep
  <2> QED
    BY <1>4, <2>1, <2>3 DEF HandlerLock, LockInv, mainVars
<1>5. ASSUME NEW e \in inside,
             \/ InspectOnStart(e) \/ Activate(e) \/ CreateInspect(e)
             \/ CreateAppend(e) \/ DeactivateOnStop(e) \/ DeleteOnDie(e)
      PROVE  LockInv'
  BY <1>5, HandlerFrame DEF LockInv
<1>6. CASE HandlerUpdateDBNode
  BY <1>6, HandlerFrame DEF LockInv
<1>7. CASE HandlerUnlock
  BY <1>7 DEF HandlerUnlock, LockInv, mainVars
<1>8. CASE MainLock
  BY <1>8 DEF MainLock, FirstIndex, LockInv, mainFrame, handlerVars
<1>9. CASE ReadContainer
  BY <1>9 DEF ReadContainer, LockInv, mainFrame, handlerVars
<1>10. CASE ReadDone
  BY <1>10 DEF ReadDone, LockInv, mainFrame, handlerVars
<1>11. CASE MainUnlock
  BY <1>11 DEF MainUnlock, LockInv, mainFrame, handlerVars
<1>12. CASE UNCHANGED vars
  BY <1>12 DEF vars, LockInv, handlerVars, mainVars
<1>13. CASE DiscardDone
  BY <1>13 DEF DiscardDone, LockInv, mainFrame, handlerVars
<1>14. CASE MainWakes
  BY <1>14 DEF MainWakes, LockInv, mainFrame, handlerVars
<1> QED
  BY <1>1, <1>2, <1>3, <1>4, <1>5, <1>6, <1>7, <1>8, <1>9, <1>10, <1>11, <1>12,
     <1>13, <1>14, NextCases DEF Main, MainInside

\* containersMutex protects both critical sections.
THEOREM LockCorrect == Spec => []LockInv
<1>1. Init => LockInv
  BY DEF Init, LockInv
<1> QED
  BY <1>1, LockStep, TypesSplit, TypeCorrect, PTL DEF Spec

\* A step stays in the branch of its event.
LEMMA BranchStep == TypeOK /\ BranchInv /\ [Next]_vars => BranchInv'
<1> SUFFICES ASSUME TypeOK, BranchInv, [Next]_vars  PROVE BranchInv'
  OBVIOUS
<1>1. CASE Docker
  BY <1>1, DockerFrame DEF BranchInv
<1>2. CASE StreamFails
  BY <1>2 DEF StreamFails, BranchInv, handlerVars
<1>3. CASE ListenForEvents
  BY <1>3 DEF ListenForEvents, BranchInv, handlerVars
<1>4. CASE HandlerLock
  <2>1. PICK e \in waiting : inside' = {e} /\ hpc' = FirstStep(e.status)
    BY <1>4 DEF HandlerLock
  <2>2. e.status \in EventStatus
    BY <2>1 DEF TypeOK, Event
  <2> QED
    BY <2>1, <2>2 DEF BranchInv, FirstStep, EventStatus, Removal
<1>5. ASSUME NEW e \in inside,
             \/ InspectOnStart(e) \/ Activate(e) \/ CreateInspect(e)
             \/ CreateAppend(e) \/ DeactivateOnStop(e) \/ DeleteOnDie(e)
      PROVE  BranchInv'
  BY <1>5, HandlerFrame
     DEF BranchInv, InspectOnStart, Matches, Activate, CreateInspect, CreateAppend,
         DeactivateOnStop, AfterPause, DeleteOnDie
<1>6. CASE HandlerUpdateDBNode
  BY <1>6 DEF HandlerUpdateDBNode, BranchInv
<1>7. CASE HandlerUnlock
  BY <1>7 DEF HandlerUnlock, BranchInv
<1>8. CASE Main
  BY <1>8, MainFrame DEF BranchInv
<1>9. CASE UNCHANGED vars
  BY <1>9 DEF vars, BranchInv, handlerVars
<1> QED
  BY <1>1, <1>2, <1>3, <1>4, <1>5, <1>6, <1>7, <1>8, <1>9, NextCases

\* The steps that only the goroutine inside can disturb leave BranchInv alone.
THEOREM BranchCorrect == Spec => []BranchInv
<1>1. Init => BranchInv
  BY DEF Init, BranchInv
<1> QED
  BY <1>1, BranchStep, TypeCorrect, PTL DEF Spec
-----------------------------------------------------------------------------
(* The registry along the steps *)

\* What a step of the goroutine for e can do to the registry: nothing, add e.id
\* at the end, switch the entry of e.id, or remove it.
LEMMA RegistrySteps ==
  ASSUME StateTypeOK, NEW e \in inside,
         \/ InspectOnStart(e) \/ Activate(e) \/ CreateInspect(e)
         \/ CreateAppend(e) \/ DeactivateOnStop(e) \/ DeleteOnDie(e)
  PROVE  /\ e.id \in Container
         /\ \/ containers' = containers
            \/ hpc = "list" /\ containers' = Created(containers, e.id, hpid)
            \/ \E i \in 1..Len(containers) :
                 /\ containers[i].id = e.id
                 /\ \/ containers' = Reactivated(containers, i)
                    \/ containers' = Deactivated(containers, i)
                    \/ hpc = "delete" /\ containers' = DeletedByIndex(containers, i)
<1>1. e.id \in Container /\ containers \in Seq(Entry)
  BY DEF StateTypeOK, Event
<1> DEFINE i == GetSliceIndex(containers, e.id)
<1>2. /\ i \in 0..Len(containers)
      /\ i # 0 => containers[i].id = e.id
  BY <1>1, GetSliceIndexProperties
<1>3. i # 0 => i \in 1..Len(containers)
  BY <1>2
<1> QED
  BY <1>1, <1>2, <1>3 DEF InspectOnStart, Matches, Activate, CreateInspect, CreateAppend,
       DeactivateOnStop, AfterPause, DeleteOnDie, dataVars

\* No step registers a container twice.
LEMMA RegistryStep == TypeOK /\ LockInv /\ RegistryInv /\ [Next]_vars => RegistryInv'
<1> SUFFICES ASSUME TypeOK, LockInv, RegistryInv, [Next]_vars  PROVE RegistryInv'
  OBVIOUS
<1> USE DEF RegistryInv, UniqueEntries
<1>1. CASE Docker
  BY <1>1, DockerFrame
<1>2. CASE StreamFails
  BY <1>2 DEF StreamFails, handlerVars, dataVars
<1>3. CASE ListenForEvents
  BY <1>3 DEF ListenForEvents, handlerVars, dataVars
<1>4. CASE HandlerLock
  <2>1. PICK e \in waiting : hpc' = FirstStep(e.status) /\ e.status \in EventStatus
    BY <1>4 DEF HandlerLock, TypeOK, Event
  <2>2. hpc' \notin {"create", "list"}
    BY <2>1 DEF FirstStep, EventStatus
  <2> QED
    BY <1>4, <2>2 DEF HandlerLock, dataVars
<1>5. ASSUME NEW e \in inside,
             \/ InspectOnStart(e) \/ Activate(e) \/ CreateInspect(e)
             \/ CreateAppend(e) \/ DeactivateOnStop(e) \/ DeleteOnDie(e)
      PROVE  RegistryInv'
  <2>1. containers \in Seq(Entry) /\ hpid \in Nat
    BY DEF TypeOK
  <2>2. inside' = inside /\ inside = {e}
    BY <1>5, HandlerFrame DEF LockInv
  <2>3. NoDuplicates(containers')
    <3>1. CASE containers' = containers
      BY <3>1
    <3>2. CASE hpc = "list" /\ containers' = Created(containers, e.id, hpid)
      <4>1. e.id \in Container /\ e.id \notin Ids(containers)
        BY <1>5, <3>2, RegistrySteps, TypesSplit
      <4> QED
        BY <3>2, <4>1, <2>1, CreatedProperties
    <3>3. ASSUME NEW i \in 1..Len(containers),
                 \/ containers' = Reactivated(containers, i)
                 \/ containers' = Deactivated(containers, i)
                 \/ containers' = DeletedByIndex(containers, i)
          PROVE  NoDuplicates(containers')
      BY <3>3, <2>1, SwitchedProperties, DeletedProperties
    <3> QED
      BY <1>5, <3>1, <3>2, <3>3, RegistrySteps, TypesSplit
  <2>4. ASSUME hpc' \in {"create", "list"}  PROVE e.id \notin Ids(containers')
    <3>1. CASE Activate(e)
      <4>1. GetSliceIndex(containers, e.id) = 0 /\ containers' = containers
        BY <3>1, <2>4 DEF Activate
      <4> QED
        BY <4>1, <2>1, GetSliceIndexProperties
    <3>2. CASE CreateInspect(e)
      BY <3>2 DEF CreateInspect, dataVars
    <3>3. CASE InspectOnStart(e) \/ CreateAppend(e) \/ DeactivateOnStop(e) \/ DeleteOnDie(e)
      BY <3>3, <2>4 DEF InspectOnStart, Matches, CreateAppend, DeactivateOnStop, AfterPause,
                        DeleteOnDie
    <3> QED
      BY <1>5, <3>1, <3>2, <3>3
  <2> QED
    BY <2>2, <2>3, <2>4
<1>6. CASE HandlerUpdateDBNode
  BY <1>6, HandlerFrame DEF HandlerUpdateDBNode
<1>7. CASE HandlerUnlock
  BY <1>7 DEF HandlerUnlock, dataVars
<1>8. CASE Main
  BY <1>8, MainFrame
<1>9. CASE UNCHANGED vars
  BY <1>9 DEF vars, handlerVars, dataVars
<1> QED
  BY <1>1, <1>2, <1>3, <1>4, <1>5, <1>6, <1>7, <1>8, <1>9, NextCases

\* Whoever else gets the lock meanwhile, no container is registered twice.
THEOREM RegistryCorrect == Spec => []RegistryInv
<1>1. Init => RegistryInv
  BY InitRegistry DEF Init, RegistryInv, UniqueEntries
<1> QED
  BY <1>1, RegistryStep, TypeCorrect, LockCorrect, PTL DEF Spec

\* No container is registered twice, in whatever order the event goroutines get
\* the lock.
THEOREM EntriesUnique == Spec => []UniqueEntries
<1>1. RegistryInv => UniqueEntries
  BY DEF RegistryInv
<1> QED
  BY <1>1, RegistryCorrect, PTL

\* No step registers a container whose name has matched -f all along.
LEMMA FilterStep ==
  TypeOK /\ LockInv /\ RegistryInv /\ FilterInv /\ [Next]_vars => FilterInv'
<1> SUFFICES ASSUME TypeOK, LockInv, RegistryInv, FilterInv, [Next]_vars
             PROVE  FilterInv'
  OBVIOUS
<1> USE DEF FilterInv, FilterHonoured
<1>1. CASE Docker
  BY <1>1, DockerFrame, NamesStep
<1>2. CASE StreamFails
  BY <1>2 DEF StreamFails, Excluded, dockerVars, handlerVars, dataVars
<1>3. CASE ListenForEvents
  BY <1>3 DEF ListenForEvents, Excluded, dockerVars, handlerVars, dataVars
<1>4. CASE HandlerLock
  <2>1. PICK e \in waiting : hpc' = FirstStep(e.status) /\ e.status \in EventStatus
    BY <1>4 DEF HandlerLock, TypeOK, Event
  <2>2. hpc' \notin {"activate", "create", "list"}
    BY <2>1 DEF FirstStep, EventStatus
  <2> QED
    BY <1>4, <2>2 DEF HandlerLock, Excluded, dockerVars, dataVars
<1>5. ASSUME NEW e \in inside,
             \/ InspectOnStart(e) \/ Activate(e) \/ CreateInspect(e)
             \/ CreateAppend(e) \/ DeactivateOnStop(e) \/ DeleteOnDie(e)
      PROVE  FilterInv'
  <2>1. containers \in Seq(Entry) /\ hpid \in Nat /\ NoDuplicates(containers)
    BY DEF TypeOK, RegistryInv, UniqueEntries
  <2>2. inside' = inside /\ inside = {e} /\ Excluded' = Excluded
    BY <1>5, HandlerFrame DEF LockInv, Excluded
  <2>3. Ids(containers') \cap Excluded = {}
    <3>1. CASE containers' = containers
      BY <3>1
    <3>2. CASE hpc = "list" /\ containers' = Created(containers, e.id, hpid)
      <4>1. e.id \in Container /\ e.id \notin Excluded
        BY <1>5, <3>2, RegistrySteps, TypesSplit
      <4> QED
        BY <3>2, <4>1, <2>1, CreatedProperties
    <3>3. ASSUME NEW i \in 1..Len(containers),
                 \/ containers' = Reactivated(containers, i)
                 \/ containers' = Deactivated(containers, i)
                 \/ containers' = DeletedByIndex(containers, i)
          PROVE  Ids(containers') \cap Excluded = {}
      BY <3>3, <2>1, SwitchedProperties, DeletedProperties
    <3> QED
      BY <1>5, <3>1, <3>2, <3>3, RegistrySteps, TypesSplit
  <2>4. hpc' \in {"activate", "create", "list"} => e.id \notin Excluded
    BY <1>5, <2>2 DEF InspectOnStart, Matches, Excluded, Activate, CreateInspect, CreateAppend,
                       DeactivateOnStop, AfterPause, DeleteOnDie
  <2> QED
    BY <2>2, <2>3, <2>4
<1>6. CASE HandlerUpdateDBNode
  BY <1>6, HandlerFrame DEF HandlerUpdateDBNode, Excluded
<1>7. CASE HandlerUnlock
  BY <1>7 DEF HandlerUnlock, Excluded, dockerVars, dataVars
<1>8. CASE Main
  BY <1>8, MainFrame DEF Excluded
<1>9. CASE UNCHANGED vars
  BY <1>9 DEF vars, Excluded, dockerVars, handlerVars, dataVars
<1> QED
  BY <1>1, <1>2, <1>3, <1>4, <1>5, <1>6, <1>7, <1>8, <1>9, NextCases

\* Past the test on its name a container is not one whose name has matched all along.
LEMMA FilterInvariant == Spec => []FilterInv
<1>1. Init => FilterInv
  BY InitRegistry DEF Init, FilterInv, FilterHonoured, Excluded
<1> QED
  BY <1>1, FilterStep, TypeCorrect, LockCorrect, RegistryCorrect, PTL DEF Spec

\* A container whose name has matched -f ever since the collector started is never
\* registered, whatever its aliases, and whatever other containers are renamed to.
THEOREM FilterCorrect == Spec => []FilterHonoured
<1>1. FilterInv => FilterHonoured
  BY DEF FilterInv
<1> QED
  BY <1>1, FilterInvariant, PTL

\* A step that changes the registry goes on to call UpdateNode.
LEMMA PublishStep == LockInv /\ PublishInv /\ [Next]_vars => PublishInv'
<1> SUFFICES ASSUME LockInv, PublishInv, [Next]_vars  PROVE PublishInv'
  OBVIOUS
<1> USE DEF PublishInv
<1>1. CASE Docker
  BY <1>1, DockerFrame
<1>2. CASE StreamFails
  BY <1>2 DEF StreamFails, handlerVars, dataVars
<1>3. CASE ListenForEvents
  BY <1>3 DEF ListenForEvents, handlerVars, dataVars
<1>4. CASE HandlerLock
  BY <1>4 DEF HandlerLock, LockInv, dataVars
<1>5. ASSUME NEW e \in inside,
             \/ InspectOnStart(e) \/ Activate(e) \/ CreateInspect(e)
             \/ CreateAppend(e) \/ DeactivateOnStop(e) \/ DeleteOnDie(e)
      PROVE  PublishInv'
  BY <1>5 DEF InspectOnStart, Matches, Activate, CreateInspect, CreateAppend,
              DeactivateOnStop, AfterPause, DeleteOnDie, dataVars
<1>6. CASE HandlerUpdateDBNode
  BY <1>6 DEF HandlerUpdateDBNode
<1>7. CASE HandlerUnlock
  BY <1>7 DEF HandlerUnlock, dataVars
<1>8. CASE Main
  BY <1>8 DEF Main, MainInside, MainLock, FirstIndex, ReadContainer, DiscardDone, ReadDone,
              UpdateAfterReading, MainUnlock, MainWakes, mainFrame, handlerVars
<1>9. CASE UNCHANGED vars
  BY <1>9 DEF vars, handlerVars, dataVars
<1> QED
  BY <1>1, <1>2, <1>3, <1>4, <1>5, <1>6, <1>7, <1>8, <1>9, NextCases

\* Only in the critical section of an event goroutine has the registry changed
\* without a call of UpdateNode.
LEMMA PublishInvariant == Spec => []PublishInv
<1>1. Init => PublishInv
  BY DEF Init, PublishInv
<1> QED
  BY <1>1, PublishStep, LockCorrect, PTL DEF Spec

\* Whenever the lock is free, UpdateNode has been called with the registry as it is.
THEOREM PublishCorrect == Spec => []PublishedWhenFree
<1>1. LockInv /\ PublishInv => PublishedWhenFree
  BY DEF LockInv, PublishInv, PublishedWhenFree
<1> QED
  BY <1>1, LockCorrect, PublishInvariant, PTL
-----------------------------------------------------------------------------
(* Ghosts *)

\* No step hands out a PID twice, or looks up one of another container.
LEMMA PidStep == StateTypeOK /\ LockInv /\ PidInv /\ [Next]_vars => PidInv'
<1> SUFFICES ASSUME StateTypeOK, LockInv, PidInv, [Next]_vars  PROVE PidInv'
  OBVIOUS
<1> USE DEF PidInv
<1>1. ASSUME NEW c \in Container, DockerCreate(c) \/ DockerDestroy(c)  PROVE PidInv'
  BY <1>1 DEF DockerCreate, DockerDestroy, StateTypeOK, Emit, handlerVars
<1>a. /\ DOMAIN status = Container /\ pid \in [Container -> Nat]
      /\ lastPid \in Nat /\ hpid \in Nat
  BY DEF StateTypeOK
<1>2. ASSUME NEW c \in Container, DockerStart(c)  PROVE PidInv'
  <2>1. /\ status' = [status EXCEPT ![c] = "running"]
        /\ lastPid' = lastPid + 1 /\ pid' = [pid EXCEPT ![c] = lastPid + 1]
        /\ UNCHANGED <<inside, hpc, hpid>>
    BY <1>2 DEF DockerStart, Emit, handlerVars
  <2> QED
    BY <1>a, <2>1
<1>3. ASSUME NEW c \in Container, DockerDie(c) \/ DockerStop(c)  PROVE PidInv'
  <2>1. /\ status' = [status EXCEPT ![c] = "exited"] /\ pid' = [pid EXCEPT ![c] = 0]
        /\ UNCHANGED <<lastPid, inside, hpc, hpid>>
    BY <1>3 DEF DockerDie, DockerStop, Exit, Emit, handlerVars
  <2> QED
    BY <1>a, <2>1
<1>4. ASSUME NEW c \in Container, DockerStopped(c) \/ DockerRename(c)  PROVE PidInv'
  BY <1>4 DEF DockerStopped, DockerRename, lifeVars, Emit, handlerVars
<1>5. CASE StreamFails
  BY <1>5 DEF StreamFails, dockerVars, handlerVars
<1>6. CASE ListenForEvents
  BY <1>6 DEF ListenForEvents, dockerVars, handlerVars
<1>7. CASE HandlerLock
  <2>1. PICK e \in waiting : hpc' = FirstStep(e.status) /\ e.status \in EventStatus
    BY <1>7 DEF HandlerLock, StateTypeOK, Event
  <2>2. hpc' \notin {"activate", "list"}
    BY <2>1 DEF FirstStep, EventStatus
  <2> QED
    BY <1>7, <2>2 DEF HandlerLock, dockerVars
<1>8. ASSUME NEW e \in inside,
             \/ InspectOnStart(e) \/ Activate(e) \/ CreateInspect(e)
             \/ CreateAppend(e) \/ DeactivateOnStop(e) \/ DeleteOnDie(e)
      PROVE  PidInv'
  <2>1. inside' = inside /\ inside = {e} /\ UNCHANGED <<status, pid, lastPid>>
    BY <1>8, HandlerFrame DEF LockInv
  <2>2. e.id \in Container
    BY DEF StateTypeOK, Event
  <2> QED
    BY <1>8, <2>1, <2>2 DEF InspectOnStart, Matches, Activate, CreateInspect, CreateAppend,
                            DeactivateOnStop, AfterPause, DeleteOnDie, StateTypeOK
<1>9. CASE HandlerUpdateDBNode
  BY <1>9, HandlerFrame DEF HandlerUpdateDBNode
<1>10. CASE HandlerUnlock
  BY <1>10 DEF HandlerUnlock, dockerVars, StateTypeOK
<1>11. CASE Main
  BY <1>11, MainFrame
<1>12. CASE UNCHANGED vars
  BY <1>12 DEF vars, dockerVars, handlerVars
<1> QED
  BY <1>1, <1>2, <1>3, <1>4, <1>5, <1>6, <1>7, <1>8, <1>9, <1>10, <1>11, <1>12,
     NextCases DEF Docker

\* PIDs are never used twice, so a PID that the goroutine holds is that of its
\* own container or of a run that is over.
THEOREM PidCorrect == Spec => []PidInv
<1>1. Init => PidInv
  <2> SUFFICES ASSUME Init  PROVE PidInv
    OBVIOUS
  <2>1. Cardinality(Container) \in Nat
    BY ConstantsAssumption, FS_CardinalityType
  <2> QED
    BY <2>1 DEF Init, PidInv, Running
<1> QED
  BY <1>1, PidStep, TypesSplit, TypeCorrect, LockCorrect, PTL DEF Spec

\* No step leaves a ghost behind.
LEMMA NoGhostStep ==
  TypeOK /\ TypeOK' /\ LockInv /\ RegistryInv /\ PidInv /\ NoGhost /\ [Next]_vars
  => NoGhost'
<1> SUFFICES ASSUME TypeOK, TypeOK', LockInv, RegistryInv, PidInv, NoGhost, [Next]_vars,
                    monitor' = "on", NEW c \in Ids(containers)'
             PROVE  \/ status'[c] = "running"
                    \/ \E e \in stream' \cup waiting' : e.id = c /\ e.status \in Removal
                    \/ hpc' = "delete" /\ \E e \in inside' : e.id = c
  BY DEF NoGhost
<1> DEFINE Going == \E e \in stream \cup waiting : e.id = c /\ e.status \in Removal
           Leaving == hpc = "delete" /\ \E e \in inside : e.id = c
<1>a. monitor = "on" /\ c \in Ids(containers) => status[c] = "running" \/ Going \/ Leaving
  BY DEF NoGhost
<1>b. c \in Container
  <2>1. \A i \in DOMAIN containers' : containers'[i] \in Entry
    BY LenProperties, ElementOfSeq DEF TypeOK
  <2> QED
    BY <2>1 DEF Ids, Entry
<1>1. ASSUME NEW d \in Container,
             \/ DockerCreate(d) \/ DockerStart(d) \/ DockerDestroy(d)
             \/ DockerStopped(d) \/ DockerRename(d)
      PROVE  status'[c] = "running" \/ Going' \/ Leaving'
  <2>1. UNCHANGED <<monitor, waiting, inside, hpc, containers>> /\ stream \subseteq stream'
    BY <1>1 DEF DockerCreate, DockerStart, DockerDestroy, DockerStopped, DockerRename,
                Emit, handlerVars, dataVars
  <2>2. status[c] = "running" => status'[c] = "running"
    BY <1>1, <1>b DEF DockerCreate, DockerStart, DockerDestroy, DockerStopped, DockerRename,
                      lifeVars, TypeOK
  <2> QED
    BY <1>a, <2>1, <2>2
<1>2. ASSUME NEW d \in Container, DockerDie(d) \/ DockerStop(d)
      PROVE  status'[c] = "running" \/ Going' \/ Leaving'
  <2>1. /\ UNCHANGED <<monitor, waiting, inside, hpc, containers>>
        /\ stream \subseteq stream'
        /\ NewEvent(d, "die") \in stream'
    BY <1>2 DEF DockerDie, DockerStop, Exit, Emit, handlerVars, dataVars
  <2>2. status[c] = "running" /\ c # d => status'[c] = "running"
    BY <1>2, <1>b DEF DockerDie, DockerStop, Exit, TypeOK
  <2>3. NewEvent(d, "die").id = d /\ NewEvent(d, "die").status \in Removal
    BY DEF NewEvent, Removal
  <2> QED
    BY <1>a, <2>1, <2>2, <2>3
<1>3. CASE StreamFails
  BY <1>3 DEF StreamFails
<1>4. CASE ListenForEvents
  <2>1. /\ UNCHANGED <<status, monitor, inside, hpc, containers>>
        /\ stream \cup waiting \subseteq stream' \cup waiting'
    BY <1>4 DEF ListenForEvents, dockerVars, handlerVars, dataVars
  <2> QED
    BY <1>a, <2>1
<1>5. CASE HandlerLock
  <2>1. PICK e \in waiting :
          waiting' = waiting \ {e} /\ inside' = {e} /\ hpc' = FirstStep(e.status)
    BY <1>5 DEF HandlerLock
  <2>2. e.status \in Removal => hpc' = "delete"
    BY <2>1 DEF FirstStep, Removal
  <2>3. hpc = "none"
    BY <1>5 DEF HandlerLock, LockInv
  <2>4. UNCHANGED <<status, monitor, stream, containers>>
    BY <1>5 DEF HandlerLock, dockerVars, dataVars
  <2> QED
    BY <1>a, <2>1, <2>2, <2>3, <2>4
<1>6. ASSUME NEW e \in inside,
             \/ InspectOnStart(e) \/ Activate(e) \/ CreateInspect(e)
             \/ CreateAppend(e) \/ DeactivateOnStop(e) \/ DeleteOnDie(e)
      PROVE  status'[c] = "running" \/ Going' \/ Leaving'
  <2>1. /\ UNCHANGED <<status, pid, monitor, stream, waiting, inside>>
        /\ inside = {e}
    BY <1>6, HandlerFrame DEF LockInv
  <2>2. containers \in Seq(Entry) /\ hpid \in Nat /\ NoDuplicates(containers)
    BY DEF TypeOK, RegistryInv, UniqueEntries
  <2>3. e.id \in Container
    BY DEF TypeOK, Event
  <2>4. CASE InspectOnStart(e) \/ CreateInspect(e)
    <3>1. hpc # "delete" /\ containers' = containers
      BY <2>4 DEF InspectOnStart, Matches, CreateInspect, dataVars
    <3> QED
      BY <1>a, <2>1, <3>1
  <2>5. CASE Activate(e) \/ DeactivateOnStop(e)
    <3>1. hpc # "delete"
      BY <2>5 DEF Activate, DeactivateOnStop, AfterPause
    <3>2. Ids(containers') = Ids(containers)
      BY <1>6, <3>1, <2>2, <2>5, RegistrySteps, TypesSplit, SwitchedProperties
         DEF Activate, DeactivateOnStop, AfterPause
    <3> QED
      BY <1>a, <2>1, <3>1, <3>2
  <2>6. CASE CreateAppend(e)
    <3>1. hpc = "list"
      BY <2>6 DEF CreateAppend
    <3>2. CASE containers' = containers
      BY <1>a, <2>1, <3>1, <3>2
    <3>3. CASE Readable(hpid) /\ containers' = Created(containers, e.id, hpid)
      <4>1. Ids(containers') = Ids(containers) \cup {e.id}
        BY <3>3, <2>2, <2>3, CreatedProperties
      <4>2. status[e.id] = "running"
        BY <3>1, <3>3 DEF Readable, PidInv
      <4> QED
        BY <1>a, <2>1, <3>1, <4>1, <4>2
    <3> QED
      BY <2>6, <3>2, <3>3 DEF CreateAppend
  <2>7. CASE DeleteOnDie(e)
    <3> DEFINE i == GetSliceIndex(containers, e.id)
    <3>1. e.id \notin Ids(containers')
      <4>1. CASE i = 0
        BY <4>1, <2>2, <2>7, GetSliceIndexProperties DEF DeleteOnDie, dataVars
      <4>2. CASE i # 0
        <5>1. i \in 1..Len(containers) /\ containers[i].id = e.id
          BY <4>2, <2>2, GetSliceIndexProperties
        <5>2. containers' = DeletedByIndex(containers, i)
          BY <4>2, <2>7 DEF DeleteOnDie
        <5> QED
          BY <5>1, <5>2, <2>2, DeletedProperties
      <4> QED
        BY <4>1, <4>2
    <3>2. Ids(containers') \subseteq Ids(containers)
      <4>1. CASE i = 0
        BY <4>1, <2>7 DEF DeleteOnDie, dataVars
      <4>2. CASE i # 0
        <5>1. i \in 1..Len(containers)
          BY <4>2, <2>2, GetSliceIndexProperties
        <5>2. containers' = DeletedByIndex(containers, i)
          BY <4>2, <2>7 DEF DeleteOnDie
        <5> QED
          BY <5>1, <5>2, <2>2, DeletedProperties
      <4> QED
        BY <4>1, <4>2
    <3>3. c # e.id /\ c \in Ids(containers)
      BY <3>1, <3>2
    <3> QED
      BY <1>a, <2>1, <3>3
  <2> QED
    BY <1>6, <2>4, <2>5, <2>6, <2>7
<1>7. CASE HandlerUpdateDBNode
  <2>1. /\ UNCHANGED <<status, monitor, stream, waiting, containers>>
        /\ hpc # "delete"
    BY <1>7, HandlerFrame DEF HandlerUpdateDBNode
  <2> QED
    BY <1>a, <2>1
<1>8. CASE HandlerUnlock
  <2>1. /\ UNCHANGED <<status, monitor, stream, waiting, containers>>
        /\ hpc # "delete"
    BY <1>8 DEF HandlerUnlock, dockerVars, dataVars
  <2> QED
    BY <1>a, <2>1
<1>9. CASE Main
  BY <1>a, <1>9, MainFrame
<1>10. CASE UNCHANGED vars
  BY <1>a, <1>10 DEF vars, dockerVars, handlerVars, dataVars
<1> QED
  BY <1>1, <1>2, <1>3, <1>4, <1>5, <1>6, <1>7, <1>8, <1>9, <1>10, NextCases DEF Docker

\* Overtaking leaves no ghost behind: a registered container runs, or its
\* removal is on the way.
THEOREM NoGhostCorrect == Spec => []NoGhost
<1>1. Init => NoGhost
  BY InitRegistry DEF Init, NoGhost, Running
<1> QED
  BY <1>1, NoGhostStep, TypeCorrect, LockCorrect, RegistryCorrect, PidCorrect, PTL DEF Spec
-----------------------------------------------------------------------------
(* The audit of a calm container *)

\* No step puts an event in two places.
LEMMA SeqStep == TypeOK /\ SeqInv /\ [Next]_vars => SeqInv'
<1> SUFFICES ASSUME TypeOK, SeqInv, [Next]_vars  PROVE SeqInv'
  OBVIOUS
<1>1. CASE Docker
  <2>1. PICK c \in Container, s \in EventStatus : Emit(c, s)
    BY <1>1, DockerCases
  <2>2. /\ NewEvent(c, s).seq = lastSeq + 1
        /\ lastSeq' = lastSeq + 1 /\ lastSeq \in Nat
        /\ stream' \subseteq stream \cup {NewEvent(c, s)}
    BY <2>1, EmittedIsNew, TypesSplit
  <2>3. UNCHANGED <<waiting, inside>> /\ lastSeq' \in Nat
    BY <1>1, DockerFrame, DockerTypes, TypesSplit DEF DockerTypeOK
  <2>4. \A e \in stream \cup waiting \cup inside : e.seq \in Nat /\ lastSeq \in Nat
    BY DEF TypeOK, Event
  <2> HIDE DEF NewEvent
  <2> QED
    BY <2>2, <2>3, <2>4 DEF SeqInv
<1>2. CASE StreamFails
  BY <1>2 DEF StreamFails, SeqInv, dockerVars, handlerVars
<1>3. CASE ListenForEvents
  BY <1>3 DEF ListenForEvents, SeqInv, dockerVars, handlerVars
<1>4. CASE HandlerLock
  BY <1>4 DEF HandlerLock, SeqInv, dockerVars
<1>5. ASSUME NEW e \in inside,
             \/ InspectOnStart(e) \/ Activate(e) \/ CreateInspect(e)
             \/ CreateAppend(e) \/ DeactivateOnStop(e) \/ DeleteOnDie(e)
      PROVE  SeqInv'
  BY <1>5, HandlerFrame DEF SeqInv
<1>6. CASE HandlerUpdateDBNode
  BY <1>6, HandlerFrame DEF SeqInv
<1>7. CASE HandlerUnlock
  BY <1>7 DEF HandlerUnlock, SeqInv, dockerVars
<1>8. CASE Main
  BY <1>8, MainFrame DEF SeqInv
<1>9. CASE UNCHANGED vars
  BY <1>9 DEF vars, SeqInv, dockerVars, handlerVars
<1> QED
  BY <1>1, <1>2, <1>3, <1>4, <1>5, <1>6, <1>7, <1>8, <1>9, NextCases

\* No event is handled twice.
THEOREM SeqCorrect == Spec => []SeqInv
<1>1. Init => SeqInv
  BY DEF Init, SeqInv
<1> QED
  BY <1>1, SeqStep, TypeCorrect, PTL DEF Spec

\* FollowInv of one container.
Followed(c) ==
  status[c] = "running" =>
    /\ \A e, f \in stream \cup waiting \cup inside :
         /\ e.id = c /\ e.status \notin Ignored
         /\ f.id = c /\ f.status \notin Ignored
         => e = f /\ e.status = "start"
    /\ c \notin stopping
    /\ StartPending(c) => c \notin Ids(containers)
    /\ hpc = "list" => \A e \in inside : e.id = c => hpid = pid[c]
    /\ ~StartPending(c) /\ c \in Included \ faulted =>
         /\ c \in Ids(containers)
         /\ \A i \in DOMAIN containers :
              containers[i].id = c =>
                containers[i] = [id |-> c, pid |-> pid[c], active |-> TRUE]

\* A step of the daemon keeps Followed for a container that it leaves calm.
LEMMA FollowedDocker ==
  ASSUME TypeOK, LockInv, BranchInv, NoGhost, FollowInv, Docker,
         monitor' = "on", NEW c \in calm'
  PROVE  Followed(c)'
<1>1. /\ UNCHANGED <<monitor, waiting, inside, hpc, hpid, containers, faulted>>
      /\ monitor = "on"
  BY DockerFrame
<1>2. /\ c \in calm /\ c \in Container
      /\ Included' \subseteq Included
  BY NamesStep DEF TypeOK
<1>3. Followed(c)
  BY <1>1, <1>2 DEF FollowInv, Followed
<1>4. PICK d \in Container, s \in EventStatus :
        /\ Emit(d, s)
        /\ \/ DockerCreate(d) /\ s = "create"
           \/ DockerStart(d) /\ s = "start"
           \/ (DockerDie(d) \/ DockerStop(d)) /\ s = "die"
           \/ DockerStopped(d) /\ s = "stop"
           \/ DockerDestroy(d) /\ s = "destroy"
           \/ DockerRename(d) /\ s = "rename"
  BY DockerCases
<1>5. /\ NewEvent(d, s).id = d /\ NewEvent(d, s).status = s
      /\ stream \subseteq stream' /\ stream' \subseteq stream \cup {NewEvent(d, s)}
      /\ NewEvent(d, s) \in stream'
  BY <1>1, <1>4, EmittedIsNew, TypesSplit
<1> HIDE DEF NewEvent
<1>6. CASE c # d \/ s = "rename"
  <2>1. status'[c] = status[c] /\ pid'[c] = pid[c] /\ (c \in stopping' <=> c \in stopping)
    BY <1>2, <1>4, <1>6
       DEF DockerCreate, DockerStart, DockerDie, DockerStop, DockerStopped, DockerDestroy,
           DockerRename, lifeVars, Exit, TypeOK
  <2>2. \A e : e.id = c /\ e.status \notin Ignored => (e \in stream' <=> e \in stream)
    BY <1>5, <1>6 DEF Ignored
  <2>3. StartPending(c)' <=> StartPending(c)
    BY <1>1, <2>2 DEF StartPending, Ignored
  <2>4. \A e : e.id = c /\ e.status \notin Ignored /\ e \in stream' \cup waiting' \cup inside'
               => e \in stream \cup waiting \cup inside
    BY <1>1, <2>2
  <2> HIDE DEF StartPending
  <2>5. status[c] = "running" =>
          \A e, f \in stream' \cup waiting' \cup inside' :
            /\ e.id = c /\ e.status \notin Ignored
            /\ f.id = c /\ f.status \notin Ignored
            => e = f /\ e.status = "start"
    BY <1>3, <2>4 DEF Followed
  <2> QED
    BY <1>1, <1>2, <1>3, <2>1, <2>3, <2>5 DEF Followed
<1>7. CASE c = d /\ s \in {"create", "die", "destroy"}
  BY <1>2, <1>4, <1>7
     DEF DockerCreate, DockerStart, DockerDie, DockerStop, DockerStopped, DockerDestroy,
         DockerRename, Exit, TypeOK, Followed
<1>8. CASE c = d /\ s = "stop"
  <2>1. c \in stopping /\ status' = status
    BY <1>4, <1>8 DEF DockerStopped
  <2> QED
    BY <1>3, <2>1 DEF Followed
<1>9. CASE c = d /\ s = "start"
  <2>1. DockerStart(c)
    BY <1>4, <1>9
  <2>2. ~InFlight(c) /\ status[c] # "running" /\ c \notin stopping /\ c \notin stopping'
    <3>1. /\ status[c] \in {"created", "exited"}
          /\ calm' = IF InFlight(c) \/ c \in stopping THEN calm \ {c} ELSE calm
          /\ stopping' = stopping
      BY <2>1 DEF DockerStart
    <3> HIDE DEF InFlight
    <3> QED
      BY <3>1
  <2>3. c \notin Ids(containers)
    BY <2>2, <1>1 DEF NoGhost, InFlight, Ignored, BranchInv, Removal
  <2>4. \A e \in stream' \cup waiting' \cup inside' :
          e.id = c /\ e.status \notin Ignored => e = NewEvent(d, s)
    BY <1>1, <1>5, <2>2 DEF InFlight
  <2>5. StartPending(c)'
    BY <1>5, <1>9 DEF StartPending
  <2>6. hpc = "list" => \A e \in inside : e.id # c
    BY <2>2 DEF BranchInv, InFlight, Ignored
  <2> HIDE DEF StartPending
  <2> QED
    BY <1>1, <1>5, <1>9, <2>2, <2>3, <2>4, <2>5, <2>6 DEF Followed
<1> QED
  BY <1>4, <1>6, <1>7, <1>8, <1>9

\* A step of a goroutine for another container.
LEMMA FollowedOther ==
  ASSUME TypeOK, LockInv, RegistryInv, NEW e \in inside,
         \/ InspectOnStart(e) \/ Activate(e) \/ CreateInspect(e)
         \/ CreateAppend(e) \/ DeactivateOnStop(e) \/ DeleteOnDie(e),
         NEW c \in Container, c # e.id, Followed(c)
  PROVE  Followed(c)'
<1>1. /\ UNCHANGED <<status, pid, stopping, stream, waiting, inside>>
      /\ inside = {e} /\ Included' = Included
  BY HandlerFrame DEF LockInv, Included
<1>2. containers \in Seq(Entry) /\ hpid \in Nat /\ NoDuplicates(containers)
  BY DEF TypeOK, RegistryInv, UniqueEntries
<1>3. e.id \in Container
  BY RegistrySteps, TypesSplit
<1>4. /\ c \in Ids(containers') <=> c \in Ids(containers)
      /\ \A j \in DOMAIN containers' :
           containers'[j].id = c => \E k \in DOMAIN containers : containers'[j] = containers[k]
  <2>1. CASE containers' = containers
    BY <2>1
  <2>2. CASE containers' = Created(containers, e.id, hpid)
    <3>1. /\ Ids(containers') = Ids(containers) \cup {e.id}
          /\ \A j \in DOMAIN containers' :
               \/ containers'[j] = [id |-> e.id, pid |-> hpid, active |-> TRUE]
               \/ \E k \in DOMAIN containers : containers'[j] = containers[k]
      BY <2>2, <1>2, <1>3, CreatedProperties
    <3> QED
      BY <3>1
  <2>3. ASSUME NEW i \in 1..Len(containers), containers[i].id = e.id,
               \/ containers' = Reactivated(containers, i)
               \/ containers' = Deactivated(containers, i)
               \/ containers' = DeletedByIndex(containers, i)
        PROVE  /\ c \in Ids(containers') <=> c \in Ids(containers)
               /\ \A j \in DOMAIN containers' :
                    containers'[j].id = c =>
                      \E k \in DOMAIN containers : containers'[j] = containers[k]
    <3>1. CASE containers' = Reactivated(containers, i)
      BY <3>1, <2>3, <1>2, SwitchedProperties
    <3>2. CASE containers' = Deactivated(containers, i)
      BY <3>2, <2>3, <1>2, SwitchedProperties
    <3>3. CASE containers' = DeletedByIndex(containers, i)
      BY <3>3, <2>3, <1>2, DeletedProperties
    <3> QED
      BY <2>3, <3>1, <3>2, <3>3
  <2> QED
    BY <2>1, <2>2, <2>3, RegistrySteps, TypesSplit
<1>5. StartPending(c)' <=> StartPending(c)
  BY <1>1 DEF StartPending
<1>6. c \in faulted' <=> c \in faulted
  BY DEF InspectOnStart, Matches, Activate, CreateInspect, CreateAppend, DeactivateOnStop, AfterPause,
         DeleteOnDie, Fault
<1> HIDE DEF StartPending
<1> QED
  BY <1>1, <1>4, <1>5, <1>6 DEF Followed

\* A step of the goroutine for the container itself.
LEMMA FollowedOwn ==
  ASSUME TypeOK, LockInv, BranchInv, PidInv, SeqInv, RegistryInv, NEW e \in inside,
         \/ InspectOnStart(e) \/ Activate(e) \/ CreateInspect(e)
         \/ CreateAppend(e) \/ DeactivateOnStop(e) \/ DeleteOnDie(e),
         Followed(e.id)
  PROVE  Followed(e.id)'
<1> SUFFICES ASSUME status[e.id] = "running"
             PROVE  Followed(e.id)'
  BY HandlerFrame DEF Followed
<1> DEFINE c == e.id
<1>1. /\ UNCHANGED <<status, pid, stopping, stream, waiting, inside>>
      /\ inside = {e} /\ Included' = Included
  BY HandlerFrame DEF LockInv, Included
<1>2. containers \in Seq(Entry) /\ hpid \in Nat /\ c \in Container
  BY RegistrySteps, TypesSplit DEF TypeOK
<1>3. e.status = "start"
  BY DEF BranchInv, Followed, Ignored, InspectOnStart, Matches, Activate, CreateInspect,
         CreateAppend,
         DeactivateOnStop, AfterPause, DeleteOnDie, Removal
<1>4. hpc \in {"inspect", "activate", "create", "list"}
  BY <1>3 DEF BranchInv, InspectOnStart, Matches, Activate, CreateInspect, CreateAppend,
              DeactivateOnStop, AfterPause, DeleteOnDie, Removal
<1>5. StartPending(c) /\ c \notin Ids(containers)
  BY <1>4 DEF StartPending, Followed
<1>6. \A f \in stream \cup waiting : ~(f.id = c /\ f.status = "start")
  BY <1>3 DEF SeqInv, Followed, Ignored
<1>7. \A d, f \in stream' \cup waiting' \cup inside' :
        /\ d.id = c /\ d.status \notin Ignored
        /\ f.id = c /\ f.status \notin Ignored
        => d = f /\ d.status = "start"
  BY <1>1 DEF Followed
<1>8. StartPending(c)' <=> hpc' \in {"inspect", "activate", "create", "list"}
  BY <1>1, <1>6 DEF StartPending
<1> HIDE DEF StartPending
<1>9. CASE InspectOnStart(e)
  <2>1. containers' = containers /\ hpc' # "list"
    BY <1>9 DEF InspectOnStart, Matches, dataVars
  <2>2. hpc' = "unlock" => c \notin Included' \ faulted'
    BY <1>1, <1>9 DEF InspectOnStart, Matches, Fault, Included
  <2>3. hpc' \in {"activate", "unlock"}
    BY <1>9 DEF InspectOnStart, Matches
  <2> QED
    BY <1>1, <1>5, <1>7, <1>8, <2>1, <2>2, <2>3 DEF Followed
<1>10. CASE Activate(e)
  <2>1. GetSliceIndex(containers, e.id) = 0
    BY <1>2, <1>5, GetSliceIndexProperties
  <2>2. containers' = containers /\ hpc' = "create"
    BY <1>10, <2>1 DEF Activate
  <2> QED
    BY <1>1, <1>5, <1>7, <1>8, <2>2 DEF Followed
<1>11. CASE CreateInspect(e)
  <2>1. containers' = containers
    BY <1>11 DEF CreateInspect, dataVars
  <2>2. \/ hpc' = "list" /\ hpid' = pid[c]
        \/ hpc' = "update" /\ c \in faulted'
    BY <1>11 DEF CreateInspect, Fault
  <2> QED
    BY <1>1, <1>5, <1>7, <1>8, <2>1, <2>2 DEF Followed
<1>12. CASE CreateAppend(e)
  <2>1. hpc' = "update" /\ hpc = "list"
    BY <1>12 DEF CreateAppend
  <2>2. hpid = pid[c]
    BY <2>1 DEF Followed
  <2>3. Readable(hpid)
    BY <1>2, <2>2 DEF Readable, PidInv
  <2>4. CASE containers' = Created(containers, e.id, hpid)
    <3>1. /\ Ids(containers') = Ids(containers) \cup {c}
          /\ \A j \in DOMAIN containers' :
               \/ containers'[j] = [id |-> c, pid |-> hpid, active |-> TRUE]
               \/ \E k \in DOMAIN containers : containers'[j] = containers[k]
      BY <2>4, <1>2, CreatedProperties
    <3>2. \A k \in DOMAIN containers : containers[k].id # c
      BY <1>5 DEF Ids
    <3>3. \A j \in DOMAIN containers' :
            containers'[j].id = c =>
              containers'[j] = [id |-> c, pid |-> pid'[c], active |-> TRUE]
      BY <1>1, <2>2, <3>1, <3>2
    <3> QED
      BY <1>1, <1>7, <1>8, <2>1, <3>1, <3>3 DEF Followed
  <2>5. CASE containers' = containers /\ c \in faulted'
    BY <1>1, <1>5, <1>7, <1>8, <2>1, <2>5 DEF Followed
  <2> QED
    BY <1>12, <2>3, <2>4, <2>5 DEF CreateAppend, Fault
<1>13. CASE DeactivateOnStop(e) \/ DeleteOnDie(e)
  BY <1>4, <1>13 DEF DeactivateOnStop, AfterPause, DeleteOnDie
<1> QED
  BY <1>9, <1>10, <1>11, <1>12, <1>13

\* No step loses a calm container.
LEMMA FollowStep ==
  /\ TypeOK /\ LockInv /\ BranchInv /\ PidInv /\ SeqInv /\ RegistryInv /\ NoGhost
  /\ FollowInv /\ [Next]_vars
  => FollowInv'
<1> SUFFICES ASSUME TypeOK, LockInv, BranchInv, PidInv, SeqInv, RegistryInv, NoGhost,
                    FollowInv, [Next]_vars, monitor' = "on", NEW c \in calm'
             PROVE  Followed(c)'
  BY DEF FollowInv, Followed
<1>1. CASE Docker
  BY <1>1, FollowedDocker
<1>2. CASE StreamFails
  BY <1>2 DEF StreamFails
<1>3. ASSUME monitor = "on", c \in calm  PROVE c \in Container /\ Followed(c)
  BY <1>3 DEF TypeOK, FollowInv, Followed
<1>4. CASE ListenForEvents
  <2>1. /\ UNCHANGED <<status, pid, stopping, calm, monitor, inside, hpc, hpid, containers,
                       faulted>>
        /\ Included' = Included
        /\ stream' \cup waiting' = stream \cup waiting
    BY <1>4 DEF ListenForEvents, Included, dockerVars, handlerVars, dataVars
  <2>2. StartPending(c)' <=> StartPending(c)
    BY <2>1 DEF StartPending
  <2>3. stream' \cup waiting' \cup inside' = stream \cup waiting \cup inside
    BY <2>1
  <2> HIDE DEF StartPending
  <2> QED
    BY <1>3, <2>1, <2>2, <2>3 DEF Followed
<1>5. CASE HandlerLock
  <2>1. PICK e \in waiting :
          waiting' = waiting \ {e} /\ inside' = {e} /\ hpc' = FirstStep(e.status)
    BY <1>5 DEF HandlerLock
  <2>2. /\ UNCHANGED <<status, pid, stopping, calm, monitor, stream, containers, faulted>>
        /\ hpc = "none" /\ inside = {} /\ Included' = Included
    BY <1>5 DEF HandlerLock, LockInv, Included, dockerVars, dataVars
  <2>3. e.status \in EventStatus
    BY <2>1 DEF TypeOK, Event
  <2>4. /\ e.status = "start" <=> hpc' \in {"inspect", "activate", "create", "list"}
        /\ hpc' # "list"
    BY <2>1, <2>3 DEF FirstStep, EventStatus
  <2>5. StartPending(c)' <=> StartPending(c)
    BY <2>1, <2>2, <2>4 DEF StartPending
  <2>6. stream' \cup waiting' \cup inside' = stream \cup waiting \cup inside
    BY <2>1, <2>2
  <2> HIDE DEF StartPending
  <2> QED
    BY <1>3, <2>2, <2>4, <2>5, <2>6 DEF Followed
<1>6. ASSUME NEW e \in inside,
             \/ InspectOnStart(e) \/ Activate(e) \/ CreateInspect(e)
             \/ CreateAppend(e) \/ DeactivateOnStop(e) \/ DeleteOnDie(e)
      PROVE  Followed(c)'
  <2>1. c \in Container /\ Followed(c)
    BY <1>3, <1>6, HandlerFrame
  <2>2. CASE c = e.id
    BY <1>6, <2>1, <2>2, FollowedOwn
  <2>3. CASE c # e.id
    BY <1>6, <2>1, <2>3, FollowedOther
  <2> QED
    BY <2>2, <2>3
<1>7. CASE HandlerUpdateDBNode
  <2>1. /\ UNCHANGED <<status, pid, stopping, calm, monitor, stream, waiting, inside,
                       containers, faulted>>
        /\ hpc = "update" /\ hpc' = "unlock" /\ Included' = Included
    BY <1>7, HandlerFrame DEF HandlerUpdateDBNode, Included
  <2>2. StartPending(c)' <=> StartPending(c)
    BY <2>1 DEF StartPending
  <2> HIDE DEF StartPending
  <2> QED
    BY <1>3, <2>1, <2>2 DEF Followed
<1>8. CASE HandlerUnlock
  <2>1. /\ UNCHANGED <<status, pid, stopping, calm, monitor, stream, waiting, containers,
                       faulted>>
        /\ hpc = "unlock" /\ hpc' = "none" /\ inside' = {} /\ Included' = Included
    BY <1>8 DEF HandlerUnlock, Included, dockerVars, dataVars
  <2>2. StartPending(c)' <=> StartPending(c)
    BY <2>1 DEF StartPending
  <2> HIDE DEF StartPending
  <2> QED
    BY <1>3, <2>1, <2>2 DEF Followed
<1>9. CASE Main
  <2>1. /\ UNCHANGED <<status, pid, stopping, calm, monitor, stream, waiting, inside, hpc,
                       hpid, containers, faulted>>
        /\ Included' = Included
    BY <1>9, MainFrame DEF Included
  <2> QED
    BY <1>3, <2>1 DEF Followed, StartPending
<1>10. CASE UNCHANGED vars
  <2>1. /\ UNCHANGED <<status, pid, stopping, calm, monitor, stream, waiting, inside, hpc,
                       hpid, containers, faulted>>
        /\ Included' = Included
    BY <1>10 DEF vars, Included, dockerVars, handlerVars, dataVars
  <2> QED
    BY <1>3, <2>1 DEF Followed, StartPending
<1> QED
  BY <1>1, <1>2, <1>4, <1>5, <1>6, <1>7, <1>8, <1>9, <1>10, NextCases

\* A calm container that runs is registered from its start event on.
THEOREM FollowCorrect == Spec => []FollowInv
<1>1. Init => FollowInv
  <2> SUFFICES ASSUME Init, NEW c \in calm, status[c] = "running"
               PROVE  Followed(c)
    BY DEF FollowInv, Followed
  <2>1. /\ stream = {} /\ waiting = {} /\ inside = {} /\ hpc = "none" /\ c \in Running
        /\ stopping = {}
    BY DEF Init, Running
  <2>2. ~StartPending(c)
    BY <2>1 DEF StartPending
  <2>3. c \in Included \ faulted => c \in Ids(containers)
    BY <2>1, InitRegistry DEF Included
  <2>4. \A i \in DOMAIN containers :
          containers[i].id = c =>
            containers[i] = [id |-> c, pid |-> pid[c], active |-> TRUE]
    BY InitRegistry
  <2> HIDE DEF StartPending
  <2> QED
    BY <2>1, <2>2, <2>3, <2>4 DEF Followed
<1> QED
  BY <1>1, FollowStep, TypeCorrect, LockCorrect, BranchCorrect, PidCorrect, SeqCorrect,
     RegistryCorrect, NoGhostCorrect, PTL DEF Spec

\* Once none of its events is in flight, a container of which every start found
\* the collector idle is registered if and only if it runs, and as it runs.
THEOREM AuditCorrect == Spec => []CalmAudit
<1>1. TypeOK /\ BranchInv /\ NoGhost /\ FollowInv => CalmAudit
  <2> SUFFICES ASSUME TypeOK, BranchInv, NoGhost, FollowInv, monitor = "on",
                      NEW c \in (calm \cap Included) \ faulted, ~InFlight(c)
               PROVE  /\ status[c] = "running" <=> c \in Ids(containers)
                      /\ \A i \in DOMAIN containers :
                           containers[i].id = c =>
                             containers[i] = [id |-> c, pid |-> pid[c], active |-> TRUE]
    BY DEF CalmAudit
  <2>1. c \in Ids(containers) => status[c] = "running"
    BY DEF NoGhost, InFlight, Ignored, BranchInv, Removal
  <2>2. ~StartPending(c)
    BY DEF StartPending, InFlight, Ignored, BranchInv
  <2>3. \A i \in DOMAIN containers : containers[i].id = c => c \in Ids(containers)
    BY DEF Ids
  <2> HIDE DEF StartPending, InFlight
  <2> QED
    BY <2>1, <2>2, <2>3 DEF FollowInv
<1> QED
  BY <1>1, TypeCorrect, BranchCorrect, NoGhostCorrect, FollowCorrect, PTL

\* From any state in which IInv holds - however it was reached - every step leads
\* to another one: what the collector does goes wrong only if it starts wrong.
THEOREM CoreInductive == TypeOK /\ IInv /\ [Next]_vars => TypeOK' /\ IInv'
<1> SUFFICES ASSUME TypeOK, IInv, [Next]_vars  PROVE TypeOK' /\ IInv'
  OBVIOUS
<1>1. /\ TypeOK /\ LockInv /\ BranchInv /\ PidInv /\ SeqInv /\ RegistryInv /\ FilterInv
      /\ PublishInv /\ NoGhost /\ FollowInv
  BY DEF IInv
<1>2. TypeOK'
  BY TypeStep
<1>3. LockInv' /\ PidInv'
  BY <1>1, LockStep, PidStep, TypesSplit
<1>4. BranchInv' /\ RegistryInv' /\ FilterInv'
  BY <1>1, BranchStep, RegistryStep, FilterStep
<1>5. PublishInv' /\ SeqInv'
  BY <1>1, PublishStep, SeqStep
<1>6. NoGhost'
  BY <1>1, <1>2, NoGhostStep
<1>7. FollowInv'
  BY <1>1, FollowStep
<1> QED
  BY <1>2, <1>3, <1>4, <1>5, <1>6, <1>7 DEF IInv

\* All that the proofs above rest on is an invariant of the collector.
THEOREM CoreInvariant == Spec => []IInv
<1>1. /\ LockInv /\ BranchInv /\ PidInv /\ SeqInv /\ RegistryInv /\ FilterInv
      /\ PublishInv /\ NoGhost /\ FollowInv
      => IInv
  BY DEF IInv
<1> QED
  BY <1>1, LockCorrect, BranchCorrect, PidCorrect, SeqCorrect, RegistryCorrect,
     FilterInvariant, PublishInvariant, NoGhostCorrect, FollowCorrect, PTL
-----------------------------------------------------------------------------
(* Each operation on the registry changes how one container is followed *)

\* A container is followed as its entries say: two registries with the same
\* entries of c follow it in the same way.
LEMMA SameEntries ==
  ASSUME NEW cs \in Seq(Entry), NEW ds \in Seq(Entry), NEW c,
         \A i \in DOMAIN cs : cs[i].id = c => \E j \in DOMAIN ds : ds[j] = cs[i],
         \A j \in DOMAIN ds : ds[j].id = c => \E i \in DOMAIN cs : cs[i] = ds[j]
  PROVE  Follows(ds, c) = Follows(cs, c)
<1>1. c \in Ids(ds) <=> c \in Ids(cs)
  BY DEF Ids
<1>2. (\E i \in DOMAIN ds : ds[i].id = c /\ ds[i].active) <=>
      (\E i \in DOMAIN cs : cs[i].id = c /\ cs[i].active)
  OBVIOUS
<1> QED
  BY <1>1, <1>2 DEF Follows

\* Node.Create on a container without an entry: from now on it is active.
LEMMA CreatedFollows ==
  ASSUME NEW cs \in Seq(Entry), NEW id \in Container, NEW p \in Nat, id \notin Ids(cs)
  PROVE  /\ AuditOf(cs)[id] = "not"
         /\ AuditOf(Created(cs, id, p)) = [AuditOf(cs) EXCEPT ![id] = "active"]
<1> DEFINE entry == [id |-> id, pid |-> p, active |-> TRUE]
           ds == Created(cs, id, p)
<1>1. entry \in Entry /\ entry.id = id /\ entry.active
  BY DEF Entry
<1>2. Len(cs) \in Nat /\ DOMAIN cs = 1..Len(cs)
  OBVIOUS
<1>3. ds = Append(cs, entry)
  BY DEF Created, NewEntry
<1> HIDE DEF entry, ds
<1>4. /\ ds \in Seq(Entry)
      /\ DOMAIN ds = 1..(Len(cs) + 1)
      /\ \A i \in 1..Len(cs) : ds[i] = cs[i]
      /\ ds[Len(cs) + 1] = entry
  BY <1>1, <1>2, <1>3
<1>5. Follows(cs, id) = "not"
  BY DEF Follows, Ids
<1>6. Follows(ds, id) = "active"
  <2>1. Len(cs) + 1 \in DOMAIN ds
    BY <1>2, <1>4
  <2> QED
    BY <1>1, <1>4, <2>1 DEF Follows
<1>7. ASSUME NEW c \in Container, c # id  PROVE Follows(ds, c) = Follows(cs, c)
  <2>1. \A i \in DOMAIN cs : i \in DOMAIN ds /\ ds[i] = cs[i]
    BY <1>2, <1>4
  <2>2. \A j \in DOMAIN ds : ds[j].id = c => j \in DOMAIN cs /\ cs[j] = ds[j]
    BY <1>1, <1>2, <1>4, <1>7
  <2> QED
    BY <1>4, <2>1, <2>2, SameEntries
<1>8. AuditOf(ds) = [AuditOf(cs) EXCEPT ![id] = "active"]
  BY <1>6, <1>7 DEF AuditOf
<1> QED
  BY <1>5, <1>8 DEF AuditOf, ds

\* Node.Activate and Node.Deactivate on an entry, without duplicates: only the
\* container of that entry is concerned.
LEMMA SwitchedFollows ==
  ASSUME NEW cs \in Seq(Entry), NEW i \in 1..Len(cs), NoDuplicates(cs)
  PROVE  /\ AuditOf(cs)[cs[i].id] \in {"active", "paused"}
         /\ AuditOf(Reactivated(cs, i)) = [AuditOf(cs) EXCEPT ![cs[i].id] = "active"]
         /\ AuditOf(Deactivated(cs, i)) = [AuditOf(cs) EXCEPT ![cs[i].id] = "paused"]
<1> DEFINE on == [cs[i] EXCEPT !.active = TRUE, !.pid = 0]
           off == [cs[i] EXCEPT !.active = FALSE]
<1>1. /\ on \in Entry /\ on.id = cs[i].id /\ on.active = TRUE
      /\ off \in Entry /\ off.id = cs[i].id /\ off.active = FALSE
      /\ cs[i].id \in Container
  <2>1. cs[i] \in Entry
    OBVIOUS
  <2> QED
    BY <2>1 DEF Entry
<1>2. Len(cs) \in Nat /\ DOMAIN cs = 1..Len(cs)
  OBVIOUS
<1>3. /\ Reactivated(cs, i) = ReplaceAt(cs, i, on)
      /\ Deactivated(cs, i) = ReplaceAt(cs, i, off)
  BY DEF Reactivated, Deactivated
<1> HIDE DEF on, off
<1>4. ASSUME NEW e \in Entry, e.id = cs[i].id, NEW ds, ds = ReplaceAt(cs, i, e)
      PROVE  AuditOf(ds) = [AuditOf(cs) EXCEPT ![cs[i].id] =
                              IF e.active THEN "active" ELSE "paused"]
  <2>1. /\ ds \in Seq(Entry)
        /\ DOMAIN ds = 1..Len(cs)
        /\ \A j \in 1..Len(cs) : j # i => ds[j] = cs[j]
        /\ ds[i] = e
    BY <1>2, <1>4 DEF ReplaceAt
  <2>2. \A j \in 1..Len(cs) : cs[j].id = cs[i].id => j = i
    BY <1>2 DEF NoDuplicates
  <2>3. \A j \in 1..Len(cs) : ds[j].id = cs[i].id <=> j = i
    BY <1>2, <1>4, <2>1, <2>2
  <2>4. Follows(ds, cs[i].id) = IF e.active THEN "active" ELSE "paused"
    <3>1. cs[i].id \in Ids(ds)
      BY <2>1, <2>3 DEF Ids
    <3>2. (\E j \in DOMAIN ds : ds[j].id = cs[i].id /\ ds[j].active) <=> e.active
      BY <2>1, <2>3
    <3> QED
      BY <3>1, <3>2 DEF Follows
  <2>5. ASSUME NEW c \in Container, c # cs[i].id  PROVE Follows(ds, c) = Follows(cs, c)
    <3>1. \A j \in DOMAIN cs : cs[j].id = c => j \in DOMAIN ds /\ ds[j] = cs[j]
      BY <1>2, <2>1, <2>5
    <3>2. \A j \in DOMAIN ds : ds[j].id = c => j \in DOMAIN cs /\ cs[j] = ds[j]
      BY <1>2, <1>4, <2>1, <2>5
    <3> QED
      BY <2>1, <3>1, <3>2, SameEntries
  <2> QED
    BY <1>1, <2>4, <2>5 DEF AuditOf
<1>5. Follows(cs, cs[i].id) \in {"active", "paused"}
  BY <1>2 DEF Follows, Ids
<1>6. AuditOf(Reactivated(cs, i)) = [AuditOf(cs) EXCEPT ![cs[i].id] = "active"]
  BY <1>1, <1>3, <1>4
<1>7. AuditOf(Deactivated(cs, i)) = [AuditOf(cs) EXCEPT ![cs[i].id] = "paused"]
  BY <1>1, <1>3, <1>4
<1> QED
  BY <1>1, <1>5, <1>6, <1>7 DEF AuditOf

\* DeleteByIndex on a registry without duplicates.
LEMMA DeletedFollows ==
  ASSUME NEW cs \in Seq(Entry), NEW i \in 1..Len(cs), NoDuplicates(cs)
  PROVE  AuditOf(DeletedByIndex(cs, i)) = [AuditOf(cs) EXCEPT ![cs[i].id] = "not"]
<1> DEFINE ds == DeletedByIndex(cs, i)
<1>1. /\ ds \in Seq(Entry)
      /\ Ids(ds) = Ids(cs) \ {cs[i].id}
      /\ \A j \in DOMAIN ds : \E k \in DOMAIN cs : ds[j] = cs[k]
  BY DeletedProperties
<1> HIDE DEF ds
<1>2. Follows(ds, cs[i].id) = "not"
  BY <1>1 DEF Follows, Ids
<1>3. ASSUME NEW c \in Container, c # cs[i].id  PROVE Follows(ds, c) = Follows(cs, c)
  <2>1. \A j \in DOMAIN ds : ds[j].id = c => \E k \in DOMAIN cs : cs[k] = ds[j]
    BY <1>1
  <2>2. ASSUME NEW j \in DOMAIN cs, cs[j].id = c
        PROVE  \E k \in DOMAIN ds : ds[k] = cs[j]
    <3>1. c \in Ids(ds)
      BY <1>1, <1>3, <2>2 DEF Ids
    <3>2. PICK k \in DOMAIN ds : ds[k].id = c
      BY <3>1 DEF Ids
    <3>3. PICK m \in DOMAIN cs : ds[k] = cs[m]
      BY <1>1
    <3>4. m = j
      BY <2>2, <3>2, <3>3 DEF NoDuplicates
    <3> QED
      BY <3>3, <3>4
  <2> QED
    BY <1>1, <2>1, <2>2, SameEntries
<1>4. AuditOf(ds) = [AuditOf(cs) EXCEPT ![cs[i].id] = "not"]
  BY <1>2, <1>3 DEF AuditOf
<1> QED
  BY <1>4 DEF ds
-----------------------------------------------------------------------------
(* The refinement *)

\* The abstract state follows the registry and what was published of it.
LEMMA AuditFrame ==
  ASSUME UNCHANGED <<containers, published, Excluded>>
  PROVE  UNCHANGED Abstract!vars
BY DEF Abstract!vars

\* After start-up, nothing is paused and nobody who is excluded is followed.
LEMMA InitAudit == Init => Abstract!Init
<1> SUFFICES ASSUME Init  PROVE Abstract!Init
  OBVIOUS
<1>1. /\ containers \in Seq(Entry)
      /\ Ids(containers) \cap Excluded = {}
      /\ \A i \in DOMAIN containers : containers[i].active = TRUE
  <2>1. \A i \in DOMAIN containers :
          containers[i] = [id |-> containers[i].id, pid |-> pid[containers[i].id],
                           active |-> TRUE]
    BY InitRegistry
  <2>2. \A i \in DOMAIN containers : containers[i].active = TRUE
    <3> TAKE i \in DOMAIN containers
    <3>1. containers[i] = [id |-> containers[i].id, pid |-> pid[containers[i].id],
                           active |-> TRUE]
      BY <2>1
    <3> QED
      BY <3>1
  <2> QED
    BY <2>2, InitRegistry DEF Excluded
<1>2. \A c \in Container : Follows(containers, c) \in {"not", "active"}
  BY <1>1 DEF Follows, Ids
<1>3. \A c \in Excluded : Follows(containers, c) = "not"
  BY <1>1 DEF Follows, Ids
<1>4. published = containers /\ Excluded \subseteq Container
  BY ConstantsAssumption DEF Init, Excluded
<1> QED
  BY <1>2, <1>3, <1>4 DEF Abstract!Init, AuditOf

\* What the goroutine of an event does to the registry is one abstract change of
\* its container, or none.
LEMMA EventAudit ==
  ASSUME TypeOK, IInv, NEW e \in inside,
         \/ InspectOnStart(e) \/ Activate(e) \/ CreateInspect(e)
         \/ CreateAppend(e) \/ DeactivateOnStop(e) \/ DeleteOnDie(e)
  PROVE  Abstract!Next \/ UNCHANGED Abstract!vars
<1>1. /\ containers \in Seq(Entry) /\ hpid \in Nat
      /\ NoDuplicates(containers)
      /\ hpc # "update" => published = containers
      /\ e.id \in Container
  BY DEF TypeOK, Event, IInv, RegistryInv, UniqueEntries, PublishInv
<1> DEFINE i == GetSliceIndex(containers, e.id)
<1>2. i # 0 => i \in 1..Len(containers) /\ containers[i].id = e.id
  BY <1>1, GetSliceIndexProperties
<1> HIDE DEF i
<1>a. Excluded' = Excluded
  BY HandlerFrame DEF Excluded
<1>3. ASSUME UNCHANGED <<containers, published>>
      PROVE  Abstract!Next \/ UNCHANGED Abstract!vars
  BY <1>3, <1>a, AuditFrame
<1>4. CASE /\ hpc = "list" /\ containers' = Created(containers, e.id, hpid)
           /\ published' = published
  <2>1. e.id \notin Ids(containers) /\ e.id \notin Excluded /\ published = containers
    BY <1>1, <1>4 DEF IInv, RegistryInv, FilterInv
  <2>2. /\ AuditOf(containers)[e.id] = "not"
        /\ AuditOf(containers') = [AuditOf(containers) EXCEPT ![e.id] = "active"]
    BY <1>1, <1>4, <2>1, CreatedFollows
  <2>3. Abstract!Add(e.id)
    BY <1>4, <1>a, <2>1, <2>2 DEF Abstract!Add, Abstract!Change
  <2> QED
    BY <1>1, <2>3 DEF Abstract!Next
<1>5. CASE /\ hpc # "update" /\ i # 0 /\ published' = published
           /\ \/ containers' = Reactivated(containers, i)
              \/ containers' = Deactivated(containers, i)
  <2>1. /\ AuditOf(containers)[e.id] \in {"active", "paused"}
        /\ \/ AuditOf(containers') = [AuditOf(containers) EXCEPT ![e.id] = "active"]
           \/ AuditOf(containers') = [AuditOf(containers) EXCEPT ![e.id] = "paused"]
    BY <1>1, <1>2, <1>5, SwitchedFollows
  <2>2. DOMAIN AuditOf(containers) = Container
    BY DEF AuditOf
  <2>3. published = containers
    BY <1>1, <1>5
  <2>4. \/ AuditOf(containers') = AuditOf(containers)
        \/ Abstract!Resume(e.id) \/ Abstract!Pause(e.id)
    BY <1>1, <1>5, <1>a, <2>1, <2>2, <2>3
       DEF Abstract!Resume, Abstract!Pause, Abstract!Change, AuditOf
  <2> QED
    BY <1>1, <1>5, <1>a, <2>4 DEF Abstract!Next, Abstract!vars
<1>6. CASE /\ hpc # "update" /\ i # 0
           /\ containers' = DeletedByIndex(containers, i) /\ published' = containers'
  <2>1. /\ AuditOf(containers)[e.id] \in {"active", "paused"}
        /\ AuditOf(containers') = [AuditOf(containers) EXCEPT ![e.id] = "not"]
    BY <1>1, <1>2, <1>6, SwitchedFollows, DeletedFollows
  <2>2. Abstract!Remove(e.id)
    BY <1>1, <1>6, <1>a, <2>1 DEF Abstract!Remove, Abstract!Change
  <2> QED
    BY <1>1, <2>2 DEF Abstract!Next
<1>7. CASE InspectOnStart(e) \/ CreateInspect(e)
  BY <1>3, <1>7 DEF InspectOnStart, CreateInspect, dataVars
<1>8. CASE Activate(e)
  BY <1>3, <1>5, <1>8 DEF Activate, i
<1>9. CASE CreateAppend(e)
  BY <1>3, <1>4, <1>9 DEF CreateAppend
<1>10. CASE DeactivateOnStop(e)
  BY <1>3, <1>5, <1>10 DEF DeactivateOnStop, i
<1>11. CASE DeleteOnDie(e)
  BY <1>3, <1>6, <1>11 DEF DeleteOnDie, dataVars, i
<1> QED
  BY <1>7, <1>8, <1>9, <1>10, <1>11

\* The daemon takes a container out of Excluded at most by renaming it.
LEMMA RenamedOnly ==
  ASSUME Docker
  PROVE  Excluded' = Excluded \/ \E c \in Container : Excluded' = Excluded \ {c}
<1>1. PICK c \in Container, s \in EventStatus :
        \/ DockerCreate(c) \/ DockerStart(c) \/ DockerDie(c) \/ DockerDestroy(c)
        \/ DockerStop(c) \/ DockerStopped(c) \/ DockerRename(c)
  BY DockerCases
<1>2. CASE DockerRename(c)
  <2>1. /\ matching' = IF c \in matching THEN matching \ {c} ELSE matching \cup {c}
        /\ ambiguous' = ambiguous \cup {c}
    BY <1>2 DEF DockerRename
  <2>2. Excluded' = Excluded \ {c}
    BY <2>1 DEF Excluded
  <2> QED
    BY <2>2
<1>3. CASE ~DockerRename(c)
  <2>1. UNCHANGED nameVars
    BY <1>1, <1>3 DEF DockerCreate, DockerStart, DockerDie, DockerStop, DockerStopped,
                      DockerDestroy, Exit
  <2> QED
    BY <2>1 DEF Excluded, nameVars
<1> QED
  BY <1>2, <1>3

\* Every step of the collector is a step of Audit or none.
LEMMA StepAudit ==
  ASSUME TypeOK, IInv, [Next]_vars
  PROVE  Abstract!Next \/ UNCHANGED Abstract!vars
<1>1. ASSUME UNCHANGED <<containers, published, Excluded>>
      PROVE  Abstract!Next \/ UNCHANGED Abstract!vars
  BY <1>1, AuditFrame
<1>2. ASSUME published' = containers, containers' = containers, Excluded' = Excluded
      PROVE  Abstract!Next \/ UNCHANGED Abstract!vars
  BY <1>2 DEF Abstract!Next, Abstract!Ship
<1>3. CASE Docker
  <2>1. containers' = containers /\ published' = published
    BY <1>3, DockerFrame
  <2>2. CASE Excluded' = Excluded
    BY <1>1, <2>1, <2>2
  <2>3. ASSUME NEW c \in Container, Excluded' = Excluded \ {c}
        PROVE  Abstract!Next
    BY <2>1, <2>3 DEF Abstract!Next, Abstract!Rename
  <2> QED
    BY <1>3, <2>2, <2>3, RenamedOnly
<1>4. CASE StreamFails \/ ListenForEvents \/ HandlerLock \/ HandlerUnlock \/ UNCHANGED vars
  BY <1>1, <1>4 DEF StreamFails, ListenForEvents, HandlerLock, HandlerUnlock, Excluded,
                    dockerVars, dataVars, vars
<1>5. CASE HandlerUpdateDBNode
  BY <1>2, <1>5, HandlerFrame DEF HandlerUpdateDBNode, Excluded
<1>6. CASE Main
  <2>1. containers' = containers /\ Excluded' = Excluded
    BY <1>6, MainFrame DEF Excluded
  <2>2. published' = published \/ published' = containers
    BY <1>6 DEF Main, MainInside, MainLock, ReadContainer, DiscardDone, ReadDone,
                UpdateAfterReading, MainUnlock, MainWakes
  <2> QED
    BY <1>1, <1>2, <2>1, <2>2
<1> QED
  BY <1>3, <1>4, <1>5, <1>6, EventAudit, NextCases

\* What the registry promises: containers are added, paused, resumed and removed
\* one at a time, an excluded one never, each change on top of a registry that
\* UpdateNode was called with, and a removal together with that call.
THEOREM AuditImplemented == Spec => AuditSteps
<1>1. TypeOK /\ IInv /\ [Next]_vars => [Abstract!Next]_(Abstract!vars)
  BY StepAudit
<1> QED
  BY <1>1, InitAudit, TypeCorrect, CoreInvariant, PTL DEF Spec, AuditSteps
=============================================================================
