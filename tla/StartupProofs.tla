---------------------------- MODULE StartupProofs ----------------------------
(***************************************************************************)
(* Proofs about Startup for every set of containers, every filter and      *)
(* every number of events and of retries: what a start leaves behind, with *)
(* the goroutines of events at work beside main.                           *)
(***************************************************************************)
EXTENDS Startup, DockerCollectorProofs

StartTyped == StateTypeOK /\ StartTypeOK

\* The steps of the daemon and of the goroutines, by name.
LEMMA BesideCases ==
  ASSUME Beside
  PROVE  /\ Next
         /\ \/ Docker \/ StreamFails \/ ListenForEvents \/ HandlerLock
            \/ \E e \in inside :
                 \/ InspectOnStart(e) \/ Activate(e) \/ CreateInspect(e)
                 \/ CreateAppend(e) \/ DeactivateOnStop(e) \/ DeleteOnDie(e)
            \/ HandlerUpdateDBNode \/ HandlerUnlock
         /\ UNCHANGED <<spc, retries, todo, skipped, new>>
BY DEF Beside, Next, Handler

\* What the steps of main at the start leave alone.
LEMMA StartingFrame ==
  ASSUME Starting
  PROVE  /\ UNCHANGED <<status, pid, lastPid, lastSeq, stopping, matching, calm, stream, waiting,
                        inside, hpc, hpid, mpc, cursor, containersMutex, sampled>>
         /\ \/ Info \/ ListContainers \/ Started
            \/ \E c \in todo : Skip(c) \/ NextContainer(c)
            \/ \E e \in new :
                 CreateInterfaces(e) \/ AppendRead(e) \/ AppendStore(e) \/ StartupUpdateNode(e)
<1>1. UNCHANGED otherVars
  BY DEF Starting, Info, ListContainers, Started, Skip, NextContainer, CreateInterfaces,
         AppendRead, AppendStore, StartupUpdateNode, mainKeeps
<1> QED
  BY <1>1 DEF Starting, otherVars, lifeVars, handlerVars, mainVars

LEMMA StartNextCases ==
  ASSUME [StartNext]_allVars
  PROVE  Starting \/ MonitorOpens \/ Beside \/ UNCHANGED allVars
BY DEF StartNext
-----------------------------------------------------------------------------
(* Types *)

\* Arrays only grow, and by whole elements.
LEMMA CapForType ==
  ASSUME NEW length \in Nat, NEW cap \in Nat
  PROVE  CapFor(length, cap) \in Nat
BY DEF CapFor, Grown

\* The slice that main appends to stays one, whatever a goroutine writes.
LEMMA AliasedType ==
  ASSUME NEW s \in Slice, NEW cs \in Seq(Entry)
  PROVE  Aliased(s, cs) \in Slice
<1> DEFINE cap == CapFor(Len(cs), s.cap)
           shared == s.shared /\ cap = s.cap
           view == [i \in DOMAIN s.view |-> IF i <= Len(cs) THEN cs[i] ELSE s.view[i]]
<1>1. /\ s.cap \in Nat /\ s.view \in Seq(Entry) /\ s.shared \in BOOLEAN
      /\ Len(cs) \in Nat /\ Len(s.view) \in Nat /\ DOMAIN s.view = 1..Len(s.view)
  BY DEF Slice
<1>2. cap \in Nat
  BY <1>1, CapForType
<1>3. view \in Seq(Entry)
  <2>1. \A i \in 1..Len(s.view) :
          (IF i <= Len(cs) THEN cs[i] ELSE s.view[i]) \in Entry
    BY <1>1, ElementOfSeq
  <2>2. view \in [1..Len(s.view) -> Entry]
    BY <1>1, <2>1
  <2> QED
    BY <1>1, <2>2, SeqDef
<1>4. shared \in BOOLEAN
  OBVIOUS
<1>5. Aliased(s, cs) = [s EXCEPT !.cap = cap, !.shared = shared, !.dirty = TRUE,
                                 !.view = IF shared THEN view ELSE s.view]
  BY DEF Aliased
<1>6. (IF shared THEN view ELSE s.view) \in Seq(Entry)
  BY <1>1, <1>3
<1> DEFINE v == IF shared THEN view ELSE s.view
<1>7. v \in Seq(Entry)
  BY <1>6
<1> HIDE DEF cap, shared, v
<1>8. Aliased(s, cs) = [s EXCEPT !.cap = cap, !.shared = shared, !.dirty = TRUE, !.view = v]
  BY <1>5 DEF v
<1> QED
  BY <1>2, <1>4, <1>7, <1>8 DEF Slice

LEMMA InitStartTyped == StartInit => StartTyped
<1> SUFFICES ASSUME StartInit  PROVE StateTypeOK /\ StartTypeOK
  BY DEF StartTyped
<1>1. Cardinality(Container) \in Nat
  BY ConstantsAssumption, FS_CardinalityType
<1>2. <<>> \in Seq(Entry)
  OBVIOUS
<1>3. StateTypeOK
  BY <1>1, <1>2 DEF StartInit, StateTypeOK, Running
<1>4. NoAppend \in Slice
  BY <1>2 DEF NoAppend, Slice
<1>5. Retries \in -1..Retries
  BY RetriesAssumption
<1> QED
  BY <1>3, <1>4, <1>5 DEF StartInit, StartTypeOK

\* The registry after main's append is one of the outcomes: a sequence of entries.
LEMMA OutcomesType ==
  ASSUME StartTyped, NEW e \in Entry, NEW cs \in Outcomes(e)
  PROVE  cs \in Seq(Entry)
<1>1. containers \in Seq(Entry) /\ slice.view \in Seq(Entry) /\ Len(slice.view) \in Nat
  BY DEF StartTyped, StateTypeOK, StartTypeOK, Slice
<1>2. \/ cs = Append(slice.view, e)
      \/ cs = SubSeq(containers, 1, Len(slice.view) + 1) /\ Len(containers) > Len(slice.view)
      \/ cs = containers
  BY DEF Outcomes
<1>3. ASSUME Len(containers) > Len(slice.view)
      PROVE  SubSeq(containers, 1, Len(slice.view) + 1) \in Seq(Entry)
  <2> DEFINE n == Len(slice.view) + 1
  <2>1. n \in Nat /\ \A i \in 1..n : containers[i] \in Entry
    BY <1>1, <1>3, ElementOfSeq
  <2> HIDE DEF n
  <2>2. SubSeq(containers, 1, n) \in Seq(Entry)
    BY <2>1, SubSeqProperties
  <2> QED
    BY <2>2 DEF n
<1>4. CASE cs = Append(slice.view, e)
  BY <1>1, <1>4, AppendProperties
<1> QED
  BY <1>1, <1>2, <1>3, <1>4

LEMMA StartingTyped ==
  ASSUME StartTyped, Starting
  PROVE  StartTyped'
<1> USE DEF StartTyped
<1>1. \A e \in new : e \in Entry /\ e.id \in Container /\ e.pid \in Nat
  BY DEF StartTypeOK, Entry
<1>0. ASSUME ambiguous' \in SUBSET Filterable, containers' \in Seq(Entry),
             published' \in Seq(Entry), faulted' \in SUBSET Container
      PROVE  StateTypeOK'
  BY <1>0, StartingFrame DEF StateTypeOK
<1>2. ASSUME UNCHANGED mainKeeps, containers' \in Seq(Entry), published' \in Seq(Entry),
             faulted' \in SUBSET Container
      PROVE  StateTypeOK'
  BY <1>0, <1>2 DEF mainKeeps, StateTypeOK
<1>3. CASE Info
  <2>1. retries' \in -1..Retries /\ spc' \in {"info", "list", "exit"}
    BY <1>3, RetriesAssumption DEF Info, MayRetry, StartTypeOK
  <2> QED
    BY <1>2, <1>3, <2>1 DEF Info, dataVars, StateTypeOK, StartTypeOK
<1>4. CASE ListContainers
  <2>1. /\ ambiguous' \in SUBSET Filterable /\ skipped' \in SUBSET Filterable
        /\ todo' \in SUBSET Container /\ touched' \in SUBSET Container
    BY <1>4 DEF ListContainers, SkippedNames, StateTypeOK, StartTypeOK
  <2> QED
    BY <1>0, <1>4, <2>1 DEF ListContainers, dataVars, StateTypeOK, StartTypeOK
<1>5. CASE Started
  BY <1>2, <1>5 DEF Started, dataVars, StateTypeOK, StartTypeOK
<1>6. ASSUME NEW c \in todo, NextContainer(c)  PROVE StartTyped'
  <2>1. c \in Container /\ pid[c] \in Nat
    BY DEF StateTypeOK, StartTypeOK
  <2>2. NewEntry(c, pid[c]) \in Entry
    BY <2>1 DEF NewEntry, Entry
  <2>3. new' \in SUBSET Entry /\ faulted' \in SUBSET Container
    BY <1>6, <2>1, <2>2 DEF NextContainer, Fault, StateTypeOK, StartTypeOK
  <2>4. spc' \in {"loop", "interfaces"} /\ todo' \in SUBSET Container
    BY <1>6 DEF NextContainer, StartTypeOK
  <2> QED
    BY <1>2, <1>6, <2>3, <2>4 DEF NextContainer, dataVars, StateTypeOK, StartTypeOK
<1>7. ASSUME NEW e \in new, CreateInterfaces(e)  PROVE StartTyped'
  BY <1>1, <1>2, <1>7 DEF CreateInterfaces, Fault, dataVars, StateTypeOK, StartTypeOK
<1>8. ASSUME NEW e \in new, AppendRead(e)  PROVE StartTyped'
  <2> DEFINE viewCap == CapFor(Len(containers) + 1, slice.cap)
  <2>1. containers \in Seq(Entry) /\ slice.cap \in Nat /\ Len(containers) + 1 \in Nat
    BY DEF StateTypeOK, StartTypeOK, Slice
  <2>2. viewCap \in Nat
    BY <2>1, CapForType
  <2>3. slice' = [slice EXCEPT !.view = containers, !.viewCap = viewCap,
                               !.shared = (viewCap = slice.cap), !.dirty = FALSE]
    BY <1>8 DEF AppendRead
  <2> HIDE DEF viewCap
  <2>4. slice' \in Slice
    BY <2>1, <2>2, <2>3 DEF StartTypeOK, Slice
  <2> QED
    BY <1>2, <1>8, <2>4 DEF AppendRead, dataVars, StateTypeOK, StartTypeOK
<1>9. ASSUME NEW e \in new, AppendStore(e)  PROVE StartTyped'
  <2>1. containers' \in Seq(Entry)
    BY <1>1, <1>9, OutcomesType DEF AppendStore
  <2>2. slice' \in Slice
    <3> DEFINE newCap == IF slice.dirty /\ containers' = containers THEN slice.cap
                         ELSE slice.viewCap
    <3>1. newCap \in Nat /\ slice' = [NoAppend EXCEPT !.cap = newCap]
      BY <1>9 DEF AppendStore, StartTypeOK, Slice
    <3> HIDE DEF newCap
    <3>2. NoAppend \in Slice
      <4>1. <<>> \in Seq(Entry)
        OBVIOUS
      <4> QED
        BY <4>1 DEF NoAppend, Slice
    <3>3. \A s \in Slice : [s EXCEPT !.cap = newCap] \in Slice
      BY <3>1 DEF Slice
    <3> QED
      BY <3>1, <3>2, <3>3
  <2> QED
    BY <1>2, <1>9, <2>1, <2>2 DEF AppendStore, StateTypeOK, StartTypeOK
<1>10. ASSUME NEW e \in new, StartupUpdateNode(e)  PROVE StartTyped'
  BY <1>2, <1>10 DEF StartupUpdateNode, StateTypeOK, StartTypeOK
<1>11. ASSUME NEW c \in todo, Skip(c)  PROVE StartTyped'
  BY <1>2, <1>11 DEF Skip, dataVars, StateTypeOK, StartTypeOK
<1> QED
  BY <1>3, <1>4, <1>5, <1>6, <1>7, <1>8, <1>9, <1>10, <1>11, StartingFrame

LEMMA StepStartTyped == StartTyped /\ [StartNext]_allVars => StartTyped'
<1> SUFFICES ASSUME StartTyped, [StartNext]_allVars  PROVE StartTyped'
  OBVIOUS
<1>1. CASE MonitorOpens
  BY <1>1 DEF MonitorOpens, StartTyped, StateTypeOK, StartTypeOK, startVars, dockerVars,
              handlerVars, mainVars, dataVars
<1>2. CASE Beside
  <2>1. StateTypeOK'
    BY <1>2, BesideCases, StateTypes DEF StartTyped
  <2>2. slice' \in Slice
    <3>1. containers' \in Seq(Entry)
      BY <2>1 DEF StateTypeOK
    <3> QED
      BY <1>2, <3>1, AliasedType DEF Beside, StartTyped, StartTypeOK
  <2>3. touched' \in SUBSET Container /\ raced' \in BOOLEAN
    BY <1>2 DEF Beside, StartTyped, StartTypeOK
  <2> QED
    BY <1>2, <2>1, <2>2, <2>3, BesideCases DEF StartTyped, StartTypeOK
<1>3. CASE UNCHANGED allVars
  BY <1>3 DEF allVars, vars, StartTyped, StateTypeOK, StartTypeOK, startVars, dockerVars,
              handlerVars, mainVars, dataVars
<1> QED
  BY <1>1, <1>2, <1>3, StartingTyped, StartNextCases

\* The variables of the start keep their types, the slice that main and the
\* goroutines share among them, and the attempts are counted down to -1 at most.
THEOREM StartTypeCorrect == StartSpec => []StartTypeOK
<1>1. StartTyped => StartTypeOK
  BY DEF StartTyped
<1> QED
  BY InitStartTyped, StepStartTyped, <1>1, PTL DEF StartSpec
-----------------------------------------------------------------------------
(* The entries of the other containers *)

\* Nothing is different for c between the registries cs and ds.
OthersKept(cs, ds, c) ==
  /\ c \in Ids(ds) <=> c \in Ids(cs)
  /\ \A e \in Entry : e.id = c /\ HoldsOnce(cs, e) => HoldsOnce(ds, e)

LEMMA AppendedOthers ==
  ASSUME NEW cs \in Seq(Entry), NEW e \in Entry
  PROVE  /\ \A c : c # e.id => OthersKept(cs, Append(cs, e), c)
         /\ e.id \notin Ids(cs) => HoldsOnce(Append(cs, e), e)
<1> DEFINE ds == Append(cs, e)
           n == Len(cs)
<1>1. /\ n \in Nat /\ DOMAIN cs = 1..n /\ DOMAIN ds = 1..(n + 1)
      /\ ds[n + 1] = e /\ \A i \in 1..n : ds[i] = cs[i]
  BY AppendProperties, LenProperties
<1> HIDE DEF ds, n
<1>2. ASSUME NEW c, c # e.id  PROVE OthersKept(cs, ds, c)
  <2>1. c \in Ids(ds) <=> c \in Ids(cs)
    BY <1>1, <1>2 DEF Ids
  <2>2. ASSUME NEW f \in Entry, f.id = c, HoldsOnce(cs, f)  PROVE HoldsOnce(ds, f)
    <3>1. PICK i \in DOMAIN cs : cs[i] = f /\ \A j \in DOMAIN cs : cs[j].id = f.id => j = i
      BY <2>2 DEF HoldsOnce
    <3>2. i \in DOMAIN ds /\ ds[i] = f /\ \A j \in DOMAIN ds : ds[j].id = f.id => j = i
      BY <1>1, <1>2, <2>2, <3>1
    <3> QED
      BY <3>2 DEF HoldsOnce
  <2> QED
    BY <2>1, <2>2 DEF OthersKept
<1>3. ASSUME e.id \notin Ids(cs)  PROVE HoldsOnce(ds, e)
  <2>1. n + 1 \in DOMAIN ds /\ ds[n + 1] = e
    BY <1>1
  <2>2. \A j \in DOMAIN ds : ds[j].id = e.id => j = n + 1
    BY <1>1, <1>3 DEF Ids
  <2> QED
    BY <2>1, <2>2 DEF HoldsOnce
<1> QED
  BY <1>2, <1>3 DEF ds

LEMMA ReplacedOthers ==
  ASSUME NEW cs \in Seq(Entry), NEW i \in 1..Len(cs), NEW e \in Entry, e.id = cs[i].id,
         NEW c, c # e.id
  PROVE  OthersKept(cs, ReplaceAt(cs, i, e), c)
<1> DEFINE ds == ReplaceAt(cs, i, e)
<1>1. DOMAIN cs = 1..Len(cs) /\ DOMAIN ds = DOMAIN cs
  BY LenProperties DEF ReplaceAt
<1>2. \A j \in DOMAIN cs : ds[j].id = cs[j].id /\ (j # i => ds[j] = cs[j])
  BY <1>1 DEF ReplaceAt
<1> HIDE DEF ds
<1>3. c \in Ids(ds) <=> c \in Ids(cs)
  BY <1>1, <1>2 DEF Ids
<1>4. ASSUME NEW f \in Entry, f.id = c, HoldsOnce(cs, f)  PROVE HoldsOnce(ds, f)
  <2>1. PICK k \in DOMAIN cs : cs[k] = f /\ \A j \in DOMAIN cs : cs[j].id = f.id => j = k
    BY <1>4 DEF HoldsOnce
  <2>2. ds[k] = f /\ \A j \in DOMAIN ds : ds[j].id = f.id => j = k
    BY <1>1, <1>2, <1>4, <2>1
  <2> QED
    BY <1>1, <2>2 DEF HoldsOnce
<1> QED
  BY <1>3, <1>4 DEF OthersKept, ds

LEMMA DeletedOthers ==
  ASSUME NEW cs \in Seq(Entry), NEW i \in 1..Len(cs), NEW c, c # cs[i].id
  PROVE  OthersKept(cs, DeletedByIndex(cs, i), c)
<1> DEFINE ds == DeletedByIndex(cs, i)
           n == Len(cs)
<1>1. /\ n \in Nat /\ i \in 1..n /\ DOMAIN cs = 1..n /\ DOMAIN ds = 1..(n - 1)
      /\ \A j \in 1..(n - 1) : ds[j] = IF j < i THEN cs[j] ELSE cs[j + 1]
  BY DeletedElements, LenProperties
<1> HIDE DEF ds, n
<1>2. ASSUME NEW k \in DOMAIN cs, k # i
      PROVE  \E m \in DOMAIN ds : ds[m] = cs[k] /\ m = IF k < i THEN k ELSE k - 1
  BY <1>1, <1>2
<1>3. ASSUME NEW m \in DOMAIN ds
      PROVE  \E k \in DOMAIN cs : ds[m] = cs[k] /\ k # i /\ m = IF k < i THEN k ELSE k - 1
  BY <1>1
<1>4. c \in Ids(ds) <=> c \in Ids(cs)
  BY <1>2, <1>3 DEF Ids
<1>5. ASSUME NEW f \in Entry, f.id = c, HoldsOnce(cs, f)  PROVE HoldsOnce(ds, f)
  <2>1. PICK k \in DOMAIN cs : cs[k] = f /\ \A j \in DOMAIN cs : cs[j].id = f.id => j = k
    BY <1>5 DEF HoldsOnce
  <2>2. PICK m \in DOMAIN ds : ds[m] = cs[k] /\ m = IF k < i THEN k ELSE k - 1
    BY <1>2, <1>5, <2>1
  <2>3. ASSUME NEW j \in DOMAIN ds, ds[j].id = f.id  PROVE j = m
    <3>1. PICK l \in DOMAIN cs : ds[j] = cs[l] /\ j = IF l < i THEN l ELSE l - 1
      BY <1>3
    <3>2. l = k
      BY <2>1, <2>3, <3>1
    <3> QED
      BY <2>2, <3>1, <3>2
  <2> QED
    BY <2>1, <2>2, <2>3 DEF HoldsOnce
<1> QED
  BY <1>4, <1>5 DEF OthersKept, ds

LEMMA SameOthers == \A cs, c : OthersKept(cs, cs, c)
BY DEF OthersKept
-----------------------------------------------------------------------------
(* The daemon and the goroutines beside main *)

\* A step of the daemon changes one container, and has an event of it alone.
LEMMA DockerTouches ==
  ASSUME StateTypeOK, \A c \in Container : pid[c] # 0 <=> status[c] = "running", Docker
  PROVE  \E c \in Container :
           /\ Changes(c) /\ (pid'[c] # 0 <=> status'[c] = "running")
           /\ \A d \in Container \ {c} : status'[d] = status[d] /\ pid'[d] = pid[d]
           /\ \A e \in stream' : e \in stream \/ e.id = c
           /\ monitor # "on" => stream' = stream
<1>1. PICK c \in Container, s \in EventStatus :
        /\ Emit(c, s)
        /\ \/ DockerCreate(c) \/ DockerStart(c) \/ DockerDie(c) \/ DockerStop(c)
           \/ DockerStopped(c) \/ DockerDestroy(c) \/ DockerRename(c)
  BY DockerCases
<1>2. /\ lastPid \in Nat
      /\ status \in [Container -> {"absent", "created", "running", "exited", "removed"}]
      /\ pid \in [Container -> Nat]
  BY DEF StateTypeOK
<1>3. /\ \A e \in stream' : e \in stream \/ e.id = c
      /\ monitor # "on" => stream' = stream
  <2>1. stream' \subseteq stream \cup {NewEvent(c, s)} /\ NewEvent(c, s).id = c
    BY <1>1, EmittedIsNew
  <2> QED
    BY <1>1, <2>1 DEF Emit
<1>4. /\ Changes(c) /\ (pid'[c] # 0 <=> status'[c] = "running")
      /\ \A d \in Container \ {c} : status'[d] = status[d] /\ pid'[d] = pid[d]
  <2>1. CASE DockerCreate(c)
    BY <1>2, <2>1 DEF DockerCreate, Changes
  <2>2. CASE DockerStart(c)
    BY <1>2, <2>2 DEF DockerStart, Changes
  <2>3. CASE DockerDie(c) \/ DockerStop(c)
    BY <1>2, <2>3 DEF DockerDie, DockerStop, Exit, Changes
  <2>4. CASE DockerDestroy(c)
    BY <1>2, <2>4 DEF DockerDestroy, Changes
  <2>5. CASE DockerStopped(c)
    BY <2>5 DEF DockerStopped, Changes
  <2>6. CASE DockerRename(c)
    <3>1. (c \in matching) # (c \in matching')
      BY <2>6 DEF DockerRename
    <3> QED
      BY <2>6, <3>1 DEF DockerRename, lifeVars, Changes
  <2> QED
    BY <1>1, <2>1, <2>2, <2>3, <2>4, <2>5, <2>6
<1> QED
  BY <1>3, <1>4

\* A container that stays untouched keeps its status, its PID and its want of
\* events.
LEMMA BesideTouches ==
  ASSUME StartTyped, UntouchedInv, Beside
  PROVE  /\ UntouchedInv' /\ touched \subseteq touched'
         /\ \A c \in Container \ touched' :
              /\ status'[c] = status[c] /\ pid'[c] = pid[c]
              /\ c \in faulted' <=> c \in faulted
<1>1. touched' = touched \cup {c \in Container : Changes(c)}
  BY DEF Beside
<1>2. CASE Docker
  <2>1. PICK c \in Container :
          /\ Changes(c) /\ (pid'[c] # 0 <=> status'[c] = "running")
          /\ \A d \in Container \ {c} : status'[d] = status[d] /\ pid'[d] = pid[d]
          /\ \A e \in stream' : e \in stream \/ e.id = c
    BY <1>2, DockerTouches DEF StartTyped, UntouchedInv
  <2>2. UNCHANGED <<waiting, inside, faulted>>
    BY <1>2, DockerFrame
  <2>3. c \in touched' /\ touched \subseteq touched'
    BY <1>1, <2>1
  <2>4. \A e \in stream' \cup waiting' \cup inside' : e.id \in touched'
    BY <2>1, <2>2, <2>3 DEF UntouchedInv
  <2>5. \A d \in Container : pid'[d] # 0 <=> status'[d] = "running"
    BY <2>1 DEF UntouchedInv
  <2>6. \A d \in Container \ touched' : status'[d] = status[d] /\ pid'[d] = pid[d]
    BY <2>1, <2>3
  <2> QED
    BY <2>2, <2>3, <2>4, <2>5, <2>6 DEF UntouchedInv
<1>3. CASE ~Docker
  <2>1. /\ UNCHANGED <<status, pid>>
        /\ faulted' = faulted \/ \E e \in inside : faulted' = faulted \cup {e.id}
        /\ stream' \cup waiting' \cup inside' \subseteq stream \cup waiting \cup inside
    BY <1>3, BesideCases
       DEF StreamFails, ListenForEvents, HandlerLock, InspectOnStart, Activate, CreateInspect,
           CreateAppend, DeactivateOnStop, DeleteOnDie, HandlerUpdateDBNode, HandlerUnlock,
           Fault, handlerFrame, dockerVars, handlerVars
  <2> QED
    BY <1>1, <2>1 DEF UntouchedInv
<1> QED
  BY <1>2, <1>3

\* The goroutines leave the entries of untouched containers as they are.
LEMMA BesideRegistry ==
  ASSUME StartTyped, UntouchedInv, Beside
  PROVE  /\ containers' # containers => inside # {}
         /\ published' = published \/ published' = containers'
         /\ \A c \in Container \ touched : OthersKept(containers, containers', c)
<1>1. containers \in Seq(Entry) /\ hpid \in Nat
  BY DEF StartTyped, StateTypeOK
<1>2. CASE \E e \in inside :
             \/ InspectOnStart(e) \/ Activate(e) \/ CreateInspect(e)
             \/ CreateAppend(e) \/ DeactivateOnStop(e) \/ DeleteOnDie(e)
  <2>1. PICK e \in inside :
          \/ InspectOnStart(e) \/ Activate(e) \/ CreateInspect(e)
          \/ CreateAppend(e) \/ DeactivateOnStop(e) \/ DeleteOnDie(e)
    BY <1>2
  <2>2. e.id \in Container /\ e.id \in touched
    BY DEF UntouchedInv, StartTyped, StateTypeOK, Event
  <2>3. published' = published \/ published' = containers'
    BY <2>1 DEF InspectOnStart, Activate, CreateInspect, CreateAppend, DeactivateOnStop,
                DeleteOnDie, dataVars
  <2>4. ASSUME NEW c \in Container \ touched  PROVE OthersKept(containers, containers', c)
    <3>1. c # e.id
      BY <2>2
    <3>2. CASE containers' = containers
      BY <3>2, SameOthers
    <3>3. CASE containers' = Created(containers, e.id, hpid)
      <4>1. NewEntry(e.id, hpid) \in Entry /\ NewEntry(e.id, hpid).id = e.id
        BY <1>1, <2>2 DEF NewEntry, Entry
      <4> QED
        BY <1>1, <3>1, <3>3, <4>1, AppendedOthers DEF Created
    <3>4. ASSUME NEW i \in 1..Len(containers), containers[i].id = e.id,
                 \/ containers' = Reactivated(containers, i)
                 \/ containers' = Deactivated(containers, i)
                 \/ containers' = DeletedByIndex(containers, i)
          PROVE  OthersKept(containers, containers', c)
      <4>1. containers[i] \in Entry
        BY <1>1, ElementOfSeq
      <4>2. /\ [containers[i] EXCEPT !.active = TRUE, !.pid = 0] \in Entry
            /\ [containers[i] EXCEPT !.active = TRUE, !.pid = 0].id = containers[i].id
            /\ [containers[i] EXCEPT !.active = FALSE] \in Entry
            /\ [containers[i] EXCEPT !.active = FALSE].id = containers[i].id
        BY <4>1 DEF Entry
      <4> QED
        BY <1>1, <3>1, <3>4, <4>2, ReplacedOthers, DeletedOthers DEF Reactivated, Deactivated
    <3> QED
      BY <2>1, <3>2, <3>3, <3>4, RegistrySteps DEF StartTyped
  <2> QED
    BY <2>1, <2>3, <2>4
<1>3. CASE Docker \/ StreamFails \/ ListenForEvents \/ HandlerLock \/ HandlerUnlock
  <2>1. UNCHANGED <<containers, published>>
    BY <1>3, DockerFrame DEF StreamFails, ListenForEvents, HandlerLock, HandlerUnlock, dataVars
  <2> QED
    BY <2>1, SameOthers
<1>4. CASE HandlerUpdateDBNode
  <2>1. containers' = containers /\ published' = containers
    BY <1>4 DEF HandlerUpdateDBNode
  <2> QED
    BY <2>1, SameOthers
<1> QED
  BY <1>2, <1>3, <1>4, BesideCases
-----------------------------------------------------------------------------
(* The inductive invariant *)

LEMMA InitStart == StartInit => StartInv
<1> SUFFICES ASSUME StartInit  PROVE StartInv
  OBVIOUS
<1>1. QuietInv /\ NewInv /\ SliceInv /\ LoopInv /\ SkippedInv
  BY DEF StartInit, QuietInv, NewInv, SliceInv, LoopInv, SkippedInv
<1>2. UntouchedInv
  BY DEF StartInit, UntouchedInv, Running
<1> QED
  BY <1>1, <1>2 DEF StartInv

\* A container that leaves Excluded has become ambiguous; nobody else has a part in
\* that.
LEMMA BesideNames ==
  ASSUME Beside
  PROVE  Excluded' \subseteq Excluded /\ matching \cup ambiguous \subseteq matching' \cup ambiguous'
<1>1. CASE Docker
  <2>1. PICK c \in Container, s \in EventStatus :
          \/ DockerCreate(c) \/ DockerStart(c) \/ DockerDie(c) \/ DockerDestroy(c)
          \/ DockerStop(c) \/ DockerStopped(c) \/ DockerRename(c)
    BY <1>1, DockerCases
  <2>2. matching \cup ambiguous \subseteq matching' \cup ambiguous'
    <3>1. CASE DockerRename(c)
      BY <3>1 DEF DockerRename
    <3>2. CASE ~DockerRename(c)
      BY <2>1, <3>2 DEF DockerCreate, DockerStart, DockerDie, DockerStop, DockerStopped,
                        DockerDestroy, Exit, nameVars
    <3> QED
      BY <3>1, <3>2
  <2> QED
    BY <1>1, <2>2, NamesStep
<1>2. CASE ~Docker
  <2>1. UNCHANGED <<matching, ambiguous>>
    BY <1>2, BesideCases, HandlerFrame
       DEF StreamFails, ListenForEvents, HandlerLock, HandlerUnlock, dockerVars
  <2> QED
    BY <2>1 DEF Excluded
<1> QED
  BY <1>1, <1>2

LEMMA BesideStart ==
  ASSUME StartTyped, StartInv, Beside
  PROVE  StartInv'
<1>1. /\ UntouchedInv' /\ touched \subseteq touched'
      /\ \A c \in Container \ touched' :
           /\ status'[c] = status[c] /\ pid'[c] = pid[c]
           /\ c \in faulted' <=> c \in faulted
  BY BesideTouches DEF StartInv
<1>2. /\ containers' # containers => inside # {}
      /\ published' = published \/ published' = containers'
      /\ \A c \in Container \ touched : OthersKept(containers, containers', c)
  BY BesideRegistry DEF StartInv
<1>3. /\ UNCHANGED <<spc, retries, todo, skipped, new>>
      /\ ~raced' => ~raced /\ (spc = "store" => containers' = containers)
      /\ containers' = containers => slice' = slice
      /\ raced' => raced \/ containers' # containers
  BY DEF Beside
<1>4. QuietInv'
  <2> SUFFICES ASSUME spc \in {"info", "list", "exit"}  PROVE QuietInv'
    BY <1>3 DEF QuietInv
  <2>1. /\ monitor = "off" /\ stream = {} /\ waiting = {} /\ inside = {}
        /\ containers = <<>> /\ published = <<>> /\ faulted = {} /\ ~raced
    BY DEF StartInv, QuietInv
  <2>2. containers' = <<>> /\ published' = <<>> /\ ~raced'
    BY <1>2, <1>3, <2>1
  <2>3. CASE Docker
    <3>1. stream' = stream
      BY <2>1, <2>3, DockerTouches DEF StartTyped, StartInv, UntouchedInv
    <3> QED
      BY <2>1, <2>2, <2>3, <3>1, DockerFrame DEF QuietInv
  <2>4. CASE HandlerUpdateDBNode \/ HandlerUnlock
    <3>1. UNCHANGED <<monitor, stream, waiting, faulted>> /\ inside' \in {inside, {}}
      BY <2>4 DEF HandlerUpdateDBNode, HandlerUnlock, handlerFrame
    <3> QED
      BY <2>1, <2>2, <3>1 DEF QuietInv
  <2>5. ~StreamFails /\ ~ListenForEvents /\ ~HandlerLock
    BY <2>1 DEF StreamFails, ListenForEvents, HandlerLock
  <2> QED
    BY <2>1, <2>3, <2>4, <2>5, BesideCases
<1>5. NewInv'
  <2>1. \A e \in new : e.id \in Container
    BY DEF StartTyped, StartTypeOK, Entry
  <2> QED
    BY <1>1, <1>3, <2>1 DEF StartInv, NewInv
<1>6. SliceInv'
  <2>1. inside # {} => touched # {}
    BY DEF StartInv, UntouchedInv
  <2> QED
    BY <1>1, <1>2, <1>3, <2>1 DEF StartInv, SliceInv
<1>7. LoopInv'
  <2> SUFFICES ASSUME spc \notin {"info", "list", "exit"}  PROVE LoopInv'
    BY <1>3 DEF LoopInv
  <2>1. ASSUME touched' = {}, spc # "update"  PROVE published' = containers'
    <3>1. touched = {} /\ inside = {}
      BY <1>1, <2>1 DEF StartInv, UntouchedInv
    <3> QED
      BY <1>2, <2>1, <3>1 DEF StartInv, LoopInv
  <2>2. \A c : StillToCome(c)' <=> StillToCome(c)
    BY <1>3 DEF StillToCome
  <2>3. ASSUME NEW c \in Container \ touched', StillToCome(c)'  PROVE c \notin faulted'
    BY <1>1, <2>2, <2>3 DEF StartInv, LoopInv
  <2>4. ASSUME ~raced', NEW c \in Container \ touched'
        PROVE  IF c \in Running' \ (skipped' \cup faulted') /\ ~StillToCome(c)'
               THEN HoldsOnce(containers', NewEntry(c, pid'[c]))
               ELSE c \notin Ids(containers')
    <3>1. c \in Container \ touched /\ ~raced /\ (c \in faulted' <=> c \in faulted)
      BY <1>1, <1>3, <2>4
    <3>2. c \in Running' <=> c \in Running
      BY <1>1, <2>4 DEF Running
    <3>3. pid'[c] = pid[c] /\ NewEntry(c, pid[c]) \in Entry /\ NewEntry(c, pid[c]).id = c
      BY <1>1, <2>4 DEF StartTyped, StateTypeOK, NewEntry, Entry
    <3>4. OthersKept(containers, containers', c)
      BY <1>2, <3>1
    <3>5. IF c \in Running \ (skipped \cup faulted) /\ ~StillToCome(c)
          THEN HoldsOnce(containers, NewEntry(c, pid[c]))
          ELSE c \notin Ids(containers)
      BY <3>1 DEF StartInv, LoopInv
    <3>6. skipped' = skipped
      BY <1>3
    <3> QED
      BY <2>2, <3>1, <3>2, <3>3, <3>4, <3>5, <3>6 DEF OthersKept
  <2> QED
    BY <1>3, <2>1, <2>3, <2>4 DEF LoopInv
<1>8. SkippedInv'
  <2>1. Excluded' \subseteq Excluded /\ matching \cup ambiguous \subseteq matching' \cup ambiguous'
    BY BesideNames
  <2> QED
    BY <1>3, <2>1 DEF StartInv, SkippedInv
<1> QED
  BY <1>1, <1>4, <1>5, <1>6, <1>7, <1>8 DEF StartInv

\* main's steps before the loop.
LEMMA BeforeLoop ==
  ASSUME StartTyped, StartInv, Info \/ ListContainers \/ Started
  PROVE  StartInv'
<1>1. /\ UNCHANGED <<status, pid, stream, waiting, inside, containers, published, faulted, new,
                     slice, raced>>
  BY DEF Info, ListContainers, Started, mainKeeps, otherVars, lifeVars, handlerVars, dataVars
<1>2. CASE Info
  <2>1. /\ spc = "info" /\ spc' \in {"info", "list", "exit"}
        /\ UNCHANGED <<monitor, todo, skipped, touched>>
    BY <1>2 DEF Info
  <2> QED
    BY <1>1, <2>1 DEF StartInv, QuietInv, UntouchedInv, NewInv, SliceInv, LoopInv, SkippedInv
<1>3. CASE ListContainers /\ spc' = "exit"
  <2>1. spc = "list" /\ UNCHANGED <<monitor, todo, skipped, touched>>
    BY <1>3 DEF ListContainers
  <2> QED
    BY <1>1, <1>3, <2>1 DEF StartInv, QuietInv, UntouchedInv, NewInv, SliceInv, LoopInv,
                            SkippedInv
<1>4. CASE ListContainers /\ spc' = "loop"
  <2>1. /\ spc = "list" /\ todo' = {c \in Container : Exists(c)} /\ touched' = {}
    BY <1>4 DEF ListContainers
  <2>2. /\ stream = {} /\ waiting = {} /\ inside = {}
        /\ containers = <<>> /\ published = <<>> /\ faulted = {} /\ ~raced /\ new = {}
    BY <2>1 DEF StartInv, QuietInv, NewInv
  <2>3. QuietInv' /\ SliceInv'
    BY <1>1, <1>4, <2>2 DEF QuietInv, SliceInv
  <2>4. UntouchedInv' /\ NewInv'
    BY <1>1, <1>4, <2>2 DEF StartInv, UntouchedInv, NewInv
  <2>5. LoopInv'
    <3>1. \A c : c \notin Ids(containers')
      BY <1>1, <2>2 DEF Ids
    <3>2. ASSUME NEW c \in Running'  PROVE StillToCome(c)'
      <4>1. c \in Container /\ Exists(c)
        BY <1>1 DEF Running, Exists
      <4> QED
        BY <2>1, <4>1 DEF StillToCome
    <3> QED
      BY <1>1, <2>2, <3>1, <3>2 DEF LoopInv
  <2>6. SkippedInv'
    <3>1. PICK aliased \in SUBSET Container :
            /\ skipped' = matching \cup aliased
            /\ ambiguous' = ambiguous \cup (aliased \ matching)
      BY <1>4, ConstantsAssumption DEF ListContainers, SkippedNames
    <3>2. matching' = matching
      BY <1>4 DEF ListContainers, otherVars
    <3> QED
      BY <3>1, <3>2 DEF SkippedInv, Excluded
  <2> QED
    BY <2>3, <2>4, <2>5, <2>6 DEF StartInv
<1>5. CASE Started
  <2>1. /\ spc = "loop" /\ spc' = "done" /\ todo = {}
        /\ UNCHANGED <<monitor, todo, skipped, touched, matching, ambiguous>>
    BY <1>5 DEF Started, mainKeeps, otherVars
  <2>2. \A c : StillToCome(c)' <=> StillToCome(c)
    BY <1>1, <2>1 DEF StillToCome
  <2>3. Running' = Running
    BY <1>1 DEF Running
  <2>4. QuietInv' /\ SliceInv' /\ UntouchedInv' /\ NewInv'
    BY <1>1, <2>1 DEF StartInv, QuietInv, UntouchedInv, NewInv, SliceInv
  <2>5. LoopInv'
    BY <1>1, <2>1, <2>2, <2>3 DEF StartInv, LoopInv
  <2>6. SkippedInv'
    BY <2>1 DEF StartInv, SkippedInv, Excluded
  <2> QED
    BY <2>4, <2>5, <2>6 DEF StartInv
<1>6. ListContainers => spc' \in {"exit", "loop"}
  BY DEF ListContainers
<1> QED
  BY <1>2, <1>3, <1>4, <1>5, <1>6

\* A container with a name that matches comes off the list without an entry.
LEMMA SkipStart ==
  ASSUME StartTyped, StartInv, NEW c \in todo, Skip(c)
  PROVE  StartInv'
<1>1. /\ spc = "loop" /\ spc' = "loop" /\ c \in skipped /\ todo' = todo \ {c} /\ new = {}
      /\ UNCHANGED <<status, pid, matching, ambiguous, stream, waiting, inside, monitor, containers,
                     published, faulted, skipped, new, slice, touched, raced>>
  BY DEF Skip, mainKeeps, otherVars, lifeVars, handlerVars, dataVars, StartInv, NewInv
<1>2. Running' = Running
  BY <1>1 DEF Running
<1>3. QuietInv' /\ SliceInv' /\ UntouchedInv' /\ NewInv' /\ SkippedInv'
  BY <1>1 DEF StartInv, QuietInv, SliceInv, UntouchedInv, NewInv, SkippedInv, Excluded
<1>4. \A d : StillToCome(d)' <=> StillToCome(d) /\ d # c
  BY <1>1 DEF StillToCome
<1>5. LoopInv'
  BY <1>1, <1>2, <1>4 DEF StartInv, LoopInv
<1> QED
  BY <1>3, <1>5 DEF StartInv

\* The next container of the list gets an entry, if it has the right to one.
LEMMA NextContainerStart ==
  ASSUME StartTyped, StartInv, NEW c \in todo, NextContainer(c)
  PROVE  StartInv'
<1>1. /\ spc = "loop" /\ c \notin skipped /\ todo' = todo \ {c} /\ new = {} /\ c \in Container
      /\ UNCHANGED <<status, pid, matching, ambiguous, stream, waiting, inside, monitor, containers,
                     published, skipped, slice, touched, raced>>
  BY DEF NextContainer, mainKeeps, otherVars, lifeVars, handlerVars, dataVars, StartInv, NewInv,
         StartTyped, StartTypeOK
<1>2. Running' = Running
  BY <1>1 DEF Running
<1>3. \/ /\ new' = {NewEntry(c, pid[c])} /\ spc' = "interfaces"
         /\ faulted' = faulted
      \/ /\ new' = {} /\ spc' = "loop"
         /\ faulted' = IF Exists(c) THEN faulted \cup {c} ELSE faulted
  BY <1>1 DEF NextContainer, Fault
<1>4. QuietInv' /\ SliceInv' /\ UntouchedInv' /\ SkippedInv'
  BY <1>1, <1>3 DEF StartInv, QuietInv, SliceInv, UntouchedInv, SkippedInv, Excluded
<1> DEFINE e == NewEntry(c, pid[c])
<1>e. e.id = c /\ e.pid = pid[c] /\ e = NewEntry(e.id, e.pid)
  BY DEF NewEntry
<1> HIDE DEF e
<1>5. NewInv'
  <2>1. CASE new' = {e} /\ spc' = "interfaces"
    BY <1>1, <1>e, <2>1 DEF NewInv
  <2>2. CASE new' = {} /\ spc' = "loop"
    BY <2>2 DEF NewInv
  <2> QED
    BY <1>3, <2>1, <2>2 DEF e
<1>6. ASSUME NEW d \in Container, d # c  PROVE StillToCome(d)' <=> StillToCome(d)
  BY <1>1, <1>3, <1>6 DEF StillToCome, NewEntry
<1>7. StillToCome(c)
  BY DEF StillToCome
<1>8. ASSUME c \in Running \ skipped, c \notin faulted'  PROVE StillToCome(c)'
  <2>1. Exists(c)
    BY <1>8 DEF Running, Exists
  <2>2. new' = {e} /\ spc' = "interfaces"
    BY <1>3, <1>8, <2>1 DEF e
  <2> QED
    BY <1>e, <2>2 DEF StillToCome
<1>9. \A d \in Container \ {c} : d \in faulted' <=> d \in faulted
  BY <1>3
<1>10. ASSUME NEW d \in Container \ touched, StillToCome(d)'  PROVE d \notin faulted'
  <2>1. d \in faulted => ~StillToCome(d)
    BY <1>1 DEF StartInv, LoopInv
  <2>2. CASE d = c
    <3>1. new' # {}
      BY <1>1, <1>10, <2>2 DEF StillToCome
    <3> QED
      BY <1>3, <1>7, <2>1, <2>2, <3>1
  <2>3. CASE d # c
    BY <1>6, <1>9, <1>10, <2>1, <2>3
  <2> QED
    BY <2>2, <2>3
<1>11. LoopInv'
  <2>1. spc' \notin {"info", "list", "exit"} /\ spc # "update"
    BY <1>1, <1>3
  <2>2. touched' = {} => published' = containers'
    BY <1>1 DEF StartInv, LoopInv
  <2>3. ASSUME ~raced', NEW d \in Container \ touched'
        PROVE  IF d \in Running' \ (skipped' \cup faulted') /\ ~StillToCome(d)'
               THEN HoldsOnce(containers', NewEntry(d, pid'[d]))
               ELSE d \notin Ids(containers')
    <3>1. IF d \in Running \ (skipped \cup faulted) /\ ~StillToCome(d)
          THEN HoldsOnce(containers, NewEntry(d, pid[d]))
          ELSE d \notin Ids(containers)
      BY <1>1, <2>3 DEF StartInv, LoopInv
    <3>2. CASE d = c
      BY <1>1, <1>2, <1>7, <1>8, <2>3, <3>1, <3>2
    <3>3. CASE d # c
      BY <1>1, <1>2, <1>6, <1>9, <2>3, <3>1, <3>3
    <3> QED
      BY <3>2, <3>3
  <2> QED
    BY <1>1, <1>10, <2>2, <2>3 DEF LoopInv
<1> QED
  BY <1>4, <1>5, <1>11 DEF StartInv

\* Steps on the new entry that leave the registry as it is.
LEMMA InterfacesStart ==
  ASSUME StartTyped, StartInv, NEW e \in new, CreateInterfaces(e)
  PROVE  StartInv'
<1>1. /\ spc = "interfaces" /\ e.id \in Container /\ e.pid \in Nat
      /\ UNCHANGED <<status, pid, matching, ambiguous, stream, waiting, inside, monitor, containers,
                     published, slice, todo, skipped, touched, raced>>
  BY DEF CreateInterfaces, mainKeeps, otherVars, lifeVars, handlerVars, dataVars, StartTyped,
         StartTypeOK, Entry
<1>2. Running' = Running
  BY <1>1 DEF Running
<1>3. \/ /\ Readable(e.pid) /\ spc' = "append" /\ new' = new /\ faulted' = faulted
      \/ /\ spc' = "loop" /\ new' = {}
         /\ faulted' = IF Readable(e.pid) THEN faulted \cup {e.id} ELSE faulted
  BY DEF CreateInterfaces, Fault
<1>4. /\ \A f \in new : f = e
      /\ e.id \notin todo /\ (e.id \notin touched => e.pid = pid[e.id])
  BY DEF StartInv, NewInv
<1>5. QuietInv' /\ SliceInv' /\ UntouchedInv' /\ SkippedInv'
  BY <1>1, <1>3 DEF StartInv, QuietInv, SliceInv, UntouchedInv, SkippedInv, Excluded
<1>6. NewInv'
  <2>1. Readable(e.pid) => e.pid # 0
    BY DEF Readable
  <2> QED
    BY <1>1, <1>3, <1>4, <2>1 DEF StartInv, NewInv
<1>7. ASSUME NEW d, d # e.id \/ new' = new  PROVE StillToCome(d)' <=> StillToCome(d)
  BY <1>1, <1>3, <1>4, <1>7 DEF StillToCome
<1>8. ASSUME e.id \in Running, e.id \notin touched, e.id \notin faulted'
      PROVE  new' = new
  <2>1. e.pid = pid[e.id] /\ pid[e.id] # 0
    BY <1>1, <1>4, <1>8 DEF StartInv, UntouchedInv, Running
  <2>2. Readable(e.pid)
    BY <1>1, <2>1 DEF Readable
  <2> QED
    BY <1>3, <1>8, <2>2
<1>9. /\ StillToCome(e.id)
      /\ \A d \in Container \ {e.id} : d \in faulted' <=> d \in faulted
  BY <1>1, <1>3 DEF StillToCome
<1>10. ASSUME NEW d \in Container \ touched, StillToCome(d)'  PROVE d \notin faulted'
  <2>1. d \in faulted => ~StillToCome(d)
    BY <1>1 DEF StartInv, LoopInv
  <2>2. CASE d = e.id
    <3>1. new' # {}
      BY <1>1, <1>4, <1>10, <2>2 DEF StillToCome
    <3> QED
      BY <1>3, <1>9, <2>1, <2>2, <3>1
  <2>3. CASE d # e.id
    BY <1>7, <1>9, <1>10, <2>1, <2>3
  <2> QED
    BY <2>2, <2>3
<1>11. LoopInv'
  <2>1. spc' \notin {"info", "list", "exit"} /\ spc # "update"
    BY <1>1, <1>3
  <2>2. touched' = {} => published' = containers'
    BY <1>1 DEF StartInv, LoopInv
  <2>3. ASSUME ~raced', NEW d \in Container \ touched'
        PROVE  IF d \in Running' \ (skipped' \cup faulted') /\ ~StillToCome(d)'
               THEN HoldsOnce(containers', NewEntry(d, pid'[d]))
               ELSE d \notin Ids(containers')
    <3>1. IF d \in Running \ (skipped \cup faulted) /\ ~StillToCome(d)
          THEN HoldsOnce(containers, NewEntry(d, pid[d]))
          ELSE d \notin Ids(containers)
      BY <1>1, <2>3 DEF StartInv, LoopInv
    <3>2. CASE d = e.id
      <4>1. d \notin Ids(containers)
        BY <1>9, <3>1, <3>2
      <4>2. d \in Running \ faulted' => StillToCome(d)'
        BY <1>1, <1>7, <1>8, <1>9, <2>3, <3>2
      <4> QED
        BY <1>1, <1>2, <4>1, <4>2
    <3>3. CASE d # e.id
      BY <1>1, <1>2, <1>7, <1>9, <2>3, <3>1, <3>3
    <3> QED
      BY <3>2, <3>3
  <2> QED
    BY <1>1, <1>10, <2>2, <2>3 DEF LoopInv
<1> QED
  BY <1>5, <1>6, <1>11 DEF StartInv

LEMMA ReadAndUpdateStart ==
  ASSUME StartTyped, StartInv, NEW e \in new, AppendRead(e) \/ StartupUpdateNode(e)
  PROVE  StartInv'
<1>1. UNCHANGED <<status, pid, matching, ambiguous, stream, waiting, inside, monitor, containers,
                  faulted, todo, skipped, touched, raced>>
  BY DEF AppendRead, StartupUpdateNode, mainKeeps, otherVars, lifeVars, handlerVars, dataVars
<1>s. SkippedInv' <=> (spc' \in {"info", "list", "exit"} \/
                       (Excluded \subseteq skipped /\ skipped \subseteq matching \cup ambiguous))
  BY <1>1 DEF SkippedInv, Excluded
<1>2. Running' = Running
  BY <1>1 DEF Running
<1>3. CASE AppendRead(e)
  <2>1. spc = "append" /\ spc' = "store" /\ UNCHANGED <<new, published>>
    BY <1>3 DEF AppendRead, dataVars
  <2>2. slice'.view = containers /\ slice'.dirty = FALSE
    BY <1>3 DEF AppendRead, StartTyped, StartTypeOK, Slice
  <2>3. \A d : StillToCome(d)' <=> StillToCome(d)
    BY <1>1, <2>1 DEF StillToCome
  <2>4. QuietInv' /\ SliceInv' /\ UntouchedInv' /\ NewInv'
    BY <1>1, <2>1, <2>2 DEF StartInv, QuietInv, SliceInv, UntouchedInv, NewInv
  <2>5. LoopInv'
    BY <1>1, <1>2, <2>1, <2>3 DEF StartInv, LoopInv
  <2>6. SkippedInv'
    BY <1>s, <2>1 DEF StartInv, SkippedInv
  <2> QED
    BY <2>4, <2>5, <2>6 DEF StartInv
<1>4. CASE StartupUpdateNode(e)
  <2>1. spc = "update" /\ spc' = "loop" /\ new' = {} /\ published' = containers
    BY <1>4 DEF StartupUpdateNode
  <2>2. \A d : StillToCome(d)' <=> StillToCome(d)
    BY <1>1, <2>1 DEF StillToCome
  <2>3. QuietInv' /\ SliceInv' /\ UntouchedInv' /\ NewInv'
    BY <1>1, <2>1 DEF StartInv, QuietInv, SliceInv, UntouchedInv, NewInv
  <2>4. LoopInv'
    BY <1>1, <1>2, <2>1, <2>2 DEF StartInv, LoopInv
  <2>5. SkippedInv'
    BY <1>s, <2>1 DEF StartInv, SkippedInv
  <2> QED
    BY <2>3, <2>4, <2>5 DEF StartInv
<1> QED
  BY <1>3, <1>4

\* Without a race the new entry is appended to the registry as it is.
LEMMA StoreStart ==
  ASSUME StartTyped, StartInv, NEW e \in new, AppendStore(e)
  PROVE  StartInv'
<1>1. /\ spc = "store" /\ spc' = "update" /\ containers' \in Outcomes(e)
      /\ UNCHANGED <<status, pid, matching, ambiguous, stream, waiting, inside, monitor, published,
                     faulted, todo, skipped, new, touched, raced>>
  BY DEF AppendStore, mainKeeps, otherVars, lifeVars, handlerVars
<1>2. Running' = Running
  BY <1>1 DEF Running
<1>3. /\ e \in Entry /\ containers \in Seq(Entry) /\ Len(containers) \in Nat
  BY DEF StartTyped, StateTypeOK, StartTypeOK
<1>4. /\ \A f \in new : f = e
      /\ e = NewEntry(e.id, e.pid) /\ e.pid # 0 /\ e.id \notin todo \cup skipped
      /\ e.id \notin touched => e.pid = pid[e.id]
  BY <1>1 DEF StartInv, NewInv
<1>5. QuietInv' /\ SliceInv' /\ UntouchedInv' /\ NewInv' /\ SkippedInv'
  BY <1>1 DEF StartInv, QuietInv, SliceInv, UntouchedInv, NewInv, SkippedInv, Excluded
<1>6. ASSUME ~raced  PROVE containers' = Append(containers, e)
  <2>1. slice.view = containers /\ ~slice.dirty
    BY <1>1, <1>6 DEF StartInv, SliceInv
  <2>2. ~(Len(containers) > Len(slice.view))
    BY <1>3, <2>1
  <2> QED
    BY <1>1, <2>1, <2>2 DEF Outcomes
<1>7. /\ StillToCome(e.id) /\ ~StillToCome(e.id)'
      /\ \A d : d # e.id => (StillToCome(d)' <=> StillToCome(d))
  BY <1>1, <1>4 DEF StillToCome
<1>8. LoopInv'
  <2>a. ASSUME NEW d \in Container \ touched, StillToCome(d)'  PROVE d \notin faulted
    BY <1>1, <1>7, <2>a DEF StartInv, LoopInv
  <2> SUFFICES ASSUME ~raced, NEW d \in Container \ touched
               PROVE  IF d \in Running \ (skipped \cup faulted) /\ ~StillToCome(d)'
                      THEN HoldsOnce(containers', NewEntry(d, pid[d]))
                      ELSE d \notin Ids(containers')
    BY <1>1, <1>2, <2>a DEF LoopInv
  <2>1. IF d \in Running \ (skipped \cup faulted) /\ ~StillToCome(d)
        THEN HoldsOnce(containers, NewEntry(d, pid[d]))
        ELSE d \notin Ids(containers)
    BY <1>1 DEF StartInv, LoopInv
  <2>2. CASE d = e.id
    <3>1. d \notin Ids(containers)
      BY <1>7, <2>1, <2>2
    <3>2. d \in Running \ (skipped \cup faulted) /\ e = NewEntry(d, pid[d])
      BY <1>1, <1>4, <1>7, <2>2 DEF StartInv, UntouchedInv, LoopInv, Running
    <3>3. HoldsOnce(containers', e)
      BY <1>3, <1>6, <2>2, <3>1, AppendedOthers
    <3> QED
      BY <1>7, <2>2, <3>2, <3>3
  <2>3. CASE d # e.id
    <3>1. OthersKept(containers, containers', d)
      BY <1>3, <1>6, <2>3, AppendedOthers
    <3>2. NewEntry(d, pid[d]) \in Entry /\ NewEntry(d, pid[d]).id = d
      BY DEF StartTyped, StateTypeOK, NewEntry, Entry
    <3> QED
      BY <1>7, <2>1, <2>3, <3>1, <3>2 DEF OthersKept
  <2> QED
    BY <2>2, <2>3
<1> QED
  BY <1>5, <1>8 DEF StartInv

LEMMA StepStart == StartTyped /\ StartInv /\ [StartNext]_allVars => StartInv'
<1> SUFFICES ASSUME StartTyped, StartInv, [StartNext]_allVars  PROVE StartInv'
  OBVIOUS
<1>1. CASE Beside
  BY <1>1, BesideStart
<1>2. CASE Starting
  BY <1>2, StartingFrame, BeforeLoop, SkipStart, NextContainerStart, InterfacesStart, ReadAndUpdateStart,
     StoreStart
<1>3. CASE MonitorOpens
  <2>1. /\ monitor = "opening"
        /\ UNCHANGED <<status, pid, matching, ambiguous, stream, waiting, inside, containers,
                       published, faulted, startVars>>
    BY <1>3 DEF MonitorOpens, dockerVars, handlerVars, dataVars
  <2>2. spc \notin {"info", "list", "exit"}
    BY <2>1 DEF StartInv, QuietInv
  <2> QED
    BY <2>1, <2>2 DEF startVars, StartInv, QuietInv, UntouchedInv, NewInv, SliceInv, LoopInv,
         StillToCome, Running, SkippedInv, Excluded
<1>4. CASE UNCHANGED allVars
  BY <1>4 DEF allVars, vars, startVars, dockerVars, handlerVars, dataVars, StartInv, QuietInv,
       UntouchedInv, NewInv, SliceInv, LoopInv, StillToCome, Running, SkippedInv, Excluded
<1> QED
  BY <1>1, <1>2, <1>3, <1>4, StartNextCases

\* The invariant that the next theorem rests on: it says of every step of the
\* start where main is with each container.
THEOREM StartInvariant == StartSpec => []StartInv
<1> QED
  BY InitStartTyped, StepStartTyped, InitStart, StepStart, PTL DEF StartSpec

\* A start during which no goroutine has changed the registry in the middle of
\* an append leaves a registry with one entry for each container that should have
\* one: for any number of containers, events and retries.
THEOREM StartCorrect == StartSpec => []UntouchedAreFollowed
<1>1. StartInv => UntouchedAreFollowed
  <2> SUFFICES ASSUME StartInv, spc = "done", ~raced
               PROVE  /\ touched = {} => published = containers
                      /\ \A c \in Container \ (touched \cup faulted) :
                           IF c \in Running \ skipped
                           THEN HoldsOnce(containers, NewEntry(c, pid[c]))
                           ELSE c \notin Ids(containers)
    BY DEF UntouchedAreFollowed, NewEntry
  <2>1. \A c : ~StillToCome(c)
    BY DEF StartInv, NewInv, StillToCome
  <2> QED
    BY <2>1 DEF StartInv, LoopInv
<1> QED
  BY <1>1, StartInvariant, PTL
-----------------------------------------------------------------------------
(* The state that is handed over *)

\* What holds of the lock and the PIDs in DockerCollector holds from the start on:
\* main does not take the lock, and the rest is as it is there.
LEMMA StepOwn == StartTyped /\ OwnInv /\ [StartNext]_allVars => OwnInv'
<1> SUFFICES ASSUME StartTyped, OwnInv, [StartNext]_allVars  PROVE OwnInv'
  OBVIOUS
<1>1. CASE Beside
  <2>1. LockInv' /\ PidInv'
    BY <1>1, BesideCases, LockStep, PidStep DEF StartTyped, OwnInv
  <2>2. mpc' = mpc
    BY <1>1, BesideCases, DockerFrame, HandlerFrame
       DEF StreamFails, ListenForEvents, HandlerLock, HandlerUnlock, mainVars
  <2>3. CalmInv'
    <3>1. CASE Docker
      <4>1. PICK c \in Container, s \in EventStatus :
              \/ DockerCreate(c) \/ DockerStart(c) \/ DockerDie(c) \/ DockerDestroy(c)
              \/ DockerStop(c) \/ DockerStopped(c) \/ DockerRename(c)
        BY <3>1, DockerCases
      <4>2. /\ status \in [Container -> {"absent", "created", "running", "exited", "removed"}]
            /\ calm \in SUBSET Container /\ CalmInv
        BY DEF StartTyped, StateTypeOK, OwnInv
      <4>3. CASE DockerStart(c)
        <5>1. /\ status' = [status EXCEPT ![c] = "running"] /\ stopping' = stopping
              /\ calm' \subseteq calm /\ (c \in stopping => c \notin calm')
          BY <4>3 DEF DockerStart
        <5> QED
          BY <4>2, <5>1 DEF CalmInv
      <4>4. CASE ~DockerStart(c)
        BY <4>1, <4>2, <4>4 DEF CalmInv, DockerCreate, DockerDie, DockerStop, DockerStopped,
                                DockerDestroy, DockerRename, Exit, lifeVars
      <4> QED
        BY <4>3, <4>4
    <3>2. CASE ~Docker
      <4>1. UNCHANGED <<status, stopping, calm>>
        BY <1>1, <3>2, BesideCases, HandlerFrame
           DEF StreamFails, ListenForEvents, HandlerLock, HandlerUnlock, dockerVars
      <4> QED
        BY <4>1 DEF OwnInv, CalmInv
    <3> QED
      BY <3>1, <3>2
  <2> QED
    BY <2>1, <2>2, <2>3 DEF OwnInv
<1>2. CASE ~Beside
  <2>1. UNCHANGED <<status, pid, lastPid, stopping, calm, inside, hpc, hpid, mpc,
                    containersMutex>>
    BY <1>2, StartNextCases, StartingFrame
       DEF MonitorOpens, allVars, vars, dockerVars, handlerVars, mainVars
  <2> QED
    BY <2>1 DEF OwnInv, LockInv, PidInv, CalmInv
<1> QED
  BY <1>1, <1>2

LEMMA InitOwn == StartInit => OwnInv
<1> SUFFICES ASSUME StartInit  PROVE OwnInv
  OBVIOUS
<1>1. Cardinality(Container) \in Nat
  BY ConstantsAssumption, FS_CardinalityType
<1>2. PidInv
  BY <1>1 DEF StartInit, PidInv, Running
<1> QED
  BY <1>2 DEF StartInit, OwnInv, LockInv, CalmInv

\* In a quiet start no event has been there, so that nothing is in flight and the
\* registry is what the loop has made of it.
LEMMA QuietState ==
  ASSUME StartTyped, StartInv, OwnInv, spc = "done", touched = {}
  PROVE  /\ stream = {} /\ waiting = {} /\ inside = {} /\ hpc = "none"
         /\ published = containers
         /\ \A c \in Container :
              IF c \in Running \ (skipped \cup faulted)
              THEN HoldsOnce(containers, NewEntry(c, pid[c]))
              ELSE c \notin Ids(containers)
<1>1. stream = {} /\ waiting = {} /\ inside = {}
  BY DEF StartInv, UntouchedInv
<1>2. hpc = "none"
  BY <1>1 DEF OwnInv, LockInv
<1>3. ~raced /\ published = containers
  BY DEF StartInv, SliceInv, LoopInv
<1>4. \A c : ~StillToCome(c)
  BY DEF StartInv, NewInv, StillToCome
<1> QED
  BY <1>1, <1>2, <1>3, <1>4 DEF StartInv, LoopInv

\* A quiet start ends in a state of which all that the proofs of DockerCollector
\* rest on holds - whatever the daemon did before the containers were listed, and
\* whatever failed.  By CoreInductive it holds from there on.
THEOREM StartHandsOver == StartSpec => []HandsOver
<1>1. StartTyped /\ StartInv /\ OwnInv => HandsOver
  <2> SUFFICES ASSUME StartTyped, StartInv, OwnInv,
                      spc = "done", touched = {}, monitor \in {"on", "dead"}
               PROVE  TypeOK /\ IInv
    BY DEF HandsOver
  <2>1. /\ stream = {} /\ waiting = {} /\ inside = {} /\ hpc = "none"
        /\ published = containers
    BY QuietState
  <2>2. ASSUME NEW i \in DOMAIN containers
        PROVE  LET c == containers[i].id
               IN  /\ c \in Running \ (skipped \cup faulted)
                   /\ HoldsOnce(containers, NewEntry(c, pid[c]))
    <3>1. containers[i].id \in Container /\ containers[i].id \in Ids(containers)
      <4>1. containers \in Seq(Entry) /\ DOMAIN containers = 1..Len(containers)
        BY DEF StartTyped, StateTypeOK
      <4>2. containers[i] \in Entry
        BY <4>1, ElementOfSeq
      <4> QED
        BY <4>2 DEF Entry, Ids
    <3> QED
      BY <3>1, QuietState
  <2>3. ASSUME NEW c \in Running \ (skipped \cup faulted)
        PROVE  /\ c \in Ids(containers)
               /\ \A i \in DOMAIN containers :
                    containers[i].id = c => containers[i] = NewEntry(c, pid[c])
    <3>1. HoldsOnce(containers, NewEntry(c, pid[c])) /\ NewEntry(c, pid[c]).id = c
      BY QuietState DEF Running, NewEntry
    <3> QED
      BY <3>1 DEF HoldsOnce, Ids
  <2>4. UniqueEntries
    <3> SUFFICES ASSUME NEW i \in DOMAIN containers, NEW j \in DOMAIN containers,
                        containers[i].id = containers[j].id
                 PROVE  i = j
      BY DEF UniqueEntries, NoDuplicates
    <3>1. HoldsOnce(containers, NewEntry(containers[i].id, pid[containers[i].id]))
      BY <2>2
    <3>2. NewEntry(containers[i].id, pid[containers[i].id]).id = containers[i].id
      BY DEF NewEntry
    <3> QED
      BY <3>1, <3>2 DEF HoldsOnce
  <2>a. Excluded \subseteq skipped /\ skipped \subseteq matching \cup ambiguous
    BY DEF StartInv, SkippedInv
  <2>5. FilterHonoured
    BY <2>2, <2>a DEF FilterHonoured, Ids
  <2>6. \A c \in Ids(containers) : c \in Running
    BY <2>2 DEF Ids
  <2>7. NoGhost
    BY <2>6 DEF NoGhost, Running
  <2>8. FollowInv
    <3> SUFFICES ASSUME NEW c \in calm, c \in Container, status[c] = "running"
                 PROVE  Followed(c)
      BY DEF FollowInv, Followed, StartTyped, StateTypeOK
    <3>1. c \in Running /\ ~StartPending(c) /\ c \notin stopping
      BY <2>1 DEF Running, StartPending, OwnInv, CalmInv
    <3>2. c \in Included => c \notin skipped
      BY <2>a DEF Included
    <3> QED
      BY <2>1, <2>3, <3>1, <3>2 DEF Followed, NewEntry
  <2>9. BranchInv /\ SeqInv /\ RegistryInv /\ FilterInv /\ PublishInv
    BY <2>1, <2>4, <2>5 DEF BranchInv, SeqInv, RegistryInv, FilterInv, PublishInv
  <2>10. TypeOK
    BY TypesSplit DEF StartTyped
  <2> QED
    BY <2>7, <2>8, <2>9, <2>10 DEF IInv, OwnInv
<1>2. StartSpec => [](StartTyped /\ OwnInv)
  BY InitStartTyped, StepStartTyped, InitOwn, StepOwn, PTL DEF StartSpec
<1> QED
  BY <1>1, <1>2, StartInvariant, PTL
=============================================================================
