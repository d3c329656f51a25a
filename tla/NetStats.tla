------------------------------ MODULE NetStats -------------------------------
(***************************************************************************)
(* The network counters of one registered container: how they are found    *)
(* (UpdateNetInterfaces, AddNewInterfaces), read (readContainers), turned  *)
(* into differences (UpdateLastValue) and shipped (UpdateNode).            *)
(*                                                                         *)
(* All the counters of an interface are treated alike; one stands for      *)
(* them.  main reads the interfaces of a container in the order of their   *)
(* slice; nothing depends on that order, and the model reads them in any.  *)
(* The order that does matter is that of the names in a listing, which is  *)
(* why interfaces are numbers here.                                        *)
(*                                                                         *)
(* The kernel goes on counting between any two readings, interfaces come   *)
(* and go, and the process may end, after which neither ls nor cat work    *)
(* under its PID (an entry with PID 0 behaves the same).                   *)
(***************************************************************************)
EXTENDS Integers, FiniteSets

CONSTANTS
  Interface,   \* the network interfaces, numbered in the order in which ls lists them
  MaxCount,    \* bound: no counter goes beyond
  MaxChanges,  \* bound: interfaces that are attached or detached
  MaxFaults    \* bound: calls and writes that fail for no reason of the model

ASSUME InterfaceAssumption ==
  /\ Interface \subseteq Nat
  /\ IsFiniteSet(Interface)
  /\ MaxCount \in Nat /\ MaxChanges \in Nat /\ MaxFaults \in Nat

VARIABLES
  \* the kernel
  present,        \* the interfaces that the container has
  counter,        \* what each of them has counted
  alive,          \* the process runs, under the PID of the entry
  changes,        \* attachments and detachments so far
  \* the entry of the container
  interfaces,     \* NetworkInterfaces, as the set of their names
  active,         \* those with IsActive set
  valueRead, lastValueRead, currentValue,   \* the fields of NetworkStat
  \* the collector
  pc,             \* "idle" or, in readContainers, "reading"
  first,          \* the reading to come is the discarded one
  todo,           \* interfaces still to be read
  faults,         \* failures so far
  \* history, read by no action
  shipped, lost,  \* the sums of the values that were sent, and that were not
  base,           \* the discarded readings
  seen, seenAt,   \* the interfaces that the discarded reading really read, and
                  \* what they had counted at that moment
  disturbed,      \* interfaces that were detached once or could not be read
  unlisted        \* a listing failed although the process ran

kernelVars == <<present, counter, alive, changes>>
statVars   == <<valueRead, lastValueRead, currentValue>>
historyVars == <<shipped, lost, base, seen, seenAt, disturbed, unlisted>>
vars == <<kernelVars, interfaces, active, statVars, pc, first, todo, faults, historyVars>>
-----------------------------------------------------------------------------
(* The kernel *)

collectorFrame == <<interfaces, active, statVars, pc, first, todo, faults,
                    shipped, lost, base, seen, seenAt, unlisted>>

Traffic(n) ==
  /\ alive /\ n \in present
  /\ counter[n] < MaxCount
  /\ counter' = [counter EXCEPT ![n] = @ + 1]
  /\ UNCHANGED <<present, alive, changes, disturbed, collectorFrame>>

Attach(n) ==
  /\ alive /\ n \notin present
  /\ changes < MaxChanges
  /\ changes' = changes + 1
  /\ present' = present \cup {n}
  /\ counter' = [counter EXCEPT ![n] = 0]
  /\ UNCHANGED <<alive, disturbed, collectorFrame>>

Detach(n) ==
  /\ alive /\ n \in present
  /\ changes < MaxChanges
  /\ changes' = changes + 1
  /\ present' = present \ {n}
  /\ disturbed' = disturbed \cup {n}
  /\ UNCHANGED <<counter, alive, collectorFrame>>

\* The process of the container ends; all of its interfaces go with it.
Exit ==
  /\ alive
  /\ alive' = FALSE
  /\ disturbed' = Interface
  /\ UNCHANGED <<present, counter, changes, collectorFrame>>

Kernel == Exit \/ \E n \in Interface : Traffic(n) \/ Attach(n) \/ Detach(n)
-----------------------------------------------------------------------------
(* Reading *)

\* A slice that has grown by append from nothing is full at these lengths.
FullLengths == {2 ^ k : k \in 0..Cardinality(Interface)}

\* AddNewInterfaces appends the names that are new, in the order of the listing.
\* From the first append to a full slice on it works on a copy of the array;
\* readContainers goes over the slice as it was before, and does not see what is
\* switched on from there.
Unseen(listed) ==
  LET new == listed \ interfaces IN
    {n \in Interface :
       \E m \in new :
         /\ m < n
         /\ Cardinality(interfaces) + Cardinality({k \in new : k < m}) \in FullLengths}

\* Faulty variant of SwitchedOn: AddNewInterfaces switches on the new interfaces
\* only, and leaves the known ones switched off.
SwitchedOnNew(listed) == listed \ interfaces

SwitchedOn(listed) == listed

\* The first step of readContainers for the entry, if it is active.  A listing
\* that fails leaves the interfaces as they were.
UpdateNetInterfaces ==
  /\ pc = "idle"
  /\ \/ /\ alive
        /\ interfaces' = interfaces \cup present
        /\ active' = SwitchedOn(present)
        /\ todo' = (active' \cap interfaces) \ Unseen(present)
        /\ UNCHANGED <<faults, unlisted>>
     \/ /\ ~alive
        /\ todo' = active
        /\ UNCHANGED <<interfaces, active, faults, unlisted>>
     \/ /\ alive /\ faults < MaxFaults
        /\ faults' = faults + 1
        /\ unlisted' = TRUE
        /\ todo' = active
        /\ UNCHANGED <<interfaces, active>>
  /\ pc' = "reading"
  /\ UNCHANGED <<kernelVars, statVars, first, shipped, lost, base, seen, seenAt, disturbed>>

\* Faulty variant of Reading: the difference is taken at once.
ReadingLessLast(n) == counter[n] - lastValueRead[n]

Reading(n) == counter[n]

\* One counter.  A reading that fails counts as 0.
ReadStat(n) ==
  /\ pc = "reading" /\ n \in todo
  /\ todo' = todo \ {n}
  /\ \/ /\ alive /\ n \in present
        /\ valueRead' = [valueRead EXCEPT ![n] = Reading(n)]
        /\ seen' = IF first THEN seen \cup {n} ELSE seen
        /\ seenAt' = IF first THEN [seenAt EXCEPT ![n] = counter[n]] ELSE seenAt
        /\ UNCHANGED <<faults, disturbed>>
     \/ /\ ~alive \/ n \notin present
        /\ valueRead' = [valueRead EXCEPT ![n] = 0]
        /\ UNCHANGED <<faults, disturbed, seen, seenAt>>
     \/ /\ alive /\ n \in present /\ faults < MaxFaults
        /\ faults' = faults + 1
        /\ disturbed' = disturbed \cup {n}
        /\ valueRead' = [valueRead EXCEPT ![n] = 0]
        /\ UNCHANGED <<seen, seenAt>>
  /\ UNCHANGED <<kernelVars, interfaces, active, lastValueRead, currentValue,
                 pc, first, shipped, lost, base, unlisted>>
-----------------------------------------------------------------------------
(* Shipping *)

\* Faulty variant of UpdateLastValue: the difference is taken after
\* LastValueRead was replaced.
UpdateLastValueFirst ==
  /\ lastValueRead' = valueRead
  /\ currentValue' = [n \in Interface |-> valueRead[n] - lastValueRead'[n]]

\* Both are assigned at once.
UpdateLastValue ==
  /\ currentValue' = [n \in Interface |-> valueRead[n] - lastValueRead[n]]
  /\ lastValueRead' = valueRead

\* Faulty variant of Discarded: the reading is not taken as the last one, and the
\* first difference that is sent goes back to the beginning.
NotDiscarded == UNCHANGED <<lastValueRead, currentValue>>

Discarded == UpdateLastValue

\* "Discard first reading": nothing is sent.
DiscardFirst ==
  /\ pc = "reading" /\ todo = {}
  /\ first
  /\ Discarded
  /\ base' = valueRead
  /\ first' = FALSE
  /\ pc' = "idle"
  /\ UNCHANGED <<kernelVars, interfaces, active, valueRead, todo, faults, shipped,
                 lost, seen, seenAt, disturbed, unlisted>>

\* UpdateNode, after a reading or by the goroutine of an event.  A value whose
\* write fails is not sent again.
UpdateNode ==
  /\ pc = "idle" \/ (pc = "reading" /\ todo = {} /\ ~first)
  /\ UpdateLastValue
  /\ \E unsent \in SUBSET interfaces :
       /\ faults + Cardinality(unsent) <= MaxFaults
       /\ faults' = faults + Cardinality(unsent)
       /\ shipped' = [n \in Interface |->
                        IF n \in unsent THEN shipped[n] ELSE shipped[n] + currentValue'[n]]
       /\ lost' = [n \in Interface |->
                     IF n \in unsent THEN lost[n] + currentValue'[n] ELSE lost[n]]
  /\ pc' = "idle"
  /\ UNCHANGED <<kernelVars, interfaces, active, valueRead, first, todo, base,
                 seen, seenAt, disturbed, unlisted>>

Read == UpdateNetInterfaces \/ \E n \in Interface : ReadStat(n)
Ship == DiscardFirst \/ UpdateNode

\* Node.Create has listed the interfaces and left IsActive at its zero value.
\* The reading to come is the discarded one if that was at start-up.
Init ==
  /\ present \in SUBSET Interface
  /\ counter \in [Interface -> 0..MaxCount]
  /\ \A n \in Interface \ present : counter[n] = 0
  /\ alive = TRUE /\ changes = 0 /\ faults = 0
  /\ interfaces = present
  /\ active = {}
  /\ valueRead = [n \in Interface |-> 0]
  /\ lastValueRead = valueRead /\ currentValue = valueRead
  /\ shipped = valueRead /\ lost = valueRead /\ base = valueRead
  /\ seen = {} /\ seenAt = valueRead
  /\ pc = "idle"
  /\ first \in BOOLEAN
  /\ todo = {}
  /\ disturbed = {}
  /\ unlisted = FALSE

Next == Kernel \/ Read \/ Ship

\* main reads again and again, and what it has begun it brings to an end.
Fairness ==
  /\ WF_vars(Read)
  /\ WF_vars(pc = "reading" /\ Ship)

Spec == Init /\ [][Next]_vars /\ Fairness
-----------------------------------------------------------------------------
(* Properties *)

TypeOK ==
  /\ present \in SUBSET Interface
  /\ counter \in [Interface -> Nat]
  /\ alive \in BOOLEAN /\ first \in BOOLEAN /\ unlisted \in BOOLEAN
  /\ changes \in Nat /\ faults \in Nat
  /\ interfaces \in SUBSET Interface
  /\ active \in SUBSET interfaces
  /\ valueRead \in [Interface -> Nat]
  /\ lastValueRead \in [Interface -> Nat]
  /\ currentValue \in [Interface -> Int]
  /\ pc \in {"idle", "reading"}
  /\ todo \in SUBSET active
  /\ shipped \in [Interface -> Int] /\ lost \in [Interface -> Int]
  /\ base \in [Interface -> Nat]
  /\ seen \in SUBSET Interface /\ seenAt \in [Interface -> Nat]
  /\ disturbed \in SUBSET Interface

\* Whatever readings fail, the values that were sent, and those that were lost,
\* add up to the last reading less the discarded one: nothing is counted twice,
\* and a wrong reading is made good by the next one.
Conservation ==
  \A n \in Interface : shipped[n] + lost[n] = lastValueRead[n] - base[n]

\* For an interface that was always there and always readable, no value is
\* negative, and if the discarded reading read it, nothing is sent that the kernel
\* had counted before.  The others may send all that the kernel has counted, and
\* not more: those of a container registered by an event and those attached later,
\* which is meant, but also those that the discarded reading missed, because its
\* listing failed or because a new interface hid them (Unseen); their first value
\* is then all the traffic since the container started.
OnlyRealTraffic ==
  \A n \in Interface \ disturbed :
    /\ currentValue[n] >= 0
    /\ shipped[n] >= 0 /\ lost[n] >= 0
    /\ shipped[n] + lost[n] <= counter[n] - (IF n \in seen THEN seenAt[n] ELSE 0)

\* What such an interface has counted is read and accounted for in the end, also
\* if interfaces found later on hide it from a reading (the copy of the slice in
\* readContainers), unless a listing fails.
EventuallyAccounted ==
  \A n \in Interface : \A k \in 1..MaxCount :
    (n \in present /\ n \notin disturbed /\ counter[n] = k)
      ~> (lastValueRead[n] >= k \/ n \in disturbed \/ unlisted)
-----------------------------------------------------------------------------
(* The inductive invariant *)

\* The readings of an undisturbed interface only grow, and lag behind the kernel.
\* One that was never there has counted nothing.  Before the discarded reading
\* nothing has been accounted for.
ReadingsInv ==
  /\ ~alive => disturbed = Interface
  /\ \A n \in Interface \ disturbed :
       /\ lastValueRead[n] <= valueRead[n] /\ valueRead[n] <= counter[n]
       /\ n \notin present => counter[n] = 0
  /\ first => \A n \in Interface :
       /\ lastValueRead[n] = 0 /\ base[n] = 0
       /\ pc = "idle" => valueRead[n] = 0

\* What the discarded reading read it read once, and it is what was discarded.
SeenInv ==
  \A n \in seen :
    IF first THEN pc = "reading" /\ n \notin todo /\ valueRead[n] = seenAt[n]
             ELSE base[n] = seenAt[n]

IInv == Conservation /\ OnlyRealTraffic /\ ReadingsInv /\ SeenInv
=============================================================================
