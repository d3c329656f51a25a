---------------------------- MODULE NetStatsProofs ----------------------------
(***************************************************************************)
(* Proofs about NetStats for every set of interfaces and every bound.      *)
(***************************************************************************)
EXTENDS NetStats, FiniteSetTheorems, TLAPS

\* What the steps of the kernel leave alone.
LEMMA KernelFrame ==
  ASSUME Kernel
  PROVE  UNCHANGED <<interfaces, active, valueRead, lastValueRead, currentValue, pc,
                     first, todo, faults, shipped, lost, base, seen, seenAt, unlisted>>
BY DEF Kernel, Exit, Traffic, Attach, Detach, collectorFrame, statVars

\* What the reading steps leave alone.
LEMMA ReadFrame ==
  ASSUME Read
  PROVE  UNCHANGED <<present, counter, alive, changes, lastValueRead, currentValue,
                     first, shipped, lost, base>>
BY DEF Read, UpdateNetInterfaces, SwitchedOn, ReadStat, Reading, kernelVars, statVars

\* The sets of unsent values that UpdateNode chooses from are finite.
LEMMA UnsentIsCounted ==
  ASSUME NEW S \in SUBSET Interface
  PROVE  Cardinality(S) \in Nat
BY InterfaceAssumption, FS_Subset, FS_CardinalityType

\* The variables keep their types: readings are never negative, while the
\* differences may be.
THEOREM NetTypeCorrect == Spec => []TypeOK
<1>1. Init => TypeOK
  <2> SUFFICES ASSUME Init  PROVE TypeOK
    OBVIOUS
  <2>1. counter \in [Interface -> Nat]
    <3>1. 0..MaxCount \subseteq Nat
      BY InterfaceAssumption
    <3> QED
      BY <3>1 DEF Init
  <2>2. /\ valueRead \in [Interface -> Nat] /\ lastValueRead \in [Interface -> Nat]
        /\ base \in [Interface -> Nat] /\ seenAt \in [Interface -> Nat]
        /\ currentValue \in [Interface -> Int]
        /\ shipped \in [Interface -> Int] /\ lost \in [Interface -> Int]
    BY DEF Init
  <2> QED
    BY <2>1, <2>2 DEF Init, TypeOK
<1>2. TypeOK /\ [Next]_vars => TypeOK'
  <2> SUFFICES ASSUME TypeOK, [Next]_vars  PROVE TypeOK'
    OBVIOUS
  <2>1. CASE Kernel
    <3>1. /\ present' \in SUBSET Interface /\ alive' \in BOOLEAN /\ changes' \in Nat
          /\ disturbed' \in SUBSET Interface
      <4>1. CASE Exit
        BY <4>1 DEF Exit, TypeOK
      <4>2. ASSUME NEW n \in Interface, Traffic(n) \/ Attach(n) \/ Detach(n)
            PROVE  /\ present' \in SUBSET Interface /\ alive' = alive
                   /\ changes' \in Nat /\ disturbed' \in SUBSET Interface
        BY <4>2 DEF Traffic, Attach, Detach, TypeOK
      <4> QED
        BY <2>1, <4>1, <4>2 DEF Kernel, TypeOK
    <3>2. counter' \in [Interface -> Nat]
      BY <2>1 DEF Kernel, Exit, Traffic, Attach, Detach, TypeOK
    <3> QED
      BY <2>1, <3>1, <3>2, KernelFrame DEF TypeOK
  <2>2. CASE UpdateNetInterfaces
    <3>1. UNCHANGED <<present, counter, alive, changes, valueRead, lastValueRead,
                      currentValue, first, shipped, lost, base, seen, seenAt,
                      disturbed>>
      BY <2>2 DEF UpdateNetInterfaces, SwitchedOn, kernelVars, statVars
    <3>2. interfaces' \in SUBSET Interface /\ active' \in SUBSET interfaces'
      BY <2>2 DEF UpdateNetInterfaces, SwitchedOn, TypeOK
    <3>3. todo' \in SUBSET active'
      <4>1. \/ todo' = (active' \cap interfaces) \ Unseen(present)
            \/ todo' = active /\ active' = active
        BY <2>2 DEF UpdateNetInterfaces, SwitchedOn
      <4> QED
        BY <4>1
    <3>4. faults' \in Nat
      <4>1. faults' = faults \/ faults' = faults + 1
        BY <2>2 DEF UpdateNetInterfaces, SwitchedOn
      <4> QED
        BY <4>1 DEF TypeOK
    <3>5. unlisted' \in BOOLEAN /\ pc' = "reading"
      <4>1. pc' = "reading" /\ (unlisted' = unlisted \/ unlisted' = TRUE)
        BY <2>2 DEF UpdateNetInterfaces, SwitchedOn
      <4> QED
        BY <4>1 DEF TypeOK
    <3> QED
      BY <3>1, <3>2, <3>3, <3>4, <3>5 DEF TypeOK
  <2>3. ASSUME NEW n \in Interface, ReadStat(n)  PROVE TypeOK'
    <3>1. UNCHANGED <<present, counter, alive, changes, interfaces, active,
                      lastValueRead, currentValue, pc, first, shipped, lost, base,
                      unlisted>>
      BY <2>3 DEF ReadStat, Reading, kernelVars
    <3>2. valueRead' \in [Interface -> Nat]
      BY <2>3 DEF ReadStat, Reading, TypeOK
    <3>3. todo' \in SUBSET active /\ faults' \in Nat /\ disturbed' \in SUBSET Interface
      BY <2>3 DEF ReadStat, Reading, TypeOK
    <3>4. seen' \in SUBSET Interface /\ seenAt' \in [Interface -> Nat]
      BY <2>3 DEF ReadStat, Reading, TypeOK
    <3> QED
      BY <3>1, <3>2, <3>3, <3>4 DEF TypeOK
  <2>4. ASSUME UpdateLastValue
        PROVE  lastValueRead' \in [Interface -> Nat] /\ currentValue' \in [Interface -> Int]
    BY <2>4 DEF UpdateLastValue, TypeOK
  <2>5. CASE DiscardFirst
    <3>1. UNCHANGED <<present, counter, alive, changes, interfaces, active, valueRead,
                      todo, faults, shipped, lost, seen, seenAt, disturbed, unlisted>>
          /\ base' = valueRead /\ first' = FALSE /\ pc' = "idle" /\ UpdateLastValue
      BY <2>5 DEF DiscardFirst, Discarded, kernelVars
    <3> QED
      BY <2>4, <3>1 DEF TypeOK
  <2>6. CASE UpdateNode
    <3>1. UNCHANGED <<present, counter, alive, changes, interfaces, active, valueRead,
                      first, todo, base, seen, seenAt, disturbed, unlisted>>
          /\ pc' = "idle" /\ UpdateLastValue
      BY <2>6 DEF UpdateNode, kernelVars
    <3>2. PICK unsent \in SUBSET interfaces :
            /\ faults' = faults + Cardinality(unsent)
            /\ shipped' = [n \in Interface |->
                 IF n \in unsent THEN shipped[n] ELSE shipped[n] + currentValue'[n]]
            /\ lost' = [n \in Interface |->
                 IF n \in unsent THEN lost[n] + currentValue'[n] ELSE lost[n]]
      BY <2>6 DEF UpdateNode
    <3>3. faults' \in Nat
      <4>1. Cardinality(unsent) \in Nat
        BY UnsentIsCounted DEF TypeOK
      <4> QED
        BY <3>2, <4>1 DEF TypeOK
    <3>4. shipped' \in [Interface -> Int] /\ lost' \in [Interface -> Int]
      BY <2>4, <3>1, <3>2 DEF TypeOK
    <3> QED
      BY <2>4, <3>1, <3>3, <3>4 DEF TypeOK
  <2>7. CASE UNCHANGED vars
    BY <2>7 DEF vars, kernelVars, statVars, historyVars, TypeOK
  <2> QED
    BY <2>1, <2>2, <2>3, <2>5, <2>6, <2>7 DEF Next, Read, Ship
<1> QED
  BY <1>1, <1>2, PTL DEF Spec

\* UpdateNode sends or loses each difference once.
LEMMA UpdateNodeSums ==
  ASSUME TypeOK, UpdateNode, NEW n \in Interface
  PROVE  /\ lastValueRead'[n] = valueRead[n]
         /\ currentValue'[n] = valueRead[n] - lastValueRead[n]
         /\ \/ shipped'[n] = shipped[n] + currentValue'[n] /\ lost'[n] = lost[n]
            \/ shipped'[n] = shipped[n] /\ lost'[n] = lost[n] + currentValue'[n]
<1>1. /\ lastValueRead'[n] = valueRead[n]
      /\ currentValue'[n] = valueRead[n] - lastValueRead[n]
  BY DEF UpdateNode, UpdateLastValue
<1>2. PICK unsent \in SUBSET interfaces :
        /\ shipped' = [i \in Interface |->
             IF i \in unsent THEN shipped[i] ELSE shipped[i] + currentValue'[i]]
        /\ lost' = [i \in Interface |->
             IF i \in unsent THEN lost[i] + currentValue'[i] ELSE lost[i]]
  BY DEF UpdateNode
<1>3. CASE n \in unsent
  BY <1>1, <1>2, <1>3
<1>4. CASE n \notin unsent
  BY <1>1, <1>2, <1>4
<1> QED
  BY <1>3, <1>4

\* The readings of an undisturbed interface grow and lag behind the kernel, and
\* before the discarded reading nothing is accounted for.
THEOREM ReadingsCorrect == Spec => []ReadingsInv
<1>1. Init => ReadingsInv
  <2> SUFFICES ASSUME Init  PROVE ReadingsInv
    OBVIOUS
  <2>1. \A n \in Interface :
          /\ valueRead[n] = 0 /\ lastValueRead[n] = 0 /\ base[n] = 0
          /\ counter[n] \in Nat
    BY InterfaceAssumption DEF Init
  <2>2. alive /\ \A n \in Interface : n \notin present => counter[n] = 0
    BY DEF Init
  <2> QED
    BY <2>1, <2>2 DEF ReadingsInv
<1>2. TypeOK /\ ReadingsInv /\ [Next]_vars => ReadingsInv'
  <2> SUFFICES ASSUME TypeOK, ReadingsInv, [Next]_vars  PROVE ReadingsInv'
    OBVIOUS
  <2> DEFINE Grows == \A n \in Interface \ disturbed :
                        /\ lastValueRead[n] <= valueRead[n] /\ valueRead[n] <= counter[n]
                        /\ n \notin present => counter[n] = 0
             Unaccounted == first => \A n \in Interface :
                              /\ lastValueRead[n] = 0 /\ base[n] = 0
                              /\ pc = "idle" => valueRead[n] = 0
  <2>0. Grows /\ Unaccounted /\ (~alive => disturbed = Interface)
    BY Zenon DEF ReadingsInv
  <2> SUFFICES Grows' /\ Unaccounted' /\ (~alive' => disturbed' = Interface)
    BY Zenon DEF ReadingsInv
  <2>1. CASE Exit
    BY <2>1, <2>0 DEF Exit, collectorFrame, statVars
  <2>2. ASSUME NEW m \in Interface, Traffic(m)
        PROVE  Grows' /\ Unaccounted' /\ (~alive' => disturbed' = Interface)
    <3>1. /\ UNCHANGED <<present, alive, disturbed, valueRead, lastValueRead, base, pc, first>>
          /\ counter' = [counter EXCEPT ![m] = counter[m] + 1] /\ m \in present
      BY <2>2 DEF Traffic, collectorFrame, statVars
    <3>2. \A n \in Interface : counter'[n] >= counter[n] /\ (n # m => counter'[n] = counter[n])
      BY <3>1 DEF TypeOK
    <3>3. Grows'
      BY <2>0, <3>1, <3>2 DEF TypeOK
    <3> QED
      BY <2>0, <3>1, <3>3
  <2>3. ASSUME NEW m \in Interface, Attach(m)
        PROVE  Grows' /\ Unaccounted' /\ (~alive' => disturbed' = Interface)
    <3>1. /\ UNCHANGED <<alive, disturbed, valueRead, lastValueRead, base, pc, first>>
          /\ counter' = [counter EXCEPT ![m] = 0]
          /\ m \notin present /\ present' = present \cup {m}
      BY <2>3 DEF Attach, collectorFrame, statVars
    <3>2. \A n \in Interface : n # m => counter'[n] = counter[n]
      BY <3>1 DEF TypeOK
    <3>3. m \notin disturbed => counter'[m] = counter[m]
      BY <2>0, <3>1 DEF TypeOK
    <3>4. Grows'
      BY <2>0, <3>1, <3>2, <3>3
    <3> QED
      BY <2>0, <3>1, <3>4
  <2>4. ASSUME NEW m \in Interface, Detach(m)
        PROVE  Grows' /\ Unaccounted' /\ (~alive' => disturbed' = Interface)
    <3>1. /\ UNCHANGED <<alive, counter, valueRead, lastValueRead, base, pc, first>>
          /\ present' = present \ {m} /\ disturbed' = disturbed \cup {m} /\ alive
      BY <2>4 DEF Detach, collectorFrame, statVars
    <3> QED
      BY <2>0, <3>1
  <2>5. CASE UpdateNetInterfaces
    <3>1. /\ UNCHANGED <<present, alive, counter, disturbed, valueRead, lastValueRead,
                         base, first>>
          /\ pc' # "idle"
      BY <2>5 DEF UpdateNetInterfaces, SwitchedOn, kernelVars, statVars
    <3> QED
      BY <2>0, <3>1
  <2>6. ASSUME NEW m \in Interface, ReadStat(m)
        PROVE  Grows' /\ Unaccounted' /\ (~alive' => disturbed' = Interface)
    <3>1. /\ UNCHANGED <<present, alive, counter, lastValueRead, base, first, pc>>
          /\ pc # "idle"
      BY <2>6 DEF ReadStat, Reading, kernelVars
    <3>2. /\ valueRead' \in {[valueRead EXCEPT ![m] = 0], [valueRead EXCEPT ![m] = counter[m]]}
          /\ disturbed \subseteq disturbed' /\ disturbed' \subseteq Interface
      BY <2>6 DEF ReadStat, Reading, TypeOK
    <3>3. \A n \in Interface : n # m => valueRead'[n] = valueRead[n]
      BY <3>2 DEF TypeOK
    <3>4. m \notin disturbed' => valueRead'[m] = counter[m]
      <4>1. CASE alive /\ m \in present
        BY <2>6, <4>1 DEF ReadStat, Reading, TypeOK
      <4>2. CASE ~alive \/ m \notin present
        <5>1. m \notin disturbed' => m \notin present /\ counter[m] = 0
          BY <2>0, <3>2, <4>2
        <5> QED
          BY <3>2, <5>1 DEF TypeOK
      <4> QED
        BY <4>1, <4>2
    <3>5. Grows'
      BY <2>0, <3>1, <3>2, <3>3, <3>4 DEF TypeOK
    <3> QED
      BY <2>0, <3>1, <3>2, <3>5
  <2>7. CASE DiscardFirst
    <3>1. /\ UNCHANGED <<present, alive, counter, disturbed, valueRead>>
          /\ lastValueRead' = valueRead /\ first' = FALSE
      BY <2>7 DEF DiscardFirst, Discarded, kernelVars, UpdateLastValue
    <3> QED
      BY <2>0, <3>1 DEF TypeOK
  <2>8. CASE UpdateNode
    <3>1. /\ UNCHANGED <<present, alive, counter, disturbed, valueRead, base, first>>
          /\ lastValueRead' = valueRead /\ (first => pc = "idle")
      BY <2>8 DEF UpdateNode, kernelVars, UpdateLastValue
    <3> QED
      BY <2>0, <3>1 DEF TypeOK
  <2>9. CASE UNCHANGED vars
    BY <2>9, <2>0 DEF vars, kernelVars, statVars, historyVars
  <2> QED
    BY <2>1, <2>2, <2>3, <2>4, <2>5, <2>6, <2>7, <2>8, <2>9 DEF Next, Kernel, Read, Ship
<1> QED
  BY <1>1, <1>2, NetTypeCorrect, PTL DEF Spec

\* What was sent and what was lost add up to the last reading less the discarded
\* one, whatever fails and however many interfaces there are.
THEOREM ConservationCorrect == Spec => []Conservation
<1>1. Init => Conservation
  BY DEF Init, Conservation
<1>2. TypeOK /\ ReadingsInv /\ Conservation /\ [Next]_vars => Conservation'
  <2> SUFFICES ASSUME TypeOK, ReadingsInv, Conservation, [Next]_vars, NEW n \in Interface
               PROVE  shipped'[n] + lost'[n] = lastValueRead'[n] - base'[n]
    BY DEF Conservation
  <2>0. /\ shipped[n] + lost[n] = lastValueRead[n] - base[n]
        /\ shipped[n] \in Int /\ lost[n] \in Int
        /\ lastValueRead[n] \in Int /\ base[n] \in Int /\ valueRead[n] \in Int
    BY DEF Conservation, TypeOK
  <2>1. CASE Kernel
    BY <2>0, <2>1, KernelFrame
  <2>2. CASE Read
    BY <2>0, <2>2, ReadFrame
  <2>3. CASE DiscardFirst
    <3>1. UNCHANGED <<shipped, lost>> /\ base'[n] = lastValueRead'[n]
          /\ lastValueRead'[n] = valueRead[n]
      BY <2>3 DEF DiscardFirst, Discarded, UpdateLastValue
    <3>2. lastValueRead[n] = 0 /\ base[n] = 0
      BY <2>3 DEF DiscardFirst, ReadingsInv
    <3> QED
      BY <2>0, <3>1, <3>2
  <2>4. CASE UpdateNode
    <3>1. base' = base
      BY <2>4 DEF UpdateNode
    <3> QED
      BY <2>0, <2>4, <3>1, UpdateNodeSums
  <2>5. CASE UNCHANGED vars
    BY <2>0, <2>5 DEF vars, statVars, historyVars
  <2> QED
    BY <2>1, <2>2, <2>3, <2>4, <2>5 DEF Next, Ship
<1> QED
  BY <1>1, <1>2, NetTypeCorrect, ReadingsCorrect, PTL DEF Spec

\* What the discarded reading read is the base of what is accounted for later.
THEOREM SeenCorrect == Spec => []SeenInv
<1>1. Init => SeenInv
  BY DEF Init, SeenInv
<1>2. TypeOK /\ SeenInv /\ [Next]_vars => SeenInv'
  <2> SUFFICES ASSUME TypeOK, SeenInv, [Next]_vars  PROVE SeenInv'
    OBVIOUS
  <2> DEFINE Read1(n) == pc = "reading" /\ n \notin todo /\ valueRead[n] = seenAt[n]
             Base(n) == base[n] = seenAt[n]
  <2>0. \A n \in seen : (first => Read1(n)) /\ (~first => Base(n))
    BY DEF SeenInv
  <2> SUFFICES ASSUME NEW n \in seen'
               PROVE  (first' => Read1(n)') /\ (~first' => Base(n)')
    BY DEF SeenInv
  <2>1. CASE Kernel
    BY <2>0, <2>1, KernelFrame
  <2>2. CASE UpdateNetInterfaces
    <3>1. UNCHANGED <<first, base, seen, seenAt>> /\ pc = "idle"
      BY <2>2 DEF UpdateNetInterfaces
    <3> QED
      BY <2>0, <3>1
  <2>3. ASSUME NEW m \in Interface, ReadStat(m)
        PROVE  (first' => Read1(n)') /\ (~first' => Base(n)')
    <3>1. /\ UNCHANGED <<first, base, pc>> /\ pc = "reading"
          /\ m \in todo /\ todo' = todo \ {m}
      BY <2>3 DEF ReadStat
    <3>2. n \in Interface
      BY <2>3 DEF ReadStat, TypeOK
    <3>3. CASE n = m /\ first
      <4>1. n \notin seen
        BY <2>0, <3>1, <3>3
      <4>2. valueRead' = [valueRead EXCEPT ![m] = counter[m]]
            /\ seenAt' = [seenAt EXCEPT ![m] = counter[m]]
        BY <2>3, <3>3, <4>1 DEF ReadStat, Reading
      <4>3. valueRead'[n] = seenAt'[n]
        BY <3>2, <3>3, <4>2 DEF TypeOK
      <4> QED
        BY <3>1, <3>3, <4>3
    <3>4. CASE n # m /\ first
      <4>1. n \in seen /\ seenAt'[n] = seenAt[n] /\ valueRead'[n] = valueRead[n]
        BY <2>3, <3>2, <3>4 DEF ReadStat, Reading, TypeOK
      <4> QED
        BY <2>0, <3>1, <3>4, <4>1
    <3>5. CASE ~first
      <4>1. seen' = seen /\ seenAt' = seenAt
        BY <2>3, <3>5 DEF ReadStat
      <4> QED
        BY <2>0, <3>1, <3>5, <4>1
    <3> QED
      BY <3>3, <3>4, <3>5
  <2>4. CASE DiscardFirst
    <3>1. UNCHANGED <<seen, seenAt>> /\ base' = valueRead /\ first /\ first' = FALSE
      BY <2>4 DEF DiscardFirst
    <3> QED
      BY <2>0, <3>1
  <2>5. CASE UpdateNode
    <3>1. UNCHANGED <<first, base, seen, seenAt>> /\ (first => pc = "idle")
      BY <2>5 DEF UpdateNode
    <3> QED
      BY <2>0, <3>1
  <2>6. CASE UNCHANGED vars
    BY <2>0, <2>6 DEF vars, statVars, historyVars
  <2> QED
    BY <2>1, <2>2, <2>3, <2>4, <2>5, <2>6 DEF Next, Read, Ship
<1> QED
  BY <1>1, <1>2, NetTypeCorrect, PTL DEF Spec

\* For an interface that was always there and readable, only real traffic is
\* reported, none of it twice, and none from before the discarded reading if that
\* read it.
THEOREM OnlyRealTrafficCorrect == Spec => []OnlyRealTraffic
<1> DEFINE NoneNegative == \A n \in Interface \ disturbed :
                             currentValue[n] >= 0 /\ shipped[n] >= 0 /\ lost[n] >= 0
<1>1. Init => NoneNegative
  BY DEF Init
<1>2. TypeOK /\ ReadingsInv /\ NoneNegative /\ [Next]_vars => NoneNegative'
  <2> SUFFICES ASSUME TypeOK, ReadingsInv, NoneNegative, [Next]_vars,
                      NEW n \in Interface \ disturbed'
               PROVE  (currentValue[n] >= 0 /\ shipped[n] >= 0 /\ lost[n] >= 0)'
    OBVIOUS
  <2>0. n \notin disturbed
    BY DEF Next, Kernel, Exit, Traffic, Attach, Detach, Read, UpdateNetInterfaces, SwitchedOn,
           ReadStat, Reading, Ship, DiscardFirst, Discarded, UpdateNode, vars, historyVars
  <2>1. /\ currentValue[n] >= 0 /\ shipped[n] >= 0 /\ lost[n] >= 0
        /\ currentValue[n] \in Int /\ shipped[n] \in Int /\ lost[n] \in Int
        /\ valueRead[n] - lastValueRead[n] >= 0
        /\ valueRead[n] - lastValueRead[n] \in Int
    BY <2>0 DEF TypeOK, ReadingsInv
  <2>2. CASE Kernel
    BY <2>1, <2>2, KernelFrame
  <2>3. CASE Read
    BY <2>1, <2>3, ReadFrame
  <2>4. CASE DiscardFirst
    <3>1. UNCHANGED <<shipped, lost>>
          /\ currentValue'[n] = valueRead[n] - lastValueRead[n]
      BY <2>4 DEF DiscardFirst, Discarded, UpdateLastValue
    <3> QED
      BY <2>1, <3>1
  <2>5. CASE UpdateNode
    BY <2>1, <2>5, UpdateNodeSums
  <2>6. CASE UNCHANGED vars
    BY <2>1, <2>6 DEF vars, statVars, historyVars
  <2> QED
    BY <2>2, <2>3, <2>4, <2>5, <2>6 DEF Next, Ship
<1>3. TypeOK /\ ReadingsInv /\ SeenInv /\ Conservation /\ NoneNegative => OnlyRealTraffic
  <2> SUFFICES ASSUME TypeOK, ReadingsInv, SeenInv, Conservation, NoneNegative,
                      NEW n \in Interface \ disturbed
               PROVE  /\ currentValue[n] >= 0 /\ shipped[n] >= 0 /\ lost[n] >= 0
                      /\ shipped[n] + lost[n]
                           <= counter[n] - (IF n \in seen THEN seenAt[n] ELSE 0)
    BY DEF OnlyRealTraffic
  <2>1. /\ lastValueRead[n] <= counter[n] /\ valueRead[n] <= counter[n]
        /\ first => lastValueRead[n] = 0 /\ base[n] = 0
    BY DEF ReadingsInv, TypeOK
  <2>2. shipped[n] + lost[n] = lastValueRead[n] - base[n]
    BY DEF Conservation
  <2>3. /\ counter[n] \in Nat /\ lastValueRead[n] \in Nat /\ base[n] \in Nat
        /\ valueRead[n] \in Nat /\ seenAt[n] \in Nat
        /\ shipped[n] \in Int /\ lost[n] \in Int /\ first \in BOOLEAN
    BY DEF TypeOK
  <2>4. n \in seen => IF first THEN valueRead[n] = seenAt[n] ELSE base[n] = seenAt[n]
    BY DEF SeenInv
  <2> HIDE DEF NoneNegative
  <2>5. CASE n \notin seen
    BY <2>1, <2>2, <2>3, <2>5 DEF NoneNegative
  <2>6. CASE n \in seen /\ first
    BY <2>1, <2>2, <2>3, <2>4, <2>6 DEF NoneNegative
  <2>7. CASE n \in seen /\ ~first
    BY <2>1, <2>2, <2>3, <2>4, <2>7 DEF NoneNegative
  <2> QED
    BY <2>5, <2>6, <2>7
<1> QED
  BY <1>1, <1>2, <1>3, NetTypeCorrect, ReadingsCorrect, SeenCorrect, ConservationCorrect, PTL
     DEF Spec

\* All of them together are one inductive invariant of the counters.
THEOREM NetInvariant == Spec => []IInv
<1>1. Conservation /\ OnlyRealTraffic /\ ReadingsInv /\ SeenInv => IInv
  BY DEF IInv
<1> QED
  BY <1>1, ConservationCorrect, OnlyRealTrafficCorrect, ReadingsCorrect, SeenCorrect, PTL
=============================================================================
