-------------------------- MODULE ElasticSetupProofs --------------------------
(***************************************************************************)
(* Proofs about ElasticSetup for any number of collectors, of panels, of   *)
(* attempts, and any number of faults and restarts.                        *)
(***************************************************************************)
EXTENDS ElasticSetup, SequenceTheorems, TLAPS

-----------------------------------------------------------------------------
(* Sequences without repetitions *)

\* A panel that is not there can be appended, and the others stay.
LEMMA AppendNew ==
  ASSUME NEW S, NEW s \in Seq(S), NEW x \in S, IsInjective(s), x \notin ToSet(s)
  PROVE  IsInjective(Append(s, x))
<1>1. \A i \in 1..Len(s) : s[i] \in ToSet(s)
  BY LenProperties DEF ToSet
<1>2. /\ Len(s) \in Nat /\ DOMAIN Append(s, x) = 1..(Len(s) + 1)
      /\ \A i \in 1..Len(s) : Append(s, x)[i] = s[i]
      /\ Append(s, x)[Len(s) + 1] = x
  BY AppendProperties, LenProperties
<1>3. \A i, j \in 1..Len(s) : s[i] = s[j] => i = j
  BY LenProperties DEF IsInjective
<1> QED
  BY <1>1, <1>2, <1>3 DEF IsInjective

LEMMA AppendKeeps ==
  ASSUME NEW S, NEW s \in Seq(S), NEW x \in S
  PROVE  ToSet(s) \subseteq ToSet(Append(s, x))
<1>1. /\ Len(s) \in Nat /\ DOMAIN Append(s, x) = 1..(Len(s) + 1) /\ DOMAIN s = 1..Len(s)
      /\ \A i \in 1..Len(s) : Append(s, x)[i] = s[i]
  BY AppendProperties, LenProperties
<1> QED
  BY <1>1 DEF ToSet

-----------------------------------------------------------------------------
(* Types *)

Typed == TypeOK /\ IndexInv

Places == InitSteps \cup CreatorSteps \cup NodeType \cup
            {"config", "get", "put", "done", "exit"}

\* What a step of n changes of its place keeps its type.
Moved(n) ==
  /\ pc' \in [Collector -> Places]
  /\ attempt' \in [Collector -> 1..MaxAttempts]
  /\ \A m \in Collector \ {n} : pc'[m] = pc[m] /\ attempt'[m] = attempt[m]

LEMMA GotoMoved ==
  ASSUME TypeOK, NEW n \in Collector, NEW step \in Places, Goto(n, step)
  PROVE  Moved(n) /\ pc'[n] = step /\ attempt'[n] = 1
BY SetupAssumption DEF TypeOK, Goto, Moved, Places

\* The request that a failure leads to.
LEMMA OnErrorPlace ==
  ASSUME NEW step \in Places
  PROVE  /\ OnError(step) \in {"exit", "node search", "done"}
         /\ OnError(step) \in Places
         /\ step \in CreatorSteps \cup {"config"} => OnError(step) = "node search"
         /\ step \in NodeType \cup {"get", "put"} => OnError(step) = "done"
BY DEF OnError, Places, InitSteps, CreatorSteps, ClusterType, NodeType

\* A failed request is tried again, or its collector moves on to OnError.
LEMMA FailedMoved ==
  ASSUME TypeOK, NEW n \in Collector, NEW effect, Failed(n, effect)
  PROVE  /\ Moved(n) /\ faults' \in 0..MaxFaults /\ server' \in {server, effect}
         /\ \/ pc' = pc /\ attempt'[n] = attempt[n] + 1
            \/ pc'[n] = OnError(pc[n]) /\ attempt'[n] = 1
<1>1. faults' \in 0..MaxFaults
  BY SetupAssumption DEF TypeOK, Failed
<1>2. CASE /\ TryAgain(n) /\ attempt' = [attempt EXCEPT ![n] = @ + 1]
           /\ UNCHANGED pc
  BY <1>1, <1>2, SetupAssumption DEF TypeOK, TryAgain, Failed, Moved, Places
<1>3. CASE Goto(n, OnError(pc[n]))
  <2>1. OnError(pc[n]) \in Places
    BY OnErrorPlace DEF TypeOK, Places
  <2> QED
    BY <1>1, <1>3, <2>1, GotoMoved DEF Failed
<1> QED
  BY <1>2, <1>3 DEF Failed

\* A request leaves what was there or its effect, and its collector in place, at
\* the next one or at OnError.
LEMMA RequestMoved ==
  ASSUME TypeOK, NEW n \in Collector, NEW effect, NEW next \in Places,
         Request(n, effect, next)
  PROVE  /\ Moved(n) /\ faults' \in 0..MaxFaults /\ server' \in {server, effect}
         /\ \/ pc' = pc /\ attempt'[n] = attempt[n] + 1
            \/ pc'[n] = OnError(pc[n]) /\ attempt'[n] = 1
            \/ pc'[n] = next /\ attempt'[n] = 1 /\ server' = effect
<1>1. CASE Answered(n, effect, next)
  <2>1. Goto(n, next) /\ server' = effect /\ faults' = faults
    BY <1>1 DEF Answered
  <2>2. faults' \in 0..MaxFaults
    BY <2>1 DEF TypeOK
  <2> QED
    BY <2>1, <2>2, GotoMoved
<1>2. CASE Failed(n, effect)
  BY <1>2, FailedMoved
<1> QED
  BY <1>1, <1>2 DEF Request

LEMMA BulkMoved ==
  ASSUME TypeOK, NEW n \in Collector, NEW effect, NEW next \in Places,
         Bulk(n, effect, next)
  PROVE  /\ Moved(n) /\ faults' \in 0..MaxFaults /\ server' \in {server, effect}
         /\ \/ pc' = pc /\ attempt'[n] = attempt[n] + 1
            \/ pc'[n] = OnError(pc[n]) /\ attempt'[n] = 1
            \/ pc'[n] = next /\ attempt'[n] = 1
<1>1. CASE Request(n, effect, next)
  BY <1>1, RequestMoved
<1>2. CASE ~Request(n, effect, next)
  <2>1. /\ Goto(n, next) /\ server' = server
        /\ faults < MaxFaults /\ faults' = faults + 1
    BY <1>2 DEF Bulk
  <2>2. faults' \in 0..MaxFaults
    BY <2>1, SetupAssumption DEF TypeOK
  <2> QED
    BY <2>1, <2>2, GotoMoved
<1> QED
  BY <1>1, <1>2

\* The fields of what Elasticsearch holds.
LEMMA ServerFields ==
  ASSUME NEW s \in Server
  PROVE  /\ s.index \in BOOLEAN /\ s.mapping \in BOOLEAN /\ s.config \in Nat
         /\ s.cluster \in SUBSET ClusterType
         /\ s.nodes \in SUBSET (Collector \X NodeType)
         /\ s.dashboard \in SUBSET Seq(Panel)
BY DEF Server

\* A step that keeps the index stays typed, if the panel it goes to is there.
LEMMA TypedAgain ==
  ASSUME Typed, NEW n \in Collector, Moved(n), faults' \in 0..MaxFaults,
         server' \in Server, restarts' = restarts, hung' = hung,
         index' = index,
         read' \in [Collector -> Seq(Panel)], creators' \in Nat,
         stale' \in SUBSET Collector,
         pc[n] \notin {"done", "exit"}
  PROVE  Typed'
<1>1. TypeOK'
  BY DEF Typed, TypeOK, Moved, Places
<1>2. IndexInv'
  BY DEF Typed, TypeOK, IndexInv, Moved
<1> QED
  BY <1>1, <1>2 DEF Typed

\* The steps before the panels: requests that change one field each.
LEMMA RequestTyped ==
  ASSUME Typed, NEW n \in Collector,
         \/ IndexExists(n) \/ CreateIndex(n) \/ PutMapping(n) \/ PutConfig(n)
         \/ BulkCluster(n) \/ PutDashboard(n) \/ BulkNode(n)
  PROVE  Typed'
<1> USE DEF Typed
<1>1. /\ server \in Server /\ server.config \in Nat /\ server.index \in BOOLEAN
      /\ server.cluster \in SUBSET ClusterType
      /\ server.nodes \in SUBSET (Collector \X NodeType)
      /\ creators \in Nat /\ read \in [Collector -> Seq(Panel)]
      /\ stale \in SUBSET Collector
  BY ServerFields DEF TypeOK
<1>2. CASE IndexExists(n)
  <2>1. (IF Missing(server) THEN "create" ELSE "mapping") \in Places
    BY DEF Places, InitSteps
  <2>2. Moved(n) /\ faults' \in 0..MaxFaults /\ server' = server
    BY <1>2, <2>1, RequestMoved DEF IndexExists
  <2> QED
    BY <1>1, <1>2, <2>2, TypedAgain DEF IndexExists, history
<1>3. CASE CreateIndex(n)
  <2>1. (IF server.index THEN "exit" ELSE "mapping") \in Places
    BY DEF Places, InitSteps
  <2>2. Moved(n) /\ faults' \in 0..MaxFaults /\ server' \in {server, WithIndex(server)}
    BY <1>3, <2>1, RequestMoved DEF CreateIndex
  <2>3. WithIndex(server) \in Server
    BY <1>1 DEF Server, WithIndex
  <2> QED
    BY <1>1, <1>3, <2>2, <2>3, TypedAgain DEF CreateIndex, history
<1>4. CASE PutMapping(n)
  <2>1. Moved(n) /\ faults' \in 0..MaxFaults /\ server' \in {server, WithMapping(server)}
    BY <1>4, RequestMoved DEF PutMapping, Places
  <2>2. WithMapping(server) \in Server
    BY <1>1 DEF Server, WithMapping
  <2> QED
    BY <1>1, <1>4, <2>1, <2>2, TypedAgain DEF PutMapping, history
<1>5. CASE PutConfig(n)
  <2>1. (IF FirstVersion(server) THEN "index-pattern" ELSE "node search") \in Places
    BY DEF Places, CreatorSteps, ClusterType, NodeType
  <2>2. Moved(n) /\ faults' \in 0..MaxFaults /\ server' \in {server, WithConfig(server)}
    BY <1>5, <2>1, RequestMoved DEF PutConfig
  <2>3. WithConfig(server) \in Server
    <3>1. server.config + 1 \in Nat
      BY <1>1
    <3> QED
      BY <1>1, <3>1 DEF Server, WithConfig
  <2>4. creators' = creators \/ creators' = creators + 1
    BY <1>5 DEF PutConfig
  <2>5. creators' \in Nat
    BY <1>1, <2>4
  <2> QED
    BY <1>1, <1>5, <2>2, <2>3, <2>5, TypedAgain DEF PutConfig
<1>6. CASE BulkCluster(n)
  <2>1. After(pc[n]) \in Places
    BY DEF After, Places, CreatorSteps, ClusterType
  <2>2. /\ Moved(n) /\ faults' \in 0..MaxFaults
        /\ server' \in {server, [server EXCEPT !.cluster = @ \cup {pc[n]}]}
    BY <1>6, <2>1, BulkMoved DEF BulkCluster
  <2>3. [server EXCEPT !.cluster = @ \cup {pc[n]}] \in Server
    BY <1>1, <1>6 DEF Server, BulkCluster
  <2> QED
    BY <1>1, <1>6, <2>2, <2>3, TypedAgain DEF BulkCluster, history, ClusterType
<1>7. CASE PutDashboard(n)
  <2>1. /\ Moved(n) /\ faults' \in 0..MaxFaults
        /\ server' \in {server, [server EXCEPT !.dashboard = {<<>>}]}
    BY <1>7, RequestMoved DEF PutDashboard, Places, NodeType
  <2>2. {<<>>} \in SUBSET Seq(Panel)
    OBVIOUS
  <2>3. [server EXCEPT !.dashboard = {<<>>}] \in Server
    BY <1>1, <2>2 DEF Server
  <2>4. stale' \in SUBSET Collector
    BY <1>1, <1>7 DEF PutDashboard, Outdates
  <2> QED
    BY <1>1, <1>7, <2>1, <2>3, <2>4, TypedAgain DEF PutDashboard
<1>8. CASE BulkNode(n)
  <2>1. (IF pc[n] = "node search" THEN "node visualization" ELSE "get") \in Places
    BY DEF Places, NodeType
  <2>2. /\ Moved(n) /\ faults' \in 0..MaxFaults
        /\ server' \in {server, [server EXCEPT !.nodes = @ \cup {<<n, pc[n]>>}]}
    BY <1>8, <2>1, BulkMoved DEF BulkNode
  <2>3. [server EXCEPT !.nodes = @ \cup {<<n, pc[n]>>}] \in Server
    <3>1. <<n, pc[n]>> \in Collector \X NodeType
      BY <1>8 DEF BulkNode
    <3> DEFINE ns == server.nodes \cup {<<n, pc[n]>>}
    <3>2. ns \in SUBSET (Collector \X NodeType)
      BY <1>1, <3>1
    <3> HIDE DEF ns
    <3>3. [server EXCEPT !.nodes = ns] \in Server
      BY <1>1, <3>2 DEF Server
    <3> QED
      BY <3>3 DEF ns
  <2> QED
    BY <1>1, <1>8, <2>2, <2>3, TypedAgain DEF BulkNode, history, NodeType
<1> QED
  BY <1>2, <1>3, <1>4, <1>5, <1>6, <1>7, <1>8

\* The loop over the panels stops behind the last one.
LEMMA NextPanelTyped ==
  ASSUME TypeOK, NEW n \in Collector, index[n] <= PanelsPerNode, Advance(n)
  PROVE  /\ NextPanel(n) \in {"get", "done"} /\ NextPanel(n) \in Places
         /\ index' \in [Collector -> 1..(PanelsPerNode + 1)]
         /\ NextPanel(n) = "get" => index'[n] <= PanelsPerNode
         /\ \A m \in Collector \ {n} : index'[m] = index[m]
BY SetupAssumption DEF TypeOK, NextPanel, Advance, Places

\* The panel a collector is at is a panel.
LEMMA PanelTyped ==
  ASSUME Typed, NEW n \in Collector, pc[n] \in {"get", "put"}
  PROVE  <<n, index[n]>> \in Panel /\ index[n] <= PanelsPerNode
<1>1. index[n] \in 1..(PanelsPerNode + 1) /\ index[n] <= PanelsPerNode
  BY DEF Typed, TypeOK, IndexInv
<1> QED
  BY <1>1, SetupAssumption DEF Panel

LEMMA PanelStepTyped ==
  ASSUME Typed, NEW n \in Collector, GetDashboard(n) \/ PutPanel(n)
  PROVE  Typed'
<1>1. /\ server \in Server /\ server.dashboard \in SUBSET Seq(Panel)
      /\ creators \in Nat /\ read \in [Collector -> Seq(Panel)]
      /\ stale \in SUBSET Collector /\ index \in [Collector -> 1..(PanelsPerNode + 1)]
      /\ TypeOK
  BY ServerFields DEF Typed, TypeOK
<1>2. <<n, index[n]>> \in Panel /\ index[n] <= PanelsPerNode /\ pc[n] \in {"get", "put"}
  BY PanelTyped DEF GetDashboard, PutPanel
<1>3. ASSUME Goto(n, NextPanel(n)), Advance(n), faults' \in 0..MaxFaults,
             server' \in Server, restarts' = restarts, creators' = creators,
             hung' = hung,
             read' \in [Collector -> Seq(Panel)], stale' \in SUBSET Collector
      PROVE  Typed'
  <2>1. /\ NextPanel(n) \in Places /\ index' \in [Collector -> 1..(PanelsPerNode + 1)]
        /\ NextPanel(n) \in {"get", "done"}
        /\ NextPanel(n) = "get" => index'[n] <= PanelsPerNode
        /\ \A m \in Collector \ {n} : index'[m] = index[m]
    BY <1>1, <1>2, <1>3, NextPanelTyped
  <2>2. Moved(n) /\ pc'[n] = NextPanel(n)
    BY <1>1, <1>3, <2>1, GotoMoved
  <2>3. TypeOK'
    BY <1>1, <1>3, <2>1, <2>2 DEF TypeOK, Moved, Places
  <2>4. IndexInv'
    BY <2>1, <2>2 DEF Typed, IndexInv, Moved
  <2> QED
    BY <2>3, <2>4 DEF Typed
<1>4. CASE GetDashboard(n) /\ DashboardFound(n)
  <2>1. PICK ps \in server.dashboard :
          /\ read' = [read EXCEPT ![n] = ps]
          /\ stale' = stale \ {n}
          /\ \/ /\ Present(ps, <<n, index[n]>>)
                /\ Answered(n, server, NextPanel(n))
                /\ Advance(n)
             \/ /\ ~Present(ps, <<n, index[n]>>)
                /\ Answered(n, server, "put")
                /\ UNCHANGED index
    BY <1>4 DEF DashboardFound
  <2>2. /\ read' \in [Collector -> Seq(Panel)] /\ stale' \in SUBSET Collector
        /\ server' = server /\ faults' \in 0..MaxFaults
        /\ restarts' = restarts /\ creators' = creators /\ hung' = hung
    BY <1>1, <1>4, <2>1 DEF Answered, TypeOK, GetDashboard
  <2>3. CASE Answered(n, server, NextPanel(n)) /\ Advance(n)
    BY <1>1, <1>3, <2>2, <2>3 DEF Answered
  <2>4. CASE Answered(n, server, "put") /\ UNCHANGED index
    <3>1. Moved(n)
      BY <1>1, <2>4, GotoMoved DEF Answered, Places
    <3> QED
      BY <1>1, <1>2, <2>2, <2>4, <3>1, TypedAgain
  <2> QED
    BY <2>1, <2>3, <2>4
<1>5. CASE GetDashboard(n) /\ ~DashboardFound(n)
  <2>1. Moved(n) /\ faults' \in 0..MaxFaults /\ server' = server
    <3>1. CASE Answered(n, server, "done")
      <4>1. faults' = faults /\ server' = server /\ Goto(n, "done")
        BY <3>1 DEF Answered
      <4> QED
        BY <1>1, <4>1, GotoMoved DEF TypeOK, Places
    <3>2. CASE Failed(n, server)
      BY <1>1, <3>2, FailedMoved
    <3> QED
      BY <1>5, <3>1, <3>2 DEF GetDashboard
  <2>2. index' = index /\ read' = read /\ stale' = stale /\ restarts' = restarts
        /\ creators' = creators /\ hung' = hung
    BY <1>5 DEF GetDashboard
  <2> QED
    BY <1>1, <1>2, <2>1, <2>2, TypedAgain
<1>6. CASE PutPanel(n)
  <2> DEFINE effect == [server EXCEPT !.dashboard = {WithPanel(read[n], <<n, index[n]>>)}]
  <2>1. effect \in Server
    <3>1. {WithPanel(read[n], <<n, index[n]>>)} \in SUBSET Seq(Panel)
      BY <1>1, <1>2, AppendProperties DEF WithPanel
    <3> QED
      BY <1>1, <3>1 DEF Server
  <2>2. stale' \in SUBSET Collector /\ restarts' = restarts /\ hung' = hung /\ creators' = creators
        /\ read' = read
    BY <1>1, <1>6 DEF PutPanel, Outdates
  <2>3. CASE Answered(n, effect, NextPanel(n)) /\ Advance(n)
    <3>1. faults' \in 0..MaxFaults
      BY <1>1, <2>3 DEF Answered, TypeOK
    <3> QED
      BY <1>1, <1>3, <2>1, <2>2, <2>3, <3>1 DEF Answered
  <2>4. CASE Failed(n, effect) /\ UNCHANGED index
    <3>1. Moved(n) /\ faults' \in 0..MaxFaults /\ server' \in {server, effect}
      BY <1>1, <2>4, FailedMoved
    <3> QED
      BY <1>1, <1>2, <2>1, <2>2, <2>4, <3>1, TypedAgain
  <2> QED
    BY <1>6, <2>3, <2>4 DEF PutPanel
<1> QED
  BY <1>4, <1>5, <1>6

LEMMA RestartTyped ==
  ASSUME Typed, NEW n \in Collector, Restart(n)
  PROVE  Typed'
<1>1. /\ pc' = [pc EXCEPT ![n] = "exists"] /\ attempt' = [attempt EXCEPT ![n] = 1]
      /\ index' = [index EXCEPT ![n] = 1] /\ read' = [read EXCEPT ![n] = <<>>]
      /\ restarts' \in 0..MaxRestarts
      /\ UNCHANGED <<server, hung, faults, creators, stale>>
  BY SetupAssumption DEF Restart, Goto, history, Typed, TypeOK
<1>2. TypeOK'
  BY <1>1, SetupAssumption DEF Typed, TypeOK, InitSteps
<1>3. IndexInv'
  BY <1>1, SetupAssumption DEF Typed, TypeOK, IndexInv
<1> QED
  BY <1>2, <1>3 DEF Typed

LEMMA InitTyped == Init => Typed
<1> SUFFICES ASSUME Init PROVE Typed
  OBVIOUS
<1>1. server \in Server
  BY DEF Init, Server
<1>2. TypeOK
  BY <1>1, SetupAssumption DEF Init, TypeOK, InitSteps
<1>3. IndexInv
  BY SetupAssumption DEF Init, IndexInv
<1> QED
  BY <1>2, <1>3 DEF Typed

\* A server that ceases to answer, or answers again, changes nothing else.
LEMMA HangKeeps ==
  ASSUME Hang \/ UNCHANGED vars
  PROVE  UNCHANGED <<server, pc, attempt, index, read, faults, restarts, creators, stale>>
BY DEF Hang, vars, local, history

LEMMA StepTyped == Typed /\ [Next]_vars => Typed'
<1>1. ASSUME Typed, NEW n \in Collector, Step(n) \/ Restart(n)
      PROVE  Typed'
  BY <1>1, RequestTyped, PanelStepTyped, RestartTyped DEF Step
<1>2. ASSUME Typed, Hang \/ UNCHANGED vars
      PROVE  Typed'
  <2>1. hung' \in BOOLEAN
    BY <1>2 DEF Hang, vars, Typed, TypeOK
  <2> QED
    BY <1>2, <2>1, HangKeeps DEF Typed, TypeOK, IndexInv
<1> QED
  BY <1>1, <1>2 DEF Next

\* Every variable keeps its type: nobody sends a request more often than allowed,
\* and nobody writes a panel that is not his own.
THEOREM SetupTypeCorrect == Spec => []TypeOK
<1>1. Typed => TypeOK
  BY DEF Typed
<1> QED
  BY InitTyped, StepTyped, <1>1, PTL DEF Spec

-----------------------------------------------------------------------------
(* Who creates the cluster, and what is on the dashboard *)

Safe == CreatorInv /\ NoPanelTwice /\ CopyInv

\* The places are different ones.
LEMMA DistinctSteps ==
  /\ CreatorSteps \cap (InitSteps \cup NodeType \cup {"config", "get", "put", "done", "exit"}) = {}
  /\ "put" \notin InitSteps \cup CreatorSteps \cup NodeType
  /\ "index-pattern" \in CreatorSteps /\ "dashboard" \in CreatorSteps
  /\ "dashboard" \notin ClusterType /\ ClusterType \subseteq CreatorSteps
  /\ "node search" \in NodeType /\ "node visualization" \in NodeType
BY DEF InitSteps, CreatorSteps, ClusterType, NodeType

LEMMA InitSafe == Init => Safe
<1> SUFFICES ASSUME Init PROVE Safe
  OBVIOUS
<1>1. \A n \in Collector : pc[n] = "exists" /\ read[n] = <<>>
  BY DEF Init
<1>2. server.dashboard = {} /\ server.config = 0 /\ creators = 0
  BY DEF Init
<1>3. "exists" \notin CreatorSteps /\ "exists" # "put"
  BY DistinctSteps DEF InitSteps
<1>4. CreatorInv
  BY <1>1, <1>2, <1>3 DEF CreatorInv, OneCreator
<1>5. CopyInv /\ NoPanelTwice
  BY <1>1, <1>2, <1>3 DEF CopyInv, NoPanelTwice, IsInjective
<1> QED
  BY <1>4, <1>5 DEF Safe

\* A step that takes n to a place where it neither creates the cluster nor writes
\* a panel back, and leaves the dashboard alone.
LEMMA QuietSafe ==
  ASSUME TypeOK, Safe, NEW n \in Collector,
         pc'[n] \notin CreatorSteps, pc'[n] # "put",
         server'.dashboard = server.dashboard, server'.config \in Nat,
         server'.config >= server.config, creators' = creators,
         IsInjective(read'[n]),
         \A m \in Collector \ {n} :
           /\ pc'[m] = pc[m] /\ attempt'[m] = attempt[m]
           /\ read'[m] = read[m] /\ index'[m] = index[m]
           /\ m \in stale' <=> m \in stale
  PROVE  Safe'
<1>1. CreatorInv'
  <2>1. creators' <= 1 /\ (creators' = 0 => server'.dashboard = {})
    BY DEF Safe, CreatorInv, OneCreator
  <2>2. creators \in Nat /\ server.config \in Nat /\ creators <= server.config
    BY ServerFields DEF Safe, CreatorInv, TypeOK
  <2>3. creators' <= server'.config
    BY <2>2
  <2>4. ASSUME NEW k \in Collector, pc'[k] \in CreatorSteps
        PROVE  /\ creators' = 1
               /\ \A m \in Collector : pc'[m] \in CreatorSteps => m = k
               /\ pc'[k] # "dashboard" \/ attempt'[k] = 1 => server'.dashboard = {}
    <3>1. k # n /\ pc[k] \in CreatorSteps
      BY <2>4
    <3> QED
      BY <3>1 DEF Safe, CreatorInv
  <2> QED
    BY <2>1, <2>3, <2>4 DEF CreatorInv, OneCreator
<1>2. NoPanelTwice'
  BY DEF Safe, NoPanelTwice
<1>3. CopyInv'
  <2>1. \A ps, qs \in server'.dashboard : ps = qs
    BY DEF Safe, CopyInv
  <2>2. ASSUME NEW k \in Collector
        PROVE  /\ IsInjective(read'[k])
               /\ pc'[k] = "put" =>
                    server'.dashboard # {} /\ <<k, index'[k]>> \notin ToSet(read'[k])
               /\ pc'[k] = "put" /\ k \notin stale' =>
                    server'.dashboard \in {{read'[k]}, {Append(read'[k], <<k, index'[k]>>)}}
    <3>1. CASE k = n
      BY <3>1
    <3>2. CASE k # n
      BY <3>2 DEF Safe, CopyInv
    <3> QED
      BY <3>1, <3>2
  <2> QED
    BY <2>1, <2>2 DEF CopyInv
<1> QED
  BY <1>1, <1>2, <1>3 DEF Safe

\* The requests of InitElasticDb and CreateNode's documents, and a restart.
LEMMA OutsideSafe ==
  ASSUME TypeOK, Safe, NEW n \in Collector,
         IndexExists(n) \/ CreateIndex(n) \/ PutMapping(n) \/ BulkNode(n) \/ Restart(n)
  PROVE  Safe'
<1>1. server \in Server /\ server.config \in Nat /\ IsInjective(read[n])
  BY ServerFields DEF TypeOK, Safe, CopyInv
<1>2. ASSUME NEW effect, NEW next \in Places,
             Bulk(n, effect, next) \/ Request(n, effect, next),
             effect.dashboard = server.dashboard, effect.config = server.config,
             next \notin CreatorSteps, next # "put",
             pc[n] \in InitSteps \cup NodeType,
             UNCHANGED <<index, read, creators, stale>>
      PROVE  Safe'
  <2>1. /\ Moved(n) /\ server' \in {server, effect}
        /\ pc'[n] \in {pc[n], OnError(pc[n]), next}
    BY <1>2, BulkMoved, RequestMoved DEF Bulk
  <2>2. OnError(pc[n]) \in {"exit", "node search", "done"}
    BY <1>2, OnErrorPlace DEF Places
  <2>3. pc'[n] \notin CreatorSteps /\ pc'[n] # "put"
    BY <1>2, <2>1, <2>2, DistinctSteps
  <2>4. server'.dashboard = server.dashboard /\ server'.config = server.config
    BY <1>2, <2>1
  <2> QED
    BY <1>1, <1>2, <2>1, <2>3, <2>4, QuietSafe DEF Moved
<1>3. CASE IndexExists(n)
  <2>1. (IF Missing(server) THEN "create" ELSE "mapping") \in InitSteps
    BY DEF InitSteps
  <2> QED
    BY <1>2, <1>3, <2>1, DistinctSteps DEF IndexExists, InitSteps, Places, history
<1>4. CASE CreateIndex(n)
  <2>1. (IF server.index THEN "exit" ELSE "mapping") \in {"exit", "mapping"}
    OBVIOUS
  <2>2. WithIndex(server).dashboard = server.dashboard /\ WithIndex(server).config = server.config
    BY <1>1 DEF WithIndex, Server
  <2>3. {"exit", "mapping"} \cap CreatorSteps = {} /\ {"exit", "mapping"} \subseteq Places
    BY DistinctSteps DEF InitSteps, Places
  <2> QED
    BY <1>2, <1>4, <2>1, <2>2, <2>3 DEF CreateIndex, InitSteps, history
<1>5. CASE PutMapping(n)
  <2>1. /\ WithMapping(server).dashboard = server.dashboard
        /\ WithMapping(server).config = server.config
    BY <1>1 DEF WithMapping, Server
  <2>2. "config" \notin CreatorSteps /\ "config" \in Places
    BY DistinctSteps DEF Places
  <2> QED
    BY <1>2, <1>5, <2>1, <2>2 DEF PutMapping, InitSteps, history
<1>6. CASE BulkNode(n)
  <2> DEFINE effect == [server EXCEPT !.nodes = @ \cup {<<n, pc[n]>>}]
             next == IF pc[n] = "node search" THEN "node visualization" ELSE "get"
  <2>1. effect.dashboard = server.dashboard /\ effect.config = server.config
    BY <1>1 DEF Server
  <2>2. next \in Places /\ next \notin CreatorSteps /\ next # "put"
    BY DistinctSteps DEF Places, NodeType
  <2>3. Bulk(n, effect, next) /\ pc[n] \in NodeType /\ UNCHANGED <<index, read, creators, stale>>
    BY <1>6 DEF BulkNode, history
  <2> HIDE DEF effect, next
  <2> QED
    BY <1>2, <2>1, <2>2, <2>3
<1>7. CASE Restart(n)
  <2>1. /\ pc' = [pc EXCEPT ![n] = "exists"] /\ attempt' = [attempt EXCEPT ![n] = 1]
        /\ index' = [index EXCEPT ![n] = 1] /\ read' = [read EXCEPT ![n] = <<>>]
        /\ UNCHANGED <<server, creators, stale>>
    BY <1>7 DEF Restart, Goto, history
  <2>2. pc'[n] \notin CreatorSteps /\ pc'[n] # "put"
    BY <2>1, DistinctSteps DEF TypeOK, InitSteps
  <2>3. IsInjective(read'[n])
    BY <2>1 DEF TypeOK, IsInjective
  <2> QED
    BY <1>1, <2>1, <2>2, <2>3, QuietSafe DEF TypeOK
<1> QED
  BY <1>3, <1>4, <1>5, <1>6, <1>7

\* The first version of the config document makes its writer the one creator.
LEMMA PutConfigSafe ==
  ASSUME TypeOK, Safe, NEW n \in Collector, PutConfig(n)
  PROVE  Safe'
<1> DEFINE next == IF FirstVersion(server) THEN "index-pattern" ELSE "node search"
<1>1. /\ server \in Server /\ server.config \in Nat /\ creators \in Nat
      /\ IsInjective(read[n]) /\ pc[n] = "config"
  BY ServerFields DEF TypeOK, Safe, CopyInv, PutConfig
<1>2. /\ WithConfig(server).dashboard = server.dashboard
      /\ WithConfig(server).config = server.config + 1
  BY <1>1 DEF WithConfig, Server
<1>3. next \in Places
  BY DEF Places, CreatorSteps, ClusterType, NodeType
<1>4. OnError("config") = "node search"
  BY OnErrorPlace DEF Places
<1>5. Request(n, WithConfig(server), next)
  BY DEF PutConfig
<1>6. /\ Moved(n) /\ server' \in {server, WithConfig(server)}
      /\ \/ pc'[n] \in {"config", "node search"}
         \/ pc'[n] = next /\ attempt'[n] = 1 /\ server' = WithConfig(server)
  BY <1>1, <1>3, <1>4, <1>5, RequestMoved
<1>7. /\ server'.dashboard = server.dashboard
      /\ server'.config \in {server.config, server.config + 1}
      /\ UNCHANGED <<index, read, stale>>
  BY <1>2, <1>6 DEF PutConfig
<1>8. CASE pc'[n] # "index-pattern"
  <2>1. creators' = creators /\ pc'[n] \in {"config", "node search"}
    BY <1>6, <1>8 DEF PutConfig
  <2>2. pc'[n] \notin CreatorSteps /\ pc'[n] # "put"
    BY <2>1, DistinctSteps
  <2>3. server'.config \in Nat /\ server'.config >= server.config
    BY <1>1, <1>7
  <2> QED
    BY <1>1, <1>6, <1>7, <2>1, <2>2, <2>3, QuietSafe DEF Moved
<1>9. CASE pc'[n] = "index-pattern"
  <2>1. /\ server.config = 0 /\ server' = WithConfig(server) /\ creators' = creators + 1
        /\ attempt'[n] = 1
    BY <1>6, <1>9 DEF FirstVersion, PutConfig
  <2>2. creators = 0 /\ server.dashboard = {}
    BY <1>1, <2>1 DEF Safe, CreatorInv
  <2>3. creators' = 1 /\ server'.config = 1 /\ server'.dashboard = {}
    BY <1>1, <1>2, <2>1, <2>2
  <2>4. \A m \in Collector : pc'[m] \in CreatorSteps => m = n
    <3>1. \A m \in Collector : pc[m] \notin CreatorSteps
      BY <2>2 DEF Safe, CreatorInv
    <3>2. \A m \in Collector \ {n} : pc'[m] = pc[m]
      BY <1>6 DEF Moved
    <3> QED
      BY <3>1, <3>2
  <2>5. CreatorInv'
    BY <2>3, <2>4 DEF CreatorInv, OneCreator
  <2>6. NoPanelTwice' /\ CopyInv'
    <3>1. \A m \in Collector : pc'[m] = "put" => pc[m] = "put"
      BY <1>6, <1>9 DEF Moved
    <3> QED
      BY <1>7, <2>2, <2>3, <3>1 DEF Safe, NoPanelTwice, CopyInv
  <2> QED
    BY <2>5, <2>6 DEF Safe
<1> QED
  BY <1>8, <1>9

\* The creator goes on to the dashboard, which nobody has written before.
LEMMA BulkClusterSafe ==
  ASSUME TypeOK, Safe, NEW n \in Collector, BulkCluster(n)
  PROVE  Safe'
<1> DEFINE effect == [server EXCEPT !.cluster = @ \cup {pc[n]}]
<1>1. /\ server \in Server /\ pc[n] \in ClusterType /\ pc[n] \in CreatorSteps
      /\ pc[n] # "dashboard"
  BY DistinctSteps DEF TypeOK, BulkCluster
<1>2. effect.dashboard = server.dashboard /\ effect.config = server.config
  BY <1>1 DEF Server
<1>3. After(pc[n]) \in CreatorSteps /\ After(pc[n]) \in Places
  BY <1>1 DEF After, CreatorSteps, ClusterType, Places
<1>4. OnError(pc[n]) = "node search"
  BY <1>1, OnErrorPlace DEF Places
<1>5. Bulk(n, effect, After(pc[n])) /\ UNCHANGED <<index, read, creators, stale>>
  BY DEF BulkCluster, history
<1> HIDE DEF effect
<1>6. /\ Moved(n) /\ server' \in {server, effect}
      /\ \/ pc' = pc
         \/ pc'[n] = "node search"
         \/ pc'[n] = After(pc[n]) /\ attempt'[n] = 1
  BY <1>3, <1>4, <1>5, BulkMoved
<1>7. server'.dashboard = server.dashboard /\ server'.config = server.config
  BY <1>2, <1>6
<1>8. pc'[n] # "put" /\ pc[n] # "put"
  BY <1>1, <1>3, <1>6, DistinctSteps
<1>9. creators = 1 /\ server.dashboard = {} /\ \A m \in Collector : pc[m] \in CreatorSteps => m = n
  BY <1>1 DEF Safe, CreatorInv
<1>10. \A m \in Collector : pc'[m] \in CreatorSteps => m = n
  BY <1>9, <1>6 DEF Moved
<1>11. CreatorInv'
  BY <1>5, <1>7, <1>9, <1>10 DEF Safe, CreatorInv, OneCreator
<1>12. NoPanelTwice' /\ CopyInv'
  <2>1. \A m \in Collector : pc'[m] = "put" => pc[m] = "put"
    BY <1>6, <1>8 DEF Moved
  <2> QED
    BY <1>5, <1>7, <1>9, <2>1 DEF Safe, NoPanelTwice, CopyInv
<1> QED
  BY <1>11, <1>12 DEF Safe

\* The creator's dashboard has no panels; who has read another one has an old copy.
LEMMA PutDashboardSafe ==
  ASSUME TypeOK, Safe, NEW n \in Collector, PutDashboard(n)
  PROVE  Safe'
<1> DEFINE effect == [server EXCEPT !.dashboard = {<<>>}]
<1>1. /\ server \in Server /\ pc[n] = "dashboard" /\ pc[n] \in CreatorSteps
      /\ attempt[n] \in 1..MaxAttempts
  BY DistinctSteps DEF TypeOK, PutDashboard
<1>2. effect.dashboard = {<<>>} /\ effect.config = server.config
  BY <1>1 DEF Server
<1>3. OnError(pc[n]) = "node search" /\ "node search" \in Places
  BY <1>1, OnErrorPlace DEF Places, NodeType
<1>4. Request(n, effect, "node search") /\ UNCHANGED <<index, read, creators>>
  BY DEF PutDashboard
<1> HIDE DEF effect
<1>5. /\ Moved(n) /\ server' \in {server, effect}
      /\ \/ pc' = pc /\ attempt'[n] = attempt[n] + 1
         \/ pc'[n] = "node search"
  BY <1>3, <1>4, RequestMoved
<1>6. creators = 1 /\ \A m \in Collector : pc[m] \in CreatorSteps => m = n
  BY <1>1 DEF Safe, CreatorInv
<1>7. server'.config = server.config /\ server'.dashboard \in {server.dashboard, {<<>>}}
  BY <1>2, <1>5
<1>8. CreatorInv'
  <2>1. \A m \in Collector : pc'[m] \in CreatorSteps => m = n
    BY <1>5, <1>6 DEF Moved
  <2>2. attempt[n] + 1 # 1
    BY <1>1, SetupAssumption
  <2>3. pc'[n] \in CreatorSteps => pc'[n] = "dashboard" /\ attempt'[n] # 1
    BY <1>1, <1>5, <2>2, DistinctSteps
  <2>4. creators' = 1 /\ creators' <= server'.config
    BY <1>4, <1>6, <1>7 DEF Safe, CreatorInv
  <2> QED
    BY <2>1, <2>3, <2>4 DEF CreatorInv, OneCreator
<1>9. NoPanelTwice'
  BY <1>7 DEF Safe, NoPanelTwice, IsInjective
<1>10. CopyInv'
  <2>1. \A m \in Collector : pc'[m] = "put" => pc[m] = "put" /\ m # n
    BY <1>1, <1>5, DistinctSteps DEF Moved
  <2>2. CASE server'.dashboard = server.dashboard
    <3>1. stale' = stale
      BY <2>2 DEF PutDashboard, Outdates
    <3> QED
      BY <1>4, <2>1, <2>2, <3>1 DEF Safe, CopyInv
  <2>3. CASE server'.dashboard # server.dashboard
    <3>1. stale' = Collector \ {n} /\ server'.dashboard = {<<>>}
      BY <1>7, <2>3 DEF PutDashboard, Outdates
    <3> QED
      BY <1>4, <2>1, <3>1 DEF Safe, CopyInv
  <2> QED
    BY <2>2, <2>3
<1> QED
  BY <1>8, <1>9, <1>10 DEF Safe

\* A collector that is going to write has just read the dashboard, and has not
\* found its panel.
LEMMA GetDashboardSafe ==
  ASSUME Typed, Safe, NEW n \in Collector, GetDashboard(n)
  PROVE  Safe'
<1>1. /\ TypeOK /\ server.config \in Nat /\ IsInjective(read[n]) /\ pc[n] = "get"
      /\ index[n] <= PanelsPerNode
      /\ creators' = creators
  BY ServerFields, PanelTyped DEF Typed, TypeOK, Safe, CopyInv, GetDashboard
<1>2. CASE DashboardFound(n)
  <2>1. PICK ps \in server.dashboard :
          /\ read' = [read EXCEPT ![n] = ps]
          /\ stale' = stale \ {n}
          /\ \/ /\ Present(ps, <<n, index[n]>>)
                /\ Answered(n, server, NextPanel(n))
                /\ Advance(n)
             \/ /\ ~Present(ps, <<n, index[n]>>)
                /\ Answered(n, server, "put")
                /\ UNCHANGED index
    BY <1>2 DEF DashboardFound
  <2>2. /\ server' = server /\ read'[n] = ps
        /\ \A m \in Collector \ {n} : read'[m] = read[m] /\ (m \in stale' <=> m \in stale)
    BY <1>1, <2>1 DEF Answered, TypeOK
  <2>3. IsInjective(ps)
    BY <2>1 DEF Safe, NoPanelTwice
  <2>4. CASE Answered(n, server, NextPanel(n)) /\ Advance(n)
    <3>1. /\ NextPanel(n) \in {"get", "done"} /\ NextPanel(n) \in Places
          /\ \A m \in Collector \ {n} : index'[m] = index[m]
      BY <1>1, <2>4, NextPanelTyped
    <3>2. Moved(n) /\ pc'[n] = NextPanel(n)
      BY <1>1, <2>4, <3>1, GotoMoved DEF Answered
    <3>3. pc'[n] \notin CreatorSteps /\ pc'[n] # "put"
      BY <3>1, <3>2, DistinctSteps
    <3>4. server'.config >= server.config
      BY <1>1, <2>2
    <3> QED
      BY <1>1, <2>2, <2>3, <3>1, <3>2, <3>3, <3>4, QuietSafe DEF Moved
  <2>5. CASE /\ ~Present(ps, <<n, index[n]>>) /\ Answered(n, server, "put")
             /\ UNCHANGED index
    <3>1. Moved(n) /\ pc'[n] = "put"
      BY <1>1, <2>5, GotoMoved DEF Answered, Places
    <3>2. CreatorInv'
      BY <1>1, <2>2, <3>1, DistinctSteps DEF Safe, CreatorInv, OneCreator, Moved
    <3>3. NoPanelTwice'
      BY <2>2 DEF Safe, NoPanelTwice
    <3>4. server.dashboard = {ps}
      BY <2>1 DEF Safe, CopyInv
    <3>5. <<n, index[n]>> \notin ToSet(ps)
      BY <2>5 DEF Present
    <3>6. CopyInv'
      <4>1. ASSUME NEW k \in Collector
            PROVE  /\ IsInjective(read'[k])
                   /\ pc'[k] = "put" =>
                        server'.dashboard # {} /\ <<k, index'[k]>> \notin ToSet(read'[k])
                   /\ pc'[k] = "put" /\ k \notin stale' =>
                        server'.dashboard \in {{read'[k]}, {Append(read'[k], <<k, index'[k]>>)}}
        <5>1. CASE k = n
          BY <2>2, <2>3, <2>5, <3>4, <3>5, <5>1
        <5>2. CASE k # n
          BY <2>2, <2>5, <3>1, <5>2 DEF Safe, CopyInv, Moved
        <5> QED
          BY <5>1, <5>2
      <4> QED
        BY <2>2, <4>1 DEF Safe, CopyInv
    <3> QED
      BY <3>2, <3>3, <3>6 DEF Safe
  <2> QED
    BY <2>1, <2>4, <2>5
<1>3. CASE ~DashboardFound(n)
  <2>1. UNCHANGED <<index, read, stale>>
    BY <1>3 DEF GetDashboard
  <2>2. Moved(n) /\ server' = server /\ pc'[n] \in {"get", "done"}
    <3>1. CASE Answered(n, server, "done")
      BY <1>1, <3>1, GotoMoved DEF Answered, Places
    <3>2. CASE Failed(n, server)
      <4>1. OnError(pc[n]) = "done"
        BY <1>1, OnErrorPlace DEF Places
      <4> QED
        BY <1>1, <3>2, <4>1, FailedMoved
    <3> QED
      BY <1>3, <3>1, <3>2 DEF GetDashboard
  <2>3. pc'[n] \notin CreatorSteps /\ pc'[n] # "put"
    BY <2>2, DistinctSteps
  <2>4. server'.config >= server.config
    BY <1>1, <2>2
  <2> QED
    BY <1>1, <2>1, <2>2, <2>3, <2>4, QuietSafe DEF Moved
<1> QED
  BY <1>2, <1>3

\* What PutPanel does to the dashboard: nothing, or the panel behind the copy.
LEMMA PutPanelMoved ==
  ASSUME Typed, NEW n \in Collector, PutPanel(n)
  PROVE  /\ Moved(n) /\ pc'[n] \in {"get", "put", "done"}
         /\ pc'[n] = "put" => attempt'[n] = attempt[n] + 1 /\ index'[n] = index[n]
         /\ \A m \in Collector \ {n} : index'[m] = index[m]
         /\ UNCHANGED <<read, creators>>
         /\ server'.config = server.config
         /\ server'.dashboard \in {server.dashboard, {Append(read[n], <<n, index[n]>>)}}
<1> DEFINE p == <<n, index[n]>>
           effect == [server EXCEPT !.dashboard = {WithPanel(read[n], p)}]
<1>1. /\ TypeOK /\ server \in Server /\ pc[n] = "put" /\ index[n] <= PanelsPerNode
      /\ UNCHANGED <<read, creators>>
  BY PanelTyped DEF Typed, TypeOK, PutPanel
<1>2. /\ effect.config = server.config
      /\ effect.dashboard = {Append(read[n], p)}
  BY <1>1 DEF Server, WithPanel
<1>3. \/ Answered(n, effect, NextPanel(n)) /\ Advance(n)
      \/ Failed(n, effect) /\ UNCHANGED index
  BY DEF PutPanel
<1> HIDE DEF effect
<1>4. CASE Answered(n, effect, NextPanel(n)) /\ Advance(n)
  <2>1. /\ NextPanel(n) \in {"get", "done"} /\ NextPanel(n) \in Places
        /\ \A m \in Collector \ {n} : index'[m] = index[m]
    BY <1>1, <1>4, NextPanelTyped
  <2>2. Goto(n, NextPanel(n)) /\ server' = effect
    BY <1>4 DEF Answered
  <2>3. Moved(n) /\ pc'[n] = NextPanel(n)
    BY <1>1, <2>1, <2>2, GotoMoved
  <2> QED
    BY <1>1, <1>2, <2>1, <2>2, <2>3
<1>5. CASE Failed(n, effect) /\ UNCHANGED index
  <2>1. OnError(pc[n]) = "done"
    BY <1>1, OnErrorPlace DEF Places
  <2>2. /\ Moved(n) /\ server' \in {server, effect}
        /\ \/ pc' = pc /\ attempt'[n] = attempt[n] + 1
           \/ pc'[n] = "done"
    BY <1>1, <1>5, <2>1, FailedMoved
  <2> QED
    BY <1>1, <1>2, <1>5, <2>2
<1> QED
  BY <1>3, <1>4, <1>5

\* The copy with the panel has none twice, and every other copy is an old one.
LEMMA PutPanelSafe ==
  ASSUME Typed, Safe, NEW n \in Collector, PutPanel(n)
  PROVE  Safe'
<1> DEFINE p == <<n, index[n]>>
<1>1. /\ Moved(n) /\ pc'[n] \in {"get", "put", "done"}
      /\ pc'[n] = "put" => index'[n] = index[n]
      /\ \A m \in Collector \ {n} : index'[m] = index[m]
      /\ UNCHANGED <<read, creators>>
      /\ server'.config = server.config
      /\ server'.dashboard \in {server.dashboard, {Append(read[n], p)}}
  BY PutPanelMoved
<1>2. /\ pc[n] = "put" /\ p \in Panel /\ read[n] \in Seq(Panel)
      /\ IsInjective(read[n]) /\ p \notin ToSet(read[n]) /\ server.dashboard # {}
  BY PanelTyped DEF PutPanel, Typed, TypeOK, Safe, CopyInv
<1>3. IsInjective(Append(read[n], p))
  BY <1>2, AppendNew
<1>4. server'.dashboard # {}
  BY <1>1, <1>2
<1>5. CreatorInv'
  <2>1. creators # 0
    BY <1>2 DEF Safe, CreatorInv
  <2>2. \A m \in Collector : pc'[m] \in CreatorSteps =>
          /\ pc[m] \in CreatorSteps /\ pc'[m] = pc[m] /\ attempt'[m] = attempt[m]
    BY <1>1, DistinctSteps DEF Moved
  <2>3. creators' <= 1 /\ creators' <= server'.config
    BY <1>1 DEF Safe, CreatorInv, OneCreator
  <2>4. \A m \in Collector : pc'[m] \in CreatorSteps =>
          ~(pc'[m] # "dashboard" \/ attempt'[m] = 1)
    BY <1>2, <2>2 DEF Safe, CreatorInv
  <2> QED
    BY <1>1, <2>1, <2>2, <2>3, <2>4 DEF Safe, CreatorInv, OneCreator
<1>6. NoPanelTwice'
  BY <1>1, <1>3 DEF Safe, NoPanelTwice
<1>7. CopyInv'
  <2>1. \A ps, qs \in server'.dashboard : ps = qs
    BY <1>1 DEF Safe, CopyInv
  <2>2. ASSUME NEW m \in Collector
        PROVE  /\ IsInjective(read'[m])
               /\ pc'[m] = "put" =>
                    server'.dashboard # {} /\ <<m, index'[m]>> \notin ToSet(read'[m])
    BY <1>1, <1>2, <1>4 DEF Safe, CopyInv, Moved
  <2>3. ASSUME NEW m \in Collector, pc'[m] = "put", m \notin stale'
        PROVE  server'.dashboard \in {{read'[m]}, {Append(read'[m], <<m, index'[m]>>)}}
    <3>1. CASE server'.dashboard = server.dashboard
      <4>1. m \notin stale
        BY <2>3, <3>1 DEF PutPanel, Outdates
      <4>2. pc[m] = "put" /\ index'[m] = index[m]
        BY <1>1, <1>2, <2>3 DEF Moved
      <4> QED
        BY <1>1, <2>3, <3>1, <4>1, <4>2 DEF Safe, CopyInv
    <3>2. CASE server'.dashboard # server.dashboard
      <4>1. m = n
        BY <2>3, <3>2 DEF PutPanel, Outdates
      <4> QED
        BY <1>1, <2>3, <3>2, <4>1
    <3> QED
      BY <3>1, <3>2
  <2> QED
    BY <2>1, <2>2, <2>3 DEF CopyInv
<1> QED
  BY <1>5, <1>6, <1>7 DEF Safe

LEMMA StepSafe == Typed /\ Safe /\ [Next]_vars => Safe'
<1> SUFFICES ASSUME Typed, Safe, [Next]_vars PROVE Safe'
  OBVIOUS
<1>1. TypeOK
  BY DEF Typed
<1>2. ASSUME NEW n \in Collector, Step(n) \/ Restart(n)
      PROVE  Safe'
  <2>1. CASE IndexExists(n) \/ CreateIndex(n) \/ PutMapping(n) \/ BulkNode(n) \/ Restart(n)
    BY <1>1, <2>1, OutsideSafe
  <2>2. CASE PutConfig(n) \/ BulkCluster(n) \/ PutDashboard(n)
    BY <1>1, <2>2, PutConfigSafe, BulkClusterSafe, PutDashboardSafe
  <2>3. CASE GetDashboard(n) \/ PutPanel(n)
    BY <2>3, GetDashboardSafe, PutPanelSafe
  <2> QED
    BY <1>2, <2>1, <2>2, <2>3 DEF Step
<1>3. CASE Hang \/ UNCHANGED vars
  BY <1>3, HangKeeps DEF Safe, CreatorInv, NoPanelTwice, CopyInv, OneCreator
<1> QED
  BY <1>2, <1>3 DEF Next

\* The collector that creates the cluster is the only one, and until it has
\* written the dashboard there is none; what a collector is about to write back
\* has no panel twice, and is the present dashboard unless somebody wrote it.
THEOREM SetupInvariant == Spec => []IInv
<1>1. Typed /\ Safe => IInv
  BY DEF Typed, Safe, IInv
<1> QED
  BY InitTyped, InitSafe, StepTyped, StepSafe, <1>1, PTL DEF Spec

\* At most one collector ever creates the cluster's documents.
THEOREM OneCreatorCorrect == Spec => []OneCreator
<1>1. IInv => OneCreator
  BY DEF IInv, CreatorInv
<1> QED
  BY SetupInvariant, <1>1, PTL

\* No panel is on the dashboard twice.
THEOREM NoPanelTwiceCorrect == Spec => []NoPanelTwice
<1>1. IInv => NoPanelTwice
  BY DEF IInv
<1> QED
  BY SetupInvariant, <1>1, PTL

\* A write of the dashboard that is neither a stale copy nor the empty dashboard
\* once more keeps every panel.
LEMMA ShownKept ==
  ASSUME Typed, Safe, NEW n \in Collector, PutDashboard(n) \/ PutPanel(n),
         ~(pc[n] = "put" /\ n \in stale), ~(pc[n] = "dashboard" /\ attempt[n] > 1)
  PROVE  Shown(server) \subseteq Shown(server')
<1>1. CASE PutDashboard(n)
  <2>1. pc[n] = "dashboard" /\ pc[n] \in CreatorSteps /\ attempt[n] \in 1..MaxAttempts
    BY <1>1, DistinctSteps DEF PutDashboard, Typed, TypeOK
  <2>2. attempt[n] = 1
    BY <2>1, SetupAssumption
  <2>3. server.dashboard = {}
    BY <2>1, <2>2 DEF Safe, CreatorInv
  <2> QED
    BY <2>3 DEF Shown
<1>2. CASE PutPanel(n)
  <2>1. pc[n] = "put" /\ n \notin stale
    BY <1>2 DEF PutPanel
  <2>2. server'.dashboard \in {server.dashboard, {Append(read[n], <<n, index[n]>>)}}
    BY <1>2, PutPanelMoved
  <2>3. server.dashboard \in {{read[n]}, {Append(read[n], <<n, index[n]>>)}}
    BY <2>1 DEF Safe, CopyInv
  <2>4. <<n, index[n]>> \in Panel /\ read[n] \in Seq(Panel)
    BY <2>1, PanelTyped DEF Typed, TypeOK
  <2>5. ToSet(read[n]) \subseteq ToSet(Append(read[n], <<n, index[n]>>))
    BY <2>4, AppendKeeps
  <2> QED
    BY <2>2, <2>3, <2>5 DEF Shown
<1> QED
  BY <1>1, <1>2

\* The other steps do not touch the dashboard.
LEMMA ShownUntouched ==
  ASSUME TypeOK, NEW n \in Collector,
         \/ IndexExists(n) \/ CreateIndex(n) \/ PutMapping(n) \/ PutConfig(n)
         \/ BulkCluster(n) \/ BulkNode(n) \/ GetDashboard(n) \/ Restart(n)
  PROVE  server'.dashboard = server.dashboard
<1> USE DEF Request, Bulk, Answered, Failed
<1>1. server \in Server
  BY DEF TypeOK
<1>2. CASE IndexExists(n)
  BY <1>2 DEF IndexExists
<1>3. CASE CreateIndex(n)
  BY <1>1, <1>3 DEF CreateIndex, WithIndex, Server
<1>4. CASE PutMapping(n)
  BY <1>1, <1>4 DEF PutMapping, WithMapping, Server
<1>5. CASE PutConfig(n)
  BY <1>1, <1>5 DEF PutConfig, WithConfig, Server
<1>6. CASE BulkCluster(n)
  BY <1>1, <1>6 DEF BulkCluster, Server
<1>7. CASE BulkNode(n)
  BY <1>1, <1>7 DEF BulkNode, Server
<1>8. CASE GetDashboard(n) \/ Restart(n)
  BY <1>8 DEF GetDashboard, DashboardFound, Restart
<1> QED
  BY <1>2, <1>3, <1>4, <1>5, <1>6, <1>7, <1>8

\* A step that writes the dashboard moves its collector on.
LEMMA WriterMoves ==
  ASSUME Typed, NEW n \in Collector, PutDashboard(n) \/ PutPanel(n)
  PROVE  <<pc[n], attempt[n]>>' # <<pc[n], attempt[n]>>
<1>1. attempt[n] \in Nat /\ attempt[n] + 1 # attempt[n]
  BY SetupAssumption DEF Typed, TypeOK
<1>2. CASE PutDashboard(n)
  <2>1. TypeOK /\ pc[n] = "dashboard" /\ OnError(pc[n]) = "node search" /\ "node search" \in Places
    BY <1>2, OnErrorPlace DEF PutDashboard, Typed, Places, CreatorSteps, NodeType
  <2>2. \/ pc' = pc /\ attempt'[n] = attempt[n] + 1
        \/ pc'[n] = "node search"
    BY <1>2, <2>1, RequestMoved DEF PutDashboard
  <2> QED
    BY <1>1, <2>1, <2>2
<1>3. CASE PutPanel(n)
  <2>1. pc[n] = "put"
    BY <1>3 DEF PutPanel
  <2> QED
    BY <1>1, <1>3, <2>1, PutPanelMoved
<1> QED
  BY <1>2, <1>3

\* Only a stale copy, or the empty dashboard sent once more, makes a panel go.
THEOREM PanelsLostCorrect == Spec => PanelsLostByStaleWrite
<1> DEFINE Kept ==
      \/ Shown(server) \subseteq Shown(server')
      \/ \E n \in Collector :
           /\ <<pc[n], attempt[n]>>' # <<pc[n], attempt[n]>>
           /\ \/ pc[n] = "put" /\ n \in stale
              \/ pc[n] = "dashboard" /\ attempt[n] > 1
<1>1. Typed /\ Safe /\ [Next]_vars => [Kept]_vars
  <2> SUFFICES ASSUME Typed, Safe, ~Hang, NEW n \in Collector, Step(n) \/ Restart(n)
               PROVE  Kept
    <3>1. Hang => Kept
      BY HangKeeps
    <3> HIDE DEF Kept
    <3> QED
      BY <3>1, Zenon DEF Next
  <2>2. CASE PutDashboard(n) \/ PutPanel(n)
    <3>1. CASE pc[n] = "put" /\ n \in stale
      BY <2>2, <3>1, WriterMoves
    <3>2. CASE pc[n] = "dashboard" /\ attempt[n] > 1
      BY <2>2, <3>2, WriterMoves
    <3>3. CASE ~(pc[n] = "put" /\ n \in stale) /\ ~(pc[n] = "dashboard" /\ attempt[n] > 1)
      BY <2>2, <3>3, ShownKept
    <3> HIDE DEF Kept
    <3> QED
      BY <3>1, <3>2, <3>3, Zenon
  <2>3. CASE ~(PutDashboard(n) \/ PutPanel(n))
    <3>1. server'.dashboard = server.dashboard
      BY <2>3, ShownUntouched DEF Step, Typed
    <3> QED
      BY <3>1 DEF Shown
  <2> QED
    BY <2>2, <2>3
<1>2. Spec => [](Typed /\ Safe)
  BY InitTyped, InitSafe, StepTyped, StepSafe, PTL DEF Spec
<1> QED
  BY <1>1, <1>2, PTL DEF Spec, PanelsLostByStaleWrite
-----------------------------------------------------------------------------
(* As long as no request fails *)

\* The step of n from one request to the next, answered, or its restart.
Follows(n) ==
  \/ /\ restarts' # restarts /\ pc'[n] = "exists" /\ server' = server
  \/ /\ pc[n] = "exists" /\ server' = server
     /\ pc'[n] = IF server.index THEN "mapping" ELSE "create"
  \/ /\ pc[n] = "create" /\ server' = WithIndex(server)
     /\ pc'[n] = IF server.index THEN "exit" ELSE "mapping"
  \/ /\ pc[n] = "mapping" /\ server' = WithMapping(server) /\ pc'[n] = "config"
  \/ /\ pc[n] = "config" /\ server' = WithConfig(server)
     /\ pc'[n] = IF server.config = 0 THEN "index-pattern" ELSE "node search"
  \/ /\ pc[n] \in ClusterType /\ pc'[n] = After(pc[n])
     /\ server' = [server EXCEPT !.cluster = @ \cup {pc[n]}]
  \/ /\ pc[n] = "dashboard" /\ pc'[n] = "node search"
     /\ server' = [server EXCEPT !.dashboard = {<<>>}]
  \/ /\ pc[n] \in NodeType /\ pc'[n] \in {"node visualization", "get"}
     /\ server' = [server EXCEPT !.nodes = @ \cup {<<n, pc[n]>>}]
  \/ /\ pc[n] = "get" /\ pc'[n] \in {"get", "put", "done"} /\ server' = server
  \/ /\ pc[n] = "put" /\ pc'[n] \in {"get", "done"}
     /\ \E ps : server' = [server EXCEPT !.dashboard = {ps}]

\* A request that has not failed was answered.
LEMMA NotFailed ==
  ASSUME TypeOK, NEW n \in Collector, NEW effect, NEW next, faults' = 0
  PROVE  /\ ~Failed(n, effect)
         /\ Bulk(n, effect, next) => Answered(n, effect, next)
<1>1. faults \in Nat
  BY SetupAssumption DEF TypeOK
<1>2. faults' # faults + 1
  BY <1>1
<1> QED
  BY <1>2 DEF Failed, Bulk, Request

\* Every step, if no request has failed.
LEMMA QuietStep ==
  ASSUME TypeOK, NEW n \in Collector, Step(n) \/ Restart(n), faults' = 0
  PROVE  /\ faults = 0
         /\ \A m \in Collector \ {n} : pc'[m] = pc[m]
         /\ restarts \in Nat /\ (restarts' = 0 => restarts = 0)
         /\ Follows(n)
<1>1. \A effect, next : ~Failed(n, effect)
                        /\ (Bulk(n, effect, next) => Answered(n, effect, next))
  BY NotFailed
<1>2. \A effect, next : Answered(n, effect, next) =>
        /\ faults = 0 /\ server' = effect /\ pc'[n] = next
        /\ \A m \in Collector \ {n} : pc'[m] = pc[m]
  BY DEF Answered, Goto, TypeOK
<1>3. restarts \in Nat
  BY SetupAssumption DEF TypeOK
<1>4. ASSUME NEW effect, NEW next, Answered(n, effect, next), restarts' = restarts,
             server' = effect /\ pc'[n] = next => Follows(n)
      PROVE  /\ faults = 0 /\ \A m \in Collector \ {n} : pc'[m] = pc[m]
             /\ (restarts' = 0 => restarts = 0) /\ Follows(n)
  BY <1>2, <1>4
<1>5. CASE IndexExists(n)
  <2> DEFINE next == IF Missing(server) THEN "create" ELSE "mapping"
  <2>1. Answered(n, server, next) /\ restarts' = restarts /\ pc[n] = "exists"
    BY <1>1, <1>5 DEF IndexExists, Request
  <2>2. server' = server /\ pc'[n] = next => Follows(n)
    BY <2>1 DEF Follows, Missing
  <2> QED
    BY <1>3, <1>4, <2>1, <2>2
<1>6. CASE CreateIndex(n)
  <2> DEFINE next == IF server.index THEN "exit" ELSE "mapping"
  <2>1. Answered(n, WithIndex(server), next) /\ restarts' = restarts /\ pc[n] = "create"
    BY <1>1, <1>6 DEF CreateIndex, Request
  <2>2. server' = WithIndex(server) /\ pc'[n] = next => Follows(n)
    BY <2>1 DEF Follows
  <2> QED
    BY <1>3, <1>4, <2>1, <2>2
<1>7. CASE PutMapping(n)
  <2>1. Answered(n, WithMapping(server), "config") /\ restarts' = restarts
        /\ pc[n] = "mapping"
    BY <1>1, <1>7 DEF PutMapping, Request
  <2>2. server' = WithMapping(server) /\ pc'[n] = "config" => Follows(n)
    BY <2>1 DEF Follows
  <2> QED
    BY <1>3, <1>4, <2>1, <2>2
<1>8. CASE PutConfig(n)
  <2> DEFINE next == IF FirstVersion(server) THEN "index-pattern" ELSE "node search"
  <2>1. Answered(n, WithConfig(server), next) /\ restarts' = restarts /\ pc[n] = "config"
    BY <1>1, <1>8 DEF PutConfig, Request
  <2>2. server' = WithConfig(server) /\ pc'[n] = next => Follows(n)
    BY <2>1 DEF Follows, FirstVersion
  <2> QED
    BY <1>3, <1>4, <2>1, <2>2
<1>9. CASE BulkCluster(n)
  <2> DEFINE effect == [server EXCEPT !.cluster = @ \cup {pc[n]}]
  <2>1. Answered(n, effect, After(pc[n])) /\ restarts' = restarts /\ pc[n] \in ClusterType
    BY <1>1, <1>9 DEF BulkCluster
  <2>2. server' = effect /\ pc'[n] = After(pc[n]) => Follows(n)
    BY <2>1 DEF Follows
  <2> QED
    BY <1>3, <1>4, <2>1, <2>2
<1>10. CASE PutDashboard(n)
  <2> DEFINE effect == [server EXCEPT !.dashboard = {<<>>}]
  <2>1. Answered(n, effect, "node search") /\ restarts' = restarts /\ pc[n] = "dashboard"
    BY <1>1, <1>10 DEF PutDashboard, Request
  <2>2. server' = effect /\ pc'[n] = "node search" => Follows(n)
    BY <2>1 DEF Follows
  <2> QED
    BY <1>3, <1>4, <2>1, <2>2
<1>11. CASE BulkNode(n)
  <2> DEFINE effect == [server EXCEPT !.nodes = @ \cup {<<n, pc[n]>>}]
             next == IF pc[n] = "node search" THEN "node visualization" ELSE "get"
  <2>1. Answered(n, effect, next) /\ restarts' = restarts /\ pc[n] \in NodeType
    BY <1>1, <1>11 DEF BulkNode
  <2>2. server' = effect /\ pc'[n] = next => Follows(n)
    BY <2>1 DEF Follows
  <2> QED
    BY <1>3, <1>4, <2>1, <2>2
<1>12. CASE GetDashboard(n)
  <2>1. PICK next \in {"get", "put", "done"} : Answered(n, server, next)
    BY <1>1, <1>12 DEF GetDashboard, DashboardFound, NextPanel
  <2>2. restarts' = restarts /\ pc[n] = "get"
    BY <1>12 DEF GetDashboard
  <2>3. server' = server /\ pc'[n] = next => Follows(n)
    BY <2>2 DEF Follows
  <2> QED
    BY <1>3, <1>4, <2>1, <2>2, <2>3
<1>13. CASE PutPanel(n)
  <2> DEFINE ps == WithPanel(read[n], <<n, index[n]>>)
             effect == [server EXCEPT !.dashboard = {ps}]
  <2>1. Answered(n, effect, NextPanel(n)) /\ restarts' = restarts /\ pc[n] = "put"
    BY <1>1, <1>13 DEF PutPanel
  <2>2. NextPanel(n) \in {"get", "done"}
    BY DEF NextPanel
  <2> HIDE DEF ps
  <2>3. server' = effect /\ pc'[n] = NextPanel(n) => Follows(n)
    BY <2>1, <2>2 DEF Follows
  <2> HIDE DEF effect
  <2> QED
    BY <1>3, <1>4, <2>1, <2>3
<1>14. CASE Restart(n)
  <2>1. restarts' = restarts + 1 /\ server' = server /\ faults' = faults
    BY <1>14 DEF Restart
  <2>2. pc'[n] = "exists" /\ \A m \in Collector \ {n} : pc'[m] = pc[m]
    BY <1>14 DEF Restart, Goto, TypeOK
  <2>3. restarts' # restarts /\ restarts' # 0
    BY <1>3, <2>1
  <2> QED
    BY <1>3, <2>1, <2>2, <2>3 DEF Follows
<1> QED
  BY <1>5, <1>6, <1>7, <1>8, <1>9, <1>10, <1>11, <1>12, <1>13, <1>14 DEF Step

LEMMA StepStays == Typed /\ StayInv /\ [Next]_vars => StayInv'
<1> SUFFICES ASSUME TypeOK, StayInv, [Next]_vars, faults' = 0
             PROVE  IF server'.index THEN \E m \in Collector : pc'[m] \notin {"create", "exit"}
                    ELSE \A m \in Collector : pc'[m] # "exit"
  BY DEF Typed, StayInv
<1>1. CASE Hang \/ UNCHANGED vars
  BY <1>1, HangKeeps DEF StayInv
<1>2. ASSUME NEW n \in Collector, Step(n) \/ Restart(n)
      PROVE  IF server'.index THEN \E m \in Collector : pc'[m] \notin {"create", "exit"}
             ELSE \A m \in Collector : pc'[m] # "exit"
  <2>1. /\ faults = 0 /\ Follows(n)
        /\ \A m \in Collector \ {n} : pc'[m] = pc[m]
    BY <1>2, QuietStep
  <2>2. CASE pc[n] = "create" /\ pc'[n] = IF server.index THEN "exit" ELSE "mapping"
    <3>1. CASE server.index
      <4>1. PICK m \in Collector : pc[m] \notin {"create", "exit"}
        BY <2>1, <3>1 DEF StayInv
      <4>2. pc'[m] \notin {"create", "exit"}
        BY <2>1, <2>2, <4>1
      <4>3. server'.index
        BY <2>1, <2>2, <3>1, DistinctSteps, ServerFields
           DEF Follows, WithIndex, TypeOK, Server, NodeType, ClusterType
      <4> QED
        BY <4>2, <4>3
    <3>2. CASE ~server.index
      <4>1. pc'[n] = "mapping" /\ \A m \in Collector : pc'[m] # "exit"
        BY <2>1, <2>2, <3>2 DEF StayInv
      <4> QED
        BY <4>1
    <3> QED
      BY <3>1, <3>2
  <2>3. CASE ~(pc[n] = "create" /\ pc'[n] = IF server.index THEN "exit" ELSE "mapping")
    <3>1. server'.index = server.index
      BY <2>1, <2>3 DEF Follows, WithMapping, WithConfig, TypeOK, Server
    <3>2. pc'[n] # "exit" /\ (server.index => pc'[n] # "create")
      BY <2>1, <2>3 DEF Follows, After
    <3> QED
      BY <2>1, <3>1, <3>2 DEF StayInv
  <2> QED
    BY <2>2, <2>3
<1> QED
  BY <1>1, <1>2 DEF Next

\* Losing the race for the index of the day never ends all collectors.
THEOREM SomebodyStaysCorrect == Spec => []SomebodyStays
<1>1. Init => StayInv
  BY DEF Init, StayInv
<1>2. StayInv => SomebodyStays
  BY DEF StayInv, SomebodyStays
<1> QED
  BY InitTyped, StepTyped, StepStays, <1>1, <1>2, PTL DEF Spec

LEMMA StepDocuments == Typed /\ DocumentsInv /\ [Next]_vars => DocumentsInv'
<1> DEFINE Complete(s) == s.cluster = ClusterType /\ s.dashboard # {}
           At(step, s) == step \in CreatorSteps /\ Before(step) \subseteq s.cluster
<1> SUFFICES ASSUME TypeOK, DocumentsInv, [Next]_vars,
                    faults' = 0, restarts' = 0, server'.config > 0
             PROVE  Complete(server') \/ \E m \in Collector : At(pc'[m], server')
  BY DEF Typed, DocumentsInv
<1>1. CASE Hang \/ UNCHANGED vars
  BY <1>1, HangKeeps DEF DocumentsInv
<1>2. ASSUME NEW n \in Collector, Step(n) \/ Restart(n)
      PROVE  Complete(server') \/ \E m \in Collector : At(pc'[m], server')
  <2>1. /\ faults = 0 /\ restarts = 0 /\ restarts' = restarts /\ Follows(n)
        /\ \A m \in Collector \ {n} : pc'[m] = pc[m]
    BY <1>2, QuietStep
  <2>2. /\ server \in Server /\ server.config \in Nat
        /\ server.cluster \subseteq ClusterType
    BY DEF TypeOK, Server
  <2>3. /\ server.cluster \subseteq server'.cluster
        /\ server'.cluster \subseteq ClusterType
        /\ server.dashboard # {} => server'.dashboard # {}
    BY <2>1, <2>2 DEF Follows, WithIndex, WithMapping, WithConfig, Server
  <2>4. CASE server.config = 0
    <3>1. ~(pc[n] = "config" /\ pc'[n] = IF server.config = 0 THEN "index-pattern"
                                                            ELSE "node search")
          => server'.config = server.config
      BY <2>1, <2>2 DEF Follows, WithIndex, WithMapping, Server
    <3>2. server'.config # server.config
      BY <2>4
    <3>3. pc'[n] = "index-pattern"
      BY <2>4, <3>1, <3>2
    <3>4. Before("index-pattern") = {}
      BY DEF Before
    <3> QED
      BY <3>3, <3>4, DistinctSteps
  <2>5. CASE server.config # 0
    <3>1. server.config > 0
      BY <2>2, <2>5
    <3>2. CASE Complete(server)
      BY <2>3, <3>2
    <3>3. ASSUME NEW m \in Collector, At(pc[m], server)
          PROVE  Complete(server') \/ At(pc'[m], server')
      <4>1. CASE m # n
        BY <2>1, <2>3, <3>3, <4>1
      <4>2. CASE m = n /\ pc[n] \in ClusterType
        <5>3. /\ pc[n] \notin {"exists", "create", "mapping", "config", "dashboard"}
              /\ pc[n] \notin {"get", "put"} /\ pc[n] \notin NodeType
          BY <4>2 DEF ClusterType, NodeType
        <5>4. pc'[n] = After(pc[n]) /\ server' = [server EXCEPT !.cluster = @ \cup {pc[n]}]
          BY <2>1, <5>3 DEF Follows
        <5>1. /\ pc'[n] = After(pc[n])
              /\ server'.cluster = server.cluster \cup {pc[n]}
          BY <2>2, <5>4 DEF Server
        <5>2. Before(After(pc[n])) \subseteq Before(pc[n]) \cup {pc[n]}
              /\ After(pc[n]) \in CreatorSteps
          BY <4>2 DEF Before, After, ClusterType, CreatorSteps
        <5> QED
          BY <3>3, <4>2, <5>1, <5>2
      <4>3. CASE m = n /\ pc[n] = "dashboard"
        <5>3. /\ pc[n] \notin {"exists", "create", "mapping", "config", "get", "put"}
              /\ pc[n] \notin ClusterType /\ pc[n] \notin NodeType
          BY <4>3 DEF ClusterType, NodeType
        <5>4. server' = [server EXCEPT !.dashboard = {<<>>}]
          BY <2>1, <5>3 DEF Follows
        <5>1. server'.dashboard # {} /\ server'.cluster = server.cluster
          BY <2>2, <5>4 DEF Server
        <5>2. Before(pc[n]) = ClusterType
          BY <4>3 DEF Before
        <5> QED
          BY <2>2, <3>3, <4>3, <5>1, <5>2
      <4> QED
        BY <3>3, <4>1, <4>2, <4>3 DEF CreatorSteps
    <3> QED
      BY <2>1, <3>1, <3>2, <3>3 DEF DocumentsInv
  <2> QED
    BY <2>4, <2>5
<1> QED
  BY <1>1, <1>2 DEF Next

\* Without failures all documents are there once the creator is done with them.
THEOREM CompleteCorrect == Spec => []CompleteIfUndisturbed
<1>1. Init => DocumentsInv
  BY DEF Init, DocumentsInv
<1>2. DocumentsInv => CompleteIfUndisturbed
  BY DEF DocumentsInv, CompleteIfUndisturbed
<1> QED
  BY InitTyped, StepTyped, StepDocuments, <1>1, <1>2, PTL DEF Spec
=============================================================================
