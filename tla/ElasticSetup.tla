---------------------------- MODULE ElasticSetup -----------------------------
(***************************************************************************)
(* What the collectors of a cluster do to Elasticsearch when they start:   *)
(* InitElasticDb (the index of the day and its mapping), CreateCluster     *)
(* (the Kibana documents of the cluster) and CreateNode (those of the      *)
(* node, and its panels on the dashboard that all nodes share).            *)
(*                                                                         *)
(* Each collector is a sequence of requests; pc[n] is the one it is at.    *)
(* The vendored client sends a request whose answer does not come again,   *)
(* without knowing whether it has taken effect (PerformRequest; the module *)
(* ElasticClient has it in detail).  It sets no time limit on a request:   *)
(* while a server takes requests and does not answer them, nobody goes on. *)
(* A collector may die at any point and be started again.                  *)
(*                                                                         *)
(* A bulk request stands for one document of its type.  The panels that    *)
(* configs.json has on the dashboard from the beginning are left out, and  *)
(* so is the place of a panel (see FittablePos).  The configuration files  *)
(* are readable and have all the types, as those of the repository.        *)
(***************************************************************************)
EXTENDS Naturals, Sequences, FiniteSets, SequencesExt

CONSTANTS
  Collector,      \* the nodes of the cluster, one collector on each
  PanelsPerNode,  \* the visualizations in templates.json
  MaxAttempts,    \* SetMaxRetries: how often a request is sent
  MaxFaults,      \* bound: requests that are lost or refused
  MaxRestarts     \* bound: collectors that die

ASSUME SetupAssumption ==
  /\ IsFiniteSet(Collector)
  /\ PanelsPerNode \in Nat \ {0} /\ MaxAttempts \in Nat \ {0}
  /\ MaxFaults \in Nat /\ MaxRestarts \in Nat

ClusterType == {"index-pattern", "search", "visualization"}
NodeType == {"node search", "node visualization"}
InitSteps == {"exists", "create", "mapping"}
CreatorSteps == ClusterType \cup {"dashboard"}

Panel == Collector \X (1..PanelsPerNode)

VARIABLES
  server,    \* what Elasticsearch holds
  hung,      \* it takes requests and answers none
  pc,        \* the request a collector is at, "done" or "exit"
  attempt,   \* how often it has sent that request
  index,     \* the panel that CreateNode is at
  read,      \* the panels of the dashboard as the collector has got them
  faults, restarts,
  \* history, read by no action
  creators,  \* how often CreateCluster has gone on past the config document
  stale      \* collectors whose copy of the dashboard is not the present one

local == <<pc, attempt, index, read>>
history == <<creators, stale>>
vars == <<server, hung, local, faults, restarts, history>>

\* dashboard has one element, the sequence of the panels, or none.
Server == [index : BOOLEAN, mapping : BOOLEAN, config : Nat, cluster : SUBSET ClusterType,
           nodes : SUBSET (Collector \X NodeType), dashboard : SUBSET Seq(Panel)]
-----------------------------------------------------------------------------
(* Requests *)

Goto(n, step) ==
  /\ pc' = [pc EXCEPT ![n] = step]
  /\ attempt' = [attempt EXCEPT ![n] = 1]

\* A failed request ends InitElasticDb, and with it the process; CreateCluster,
\* after which main calls CreateNode; or CreateNode.
OnError(step) ==
  CASE step \in InitSteps -> "exit"
    [] step \in CreatorSteps \cup {"config"} -> "node search"
    [] OTHER -> "done"

\* Faulty variant of TryAgain: one attempt too many.
TryOnceMore(n) == attempt[n] <= MaxAttempts

TryAgain(n) == attempt[n] < MaxAttempts

Answered(n, effect, next) ==
  /\ ~hung
  /\ server' = effect
  /\ Goto(n, next)
  /\ UNCHANGED faults

\* No answer, or an error for an answer: the request may have taken effect.  The
\* first is tried again, a number of times, the second is not.
Failed(n, effect) ==
  /\ faults < MaxFaults
  /\ faults' = faults + 1
  /\ server' \in {server, effect}
  /\ \/ /\ TryAgain(n)
        /\ attempt' = [attempt EXCEPT ![n] = @ + 1]
        /\ UNCHANGED pc
     \/ Goto(n, OnError(pc[n]))

Request(n, effect, next) == Answered(n, effect, next) \/ Failed(n, effect)

\* A bulk request is answered even if the server has rejected its documents:
\* nobody looks at the errors of the single items.
Bulk(n, effect, next) ==
  \/ Request(n, effect, next)
  \/ /\ ~hung /\ faults < MaxFaults
     /\ faults' = faults + 1
     /\ Goto(n, next)
     /\ UNCHANGED server
-----------------------------------------------------------------------------
(* InitElasticDb *)

\* Faulty variant of Missing: nobody asks whether the index exists.
AlwaysMissing(s) == TRUE

Missing(s) == ~s.index

IndexExists(n) ==
  /\ pc[n] = "exists"
  /\ Request(n, server, IF Missing(server) THEN "create" ELSE "mapping")
  /\ UNCHANGED <<index, read, hung, restarts, history>>

WithIndex(s) == [s EXCEPT !.index = TRUE]

\* Creating an index that exists is an error, also if it is this collector's own
\* earlier attempt that has created it.
CreateIndex(n) ==
  /\ pc[n] = "create"
  /\ Request(n, WithIndex(server), IF server.index THEN "exit" ELSE "mapping")
  /\ UNCHANGED <<index, read, hung, restarts, history>>

\* The mapping is put on the indices that match "<name>*".
WithMapping(s) == [s EXCEPT !.mapping = s.index]

PutMapping(n) ==
  /\ pc[n] = "mapping"
  /\ Request(n, WithMapping(server), "config")
  /\ UNCHANGED <<index, read, hung, restarts, history>>
-----------------------------------------------------------------------------
(* CreateCluster *)

\* Faulty variant of FirstVersion: the version is not looked at.
AnyVersion(s) == TRUE

\* The version of the config document after this write is 1.
FirstVersion(s) == s.config = 0

\* The server counts the versions of a document.
WithConfig(s) == [s EXCEPT !.config = @ + 1]

PutConfig(n) ==
  /\ pc[n] = "config"
  /\ Request(n, WithConfig(server),
             IF FirstVersion(server) THEN "index-pattern" ELSE "node search")
  /\ creators' = IF pc'[n] = "index-pattern" THEN creators + 1 ELSE creators
  /\ UNCHANGED <<index, read, hung, restarts, stale>>

\* Faulty variant of After: the search is left out.
AfterWithoutSearch(step) ==
  CASE step = "index-pattern" -> "visualization"
    [] step = "search" -> "visualization"
    [] OTHER -> "dashboard"

After(step) ==
  CASE step = "index-pattern" -> "search"
    [] step = "search" -> "visualization"
    [] OTHER -> "dashboard"

BulkCluster(n) ==
  /\ pc[n] \in ClusterType
  /\ Bulk(n, [server EXCEPT !.cluster = @ \cup {pc[n]}], After(pc[n]))
  /\ UNCHANGED <<index, read, hung, restarts, history>>

\* A write of the dashboard by n makes every other copy of it an old one.
Outdates(n) ==
  stale' = IF server'.dashboard = server.dashboard THEN stale ELSE Collector \ {n}

\* The dashboard is written as configs.json has it, over whatever is there.
PutDashboard(n) ==
  /\ pc[n] = "dashboard"
  /\ Request(n, [server EXCEPT !.dashboard = {<<>>}], "node search")
  /\ Outdates(n)
  /\ UNCHANGED <<index, read, hung, restarts, creators>>
-----------------------------------------------------------------------------
(* CreateNode *)

BulkNode(n) ==
  /\ pc[n] \in NodeType
  /\ Bulk(n, [server EXCEPT !.nodes = @ \cup {<<n, pc[n]>>}],
          IF pc[n] = "node search" THEN "node visualization" ELSE "get")
  /\ UNCHANGED <<index, read, hung, restarts, history>>

\* The loop goes on to the next panel, if there is one.
NextPanel(n) == IF index[n] < PanelsPerNode THEN "get" ELSE "done"

\* Faulty variant of Advance: the loop stays at its panel.
StayAtPanel(n) == index' = index

Advance(n) == index' = [index EXCEPT ![n] = @ + 1]

\* Faulty variant of Present: no panel is ever found.
NeverPresent(ps, p) == FALSE

Present(ps, p) == p \in ToSet(ps)

\* put, as far as the test of fittablePos on the panel's id.
DashboardFound(n) ==
  \E ps \in server.dashboard :
    /\ read' = [read EXCEPT ![n] = ps]
    /\ stale' = stale \ {n}
    /\ \/ /\ Present(ps, <<n, index[n]>>)
          /\ Answered(n, server, NextPanel(n))
          /\ Advance(n)
       \/ /\ ~Present(ps, <<n, index[n]>>)
          /\ Answered(n, server, "put")
          /\ UNCHANGED index

\* If there is no dashboard the server answers 404, of which the client makes
\* an error: the branch of put for a document not found is never taken.
NotFound(s) == s.dashboard = {}

GetDashboard(n) ==
  /\ pc[n] = "get"
  /\ \/ DashboardFound(n)
     \/ /\ \/ NotFound(server) /\ Answered(n, server, "done")
           \/ Failed(n, server)
        /\ UNCHANGED <<index, read, stale>>
  /\ UNCHANGED <<hung, restarts, creators>>

\* Faulty variant of WithPanel: the panels that were there are forgotten.
OnlyPanel(ps, p) == <<p>>

WithPanel(ps, p) == Append(ps, p)

\* The second half of put writes the dashboard back.  It names no version, so
\* that the server cannot tell that the dashboard has changed meanwhile.
PutPanel(n) ==
  /\ pc[n] = "put"
  /\ LET effect == [server EXCEPT !.dashboard = {WithPanel(read[n], <<n, index[n]>>)}] IN
       \/ Answered(n, effect, NextPanel(n)) /\ Advance(n)
       \/ Failed(n, effect) /\ UNCHANGED index
  /\ Outdates(n)
  /\ UNCHANGED <<read, hung, restarts, creators>>
-----------------------------------------------------------------------------
(* The specification *)

\* Elasticsearch ceases to answer, and answers again.
Hang ==
  /\ hung' = ~hung
  /\ UNCHANGED <<server, local, faults, restarts, history>>

\* The process dies, and somebody starts it again.
Restart(n) ==
  /\ restarts < MaxRestarts
  /\ restarts' = restarts + 1
  /\ Goto(n, "exists")
  /\ index' = [index EXCEPT ![n] = 1]
  /\ read' = [read EXCEPT ![n] = <<>>]
  /\ UNCHANGED <<server, hung, faults, history>>

Init ==
  /\ server = [index |-> FALSE, mapping |-> FALSE, config |-> 0, cluster |-> {},
               nodes |-> {}, dashboard |-> {}]
  /\ hung \in BOOLEAN
  /\ pc = [n \in Collector |-> "exists"]
  /\ attempt = [n \in Collector |-> 1]
  /\ index = [n \in Collector |-> 1]
  /\ read = [n \in Collector |-> <<>>]
  /\ faults = 0 /\ restarts = 0
  /\ creators = 0 /\ stale = {}

Step(n) ==
  \/ IndexExists(n) \/ CreateIndex(n) \/ PutMapping(n)
  \/ PutConfig(n) \/ BulkCluster(n) \/ PutDashboard(n)
  \/ BulkNode(n) \/ GetDashboard(n) \/ PutPanel(n)

Next == Hang \/ \E n \in Collector : Step(n) \/ Restart(n)

\* Every collector goes on as long as its requests are answered.
Spec == Init /\ [][Next]_vars /\ \A n \in Collector : WF_vars(Step(n) /\ ~hung)
-----------------------------------------------------------------------------
(* Properties *)

TypeOK ==
  /\ server \in Server /\ hung \in BOOLEAN
  /\ pc \in [Collector -> InitSteps \cup CreatorSteps \cup NodeType \cup
                          {"config", "get", "put", "done", "exit"}]
  /\ attempt \in [Collector -> 1..MaxAttempts]
  /\ index \in [Collector -> 1..(PanelsPerNode + 1)]
  /\ read \in [Collector -> Seq(Panel)]
  /\ faults \in 0..MaxFaults
  /\ restarts \in 0..MaxRestarts
  /\ creators \in Nat
  /\ stale \in SUBSET Collector

\* At most one run of one collector ever creates the cluster's documents,
\* however the collectors' requests interleave, are sent twice, or die.
OneCreator == creators <= 1

\* No panel is on the dashboard twice, also not after a write sent twice or a
\* restart: put looks for the panel in what it has read.
NoPanelTwice == \A ps \in server.dashboard : IsInjective(ps)

\* As long as no request fails and no collector dies, CreateCluster leaves all
\* documents behind once one collector has been past the config document.
CompleteIfUndisturbed ==
  /\ faults = 0 /\ restarts = 0 /\ server.config > 0
  /\ \A n \in Collector : pc[n] \notin CreatorSteps
  => server.cluster = ClusterType /\ server.dashboard # {}

\* Losing the race for the index of the day ends a collector, but never all of
\* them: somebody is left to set up the cluster.
SomebodyStays ==
  Collector # {} /\ faults = 0 => \E n \in Collector : pc[n] # "exit"

Shown(s) == UNION {ToSet(ps) : ps \in s.dashboard}

\* A panel disappears from the dashboard only when a collector writes back a
\* copy that is not the present one, or sends the empty dashboard once more.
PanelsLostByStaleWrite ==
  [][ Shown(server) \subseteq Shown(server')
      \/ \E n \in Collector :
           /\ <<pc[n], attempt[n]>>' # <<pc[n], attempt[n]>>
           /\ \/ pc[n] = "put" /\ n \in stale
              \/ pc[n] = "dashboard" /\ attempt[n] > 1 ]_vars

Ended(n) == pc[n] \in {"done", "exit"}

\* If Elasticsearch does not hang for ever, every collector that is in its set-up,
\* for the first time or after a restart, gets through it or gives up: no failed,
\* lost or repeated request makes it go round in circles, with containersMutex held.
SetupEnds == <>[]~hung => \A n \in Collector : ~Ended(n) ~> Ended(n)

\* elasticsearch_kibana.go:81 takes a version other than 1 for "the cluster was
\* already created".  The config document is there, nobody is at it any more and
\* nobody creates the cluster: then all documents are there.
AlreadyCreated ==
  /\ server.config > 0
  /\ \A n \in Collector : pc[n] \notin CreatorSteps \cup {"config"}
  => server.cluster = ClusterType /\ server.dashboard # {}
-----------------------------------------------------------------------------
(* The inductive invariant behind OneCreator and NoPanelTwice *)

\* Until a collector has finished, there is a panel that it is at.
IndexInv == \A n \in Collector :
  pc[n] \notin {"done", "exit"} => index[n] <= PanelsPerNode

\* Who creates the cluster is alone in doing so, and until the dashboard is
\* written for the first time there is none.
CreatorInv ==
  /\ OneCreator
  /\ creators <= server.config
  /\ creators = 0 => server.dashboard = {}
  /\ \A n \in Collector :
       pc[n] \in CreatorSteps =>
         /\ creators = 1
         /\ \A m \in Collector : pc[m] \in CreatorSteps => m = n
         /\ pc[n] # "dashboard" \/ attempt[n] = 1 => server.dashboard = {}

\* What a collector is about to write back has no panel twice.  Unless its copy
\* is an old one, it is the dashboard, or the dashboard before the collector's
\* own write that it has no answer for.
CopyInv ==
  /\ \A ps, qs \in server.dashboard : ps = qs
  /\ \A n \in Collector :
       /\ IsInjective(read[n])
       /\ pc[n] = "put" =>
            server.dashboard # {} /\ <<n, index[n]>> \notin ToSet(read[n])
       /\ pc[n] = "put" /\ n \notin stale =>
            server.dashboard \in {{read[n]}, {Append(read[n], <<n, index[n]>>)}}

IInv == IndexInv /\ CreatorInv /\ NoPanelTwice /\ CopyInv
-----------------------------------------------------------------------------
(* What holds as long as no request fails *)

\* Only who has found the index missing may end, and nobody finds it missing once
\* somebody has created it and gone on.
StayInv ==
  faults = 0 =>
    IF server.index THEN \E n \in Collector : pc[n] \notin {"create", "exit"}
    ELSE \A n \in Collector : pc[n] # "exit"

\* The documents that are there when a creator is at step.
Before(step) ==
  CASE step = "index-pattern" -> {}
    [] step = "search" -> {"index-pattern"}
    [] step = "visualization" -> {"index-pattern", "search"}
    [] OTHER -> ClusterType

\* Once there is a config document, somebody is at the others, or they are there.
DocumentsInv ==
  faults = 0 /\ restarts = 0 /\ server.config > 0 =>
    \/ server.cluster = ClusterType /\ server.dashboard # {}
    \/ \E n \in Collector : pc[n] \in CreatorSteps /\ Before(pc[n]) \subseteq server.cluster
=============================================================================
