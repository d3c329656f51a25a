---------------------------- MODULE ElasticClient ----------------------------
(***************************************************************************)
(* The vendored Elasticsearch client (elastic.v3), as the collector uses   *)
(* it: NewClient with its checks at the start, PerformRequest with its     *)
(* retries, the round robin of next() over the connections that are not    *)
(* dead, and the goroutine that checks the nodes' health.  Sniffing is off *)
(* (elasticsearch.go, line 173), Stop and Start are not called.            *)
(*                                                                         *)
(* A connection is a URL: node i is up or down, and a request that is on   *)
(* its way when the node goes down gets no answer.  Waiting between two    *)
(* attempts is left out, and so are timeouts other than the one of         *)
(* startupHealthcheck.  A request has none in the code, either: that an    *)
(* answer comes or the connection breaks is an assumption about the nodes  *)
(* (ElasticSetup has a server that does neither).                          *)
(***************************************************************************)
EXTENDS Naturals

CONSTANTS
  Requester,    \* goroutines that call PerformRequest
  Checker,      \* the goroutine healthchecker
  NumConns,     \* the URLs given to NewClient
  MaxRetries    \* SetMaxRetries

ASSUME ClientAssumption ==
  /\ Checker \notin Requester
  /\ NumConns \in Nat \ {0} /\ MaxRetries \in Nat \ {0}

Conn == 1..NumConns
Process == Requester \cup {Checker}

VARIABLES
  up,        \* whether each node is up
  phase,     \* of NewClient: "startup", "checking", "running" or "failed"
  dead,      \* the flag of each connection
  cindex,    \* the connection that next() looked at last, 0 for the -1 of the code
  connsMu,   \* who is in next(), as a set
  visits,    \* how many connections next() has looked at
  pc,        \* where a requester is in PerformRequest
  retries, retried,
  conn,      \* the connection of the attempt under way
  lost,      \* whether its node has gone down since
  check,     \* the connection that a process is checking, or 0
  head,      \* whether the HEAD of that check was answered, "none" before
  \* history, read by no action
  effects    \* how often the request has reached a node

nextVars == <<cindex, connsMu, visits>>
requestVars == <<retries, retried, conn, lost, effects>>
checkVars == <<check, head>>
vars == <<up, phase, dead, nextVars, pc, requestVars, checkVars>>

Set(f, r, v) == [f EXCEPT ![r] = v]
-----------------------------------------------------------------------------
(* The nodes *)

GoDown(i) ==
  /\ up[i]
  /\ up' = Set(up, i, FALSE)
  /\ lost' = [r \in Requester |-> lost[r] \/ (pc[r] = "wait" /\ conn[r] = i)]
  /\ UNCHANGED <<phase, dead, nextVars, pc, retries, retried, conn, effects, checkVars>>

ComeUp(i) ==
  /\ ~up[i]
  /\ up' = Set(up, i, TRUE)
  /\ UNCHANGED <<phase, dead, nextVars, pc, requestVars, checkVars>>
-----------------------------------------------------------------------------
(* NewClient *)

\* startupHealthcheck: one node has answered, or the time is over.
StartupHealthcheck ==
  /\ phase = "startup"
  /\ \/ /\ \E i \in Conn : up[i]
        /\ phase' = "checking"
        /\ check' = Set(check, Checker, 1)
     \/ /\ phase' = "failed"
        /\ UNCHANGED check
  /\ UNCHANGED <<up, dead, nextVars, pc, requestVars, head>>

HasActive == \E i \in Conn : ~dead[i]

\* mustActiveConn, after the first check; then healthchecker is started.
MustActiveConn ==
  /\ phase = "checking" /\ check[Checker] = 0
  /\ phase' = IF HasActive THEN "running" ELSE "failed"
  /\ UNCHANGED <<up, dead, nextVars, pc, requestVars, checkVars>>
-----------------------------------------------------------------------------
(* healthcheck: by NewClient, by healthchecker, or forced by a request *)

Healthchecker ==
  /\ phase = "running" /\ check[Checker] = 0
  /\ check' = Set(check, Checker, 1)
  /\ UNCHANGED <<up, phase, dead, nextVars, pc, requestVars, head>>

CheckHead(p) ==
  /\ check[p] # 0 /\ head[p] = "none"
  /\ head' = Set(head, p, IF up[check[p]] THEN "answered" ELSE "failed")
  /\ UNCHANGED <<up, phase, dead, nextVars, pc, requestVars, check>>

\* Faulty variant of Verdict: a connection never comes back to life.
VerdictOnlyDead(was, answered) == was \/ ~answered

\* MarkAsAlive or MarkAsDead.
Verdict(was, answered) == ~answered

\* By now the node may be in another state than at the HEAD.
CheckMark(p) ==
  /\ head[p] # "none"
  /\ dead' = [dead EXCEPT ![check[p]] = Verdict(@, head[p] = "answered")]
  /\ check' = Set(check, p, IF check[p] < NumConns THEN check[p] + 1 ELSE 0)
  /\ head' = Set(head, p, "none")
  /\ UNCHANGED <<up, phase, nextVars, pc, requestVars>>
-----------------------------------------------------------------------------
(* next *)

\* connsMu is taken, and the round begins.
NextLock(r) ==
  /\ pc[r] = "next" /\ connsMu = {}
  /\ connsMu' = {r}
  /\ visits' = Set(visits, r, 0)
  /\ pc' = Set(pc, r, "visit")
  /\ UNCHANGED <<up, phase, dead, cindex, requestVars, checkVars>>

Following(i) == IF i < NumConns THEN i + 1 ELSE 1

\* One connection, unless all have been looked at; a process that marks one does
\* not need connsMu.
NextVisit(r) ==
  /\ pc[r] = "visit"
  /\ \/ /\ visits[r] < NumConns
        /\ visits' = Set(visits, r, visits[r] + 1)
        /\ cindex' = Following(cindex)
        /\ IF dead[cindex'] THEN UNCHANGED <<connsMu, pc, conn>>
           ELSE /\ conn' = Set(conn, r, cindex')
                /\ connsMu' = {}
                /\ pc' = Set(pc, r, "send")
     \/ /\ visits[r] = NumConns
        /\ connsMu' = {}
        /\ pc' = Set(pc, r, IF retried[r] THEN "retry" ELSE "force")
        /\ UNCHANGED <<visits, cindex, conn>>
  /\ UNCHANGED <<up, phase, dead, retries, retried, lost, effects, checkVars>>
-----------------------------------------------------------------------------
(* PerformRequest *)

Begin(r) ==
  /\ phase = "running" /\ pc[r] \in {"idle", "ok", "error"}
  /\ pc' = Set(pc, r, "next")
  /\ retries' = Set(retries, r, MaxRetries)
  /\ retried' = Set(retried, r, FALSE)
  /\ lost' = Set(lost, r, FALSE)
  /\ effects' = Set(effects, r, 0)
  /\ UNCHANGED <<up, phase, dead, nextVars, conn, checkVars>>

\* All connections seem to be dead: the first time, a check is forced.
ForceHealthcheck(r) ==
  /\ pc[r] = "force"
  /\ check' = Set(check, r, 1)
  /\ pc' = Set(pc, r, "retry")
  /\ UNCHANGED <<up, phase, dead, nextVars, requestVars, head>>

\* Faulty variant of GiveUp: one attempt more, and the counter passes zero.
GiveUpBelowZero(n) == FALSE

GiveUp(n) == n = 0

\* retries -= 1, after a round without a connection.
Retry(r) ==
  /\ pc[r] = "retry" /\ check[r] = 0
  /\ retries' = Set(retries, r, retries[r] - 1)
  /\ \/ /\ GiveUp(retries'[r])
        /\ pc' = Set(pc, r, "error")
        /\ UNCHANGED retried
     \/ /\ ~GiveUp(retries'[r])
        /\ retried' = Set(retried, r, TRUE)
        /\ pc' = Set(pc, r, "next")
  /\ UNCHANGED <<up, phase, dead, nextVars, conn, lost, effects, checkVars>>

\* The request reaches its node, or the node is down.
Send(r) ==
  /\ pc[r] = "send"
  /\ pc' = Set(pc, r, "wait")
  /\ lost' = Set(lost, r, ~up[conn[r]])
  /\ effects' = Set(effects, r, effects[r] + (IF up[conn[r]] THEN 1 ELSE 0))
  /\ UNCHANGED <<up, phase, dead, nextVars, retries, retried, conn, checkVars>>

\* There is no answer.  The last attempt marks the connection as dead.
NoAnswer(r) ==
  /\ pc[r] = "wait" /\ lost[r]
  /\ retries' = Set(retries, r, retries[r] - 1)
  /\ \/ /\ GiveUp(retries'[r])
        /\ dead' = Set(dead, conn[r], TRUE)
        /\ pc' = Set(pc, r, "error")
        /\ UNCHANGED retried
     \/ /\ ~GiveUp(retries'[r])
        /\ retried' = Set(retried, r, TRUE)
        /\ pc' = Set(pc, r, "next")
        /\ UNCHANGED dead
  /\ UNCHANGED <<up, phase, nextVars, conn, lost, effects, checkVars>>

\* The answer: an HTTP error is the end, and says nothing of the connection.
Response(r) ==
  /\ pc[r] = "wait" /\ ~lost[r]
  /\ \E outcome \in {"mark", "error"} : pc' = Set(pc, r, outcome)
  /\ UNCHANGED <<up, phase, dead, nextVars, requestVars, checkVars>>

\* Then the body of the answer is read, which may fail.
MarkAsHealthy(r) ==
  /\ pc[r] = "mark"
  /\ dead' = Set(dead, conn[r], FALSE)
  /\ \E outcome \in {"ok", "error"} : pc' = Set(pc, r, outcome)
  /\ UNCHANGED <<up, phase, nextVars, requestVars, checkVars>>
-----------------------------------------------------------------------------
(* The specification *)

Init ==
  /\ up \in [Conn -> BOOLEAN]
  /\ phase = "startup"
  /\ dead = [i \in Conn |-> FALSE]
  /\ cindex = 0 /\ connsMu = {} /\ visits = [r \in Requester |-> 0]
  /\ pc = [r \in Requester |-> "idle"]
  /\ retries = [r \in Requester |-> MaxRetries]
  /\ retried = [r \in Requester |-> FALSE]
  /\ conn = [r \in Requester |-> 1]
  /\ lost = [r \in Requester |-> FALSE]
  /\ check = [p \in Process |-> 0] /\ head = [p \in Process |-> "none"]
  /\ effects = [r \in Requester |-> 0]

Check(p) == CheckHead(p) \/ CheckMark(p)

Request(r) ==
  \/ NextVisit(r) \/ ForceHealthcheck(r) \/ Retry(r)
  \/ Send(r) \/ NoAnswer(r) \/ Response(r) \/ MarkAsHealthy(r)

Next ==
  \/ \E i \in Conn : GoDown(i) \/ ComeUp(i)
  \/ StartupHealthcheck \/ MustActiveConn \/ Healthchecker
  \/ \E p \in Process : Check(p)
  \/ \E r \in Requester : Begin(r) \/ NextLock(r) \/ Request(r)

\* Goroutines run, the timer of healthchecker fires, and whoever waits for connsMu
\* gets it in the end.
Spec ==
  /\ Init /\ [][Next]_vars
  /\ WF_vars(StartupHealthcheck) /\ WF_vars(MustActiveConn) /\ WF_vars(Healthchecker)
  /\ \A p \in Process : WF_vars(Check(p))
  /\ \A r \in Requester : WF_vars(Request(r)) /\ SF_vars(NextLock(r))
-----------------------------------------------------------------------------
(* Properties *)

TypeOK ==
  /\ up \in [Conn -> BOOLEAN] /\ dead \in [Conn -> BOOLEAN]
  /\ phase \in {"startup", "checking", "running", "failed"}
  /\ cindex \in 0..NumConns
  /\ connsMu \in SUBSET Requester
  /\ visits \in [Requester -> 0..NumConns]
  /\ pc \in [Requester -> {"idle", "next", "visit", "force", "retry", "send", "wait",
                           "mark", "ok", "error"}]
  /\ retries \in [Requester -> 0..MaxRetries]
  /\ retried \in [Requester -> BOOLEAN] /\ lost \in [Requester -> BOOLEAN]
  /\ conn \in [Requester -> Conn]
  /\ check \in [Process -> 0..NumConns]
  /\ head \in [Process -> {"none", "answered", "failed"}]
  /\ effects \in [Requester -> Nat]

Abstract == INSTANCE AtLeastOnce WITH
  MaxEffects <- MaxRetries,
  state <- [r \in Requester |-> IF pc[r] \in {"idle", "ok", "error"} THEN pc[r] ELSE "open"]

\* A request that is answered has taken effect, none does so more often than it
\* may be sent, and each comes back, with nodes going down at any moment and
\* checks marking connections in between.
ImplementsAtLeastOnce == Abstract!Spec

\* The part of it that speaks of single steps.
AtLeastOnceSteps == Abstract!Init /\ [][Abstract!Next]_(Abstract!vars)

\* A node that is up for good is used again in the end, whatever late results of
\* checks and requests have marked its connection as.
UsedAgain == \A i \in Conn : <>[]up[i] => <>[](~dead[i] \/ phase = "failed")
-----------------------------------------------------------------------------
(* The inductive invariant *)

\* Each attempt is paid for before it is sent: attempts left and effects together
\* never exceed MaxRetries, but for the attempt under way.  One that is not lost
\* has taken effect.
EffectsInv ==
  \A r \in Requester :
    /\ pc[r] \in {"next", "visit", "force", "retry", "send"} =>
         retries[r] > 0 /\ effects[r] + retries[r] <= MaxRetries
    /\ pc[r] = "wait" =>
         /\ retries[r] > 0 /\ effects[r] + retries[r] <= MaxRetries + 1
         /\ ~lost[r] => effects[r] > 0
    /\ pc[r] = "mark" => effects[r] > 0
=============================================================================
