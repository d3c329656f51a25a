------------------------- MODULE ElasticClientProofs -------------------------
(***************************************************************************)
(* Proofs about ElasticClient for any number of requesters, connections    *)
(* and attempts: its types, and that it implements AtLeastOnce step by     *)
(* step.  That every request comes back, and that a node is used again,    *)
(* rest on fairness and are left to TLC.                                   *)
(***************************************************************************)
EXTENDS ElasticClient, TLAPS

Typed == TypeOK /\ EffectsInv

\* The steps of NewClient, of the nodes and of the health checks: no request moves
\* in them, but what is under way may be lost.
Background ==
  \/ \E i \in Conn : GoDown(i) \/ ComeUp(i)
  \/ StartupHealthcheck \/ MustActiveConn \/ Healthchecker
  \/ \E p \in Process : Check(p)

\* What such a step leaves alone.
LEMMA BackgroundFrame ==
  ASSUME TypeOK, Background
  PROVE  /\ UNCHANGED <<pc, retries, retried, conn, effects, cindex, connsMu, visits>>
         /\ \A r \in Requester : lost[r] => lost'[r]
BY DEF Background, GoDown, ComeUp, StartupHealthcheck, MustActiveConn, Healthchecker,
       Check, CheckHead, CheckMark, nextVars, requestVars, checkVars, TypeOK

\* What a step of the requester r leaves alone: the requests of the others.
LEMMA RequesterFrame ==
  ASSUME TypeOK, NEW r \in Requester, Begin(r) \/ NextLock(r) \/ Request(r)
  PROVE  /\ \A q \in Requester \ {r} :
              /\ pc'[q] = pc[q] /\ retries'[q] = retries[q] /\ retried'[q] = retried[q]
              /\ conn'[q] = conn[q] /\ lost'[q] = lost[q] /\ effects'[q] = effects[q]
         /\ UNCHANGED <<up, phase, head>>
BY DEF Begin, NextLock, Request, NextVisit, ForceHealthcheck, Retry, Send, NoAnswer,
       Response, MarkAsHealthy, Set, nextVars, requestVars, checkVars, TypeOK
-----------------------------------------------------------------------------
(* Types *)

LEMMA InitTyped == Init => Typed
<1> SUFFICES ASSUME Init  PROVE Typed
  OBVIOUS
<1>1. NumConns \in Nat \ {0} /\ MaxRetries \in Nat \ {0} /\ 1 \in Conn
  BY ClientAssumption DEF Conn
<1>2. TypeOK
  BY <1>1 DEF Init, TypeOK
<1>3. EffectsInv
  BY DEF Init, EffectsInv
<1> QED
  BY <1>2, <1>3 DEF Typed

LEMMA BackgroundTypes ==
  ASSUME TypeOK, Background
  PROVE  TypeOK'
<1>1. NumConns \in Nat \ {0} /\ 1 \in 0..NumConns /\ 0 \in 0..NumConns /\ Checker \in Process
  BY ClientAssumption DEF Process
<1>2. ASSUME NEW i \in Conn, GoDown(i) \/ ComeUp(i)  PROVE TypeOK'
  <2>1. up' \in [Conn -> BOOLEAN]
    BY <1>2 DEF GoDown, ComeUp, Set, TypeOK
  <2>2. lost' \in [Requester -> BOOLEAN]
    <3>1. CASE GoDown(i)
      BY <3>1 DEF GoDown, TypeOK
    <3>2. CASE ComeUp(i)
      BY <3>2 DEF ComeUp, requestVars, TypeOK
    <3> QED
      BY <1>2, <3>1, <3>2
  <2> QED
    BY <1>2, <2>1, <2>2 DEF GoDown, ComeUp, TypeOK, nextVars, requestVars, checkVars
<1>3. CASE StartupHealthcheck
  BY <1>1, <1>3 DEF StartupHealthcheck, Set, TypeOK, nextVars, requestVars
<1>4. CASE MustActiveConn
  BY <1>4 DEF MustActiveConn, TypeOK, nextVars, requestVars, checkVars
<1>5. CASE Healthchecker
  BY <1>1, <1>5 DEF Healthchecker, Set, TypeOK, nextVars, requestVars
<1>6. ASSUME NEW p \in Process, CheckHead(p)  PROVE TypeOK'
  BY <1>6 DEF CheckHead, Set, TypeOK, nextVars, requestVars
<1>7. ASSUME NEW p \in Process, CheckMark(p)  PROVE TypeOK'
  <2>1. dead' \in [Conn -> BOOLEAN]
    BY <1>7 DEF CheckMark, Verdict, TypeOK
  <2>2. check[p] \in 0..NumConns
    BY DEF TypeOK
  <2>3. (IF check[p] < NumConns THEN check[p] + 1 ELSE 0) \in 0..NumConns
    BY <1>1, <2>2
  <2>4. check' \in [Process -> 0..NumConns]
    BY <1>7, <2>3 DEF CheckMark, Set, TypeOK
  <2>5. head' \in [Process -> {"none", "answered", "failed"}]
    BY <1>7 DEF CheckMark, Set, TypeOK
  <2> QED
    BY <1>7, <2>1, <2>4, <2>5 DEF CheckMark, TypeOK, nextVars, requestVars
<1> QED
  BY <1>2, <1>3, <1>4, <1>5, <1>6, <1>7 DEF Background, Check

LEMMA RequesterTypes ==
  ASSUME Typed, NEW r \in Requester, Begin(r) \/ NextLock(r) \/ Request(r)
  PROVE  TypeOK'
<1>1. /\ NumConns \in Nat \ {0} /\ MaxRetries \in Nat \ {0}
      /\ 0 \in 0..NumConns /\ 1 \in 0..NumConns /\ MaxRetries \in 0..MaxRetries
      /\ r \in Process
  BY ClientAssumption DEF Process
<1>2. TypeOK /\ EffectsInv
  BY DEF Typed
<1>3. CASE Begin(r)
  BY <1>1, <1>2, <1>3 DEF Begin, Set, TypeOK, nextVars, checkVars
<1>4. CASE NextLock(r)
  BY <1>1, <1>2, <1>4 DEF NextLock, Set, TypeOK, requestVars, checkVars
<1>5. CASE NextVisit(r)
  <2>1. Following(cindex) \in Conn /\ Following(cindex) \in 0..NumConns
    BY <1>1, <1>2 DEF Following, Conn, TypeOK
  <2>2. cindex' \in 0..NumConns /\ (cindex' = cindex \/ cindex' \in Conn)
    BY <1>2, <1>5, <2>1 DEF NextVisit, TypeOK
  <2>3. visits' \in [Requester -> 0..NumConns]
    <3>1. visits[r] \in 0..NumConns
      BY <1>2 DEF TypeOK
    <3>2. visits[r] < NumConns => visits[r] + 1 \in 0..NumConns
      BY <1>1, <3>1
    <3> QED
      BY <1>2, <1>5, <3>2 DEF NextVisit, Set, TypeOK
  <2>4. conn' \in [Requester -> Conn]
    BY <1>2, <1>5, <2>1 DEF NextVisit, Set, TypeOK
  <2>5. pc' \in [Requester -> {"idle", "next", "visit", "force", "retry", "send", "wait",
                               "mark", "ok", "error"}]
    BY <1>2, <1>5 DEF NextVisit, Set, TypeOK
  <2>6. connsMu' \in SUBSET Requester
    BY <1>2, <1>5 DEF NextVisit, TypeOK
  <2> QED
    BY <1>2, <1>5, <2>2, <2>3, <2>4, <2>5, <2>6 DEF NextVisit, TypeOK, checkVars
<1>6. CASE ForceHealthcheck(r)
  BY <1>1, <1>2, <1>6 DEF ForceHealthcheck, Set, TypeOK, nextVars, requestVars
<1>7. ASSUME pc[r] \in {"retry", "wait"}
      PROVE  retries[r] - 1 \in 0..MaxRetries
  <2>1. retries[r] \in 0..MaxRetries /\ retries[r] > 0
    BY <1>2, <1>7 DEF TypeOK, EffectsInv
  <2> QED
    BY <1>1, <2>1
<1>8. CASE Retry(r)
  BY <1>2, <1>7, <1>8 DEF Retry, Set, TypeOK, nextVars, checkVars
<1>9. CASE Send(r)
  <2>1. effects[r] + (IF up[conn[r]] THEN 1 ELSE 0) \in Nat
    BY <1>2 DEF TypeOK
  <2>2. up[conn[r]] \in BOOLEAN
    BY <1>2 DEF TypeOK
  <2> QED
    BY <1>2, <1>9, <2>1, <2>2 DEF Send, Set, TypeOK, nextVars, checkVars
<1>10. CASE NoAnswer(r)
  <2>1. dead' \in [Conn -> BOOLEAN]
    BY <1>2, <1>10 DEF NoAnswer, Set, TypeOK
  <2> QED
    BY <1>2, <1>7, <1>10, <2>1 DEF NoAnswer, Set, TypeOK, nextVars, checkVars
<1>11. CASE Response(r)
  BY <1>2, <1>11 DEF Response, Set, TypeOK, nextVars, requestVars, checkVars
<1>12. CASE MarkAsHealthy(r)
  BY <1>2, <1>12 DEF MarkAsHealthy, Set, TypeOK, nextVars, requestVars, checkVars
<1> QED
  BY <1>3, <1>4, <1>5, <1>6, <1>8, <1>9, <1>10, <1>11, <1>12 DEF Request
-----------------------------------------------------------------------------
(* Attempts and effects *)

\* What EffectsInv says of one requester.
EffectsOf(r) ==
  /\ pc[r] \in {"next", "visit", "force", "retry", "send"} =>
       retries[r] > 0 /\ effects[r] + retries[r] <= MaxRetries
  /\ pc[r] = "wait" =>
       /\ retries[r] > 0 /\ effects[r] + retries[r] <= MaxRetries + 1
       /\ ~lost[r] => effects[r] > 0
  /\ pc[r] = "mark" => effects[r] > 0

LEMMA RequesterEffects ==
  ASSUME TypeOK, NEW r \in Requester, EffectsOf(r), Begin(r) \/ NextLock(r) \/ Request(r)
  PROVE  EffectsOf(r)'
<1>1. /\ MaxRetries \in Nat \ {0}
      /\ retries[r] \in Nat /\ effects[r] \in Nat /\ lost[r] \in BOOLEAN
  BY ClientAssumption DEF TypeOK
<1>2. CASE Begin(r)
  <2>1. pc'[r] = "next" /\ retries'[r] = MaxRetries /\ effects'[r] = 0
    BY <1>2 DEF Begin, Set, TypeOK
  <2> QED
    BY <1>1, <2>1 DEF EffectsOf
<1>3. CASE NextLock(r) \/ NextVisit(r) \/ ForceHealthcheck(r)
  <2>1. /\ pc[r] \in {"next", "visit", "force"}
        /\ pc'[r] \in {"next", "visit", "force", "retry", "send"}
        /\ retries'[r] = retries[r] /\ effects'[r] = effects[r]
    BY <1>3 DEF NextLock, NextVisit, ForceHealthcheck, Set, TypeOK, requestVars
  <2> QED
    BY <2>1 DEF EffectsOf
<1>4. CASE Retry(r) \/ NoAnswer(r)
  <2>1. /\ pc[r] \in {"retry", "wait"}
        /\ retries'[r] = retries[r] - 1 /\ effects'[r] = effects[r]
        /\ \/ pc'[r] = "error"
           \/ retries'[r] # 0 /\ pc'[r] = "next"
    BY <1>4 DEF Retry, NoAnswer, GiveUp, Set, TypeOK
  <2>2. effects[r] + retries[r] <= MaxRetries + 1 /\ retries[r] > 0
    BY <1>1, <2>1 DEF EffectsOf
  <2>3. CASE pc'[r] = "error"
    BY <2>3 DEF EffectsOf
  <2>4. CASE retries'[r] # 0 /\ pc'[r] = "next"
    BY <1>1, <2>1, <2>2, <2>4 DEF EffectsOf
  <2> QED
    BY <2>1, <2>3, <2>4
<1>5. CASE Send(r)
  <2>1. /\ pc[r] = "send" /\ pc'[r] = "wait" /\ retries'[r] = retries[r]
        /\ \/ lost'[r] = TRUE /\ effects'[r] = effects[r]
           \/ lost'[r] = FALSE /\ effects'[r] = effects[r] + 1
    <3>1. /\ pc[r] = "send" /\ pc'[r] = "wait" /\ retries'[r] = retries[r]
          /\ lost'[r] = ~up[conn[r]]
          /\ effects'[r] = effects[r] + (IF up[conn[r]] THEN 1 ELSE 0)
      BY <1>5 DEF Send, Set, TypeOK
    <3>2. CASE up[conn[r]]
      <4>1. lost'[r] = FALSE /\ effects'[r] = effects[r] + 1
        BY <3>1, <3>2, Zenon
      <4> QED
        BY <3>1, <4>1
    <3>3. CASE ~up[conn[r]]
      <4>1. lost'[r] = TRUE /\ effects'[r] = effects[r] + 0
        BY <3>1, <3>3, Zenon
      <4> QED
        BY <1>1, <3>1, <4>1
    <3> QED
      BY <3>2, <3>3
  <2>2. retries[r] > 0 /\ effects[r] + retries[r] <= MaxRetries
    BY <2>1 DEF EffectsOf
  <2> QED
    BY <1>1, <2>1, <2>2 DEF EffectsOf
<1>6. CASE Response(r)
  <2>1. /\ pc[r] = "wait" /\ ~lost[r] /\ pc'[r] \in {"mark", "error"}
        /\ effects'[r] = effects[r]
    BY <1>6 DEF Response, Set, TypeOK, requestVars
  <2> QED
    BY <2>1 DEF EffectsOf
<1>7. CASE MarkAsHealthy(r)
  <2>1. pc'[r] \in {"ok", "error"}
    BY <1>7 DEF MarkAsHealthy, Set, TypeOK
  <2> QED
    BY <2>1 DEF EffectsOf
<1> QED
  BY <1>2, <1>3, <1>4, <1>5, <1>6, <1>7 DEF Request

LEMMA StepTyped == Typed /\ [Next]_vars => Typed'
<1> SUFFICES ASSUME Typed, [Next]_vars  PROVE Typed'
  OBVIOUS
<1>1. TypeOK /\ \A r \in Requester : EffectsOf(r)
  BY DEF Typed, EffectsInv, EffectsOf
<1>2. (TypeOK' /\ \A r \in Requester : EffectsOf(r)') => Typed'
  BY DEF Typed, EffectsInv, EffectsOf
<1>3. CASE Background
  <2>1. ASSUME NEW r \in Requester  PROVE EffectsOf(r)'
    <3>1. EffectsOf(r)
      BY <1>1
    <3>2. /\ pc'[r] = pc[r] /\ retries'[r] = retries[r] /\ effects'[r] = effects[r]
          /\ lost[r] => lost'[r]
      BY <1>1, <1>3, BackgroundFrame
    <3> QED
      BY <3>1, <3>2 DEF EffectsOf
  <2> QED
    BY <1>1, <1>2, <1>3, <2>1, BackgroundTypes
<1>4. ASSUME NEW r \in Requester, Begin(r) \/ NextLock(r) \/ Request(r)  PROVE Typed'
  <2>1. EffectsOf(r)'
    BY <1>1, <1>4, RequesterEffects
  <2>2. ASSUME NEW q \in Requester \ {r}  PROVE EffectsOf(q)'
    <3>1. EffectsOf(q)
      BY <1>1
    <3>2. /\ pc'[q] = pc[q] /\ retries'[q] = retries[q] /\ effects'[q] = effects[q]
          /\ lost'[q] = lost[q]
      BY <1>1, <1>4, RequesterFrame
    <3> QED
      BY <3>1, <3>2 DEF EffectsOf
  <2> QED
    BY <1>2, <1>4, <2>1, <2>2, RequesterTypes
<1>5. CASE UNCHANGED vars
  BY <1>5 DEF vars, nextVars, requestVars, checkVars, Typed, TypeOK, EffectsInv
<1> QED
  BY <1>3, <1>4, <1>5 DEF Next, Background

\* The counter of attempts never passes zero, also after a forced check, and every
\* variable keeps its type.
THEOREM ClientTypeCorrect == Spec => []TypeOK
<1>1. Typed => TypeOK
  BY DEF Typed
<1> QED
  BY InitTyped, StepTyped, <1>1, PTL DEF Spec

\* The inductive invariant: attempts and effects add up to MaxRetries at most.
THEOREM ClientInvariant == Spec => []EffectsInv
<1>1. Typed => EffectsInv
  BY DEF Typed
<1> QED
  BY InitTyped, StepTyped, <1>1, PTL DEF Spec
-----------------------------------------------------------------------------
(* The refinement *)

StateOf(x) == IF x \in {"idle", "ok", "error"} THEN x ELSE "open"

LEMMA InitFollows == Init => Abstract!Init
BY DEF Init, Abstract!Init

LEMMA BackgroundFollows ==
  ASSUME TypeOK, Background
  PROVE  UNCHANGED Abstract!vars
<1>1. pc' = pc /\ effects' = effects
  BY BackgroundFrame
<1> QED
  BY <1>1 DEF Abstract!vars

LEMMA RequesterFollows ==
  ASSUME Typed, NEW r \in Requester, Begin(r) \/ NextLock(r) \/ Request(r)
  PROVE  [Abstract!Next]_(Abstract!vars)
<1> DEFINE state == [q \in Requester |-> StateOf(pc[q])]
<1>1. /\ TypeOK /\ EffectsOf(r)
      /\ MaxRetries \in Nat /\ retries[r] \in Nat /\ effects[r] \in Nat
  BY ClientAssumption DEF Typed, TypeOK, EffectsInv, EffectsOf
<1>2. \A v : pc' = Set(pc, r, v) => state' = [state EXCEPT ![r] = StateOf(v)]
  BY <1>1 DEF Set, TypeOK
<1>3. state[r] = StateOf(pc[r]) /\ state = [state EXCEPT ![r] = StateOf(pc[r])]
  OBVIOUS
<1>4. state' = state /\ effects' = effects => UNCHANGED Abstract!vars
  BY DEF Abstract!vars, StateOf
<1>5. /\ \A v \in {"next", "visit", "force", "retry", "send", "wait", "mark"} :
             StateOf(v) = "open"
      /\ \A v \in {"idle", "ok", "error"} : StateOf(v) = v
  BY DEF StateOf
<1>6. pc' = pc => state' = state
  BY DEF StateOf
<1> HIDE DEF state
<1>7. CASE Begin(r)
  <2>1. /\ state[r] # "open" /\ state' = [state EXCEPT ![r] = "open"]
        /\ effects' = [effects EXCEPT ![r] = 0]
    BY <1>2, <1>3, <1>7, <1>5 DEF Begin, Set
  <2>2. Abstract!Open(r)
    BY <2>1 DEF Abstract!Open, StateOf, state
  <2> QED
    BY <2>2 DEF Abstract!Next
<1>8. CASE NextLock(r) \/ NextVisit(r) \/ ForceHealthcheck(r)
  <2>1. effects' = effects /\ StateOf(pc[r]) = "open"
    BY <1>8 DEF NextLock, NextVisit, ForceHealthcheck, requestVars, StateOf
  <2>2. state' = state
    <3>1. \/ pc' = pc
          \/ \E v \in {"visit", "send", "retry", "force"} : pc' = Set(pc, r, v)
      BY <1>8 DEF NextLock, NextVisit, ForceHealthcheck
    <3> QED
      BY <1>2, <1>3, <1>5, <1>6, <2>1, <3>1
  <2> QED
    BY <2>1, <2>2, <1>4
<1>9. CASE Retry(r) \/ NoAnswer(r)
  <2>1. /\ effects' = effects /\ StateOf(pc[r]) = "open"
        /\ \E v \in {"error", "next"} : pc' = Set(pc, r, v)
    BY <1>9 DEF Retry, NoAnswer, StateOf
  <2>2. state' = state \/ state' = [state EXCEPT ![r] = "error"]
    BY <1>2, <1>3, <1>5, <2>1
  <2>3. CASE state' = state
    BY <2>1, <2>3, <1>4
  <2>4. CASE state' = [state EXCEPT ![r] = "error"]
    <3>1. Abstract!Answer(r)
      BY <1>3, <2>1, <2>4 DEF Abstract!Answer, StateOf, state
    <3> QED
      BY <3>1 DEF Abstract!Next
  <2> QED
    BY <2>2, <2>3, <2>4
<1>10. CASE Send(r)
  <2>1. /\ pc[r] = "send" /\ pc' = Set(pc, r, "wait")
        /\ effects' = Set(effects, r, effects[r] + (IF up[conn[r]] THEN 1 ELSE 0))
    BY <1>10 DEF Send
  <2>2. state' = state /\ state[r] = "open"
    BY <1>2, <1>3, <1>5, <2>1
  <2>3. effects[r] < MaxRetries
    BY <1>1, <2>1 DEF EffectsOf
  <2>4. CASE up[conn[r]]
    <3>1. effects' = [effects EXCEPT ![r] = @ + 1]
      BY <2>1, <2>4 DEF Set
    <3>2. Abstract!Take(r)
      BY <2>2, <2>3, <3>1 DEF Abstract!Take, StateOf, state
    <3> QED
      BY <3>2 DEF Abstract!Next
  <2>5. CASE ~up[conn[r]]
    <3>1. effects' = effects
      BY <1>1, <2>1, <2>5 DEF Set, TypeOK
    <3> QED
      BY <2>2, <3>1, <1>4
  <2> QED
    BY <2>4, <2>5
<1>11. CASE Response(r)
  <2>1. /\ effects' = effects /\ StateOf(pc[r]) = "open"
        /\ \E v \in {"mark", "error"} : pc' = Set(pc, r, v)
    BY <1>11 DEF Response, requestVars, StateOf
  <2>2. state' = state \/ state' = [state EXCEPT ![r] = "error"]
    BY <1>2, <1>3, <1>5, <2>1
  <2>3. CASE state' = state
    BY <2>1, <2>3, <1>4
  <2>4. CASE state' = [state EXCEPT ![r] = "error"]
    <3>1. Abstract!Answer(r)
      BY <1>3, <2>1, <2>4 DEF Abstract!Answer, StateOf, state
    <3> QED
      BY <3>1 DEF Abstract!Next
  <2> QED
    BY <2>2, <2>3, <2>4
<1>12. CASE MarkAsHealthy(r)
  <2>1. PICK outcome \in {"ok", "error"} :
          pc[r] = "mark" /\ pc' = Set(pc, r, outcome) /\ effects' = effects
    BY <1>12 DEF MarkAsHealthy, requestVars
  <2>2. state[r] = "open" /\ state' = [state EXCEPT ![r] = outcome]
    BY <1>2, <1>3, <1>5, <2>1
  <2>3. effects[r] > 0
    BY <1>1, <2>1 DEF EffectsOf
  <2>4. Abstract!Answer(r)
    BY <2>1, <2>2, <2>3 DEF Abstract!Answer, StateOf, state
  <2> QED
    BY <2>4 DEF Abstract!Next
<1> QED
  BY <1>7, <1>8, <1>9, <1>10, <1>11, <1>12 DEF Request

LEMMA StepFollows == Typed /\ [Next]_vars => [Abstract!Next]_(Abstract!vars)
<1> SUFFICES ASSUME Typed, [Next]_vars  PROVE [Abstract!Next]_(Abstract!vars)
  OBVIOUS
<1>1. CASE Background
  BY <1>1, BackgroundFollows DEF Typed
<1>2. ASSUME NEW r \in Requester, Begin(r) \/ NextLock(r) \/ Request(r)
      PROVE  [Abstract!Next]_(Abstract!vars)
  BY <1>2, RequesterFollows
<1>3. CASE UNCHANGED vars
  BY <1>3 DEF vars, requestVars, Abstract!vars
<1> QED
  BY <1>1, <1>2, <1>3 DEF Next, Background

\* PerformRequest keeps its promise, step by step: an answered request has taken
\* effect, and none does so more often than MaxRetries.
THEOREM AtLeastOnceImplemented == Spec => AtLeastOnceSteps
<1> QED
  BY InitTyped, StepTyped, InitFollows, StepFollows, PTL DEF Spec, AtLeastOnceSteps
=============================================================================
