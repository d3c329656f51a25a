---------------------------- MODULE LogstashProofs ----------------------------
(***************************************************************************)
(* Proofs about Logstash for any number of callers, of values and of       *)
(* attempts, and any number of outages.                                    *)
(***************************************************************************)
EXTENDS Logstash, TLAPS

-----------------------------------------------------------------------------
(* Types *)

\* What is needed of the state before a step to type the state after it.
Typed == TypeOK /\ TriesInv

LEMMA InitTyped == Init => Typed
<1> SUFFICES ASSUME Init PROVE Typed
  OBVIOUS
<1>1. MaxTries \in Nat \ {0} /\ MaxOutages \in Nat /\ Values \in Nat
  BY LogstashAssumption
<1>2. pc \in [Caller -> {"idle", "write", "reconnect", "dial"}]
  BY DEF Init
<1>3. left \in [Caller -> 0..Values] /\ tries \in [Caller -> 0..MaxTries]
  BY <1>1 DEF Init
<1>4. TypeOK
  <2>1. outages \in 0..MaxOutages /\ failures \in 0..(MaxOutages + 1)
    BY <1>1 DEF Init
  <2>2. givenUp \in BOOLEAN /\ overlapped \in BOOLEAN
    BY Zenon DEF Init
  <2>3. /\ logstash \in {"up", "stalled", "down"} /\ lsConn \in {"open", "broken", "nil"}
        /\ phase \in {"connecting", "starting", "running", "exited", "panicked"}
        /\ mutex \in SUBSET Caller
    BY DEF Init
  <2> QED
    BY <1>2, <1>3, <2>1, <2>2, <2>3 DEF TypeOK
<1>5. TriesInv
  BY <1>1 DEF Init, TriesInv
<1> QED
  BY <1>4, <1>5 DEF Typed

\* connectToLogstash counts its attempts and stops at MaxTries.
LEMMA DialTyped ==
  ASSUME Typed, NEW c \in Caller, Dial(c)
  PROVE  Typed'
<1>1. tries[c] \in 0..MaxTries /\ tries[c] < MaxTries /\ MaxTries \in Nat
  BY LogstashAssumption DEF Typed, TypeOK, TriesInv, Dial, Alive
<1>2. TypeOK'
  <2>1. tries' \in [Caller -> 0..MaxTries]
    BY <1>1 DEF Typed, TypeOK, Dial, Counted
  <2>2. givenUp' \in BOOLEAN /\ overlapped' \in BOOLEAN
    BY Zenon DEF Typed, TypeOK, Dial
  <2>3. pc' \in [Caller -> {"idle", "write", "reconnect", "dial"}]
    BY DEF Typed, TypeOK, Dial, Alive
  <2>4. /\ logstash' \in {"up", "stalled", "down"} /\ lsConn' \in {"open", "broken", "nil"}
        /\ phase' \in {"connecting", "starting", "running", "exited", "panicked"}
    BY DEF Typed, TypeOK, Dial, Alive
  <2> QED
    BY <2>1, <2>2, <2>3, <2>4 DEF Typed, TypeOK, Dial
<1>3. TriesInv'
  BY <1>1 DEF Typed, TypeOK, TriesInv, Dial, Counted, LastTry, Alive
<1> QED
  BY <1>2, <1>3 DEF Typed

\* Every other step leaves the attempts alone, or starts to count anew.
LEMMA StepTyped ==
  ASSUME Typed, Next
  PROVE  Typed'
<1>1. CASE GoDown
  <2>1. outages' \in 0..MaxOutages
    BY <1>1, LogstashAssumption DEF Typed, TypeOK, GoDown
  <2>2. lsConn' \in {"open", "broken", "nil"} /\ logstash' \in {"up", "stalled", "down"}
    BY <1>1 DEF Typed, TypeOK, GoDown
  <2> QED
    BY <1>1, <2>1, <2>2, Zenon DEF Typed, TypeOK, TriesInv, GoDown, callVars
<1>2. CASE ComeUp
  BY <1>2, LogstashAssumption DEF Typed, TypeOK, TriesInv, ComeUp, callVars, history
<1>3. CASE Started
  BY <1>3 DEF Typed, TypeOK, TriesInv, Started, callVars, history
<1>4. CASE Stall \/ ReadAgain
  BY <1>4, LogstashAssumption
  DEF Typed, TypeOK, TriesInv, Stall, ReadAgain, callVars, history
<1>5. ASSUME NEW c \in Caller, Step(c) \/ WriteFails(c)
      PROVE  Typed'
  <2>1. CASE Begin(c)
    <3>1. PICK n \in 0..Values : left' = [left EXCEPT ![c] = n]
      BY <2>1 DEF Begin
    <3>2. left' \in [Caller -> 0..Values]
      BY <3>1 DEF Typed, TypeOK
    <3> QED
      BY <2>1, <3>2, LogstashAssumption DEF Typed, TypeOK, TriesInv, Begin, Unlocked
  <2>2. CASE Write(c)
    BY <2>2, LogstashAssumption
    DEF Typed, TypeOK, TriesInv, Write, Writing, Panic, Alive, callVars, history
  <2>3. CASE Reconnect(c)
    BY <2>3, LogstashAssumption
    DEF Typed, TypeOK, TriesInv, Reconnect, Panic, Alive, callVars, history
  <2>4. CASE Dial(c)
    BY <2>4, DialTyped
  <2>5. CASE End(c)
    BY <2>5 DEF Typed, TypeOK, TriesInv, End, history
  <2>6. CASE WriteFails(c)
    BY <2>6, LogstashAssumption
    DEF Typed, TypeOK, TriesInv, WriteFails, Writing, AfterFailure
  <2> QED
    BY <1>5, <2>1, <2>2, <2>3, <2>4, <2>5, <2>6 DEF Step
<1> QED
  BY <1>1, <1>2, <1>3, <1>4, <1>5 DEF Next

\* Every variable keeps its type: no dialling goes beyond MaxTries attempts, and
\* nobody sends more values than there are.
THEOREM LogstashTypeCorrect == Spec => []TypeOK
<1>1. Typed /\ [Next]_vars => Typed'
  BY StepTyped DEF Typed, TypeOK, TriesInv, vars, callVars, history
<1>2. Typed => TypeOK
  BY DEF Typed
<1> QED
  BY InitTyped, <1>1, <1>2, PTL DEF Spec
-----------------------------------------------------------------------------
(* The lock and the connection *)

Safe == LockInv /\ NilInv /\ FailureInv

LEMMA InitSafe == Init => Safe
<1> SUFFICES ASSUME Init PROVE Safe
  OBVIOUS
<1>1. LockInv
  BY LogstashAssumption DEF Init, LockInv
<1>2. NilInv
  BY LogstashAssumption DEF Init, NilInv, ShortOutageSurvived
<1>3. FailureInv
  BY DEF Init, FailureInv, OneFailurePerOutage
<1> QED
  BY <1>1, <1>2, <1>3 DEF Safe

\* A caller that starts while another one is under way overlaps with it: with the
\* lock, both of them have it, and without, one of them is main at the start.
LEMMA BeginSafe ==
  ASSUME TypeOK, Safe, NEW c \in Caller, Begin(c)
  PROVE  Safe'
<1>1. ASSUME ~overlapped', NEW d \in Caller, pc[d] # "idle"
      PROVE  FALSE
  <2>1. ~Unlocked(c) /\ ~Unlocked(d)
    BY <1>1, Zenon DEF Begin
  <2>2. mutex = {}
    BY <2>1 DEF Begin, MayEnter
  <2>3. d = Main /\ phase = "starting"
    BY <1>1, <2>2, Zenon DEF Safe, LockInv, Begin, Alive
  <2> QED
    BY <2>1, <2>3 DEF Unlocked
<1>2. LockInv'
  <2>1. \A a, b \in mutex' : a = b
    BY DEF Safe, LockInv, Begin, MayEnter
  <2>2. \A a \in Caller : pc'[a] # "idle" => a \in mutex' \/ (a = Main /\ phase' # "running")
    BY DEF TypeOK, Safe, LockInv, Begin, Unlocked
  <2>3. ~overlapped' => \A a, b \in Caller : pc'[a] # "idle" /\ pc'[b] # "idle" => a = b
    BY <1>1 DEF TypeOK, Begin
  <2>4. phase' # "connecting"
    BY DEF Begin, Alive
  <2> QED
    BY <2>1, <2>2, <2>3, <2>4 DEF LockInv
<1>3. overlapped => overlapped'
  BY Zenon DEF Begin
<1>4. \A a \in Caller :
        /\ pc[a] = "dial" => pc'[a] = "dial"
        /\ pc[a] \in {"reconnect", "dial"} => pc'[a] \in {"reconnect", "dial"}
  BY DEF TypeOK, Begin
<1>5. UNCHANGED <<lsConn, phase, outages, failures, givenUp>>
  BY DEF Begin
<1>6. NilInv'
  BY <1>3, <1>4, <1>5, Zenon DEF Safe, NilInv, ShortOutageSurvived
<1>7. FailureInv'
  BY <1>3, <1>4, <1>5, Zenon DEF Safe, FailureInv, OneFailurePerOutage
<1> QED
  BY <1>2, <1>6, <1>7 DEF Safe

\* A nil connection meets its user only after somebody gave up, or if the user is
\* not alone: whoever leaves it nil for a moment is dialling, and that is not he.
LEMMA PanicSafe ==
  ASSUME TypeOK, Safe, NEW c \in Caller, pc[c] \in {"write", "reconnect"},
         lsConn = "nil", Panic
  PROVE  Safe'
<1>1. givenUp \/ overlapped
  <2> SUFFICES ASSUME ~givenUp, ~overlapped PROVE FALSE
    OBVIOUS
  <2>1. PICK d \in Caller : pc[d] = "dial"
    BY Zenon DEF Safe, NilInv
  <2>2. d = c
    BY <2>1 DEF Safe, LockInv
  <2> QED
    BY <2>1, <2>2
<1>2. LockInv' /\ FailureInv'
  BY DEF Safe, LockInv, FailureInv, OneFailurePerOutage, Panic, callVars, history
<1>3. NilInv'
  BY <1>1, Zenon DEF Safe, NilInv, ShortOutageSurvived, Panic, callVars, history
<1> QED
  BY <1>2, <1>3 DEF Safe

\* Dialling leaves a connection behind, or a nil one with an attempt to follow, or
\* a nil one after the last attempt.
LEMMA DialSafe ==
  ASSUME TypeOK, Safe, NEW c \in Caller, Dial(c)
  PROVE  Safe'
<1>1. /\ UNCHANGED <<mutex, outages, failures, overlapped>>
      /\ \A d \in Caller : pc'[d] # "idle" => pc[d] # "idle"
      /\ \A d \in Caller : d # c => pc'[d] = pc[d]
      /\ lsConn' \in {"open", "nil"}
      /\ pc[c] = "dial"
  BY DEF TypeOK, Dial
<1>2. LockInv'
  <2>1. phase = "connecting" => c = Main /\ phase' \in {"starting", "connecting", "exited"}
    BY <1>1 DEF Safe, LockInv, Dial, Alive
  <2>2. phase # "connecting" => phase' = phase
    BY DEF Dial, Alive
  <2>3. phase' = "connecting" => pc' = pc
    BY DEF Dial, Alive
  <2>4. phase' = "connecting" => phase = "connecting"
    BY <2>2
  <2>5. phase' = "running" => phase = "running"
    BY <2>1, <2>2
  <2> QED
    BY <1>1, <2>3, <2>4, <2>5 DEF Safe, LockInv
<1>3. FailureInv'
  BY <1>1 DEF Safe, FailureInv, OneFailurePerOutage
<1>4. NilInv'
  <2>1. CASE lsConn' = "open"
    <3>1. givenUp' = givenUp
      BY <2>1, Zenon DEF Dial
    <3>2. phase' \in {"exited", "panicked"} => phase' = phase
      BY <2>1 DEF Dial
    <3> QED
      BY <1>1, <2>1, <3>1, <3>2 DEF Safe, NilInv, ShortOutageSurvived
  <2>2. CASE lsConn' # "open"
    <3>1. givenUp' <=> (givenUp \/ tries'[c] = MaxTries)
      BY <2>2, Zenon DEF Dial
    <3>2. pc'[c] = "dial" \/ tries'[c] = MaxTries
      BY <1>1, <2>2 DEF TypeOK, Dial, LastTry
    <3>3. phase' = "exited" => phase = "exited" \/ tries'[c] = MaxTries
      BY <2>2 DEF Dial, LastTry
    <3>4. phase' = "panicked" => phase = "panicked"
      BY <2>2 DEF Dial
    <3>5. lsConn' = "nil" => givenUp' \/ \E d \in Caller : pc'[d] = "dial"
      BY <3>1, <3>2, Zenon
    <3>6. phase' = "exited" => givenUp'
      BY <3>1, <3>3, Zenon DEF Safe, NilInv
    <3>7. phase' = "panicked" => givenUp' \/ overlapped'
      BY <1>1, <3>1, <3>4, Zenon DEF Safe, NilInv, ShortOutageSurvived
    <3> QED
      BY <3>5, <3>6, <3>7, Zenon DEF NilInv, ShortOutageSurvived
  <2> QED
    BY <2>1, <2>2
<1> QED
  BY <1>2, <1>3, <1>4 DEF Safe

\* Only the first write to fail after an outage finds the connection broken and
\* nobody repairing it.
LEMMA WriteFailsSafe ==
  ASSUME TypeOK, Safe, NEW c \in Caller, WriteFails(c)
  PROVE  Safe'
<1>1. /\ UNCHANGED <<lsConn, phase, mutex, outages, givenUp, overlapped>>
      /\ pc[c] = "write" /\ pc'[c] = "reconnect"
      /\ \A d \in Caller : d # c => pc'[d] = pc[d]
      /\ lsConn = "broken"
  BY DEF TypeOK, WriteFails, Writing, AfterFailure
<1>2. LockInv'
  BY <1>1 DEF Safe, LockInv
<1>3. NilInv'
  BY <1>1 DEF Safe, NilInv, ShortOutageSurvived
<1>4. FailureInv'
  <2> SUFFICES ASSUME ~overlapped PROVE failures' <= outages
    BY <1>1 DEF FailureInv, OneFailurePerOutage
  <2>1. \A d \in Caller : pc[d] \notin {"reconnect", "dial"}
    BY <1>1 DEF Safe, LockInv
  <2>2. failures < outages
    BY <1>1, <2>1 DEF Safe, FailureInv
  <2> QED
    BY <2>2 DEF TypeOK, WriteFails
<1> QED
  BY <1>2, <1>3, <1>4 DEF Safe

LEMMA StepSafe ==
  ASSUME TypeOK, Safe, Next
  PROVE  Safe'
<1>1. CASE GoDown
  <2>1. UNCHANGED <<phase, mutex, pc, failures, givenUp, overlapped>>
    BY <1>1 DEF GoDown, callVars
  <2>2. outages' = outages + 1 /\ outages \in Nat /\ failures \in Nat
    BY <1>1, LogstashAssumption DEF GoDown, TypeOK
  <2>3. lsConn' = "nil" => lsConn = "nil"
    BY <1>1 DEF GoDown
  <2>4. LockInv' /\ NilInv'
    BY <2>1, <2>3 DEF Safe, LockInv, NilInv, ShortOutageSurvived
  <2>5. failures <= outages => failures' <= outages' /\ failures' < outages'
    BY <2>1, <2>2
  <2>6. FailureInv'
    BY <2>1, <2>5, Zenon DEF Safe, FailureInv, OneFailurePerOutage
  <2> QED
    BY <2>4, <2>6 DEF Safe
<1>2. CASE ComeUp
  BY <1>2 DEF Safe, LockInv, NilInv, FailureInv, ShortOutageSurvived, OneFailurePerOutage,
              ComeUp, callVars, history
<1>3. CASE Started
  BY <1>3 DEF Safe, LockInv, NilInv, FailureInv, ShortOutageSurvived, OneFailurePerOutage,
              Started, callVars, history
<1>4. CASE Stall \/ ReadAgain
  <2>1. UNCHANGED <<lsConn, phase, callVars, tries, history>>
    BY <1>4 DEF Stall, ReadAgain
  <2> QED
    BY <2>1
    DEF Safe, LockInv, NilInv, FailureInv, ShortOutageSurvived, OneFailurePerOutage,
        callVars, history
<1>5. ASSUME NEW c \in Caller, Step(c) \/ WriteFails(c)
      PROVE  Safe'
  <2>1. CASE Begin(c)
    BY <2>1, BeginSafe
  <2>2. CASE Write(c)
    <3>1. CASE lsConn = "nil" /\ Panic
      BY <2>2, <3>1, PanicSafe DEF Write, Writing
    <3>2. CASE lsConn # "nil"
      BY <2>2, <3>2
      DEF Safe, LockInv, NilInv, FailureInv, ShortOutageSurvived, OneFailurePerOutage,
          Write, history
    <3> QED
      BY <2>2, <3>1, <3>2 DEF Write
  <2>3. CASE Reconnect(c)
    <3>1. CASE lsConn = "nil" /\ Panic
      BY <2>3, <3>1, PanicSafe DEF Reconnect
    <3>2. CASE lsConn # "nil"
      BY <2>3, <3>2
      DEF TypeOK, Safe, LockInv, NilInv, FailureInv, ShortOutageSurvived,
          OneFailurePerOutage, Reconnect, Alive, history
    <3> QED
      BY <2>3, <3>1, <3>2 DEF Reconnect
  <2>4. CASE Dial(c)
    BY <2>4, DialSafe
  <2>5. CASE End(c)
    <3>1. /\ UNCHANGED <<lsConn, phase, outages, failures, givenUp, overlapped>>
          /\ mutex' = mutex \ {c} /\ pc[c] = "write" /\ pc'[c] = "idle"
          /\ \A d \in Caller : d # c => pc'[d] = pc[d]
          /\ Alive
      BY <2>5 DEF TypeOK, End, history
    <3>2. LockInv'
      BY <3>1 DEF Safe, LockInv, Alive
    <3>3. NilInv' /\ FailureInv'
      BY <3>1 DEF Safe, NilInv, FailureInv, ShortOutageSurvived, OneFailurePerOutage
    <3> QED
      BY <3>2, <3>3 DEF Safe
  <2>6. CASE WriteFails(c)
    BY <2>6, WriteFailsSafe
  <2> QED
    BY <1>5, <2>1, <2>2, <2>3, <2>4, <2>5, <2>6 DEF Step
<1> QED
  BY <1>1, <1>2, <1>3, <1>4, <1>5 DEF Next

\* Whatever the number of callers: no two are in UpdateNode unless main was there
\* without the lock; the connection is nil only under the hands of somebody who
\* dials; and a broken one that nobody repairs has not failed a write yet.
THEOREM LogstashInvariant == Spec => []IInv
<1>1. TypeOK /\ Safe /\ [Next]_vars => Safe'
  <2>1. CASE Next
    BY <2>1, StepSafe
  <2>2. CASE UNCHANGED vars
    BY <2>2
    DEF Safe, LockInv, NilInv, FailureInv, ShortOutageSurvived, OneFailurePerOutage,
        vars, callVars, history
  <2> QED
    BY <2>1, <2>2
<1>2. Typed /\ [Next]_vars => Typed'
  BY StepTyped DEF Typed, TypeOK, TriesInv, vars, callVars, history
<1>3. Typed => TypeOK
  BY DEF Typed
<1>4. Typed /\ Safe => IInv
  BY DEF Typed, Safe, IInv
<1> QED
  BY InitTyped, InitSafe, <1>1, <1>2, <1>3, <1>4, PTL DEF Spec

\* The process dies of a nil connection only if somebody dialled MaxTries times in
\* vain, or if main's unlocked start met the goroutine of an event.
THEOREM ShortOutageCorrect == Spec => []ShortOutageSurvived
<1>1. IInv => ShortOutageSurvived
  BY DEF IInv, NilInv
<1> QED
  BY LogstashInvariant, <1>1, PTL

\* Under the same condition, no outage makes more than one write fail.
THEOREM OneFailureCorrect == Spec => []OneFailurePerOutage
<1>1. IInv => OneFailurePerOutage
  BY DEF IInv, FailureInv
<1> QED
  BY LogstashInvariant, <1>1, PTL
=============================================================================
