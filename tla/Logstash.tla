------------------------------- MODULE Logstash ------------------------------
(***************************************************************************)
(* The connection to Logstash behind UpdateNode (db/elasticsearch.go).     *)
(*                                                                         *)
(* One TCP connection serves the whole process.  A write that fails makes  *)
(* its caller dial again, at most MaxTries times, in the middle of         *)
(* UpdateNode: with containersMutex held, unless the caller is main in its *)
(* start-up loop, which calls Create without it, beside the goroutines of  *)
(* events that have come already.  net.Dial answers a nil connection with  *)
(* its error, and connectToLogstash stores it; a nil connection is an      *)
(* interface without a value, whose methods panic and end the process.     *)
(*                                                                         *)
(* No deadline is set on the connection.  A Logstash that is up but does   *)
(* not read blocks a write as soon as the buffers of TCP are full, for as  *)
(* long as it likes.                                                       *)
(*                                                                         *)
(* Of the registry only the number of values to send is left.  Encoding a  *)
(* value does not fail.                                                    *)
(***************************************************************************)
EXTENDS Naturals, FiniteSets

CONSTANTS
  Caller,      \* main and the goroutines of events
  Main,        \* main
  Values,      \* how many values one call of UpdateNode has to send at most
  MaxTries,    \* how often connectToLogstash dials
  MaxOutages   \* bound: how often Logstash goes down

ASSUME LogstashAssumption ==
  /\ IsFiniteSet(Caller) /\ Main \in Caller
  /\ Values \in Nat /\ MaxTries \in Nat \ {0} /\ MaxOutages \in Nat

VARIABLES
  logstash,   \* "up", "stalled" while it is up but does not read, or "down"
  lsConn,     \* "open", "broken" once Logstash has gone down, or "nil"
  phase,      \* of the process: "connecting", "starting" while main registers what
              \* it has listed, "running", "exited", "panicked"
  mutex,      \* who holds containersMutex, as a set
  pc,         \* where a caller is in UpdateNode
  left,       \* the values it has still to send
  tries,      \* failed attempts of the dialling under way
  \* history, read by no action
  outages,    \* how often Logstash has gone down
  failures,   \* writes that failed, counted to one more than MaxOutages
  givenUp,    \* whether somebody has dialled MaxTries times in vain
  overlapped  \* whether main was ever in UpdateNode, unlocked, beside a goroutine

callVars == <<mutex, pc, left>>
history == <<outages, failures, givenUp, overlapped>>
vars == <<logstash, lsConn, phase, callVars, tries, history>>

Alive == phase \in {"starting", "running"}
-----------------------------------------------------------------------------
(* Logstash *)

GoDown ==
  /\ logstash # "down" /\ outages < MaxOutages
  /\ logstash' = "down"
  /\ outages' = outages + 1
  /\ lsConn' = IF lsConn = "open" THEN "broken" ELSE lsConn
  /\ UNCHANGED <<phase, callVars, tries, failures, givenUp, overlapped>>

ComeUp ==
  /\ logstash = "down"
  /\ logstash' = "up"
  /\ UNCHANGED <<lsConn, phase, callVars, tries, history>>

Stall ==
  /\ logstash = "up"
  /\ logstash' = "stalled"
  /\ UNCHANGED <<lsConn, phase, callVars, tries, history>>

ReadAgain ==
  /\ logstash = "stalled"
  /\ logstash' = "up"
  /\ UNCHANGED <<lsConn, phase, callVars, tries, history>>
-----------------------------------------------------------------------------
(* connectToLogstash *)

\* Faulty variants of LastTry: one attempt too few, one too many.
LastTryEarly(n) == n + 1 = MaxTries
LastTryLate(n) == n = MaxTries + 1

LastTry(n) == n = MaxTries

\* Faulty variant of Counted: the count begins anew with every attempt.
CountedAnew(n) == 1

Counted(n) == n + 1

\* One call of net.Dial and, if it has failed, the sleep after it.  main makes
\* the first connection before anything else; without it, main returns.  It is the
\* system that accepts a connection: a Logstash that does not read has it, too.
Dial(c) ==
  /\ phase = "connecting" \/ Alive
  /\ pc[c] = "dial"
  /\ \/ /\ logstash # "down"
        /\ lsConn' = "open"
        /\ pc' = [pc EXCEPT ![c] = IF phase = "connecting" THEN "idle" ELSE "write"]
        /\ phase' = IF phase = "connecting" THEN "starting" ELSE phase
        /\ UNCHANGED <<tries, givenUp>>
     \/ /\ logstash = "down"
        /\ lsConn' = "nil"
        /\ tries' = [tries EXCEPT ![c] = Counted(@)]
        /\ givenUp' = (givenUp \/ tries'[c] = MaxTries)
        /\ \/ /\ ~LastTry(tries'[c])
              /\ UNCHANGED <<pc, phase>>
           \/ /\ LastTry(tries'[c]) /\ Alive
              /\ pc' = [pc EXCEPT ![c] = "write"]
              /\ UNCHANGED phase
           \/ /\ LastTry(tries'[c]) /\ phase = "connecting"
              /\ phase' = "exited"
              /\ UNCHANGED pc
  /\ UNCHANGED <<logstash, mutex, left, outages, failures, overlapped>>

\* What the two uses of a nil connection come to.
Panic ==
  /\ phase' = "panicked"
  /\ UNCHANGED <<logstash, lsConn, callVars, tries, history>>

\* reconnectToLogstash asks the old connection for its address.
Reconnect(c) ==
  /\ Alive /\ pc[c] = "reconnect"
  /\ \/ lsConn = "nil" /\ Panic
     \/ /\ lsConn # "nil"
        /\ pc' = [pc EXCEPT ![c] = "dial"]
        /\ tries' = [tries EXCEPT ![c] = 0]
        /\ UNCHANGED <<logstash, lsConn, phase, mutex, left, history>>
-----------------------------------------------------------------------------
(* UpdateNode *)

\* main, in its start-up loop.
Unlocked(c) == c = Main /\ phase = "starting"

\* Faulty variant of MayEnter: the lock is not waited for.
EnterAtOnce(c) == TRUE

MayEnter(c) == Unlocked(c) \/ mutex = {}

Begin(c) ==
  /\ Alive /\ pc[c] = "idle"
  /\ MayEnter(c)
  /\ mutex' = IF Unlocked(c) THEN mutex ELSE mutex \cup {c}
  /\ pc' = [pc EXCEPT ![c] = "write"]
  /\ \E n \in 0..Values : left' = [left EXCEPT ![c] = n]
  /\ overlapped' =
       (overlapped \/ \E d \in Caller : pc[d] # "idle" /\ (Unlocked(c) \/ Unlocked(d)))
  /\ UNCHANGED <<logstash, lsConn, phase, tries, outages, failures, givenUp>>

Writing(c) == Alive /\ pc[c] = "write" /\ left[c] > 0

\* Nothing comes back from a broken connection at first: what is written to it
\* is lost and nobody knows.  What a Logstash that does not read is sent goes to
\* the buffers, as long as they have room.
Write(c) ==
  /\ Writing(c)
  /\ \/ lsConn = "nil" /\ Panic
     \/ /\ lsConn # "nil"
        /\ left' = [left EXCEPT ![c] = @ - 1]
        /\ UNCHANGED <<logstash, lsConn, phase, mutex, pc, tries, history>>

\* Faulty variant of AfterFailure: the error is logged, and that is all.
AfterFailureOnly == "write"

AfterFailure == "reconnect"

MayBlock(c) == Writing(c) /\ lsConn = "open" /\ logstash = "stalled"

\* The value that was not sent is left behind.
WriteFails(c) ==
  /\ Writing(c) /\ lsConn = "broken"
  /\ failures' = IF failures > MaxOutages THEN failures ELSE failures + 1
  /\ left' = [left EXCEPT ![c] = @ - 1]
  /\ pc' = [pc EXCEPT ![c] = AfterFailure]
  /\ UNCHANGED <<logstash, lsConn, phase, mutex, tries, outages, givenUp, overlapped>>

End(c) ==
  /\ Alive /\ pc[c] = "write" /\ left[c] = 0
  /\ pc' = [pc EXCEPT ![c] = "idle"]
  /\ mutex' = mutex \ {c}
  /\ UNCHANGED <<logstash, lsConn, phase, left, tries, history>>

\* main has registered what it had listed; from now on it takes the lock.
Started ==
  /\ phase = "starting" /\ pc[Main] = "idle"
  /\ phase' = "running"
  /\ UNCHANGED <<logstash, lsConn, callVars, tries, history>>
-----------------------------------------------------------------------------
(* The specification *)

Init ==
  /\ logstash \in {"up", "down"}
  /\ lsConn = "nil"
  /\ phase = "connecting"
  /\ mutex = {}
  /\ pc = [c \in Caller |-> IF c = Main THEN "dial" ELSE "idle"]
  /\ left = [c \in Caller |-> 0]
  /\ tries = [c \in Caller |-> 0]
  /\ outages = 0 /\ failures = 0 /\ givenUp = FALSE /\ overlapped = FALSE

Step(c) == Begin(c) \/ Write(c) \/ Reconnect(c) \/ Dial(c) \/ End(c)

Next ==
  \/ GoDown \/ ComeUp \/ Stall \/ ReadAgain \/ Started
  \/ \E c \in Caller : Step(c) \/ WriteFails(c)

\* A caller goes on, unless it is in a write that may block; TCP does not swallow
\* what is written to a broken connection for ever.  Nobody has to begin.
Spec ==
  /\ Init /\ [][Next]_vars
  /\ \A c \in Caller :
       /\ WF_vars(Step(c) /\ pc[c] # "idle" /\ ~MayBlock(c))
       /\ SF_vars(WriteFails(c))
-----------------------------------------------------------------------------
(* Properties *)

TypeOK ==
  /\ logstash \in {"up", "stalled", "down"}
  /\ lsConn \in {"open", "broken", "nil"}
  /\ phase \in {"connecting", "starting", "running", "exited", "panicked"}
  /\ mutex \in SUBSET Caller
  /\ pc \in [Caller -> {"idle", "write", "reconnect", "dial"}]
  /\ left \in [Caller -> 0..Values]
  /\ tries \in [Caller -> 0..MaxTries]
  /\ outages \in 0..MaxOutages
  /\ failures \in 0..(MaxOutages + 1)
  /\ givenUp \in BOOLEAN /\ overlapped \in BOOLEAN

\* A lost connection ends the process only after MaxTries failed attempts in a
\* row: an outage that is shorter is survived, unless it meets main's unlocked
\* Create beside the goroutine of an event, where one caller may use the nil of
\* the other's failed attempt.
ShortOutageSurvived == phase = "panicked" => givenUp \/ overlapped

\* Under the same condition, an outage makes one write fail at most, whoever makes
\* it; the caller that finds the connection broken repairs it for all.  (What was
\* written to the broken connection before that is lost as well.)
OneFailurePerOutage == failures <= outages \/ overlapped

\* If Logstash reads, or ends the connection, in the end, then whoever is in
\* UpdateNode comes back - containersMutex is free again - or the process has
\* ended.  As long as it does neither, the lock may be held.
CallsReturn ==
  <>[](logstash # "stalled") =>
    \A c \in Caller :
      pc[c] # "idle" ~> (pc[c] = "idle" \/ phase \in {"exited", "panicked"})

\* Somebody has a value to send.
Sending == \E c \in Caller : Writing(c)

\* If Logstash is there to stay, and if there are values to send again and again
\* (main does not call UpdateNode while no container is active, and nobody repairs
\* a connection that nobody uses), so is the connection in the end.
Reconnected ==
  <>[](logstash = "up") /\ []<>Sending => <>[](lsConn = "open")
-----------------------------------------------------------------------------
(* The inductive invariant *)

\* A dialling that goes on has an attempt left.
TriesInv == \A c \in Caller :
  pc[c] = "dial" /\ phase # "exited" => tries[c] < MaxTries

\* Whoever is in UpdateNode has the lock, but for main before the process runs.
\* Unless main was there beside a goroutine, nobody ever is beside another.
LockInv ==
  /\ \A c, d \in mutex : c = d
  /\ \A c \in Caller : pc[c] # "idle" => c \in mutex \/ (c = Main /\ phase # "running")
  /\ ~overlapped => \A c, d \in Caller : pc[c] # "idle" /\ pc[d] # "idle" => c = d
  /\ phase = "connecting" => mutex = {} /\ pc[Main] = "dial"

\* The connection is nil only while somebody dials, or after giving up.
NilInv ==
  /\ lsConn = "nil" =>
       \/ givenUp \/ overlapped
       \/ \E c \in Caller : pc[c] = "dial"
  /\ phase = "exited" => givenUp
  /\ ShortOutageSurvived

\* A connection that is broken, and that nobody is repairing, has not failed yet.
FailureInv ==
  /\ OneFailurePerOutage
  /\ lsConn = "broken" /\ (\A c \in Caller : pc[c] \notin {"reconnect", "dial"})
       => failures < outages \/ overlapped

IInv == TriesInv /\ LockInv /\ NilInv /\ FailureInv
=============================================================================
