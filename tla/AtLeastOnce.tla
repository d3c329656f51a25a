----------------------------- MODULE AtLeastOnce -----------------------------
(***************************************************************************)
(* What PerformRequest promises to its caller: a request that is answered  *)
(* has taken effect at least once, an error says nothing about that, no    *)
(* request takes effect more than MaxEffects times, and every request      *)
(* comes back.                                                             *)
(***************************************************************************)
EXTENDS Naturals

CONSTANTS Requester, MaxEffects

VARIABLES
  state,     \* "idle", "open" while the request is under way, "ok" or "error"
  effects    \* how often the request has taken effect

vars == <<state, effects>>

Open(r) ==
  /\ state[r] # "open"
  /\ state' = [state EXCEPT ![r] = "open"]
  /\ effects' = [effects EXCEPT ![r] = 0]

Take(r) ==
  /\ state[r] = "open" /\ effects[r] < MaxEffects
  /\ effects' = [effects EXCEPT ![r] = @ + 1]
  /\ UNCHANGED state

Answer(r) ==
  /\ state[r] = "open"
  /\ \/ effects[r] > 0 /\ state' = [state EXCEPT ![r] = "ok"]
     \/ state' = [state EXCEPT ![r] = "error"]
  /\ UNCHANGED effects

Init ==
  /\ state = [r \in Requester |-> "idle"]
  /\ effects = [r \in Requester |-> 0]

Next == \E r \in Requester : Open(r) \/ Take(r) \/ Answer(r)

Spec == Init /\ [][Next]_vars /\ \A r \in Requester : WF_vars(Answer(r))
=============================================================================
