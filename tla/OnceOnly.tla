------------------------------- MODULE OnceOnly -------------------------------
(***************************************************************************)
(* What an idempotency key promises a client that repeats a command with an *)
(* effect outside the database: under one key the command starts at most    *)
(* once and takes effect at most once, and it is reported as done only      *)
(* after its effect.  A failure reported may hide an effect whose           *)
(* confirmation was lost, and a command that died stays started.            *)
(***************************************************************************)
EXTENDS Naturals

CONSTANT Keys

VARIABLES
  outcome,    \* key -> what a repeated call is told
  effects     \* key -> how often the command took effect under it

vars == <<outcome, effects>>

Init ==
  /\ outcome = [k \in Keys |-> "none"]
  /\ effects = [k \in Keys |-> 0]

Start(k) ==
  /\ outcome[k] = "none"
  /\ outcome' = [outcome EXCEPT ![k] = "STARTED"]
  /\ UNCHANGED effects

TakeEffect(k) ==
  /\ outcome[k] = "STARTED"
  /\ effects[k] = 0
  /\ effects' = [effects EXCEPT ![k] = 1]
  /\ UNCHANGED outcome

Report(k, result) ==
  /\ outcome[k] = "STARTED"
  /\ result = "SUCCEEDED" => effects[k] = 1
  /\ outcome' = [outcome EXCEPT ![k] = result]
  /\ UNCHANGED effects

Next ==
  \E k \in Keys :
    \/ Start(k) \/ TakeEffect(k)
    \/ \E result \in {"SUCCEEDED", "FAILED"} : Report(k, result)

Spec == Init /\ [][Next]_vars

=============================================================================
