------------------------------ MODULE OneShot ------------------------------
(***************************************************************************)
(* What a step-up approval promises, without keys, digests, clocks or      *)
(* replicas: a person's decision on a raised approval is final, and an     *)
(* approved one lets one operation run, once, after it has been spent.     *)
(***************************************************************************)
EXTENDS Naturals

CONSTANT Ids   \* approvals

VARIABLES
  state,       \* how far the approval has come
  ran          \* operations that ran under it

oneShotVars == <<state, ran>>

Init ==
  /\ state = [i \in Ids |-> "none"]
  /\ ran = [i \in Ids |-> 0]

Move(i, from, to) ==
  /\ state[i] = from
  /\ state' = [state EXCEPT ![i] = to]
  /\ UNCHANGED ran

Run(i) ==
  /\ state[i] = "used" /\ ran[i] = 0
  /\ ran' = [ran EXCEPT ![i] = 1]
  /\ UNCHANGED state

Next == \E i \in Ids :
  \/ Move(i, "none", "pending")
  \/ Move(i, "pending", "approved")
  \/ Move(i, "pending", "denied")
  \/ Move(i, "approved", "used")
  \/ Run(i)

Spec == Init /\ [][Next]_oneShotVars
=============================================================================
