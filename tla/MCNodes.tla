------------------------------ MODULE MCNodes ------------------------------
(***************************************************************************)
(* The node inventory for TLC: one machine runs already, one is adopted.   *)
(* A behaviour is of one of two parts: adoptions, with one request at a    *)
(* time, from the start; or two requests at a time, after an adoption.     *)
(***************************************************************************)
EXTENDS Nodes, TLC

CONSTANTS m1, m2, n1, n2, x0, x1, i1, i2, h1

OwnNames == m1 :> {n1} @@ m2 :> {n2}
GivenOne == m2 :> x0

VARIABLE part
allVars == <<nodeVars, part>>

\* m1 joined as a subordinate, which has no CA yet: what an adoption leaves.
Adopted ==
  LET pin == [of |-> m1, kind |-> "boot", boot |-> 1] IN
  /\ machine = m1 :> [mode |-> "running", admin |-> x1, ca |-> FALSE, boot |-> 1]
             @@ m2 :> [mode |-> "running", admin |-> x0, ca |-> TRUE, boot |-> 0]
  /\ folder = n1 :> [cert |-> x1, key |-> x1, pin |-> pin, chain |-> None, moved |-> FALSE]
            @@ n2 :> [cert |-> x0, key |-> x0, pin |-> None, chain |-> m2, moved |-> FALSE]
  /\ nodes = [i \in NodeIds |->
       CASE i = i1 -> [name |-> n2, at |-> m2, dir |-> n2, chain |-> n2]
         [] i = i2 -> [name |-> n1, at |-> m1, dir |-> n1, chain |-> None]
         [] OTHER -> None]
  /\ spans = {[id |-> i1, name |-> n2, until |-> 0], [id |-> i2, name |-> n1, until |-> 0]}
  /\ hijacked = {}
  /\ enrollments = [e \in Enrolls |-> None]
  /\ adopt = [a \in Adopts |-> NoAdopt]
  /\ request = [h \in Handlers |-> NoRequest]
  /\ waiting = [a \in Adopts |-> None]
  /\ answer = [a \in Adopts |-> None]
  /\ ferried = [e \in Enrolls |-> {}]
  /\ faults = 0 /\ renames = 0

Init ==
  \/ part = "adoption" /\ NodesInit
  \/ part = "requests" /\ Adopted

\* One request at a time, and a fault or a rename, not both.
OneRequest ==
  /\ \A h \in Handlers \ {h1} : request'[h] = NoRequest
  /\ faults' + renames' <= 1

\* h1 is taken first, which leaves out no overlap.
TwoRequests ==
  /\ UNCHANGED adopt
  /\ request[h1].pc = "idle" => \A h \in Handlers \ {h1} : request[h].pc = "idle" => request'[h] = request[h]

Next ==
  /\ NodesNext /\ UNCHANGED part
  /\ IF part = "adoption" THEN OneRequest ELSE TwoRequests

\* An adoption's goroutine runs on; a node, an operator or a retry need not.
Spec == Init /\ [][Next]_allVars /\ \A a \in Adopts : WF_allVars(AdoptSteps(a) /\ UNCHANGED part)
=============================================================================
