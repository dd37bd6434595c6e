------------------------------ MODULE TurnOnce ------------------------------
(***************************************************************************)
(* What the conversation journal promises about the turns a client has     *)
(* numbered: a turn is executed at most once, it gets at most one result,  *)
(* and whoever asks for the turn is given that result or none.             *)
(***************************************************************************)
CONSTANTS Ids,      \* the client's turn numbers
          Results,  \* what a turn may result in
          None      \* no result yet (not one of Results)

VARIABLES ran, result, given

vars == <<ran, result, given>>

Init == ran = {} /\ result = [i \in Ids |-> None] /\ given = {}

\* A turn may be abandoned (the process dies) before it runs or has a result.
Run(i) ==
  /\ i \notin ran /\ result[i] = None
  /\ ran' = ran \cup {i}
  /\ UNCHANGED <<result, given>>

Settle(i) ==
  /\ result[i] = None
  /\ \E r \in Results : result' = [result EXCEPT ![i] = r]
  /\ UNCHANGED <<ran, given>>

Give(i) ==
  /\ result[i] # None
  /\ given' = given \cup {[id |-> i, result |-> result[i]]}
  /\ UNCHANGED <<ran, result>>

Next == \E i \in Ids : Run(i) \/ Settle(i) \/ Give(i)

Spec == Init /\ [][Next]_vars
=============================================================================
