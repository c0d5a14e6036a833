------------------------------- MODULE Consent -------------------------------
(***************************************************************************)
(* What a website is promised, and what the user is: a request is answered *)
(* at most once; it gets data only when the user said yes to this very     *)
(* request, and it is called rejected only when the user has decided.      *)
(***************************************************************************)
CONSTANT Requests

VARIABLES
  decision,  \* what the user did with each request
  reply      \* what the website got

consent == <<decision, reply>>

Init ==
  /\ decision = [r \in Requests |-> "none"]
  /\ reply = [r \in Requests |-> "none"]

Decide(r, d) ==
  /\ decision[r] = "none"
  /\ decision' = [decision EXCEPT ![r] = d]
  /\ UNCHANGED reply

\* Anything may fail, so that an error needs no decision; several replies may go out at
\* once, as when the worker dies.
Reply(some, what) ==
  /\ \A r \in some :
       /\ reply[r] = "none"
       /\ what = "data" => decision[r] = "yes"
       /\ what = "rejected" => decision[r] # "none"
  /\ reply' = [r \in Requests |-> IF r \in some THEN what ELSE reply[r]]
  /\ UNCHANGED decision

Next ==
  \/ \E r \in Requests, d \in {"yes", "no"} : Decide(r, d)
  \/ \E some \in SUBSET Requests, what \in {"data", "rejected", "error"} : Reply(some, what)

Spec == Init /\ [][Next]_consent
=============================================================================
