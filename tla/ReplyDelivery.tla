--------------------------- MODULE ReplyDelivery ---------------------------
(***************************************************************************)
(* What the AI reply pipeline promises about a reply job, without tasks,   *)
(* leases, retries or quota: one reply text is chosen for the job, only    *)
(* that text ever reaches the customer, and the job is closed once, as     *)
(* answered only after the text was delivered.  Delivery may come after    *)
(* the job is closed: a request the runtime accepted can be executed late. *)
(***************************************************************************)
CONSTANTS Jobs, Texts, NoText

VARIABLES
  chosen,      \* chosen[j]: the reply of job j, or NoText
  delivered,   \* delivered[j]: what the customer received for job j, or NoText
  outcome      \* outcome[j]: "open", "answered" or "closed"

vars == <<chosen, delivered, outcome>>

Init ==
  /\ chosen = [j \in Jobs |-> NoText]
  /\ delivered = [j \in Jobs |-> NoText]
  /\ outcome = [j \in Jobs |-> "open"]

Choose(j, t) ==
  /\ outcome[j] = "open" /\ chosen[j] = NoText
  /\ chosen' = [chosen EXCEPT ![j] = t]
  /\ UNCHANGED <<delivered, outcome>>

Deliver(j) ==
  /\ chosen[j] # NoText /\ delivered[j] = NoText
  /\ delivered' = [delivered EXCEPT ![j] = chosen[j]]
  /\ UNCHANGED <<chosen, outcome>>

Answer(j) ==
  /\ outcome[j] = "open" /\ delivered[j] # NoText
  /\ outcome' = [outcome EXCEPT ![j] = "answered"]
  /\ UNCHANGED <<chosen, delivered>>

Close(j) ==
  /\ outcome[j] = "open"
  /\ outcome' = [outcome EXCEPT ![j] = "closed"]
  /\ UNCHANGED <<chosen, delivered>>

Next == \E j \in Jobs :
          \/ \E t \in Texts : Choose(j, t)
          \/ Deliver(j) \/ Answer(j) \/ Close(j)

Spec == Init /\ [][Next]_vars
============================================================================
