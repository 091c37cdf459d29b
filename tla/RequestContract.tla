-------------------------- MODULE RequestContract --------------------------
(***************************************************************************)
(* What the client promises about its requests, whatever its queues,       *)
(* locks and threads do: the contract of docs/request-lifecycle.md read    *)
(* off client/session.rs and client/state.rs.                              *)
(*                                                                         *)
(*   - data is delivered one event at a time until the request fails;      *)
(*   - the first failure is the only one, and it is what the terminal      *)
(*     reports: it bypasses data still queued;                             *)
(*   - the terminal is consumed at most once, nothing is delivered after   *)
(*     it, and success is reported only after an acknowledged cleanup;     *)
(*   - the acknowledgement of cleanup never changes, and carries the       *)
(*     failure when the request had failed by then;                        *)
(*   - a request leaves the registry once, after its cleanup, when it has  *)
(*     failed or its terminal was consumed.                                *)
(***************************************************************************)
EXTENDS Naturals

CONSTANTS Requests, ErrorKind

VARIABLES
  listed,      \* requests in the registry
  retired,     \* requests that have left it
  delivered,   \* events the user has received
  failure,     \* "None", or the error of the request
  ack,         \* "Pending", or the result of cleanup
  terminal     \* "None", or what the user received last

contractVars == << listed, retired, delivered, failure, ack, terminal >>

Init ==
  /\ listed = {} /\ retired = {}
  /\ delivered = [r \in Requests |-> 0]
  /\ failure = [r \in Requests |-> "None"]
  /\ ack = [r \in Requests |-> "Pending"]
  /\ terminal = [r \in Requests |-> "None"]

Admit(r) ==
  /\ r \notin listed \cup retired
  /\ listed' = listed \cup {r}
  /\ UNCHANGED << retired, delivered, failure, ack, terminal >>

Deliver(r) ==
  /\ terminal[r] = "None" /\ failure[r] = "None"
  /\ delivered' = [delivered EXCEPT ![r] = @ + 1]
  /\ UNCHANGED << listed, retired, failure, ack, terminal >>

FailWith(r, error) ==
  /\ terminal[r] = "None" /\ failure[r] = "None"
  /\ failure' = [failure EXCEPT ![r] = error]
  /\ UNCHANGED << listed, retired, delivered, ack, terminal >>

\* Cleanup is acknowledged; a backend that reports an error, or one that stops
\* before the hand-off is complete, fails the request in the same step.
Acknowledge(r) ==
  /\ ack[r] = "Pending"
  /\ failure' \in { [failure EXCEPT ![r] = e] :
                      e \in IF failure[r] = "None" THEN {"None"} \cup ErrorKind
                                                   ELSE {failure[r]} }
  /\ ack' = [ack EXCEPT ![r] = IF failure'[r] = "None" THEN "Ok" ELSE failure'[r]]
  /\ UNCHANGED << listed, retired, delivered, terminal >>

Finish(r) ==
  /\ terminal[r] = "None"
  /\ \/ failure[r] # "None" /\ terminal' = [terminal EXCEPT ![r] = failure[r]]
     \/ /\ failure[r] = "None" /\ ack[r] = "Ok"
        /\ terminal' = [terminal EXCEPT ![r] = "Completed"]
  /\ UNCHANGED << listed, retired, delivered, failure, ack >>

Leave(r) ==
  /\ r \in listed
  /\ ack[r] # "Pending"
  /\ failure[r] # "None" \/ terminal[r] # "None"
  /\ listed' = listed \ {r}
  /\ retired' = retired \cup {r}
  /\ UNCHANGED << delivered, failure, ack, terminal >>

Next ==
  \E r \in Requests :
    \/ Admit(r) \/ Deliver(r) \/ Acknowledge(r) \/ Finish(r) \/ Leave(r)
    \/ \E error \in ErrorKind : FailWith(r, error)

Spec == Init /\ [][Next]_contractVars
=============================================================================
