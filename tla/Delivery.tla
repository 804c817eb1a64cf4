------------------------------ MODULE Delivery ------------------------------
(* What publish and subscribe promise together: whoever attaches is handed   *)
(* every event recorded from then on, one at a time and in the order of the  *)
(* ledger, until it is detached; what was recorded before it attached, or    *)
(* after it was detached, it never gets (application/ports/event_bus.py).    *)
(* There are no queues here.  EventBus is shown to implement this module for *)
(* the clients of GET /events, and Ticker for its own subscription.          *)
EXTENDS Integers

CONSTANT Subscribers

VARIABLES
    recorded,   \* how many events there are
    attached,   \* who is owed the next one
    upto        \* the last event handed to a subscriber, or the last recorded
                \* before it attached; 0 for those not attached

delivery == <<recorded, attached, upto>>

Init ==
    /\ recorded \in Nat
    /\ attached = {}
    /\ upto = [s \in Subscribers |-> 0]

(* Recording never waits for a subscriber.                                   *)
Record ==
    /\ recorded' = recorded + 1
    /\ UNCHANGED <<attached, upto>>

Attach(s) ==
    /\ s \notin attached
    /\ attached' = attached \cup {s}
    /\ upto' = [upto EXCEPT ![s] = recorded]
    /\ UNCHANGED recorded

(* The next event, and no event that is not recorded.                        *)
Hand(s) ==
    /\ s \in attached
    /\ upto[s] < recorded
    /\ upto' = [upto EXCEPT ![s] = @ + 1]
    /\ UNCHANGED <<recorded, attached>>

(* One of them goes, or the daemon does, and all with it.                    *)
Detach(S) ==
    /\ attached' = attached \ S
    /\ upto' = [s \in Subscribers |-> IF s \in S THEN 0 ELSE upto[s]]
    /\ UNCHANGED recorded

Next ==
    \/ Record
    \/ \E s \in Subscribers : Attach(s) \/ Hand(s)
    \/ \E S \in SUBSET attached : Detach(S)

Spec == Init /\ [][Next]_delivery
=============================================================================
