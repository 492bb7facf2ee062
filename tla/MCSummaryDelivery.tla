-------------------------- MODULE MCSummaryDelivery --------------------------
(***************************************************************************)
(* Instance of SummaryDelivery for TLC.  The two ends of the way share     *)
(* nothing but the summaries on it: either the browsers take part, or the  *)
(* listener does while the browsers that asked have left, and fetches of   *)
(* the list fail.                                                          *)
(***************************************************************************)
EXTENDS SummaryDelivery

MCChatOf == [n \in Summaries |-> "a"]

MCAskerOf == [n \in Summaries |-> "v"]

MCInit ==
    /\ DeliveryInit
    /\ \/ /\ \A l \in Listeners : peer[l] = "gone"
          /\ \A w \in Sockets : ready[w] = "open"
          /\ fetchFaults = MaxFetchFaults
       \/ /\ \A l \in Listeners : peer[l] = "away"
          /\ \A w \in Sockets : ready[w] = "closed"
          /\ fetchFaults = 0

MCSpec == MCInit /\ [][DeliveryNext]_deliveryVars /\ DeliveryFairness
=============================================================================
