------------------------------- MODULE Delivery -------------------------------
(***************************************************************************)
(* What alert delivery promises, without a store, workers or retries: the  *)
(* topic is a growing prefix of the accepted events.  Nothing accepted is  *)
(* lost, skipped, reordered or invented, and everything accepted is        *)
(* delivered in the end.  An immediate redelivery is a stuttering step.    *)
(***************************************************************************)
EXTENDS Naturals, Sequences

CONSTANT Events

VARIABLES accepted, log

deliveryVars == <<accepted, log>>

DeliveryInit == accepted = <<>> /\ log = <<>>

Accept(event) == accepted' = Append(accepted, event) /\ UNCHANGED log

Deliver ==
  /\ Len(log) < Len(accepted)
  /\ log' = Append(log, accepted[Len(log) + 1])
  /\ UNCHANGED accepted

DeliveryNext == Deliver \/ \E event \in Events : Accept(event)

DeliverySafety == DeliveryInit /\ [][DeliveryNext]_deliveryVars

DeliverySpec == DeliverySafety /\ WF_deliveryVars(Deliver)
===============================================================================
