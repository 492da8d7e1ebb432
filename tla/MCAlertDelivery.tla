---------------------------- MODULE MCAlertDelivery ----------------------------
(* The alert path with records of one size: the event limit is the one that   *)
(* binds.                                                                      *)
EXTENDS AlertDelivery

MCSize == [h \in Hashes |-> 1]

\* Two instances in one run: two alerts that appear once, fetched by concurrent
\* workers beside the publisher; or one alert that changes again and again, with
\* failing transactions and a crash.
TwoAlertsOrOne ==
  source[2].ver > 0 =>
    /\ source[1].ver <= 1 /\ source[2].ver <= 1
    /\ source[1].hash \in {NoHash, source[2].hash}
    /\ crashes = 0 /\ poll.stateOK /\ ~recovery
===============================================================================
