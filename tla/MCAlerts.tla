------------------------------ MODULE MCAlerts ------------------------------
(* Small instances of the alert notifier.                                  *)
EXTENDS Alerts
=============================================================================
