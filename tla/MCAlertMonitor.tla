--------------------------- MODULE MCAlertMonitor ---------------------------
(* Instances of AlertMonitor for TLC. *)
EXTENDS AlertMonitor

CONSTANTS ip1, ip2

OneIP == {ip1}
TwoIPs == {ip1, ip2}
=============================================================================
