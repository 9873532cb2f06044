---------------------------- MODULE MCAlertCenter ----------------------------
(* Instances of AlertCenter for TLC. *)
EXTENDS AlertCenter

\* Two rows about one trigger, and what detection says of the same host; the numbers stand
\* for the type and the rule.
TriggerKey == <<9, "DB_AUDIT", None>>
AuditEvents == [e \in {"disable", "drop"} |-> Event(TriggerKey, "CRITICAL", None, {}, {})]

MlAlert(severity) == [log |-> "log", source |-> "vps", ip |-> "a", rule |-> 0,
                      severity |-> severity, related |-> {"log"}, prior |-> {}]
MlAlerts == {MlAlert("WARNING"), MlAlert("CRITICAL")}

AllKeys == {TriggerKey, <<0, "vps", "a">>}
=============================================================================
