---------------------------- MODULE MCListPages ----------------------------
(* Instances of ListPages and AlertsPage for TLC. *)
EXTENDS AlertsPage, TLC

\* Two logs and two batches of one moment; log 3 may come in last with the oldest time.
MCAt == 1 :> 2 @@ 2 :> 2 @@ 3 :> 1 @@ 11 :> 2 @@ 12 :> 2

\* Log 1 comes from the address which the message of log 2 masks.
MCSource == 1 :> <<"net", "a">> @@ 2 :> <<"lan", "b">> @@ 3 :> <<"lan", "c">>
MCMessage == 1 :> {<<"login", "ok">>} @@ 2 :> {<<"net", "xxx">>} @@ 3 :> {<<"net", "a">>}
MCTyped == {NoTerm, <<"net", "a">>, Id(1)}

PagesInit == Init /\ AlertsInit
PagesNext ==
    \/ kind # "alerts" /\ Next /\ UNCHANGED alertsVars
    \/ kind = "alerts" /\ AlertsNext
        /\ UNCHANGED <<table, search, place, asks, latest, asked, loading, screen, action>>
PagesSpec == PagesInit /\ [][PagesNext]_<<vars, alertsVars>>
=============================================================================
