---------------------------- MODULE MCVerifyView ----------------------------
(* Instances of Evidence, VerifyView and Drawers for TLC. *)
EXTENDS Drawers

CONSTANTS A, B

\* Batch A is sealed over three logs when it begins, B is about to be sealed over two.
SomeText == [l \in Logs |-> <<"text", l % 3>>]
SomeMembers == (A :> {1, 2, 3}) @@ (B :> {4, 5})

SomeIds == {1, 4, BadId}

SomeScenarios ==
    {{"rows", "mapping", "snapshots", "root", "rpc"},
     {"seal", "defer", "ask", "rpc", "fail"},
     {"view", "seal"}, {"view", "fail"}, {"view", "mapping"}, {"view", "rows"},
     {"drawer", "rows", "judge"}, {"drawer", "mapping", "judge"}, {"drawer", "rpc", "seal", "fail"},
     {"batches", "rows", "judge"}, {"batches", "mapping", "judge"},
     {"batches", "snapshots", "judge"}, {"batches", "rpc", "fail", "judge"},
     {"batches", "seal", "fail", "defer"}}

Init == InitWith({A}) /\ ViewInit /\ DrawersInit
Next == \/ EvidenceNext /\ UNCHANGED <<view, drawers>>
        \/ ViewNext /\ UNCHANGED drawers
        \/ DrawersNext /\ UNCHANGED view
Spec == Init /\ [][Next]_<<evidence, view, drawers>>
=============================================================================
