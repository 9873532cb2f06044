----------------------------- MODULE MCPipeline -----------------------------
(* Instances of Pipeline for TLC. *)
EXTENDS Pipeline

\* Two guesses of a password from one address, the other line of the second guess, a login that
\* works, a request for a secret file, and a request without a rule.
LogAbout(time, hits, attempt, key) ==
    [source |-> "vps", ip |-> "a", time |-> time, hits |-> hits, attempt |-> attempt, key |-> key]

Attack == [l \in Logs |->
    CASE l = "try1"  -> LogAbout(1, {1}, "p1", UnknownKey)
      [] l = "try2"  -> LogAbout(2, {1}, "p2", UnknownKey)
      [] l = "pair2" -> LogAbout(3, {1}, None, UnknownKey)
      [] l = "login" -> LogAbout(4, {2}, None, 2)
      [] l = "env"   -> LogAbout(1, {3}, None, UnknownKey)
      [] l = "get"   -> LogAbout(3, {}, None, 1)]

\* 5710 with its window of attempts, 5715 that follows it, 5820 that stands alone.
BruteForce == [count |-> 2, window |-> 2, pair |-> 1, prior |-> 0, severity |-> "CRITICAL"]
Follows    == [count |-> 0, window |-> 3, pair |-> 0, prior |-> 1, severity |-> "WARNING"]
Alone      == [count |-> 0, window |-> 0, pair |-> 0, prior |-> 0, severity |-> "CRITICAL"]

AttackRules == <<BruteForce, Follows, Alone>>

AttackKeys == {<<r, "vps", "a">> : r \in 0 .. 3}

\* A login follows a request, and nothing else does.
LoginFollowsGet == <<{2}, {}>>

NoAudits == [e \in {} |-> NoEvent]
=============================================================================
