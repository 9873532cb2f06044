----------------------------- MODULE MCAccounts -----------------------------
(* Instances of Accounts and of the pages Settings, Reports and Dashboard for TLC. *)
EXTENDS DashboardPage, TLC

CONSTANTS s1, s2

SlotSymmetry == Permutations({s1, s2})

SomeScenarios ==
    {{"assign", "remove", "enable", "disable", "keycloak"},
     {"remove", "erase", "trail", "key", "db", "abort"}, {"erase", "trail", "abort"},
     {"page", "remove"}, {"page", "enable"}, {"page", "disable", "keycloak"}, {"page", "assign"},
     {"reports", "erase", "trail", "key", "db"},
     {"board", "db"}, {"batches"}}

\* What ann and bob did to each other a while ago.
SomeRows == {NewRow(1, "ann", "bob", Url, FALSE, "enable"), NewRow(2, "bob", "ann", Url, FALSE, "enable")}

\* The seventh day and the eighth, and an input without a date.
SomePicks == {6, 7, Cleared}

\* Some year, on a day in June at 10:59 and two minutes later.
SomeMoments == LET t == 20 * 525600 + 160 * 1440 + 10 * 60 + 59 IN <<t, t + 2>>

\* Logs whose age is about the span of an hour, of days, of months and of years.
Aged(age) == [l \in Logs |-> SomeMoments[2] - age[l]]
SomeArrivals ==
    {Aged(<<2, 1, 60, 61, 0>>), Aged(<<359, 361, 1440, 1439, 3>>),
     Aged(<<10080, 10079, 43200, 43201, 4>>), Aged(<<260000, 525600, 181440, 10082, 5>>),
     Aged(<<4 * 525600 + 7, 400000, 84960, 84961, 6>>)}

SomeDays == 1 :> 6 @@ 2 :> 7 @@ 3 :> 7
SomeCounts == 1 :> 2 @@ 2 :> 1 @@ 3 :> 2

\* ann and bob are active admins; eve is one whose account is disabled.
SomeAdmins == {"ann", "bob", "eve"}
SomeEnabled == {"ann", "bob"}
=============================================================================
