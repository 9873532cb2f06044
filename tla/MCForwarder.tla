----------------------------- MODULE MCForwarder -----------------------------
(* Instances of Forwarder for TLC. *)
EXTENDS Forwarder, Parsers

Defaults == [trustCf |-> FALSE, exclude |-> {"ours"}, allRequests |-> TRUE,
             excludeUa |-> {"monitor"}]

Request(uri) ==
    [format |-> "caddy", ip |-> "public", cf |-> "none", method |-> "GET", path |-> uri,
     secret |-> FALSE, status |-> "ok", ua |-> "browser"]

\* Two requests with one text and another one, an attack and a preflight.
RawLine(i) ==
    CASE i \in {"page", "again"} -> Request("page")
      [] i = "post"  -> [Request("page") EXCEPT !.method = "POST"]
      [] i = "probe" -> [Request("admin") EXCEPT !.status = "error"]
      [] i = "cors"  -> [Request("page") EXCEPT !.method = "OPTIONS"]

\* A login, a guess (which the API refuses) and noise.
Message(i) ==
    [form |-> CASE i = "login" -> "accepted" [] i = "bad" -> "failed" [] OTHER -> "session",
     ip |-> "other"]
RawEntry(i) == [json |-> TRUE, holds |-> "text", message |-> Message(i), cursor |-> TRUE]

PayloadOf(i) ==
    IF i \in Lines THEN ParseAccess(RawLine(i), Defaults) ELSE ParseJournal(RawEntry(i)).payload

\* What counts as the same text is what the gate hashes: source, address and message.
SomePayloads == [i \in Items |->
    IF PayloadOf(i) = Dropped THEN NoPayload
    ELSE [key |-> CHOOSE j \in Items : PayloadOf(j) = PayloadOf(i),
          severity |-> PayloadOf(i).severity,
          preflight |-> IsCorsPreflight(PayloadOf(i)),
          accepted |-> i # "bad"]]

SomeScenarios ==
    {{"page", "post", "login", "tick"},
     {"page", "again", "rotate", "io", "truncate"},
     {"page", "again", "rotate", "crash", "tick"},
     {"page", "again", "login", "noise", "api", "ack", "crash", "journal"},
     {"page", "probe", "bad", "cors", "api"}}

-----------------------------------------------------------------------------

\* What --stats makes of the host as it is: the log with the files rolled away, the journal.
Forecast ==
    LET written == [<<i, n>> \in UNION {{<<i, n>> : n \in DOMAIN content[i]} : i \in DOMAIN content}
                      |-> RawLine(content[i][n])]
        entries == [n \in DOMAIN journal |-> RawEntry(journal[n])]
    IN  AccessStats(written, Defaults).wouldSend + SshdStats(entries).wouldSend

\* Whoever sets the cap by the forecast of --stats loses nothing to it: the gate refuses a
\* line only when the host has got more lines that would be sent than the cap of that
\* severity admits, whatever was rotated, deduplicated or expired on the way (Gate.admit,
\* stats.run).
CapIsTheForecast ==
    [][\A t \in Threads :
         faults' = 0 /\ work[t].pc = "check" /\ work'[t].pc \in {"idle", "mark"}
         => Forecast > Cap(Of(t).severity)]_vars
=============================================================================
