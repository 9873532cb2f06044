------------------------------- MODULE Parsers -------------------------------
(***************************************************************************)
(* What the forwarder makes of a line: a payload for POST /logs or         *)
(* nothing, and what --stats reckons would be sent.  A line is a record    *)
(* of the classes that the filters tell apart:                             *)
(*                                                                         *)
(*  access log: format "combined" or "caddy" (anything else is not one),   *)
(*    ip, cf (the CF-Connecting-IP, or "none"), method, path (a page, an   *)
(*    "asset", "health", a probed "admin", or an attack), secret (the      *)
(*    query holds one), status ("ok", "error", "mangled") and ua           *)
(*  sshd: form (which of the messages it is), ip                           *)
(*  an entry of the journal: json, holds ("text", "bytes", "none"), the    *)
(*    sshd message, whether it has a cursor                                *)
(*                                                                         *)
(* s is the settings: trustCf, the addresses and monitors to exclude,      *)
(* allRequests.                                                            *)
(***************************************************************************)
EXTENDS Integers, FiniteSets

Dropped == [severity |-> "none"]

\* An address the API would refuse is left out.
Ip(raw) == IF raw = "mangled" THEN "none" ELSE raw
Internal(ip, exclude) == ip = "private" \/ ip \in exclude

\* The first filter that matches; a probe only counts when it failed.
Suspicious(path, ua, status) ==
    \/ ua = "sqlmap"
    \/ path \in {"dotdot", "passwd", "union", "shell"}
    \/ path = "admin" /\ status = "error"

Client(l, s) ==
    IF s.trustCf /\ Ip(l.cf) # "none" THEN Ip(l.cf) ELSE Ip(l.ip)

\* The settings thin out what is ordinary, and an ordinary line loses its secrets.
Ordinary(l, s) == s.allRequests /\ l.path # "asset" /\ l.ua \notin s.excludeUa

Excluded(l, s) ==
    l.status = "mangled" \/ Internal(Client(l, s), s.exclude) \/ l.path = "health"

Unwanted(l, s) ==
    \/ Excluded(l, s)
    \/ ~Suspicious(l.path, l.ua, l.status) /\ ~Ordinary(l, s)

HttpPayload(l, s) ==
    LET attack == Suspicious(l.path, l.ua, l.status)
    IN  IF Unwanted(l, s) THEN Dropped
        ELSE [source |-> "web-proxy", ip |-> Client(l, s),
              severity |-> IF attack THEN "WARNING" ELSE "INFO",
              message |-> <<l.method, l.path, l.secret /\ attack, l.status, l.ua>>]

ParseAccess(l, s) ==
    IF l.format \in {"combined", "caddy"} THEN HttpPayload(l, s) ELSE Dropped

\* "<METHOD> <path> <code> ..." of an ordinary request.
IsCorsPreflight(p) ==
    /\ p # Dropped /\ p.source = "web-proxy" /\ p.severity = "INFO"
    /\ p.message[1] = "OPTIONS" /\ p.message[4] = "ok"

ParseSshd(l) ==
    IF l.form \in {"pam_unix", "session"} THEN Dropped
    ELSE [source |-> "vps-sshd", ip |-> Ip(l.ip),
          severity |-> IF l.form = "accepted" THEN "INFO" ELSE "WARNING",
          message |-> <<l.form, l.ip>>]

\* Without a cursor the position in the journal stays where it was.
ParseJournal(e) ==
    [payload |-> IF e.json /\ e.holds \in {"text", "bytes"} THEN ParseSshd(e.message) ELSE Dropped,
     cursor |-> e.json /\ e.cursor]

-----------------------------------------------------------------------------
(* --stats: the files as they are, nothing is sent and no position is saved *)

\* The reckoning knows Caddy's format alone.
Counted(lines) == {n \in DOMAIN lines : lines[n].format = "caddy"}
Outside(l, s) == l.ip # "none" /\ ~Internal(l.ip, s.exclude)
Unsent(lines, s) ==
    {n \in Counted(lines) : ParseAccess(lines[n], s) = Dropped /\ s.allRequests
                            /\ Outside(lines[n], s) /\ lines[n].path # "health"}

AccessStats(lines, s) ==
    [requests |-> Cardinality(Counted(lines)),
     wouldSend |-> Cardinality({n \in Counted(lines) : ParseAccess(lines[n], s) # Dropped}),
     static |-> Cardinality({n \in Unsent(lines, s) : lines[n].path = "asset"}),
     monitor |-> Cardinality({n \in Unsent(lines, s) : lines[n].path # "asset"}),
     ips |-> Cardinality({lines[n].ip : n \in {k \in Counted(lines) : Outside(lines[k], s)}})]

SshdStats(entries) ==
    [entries |-> Cardinality(DOMAIN entries),
     wouldSend |-> Cardinality({n \in DOMAIN entries : ParseJournal(entries[n]).payload # Dropped})]
=============================================================================
