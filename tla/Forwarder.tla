------------------------------ MODULE Forwarder ------------------------------
(***************************************************************************)
(* The forwarder on a monitored host.  One thread follows an access log    *)
(* that is rotated under it, one follows the journal; both put what they   *)
(* read through the gate (deduplication, hourly cap) into one bounded      *)
(* queue, which the main thread sends to POST /logs, one at a time.        *)
(*                                                                         *)
(* The gate has no lock: its steps are those between which the threads of  *)
(* the process may switch.  Positions are saved in a state file, apart     *)
(* from the delivery of what was read; the queue is only in memory.        *)
(***************************************************************************)
EXTENDS Integers, Sequences, FiniteSets

CONSTANTS Lines,     \* lines the web server may write
          Entries,   \* entries the journal may get
          Payload,   \* what the parsers make of each of them
          PerHour,   \* RATE_PER_HOUR, also the capacity of the queue
          Reserve,   \* RATE_RESERVE_WARNING
          DedupTime, \* DEDUP_SECONDS, in ticks of the clock
          HourTime,  \* an hour
          Scenarios, \* bound: sets of environment events and items, of which a behaviour has one
          MaxFaults, \* bound: number of failures
          MaxTime,   \* bound: the clock
          MaxInode   \* bound: files that have had the path

EventKinds == {"tick",     \* the clock advances
               "rotate",   \* the file is rotated
               "api",      \* the API comes and goes
               "crash",    \* the process is killed, or stopped with a queue
               "ack",      \* the API stores a log and its answer is lost
               "io",       \* the file cannot be read for once
               "journal",  \* journalctl exits
               "truncate"} \* the file is truncated in place (copytruncate)

Items == Lines \cup Entries
NoPayload == [severity |-> "none"]
PayloadFields == [key : STRING, severity : {"INFO", "WARNING"}, preflight : BOOLEAN,
                  accepted : BOOLEAN]

ASSUME ForwarderConstants ==
    /\ IsFiniteSet(Items) /\ Lines \cap Entries = {}
    /\ Payload \in [Items -> PayloadFields \cup {NoPayload}]
    /\ PerHour \in Nat \ {0} /\ {Reserve, DedupTime, HourTime, MaxFaults, MaxTime} \subseteq Nat
    /\ MaxInode \in Nat \ {0} /\ \A c \in Scenarios : c \subseteq EventKinds \cup Items

VARIABLES
    now,     \* the clock
    content, \* what each inode holds
    path,    \* inode at the path, 0 between the two steps of a rotation
    writer,  \* inode the web server writes to
    journal, \* the journal
    state,   \* the state file: position in the access log, cursor
    reader,  \* follow_file
    tail,    \* follow_journal: the position of journalctl, Stopped when it does not run
    work,    \* what each thread does with the item it has read
    recent,  \* Gate.recent: when a key was seen last
    sent,    \* Gate.sent: the times of what passed
    queue,   \* Sender.queue: <<item, number>>
    flight,  \* the element step() is sending
    api,     \* "up", "down", or "back" after the one outage a behaviour may have (a bound)
    stored,  \* how often the API stored an item
    passed,  \* what this process let through: <<item, time, severity>>
    early,   \* times that left Gate.sent before their hour was over
    count,   \* elements that were ever queued
    settled, \* numbers of those that were stored, refused, pushed out, or lost by a crash
    may,     \* the scenario: what may happen in this behaviour
    faults   \* failures so far

disk == <<content, path, writer, journal>>
reading == <<state, reader, tail>>
gate == <<recent, sent, passed, early>>
sending == <<queue, flight, stored, count, settled>>
vars == <<now, disk, reading, work, gate, sending, api, may, faults>>

Threads == {"file", "journal"}
Keys == {Payload[i].key : i \in {j \in Items : Payload[j] # NoPayload}}
Unseen == <<>>
Nowhere == [inode |-> 0, offset |-> 0]
Stopped == -1
Never == -1
Nothing == <<>>
Rest == [pc |-> "idle", item |-> "none", at |-> 0]
InfoCap == IF Reserve < PerHour THEN PerHour - Reserve ELSE 0

TypeOK ==
    /\ now \in 0 .. MaxTime /\ path \in 0 .. MaxInode /\ writer \in 1 .. MaxInode
    /\ content \in [1 .. MaxInode -> Seq(Lines)] /\ journal \in Seq(Entries)
    /\ state.file # Unseen => state.file.inode \in 1 .. MaxInode /\ state.file.offset \in Nat
    /\ state.cursor \in Never .. Len(journal) /\ tail \in Stopped .. Len(journal)
    /\ reader.pc = "open" <=> reader.inode = 0
    /\ \A t \in Threads : work[t].pc = "idle" \/ Payload[work[t].item] # NoPayload
    /\ recent \in [Keys -> Never .. MaxTime] /\ Len(queue) <= PerHour
    /\ flight = Nothing \/ flight[2] \in 1 .. count
    /\ api \in {"up", "down", "back"}
    /\ settled \subseteq 1 .. count

Begins == [pc |-> "open", inode |-> 0, pos |-> 0, known |-> Unseen]

Init ==
    /\ now = 0 /\ content = [i \in 1 .. MaxInode |-> <<>>] /\ path = 1 /\ writer = 1
    /\ journal = <<>>
    /\ state = [file |-> Unseen, cursor |-> Never]
    /\ reader = Begins /\ tail = Stopped
    /\ work = [t \in Threads |-> Rest]
    /\ recent = [k \in Keys |-> Never] /\ sent = <<>> /\ passed = {} /\ early = 0
    /\ queue = <<>> /\ flight = Nothing /\ api = "up"
    /\ stored = [i \in Items |-> 0] /\ count = 0 /\ settled = {}
    /\ may \in Scenarios /\ faults = 0

Fault(k) == k \in may /\ faults < MaxFaults /\ faults' = faults + 1

-----------------------------------------------------------------------------
(* Environment *)

Tick ==
    /\ "tick" \in may /\ now < MaxTime /\ now' = now + 1
    /\ UNCHANGED <<disk, reading, work, gate, sending, api, faults>>

\* A line that is not complete yet makes the reader come back to where it begins.
Write(l) ==
    /\ l \in may /\ \A i \in 1 .. MaxInode : \A n \in DOMAIN content[i] : content[i][n] # l
    /\ content' = [content EXCEPT ![writer] = Append(@, l)]
    /\ UNCHANGED <<now, path, writer, journal, reading, work, gate, sending, api, faults>>

\* logrotate renames the file, creates one, and the web server opens it at last.
Rename ==
    /\ "rotate" \in may /\ path > 0 /\ path < MaxInode /\ writer = path /\ path' = 0
    /\ UNCHANGED <<now, content, writer, journal, reading, work, gate, sending, api, faults>>

Create ==
    /\ path = 0 /\ path' = writer + 1
    /\ UNCHANGED <<now, content, writer, journal, reading, work, gate, sending, api, faults>>

Reopen ==
    /\ path > writer /\ writer' = path
    /\ UNCHANGED <<now, content, path, journal, reading, work, gate, sending, api, faults>>

Truncate ==
    /\ path > 0 /\ content[path] # <<>> /\ Fault("truncate")
    /\ content' = [content EXCEPT ![path] = <<>>]
    /\ UNCHANGED <<now, path, writer, journal, reading, work, gate, sending, api>>

Journalled(e) ==
    /\ e \in may /\ \A n \in DOMAIN journal : journal[n] # e
    /\ journal' = Append(journal, e)
    /\ UNCHANGED <<now, content, path, writer, reading, work, gate, sending, api, faults>>

ApiDown ==
    /\ "api" \in may /\ api = "up" /\ api' = "down"
    /\ UNCHANGED <<now, disk, reading, work, gate, sending, faults>>

ApiUp ==
    /\ api = "down" /\ api' = "back"
    /\ UNCHANGED <<now, disk, reading, work, gate, sending, faults>>

Crash ==
    /\ Fault("crash")
    /\ reader' = [Begins EXCEPT !.known = state.file] /\ tail' = Stopped
    /\ work' = [t \in Threads |-> Rest]
    /\ recent' = [k \in Keys |-> Never] /\ sent' = <<>> /\ passed' = {} /\ early' = 0
    /\ queue' = <<>> /\ flight' = Nothing /\ settled' = 1 .. count
    /\ UNCHANGED <<now, disk, state, api, stored, count>>

-----------------------------------------------------------------------------
(* follow_file *)

Size(i) == Len(content[i])

\* Where it was if this is still that file, at the start of any other one, and at the end of
\* the first one it ever sees.
StartOf(i) ==
    LET k == reader.known
    IN  IF k = Unseen THEN Size(i)
        ELSE IF k.inode = i /\ k.offset <= Size(i) THEN k.offset ELSE 0

Open ==
    /\ reader.pc = "open" /\ path > 0
    /\ reader' = [reader EXCEPT !.pc = "read", !.inode = path, !.pos = StartOf(path)]
    /\ UNCHANGED <<now, disk, state, tail, work, gate, sending, api, faults>>

Handed(t, item) ==
    work' = IF Payload[item] = NoPayload THEN work
            ELSE [work EXCEPT ![t] = [pc |-> "look", item |-> item, at |-> now]]

ReadLine ==
    /\ reader.pc = "read" /\ work["file"].pc = "idle"
    /\ reader.pos < Size(reader.inode)
    /\ reader' = [reader EXCEPT !.pos = @ + 1]
    /\ Handed("file", content[reader.inode][reader.pos + 1])
    /\ UNCHANGED <<now, disk, state, tail, gate, sending, api, faults>>

\* At the end of the file the position is saved, and only then the path is looked at.
SavePosition ==
    /\ reader.pc = "read" /\ work["file"].pc = "idle"
    /\ reader.pos >= Size(reader.inode)
    /\ LET p == [inode |-> reader.inode, offset |-> reader.pos]
       IN  state' = [state EXCEPT !.file = p]
           /\ reader' = [reader EXCEPT !.pc = "stat", !.known = p]
    /\ UNCHANGED <<now, disk, tail, work, gate, sending, api, faults>>

Replaced_NotLonger == path # reader.inode \/ Size(path) <= reader.pos
Replaced == path # reader.inode \/ Size(path) < reader.pos

Stat ==
    /\ reader.pc = "stat"
    /\ reader' = IF path > 0 /\ Replaced
                 THEN [Begins EXCEPT !.known = Nowhere]
                 ELSE [reader EXCEPT !.pc = "read"]
    /\ UNCHANGED <<now, disk, state, tail, work, gate, sending, api, faults>>

ReadFails ==
    /\ reader.pc \in {"read", "stat"} /\ work["file"].pc = "idle" /\ Fault("io")
    /\ reader' = [Begins EXCEPT !.known = reader.known]
    /\ UNCHANGED <<now, disk, state, tail, work, gate, sending, api>>

-----------------------------------------------------------------------------
(* follow_journal *)

\* Without a cursor it starts from now.
StartJournal ==
    /\ tail = Stopped
    /\ tail' = IF state.cursor = Never THEN Len(journal) ELSE state.cursor
    /\ UNCHANGED <<now, disk, state, reader, work, gate, sending, api, faults>>

\* The cursor of an entry that is skipped is saved once in a while.
ReadEntry ==
    /\ tail # Stopped /\ tail < Len(journal) /\ work["journal"].pc = "idle"
    /\ tail' = tail + 1
    /\ Handed("journal", journal[tail + 1])
    /\ \/ UNCHANGED state
       \/ Payload[journal[tail + 1]] = NoPayload /\ state' = [state EXCEPT !.cursor = tail + 1]
    /\ UNCHANGED <<now, disk, reader, gate, sending, api, faults>>

SaveCursor ==
    /\ work["journal"].pc = "mark"
    /\ state' = [state EXCEPT !.cursor = tail]
    /\ work' = [work EXCEPT !["journal"] = Rest]
    /\ UNCHANGED <<now, disk, reader, tail, gate, sending, api, faults>>

JournalExits ==
    /\ tail # Stopped /\ work["journal"].pc = "idle" /\ Fault("journal")
    /\ tail' = Stopped
    /\ UNCHANGED <<now, disk, state, reader, work, gate, sending, api>>

-----------------------------------------------------------------------------
(* Gate.admit and Sender.offer *)

Finished(t) == IF t = "journal" THEN [work[t] EXCEPT !.pc = "mark"] ELSE Rest
Ends(t) == work' = [work EXCEPT ![t] = Finished(t)]
Goes(t, pc) == work' = [work EXCEPT ![t].pc = pc]
Of(t) == Payload[work[t].item]

\* A key counts as seen even when the line is dropped.
Look(t) ==
    /\ work[t].pc = "look"
    /\ IF Of(t).preflight THEN Ends(t) /\ UNCHANGED recent
       ELSE LET last == recent[Of(t).key]
            IN  /\ recent' = [recent EXCEPT ![Of(t).key] = work[t].at]
                /\ IF last # Never /\ work[t].at - last < DedupTime THEN Ends(t) ELSE Goes(t, "expire")
    /\ UNCHANGED <<now, disk, reading, sent, passed, early, sending, api, faults>>

Expire(t) ==
    /\ work[t].pc = "expire"
    /\ Goes(t, IF sent # <<>> /\ work[t].at - Head(sent) >= HourTime THEN "pop" ELSE "check")
    /\ UNCHANGED <<now, disk, reading, gate, sending, api, faults>>

\* What is popped need not be what was looked at.  An empty deque raises, and the line is skipped.
Pop(t) ==
    /\ work[t].pc = "pop"
    /\ IF sent = <<>> THEN Ends(t) /\ UNCHANGED <<sent, early>>
       ELSE /\ sent' = Tail(sent) /\ Goes(t, "expire")
            /\ early' = IF now - Head(sent) < HourTime THEN early + 1 ELSE early
    /\ UNCHANGED <<now, disk, reading, recent, passed, sending, api, faults>>

Cap_Shared(severity) == PerHour
Cap(severity) == IF severity = "INFO" THEN InfoCap ELSE PerHour

Check_OneEarly(t) ==
    /\ work[t].pc = "check"
    /\ IF Len(sent) + 1 >= Cap(Of(t).severity) THEN Ends(t) ELSE Goes(t, "append")
    /\ UNCHANGED <<now, disk, reading, gate, sending, api, faults>>

Check(t) ==
    /\ work[t].pc = "check"
    /\ IF Len(sent) >= Cap(Of(t).severity) THEN Ends(t) ELSE Goes(t, "append")
    /\ UNCHANGED <<now, disk, reading, gate, sending, api, faults>>

Admit(t) ==
    /\ work[t].pc = "append"
    /\ sent' = Append(sent, work[t].at)
    /\ passed' = passed \cup {<<work[t].item, work[t].at, Of(t).severity>>}
    /\ Goes(t, "enqueue")
    /\ UNCHANGED <<now, disk, reading, recent, early, sending, api, faults>>

\* A full queue loses its oldest element.
Enqueue(t) ==
    /\ work[t].pc = "enqueue"
    /\ LET full == Len(queue) >= PerHour
       IN  /\ queue' = Append(IF full THEN Tail(queue) ELSE queue, <<work[t].item, count + 1>>)
           /\ settled' = IF full THEN settled \cup {Head(queue)[2]} ELSE settled
    /\ count' = count + 1
    /\ Ends(t)
    /\ UNCHANGED <<now, disk, reading, gate, flight, stored, api, faults>>

-----------------------------------------------------------------------------
(* Sender.step and ApiClient *)

Take_WhenFull ==
    /\ flight = Nothing /\ Len(queue) >= PerHour /\ flight' = Head(queue)
    /\ UNCHANGED <<now, disk, reading, work, gate, queue, stored, count, settled, api, faults>>

Take ==
    /\ flight = Nothing /\ queue # <<>> /\ flight' = Head(queue)
    /\ UNCHANGED <<now, disk, reading, work, gate, queue, stored, count, settled, api, faults>>

\* The element is popped if it still is the first one.
AfterSend == IF queue # <<>> /\ Head(queue) = flight THEN Tail(queue) ELSE queue

\* A refusal (4xx) settles the log as an acceptance does; a 401 renews the token once.
Answered ==
    /\ flight # Nothing /\ api # "down"
    /\ stored' = IF Payload[flight[1]].accepted THEN [stored EXCEPT ![flight[1]] = @ + 1] ELSE stored
    /\ queue' = AfterSend /\ settled' = settled \cup {flight[2]} /\ flight' = Nothing
    /\ UNCHANGED <<now, disk, reading, work, gate, count, api, faults>>

\* Anything else keeps the element and waits; the log may have been stored all the same.
Unanswered ==
    /\ flight # Nothing /\ flight' = Nothing
    /\ \/ api = "down" /\ UNCHANGED <<stored, faults>>
       \/ /\ api # "down" /\ Fault("ack") /\ Payload[flight[1]].accepted
          /\ stored' = [stored EXCEPT ![flight[1]] = @ + 1]
    /\ UNCHANGED <<now, disk, reading, work, gate, queue, count, settled, api>>

-----------------------------------------------------------------------------

Environment ==
    \/ Tick \/ Rename \/ Create \/ Reopen \/ Truncate \/ ApiDown \/ ApiUp \/ Crash
    \/ \E l \in Lines : Write(l)
    \/ \E e \in Entries : Journalled(e)

Follow == Open \/ ReadLine \/ SavePosition \/ Stat \/ ReadFails
FollowJournal == StartJournal \/ ReadEntry \/ SaveCursor \/ JournalExits
Offer(t) == Look(t) \/ Expire(t) \/ Pop(t) \/ Check(t) \/ Admit(t) \/ Enqueue(t)
Step == Take \/ Answered \/ Unanswered

Next ==
    /\ Environment \/ Follow \/ FollowJournal \/ (\E t \in Threads : Offer(t)) \/ Step
    /\ UNCHANGED may

Spec == Init /\ [][Next]_vars

\* The main thread keeps stepping and the outage of the API ends.
FairSpec == Spec /\ WF_vars(Step /\ UNCHANGED may) /\ WF_vars(ApiUp /\ UNCHANGED may)

-----------------------------------------------------------------------------
(* Properties *)

\* Without a failure a line is stored once at most, whatever rotations and outages of the
\* API it meets (follow_file, Sender.step).
NoNeedlessRepeat == faults = 0 => \A i \in Items : stored[i] <= 1

Recently(severities) ==
    {p \in passed : now - p[2] < HourTime /\ p[3] \in severities}

\* Although the gate has no lock, its threads exceed the cap and the share of INFO by no more
\* than one for each thread but one and one for each time that another thread made one pop
\* too early: a flood of INFO leaves warnings their reserve up to that (Gate.admit).
WarningsHaveRoom ==
    LET slack == Cardinality(Threads) - 1 + early
    IN  /\ Cardinality(Recently({"INFO", "WARNING"})) <= PerHour + slack
        /\ Cardinality(Recently({"INFO"})) <= InfoCap + slack

\* What was queued is settled in the end; what is written is bounded, so that all of it is
\* settled at some point (Sender.step with its backoff).
QueuedIsSettled == (settled # 1 .. count) ~> (settled = 1 .. count)

=============================================================================
