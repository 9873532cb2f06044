--------------------------- MODULE ForwarderProofs ---------------------------
(***************************************************************************)
(* Theorems about Forwarder, for any lines, entries, caps and times.       *)
(***************************************************************************)
EXTENDS Forwarder, FiniteSetTheorems, TLAPS

(***************************************************************************)
(* The types, one group for each part of the forwarder.                    *)
(***************************************************************************)
Times == 0 .. MaxTime
Inodes == 1 .. MaxInode
Severities == {"INFO", "WARNING"}

DiskTypes ==
    /\ now \in Times
    /\ path \in 0 .. MaxInode /\ writer \in Inodes
    /\ path = 0 => writer < MaxInode
    /\ content \in [Inodes -> Seq(Lines)]
    /\ journal \in Seq(Entries)

ReaderTypes ==
    /\ state \in [file : {Unseen} \cup [inode : Inodes, offset : Nat], cursor : Int]
    /\ state.cursor \in Never .. Len(journal)
    /\ reader \in [pc : {"open", "read", "stat"}, inode : 0 .. MaxInode, pos : Nat,
                   known : {Unseen} \cup [inode : 0 .. MaxInode, offset : Nat]]
    /\ (reader.pc = "open") <=> (reader.inode = 0)
    /\ tail \in Stopped .. Len(journal)

\* What a thread handles: the file thread lines, the journal thread entries.
Source(t) == IF t = "file" THEN Lines ELSE Entries

WorkTypes ==
    /\ work \in [Threads -> [pc : {"idle", "look", "expire", "pop", "check", "append",
                                   "enqueue", "mark"},
                             item : Items \cup {"none"}, at : Times]]
    /\ \A t \in Threads : work[t].pc # "idle" =>
           work[t].item \in Source(t) /\ Payload[work[t].item] # NoPayload

GateTypes ==
    /\ recent \in [Keys -> Never .. MaxTime]
    /\ sent \in Seq(Times)
    /\ passed \subseteq Items \X Times \X Severities /\ IsFiniteSet(passed)
    /\ early \in Nat

Element == Items \X Nat

\* The numbers of the queue increase, and what is in flight is its head or was.
SendTypes ==
    /\ count \in Nat
    /\ queue \in Seq(Element) /\ Len(queue) <= PerHour
    /\ \A k \in DOMAIN queue : queue[k][2] \in 1 .. count
    /\ \A j, k \in DOMAIN queue : j < k => queue[j][2] < queue[k][2]
    /\ flight # Nothing =>
           /\ flight \in Element /\ flight[2] \in 1 .. count
           /\ \A k \in DOMAIN queue :
                  /\ flight[2] <= queue[k][2]
                  /\ flight[2] = queue[k][2] => flight = queue[k]
    /\ settled \subseteq 1 .. count
    /\ stored \in [Items -> Nat]

EnvTypes == api \in {"up", "down", "back"} /\ faults \in Nat

Types == DiskTypes /\ ReaderTypes /\ WorkTypes /\ GateTypes /\ SendTypes /\ EnvTypes

(***************************************************************************)
(* The positions of a process without failures.  Front is the first inode  *)
(* an open may find from now on: it never goes back, and the reader is not *)
(* ahead of it.                                                            *)
(***************************************************************************)
Front == IF path = 0 THEN writer + 1 ELSE path

Distinct ==
    /\ \A i, j \in Inodes : \A n \in DOMAIN content[i], m \in DOMAIN content[j] :
           content[i][n] = content[j][m] => i = j /\ n = m
    /\ \A n, m \in DOMAIN journal : journal[n] = journal[m] => n = m

Positions ==
    faults = 0 =>
        /\ reader.pc # "open" => reader.pos <= Size(reader.inode) /\ reader.inode <= Front
        /\ reader.pc = "stat" => state.file = [inode |-> reader.inode, offset |-> reader.pos]
        /\ reader.pc = "open" /\ reader.known # Unseen =>
               reader.known = Nowhere /\ state.file # Unseen /\ state.file.inode < Front

(***************************************************************************)
(* An item is in one place: not read yet, in the hands of a thread, in the *)
(* sender as one element, or stored.                                       *)
(***************************************************************************)
Beyond(i, n) ==
    IF reader.pc = "open"
    THEN reader.known = Unseen \/ i > state.file.inode
    ELSE i > reader.inode \/ (i = reader.inode /\ n > reader.pos)

Unread(x) ==
    /\ \A i \in Inodes : \A n \in DOMAIN content[i] : content[i][n] = x => Beyond(i, n)
    /\ \A n \in DOMAIN journal : journal[n] = x => tail = Stopped \/ n > tail

InHand(t) == work[t].pc \in {"look", "expire", "pop", "check", "append", "enqueue"}

Elements == {queue[k] : k \in DOMAIN queue} \cup {e \in {flight} : e # Nothing}

Untouched(x) == stored[x] = 0 /\ \A e \in Elements : e[1] # x

Once ==
    faults = 0 =>
        /\ \A e, f \in Elements : e[1] = f[1] => e = f
        /\ \A x \in Items : stored[x] <= 1
        /\ \A x \in Items : stored[x] = 1 => \A e \in Elements : e[1] # x
        /\ \A t \in Threads : InHand(t) => Untouched(work[t].item)
        /\ \A x \in Items : Unread(x) =>
               Untouched(x) /\ \A t \in Threads : InHand(t) => work[t].item # x

(***************************************************************************)
(* The gate: what passed in the last hour is in the deque or left it       *)
(* early, and a thread that has found room but not used it is one too many *)
(* at most.                                                                *)
(***************************************************************************)
PassedAfter(a) == {p \in passed : p[2] > a}
SentAfter(s, a) == {k \in DOMAIN s : s[k] > a}

InDeque ==
    \A a \in Int : a >= now - HourTime =>
        Cardinality(PassedAfter(a)) <= Cardinality(SentAfter(sent, a)) + early

Appends(t, ss) == IF work[t].pc = "append" /\ Of(t).severity \in ss THEN 1 ELSE 0
Owed(ss) == Appends("file", ss) + Appends("journal", ss)

RoomFor(ss, cap) == Cardinality(Recently(ss)) + Owed(ss) <= cap + (1 + early)

Room == RoomFor(Severities, PerHour) /\ RoomFor({"INFO"}, InfoCap)

-----------------------------------------------------------------------------
(* Which actions touch which part *)

LEMMA Constants ==
    /\ PerHour \in Nat \ {0} /\ Reserve \in Nat /\ DedupTime \in Nat /\ HourTime \in Nat
    /\ MaxTime \in Nat /\ MaxInode \in Nat \ {0}
    /\ InfoCap \in Nat /\ InfoCap <= PerHour
    /\ IsFiniteSet(Items) /\ Lines \cap Entries = {}
    /\ \A x \in Items : Payload[x] # NoPayload => Payload[x] \in PayloadFields
<1>1. PerHour \in Nat \ {0} /\ Reserve \in Nat /\ DedupTime \in Nat /\ HourTime \in Nat
      /\ MaxTime \in Nat /\ MaxInode \in Nat \ {0}
    BY ForwarderConstants
<1>2. InfoCap \in Nat /\ InfoCap <= PerHour
    BY <1>1 DEF InfoCap
<1>3. \A x \in Items : Payload[x] # NoPayload => Payload[x] \in PayloadFields
    BY ForwarderConstants
<1> QED
    BY <1>1, <1>2, <1>3, ForwarderConstants

\* The environment writes the disk, the threads read it.
LEMMA DiskStep ==
    ASSUME [Next]_vars
    PROVE  \/ Tick \/ Rename \/ Create \/ Reopen \/ Truncate
           \/ \E l \in Lines : Write(l)
           \/ \E e \in Entries : Journalled(e)
           \/ UNCHANGED <<now, disk>>
BY Zenon DEF Next, vars, disk, Environment, Follow, FollowJournal, Offer, Step, ApiDown, ApiUp, Crash,
   Open, ReadLine, SavePosition, Stat, ReadFails, StartJournal, ReadEntry, SaveCursor,
   JournalExits, Look, Expire, Pop, Check, Admit, Enqueue, Take, Answered, Unanswered

\* Only follow_file and follow_journal change what is read, and a crash.
LEMMA ReaderStep ==
    ASSUME [Next]_vars
    PROVE  \/ Open \/ ReadLine \/ SavePosition \/ Stat \/ ReadFails
           \/ StartJournal \/ ReadEntry \/ SaveCursor \/ JournalExits \/ Crash
           \/ UNCHANGED reading
BY Zenon DEF Next, vars, reading, Environment, Follow, FollowJournal, Offer, Step, ApiDown, ApiUp,
   Tick, Write, Rename, Create, Reopen, Truncate, Journalled,
   Look, Expire, Pop, Check, Admit, Enqueue, Take, Answered, Unanswered

\* A thread gets an item by reading it and goes on with it in the gate.
LEMMA WorkStep ==
    ASSUME [Next]_vars
    PROVE  \/ ReadLine \/ ReadEntry \/ SaveCursor \/ Crash
           \/ \E t \in Threads : Offer(t)
           \/ UNCHANGED work
BY Zenon DEF Next, vars, reading, Environment, Follow, FollowJournal, Step, ApiDown, ApiUp,
   Tick, Write, Rename, Create, Reopen, Truncate, Journalled,
   Open, SavePosition, Stat, ReadFails, StartJournal, JournalExits, Take, Answered, Unanswered

LEMMA GateStep ==
    ASSUME [Next]_vars
    PROVE  \/ Crash \/ \E t \in Threads : Look(t) \/ Pop(t) \/ Admit(t)
           \/ UNCHANGED gate
BY Zenon DEF Next, vars, gate, Environment, Follow, FollowJournal, Step, Offer, ApiDown, ApiUp,
   Tick, Write, Rename, Create, Reopen, Truncate, Journalled,
   Open, ReadLine, SavePosition, Stat, ReadFails, StartJournal, ReadEntry, SaveCursor,
   JournalExits, Expire, Check, Enqueue, Take, Answered, Unanswered

LEMMA SendStep ==
    ASSUME [Next]_vars
    PROVE  \/ Crash \/ \E t \in Threads : Enqueue(t)
           \/ Take \/ Answered \/ Unanswered
           \/ UNCHANGED sending
BY Zenon DEF Next, vars, sending, Environment, Follow, FollowJournal, Step, Offer, ApiDown, ApiUp,
   Tick, Write, Rename, Create, Reopen, Truncate, Journalled,
   Open, ReadLine, SavePosition, Stat, ReadFails, StartJournal, ReadEntry, SaveCursor,
   JournalExits, Look, Expire, Pop, Check, Admit

\* The number of failures only grows.
LEMMA EnvStep ==
    ASSUME EnvTypes, [Next]_vars
    PROVE  EnvTypes' /\ faults <= faults'
<1>1. UNCHANGED faults \/ \E k \in EventKinds : Fault(k)
    <2>1. "truncate" \in EventKinds /\ "crash" \in EventKinds /\ "io" \in EventKinds
          /\ "journal" \in EventKinds /\ "ack" \in EventKinds
        BY DEF EventKinds
    <2> QED
        BY <2>1, Zenon DEF Next, vars, Environment, Follow, FollowJournal, Step, Offer,
           ApiDown, ApiUp, Tick, Write, Rename, Create, Reopen, Truncate, Journalled, Crash,
           Open, ReadLine, SavePosition, Stat, ReadFails, StartJournal, ReadEntry, SaveCursor,
           JournalExits, Look, Expire, Pop, Check, Admit, Enqueue, Take, Answered, Unanswered
<1>2. ApiDown \/ ApiUp \/ UNCHANGED api
    BY Zenon DEF Next, vars, Environment, Follow, FollowJournal, Step, Offer,
       Tick, Write, Rename, Create, Reopen, Truncate, Journalled, Crash,
       Open, ReadLine, SavePosition, Stat, ReadFails, StartJournal, ReadEntry, SaveCursor,
       JournalExits, Look, Expire, Pop, Check, Admit, Enqueue, Take, Answered, Unanswered
<1>3. faults' \in Nat /\ faults <= faults'
    BY <1>1 DEF EnvTypes, Fault
<1>4. api' \in {"up", "down", "back"}
    BY <1>2 DEF EnvTypes, ApiDown, ApiUp
<1> QED
    BY <1>3, <1>4 DEF EnvTypes

-----------------------------------------------------------------------------
(* Types *)

LEMMA InitTypes ==
    ASSUME Init
    PROVE  Types
<1>1. DiskTypes
    BY Constants DEF Init, DiskTypes, Times, Inodes
<1>2. ReaderTypes
    BY Constants DEF Init, ReaderTypes, Begins, Unseen, Never, Stopped
<1>3. WorkTypes
    BY Constants DEF Init, WorkTypes, Rest, Times
<1>4. GateTypes
    BY Constants, FS_EmptySet DEF Init, GateTypes, Never
<1>5. SendTypes
    BY Constants DEF Init, SendTypes, Nothing, Element
<1>6. EnvTypes
    BY DEF Init, EnvTypes
<1> QED
    BY <1>1, <1>2, <1>3, <1>4, <1>5, <1>6 DEF Types

\* The journal only grows.
LEMMA KeepsDisk ==
    ASSUME DiskTypes, [Next]_vars
    PROVE  DiskTypes' /\ Len(journal) <= Len(journal)' /\ now <= now'
<1> USE Constants DEF DiskTypes, Times, Inodes
<1>1. CASE Tick
    BY <1>1 DEF Tick, disk
<1>2. ASSUME NEW l \in Lines, Write(l)
      PROVE  DiskTypes' /\ Len(journal) <= Len(journal)' /\ now <= now'
    <2>1. Append(content[writer], l) \in Seq(Lines)
        OBVIOUS
    <2> QED
        BY <1>2, <2>1 DEF Write
<1>3. CASE Rename
    BY <1>3 DEF Rename
<1>4. CASE Create
    BY <1>4 DEF Create
<1>5. CASE Reopen
    BY <1>5 DEF Reopen
<1>6. CASE Truncate
    BY <1>6 DEF Truncate
<1>7. ASSUME NEW e \in Entries, Journalled(e)
      PROVE  DiskTypes' /\ Len(journal) <= Len(journal)' /\ now <= now'
    BY <1>7 DEF Journalled
<1>8. CASE UNCHANGED <<now, disk>>
    BY <1>8 DEF disk
<1> QED
    BY <1>1, <1>2, <1>3, <1>4, <1>5, <1>6, <1>7, <1>8, DiskStep

LEMMA StartOfType ==
    ASSUME DiskTypes, ReaderTypes, NEW i \in Inodes
    PROVE  StartOf(i) \in Nat /\ StartOf(i) <= Size(i)
<1>1. Size(i) \in Nat
    BY DEF DiskTypes, Size
<1>2. CASE reader.known = Unseen
    BY <1>1, <1>2 DEF StartOf
<1>3. CASE reader.known # Unseen
    <2>1. reader.known.offset \in Nat
        BY <1>3 DEF ReaderTypes
    <2> QED
        BY <1>1, <1>3, <2>1 DEF StartOf
<1> QED
    BY <1>2, <1>3

LEMMA KeepsReader ==
    ASSUME DiskTypes, ReaderTypes, [Next]_vars
    PROVE  ReaderTypes'
<1>1. Len(journal) \in Nat /\ Len(journal)' \in Nat /\ Len(journal) <= Len(journal)'
    BY KeepsDisk DEF DiskTypes
<1>2. /\ state.cursor \in Never .. Len(journal)' /\ tail \in Stopped .. Len(journal)'
    BY <1>1 DEF ReaderTypes, Never, Stopped
<1>3. 0 \in 0 .. MaxInode /\ \A i \in Inodes : i \in 0 .. MaxInode /\ i # 0
    BY Constants DEF Inodes
<1>4. CASE Open
    <2>1. path \in Inodes
        BY <1>4 DEF Open, DiskTypes, Inodes
    <2>2. StartOf(path) \in Nat
        BY <2>1, StartOfType
    <2> QED
        BY <1>2, <1>3, <1>4, <2>1, <2>2 DEF Open, ReaderTypes
<1>5. CASE ReadLine
    BY <1>2, <1>5 DEF ReadLine, ReaderTypes
<1>6. CASE SavePosition
    <2>1. reader.inode \in Inodes
        BY <1>6 DEF SavePosition, ReaderTypes, Inodes
    <2>2. [inode |-> reader.inode, offset |-> reader.pos] \in [inode : Inodes, offset : Nat]
        BY <2>1 DEF ReaderTypes
    <2> QED
        BY <1>2, <1>3, <1>6, <2>1, <2>2 DEF SavePosition, ReaderTypes
<1>7. CASE Stat
    BY <1>2, <1>3, <1>7 DEF Stat, ReaderTypes, Begins, Nowhere
<1>8. CASE ReadFails
    BY <1>2, <1>3, <1>8 DEF ReadFails, ReaderTypes, Begins
<1>9. CASE StartJournal
    BY <1>1, <1>2, <1>9 DEF StartJournal, ReaderTypes, Never, Stopped
<1>10. CASE ReadEntry
    BY <1>1, <1>2, <1>10 DEF ReadEntry, ReaderTypes, Never, Stopped
<1>11. CASE SaveCursor
    BY <1>1, <1>2, <1>11 DEF SaveCursor, ReaderTypes, Never, Stopped
<1>12. CASE JournalExits
    BY <1>1, <1>2, <1>12 DEF JournalExits, ReaderTypes, Never, Stopped
<1>13. CASE Crash
    <2>1. state.file \in {Unseen} \cup [inode : 0 .. MaxInode, offset : Nat]
        BY <1>3 DEF ReaderTypes
    <2> QED
        BY <1>1, <1>2, <1>3, <1>13, <2>1 DEF Crash, ReaderTypes, Begins, Never, Stopped
<1>14. CASE UNCHANGED reading
    BY <1>2, <1>14 DEF reading, ReaderTypes
<1> QED
    BY <1>4, <1>5, <1>6, <1>7, <1>8, <1>9, <1>10, <1>11, <1>12, <1>13, <1>14, ReaderStep

LEMMA KeepsWork ==
    ASSUME DiskTypes, ReaderTypes, WorkTypes, [Next]_vars
    PROVE  WorkTypes'
<1> USE DEF WorkTypes, Threads
<1>1. now \in Times /\ 0 \in Times
    BY Constants DEF DiskTypes, Times
<1>2. ASSUME NEW t \in Threads, NEW x \in Source(t), Handed(t, x)
      PROVE  WorkTypes'
    <2>1. x \in Items
        BY DEF Source, Items
    <2> QED
        BY <1>1, <1>2, <2>1 DEF Handed
<1>3. CASE ReadLine
    <2>1. content[reader.inode][reader.pos + 1] \in Lines
        <3>1. reader.inode \in Inodes /\ reader.pos \in Nat
            BY <1>3 DEF ReadLine, ReaderTypes, Inodes
        <3>2. content[reader.inode] \in Seq(Lines)
            BY <3>1 DEF DiskTypes
        <3> QED
            BY <1>3, <3>1, <3>2 DEF ReadLine, Size
    <2> QED
        BY <1>2, <1>3, <2>1 DEF ReadLine, Source
<1>4. CASE ReadEntry
    <2>1. journal[tail + 1] \in Entries
        BY <1>4 DEF ReadEntry, DiskTypes, ReaderTypes, Stopped
    <2> QED
        BY <1>2, <1>4, <2>1 DEF ReadEntry, Source
<1>5. CASE SaveCursor
    BY <1>1, <1>5 DEF SaveCursor, Rest
<1>6. CASE Crash
    BY <1>1, <1>6 DEF Crash, Rest
<1>7. ASSUME NEW t \in Threads, Offer(t)
      PROVE  WorkTypes'
    <2>1. ASSUME Ends(t), work[t].pc # "idle"
          PROVE  WorkTypes'
        BY <1>1, <2>1 DEF Ends, Finished, Rest
    <2>2. ASSUME NEW pc \in {"expire", "pop", "check", "append", "enqueue"}, Goes(t, pc),
                 work[t].pc # "idle"
          PROVE  WorkTypes'
        BY <2>2 DEF Goes
    <2>3. CASE Look(t)
        BY <2>1, <2>2, <2>3 DEF Look
    <2>4. CASE Expire(t)
        BY <2>2, <2>4 DEF Expire
    <2>5. CASE Pop(t)
        BY <2>1, <2>2, <2>5 DEF Pop
    <2>6. CASE Check(t)
        BY <2>1, <2>2, <2>6 DEF Check
    <2>7. CASE Admit(t)
        BY <2>2, <2>7 DEF Admit
    <2>8. CASE Enqueue(t)
        BY <2>1, <2>8 DEF Enqueue
    <2> QED
        BY <1>7, <2>3, <2>4, <2>5, <2>6, <2>7, <2>8 DEF Offer
<1>8. CASE UNCHANGED work
    BY <1>8
<1> QED
    BY <1>3, <1>4, <1>5, <1>6, <1>7, <1>8, WorkStep

LEMMA KeepsGate ==
    ASSUME WorkTypes, GateTypes, [Next]_vars
    PROVE  GateTypes'
<1> USE DEF GateTypes
<1>1. ASSUME NEW t \in Threads, work[t].pc # "idle"
      PROVE  /\ work[t].item \in Items /\ work[t].at \in Times
             /\ Of(t).key \in Keys /\ Of(t).severity \in Severities
    <2>1. work[t].item \in Items /\ work[t].at \in Times /\ Payload[work[t].item] # NoPayload
        BY <1>1 DEF WorkTypes, Source, Items
    <2>2. Payload[work[t].item] \in PayloadFields
        BY <2>1, Constants
    <2> QED
        BY <2>1, <2>2 DEF Of, Keys, PayloadFields, Severities
<1>2. CASE Crash
    BY <1>2, Constants, FS_EmptySet DEF Crash, Never
<1>3. ASSUME NEW t \in Threads, Look(t)
      PROVE  GateTypes'
    <2>1. work[t].at \in Never .. MaxTime /\ Of(t).key \in Keys
        BY <1>1, <1>3, Constants DEF Look, Times, Never
    <2> QED
        BY <1>3, <2>1 DEF Look
<1>4. ASSUME NEW t \in Threads, Pop(t)
      PROVE  GateTypes'
    <2>1. early' \in Nat
        BY <1>4 DEF Pop
    <2>3. sent' \in Seq(Times)
        <3>1. sent' = sent \/ (sent # <<>> /\ sent' = Tail(sent))
            BY <1>4, Zenon DEF Pop
        <3> QED
            BY <3>1
    <2>2. recent' = recent /\ passed' = passed
        BY <1>4 DEF Pop
    <2> QED
        BY <2>1, <2>2, <2>3
<1>5. ASSUME NEW t \in Threads, Admit(t)
      PROVE  GateTypes'
    <2>1. work[t].item \in Items /\ work[t].at \in Times /\ Of(t).severity \in Severities
        BY <1>1, <1>5 DEF Admit
    <2>2. IsFiniteSet(passed')
        BY <1>5, FS_AddElement DEF Admit
    <2>3. sent' \in Seq(Times)
        BY <1>5, <2>1 DEF Admit
    <2>4. <<work[t].item, work[t].at, Of(t).severity>> \in Items \X Times \X Severities
        BY <2>1
    <2>5. passed' \subseteq Items \X Times \X Severities
        BY <1>5, <2>4, Zenon DEF Admit
    <2> QED
        BY <1>5, <2>2, <2>3, <2>5 DEF Admit
<1>6. CASE UNCHANGED gate
    BY <1>6 DEF gate
<1> QED
    BY <1>2, <1>3, <1>4, <1>5, <1>6, GateStep

\* A full queue makes room: what is left, and the new element with the highest number.
LEMMA KeepsSend ==
    ASSUME WorkTypes, SendTypes, [Next]_vars
    PROVE  SendTypes'
<1> USE DEF SendTypes
<1>1. CASE Crash
    BY <1>1, Constants DEF Crash
<1>2. ASSUME NEW t \in Threads, Enqueue(t)
      PROVE  SendTypes'
    <2> DEFINE rest == IF Len(queue) >= PerHour THEN Tail(queue) ELSE queue
               new  == <<work[t].item, count + 1>>
    <2>1. new \in Element /\ new[2] = count + 1
        <3>1. work[t].item \in Items
            BY <1>2 DEF Enqueue, WorkTypes, Source, Items
        <3> QED
            BY <3>1 DEF Element
    <2>2. /\ rest \in Seq(Element) /\ Len(rest) < PerHour
          /\ \A k \in DOMAIN rest : rest[k][2] \in 1 .. count
          /\ \A j, k \in DOMAIN rest : j < k => rest[j][2] < rest[k][2]
          /\ flight # Nothing => \A k \in DOMAIN rest :
                /\ flight[2] <= rest[k][2]
                /\ flight[2] = rest[k][2] => flight = rest[k]
        <3>1. CASE Len(queue) >= PerHour
            <4>1. queue # <<>>
                BY <3>1, Constants
            <4>2. /\ Tail(queue) \in Seq(Element) /\ Len(Tail(queue)) = Len(queue) - 1
                  /\ \A k \in DOMAIN Tail(queue) :
                        k + 1 \in DOMAIN queue /\ Tail(queue)[k] = queue[k + 1] /\ k \in Int
                BY <4>1
            <4>3. \A k \in DOMAIN Tail(queue) : Tail(queue)[k][2] \in 1 .. count
                BY <4>2
            <4>4. \A j, k \in DOMAIN Tail(queue) : j < k => Tail(queue)[j][2] < Tail(queue)[k][2]
                BY <4>2
            <4>5. flight # Nothing => \A k \in DOMAIN Tail(queue) :
                      /\ flight[2] <= Tail(queue)[k][2]
                      /\ flight[2] = Tail(queue)[k][2] => flight = Tail(queue)[k]
                BY <4>2
            <4>6. rest = Tail(queue) /\ Len(Tail(queue)) < PerHour
                BY <3>1, <4>2, Constants
            <4> HIDE DEF rest
            <4> QED
                BY <4>2, <4>3, <4>4, <4>5, <4>6
        <3>2. CASE ~(Len(queue) >= PerHour)
            BY <3>2, Constants
        <3> QED
            BY <3>1, <3>2
    <2>3. settled' \subseteq 1 .. count + 1
        <3>1. CASE Len(queue) >= PerHour
            <4>1. 1 \in DOMAIN queue /\ Head(queue) = queue[1]
                BY <3>1, Constants
            <4>2. Head(queue)[2] \in 1 .. count
                BY <4>1
            <4>3. settled' = settled \cup {Head(queue)[2]}
                BY <1>2, <3>1 DEF Enqueue
            <4>4. Head(queue)[2] \in 1 .. count + 1 /\ 1 .. count \subseteq 1 .. count + 1
                BY <4>2
            <4>5. settled \subseteq 1 .. count
                OBVIOUS
            <4> QED
                <5>1. {Head(queue)[2]} \subseteq 1 .. count + 1 /\ settled \subseteq 1 .. count + 1
                    BY <4>4, <4>5
                <5> QED
                    BY <4>3, <5>1
        <3>2. CASE ~(Len(queue) >= PerHour)
            BY <1>2, <3>2 DEF Enqueue
        <3> QED
            BY <3>1, <3>2
    <2>4. queue' = Append(rest, new) /\ count' = count + 1
          /\ flight' = flight /\ stored' = stored
        BY <1>2 DEF Enqueue
    <2> HIDE DEF rest, new
    <2>5. /\ queue' \in Seq(Element) /\ Len(queue') <= PerHour
          /\ \A k \in DOMAIN queue' : \/ k \in DOMAIN rest /\ queue'[k] = rest[k]
                                      \/ k = Len(rest) + 1 /\ queue'[k] = new
        BY <2>1, <2>2, <2>4, Constants
    <2> QED
        BY <2>1, <2>2, <2>3, <2>4, <2>5
<1>3. CASE Take
    <2>1. 1 \in DOMAIN queue /\ Head(queue) = queue[1]
        BY <1>3 DEF Take
    <2> QED
        BY <1>3, <2>1 DEF Take
<1>4. CASE Answered
    <2>1. /\ AfterSend \in Seq(Element) /\ Len(AfterSend) <= PerHour
          /\ \A k \in DOMAIN AfterSend : AfterSend[k][2] \in 1 .. count
          /\ \A j, k \in DOMAIN AfterSend : j < k => AfterSend[j][2] < AfterSend[k][2]
        <3>1. CASE queue # <<>> /\ Head(queue) = flight
            <4>1. /\ Tail(queue) \in Seq(Element) /\ Len(Tail(queue)) = Len(queue) - 1
                  /\ \A k \in DOMAIN Tail(queue) :
                        k + 1 \in DOMAIN queue /\ Tail(queue)[k] = queue[k + 1] /\ k \in Int
                BY <3>1
            <4>2. \A j, k \in DOMAIN Tail(queue) : j < k => Tail(queue)[j][2] < Tail(queue)[k][2]
                BY <4>1
            <4> QED
                BY <3>1, <4>1, <4>2, Constants DEF AfterSend
        <3>2. CASE ~(queue # <<>> /\ Head(queue) = flight)
            BY <3>2 DEF AfterSend
        <3> QED
            BY <3>1, <3>2
    <2>2. stored' \in [Items -> Nat]
        <3>1. flight[1] \in Items
            BY <1>4 DEF Answered, Element
        <3>2. stored[flight[1]] + 1 \in Nat
            BY <3>1
        <3> QED
            BY <1>4, <3>1, <3>2 DEF Answered
    <2> QED
        BY <1>4, <2>1, <2>2 DEF Answered
<1>5. CASE Unanswered
    BY <1>5 DEF Unanswered
<1>6. CASE UNCHANGED sending
    BY <1>6 DEF sending
<1> QED
    BY <1>1, <1>2, <1>3, <1>4, <1>5, <1>6, SendStep

LEMMA KeepsTypes ==
    ASSUME Types, [Next]_vars
    PROVE  Types'
BY KeepsDisk, KeepsReader, KeepsWork, KeepsGate, KeepsSend, EnvStep DEF Types

\* The types of all parts hold together, along every step of the two threads and the host.
THEOREM TypesHold == Spec => []Types
<1>1. Init => Types
    BY InitTypes
<1>2. Types /\ [Next]_vars => Types'
    BY KeepsTypes
<1> QED
    BY <1>1, <1>2, PTL DEF Spec

\* Positions stay in their files and in the journal, no more than a full queue is kept, and
\* only what has a payload is worked on, whatever is rotated, crashes or fails (follow_file,
\* follow_journal, Gate, Sender).
THEOREM TypeCorrectness == Spec => []TypeOK
<1>1. Types => TypeOK
    <2> SUFFICES ASSUME Types
                 PROVE  TypeOK
        OBVIOUS
    <2> USE DEF Types, Times, Inodes
    <2>1. DiskTypes => /\ now \in 0 .. MaxTime /\ path \in 0 .. MaxInode /\ writer \in 1 .. MaxInode
                       /\ content \in [1 .. MaxInode -> Seq(Lines)] /\ journal \in Seq(Entries)
        BY DEF DiskTypes
    <2>2. ReaderTypes =>
              /\ state.file # Unseen => state.file.inode \in 1 .. MaxInode /\ state.file.offset \in Nat
              /\ state.cursor \in Never .. Len(journal) /\ tail \in Stopped .. Len(journal)
              /\ reader.pc = "open" <=> reader.inode = 0
        BY DEF ReaderTypes
    <2>3. WorkTypes => \A t \in Threads : work[t].pc = "idle" \/ Payload[work[t].item] # NoPayload
        BY DEF WorkTypes
    <2>4. /\ GateTypes => recent \in [Keys -> Never .. MaxTime]
          /\ SendTypes => /\ Len(queue) <= PerHour /\ settled \subseteq 1 .. count
                          /\ flight = Nothing \/ flight[2] \in 1 .. count
          /\ EnvTypes => api \in {"up", "down", "back"}
        BY DEF GateTypes, SendTypes, EnvTypes
    <2> QED
        BY <2>1, <2>2, <2>3, <2>4 DEF TypeOK
<1> QED
    BY <1>1, TypesHold, PTL

-----------------------------------------------------------------------------
(* Files, rotations and the positions in them *)

LEMMA KeepsDistinct ==
    ASSUME Types, Distinct, [Next]_vars
    PROVE  Distinct'
<1> USE DEF Types, DiskTypes, Distinct
<1>1. ASSUME NEW l \in Lines, Write(l)
      PROVE  Distinct'
    <2>1. content' = [content EXCEPT ![writer] = Append(content[writer], l)] /\ journal' = journal
        BY <1>1 DEF Write
    <2>2. \A i \in Inodes : \A n \in DOMAIN content'[i] :
              \/ n \in DOMAIN content[i] /\ content'[i][n] = content[i][n]
              \/ i = writer /\ n = Len(content[i]) + 1 /\ content'[i][n] = l
        BY <2>1
    <2>3. \A i \in Inodes : \A n \in DOMAIN content[i] : content[i][n] # l
        BY <1>1 DEF Write, Inodes
    <2> QED
        BY <2>1, <2>2, <2>3
<1>2. CASE Truncate
    <2>1. content' = [content EXCEPT ![path] = <<>>] /\ journal' = journal
        BY <1>2 DEF Truncate
    <2>2. \A i \in Inodes : \A n \in DOMAIN content'[i] :
              n \in DOMAIN content[i] /\ content'[i][n] = content[i][n]
        BY <2>1
    <2> QED
        BY <2>1, <2>2
<1>3. ASSUME NEW e \in Entries, Journalled(e)
      PROVE  Distinct'
    <2>1. journal' = Append(journal, e) /\ content' = content
        BY <1>3 DEF Journalled
    <2>2. \A n \in DOMAIN journal' :
              \/ n \in DOMAIN journal /\ journal'[n] = journal[n]
              \/ n = Len(journal) + 1 /\ journal'[n] = e
        BY <2>1
    <2>3. \A n \in DOMAIN journal : journal[n] # e
        BY <1>3 DEF Journalled
    <2> QED
        BY <2>1, <2>2, <2>3
<1>4. CASE UNCHANGED <<content, journal>>
    BY <1>4
<1> QED
    BY <1>1, <1>2, <1>3, <1>4, DiskStep DEF Tick, Rename, Create, Reopen, disk

\* Without a failure a file only grows, and so does the journal.
LEMMA FilesGrow ==
    ASSUME Types, [Next]_vars, faults' = 0
    PROVE  /\ faults = 0
           /\ \A i \in Inodes : \A n \in DOMAIN content[i] :
                  n \in DOMAIN content'[i] /\ content'[i][n] = content[i][n]
           /\ \A i \in Inodes : Size(i) <= Size(i)'
           /\ \A n \in DOMAIN journal : n \in DOMAIN journal' /\ journal'[n] = journal[n]
<1> USE DEF Types, DiskTypes, Size
<1>1. faults = 0 /\ \A k \in EventKinds : ~Fault(k)
    BY EnvStep DEF EnvTypes, Fault
<1>2. ~Truncate
    BY <1>1 DEF Truncate, EventKinds
<1>3. ASSUME NEW l \in Lines, Write(l)
      PROVE  /\ \A i \in Inodes : \A n \in DOMAIN content[i] :
                    n \in DOMAIN content'[i] /\ content'[i][n] = content[i][n]
             /\ \A i \in Inodes : Size(i) <= Size(i)'
             /\ journal' = journal
    BY <1>3 DEF Write
<1>4. ASSUME NEW e \in Entries, Journalled(e)
      PROVE  /\ \A n \in DOMAIN journal : n \in DOMAIN journal' /\ journal'[n] = journal[n]
             /\ content' = content
    BY <1>4 DEF Journalled
<1>5. CASE UNCHANGED <<content, journal>>
    BY <1>1, <1>5
<1> QED
    BY <1>1, <1>2, <1>3, <1>4, <1>5, DiskStep DEF Tick, Rename, Create, Reopen, disk

\* A rotation never brings a file back.
LEMMA FrontMoves ==
    ASSUME Types, [Next]_vars
    PROVE  Front \in Nat /\ Front' \in Nat /\ Front <= Front' /\ (path > 0 => Front = path)
<1> USE DEF Types, DiskTypes, Front, Inodes
<1>1. Front \in Nat /\ (path > 0 => Front = path) /\ Front' \in Nat
    BY KeepsDisk
<1>2. CASE Rename
    BY <1>1, <1>2 DEF Rename
<1>3. CASE Create
    BY <1>1, <1>3 DEF Create
<1>4. CASE Reopen
    BY <1>1, <1>4 DEF Reopen
<1>5. CASE UNCHANGED <<path, writer>>
    BY <1>1, <1>5
<1> QED
    BY <1>1, <1>2, <1>3, <1>4, <1>5, DiskStep DEF Tick, Write, Truncate, Journalled, disk

LEMMA KeepsPositions ==
    ASSUME Types, Positions, [Next]_vars
    PROVE  Positions'
<1> SUFFICES ASSUME faults' = 0
             PROVE  Positions'
    BY DEF Positions
<1>1. /\ faults = 0 /\ \A k \in EventKinds : ~Fault(k)
      /\ \A i \in Inodes : Size(i) \in Nat /\ Size(i)' \in Nat /\ Size(i) <= Size(i)'
    BY FilesGrow, KeepsTypes DEF Types, EnvTypes, DiskTypes, Fault, Size
<1>2. ~ReadFails /\ ~JournalExits /\ ~Crash
    BY <1>1 DEF ReadFails, JournalExits, Crash, EventKinds
<1>3. /\ reader.pc # "open" => reader.pos <= Size(reader.inode) /\ reader.inode <= Front
      /\ reader.pc = "stat" => state.file = [inode |-> reader.inode, offset |-> reader.pos]
      /\ reader.pc = "open" /\ reader.known # Unseen =>
             reader.known = Nowhere /\ state.file # Unseen /\ state.file.inode < Front
    BY <1>1 DEF Positions
<1>4. reader.pc # "open" => reader.inode \in Inodes /\ reader.pos \in Nat
    BY Constants DEF Types, ReaderTypes, Inodes
<1>5. Front \in Nat /\ Front' \in Nat /\ Front <= Front' /\ (path > 0 => Front = path)
    BY FrontMoves
<1>6. CASE Open
    <2>1. path \in Inodes /\ path > 0
        BY <1>6 DEF Open, Types, DiskTypes, Inodes
    <2>2. StartOf(path) \in Nat /\ StartOf(path) <= Size(path)
        BY <2>1, StartOfType DEF Types
    <2>3. reader' = [reader EXCEPT !.pc = "read", !.inode = path, !.pos = StartOf(path)]
          /\ Size(path)' = Size(path)
        BY <1>6 DEF Open, disk, Size
    <2>4. reader'.pc = "read" /\ reader'.inode = path /\ reader'.pos = StartOf(path)
        BY <2>3 DEF Types, ReaderTypes
    <2>5. Size(reader.inode)' = Size(path)
        BY <2>3, <2>4, <1>6 DEF Size, Open, disk
    <2> QED
        BY <1>5, <2>1, <2>2, <2>4, <2>5 DEF Positions
<1>7. CASE ReadLine
    <2>1. /\ reader'.pc = "read" /\ reader'.inode = reader.inode /\ reader'.pos = reader.pos + 1
          /\ reader.pos < Size(reader.inode) /\ reader.pc = "read"
          /\ Size(reader.inode)' = Size(reader.inode)
        BY <1>7 DEF ReadLine, Types, ReaderTypes, Size, disk
    <2>2. Size(reader.inode) \in Nat /\ reader.pos \in Nat /\ reader.inode \in Nat
        BY <1>1, <1>4, <2>1 DEF Inodes
    <2> QED
        BY <1>3, <1>5, <2>1, <2>2 DEF Positions
<1>8. CASE SavePosition
    <2>1. /\ reader'.pc = "stat" /\ reader'.inode = reader.inode /\ reader'.pos = reader.pos
          /\ reader.pc = "read" /\ Size(reader.inode)' = Size(reader.inode)
          /\ state'.file = [inode |-> reader.inode, offset |-> reader.pos]
        BY <1>8 DEF SavePosition, Types, ReaderTypes, Size, disk
    <2>2. Size(reader.inode) \in Nat /\ reader.pos \in Nat /\ reader.inode \in Nat
        BY <1>1, <1>4, <2>1 DEF Inodes
    <2> QED
        BY <1>3, <1>5, <2>1, <2>2 DEF Positions
<1>9. CASE Stat
    <2>1. reader.pc = "stat" /\ state' = state /\ content' = content
        BY <1>9 DEF Stat, disk
    <2>2. CASE path > 0 /\ Replaced
        <3>1. path # reader.inode
            BY <1>3, <1>4, <2>1, <2>2, <1>1 DEF Replaced
        <3>2. reader.inode < Front
            BY <1>3, <1>4, <1>5, <2>1, <2>2, <3>1 DEF Types, DiskTypes, Inodes
        <3>3. reader' = [Begins EXCEPT !.known = Nowhere]
            BY <1>9, <2>2 DEF Stat
        <3>4. reader'.pc = "open" /\ reader'.known = Nowhere
            BY <3>3 DEF Begins
        <3>5. state'.file # Unseen /\ state'.file.inode = reader.inode
            BY <1>3, <2>1 DEF Unseen
        <3> QED
            BY <1>4, <1>5, <2>1, <3>2, <3>4, <3>5 DEF Positions, Inodes
    <2>3. CASE ~(path > 0 /\ Replaced)
        <3>1. reader' = [reader EXCEPT !.pc = "read"]
            BY <1>9, <2>3 DEF Stat
        <3>2. reader'.pc = "read" /\ reader'.inode = reader.inode /\ reader'.pos = reader.pos
            BY <3>1 DEF Types, ReaderTypes
        <3>3. Size(reader.inode)' = Size(reader.inode)
            BY <2>1, <3>2 DEF Size
        <3> QED
            BY <1>3, <1>4, <1>5, <2>1, <3>2, <3>3 DEF Positions, Inodes
    <2> QED
        BY <2>2, <2>3
<1>10. CASE reader' = reader /\ state'.file = state.file
    <2>1. reader.pc # "open" => Size(reader.inode) <= Size(reader.inode)' /\ reader.inode \in Nat
                                /\ Size(reader.inode)' \in Nat /\ Size(reader.inode) \in Nat
        BY <1>1, <1>4, <1>10 DEF Size, Inodes
    <2>2. state.file # Unseen => state.file.inode \in Nat
        BY DEF Types, ReaderTypes, Inodes
    <2> QED
        BY <1>3, <1>4, <1>5, <1>10, <2>1, <2>2 DEF Positions
<1> QED
    <2>1. ASSUME StartJournal \/ ReadEntry \/ SaveCursor \/ UNCHANGED reading
          PROVE  reader' = reader /\ state'.file = state.file
        BY <2>1 DEF StartJournal, ReadEntry, SaveCursor, reading, Types, ReaderTypes
    <2> QED
        BY <1>2, <1>6, <1>7, <1>8, <1>9, <1>10, <2>1, ReaderStep

-----------------------------------------------------------------------------
(* One place for an item *)

\* Without a failure nothing that was read is unread again.
LEMMA UnreadShrinks ==
    ASSUME Types, Positions, [Next]_vars, faults' = 0,
           NEW x, Unread(x)'
    PROVE  Unread(x)
<1>1. /\ faults = 0 /\ \A k \in EventKinds : ~Fault(k)
    BY FilesGrow, KeepsTypes DEF Types, EnvTypes, Fault
<1>2. ~ReadFails /\ ~JournalExits /\ ~Crash
    BY <1>1 DEF ReadFails, JournalExits, Crash, EventKinds
<1>3. ASSUME NEW i \in Inodes, NEW n \in DOMAIN content[i], content[i][n] = x
      PROVE  Beyond(i, n)
    <2>1. n \in DOMAIN content'[i] /\ content'[i][n] = x
        BY <1>3, FilesGrow
    <2>2. Beyond(i, n)'
        BY <2>1 DEF Unread
    <2>3. i \in Nat \ {0} /\ n \in Nat \ {0}
        BY DEF Types, DiskTypes, Inodes
    <2>4. CASE Open
        <3>1. CASE reader.known = Unseen
            BY <2>4, <3>1 DEF Open, Beyond
        <3>2. CASE reader.known # Unseen
            <4>1. path \in Inodes /\ path > 0
                BY <2>4 DEF Open, Types, DiskTypes, Inodes
            <4>2. reader.known = Nowhere /\ state.file.inode < Front /\ state.file.inode \in Nat
                BY <1>1, <2>4, <3>2 DEF Open, Positions, Types, ReaderTypes, Inodes
            <4>3. Front = path
                BY <4>1 DEF Front
            <4>4. reader'.pc = "read" /\ reader'.inode = path
                BY <2>4 DEF Open, Types, ReaderTypes
            <4>5. i >= path
                BY <2>2, <2>3, <4>1, <4>4 DEF Beyond, Inodes
            <4> QED
                BY <2>3, <2>4, <4>1, <4>2, <4>3, <4>5 DEF Open, Beyond, Inodes
        <3> QED
            BY <3>1, <3>2
    <2>5. CASE ReadLine
        <3>1. reader.pc = "read" /\ reader'.pc = "read" /\ reader'.inode = reader.inode
              /\ reader'.pos = reader.pos + 1 /\ reader.pos \in Nat
            BY <2>5 DEF ReadLine, Types, ReaderTypes
        <3> QED
            BY <2>2, <2>3, <3>1 DEF Beyond
    <2>6. CASE SavePosition
        <3>1. reader.pc = "read" /\ reader'.pc = "stat" /\ reader'.inode = reader.inode
              /\ reader'.pos = reader.pos
            BY <2>6 DEF SavePosition, Types, ReaderTypes
        <3> QED
            BY <2>2, <3>1 DEF Beyond
    <2>7. CASE Stat
        <3>1. reader.pc = "stat" /\ state' = state /\ state.file.inode = reader.inode
            BY <1>1, <2>7 DEF Stat, Positions
        <3>2. CASE path > 0 /\ Replaced
            <4>1. reader' = [Begins EXCEPT !.known = Nowhere]
                BY <2>7, <3>2 DEF Stat
            <4>2. reader'.pc = "open" /\ reader'.known # Unseen
                BY <4>1 DEF Begins, Nowhere, Unseen
            <4> QED
                BY <2>2, <3>1, <4>2 DEF Beyond
        <3>3. CASE ~(path > 0 /\ Replaced)
            <4>1. reader' = [reader EXCEPT !.pc = "read"]
                BY <2>7, <3>3 DEF Stat
            <4>2. reader'.pc = "read" /\ reader'.inode = reader.inode /\ reader'.pos = reader.pos
                BY <4>1 DEF Types, ReaderTypes
            <4> QED
                BY <2>2, <3>1, <4>2 DEF Beyond
        <3> QED
            BY <3>2, <3>3
    <2>8. CASE reader' = reader /\ state'.file = state.file
        BY <2>2, <2>8 DEF Beyond
    <2>9. ASSUME StartJournal \/ ReadEntry \/ SaveCursor \/ UNCHANGED reading
          PROVE  reader' = reader /\ state'.file = state.file
        BY <2>9 DEF StartJournal, ReadEntry, SaveCursor, reading, Types, ReaderTypes
    <2> QED
        BY <1>2, <2>4, <2>5, <2>6, <2>7, <2>8, <2>9, ReaderStep
<1>4. ASSUME NEW n \in DOMAIN journal, journal[n] = x
      PROVE  tail = Stopped \/ n > tail
    <2>1. n \in DOMAIN journal' /\ journal'[n] = x
        BY <1>4, FilesGrow
    <2>2. tail' = Stopped \/ n > tail'
        BY <2>1 DEF Unread
    <2>3. n \in Nat \ {0} /\ tail \in Int
        BY DEF Types, DiskTypes, ReaderTypes, Stopped
    <2>4. CASE ReadEntry
        BY <2>2, <2>3, <2>4 DEF ReadEntry, Types, ReaderTypes, Stopped
    <2>5. CASE StartJournal
        BY <2>5 DEF StartJournal
    <2>6. CASE tail' = tail
        BY <2>2, <2>6
    <2>7. ASSUME Open \/ ReadLine \/ SavePosition \/ Stat \/ SaveCursor \/ UNCHANGED reading
          PROVE  tail' = tail
        BY <2>7 DEF Open, ReadLine, SavePosition, Stat, SaveCursor, reading
    <2> QED
        BY <1>2, <2>4, <2>5, <2>6, <2>7, ReaderStep
<1> QED
    BY <1>3, <1>4 DEF Unread

\* What a thread is about to read was not read, and then is.
LEMMA ReadsTheUnread ==
    ASSUME Types, Distinct
    PROVE  /\ ReadLine => LET x == content[reader.inode][reader.pos + 1]
                          IN  x \in Lines /\ Unread(x)
           /\ ReadEntry => LET x == journal[tail + 1] IN x \in Entries /\ Unread(x)
<1>1. ASSUME ReadLine
      PROVE  LET x == content[reader.inode][reader.pos + 1] IN x \in Lines /\ Unread(x)
    <2> DEFINE x == content[reader.inode][reader.pos + 1]
    <2>1. reader.pc = "read" /\ reader.inode \in Inodes /\ reader.pos \in Nat
          /\ reader.pos + 1 \in DOMAIN content[reader.inode]
        BY <1>1 DEF ReadLine, Types, ReaderTypes, DiskTypes, Inodes, Size
    <2>2. x \in Lines
        BY <2>1 DEF Types, DiskTypes
    <2>3. \A n \in DOMAIN journal : journal[n] # x
        BY <2>2, Constants DEF Types, DiskTypes
    <2>4. \A i \in Inodes : \A n \in DOMAIN content[i] : content[i][n] = x => Beyond(i, n)
        BY <2>1 DEF Distinct, Beyond
    <2> QED
        BY <2>2, <2>3, <2>4 DEF Unread
<1>2. ASSUME ReadEntry
      PROVE  LET x == journal[tail + 1] IN x \in Entries /\ Unread(x)
    <2> DEFINE x == journal[tail + 1]
    <2>1. tail \in Nat /\ tail + 1 \in DOMAIN journal
        BY <1>2 DEF ReadEntry, Types, ReaderTypes, DiskTypes, Stopped
    <2>2. x \in Entries
        BY <2>1 DEF Types, DiskTypes
    <2>3. \A i \in Inodes : \A n \in DOMAIN content[i] : content[i][n] # x
        BY <2>2, Constants DEF Types, DiskTypes
    <2>4. \A n \in DOMAIN journal : journal[n] = x => n > tail
        BY <2>1 DEF Distinct
    <2> QED
        BY <2>2, <2>3, <2>4 DEF Unread
<1> QED
    BY <1>1, <1>2

LEMMA IsReadNow ==
    ASSUME Types, NEW x
    PROVE  /\ ReadLine /\ x = content[reader.inode][reader.pos + 1] => ~Unread(x)'
           /\ ReadEntry /\ x = journal[tail + 1] => ~Unread(x)'
<1>1. ASSUME ReadLine, x = content[reader.inode][reader.pos + 1]
      PROVE  ~Unread(x)'
    <2>1. reader.inode \in Inodes /\ reader.pos + 1 \in DOMAIN content[reader.inode]
          /\ reader.pos \in Nat
        BY <1>1 DEF ReadLine, Types, ReaderTypes, DiskTypes, Inodes, Size
    <2>2. /\ content' = content
          /\ reader'.pc = "read" /\ reader'.inode = reader.inode /\ reader'.pos = reader.pos + 1
        BY <1>1 DEF ReadLine, disk, Types, ReaderTypes
    <2>3. PICK j \in Inodes : j = reader.inode
        BY <2>1
    <2>4. PICK m \in DOMAIN content[j] : m = reader.pos + 1
        BY <2>1, <2>3
    <2>5. ~Beyond(j, m)' /\ content'[j][m] = x /\ m \in DOMAIN content'[j]
        BY <1>1, <2>1, <2>2, <2>3, <2>4 DEF Beyond, Inodes
    <2> QED
        BY <2>5 DEF Unread
<1>2. ASSUME ReadEntry, x = journal[tail + 1]
      PROVE  ~Unread(x)'
    <2>1. tail \in Nat /\ tail + 1 \in DOMAIN journal
        BY <1>2 DEF ReadEntry, Types, ReaderTypes, DiskTypes, Stopped
    <2>2. journal' = journal /\ tail' = tail + 1
        BY <1>2 DEF ReadEntry, disk
    <2>3. PICK m \in DOMAIN journal : m = tail + 1
        BY <2>1
    <2>4. m \in DOMAIN journal' /\ journal'[m] = x /\ ~(tail' = Stopped \/ m > tail')
        BY <1>2, <2>1, <2>2, <2>3 DEF Stopped
    <2> QED
        BY <2>4 DEF Unread
<1> QED
    BY <1>1, <1>2

\* Nothing is taken in hand, queued or stored by this step.
LEMMA NothingNew ==
    ASSUME Once, faults = 0, stored' = stored,
           \A e \in Elements' : e \in Elements,
           \A t \in Threads : InHand(t)' => InHand(t) /\ work'[t].item = work[t].item,
           \A x \in Items : Unread(x)' => Unread(x)
    PROVE  Once'
<1>1. \A x : Untouched(x) => Untouched(x)'
    BY DEF Untouched
<1>2. \A e, f \in Elements' : e[1] = f[1] => e = f
    BY DEF Once
<1>3. \A x \in Items : stored'[x] <= 1 /\ (stored'[x] = 1 => \A e \in Elements' : e[1] # x)
    BY DEF Once
<1>4. \A t \in Threads : InHand(t)' => Untouched(work[t].item)'
    <2> SUFFICES ASSUME NEW t \in Threads, InHand(t)'
                 PROVE  Untouched(work[t].item)'
        OBVIOUS
    <2>1. InHand(t) /\ work'[t].item = work[t].item
        OBVIOUS
    <2>2. Untouched(work[t].item)
        BY <2>1 DEF Once
    <2> QED
        BY <2>1, <2>2 DEF Untouched
<1>5. \A x \in Items : Unread(x)' =>
          Untouched(x)' /\ \A t \in Threads : InHand(t)' => work'[t].item # x
    BY <1>1 DEF Once
<1> QED
    BY <1>2, <1>3, <1>4, <1>5 DEF Once

\* A thread takes in hand what was unread.
LEMMA TakenInHand ==
    ASSUME Types, Once, faults = 0, NEW t \in Threads, NEW x \in Items,
           stored' = stored, Elements' = Elements,
           Unread(x), ~Unread(x)', \A y \in Items : Unread(y)' => Unread(y),
           work[t].pc = "idle", Handed(t, x)
    PROVE  Once'
<1>1. CASE Payload[x] = NoPayload
    <2>1. work' = work
        BY <1>1 DEF Handed
    <2> QED
        BY <2>1, NothingNew DEF InHand
<1>2. CASE Payload[x] # NoPayload
    <2>1. /\ work'[t].item = x
          /\ \A u \in Threads : u # t => work'[u] = work[u]
        BY <1>2 DEF Handed, Types, WorkTypes
    <2>2. Untouched(x)' /\ \A y : Untouched(y) => Untouched(y)'
        BY DEF Once, Untouched
    <2>3. \A u \in Threads : InHand(u)' => Untouched(work[u].item)'
        <3> SUFFICES ASSUME NEW u \in Threads, InHand(u)'
                     PROVE  Untouched(work[u].item)'
            OBVIOUS
        <3>1. CASE u = t
            BY <2>1, <2>2, <3>1 DEF Untouched
        <3>2. CASE u # t
            <4>1. work'[u] = work[u] /\ InHand(u)
                BY <2>1, <3>2 DEF InHand
            <4>2. Untouched(work[u].item)
                BY <4>1 DEF Once
            <4> QED
                BY <4>1, <4>2 DEF Untouched
        <3> QED
            BY <3>1, <3>2
    <2>4. ASSUME NEW y \in Items, Unread(y)'
          PROVE  Untouched(y)' /\ \A u \in Threads : InHand(u)' => work'[u].item # y
        <3>1. Unread(y) /\ y # x
            BY <2>4
        <3>2. Untouched(y) /\ \A u \in Threads : InHand(u) => work[u].item # y
            BY <3>1 DEF Once
        <3> QED
            BY <2>1, <2>2, <3>1, <3>2 DEF InHand
    <2>5. \A e, f \in Elements' : e[1] = f[1] => e = f
        BY DEF Once
    <2>6. \A y \in Items : stored'[y] <= 1 /\ (stored'[y] = 1 => \A e \in Elements' : e[1] # y)
        BY DEF Once
    <2> QED
        BY <2>3, <2>4, <2>5, <2>6 DEF Once
<1> QED
    BY <1>1, <1>2

\* What a thread offers becomes the newest element, and only that.
LEMMA EnqueueOnce ==
    ASSUME Types, Once, faults = 0, NEW t \in Threads, Enqueue(t),
           \A x \in Items : Unread(x)' => Unread(x)
    PROVE  Once'
<1> DEFINE x0  == work[t].item
           new == <<x0, count + 1>>
<1>1. /\ InHand(t) /\ stored' = stored /\ ~InHand(t)'
      /\ \A u \in Threads : u # t => work'[u] = work[u]
      /\ x0 \in Source(t) /\ x0 \in Items
    BY DEF Enqueue, InHand, Ends, Finished, Rest, Types, WorkTypes, Source, Items
<1>2. Untouched(x0)
    BY <1>1 DEF Once
<1>3. \A e \in Elements' : e \in Elements \/ e = new
    <2> DEFINE rest == IF Len(queue) >= PerHour THEN Tail(queue) ELSE queue
    <2>1. queue' = Append(rest, new) /\ flight' = flight
        BY DEF Enqueue
    <2>2. /\ rest \in Seq(Element)
          /\ \A k \in DOMAIN rest : \E j \in DOMAIN queue : rest[k] = queue[j]
        <3>1. CASE Len(queue) >= PerHour
            <4>1. queue # <<>> /\ queue \in Seq(Element)
                BY <3>1, Constants DEF Types, SendTypes
            <4>2. /\ Tail(queue) \in Seq(Element)
                  /\ \A k \in DOMAIN Tail(queue) :
                        k + 1 \in DOMAIN queue /\ Tail(queue)[k] = queue[k + 1]
                BY <4>1
            <4> QED
                BY <3>1, <4>2
        <3>2. CASE ~(Len(queue) >= PerHour)
            BY <3>2 DEF Types, SendTypes
        <3> QED
            BY <3>1, <3>2
    <2> HIDE DEF rest, new
    <2>3. \A k \in DOMAIN queue' : \/ k \in DOMAIN rest /\ queue'[k] = rest[k]
                                   \/ queue'[k] = new
        BY <2>1, <2>2
    <2>4. \A k \in DOMAIN queue' : \/ \E j \in DOMAIN queue : queue'[k] = queue[j]
                                   \/ queue'[k] = new
        BY <2>2, <2>3
    <2> QED
        BY <2>1, <2>4 DEF Elements
<1>4. new[1] = x0 /\ \A e \in Elements : e[1] # x0
    BY <1>2 DEF Untouched
<1> HIDE DEF new
<1>5. \A e, f \in Elements' : e[1] = f[1] => e = f
    BY <1>3, <1>4 DEF Once
<1>6. \A y \in Items : stored'[y] <= 1 /\ (stored'[y] = 1 => \A e \in Elements' : e[1] # y)
    BY <1>1, <1>2, <1>3, <1>4 DEF Once, Untouched
<1>7. \A y : y # x0 /\ Untouched(y) => Untouched(y)'
    BY <1>1, <1>3, <1>4 DEF Untouched
<1>8. \A u \in Threads : InHand(u)' => Untouched(work[u].item)'
    <2> SUFFICES ASSUME NEW u \in Threads, InHand(u)'
                 PROVE  Untouched(work[u].item)'
        OBVIOUS
    <2>1. u # t /\ work'[u] = work[u] /\ InHand(u)
        BY <1>1 DEF InHand
    <2>2. Untouched(work[u].item)
        BY <2>1 DEF Once
    <2>3. work[u].item \in Source(u)
        BY <2>1 DEF InHand, Types, WorkTypes
    <2>4. work[u].item # x0
        BY <1>1, <2>1, <2>3, Constants DEF Source, Threads
    <2>5. Untouched(work[u].item)' <=> stored'[work[u].item] = 0 /\ \A e \in Elements' : e[1] # work[u].item
        BY <2>1 DEF Untouched
    <2> QED
        BY <1>1, <1>3, <1>4, <2>2, <2>4, <2>5 DEF Untouched
<1>9. ASSUME NEW y \in Items, Unread(y)'
      PROVE  Untouched(y)' /\ \A u \in Threads : InHand(u)' => work'[u].item # y
    <2>1. Untouched(y) /\ \A u \in Threads : InHand(u) => work[u].item # y
        BY <1>9 DEF Once
    <2>2. \A u \in Threads : InHand(u)' => InHand(u) /\ work'[u] = work[u]
        BY <1>1 DEF InHand
    <2> QED
        BY <1>1, <1>7, <2>1, <2>2
<1> QED
    BY <1>5, <1>6, <1>8, <1>9 DEF Once

\* The answer of the API settles the element in flight, whether it is still the head or was
\* pushed out by then.
LEMMA AnsweredOnce ==
    ASSUME Types, Once, faults = 0, Answered,
           \A x \in Items : Unread(x)' => Unread(x)
    PROVE  Once'
<1> DEFINE x0 == flight[1]
<1>1. flight \in Elements /\ x0 \in Items
    BY DEF Answered, Elements, Types, SendTypes, Element
<1>2. work' = work /\ flight' = Nothing /\ queue' = AfterSend
    BY DEF Answered
<1>3. \A e \in Elements' : e \in Elements /\ e # flight
    <2>1. /\ queue \in Seq(Element) /\ flight # Nothing
          /\ \A j, k \in DOMAIN queue : j < k => queue[j][2] < queue[k][2]
          /\ \A k \in DOMAIN queue : queue[k][2] \in Nat /\ flight[2] <= queue[k][2]
          /\ flight[2] \in Nat
        BY DEF Answered, Types, SendTypes
    <2>2. CASE queue # <<>> /\ Head(queue) = flight
        <3>1. /\ Tail(queue) \in Seq(Element) /\ Len(Tail(queue)) = Len(queue) - 1
              /\ \A k \in DOMAIN Tail(queue) :
                    k + 1 \in DOMAIN queue /\ Tail(queue)[k] = queue[k + 1] /\ k \in Nat \ {0}
              /\ 1 \in DOMAIN queue /\ queue[1] = flight
            BY <2>1, <2>2
        <3>2. \A k \in DOMAIN Tail(queue) : queue[1][2] < Tail(queue)[k][2]
            BY <2>1, <3>1
        <3>3. \A k \in DOMAIN Tail(queue) : Tail(queue)[k] # flight
            BY <2>1, <3>1, <3>2
        <3> QED
            BY <1>2, <2>2, <3>1, <3>3 DEF AfterSend, Elements
    <2>3. CASE queue # <<>> /\ Head(queue) # flight
        <3>1. 1 \in DOMAIN queue /\ queue[1] # flight /\ \A k \in DOMAIN queue : k = 1 \/ 1 < k
            BY <2>1, <2>3
        <3>2. \A k \in DOMAIN queue : queue[k] # flight
            <4> SUFFICES ASSUME NEW k \in DOMAIN queue, queue[k] = flight
                         PROVE  FALSE
                OBVIOUS
            <4>1. queue[1][2] < queue[k][2] /\ flight[2] <= queue[1][2] /\ queue[1][2] \in Nat
                BY <2>1, <3>1
            <4> QED
                BY <2>1, <4>1
        <3> QED
            BY <1>2, <2>3, <3>2 DEF AfterSend, Elements
    <2>4. CASE queue = <<>>
        BY <1>2, <2>4 DEF AfterSend, Elements
    <2> QED
        BY <2>2, <2>3, <2>4
<1>4. \A e \in Elements' : e[1] # x0
    BY <1>1, <1>3 DEF Once
<1>5. stored[x0] = 0
    BY <1>1 DEF Once, Types, SendTypes
<1>6. stored'[x0] \in 0 .. 1 /\ \A y \in Items : y # x0 => stored'[y] = stored[y]
    BY <1>1, <1>5 DEF Answered, Types, SendTypes
<1>7. \A e, f \in Elements' : e[1] = f[1] => e = f
    BY <1>3 DEF Once
<1>8. ASSUME NEW y \in Items
      PROVE  stored'[y] <= 1 /\ (stored'[y] = 1 => \A e \in Elements' : e[1] # y)
    <2>1. CASE y = x0
        BY <1>4, <1>6, <2>1
    <2>2. CASE y # x0
        BY <1>3, <1>6, <2>2 DEF Once
    <2> QED
        BY <2>1, <2>2
<1>9. ASSUME NEW y \in Items, Untouched(y)
      PROVE  stored'[y] = 0 /\ \A e \in Elements' : e[1] # y
    <2>1. y # x0
        BY <1>1, <1>9 DEF Untouched
    <2> QED
        BY <1>3, <1>6, <1>9, <2>1 DEF Untouched
<1>10. \A t \in Threads : InHand(t)' => Untouched(work[t].item)'
    <2> SUFFICES ASSUME NEW t \in Threads, InHand(t)'
                 PROVE  Untouched(work[t].item)'
        OBVIOUS
    <2>1. InHand(t) /\ Untouched(work[t].item)
        BY <1>2 DEF InHand, Once
    <2>2. work[t].item \in Items
        BY <2>1 DEF InHand, Types, WorkTypes, Source, Items
    <2> QED
        BY <1>2, <1>9, <2>1, <2>2 DEF Untouched
<1>11. ASSUME NEW y \in Items, Unread(y)'
       PROVE  Untouched(y)' /\ \A t \in Threads : InHand(t)' => work'[t].item # y
    <2>1. Untouched(y) /\ \A t \in Threads : InHand(t) => work[t].item # y
        BY <1>11 DEF Once
    <2> QED
        BY <1>2, <1>9, <2>1 DEF Untouched, InHand
<1> QED
    BY <1>7, <1>8, <1>10, <1>11 DEF Once

LEMMA KeepsOnce ==
    ASSUME Types, Distinct, Positions, Once, [Next]_vars
    PROVE  Once'
<1> SUFFICES ASSUME faults' = 0
             PROVE  Once'
    BY DEF Once
<1>1. /\ faults = 0 /\ \A k \in EventKinds : ~Fault(k)
      /\ \A x \in Items : Unread(x)' => Unread(x)
    BY FilesGrow, UnreadShrinks, KeepsTypes DEF Types, EnvTypes, Fault
<1>2. ~Crash
    BY <1>1 DEF Crash, EventKinds
<1>3. ASSUME UNCHANGED sending
      PROVE  stored' = stored /\ Elements' = Elements
    BY <1>3 DEF sending, Elements
<1>4. CASE ReadLine
    <2> DEFINE x == content[reader.inode][reader.pos + 1]
    <2>1. x \in Items /\ Unread(x) /\ work["file"].pc = "idle" /\ Handed("file", x)
          /\ UNCHANGED sending
        BY <1>4, ReadsTheUnread DEF ReadLine, Items
    <2>2. ASSUME NEW y \in Items, y = x
          PROVE  Once'
        <3>1. ~Unread(y)'
            BY <1>4, <2>2, IsReadNow
        <3> HIDE DEF x
        <3> QED
            BY <1>1, <1>3, <2>1, <2>2, <3>1, TakenInHand DEF Threads
    <2> QED
        BY <2>1, <2>2
<1>5. CASE ReadEntry
    <2> DEFINE x == journal[tail + 1]
    <2>1. x \in Items /\ Unread(x) /\ work["journal"].pc = "idle" /\ Handed("journal", x)
          /\ UNCHANGED sending
        BY <1>5, ReadsTheUnread DEF ReadEntry, Items
    <2>2. ASSUME NEW y \in Items, y = x
          PROVE  Once'
        <3>1. ~Unread(y)'
            BY <1>5, <2>2, IsReadNow
        <3> HIDE DEF x
        <3> QED
            BY <1>1, <1>3, <2>1, <2>2, <3>1, TakenInHand DEF Threads
    <2> QED
        BY <2>1, <2>2
<1>6. CASE SaveCursor
    <2>1. UNCHANGED sending /\ \A t \in Threads : InHand(t)' => InHand(t) /\ work'[t] = work[t]
        BY <1>6 DEF SaveCursor, InHand, Types, WorkTypes, Rest
    <2> QED
        BY <1>1, <1>3, <2>1, NothingNew
<1>7. ASSUME NEW t \in Threads, Offer(t), ~Enqueue(t)
      PROVE  Once'
    <2>1. UNCHANGED sending
        BY <1>7 DEF Offer, Look, Expire, Pop, Check, Admit
    <2>2. InHand(t)
        BY <1>7 DEF Offer, Look, Expire, Pop, Check, Admit, InHand
    <2>3. \A u \in Threads : u # t => work'[u] = work[u]
        BY <1>7 DEF Offer, Look, Expire, Pop, Check, Admit, Ends, Goes, Types, WorkTypes
    <2>4. ASSUME InHand(t)'
          PROVE  work'[t].item = work[t].item
        <3>1. CASE Ends(t)
            BY <2>4, <3>1 DEF Ends, Finished, Rest, InHand, Types, WorkTypes
        <3>2. ASSUME NEW pc, Goes(t, pc)
              PROVE  work'[t].item = work[t].item
            BY <3>2 DEF Goes, Types, WorkTypes
        <3>3. CASE Look(t)
            BY <3>1, <3>2, <3>3 DEF Look
        <3>4. CASE Expire(t)
            BY <3>2, <3>4 DEF Expire
        <3>5. CASE Pop(t)
            BY <3>1, <3>2, <3>5 DEF Pop
        <3>6. CASE Check(t)
            BY <3>1, <3>2, <3>6 DEF Check
        <3>7. CASE Admit(t)
            BY <3>2, <3>7 DEF Admit
        <3> QED
            BY <1>7, <3>3, <3>4, <3>5, <3>6, <3>7 DEF Offer
    <2>5. \A u \in Threads : InHand(u)' => InHand(u) /\ work'[u].item = work[u].item
        BY <2>2, <2>3, <2>4 DEF InHand
    <2> QED
        BY <1>1, <1>3, <2>1, <2>5, NothingNew
<1>8. ASSUME NEW t \in Threads, Enqueue(t)
      PROVE  Once'
    BY <1>1, <1>8, EnqueueOnce
<1>9. CASE Answered
    BY <1>1, <1>9, AnsweredOnce
<1>10. CASE Take
    <2>1. /\ stored' = stored /\ work' = work /\ queue' = queue
          /\ \E k \in DOMAIN queue : flight' = queue[k]
        BY <1>10 DEF Take, Types, SendTypes
    <2>2. \A e \in Elements' : e \in Elements
        BY <2>1 DEF Elements
    <2> QED
        BY <1>1, <2>1, <2>2, NothingNew DEF InHand
<1>11. CASE Unanswered
    <2>1. stored' = stored /\ work' = work /\ queue' = queue /\ flight' = Nothing
        BY <1>1, <1>11 DEF Unanswered, EventKinds
    <2>2. \A e \in Elements' : e \in Elements
        BY <2>1 DEF Elements
    <2> QED
        BY <1>1, <2>1, <2>2, NothingNew DEF InHand
<1>12. CASE UNCHANGED <<work, sending>>
    BY <1>1, <1>3, <1>12, NothingNew DEF InHand
<1> QED
    <2>1. ASSUME Take \/ Answered \/ Unanswered
          PROVE  work' = work
        BY <2>1 DEF Take, Answered, Unanswered
    <2> QED
        BY <1>2, <1>4, <1>5, <1>6, <1>7, <1>8, <1>9, <1>10, <1>11, <1>12, WorkStep, SendStep
           DEF Offer

\* Without a failure a line is stored once at most, whatever is rotated under the reader,
\* pushed out of a full queue while it is sent, or held back by an outage (follow_file,
\* follow_journal, Sender.step).
THEOREM StoredOnce == Spec => []NoNeedlessRepeat
<1> DEFINE Inv == Types /\ Distinct /\ Positions /\ Once
<1>1. Init => Inv
    <2> SUFFICES ASSUME Init
                 PROVE  Inv
        OBVIOUS
    <2>1. Distinct
        BY DEF Init, Distinct, Inodes
    <2>2. Positions
        BY DEF Init, Positions, Begins
    <2>3. Once
        BY DEF Init, Once, Elements, Untouched, InHand, Rest, Nothing
    <2> QED
        BY <2>1, <2>2, <2>3, InitTypes
<1>2. Inv /\ [Next]_vars => Inv'
    BY KeepsTypes, KeepsDistinct, KeepsPositions, KeepsOnce
<1>3. Inv => NoNeedlessRepeat
    BY DEF Once, NoNeedlessRepeat
<1> QED
    BY <1>1, <1>2, <1>3, PTL DEF Spec

-----------------------------------------------------------------------------
(* The gate *)

LEMMA SentAfterType ==
    ASSUME NEW s \in Seq(Times), NEW a \in Int
    PROVE  /\ IsFiniteSet(SentAfter(s, a))
           /\ Cardinality(SentAfter(s, a)) \in Nat /\ Cardinality(SentAfter(s, a)) <= Len(s)
<1>1. IsFiniteSet(1 .. Len(s)) /\ Cardinality(1 .. Len(s)) = Len(s)
    <2>1. Len(s) \in Nat /\ 1 \in Int
        OBVIOUS
    <2> HIDE DEF SentAfter
    <2>2. IsFiniteSet(1 .. Len(s)) /\ Cardinality(1 .. Len(s)) = IF 1 > Len(s) THEN 0 ELSE Len(s) - 1 + 1
        BY <2>1, FS_Interval
    <2> QED
        BY <2>1, <2>2
<1>2. SentAfter(s, a) \in SUBSET (1 .. Len(s))
    BY DEF SentAfter
<1>3. IsFiniteSet(SentAfter(s, a)) /\ Cardinality(SentAfter(s, a)) <= Len(s)
    BY <1>1, <1>2, FS_Subset
<1> QED
    BY <1>3, FS_CardinalityType

\* What the deque gets counts once.
LEMMA SentAfterAppend ==
    ASSUME NEW s \in Seq(Times), NEW x \in Times, NEW a \in Int
    PROVE  Cardinality(SentAfter(Append(s, x), a)) =
               Cardinality(SentAfter(s, a)) + IF x > a THEN 1 ELSE 0
<1>1. Len(s) + 1 \notin SentAfter(s, a)
    BY DEF SentAfter
<1>2. CASE x > a
    <2>1. SentAfter(Append(s, x), a) = SentAfter(s, a) \cup {Len(s) + 1}
        BY <1>2 DEF SentAfter
    <2> QED
        BY <1>1, <1>2, <2>1, SentAfterType, FS_AddElement
<1>3. CASE ~(x > a)
    <2>1. SentAfter(Append(s, x), a) = SentAfter(s, a)
        BY <1>3 DEF SentAfter
    <2> QED
        BY <1>3, <2>1, SentAfterType
<1> QED
    BY <1>2, <1>3

\* What leaves it was one of those counted, when it is that young.
LEMMA SentAfterTail ==
    ASSUME NEW s \in Seq(Times), s # <<>>, NEW a \in Int
    PROVE  Cardinality(SentAfter(s, a)) <=
               Cardinality(SentAfter(Tail(s), a)) + IF Head(s) > a THEN 1 ELSE 0
<1> DEFINE S == SentAfter(s, a)
           T == SentAfter(Tail(s), a)
           f == [k \in S \ {1} |-> k - 1]
<1>1. /\ Tail(s) \in Seq(Times) /\ Len(Tail(s)) = Len(s) - 1
      /\ \A k \in DOMAIN Tail(s) : Tail(s)[k] = s[k + 1]
    OBVIOUS
<1>2. IsFiniteSet(S) /\ Cardinality(S) \in Nat /\ IsFiniteSet(T) /\ Cardinality(T) \in Nat
    BY <1>1, SentAfterType
<1>3. f \in [S \ {1} -> T]
    <2> SUFFICES ASSUME NEW k \in S \ {1}
                 PROVE  k - 1 \in T
        OBVIOUS
    <2>1. k \in 2 .. Len(s) /\ s[k] > a
        BY DEF SentAfter
    <2>2. k - 1 \in DOMAIN Tail(s) /\ Tail(s)[k - 1] = s[k]
        BY <1>1, <2>1
    <2> QED
        BY <2>1, <2>2 DEF SentAfter
<1>4. \A j, k \in S \ {1} : f[j] = f[k] => j = k
    BY DEF SentAfter
<1>5. f \in Injection(S \ {1}, T)
    BY <1>3, <1>4 DEF Injection, IsInjective
<1>6. Cardinality(S \ {1}) <= Cardinality(T)
    BY <1>2, <1>5, FS_Injection
<1>7. Cardinality(S \ {1}) = IF 1 \in S THEN Cardinality(S) - 1 ELSE Cardinality(S)
    BY <1>2, FS_RemoveElement
<1>8. 1 \in S <=> Head(s) > a
    BY DEF SentAfter
<1> HIDE DEF S, T
<1> QED
    BY <1>2, <1>6, <1>7, <1>8 DEF S, T

LEMMA PassedType ==
    ASSUME Types, NEW S \in SUBSET passed
    PROVE  IsFiniteSet(S) /\ Cardinality(S) \in Nat
BY FS_Subset, FS_CardinalityType DEF Types, GateTypes

LEMMA KeepsInDeque ==
    ASSUME Types, InDeque, [Next]_vars
    PROVE  InDeque'
<1> SUFFICES ASSUME NEW a \in Int, a >= now' - HourTime
             PROVE  Cardinality(PassedAfter(a)') <= Cardinality(SentAfter(sent', a)) + early'
    BY DEF InDeque, PassedAfter, SentAfter
<1> DEFINE old == Cardinality(PassedAfter(a))
           had == Cardinality(SentAfter(sent, a))
<1>1. /\ now \in Int /\ HourTime \in Nat /\ now <= now' /\ now' \in Int
    BY KeepsDisk, KeepsTypes, Constants DEF Types, DiskTypes, Times
<1>2. a >= now - HourTime
    <2> HIDE DEF old, had
    <2>1. \A x, y, h, b \in Int : x <= y /\ b >= y - h => b >= x - h
        OBVIOUS
    <2>2. now \in Int /\ now' \in Int /\ HourTime \in Int
        BY <1>1
    <2> QED
        BY <1>1, <2>1, <2>2
<1>3. /\ old \in Nat /\ had \in Nat /\ early \in Nat /\ old <= had + early
      /\ sent \in Seq(Times) /\ IsFiniteSet(PassedAfter(a))
    <2>1. sent \in Seq(Times) /\ early \in Nat
        BY DEF Types, GateTypes
    <2>2. PassedAfter(a) \in SUBSET passed
        BY DEF PassedAfter
    <2> QED
        BY <1>2, <2>1, <2>2, PassedType, SentAfterType DEF InDeque
<1>4. CASE Crash
    <2>1. PassedAfter(a)' = {} /\ SentAfter(sent', a) = {} /\ early' = 0
        BY <1>4 DEF Crash, PassedAfter, SentAfter
    <2> QED
        BY <2>1, FS_EmptySet
<1>5. ASSUME NEW t \in Threads, Look(t)
      PROVE  Cardinality(PassedAfter(a)') <= Cardinality(SentAfter(sent', a)) + early'
    <2>1. PassedAfter(a)' = PassedAfter(a) /\ sent' = sent /\ early' = early
        BY <1>5 DEF Look, PassedAfter
    <2> QED
        BY <1>3, <2>1
<1>6. ASSUME NEW t \in Threads, Pop(t)
      PROVE  Cardinality(PassedAfter(a)') <= Cardinality(SentAfter(sent', a)) + early'
    <2>1. PassedAfter(a)' = PassedAfter(a) /\ now' = now
        BY <1>6 DEF Pop, PassedAfter
    <2>2. CASE sent = <<>>
        <3>1. sent' = sent /\ early' = early
            BY <1>6, <2>2 DEF Pop
        <3> QED
            BY <1>3, <2>1, <3>1
    <2>3. CASE sent # <<>>
        <3>1. sent' = Tail(sent) /\ early' = IF now - Head(sent) < HourTime THEN early + 1 ELSE early
            BY <1>6, <2>3 DEF Pop
        <3>2. had <= Cardinality(SentAfter(sent', a)) + IF Head(sent) > a THEN 1 ELSE 0
            BY <1>3, <2>3, <3>1, SentAfterTail
        <3>3. Head(sent) \in Int /\ Tail(sent) \in Seq(Times)
            <4>1. Head(sent) \in Times /\ Tail(sent) \in Seq(Times)
                BY <1>3, <2>3
            <4> QED
                BY <4>1 DEF Times
        <3>4. Head(sent) > a => early' = early + 1
            BY <1>1, <1>2, <3>1, <3>3
        <3>5. Cardinality(SentAfter(sent', a)) \in Nat /\ early' \in {early, early + 1}
            BY <3>1, <3>3, SentAfterType
        <3> HIDE DEF had, old
        <3> DEFINE has == Cardinality(SentAfter(sent', a))
        <3>6. old <= has + early'
            <4> HIDE DEF has
            <4>1. old \in Nat /\ had \in Nat /\ early \in Nat /\ old <= had + early
                BY <1>3
            <4>2. has \in Nat /\ early' \in {early, early + 1}
                BY <3>5 DEF has
            <4>3. had <= has + IF Head(sent) > a THEN 1 ELSE 0
                BY <3>2 DEF has
            <4>4. CASE Head(sent) > a
                <5>1. early' = early + 1 /\ had <= has + 1
                    BY <3>4, <4>3, <4>4
                <5>2. \A x, y, z, w \in Nat : x <= y + w /\ y <= z + 1 => x <= z + (w + 1)
                    OBVIOUS
                <5> QED
                    BY <4>1, <4>2, <5>1, <5>2
            <4>5. CASE ~(Head(sent) > a)
                <5>1. had <= has + 0
                    BY <4>3, <4>5
                <5>2. \A x, y, z, w, v \in Nat : x <= y + w /\ y <= z + 0 /\ v \in {w, w + 1} => x <= z + v
                    OBVIOUS
                <5>3. early' \in Nat
                    BY <4>1, <4>2
                <5> QED
                    BY <4>1, <4>2, <5>1, <5>2, <5>3
            <4> QED
                BY <4>4, <4>5
        <3> QED
            BY <2>1, <3>6 DEF old
    <2> QED
        BY <2>2, <2>3
<1>7. ASSUME NEW t \in Threads, Admit(t)
      PROVE  Cardinality(PassedAfter(a)') <= Cardinality(SentAfter(sent', a)) + early'
    <2> DEFINE p == <<work[t].item, work[t].at, Of(t).severity>>
    <2>1. work[t].at \in Times /\ p[2] = work[t].at
        BY <1>7 DEF Admit, Types, WorkTypes
    <2>2. sent' = Append(sent, work[t].at) /\ passed' = passed \cup {p} /\ early' = early
        BY <1>7 DEF Admit
    <2>3. Cardinality(SentAfter(sent', a)) = had + IF work[t].at > a THEN 1 ELSE 0
        BY <1>3, <2>1, <2>2, SentAfterAppend
    <2>4. CASE work[t].at > a
        <3>1. PassedAfter(a)' = PassedAfter(a) \cup {p}
            BY <2>1, <2>2, <2>4 DEF PassedAfter
        <3>2. Cardinality(PassedAfter(a)') <= old + 1
            <4>1. Cardinality(PassedAfter(a) \cup {p}) =
                      IF p \in PassedAfter(a) THEN old ELSE old + 1
                BY <1>3, FS_AddElement
            <4> HIDE DEF old, p
            <4> QED
                BY <1>3, <3>1, <4>1
        <3>3. Cardinality(PassedAfter(a)') \in Nat
            BY <1>3, <3>1, FS_AddElement, FS_CardinalityType
        <3> QED
            BY <1>3, <2>2, <2>3, <2>4, <3>2, <3>3
    <2>5. CASE ~(work[t].at > a)
        <3>1. PassedAfter(a)' = PassedAfter(a)
            BY <2>1, <2>2, <2>5 DEF PassedAfter
        <3> QED
            BY <1>3, <2>2, <2>3, <2>5, <3>1
    <2> QED
        BY <2>4, <2>5
<1>8. CASE UNCHANGED gate
    <2>1. PassedAfter(a)' = PassedAfter(a) /\ sent' = sent /\ early' = early
        BY <1>8 DEF gate, PassedAfter
    <2> QED
        BY <1>3, <2>1
<1> QED
    BY <1>4, <1>5, <1>6, <1>7, <1>8, GateStep

LEMMA AppendsType ==
    ASSUME NEW t, NEW ss
    PROVE  Appends(t, ss) \in {0, 1}
BY DEF Appends

\* Only the check lets a thread append, with room in the deque at that moment.
LEMMA WhoAppends ==
    ASSUME Types, [Next]_vars, NEW u \in Threads, work'[u].pc = "append"
    PROVE  \/ work[u].pc = "append" /\ work'[u] = work[u]
           \/ /\ Len(sent) < Cap(Of(u).severity) /\ work[u].pc = "check"
              /\ work'[u].item = work[u].item
              /\ UNCHANGED <<now, gate>>
<1> USE DEF Types, WorkTypes, Threads
<1>1. CASE ReadLine
    BY <1>1 DEF ReadLine, Handed
<1>2. CASE ReadEntry
    BY <1>2 DEF ReadEntry, Handed
<1>3. CASE SaveCursor
    BY <1>3 DEF SaveCursor, Rest
<1>4. CASE Crash
    BY <1>4 DEF Crash, Rest
<1>5. ASSUME NEW t \in Threads, Offer(t)
      PROVE  \/ work[u].pc = "append" /\ work'[u] = work[u]
             \/ /\ Len(sent) < Cap(Of(u).severity) /\ work[u].pc = "check"
                /\ work'[u].item = work[u].item
                /\ UNCHANGED <<now, gate>>
    <2>1. ASSUME NEW x, Goes(t, x)
          PROVE  /\ work'[t].pc = x /\ work'[t].item = work[t].item
                 /\ u # t => work'[u] = work[u]
        BY <2>1 DEF Goes
    <2>2. Ends(t) => /\ work'[t].pc \in {"mark", "idle"}
                     /\ u # t => work'[u] = work[u]
        BY DEF Ends, Finished, Rest
    <2> DEFINE Goal == \/ work[u].pc = "append" /\ work'[u] = work[u]
                       \/ /\ Len(sent) < Cap(Of(u).severity) /\ work[u].pc = "check"
                          /\ work'[u].item = work[u].item
                          /\ UNCHANGED <<now, gate>>
    <2>9. Ends(t) => Goal
        BY <2>2
    <2>10. ASSUME NEW x, Goes(t, x), x # "append"
           PROVE  Goal
        BY <2>1, <2>10
    <2> HIDE DEF Goal
    <2>3. Look(t) => Goal
        BY <2>9, <2>10 DEF Look
    <2>4. Expire(t) => Goal
        BY <2>10 DEF Expire
    <2>5. Pop(t) => Goal
        BY <2>9, <2>10 DEF Pop
    <2>6. ASSUME Check(t)
          PROVE  Goal
        <3>1. CASE Len(sent) >= Cap(Of(t).severity)
            BY <2>9, <2>6, <3>1 DEF Check
        <3>2. CASE ~(Len(sent) >= Cap(Of(t).severity))
            <4>1. Of(t).severity \in Severities
                BY <2>6, Constants DEF Check, Of, PayloadFields, Severities, Source, Items
            <4>2. Cap(Of(t).severity) \in Nat /\ Len(sent) \in Nat
                BY <4>1, Constants DEF Cap, GateTypes
            <4>3. Len(sent) < Cap(Of(t).severity)
                BY <3>2, <4>2
            <4>4. Goes(t, "append") /\ UNCHANGED <<now, gate>> /\ work[t].pc = "check"
                BY <2>6, <3>2 DEF Check
            <4>5. CASE u = t
                BY <2>1, <4>3, <4>4, <4>5 DEF Goal
            <4>6. CASE u # t
                BY <2>1, <4>4, <4>6 DEF Goal
            <4> QED
                BY <4>5, <4>6
        <3> QED
            BY <3>1, <3>2
    <2>7. Admit(t) => Goal
        BY <2>10 DEF Admit
    <2>8. Enqueue(t) => Goal
        BY <2>9 DEF Enqueue
    <2>11. Goal
        BY <1>5, <2>3, <2>4, <2>5, <2>6, <2>7, <2>8 DEF Offer
    <2> QED
        BY <2>11 DEF Goal
<1>6. CASE UNCHANGED work
    BY <1>6
<1> QED
    BY <1>1, <1>2, <1>3, <1>4, <1>5, <1>6, WorkStep

LEMMA RecentlyBounded ==
    ASSUME Types, InDeque, NEW ss
    PROVE  /\ IsFiniteSet(Recently(ss)) /\ Cardinality(Recently(ss)) \in Nat
           /\ Cardinality(Recently(ss)) <= Len(sent) + early
<1> DEFINE a == now - HourTime
<1>1. now \in Int /\ HourTime \in Int /\ a \in Int
    BY Constants DEF Types, DiskTypes, Times
<1>2. \A p \in passed : p[2] \in Int
    BY DEF Types, GateTypes, Times
<1>3. PassedAfter(a) \in SUBSET passed /\ Recently(ss) \in SUBSET PassedAfter(a)
    BY <1>1, <1>2 DEF PassedAfter, Recently
<1>4. sent \in Seq(Times) /\ early \in Nat /\ Len(sent) \in Nat
    BY DEF Types, GateTypes
<1> DEFINE seen == Cardinality(PassedAfter(a))
           kept == Cardinality(SentAfter(sent, a))
           r    == Cardinality(Recently(ss))
<1>5. IsFiniteSet(PassedAfter(a)) /\ seen \in Nat
    BY <1>3, PassedType
<1>6. IsFiniteSet(Recently(ss)) /\ r <= seen /\ r \in Nat
    BY <1>3, <1>5, FS_Subset, FS_CardinalityType
<1>7. kept \in Nat /\ kept <= Len(sent)
    BY <1>1, <1>4, SentAfterType
<1>8. a >= now - HourTime
    BY <1>1
<1> HIDE DEF a
<1>9. seen <= kept + early
    BY <1>1, <1>8 DEF InDeque
<1> HIDE DEF seen, kept, r
<1>10. r <= Len(sent) + early
    BY <1>4, <1>5, <1>6, <1>7, <1>9
<1> QED
    BY <1>6, <1>10 DEF r

\* What passed recently grows by what a thread appends only.
LEMMA RecentlyStep ==
    ASSUME Types, InDeque, [Next]_vars, NEW ss
    PROVE  \/ /\ Cardinality(Recently(ss)') <= Cardinality(Recently(ss))
              /\ early <= early'
           \/ /\ Cardinality(Recently(ss)') <= Cardinality(Recently(ss)) + 1
              /\ early' = early
              /\ \E t \in Threads :
                    /\ Appends(t, ss) = 1 /\ Appends(t, ss)' = 0
                    /\ \A u \in Threads : u # t => work'[u] = work[u]
           \/ Crash
<1>1. IsFiniteSet(Recently(ss)) /\ Cardinality(Recently(ss)) \in Nat /\ early \in Nat
    BY RecentlyBounded DEF Types, GateTypes
<1>2. now \in Int /\ now' \in Int /\ HourTime \in Int /\ now <= now'
    BY KeepsDisk, KeepsTypes, Constants DEF Types, DiskTypes, Times
<1>3. \A p \in passed : p[2] \in Int
    BY DEF Types, GateTypes, Times
<1>4. \A p \in passed : now' - p[2] < HourTime => now - p[2] < HourTime
    <2>1. \A x, y, h, b \in Int : x <= y /\ y - b < h => x - b < h
        OBVIOUS
    <2> QED
        BY <1>2, <1>3, <2>1
<1>5. ASSUME passed' = passed
      PROVE  Cardinality(Recently(ss)') <= Cardinality(Recently(ss))
    <2>1. Recently(ss)' \in SUBSET Recently(ss)
        BY <1>4, <1>5 DEF Recently
    <2> QED
        BY <1>1, <2>1, FS_Subset
<1>6. ASSUME NEW t \in Threads, Look(t)
      PROVE  passed' = passed /\ early <= early'
    BY <1>1, <1>6 DEF Look
<1>7. ASSUME NEW t \in Threads, Pop(t)
      PROVE  passed' = passed /\ early <= early'
    <2>1. passed' = passed /\ early' \in {early, early + 1}
        BY <1>7 DEF Pop
    <2> QED
        BY <1>1, <2>1
<1>8. CASE UNCHANGED gate
    <2>1. passed' = passed /\ early' = early
        BY <1>8 DEF gate
    <2> QED
        BY <1>1, <1>5, <2>1
<1>9. ASSUME NEW t \in Threads, Admit(t)
      PROVE  \/ /\ Cardinality(Recently(ss)') <= Cardinality(Recently(ss))
                /\ early <= early'
             \/ /\ Cardinality(Recently(ss)') <= Cardinality(Recently(ss)) + 1
                /\ early' = early
                /\ Appends(t, ss) = 1 /\ Appends(t, ss)' = 0
                /\ \A u \in Threads : u # t => work'[u] = work[u]
    <2> DEFINE p == <<work[t].item, work[t].at, Of(t).severity>>
    <2>1. /\ passed' = passed \cup {p} /\ early' = early /\ now' = now
          /\ work' = [work EXCEPT ![t].pc = "enqueue"] /\ work[t].pc = "append"
        BY <1>9 DEF Admit, Goes
    <2>2. p[3] = Of(t).severity
        OBVIOUS
    <2>3. CASE Of(t).severity \in ss
        <3>1. Appends(t, ss) = 1
            BY <2>1, <2>3 DEF Appends
        <3>2. Appends(t, ss)' = 0 /\ \A u \in Threads : u # t => work'[u] = work[u]
            BY <2>1 DEF Appends, Types, WorkTypes
        <3>3. Recently(ss)' \in SUBSET (Recently(ss) \cup {p})
            BY <2>1 DEF Recently
        <3> DEFINE more == Recently(ss) \cup {p}
        <3>4. IsFiniteSet(more) /\ Cardinality(more) <= Cardinality(Recently(ss)) + 1
            <4>1. Cardinality(more) = IF p \in Recently(ss) THEN Cardinality(Recently(ss))
                                      ELSE Cardinality(Recently(ss)) + 1
                BY <1>1, FS_AddElement
            <4>2. IsFiniteSet(more)
                BY <1>1, FS_AddElement
            <4> HIDE DEF more, p
            <4> QED
                BY <1>1, <4>1, <4>2
        <3>5. Cardinality(Recently(ss)') <= Cardinality(more) /\ IsFiniteSet(Recently(ss)')
            BY <3>3, <3>4, FS_Subset
        <3>6. Cardinality(Recently(ss)') \in Nat /\ Cardinality(more) \in Nat
            BY <3>4, <3>5, FS_CardinalityType
        <3> HIDE DEF more, p
        <3>7. Cardinality(Recently(ss)') <= Cardinality(Recently(ss)) + 1
            BY <1>1, <3>4, <3>5, <3>6
        <3> QED
            BY <2>1, <3>1, <3>2, <3>7
    <2>4. CASE Of(t).severity \notin ss
        <3>1. Recently(ss)' = Recently(ss)
            BY <2>1, <2>2, <2>4 DEF Recently
        <3> QED
            BY <1>1, <2>1, <3>1
    <2> QED
        BY <2>3, <2>4
<1> QED
    BY <1>5, <1>6, <1>7, <1>8, <1>9, GateStep

LEMMA KeepsRoomFor ==
    ASSUME Types, InDeque, [Next]_vars, NEW ss \in SUBSET Severities, NEW cap \in Nat,
           \A severity \in ss : Cap(severity) <= cap, RoomFor(ss, cap)
    PROVE  RoomFor(ss, cap)'
<1> DEFINE r  == Cardinality(Recently(ss))
           rn == Cardinality(Recently(ss)')
           App(t) == Appends(t, ss)
<1>1. /\ r \in Nat /\ rn \in Nat /\ early \in Nat /\ early' \in Nat /\ Len(sent) \in Nat
      /\ r <= Len(sent) + early
    <2>1. Types' /\ InDeque'
        BY KeepsTypes, KeepsInDeque
    <2>2. Cardinality(Recently(ss)') \in Nat
        <3>1. IsFiniteSet(passed') /\ Recently(ss)' \in SUBSET passed'
            BY <2>1 DEF Types, GateTypes, Recently
        <3> QED
            BY <3>1, FS_Subset, FS_CardinalityType
    <2> QED
        BY <2>1, <2>2, RecentlyBounded DEF Types, GateTypes
<1>2. \A t \in Threads : App(t) \in {0, 1} /\ App(t)' \in {0, 1}
    BY DEF Appends
<1>3. r + (App("file") + App("journal")) <= cap + (1 + early)
    BY DEF RoomFor, Owed
<1>4. SUFFICES rn + (App("file")' + App("journal")') <= cap + (1 + early')
    BY DEF RoomFor, Owed
<1>5. CASE \E u \in Threads : ~(App(u)' <= App(u))
    <2>1. PICK u \in Threads : App(u) = 0 /\ App(u)' = 1
        BY <1>2, <1>5
    <2>2. work'[u].pc = "append" /\ Of(u)'.severity \in ss
        BY <2>1 DEF Appends
    <2>3. work[u].pc # "append" \/ work'[u] # work[u]
        BY <2>1, <2>2 DEF Appends, Of
    <2>4. /\ Len(sent) < Cap(Of(u).severity) /\ work'[u].item = work[u].item
          /\ UNCHANGED <<now, gate>>
        BY <2>2, <2>3, WhoAppends
    <2>5. Of(u).severity \in ss
        BY <2>2, <2>4 DEF Of
    <2>6. Cap(Of(u).severity) \in Nat /\ Cap(Of(u).severity) <= cap
        BY <2>5, Constants DEF Cap
    <2>7. rn = r /\ early' = early
        BY <2>4 DEF Recently, gate
    <2>8. App("file")' + App("journal")' <= 2 /\ App("file")' + App("journal")' \in Nat
        BY <1>2 DEF Threads
    <2>9. Len(sent) < cap
        BY <1>1, <2>4, <2>6
    <2>10. \A a, b, c, d, e \in Nat : a <= b + c /\ b < d /\ e <= 2 => a + e <= d + (1 + c)
        OBVIOUS
    <2> HIDE DEF r, rn, App
    <2> QED
        BY <1>1, <2>7, <2>8, <2>9, <2>10
<1>6. CASE \A u \in Threads : App(u)' <= App(u)
    <2> DEFINE af == App("file")
               aj == App("journal")
               bf == App("file")'
               bj == App("journal")'
    <2>1. /\ af \in {0, 1} /\ aj \in {0, 1} /\ bf \in {0, 1} /\ bj \in {0, 1}
          /\ bf <= af /\ bj <= aj
        BY <1>2, <1>6 DEF Threads
    <2>2. CASE rn <= r /\ early <= early'
        <3> HIDE DEF r, rn, af, aj, bf, bj
        <3>1. \A x, y, z, w, v, c \in Nat : x <= y /\ v <= w /\ y + w <= c + (1 + z) => x + v <= c + (1 + z)
            OBVIOUS
        <3>2. \A x, y, z, c \in Nat : x <= c + (1 + y) /\ y <= z => x <= c + (1 + z)
            OBVIOUS
        <3>3. bf + bj <= af + aj /\ bf + bj \in Nat /\ af + aj \in Nat
            BY <2>1
        <3>4. r + (af + aj) <= cap + (1 + early)
            BY <1>3 DEF r, af, aj
        <3>5. rn + (bf + bj) <= cap + (1 + early)
            BY <1>1, <2>2, <3>1, <3>3, <3>4
        <3>6. rn + (bf + bj) \in Nat
            BY <1>1, <3>3
        <3>7. rn + (bf + bj) <= cap + (1 + early')
            BY <1>1, <2>2, <3>2, <3>5, <3>6
        <3> QED
            BY <3>7 DEF rn, bf, bj
    <2>3. CASE rn <= r + 1 /\ early' = early /\ \E t \in Threads :
                    /\ App(t) = 1 /\ App(t)' = 0
                    /\ \A u \in Threads : u # t => work'[u] = work[u]
        <3>1. bf + bj + 1 <= af + aj
            BY <2>1, <2>3 DEF Threads
        <3> HIDE DEF r, rn, af, aj, bf, bj
        <3>2. \A x, y, z, w, v, c \in Nat : x <= y + 1 /\ v + 1 <= w /\ y + w <= c + (1 + z) => x + v <= c + (1 + z)
            OBVIOUS
        <3>3. bf + bj \in Nat /\ af + aj \in Nat
            BY <2>1
        <3>4. r + (af + aj) <= cap + (1 + early)
            BY <1>3 DEF r, af, aj
        <3>5. rn + (bf + bj) <= cap + (1 + early')
            BY <1>1, <2>3, <3>1, <3>2, <3>3, <3>4
        <3> QED
            BY <3>5 DEF rn, bf, bj
    <2>4. CASE Crash
        <3>1. Recently(ss)' = {} /\ early' = 0 /\ bf = 0 /\ bj = 0
            BY <2>4 DEF Crash, Recently, Appends, Rest, Threads
        <3>2. rn = 0
            BY <3>1, FS_EmptySet
        <3> QED
            BY <3>1, <3>2
    <2>5. \/ rn <= r /\ early <= early'
          \/ rn <= r + 1 /\ early' = early /\ \E t \in Threads :
                    /\ App(t) = 1 /\ App(t)' = 0
                    /\ \A u \in Threads : u # t => work'[u] = work[u]
          \/ Crash
        BY RecentlyStep
    <2> QED
        BY <2>2, <2>3, <2>4, <2>5
<1> QED
    BY <1>5, <1>6

LEMMA KeepsRoom ==
    ASSUME Types, InDeque, Room, [Next]_vars
    PROVE  Room'
<1>1. PerHour \in Nat /\ InfoCap \in Nat /\ InfoCap <= PerHour
    BY Constants
<1>2. \A severity \in Severities : Cap(severity) <= PerHour
    BY <1>1 DEF Cap
<1>3. \A severity \in {"INFO"} : Cap(severity) <= InfoCap
    BY <1>1 DEF Cap
<1>4. {"INFO"} \in SUBSET Severities /\ Severities \in SUBSET Severities
    BY DEF Severities
<1>5. RoomFor(Severities, PerHour)'
    BY <1>1, <1>2, <1>4, KeepsRoomFor DEF Room
<1>6. RoomFor({"INFO"}, InfoCap)'
    BY <1>1, <1>3, <1>4, KeepsRoomFor DEF Room
<1> QED
    BY <1>5, <1>6 DEF Room

\* The two threads share the deque of the gate without a lock: they let through one line more
\* than RATE_PER_HOUR and than the share of INFO, and one more for each pop of the other's
\* time that came too early; not two, whatever their steps (Gate.admit).
THEOREM CapWithoutLock == Spec => []WarningsHaveRoom
<1> DEFINE Inv == Types /\ InDeque /\ Room
<1>1. Init => Inv
    <2> SUFFICES ASSUME Init
                 PROVE  Inv
        OBVIOUS
    <2>1. Types
        BY InitTypes
    <2>2. passed = {} /\ sent = <<>> /\ early = 0
        BY DEF Init
    <2>3. \A a \in Int : PassedAfter(a) = {} /\ SentAfter(sent, a) = {}
        BY <2>2 DEF PassedAfter, SentAfter
    <2>4. InDeque
        BY <2>2, <2>3, FS_EmptySet DEF InDeque
    <2>5. \A ss : Recently(ss) = {} /\ Owed(ss) = 0
        BY <2>2 DEF Recently, Owed, Appends, Init, Rest, Threads
    <2>6. Cardinality({}) = 0 /\ \A c \in Nat : 0 + 0 <= c + (1 + 0)
        BY FS_EmptySet
    <2>7. \A ss, c : c \in Nat => RoomFor(ss, c)
        BY <2>2, <2>5, <2>6 DEF RoomFor
    <2>8. Room
        BY <2>7, Constants DEF Room
    <2> QED
        BY <2>1, <2>4, <2>8
<1>2. Inv /\ [Next]_vars => Inv'
    BY KeepsTypes, KeepsInDeque, KeepsRoom
<1>3. Inv => WarningsHaveRoom
    <2> SUFFICES ASSUME Inv
                 PROVE  WarningsHaveRoom
        OBVIOUS
    <2>1. Cardinality(Threads) = 2
        <3>1. IsFiniteSet({"file"}) /\ Cardinality({"file"}) = 1
            BY FS_Singleton
        <3>2. Cardinality({"file"} \cup {"journal"}) = 1 + 1
            BY <3>1, FS_AddElement
        <3>3. Threads = {"file"} \cup {"journal"}
            BY DEF Threads
        <3> QED
            BY <3>2, <3>3
    <2>2. \A ss : Cardinality(Recently(ss)) \in Nat /\ Owed(ss) \in Nat
        BY RecentlyBounded DEF Owed, Appends
    <2>3. early \in Nat /\ PerHour \in Nat /\ InfoCap \in Nat
        BY Constants DEF Types, GateTypes
    <2>4. \A x, y, c, e \in Nat : x + y <= c + (1 + e) => x <= c + (2 - 1 + e)
        OBVIOUS
    <2> QED
        BY <2>1, <2>2, <2>3, <2>4 DEF Room, RoomFor, WarningsHaveRoom, Severities
<1> QED
    BY <1>1, <1>2, <1>3, PTL DEF Spec
==============================================================================
