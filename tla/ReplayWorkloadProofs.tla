------------------------- MODULE ReplayWorkloadProofs -------------------------
(* What is proved about the extraction of a workload and its preparation, for *)
(* any clients, texts, ranges and filters, and any number of sessions,        *)
(* statements, files and faults.                                              *)
EXTENDS ReplayWorkload, SequenceTheorems, WellFoundedInduction, TLAPS

---------------------------------------------------------------------------
(* The inductive invariant.                                                *)

Sessions == [key : Keys, from : Nat \ {0}, to : Nat]
Records == [session : Nat, key : Keys, xid : Nat, text : Texts, time : Nat]
Lines == [event : {"initiating session", "disconnecting session"}, session : Nat]
EntryTexts == [word : Words \cup {"comment"}, lower : BOOLEAN, ended : BOOLEAN,
               comment : Nat, name : Nat]
Entry == [id : Nat, text : EntryTexts]

Unread == phase \in {"cluster", "connectionlog"}
Saved == phase \in {"saved", "matching", "failed", "done"}
Loaded == phase \in {"matching", "failed", "done"}

Types ==
  /\ phase \in {"cluster", "connectionlog", "useractivitylog", "exited", "saved",
                "matching", "failed", "done"}
  /\ range \in [start : 0..MaxTime, end : 0..MaxTime, since : 0..MaxTime] /\ clock \in Nat \ {0}
  /\ sessions \in Seq(Sessions) /\ history \in Seq(Records) /\ connectionlog \in Seq(Lines)
  /\ activitylog \in Seq(Seq(Nat)) \ {<<>>} /\ faults \in Nat
  /\ Len(history) <= MaxStatements
  /\ lines \in 0..Len(connectionlog) /\ file \in 1..(Len(activitylog) + 1) /\ entry \in Nat \ {0}
  /\ DOMAIN logs \subseteq Nat \X Nat
  /\ \A n \in DOMAIN logs : logs[n] \in Seq(Entry) \ {<<>>}
  /\ DOMAIN connections \subseteq Keys \X Nat /\ DOMAIN lastconnections \subseteq Keys

\* Where each phase stands: nothing is parsed before the cluster has stopped,
\* and nothing is saved before all of it is parsed.
PhaseInv ==
  /\ phase = "cluster" => /\ lines = 0 /\ connections = <<>> /\ lastconnections = <<>>
                          /\ range = [start |-> Unset, end |-> Unset, since |-> Unset]
  /\ phase # "cluster" => range \in Ranges /\ clock = MaxTime
  /\ Unread => file = 1 /\ entry = 1 /\ logs = <<>>
  /\ ~Unread => lines = Len(connectionlog)
  /\ Saved => file > Len(activitylog)

\* A session of a client begins in a later second than the one before ended.
SessionsInv ==
  /\ \A s \in DOMAIN sessions :
       /\ sessions[s].from <= clock
       /\ Closed(sessions[s]) => sessions[s].from <= sessions[s].to /\ sessions[s].to <= clock
  /\ \A r, s \in DOMAIN sessions :
       r < s /\ sessions[r].key = sessions[s].key =>
         Closed(sessions[r]) /\ Second(sessions[r].to) < Second(sessions[s].from)

\* A statement runs within its session; a transaction belongs to one session,
\* and those of a session follow each other in the order of their ids.
HistoryInv ==
  /\ \A i \in DOMAIN history :
       /\ history[i].session \in DOMAIN sessions
       /\ history[i].key = sessions[history[i].session].key
       /\ sessions[history[i].session].from <= history[i].time /\ history[i].time <= clock
       /\ Closed(sessions[history[i].session]) =>
            history[i].time <= sessions[history[i].session].to
       /\ FirstXid <= XidOf(i) /\ XidOf(i) < FirstXid + i
  /\ \A i, j \in DOMAIN history :
       /\ XidOf(i) = XidOf(j) => history[i].session = history[j].session
       /\ i < j => /\ history[i].time <= history[j].time
                   /\ history[i].session = history[j].session => XidOf(i) <= XidOf(j)

Begins(line) == line.event = "initiating session"
Ends(line) == line.event = "disconnecting session"

\* The connection log has the beginning of every session, before its end and
\* after all of the sessions of the client before it.
LinesInv ==
  /\ \A l \in DOMAIN connectionlog :
       /\ connectionlog[l].session \in DOMAIN sessions
       /\ Ends(connectionlog[l]) =>
            /\ Closed(sessions[connectionlog[l].session])
            /\ \E k \in 1..(l-1) : /\ Begins(connectionlog[k])
                                   /\ connectionlog[k].session = connectionlog[l].session
  /\ \A s \in DOMAIN sessions : \E l \in DOMAIN connectionlog :
       Begins(connectionlog[l]) /\ connectionlog[l].session = s
  /\ \A k, l \in DOMAIN connectionlog :
       /\ connectionlog[k].session < connectionlog[l].session
       /\ sessions[connectionlog[k].session].key = sessions[connectionlog[l].session].key
       => k < l

\* The activity log has statements in the order of their execution.
FilesInv ==
  /\ \A f \in DOMAIN activitylog : \A e \in DOMAIN activitylog[f] :
       activitylog[f][e] \in DOMAIN history
  /\ \A f, g \in DOMAIN activitylog :
       \A e \in DOMAIN activitylog[f], d \in DOMAIN activitylog[g] :
         f < g \/ (f = g /\ e <= d) => activitylog[f][e] <= activitylog[g][d]

\* The connection a session should have, and the lines that tell of it.
Of(l) == sessions[connectionlog[l].session]
Connection(s) == <<s.key, IF InRange(s.from) THEN s.from ELSE range.start>>
IsKept(l) == IF Begins(connectionlog[l])
             THEN InRange(Of(l).from) ELSE InRange(Of(l).to)

\* Each line writes the connection of its own session; the last connection of a
\* client is the one of its latest session; and the connections that no line
\* tells of are those of clients without a line.
ConnectionsInv ==
  /\ \A l \in 1..lines : IsKept(l) =>
       Connection(Of(l)) \in DOMAIN connections /\ Of(l).key \in DOMAIN lastconnections
  /\ \A k \in DOMAIN lastconnections : \E l \in 1..lines :
       /\ IsKept(l) /\ Of(l).key = k /\ lastconnections[k] = Connection(Of(l))
       /\ \A m \in 1..lines : IsKept(m) /\ Of(m).key = k =>
            connectionlog[m].session <= connectionlog[l].session
  /\ \A c \in DOMAIN connections :
       \/ /\ \E l \in 1..lines : IsKept(l) /\ c = Connection(Of(l))
          /\ \/ connections[c] = range.end
             \/ \E l \in 1..lines : /\ IsKept(l) /\ c = Connection(Of(l))
                                    /\ Ends(connectionlog[l])
                                    /\ connections[c] = Of(l).to
       \/ Saved /\ c[1] \in Missing /\ c[2] = range.start /\ connections[c] = range.end
  /\ Saved => \A k \in Missing : <<k, range.start>> \in DOMAIN connections

Name(i) == <<XidOf(i), RecordTime(i)>>
IsRead(f, e) == f < file \/ (f = file /\ e < entry)

\* The text an entry has for a statement of this text.
Stands(e, t) == e = t \/ (t.word = "fetch" /\ e = Silent(t))

\* Entries are kept under the name of their statement, in the order of
\* execution; what was stored twice is a comment or a text whose repetition is
\* not recognised, and a comment stands behind a FETCH.
EntryInv(n, x) ==
  /\ x.id \in DOMAIN history /\ n = Name(x.id) /\ IsValidLog(x.id)
  /\ Stands(x.text, history[x.id].text)
RunsAgain(text) == text.word = "comment" \/ Unrecognised(text)
InOrder(q) == \A k, l \in DOMAIN q : k < l =>
  q[k].id <= q[l].id /\ (q[k].id = q[l].id => RunsAgain(q[l].text))
AfterFetch(q) == \A k \in DOMAIN q : q[k].text.word = "comment" =>
  \E l \in DOMAIN q : l < k /\ q[l].text.word = "fetch"
EntriesInv ==
  /\ \A n \in DOMAIN logs : \A k \in DOMAIN logs[n] :
       /\ EntryInv(n, logs[n][k])
       /\ \A f \in DOMAIN activitylog : \A e \in DOMAIN activitylog[f] :
            ~IsRead(f, e) => logs[n][k].id <= activitylog[f][e]
  /\ \A n \in DOMAIN logs : InOrder(logs[n]) /\ AfterFetch(logs[n])

\* Of what was read, only repetitions are not kept.
KeptInv ==
  \A f \in DOMAIN activitylog : \A e \in DOMAIN activitylog[f] :
    IsRead(f, e) /\ e < Len(activitylog[f]) /\ IsValidLog(activitylog[f][e]) =>
      /\ Name(activitylog[f][e]) \in DOMAIN logs
      /\ \/ SaysTheSame(activitylog[f][e])
         \/ \E k \in DOMAIN logs[Name(activitylog[f][e])] :
              logs[Name(activitylog[f][e])][k].id = activitylog[f][e]

\* The connections that begin no later than a transaction.
Candidates(x) == {c \in DOMAIN connections : c[1] = KeyOfXid(x) /\ Second(c[2]) <= StartTime(x)}
Selected == {x \in ExtractedXids : KeyOfXid(x) \in selected}

\* A transaction is given to the latest of its candidates, after the
\* transactions before it and to no other connection.
Given ==
  /\ \A c \in DOMAIN replayed : replayed[c] \in Seq(Selected \ unmatched)
  /\ \A c \in DOMAIN replayed : \A n \in DOMAIN replayed[c] :
       /\ c \in Candidates(replayed[c][n])
       /\ \A d \in Candidates(replayed[c][n]) : d[2] <= c[2]
       /\ \A x \in unmatched : Before(replayed[c][n], x)
       /\ \A m \in 1..(n-1) : Before(replayed[c][m], replayed[c][n])
  /\ \A c, d \in DOMAIN replayed : \A m \in DOMAIN replayed[c], n \in DOMAIN replayed[d] :
       replayed[c][m] = replayed[d][n] => c = d /\ m = n
  /\ \A x \in Selected \ unmatched : Candidates(x) # {} =>
       \E c \in DOMAIN replayed : \E n \in DOMAIN replayed[c] : replayed[c][n] = x

MatchInv ==
  /\ ~Loaded => selected = {} /\ unmatched = {} /\ replayed = <<>>
  /\ Loaded =>
       /\ selected \subseteq Keys /\ unmatched \subseteq Selected
       /\ \A c \in DOMAIN replayed : c \in DOMAIN connections /\ c[1] \in selected
       /\ phase # "done" =>
            \A c \in DOMAIN connections : c[1] \in selected => c \in DOMAIN replayed
       /\ phase = "done" => unmatched = {}
       /\ Given

ClusterInv == Types /\ PhaseInv /\ SessionsInv /\ HistoryInv /\ LinesInv /\ FilesInv
Inv == ClusterInv /\ ConnectionsInv /\ EntriesInv /\ KeptInv /\ MatchInv

---------------------------------------------------------------------------
(* Numbers and seconds.                                                    *)

\* A set of natural numbers that is not empty has a least element.
LEMMA LeastNat ==
  ASSUME NEW T \in SUBSET Nat, T # {}
  PROVE  \E n \in T : \A m \in T : n <= m
<1>1. PICK n \in T : \A m \in T : ~(<<m, n>> \in OpToRel(<, Nat))
  BY WFMin, NatLessThanWellFounded
<1>2. \A m \in T : ~(m < n)
  BY <1>1 DEF OpToRel
<1>3. QED
  BY <1>2

\* Multiplication by a number keeps the order.
LEMMA ProductFact ==
  ASSUME NEW a \in Int, NEW b \in Int, NEW c \in Nat, a <= b
  PROVE  c * a <= c * b
OBVIOUS

\* A time is cut to its second: no later, and in the order of the times.
LEMMA SecondFact ==
  ASSUME NEW t \in Nat
  PROVE  Second(t) \in Nat /\ Second(t) <= t /\ Second(Second(t)) = Second(t)
<1>1. Second(t) \in Nat /\ Second(t) <= t
  BY ExtractAssumption DEF Second
<1>2. Second(Second(t)) = Second(t)
  BY ExtractAssumption DEF Second
<1>3. QED
  BY <1>1, <1>2

\* Of two times, the later has no earlier second.
LEMMA SecondOrder ==
  ASSUME NEW t \in Nat, NEW u \in Nat, t <= u
  PROVE  Second(t) <= Second(u)
<1> DEFINE T == TicksPerSecond
           a == t \div T
           b == u \div T
<1>1. T \in Nat /\ T > 0
  BY ExtractAssumption
<1>2. t % T = t - T * a /\ u % T = u - T * b
  BY <1>1
<1>3. a \in Nat /\ b \in Nat /\ a <= b
  BY <1>1
<1>4. T * a <= T * b
  <2> HIDE DEF a, b, T
  <2>1. QED
    BY <1>1, <1>3, ProductFact
<1>5. QED
  BY <1>1, <1>2, <1>4 DEF Second

\* An element of a sequence, and its index.
LEMMA ElementFact ==
  ASSUME NEW S, NEW q \in Seq(S), NEW i \in DOMAIN q
  PROVE  q[i] \in S /\ i \in 1..Len(q) /\ i \in Nat \ {0}
OBVIOUS

\* What Append() does, element by element.
LEMMA AppendFact ==
  ASSUME NEW S, NEW q \in Seq(S), NEW e \in S
  PROVE  /\ Append(q, e) \in Seq(S) /\ Append(q, e) # <<>>
         /\ Len(Append(q, e)) = Len(q) + 1
         /\ DOMAIN Append(q, e) = DOMAIN q \cup {Len(q) + 1} /\ Len(q) + 1 \notin DOMAIN q
         /\ \A i \in DOMAIN q : Append(q, e)[i] = q[i]
         /\ Append(q, e)[Len(q) + 1] = e
OBVIOUS

\* Elements of the sequences, and their fields.
LEMMA SessionTypes ==
  ASSUME Types, NEW s \in DOMAIN sessions
  PROVE  /\ s \in 1..Len(sessions) /\ s \in Nat /\ sessions[s] \in Sessions
         /\ sessions[s] \in [key : Keys, from : Nat \ {0}, to : Nat]
         /\ sessions[s].key \in Keys /\ sessions[s].from \in Nat \ {0} /\ sessions[s].to \in Nat
<1>1. s \in 1..Len(sessions) /\ s \in Nat /\ sessions[s] \in Sessions
  BY ElementFact DEF Types
<1>2. QED
  BY <1>1 DEF Sessions

\* A record of the history, and its fields.
LEMMA RecordTypes ==
  ASSUME Types, NEW i \in DOMAIN history
  PROVE  /\ i \in 1..Len(history) /\ i \in Nat /\ history[i] \in Records
         /\ XidOf(i) \in Nat /\ history[i].session \in Nat /\ history[i].key \in Keys
         /\ history[i].time \in Nat /\ history[i].text \in Texts
         /\ RecordTime(i) \in Nat /\ RecordTime(i) <= history[i].time
<1>1. i \in 1..Len(history) /\ i \in Nat /\ history[i] \in Records
  BY ElementFact DEF Types
<1>2. /\ XidOf(i) \in Nat /\ history[i].session \in Nat /\ history[i].key \in Keys
      /\ history[i].time \in Nat /\ history[i].text \in Texts
  BY <1>1 DEF Records, XidOf
<1>3. QED
  BY <1>1, <1>2, SecondFact DEF RecordTime

\* A line of the connection log, and its fields.
LEMMA LineTypes ==
  ASSUME Types, NEW l \in DOMAIN connectionlog
  PROVE  /\ l \in 1..Len(connectionlog) /\ l \in Nat /\ connectionlog[l] \in Lines
         /\ connectionlog[l].event \in {"initiating session", "disconnecting session"}
         /\ connectionlog[l].session \in Nat
<1>1. l \in 1..Len(connectionlog) /\ l \in Nat /\ connectionlog[l] \in Lines
  BY ElementFact DEF Types
<1>2. QED
  BY <1>1 DEF Lines

\* A file of the activity log, and its entries.
LEMMA FileTypes ==
  ASSUME Types, NEW f \in DOMAIN activitylog
  PROVE  /\ f \in 1..Len(activitylog) /\ f \in Nat /\ activitylog[f] \in Seq(Nat)
         /\ \A e \in DOMAIN activitylog[f] :
              e \in 1..Len(activitylog[f]) /\ e \in Nat \ {0} /\ activitylog[f][e] \in Nat
<1>1. activitylog \in Seq(Seq(Nat))
  BY DEF Types
<1>2. f \in 1..Len(activitylog) /\ f \in Nat /\ activitylog[f] \in Seq(Nat)
  BY <1>1, ElementFact
<1>3. QED
  BY <1>2, ElementFact

\* The range has three times.
LEMMA RangeTypes ==
  ASSUME Types
  PROVE  range.start \in Nat /\ range.end \in Nat /\ range.since \in Nat
BY ExtractAssumption DEF Types

\* What is extracted begins with the range or with the logs, whichever is later.
Earliest == IF range.start <= range.since THEN range.since ELSE range.start
LEMMA RangeFact ==
  ASSUME Types, NEW t \in Nat
  PROVE  /\ Earliest \in Nat /\ range.start \in Nat /\ range.start <= Earliest
         /\ InRange(t) <=> Earliest <= t /\ (range.end = Unset \/ t <= range.end)
BY RangeTypes DEF Earliest, InRange, Unset

---------------------------------------------------------------------------
(* Steps.                                                                  *)

\* A step is one of the cluster, which leaves the rest alone, or one of the
\* extraction or of the loader, which leave the cluster alone.
ClusterStep == Cluster /\ UNCHANGED <<selected, unmatched, replayed>>
ExtractStep == Extract /\ UNCHANGED <<selected, unmatched, replayed>>
LoaderStep == Load \/ Prepared \/ \E x \in unmatched : Match(x) \/ MatchFails(x)

\* Every step is one of these.
LEMMA StepCases ==
  ASSUME [Next]_vars
  PROVE  ClusterStep \/ ExtractStep \/ LoaderStep \/ UNCHANGED vars
BY DEF Next, ClusterStep, ExtractStep, LoaderStep

\* The cluster leaves the state of the parsers and of the loader alone.
LEMMA ClusterFrame ==
  ASSUME ClusterStep
  PROVE  /\ phase = "cluster" /\ phase' = "cluster"
         /\ UNCHANGED <<range, lines, file, entry, logs, connections, lastconnections,
                        selected, unmatched, replayed>>
<1>1. ASSUME NEW k \in Keys, OpenSession(k)
      PROVE  phase = "cluster" /\ UNCHANGED <<phase, range, parsed>>
  BY <1>1 DEF OpenSession
<1>2. ASSUME NEW s \in DOMAIN sessions, Disconnect(s)
      PROVE  phase = "cluster" /\ UNCHANGED <<phase, range, parsed>>
  BY <1>2 DEF Disconnect
<1>3. ASSUME NEW s \in DOMAIN sessions, NEW text \in Texts, Execute(s, text)
      PROVE  phase = "cluster" /\ UNCHANGED <<phase, range, parsed>>
  BY <1>3 DEF Execute
<1>4. ASSUME LogAgain \/ Crash \/ NewFile \/ Tick
      PROVE  phase = "cluster" /\ UNCHANGED <<phase, range, parsed>>
  BY <1>4 DEF LogAgain, Crash, NewFile, Tick
<1>5. phase = "cluster" /\ UNCHANGED <<phase, range, parsed>>
  BY <1>1, <1>2, <1>3, <1>4 DEF ClusterStep, Cluster
<1>6. UNCHANGED <<selected, unmatched, replayed>>
  BY DEF ClusterStep
<1>7. QED
  BY <1>5, <1>6 DEF parsed

\* The parsers and the loader leave the cluster alone.
LEMMA OtherFrame ==
  ASSUME ExtractStep \/ LoaderStep \/ UNCHANGED vars
  PROVE  UNCHANGED <<clock, sessions, history, connectionlog, activitylog, faults>>
<1>1. UNCHANGED cluster
  <2>1. CASE ExtractStep
    BY <2>1 DEF ExtractStep, Extract, StartExtract, ParseConnectionLog, ConnectionLogRead,
                ParseUserActivityLog, NextActivityFile, NothingFound, SaveLogs
  <2>2. CASE LoaderStep
    BY <2>2 DEF LoaderStep, Load, Prepared, Match, MatchFails
  <2>3. CASE UNCHANGED vars
    BY <2>3 DEF vars, extractVars
  <2>4. QED
    BY <2>1, <2>2, <2>3
<1>2. QED
  BY <1>1 DEF cluster

---------------------------------------------------------------------------
(* The cluster.                                                            *)

\* What the invariant says of two sessions, one after the other.
LEMMA SessionsStep ==
  ASSUME Types, SessionsInv, [Next]_vars
  PROVE  SessionsInv'
<1> USE DEF SessionsInv, Closed, Sessions, Unset
<1>t. sessions \in Seq(Sessions) /\ clock \in Nat \ {0}
  BY DEF Types
<1>u. \A s \in DOMAIN sessions :
        s \in Nat /\ sessions[s] \in [key : Keys, from : Nat \ {0}, to : Nat]
  BY <1>t, ElementFact
<1>1. ASSUME NEW k \in Keys, OpenSession(k)
      PROVE  SessionsInv'
  <2>1. /\ sessions' = Append(sessions, [key |-> k, from |-> clock, to |-> Unset])
        /\ clock' = clock
        /\ \A s \in DOMAIN sessions : sessions[s].key = k =>
              Closed(sessions[s]) /\ Second(sessions[s].to) < Second(clock)
    BY <1>1 DEF OpenSession
  <2>2. /\ DOMAIN sessions' = 1..(Len(sessions) + 1) /\ DOMAIN sessions = 1..Len(sessions)
        /\ \A s \in DOMAIN sessions : sessions'[s] = sessions[s]
        /\ sessions'[Len(sessions) + 1] = [key |-> k, from |-> clock, to |-> Unset]
    BY <2>1, <1>t
  <2>3. QED
    BY <2>1, <2>2, <1>t, <1>u
<1>2. ASSUME NEW s \in DOMAIN sessions, Disconnect(s)
      PROVE  SessionsInv'
  <2>1. sessions' = [sessions EXCEPT ![s].to = clock] /\ clock' = clock /\ ~Closed(sessions[s])
    BY <1>2 DEF Disconnect
  <2>2. /\ DOMAIN sessions' = DOMAIN sessions
        /\ \A r \in DOMAIN sessions : 
             /\ sessions'[r].key = sessions[r].key /\ sessions'[r].from = sessions[r].from
             /\ r # s => sessions'[r].to = sessions[r].to
        /\ sessions'[s].to = clock
    <3>1. DOMAIN sessions' = DOMAIN sessions /\ \A r \in DOMAIN sessions :
             sessions'[r] = IF r = s THEN [sessions[s] EXCEPT !.to = clock] ELSE sessions[r]
      BY <2>1, <1>t
    <3>2. QED
      BY <3>1, <1>u
  <2>3. \A r \in DOMAIN sessions :
          /\ sessions'[r].from <= clock'
          /\ Closed(sessions'[r]) => sessions'[r].from <= sessions'[r].to /\ sessions'[r].to <= clock'
    BY <2>1, <2>2, <1>t, <1>u
  <2>4. ASSUME NEW r \in DOMAIN sessions, NEW q \in DOMAIN sessions, r < q,
               sessions'[r].key = sessions'[q].key
        PROVE  Closed(sessions'[r]) /\ Second(sessions'[r].to) < Second(sessions'[q].from)
    <3>1. Closed(sessions[r]) /\ Second(sessions[r].to) < Second(sessions[q].from)
      BY <2>2, <2>4
    <3>2. r # s
      BY <2>1, <3>1
    <3>3. QED
      BY <2>2, <3>1, <3>2
  <2>5. QED
    BY <2>2, <2>3, <2>4
<1>3. ASSUME Crash
      PROVE  SessionsInv'
  <2>1. /\ clock' = clock
        /\ sessions' = [s \in DOMAIN sessions |->
             IF Closed(sessions[s]) THEN sessions[s] ELSE [sessions[s] EXCEPT !.to = clock]]
    BY <1>3 DEF Crash
  <2>2. /\ DOMAIN sessions' = DOMAIN sessions
        /\ \A r \in DOMAIN sessions : 
             /\ sessions'[r].key = sessions[r].key /\ sessions'[r].from = sessions[r].from
             /\ sessions'[r].to = IF Closed(sessions[r]) THEN sessions[r].to ELSE clock
    BY <2>1, <1>t
  <2>3. \A r \in DOMAIN sessions : sessions'[r].from \in Nat /\ sessions'[r].to \in Nat \ {0}
    BY <2>2, <1>t, <1>u
  <2>4. \A r \in DOMAIN sessions :
          sessions'[r].from <= clock /\ sessions'[r].from <= sessions'[r].to /\ sessions'[r].to <= clock
    BY <2>2, <1>t, <1>u
  <2>5. \A r, s \in DOMAIN sessions :
          r < s /\ sessions'[r].key = sessions'[s].key =>
             Second(sessions'[r].to) < Second(sessions'[s].from)
    BY <2>2
  <2>6. QED
    BY <2>1, <2>2, <2>3, <2>4, <2>5
<1>4. ASSUME Tick
      PROVE  SessionsInv'
  BY <1>4, <1>t, <1>u DEF Tick
<1>5. ASSUME \/ \E s \in DOMAIN sessions : \E text \in Texts : Execute(s, text)
             \/ LogAgain \/ NewFile \/ ExtractStep \/ LoaderStep \/ UNCHANGED vars
      PROVE  SessionsInv'
  <2>1. UNCHANGED <<sessions, clock>>
    BY <1>5, OtherFrame DEF Execute, LogAgain, NewFile
  <2>2. QED
    BY <2>1
<1>6. QED
  BY <1>1, <1>2, <1>3, <1>4, <1>5, StepCases DEF ClusterStep, Cluster

\* A session keeps its client and its beginning, and ends once, at that time.
LEMMA SessionsChange ==
  ASSUME Types, [Next]_vars
  PROVE  /\ sessions' \in Seq(Sessions) /\ clock' \in Nat \ {0} /\ clock <= clock'
         /\ DOMAIN sessions \subseteq DOMAIN sessions'
         /\ \A s \in DOMAIN sessions :
              /\ sessions'[s].key = sessions[s].key /\ sessions'[s].from = sessions[s].from
              /\ \/ sessions'[s].to = sessions[s].to
                 \/ ~Closed(sessions[s]) /\ sessions'[s].to = clock
<1> USE DEF Closed, Sessions, Unset
<1>t. sessions \in Seq(Sessions) /\ clock \in Nat \ {0}
  BY DEF Types
<1>u. \A s \in DOMAIN sessions :
        s \in Nat /\ sessions[s] \in [key : Keys, from : Nat \ {0}, to : Nat]
  BY <1>t, ElementFact
<1>1. ASSUME NEW k \in Keys, OpenSession(k)
      PROVE  /\ sessions' \in Seq(Sessions) /\ clock' = clock
             /\ DOMAIN sessions \subseteq DOMAIN sessions'
             /\ \A s \in DOMAIN sessions : sessions'[s] = sessions[s]
  <2>1. /\ sessions' = Append(sessions, [key |-> k, from |-> clock, to |-> Unset])
        /\ clock' = clock
    BY <1>1 DEF OpenSession
  <2>2. [key |-> k, from |-> clock, to |-> Unset] \in Sessions
    BY <1>t
  <2>3. QED
    BY <2>1, <2>2, <1>t, AppendFact
<1>2. ASSUME NEW s \in DOMAIN sessions, Disconnect(s)
      PROVE  /\ sessions' \in Seq(Sessions) /\ clock' = clock
             /\ DOMAIN sessions \subseteq DOMAIN sessions'
             /\ \A r \in DOMAIN sessions :
                  /\ sessions'[r].key = sessions[r].key /\ sessions'[r].from = sessions[r].from
                  /\ \/ sessions'[r].to = sessions[r].to
                     \/ ~Closed(sessions[r]) /\ sessions'[r].to = clock
  <2>1. sessions' = [sessions EXCEPT ![s].to = clock] /\ clock' = clock /\ ~Closed(sessions[s])
    BY <1>2 DEF Disconnect
  <2>2. DOMAIN sessions' = DOMAIN sessions /\ \A r \in DOMAIN sessions :
          sessions'[r] = IF r = s THEN [sessions[s] EXCEPT !.to = clock] ELSE sessions[r]
    BY <2>1, <1>t
  <2>3. [sessions[s] EXCEPT !.to = clock] \in Sessions
    BY <1>t, <1>u
  <2>4. sessions' \in Seq(Sessions)
    BY <2>1, <2>3, <1>t
  <2>5. QED
    BY <2>1, <2>2, <2>4, <1>u
<1>3. ASSUME Crash
      PROVE  /\ sessions' \in Seq(Sessions) /\ clock' = clock
             /\ DOMAIN sessions \subseteq DOMAIN sessions'
             /\ \A r \in DOMAIN sessions :
                  /\ sessions'[r].key = sessions[r].key /\ sessions'[r].from = sessions[r].from
                  /\ \/ sessions'[r].to = sessions[r].to
                     \/ ~Closed(sessions[r]) /\ sessions'[r].to = clock
  <2>1. /\ clock' = clock
        /\ sessions' = [s \in DOMAIN sessions |->
             IF Closed(sessions[s]) THEN sessions[s] ELSE [sessions[s] EXCEPT !.to = clock]]
    BY <1>3 DEF Crash
  <2>2. \A s \in DOMAIN sessions : [sessions[s] EXCEPT !.to = clock] \in Sessions
    BY <1>t, <1>u
  <2>3. \A s \in DOMAIN sessions : sessions'[s] \in Sessions
    BY <2>1, <2>2, <1>u
  <2>4. sessions' \in Seq(Sessions)
    <3> HIDE DEF Sessions
    <3>1. QED
      BY <2>1, <2>3, <1>t
  <2>5. QED
    BY <2>1, <2>4, <1>u
<1>4. ASSUME Tick
      PROVE  sessions' = sessions /\ clock' = clock + 1
  BY <1>4 DEF Tick
<1>5. ASSUME \/ \E s \in DOMAIN sessions : \E text \in Texts : Execute(s, text)
             \/ LogAgain \/ NewFile \/ ExtractStep \/ LoaderStep \/ UNCHANGED vars
      PROVE  sessions' = sessions /\ clock' = clock
  BY <1>5, OtherFrame DEF Execute, LogAgain, NewFile
<1>6. \/ sessions' \in Seq(Sessions) /\ clock' = clock
      \/ sessions' = sessions /\ clock' = clock + 1
      \/ sessions' = sessions /\ clock' = clock
  BY <1>1, <1>2, <1>3, <1>4, <1>5, StepCases DEF ClusterStep, Cluster
<1>7. /\ DOMAIN sessions \subseteq DOMAIN sessions'
      /\ \A s \in DOMAIN sessions :
           /\ sessions'[s].key = sessions[s].key /\ sessions'[s].from = sessions[s].from
           /\ \/ sessions'[s].to = sessions[s].to
              \/ ~Closed(sessions[s]) /\ sessions'[s].to = clock
  BY <1>1, <1>2, <1>3, <1>4, <1>5, StepCases DEF ClusterStep, Cluster
<1>8. QED
  BY <1>6, <1>7, <1>t

\* A statement is executed in an open session, in its last transaction or in a
\* new one.
LEMMA ExecuteFact ==
  ASSUME Types, HistoryInv, NEW s \in DOMAIN sessions, NEW text \in Texts, Execute(s, text)
  PROVE  \E x \in Nat :
           /\ history' = Append(history, [session |-> s, key |-> sessions[s].key, xid |-> x,
                                          text |-> text, time |-> clock])
           /\ FirstXid <= x /\ x <= FirstXid + Len(history)
           /\ \A i \in DOMAIN history : XidOf(i) = x => history[i].session = s
           /\ \A i \in DOMAIN history : history[i].session = s => XidOf(i) <= x
<1> DEFINE mine == {i \in DOMAIN history : history[i].session = s}
           current == {XidOf(i) : i \in {j \in mine : \A k \in mine : k <= j}}
<1>t. history \in Seq(Records) /\ Len(history) \in Nat /\ FirstXid \in Nat \ {0}
  BY ExtractAssumption DEF Types
<1>u. \A i \in DOMAIN history :
        i \in 1..Len(history) /\ history[i] \in Records /\ XidOf(i) \in Nat
  BY RecordTypes
<1>1. PICK x \in current \cup {NewXid} :
        history' = Append(history, [session |-> s, key |-> sessions[s].key, xid |-> x,
                                    text |-> text, time |-> clock])
  BY DEF Execute
<1>2. CASE x \in current
  <2>1. PICK i \in mine : x = XidOf(i) /\ \A k \in mine : k <= i
    BY <1>2
  <2>2. x \in Nat /\ FirstXid <= x /\ x <= FirstXid + Len(history)
    BY <2>1, <1>t, <1>u DEF HistoryInv
  <2>3. \A j \in DOMAIN history : XidOf(j) = x => history[j].session = s
    BY <2>1 DEF HistoryInv
  <2>4. \A j \in mine : j = i \/ j < i
    BY <2>1, <1>u
  <2>5. \A j \in DOMAIN history : history[j].session = s => XidOf(j) <= x
    BY <2>1, <2>2, <2>4, <1>u DEF HistoryInv
  <2>6. QED
    BY <1>1, <2>2, <2>3, <2>5
<1>3. CASE x = NewXid
  <2>1. x = FirstXid + Len(history)
    BY <1>3 DEF NewXid
  <2>2. \A j \in DOMAIN history : XidOf(j) < x
    BY <2>1, <1>t, <1>u DEF HistoryInv
  <2>3. QED
    BY <1>1, <1>t, <1>u, <2>1, <2>2
<1>4. QED
  BY <1>1, <1>2, <1>3

\* The invariant of the statements is inductive.
LEMMA HistoryStep ==
  ASSUME Types, SessionsInv, HistoryInv, [Next]_vars
  PROVE  HistoryInv' /\ history' \in Seq(Records) /\ Len(history') <= MaxStatements
<1>t. /\ history \in Seq(Records) /\ Len(history) \in Nat /\ Len(history) <= MaxStatements
      /\ FirstXid \in Nat \ {0} /\ MaxStatements \in Nat
      /\ sessions \in Seq(Sessions) /\ clock \in Nat \ {0}
  BY ExtractAssumption DEF Types
<1>u. \A i \in DOMAIN history :
        /\ i \in 1..Len(history) /\ history[i] \in Records /\ XidOf(i) \in Nat
        /\ history[i].time \in Nat
  BY RecordTypes
<1>s. \A s \in DOMAIN sessions : s \in Nat /\ sessions[s].to \in Nat /\ sessions[s].key \in Keys
  BY SessionTypes
<1>1. CASE history' = history
  <2>1. \A i \in DOMAIN history : XidOf(i)' = XidOf(i)
    BY <1>1 DEF XidOf
  <2>2. ASSUME NEW i \in DOMAIN history
        PROVE  /\ history[i].session \in DOMAIN sessions'
               /\ history[i].key = sessions'[history[i].session].key
               /\ sessions'[history[i].session].from <= history[i].time
               /\ history[i].time <= clock'
               /\ Closed(sessions'[history[i].session]) =>
                    history[i].time <= sessions'[history[i].session].to
    <3>1. history[i].session \in DOMAIN sessions /\ history[i].time <= clock
      BY DEF HistoryInv
    <3>2. \/ sessions'[history[i].session].to = sessions[history[i].session].to
          \/ sessions'[history[i].session].to = clock
      BY <3>1, SessionsChange
    <3>3. history[i].time <= clock'
      BY <3>1, <1>t, <1>u, SessionsChange
    <3>4. QED
      BY <3>1, <3>2, <3>3, SessionsChange DEF HistoryInv, Closed
  <2>3. QED
    BY <1>1, <1>t, <2>1, <2>2 DEF HistoryInv
<1>2. ASSUME NEW s \in DOMAIN sessions, NEW text \in Texts, Execute(s, text)
      PROVE  HistoryInv' /\ history' \in Seq(Records) /\ Len(history') <= MaxStatements
  <2>0. PICK n \in Nat : n = Len(history) + 1
    BY <1>t
  <2>1. /\ sessions' = sessions /\ clock' = clock /\ Len(history) < MaxStatements
        /\ ~Closed(sessions[s])
    BY <1>2 DEF Execute
  <2>2. PICK x \in Nat :
          /\ history' = Append(history, [session |-> s, key |-> sessions[s].key, xid |-> x,
                                         text |-> text, time |-> clock])
          /\ FirstXid <= x /\ x <= FirstXid + Len(history)
          /\ \A i \in DOMAIN history : XidOf(i) = x => history[i].session = s
          /\ \A i \in DOMAIN history : history[i].session = s => XidOf(i) <= x
    BY <1>2, ExecuteFact
  <2> DEFINE r == [session |-> s, key |-> sessions[s].key, xid |-> x, text |-> text, time |-> clock]
  <2>3. r \in Records /\ r.session = s /\ r.key = sessions[s].key /\ r.xid = x /\ r.time = clock
    BY <1>s, <1>t DEF Records
  <2> HIDE DEF r
  <2>4. /\ history' \in Seq(Records) /\ Len(history') = n /\ DOMAIN history' = DOMAIN history \cup {n}
        /\ n \notin DOMAIN history
        /\ \A i \in DOMAIN history : history'[i] = history[i]
        /\ history'[n] = r
    BY <2>0, <2>2, <2>3, <1>t, AppendFact DEF r
  <2>5. \A i \in DOMAIN history : XidOf(i)' = XidOf(i) /\ i < n
    BY <2>0, <2>4, <1>t, <1>u DEF XidOf
  <2>6. XidOf(n)' = x
    BY <2>3, <2>4 DEF XidOf
  <2>7. ASSUME NEW i \in DOMAIN history'
        PROVE  /\ history'[i].session \in DOMAIN sessions
               /\ history'[i].key = sessions[history'[i].session].key
               /\ sessions[history'[i].session].from <= history'[i].time
               /\ history'[i].time <= clock
               /\ Closed(sessions[history'[i].session]) =>
                    history'[i].time <= sessions[history'[i].session].to
    <3>1. CASE i = n
      BY <3>1, <2>1, <2>3, <2>4, <1>t DEF SessionsInv
    <3>2. CASE i \in DOMAIN history
      BY <3>2, <2>4 DEF HistoryInv
    <3>3. QED
      BY <3>1, <3>2, <2>4
  <2>8. \A i \in DOMAIN history' : FirstXid <= XidOf(i)' /\ XidOf(i)' < FirstXid + i
    BY <2>0, <2>2, <2>4, <2>5, <2>6, <1>t DEF HistoryInv
  <2>9. \A i, j \in DOMAIN history' :
          XidOf(i)' = XidOf(j)' => history'[i].session = history'[j].session
    BY <2>2, <2>3, <2>4, <2>5, <2>6 DEF HistoryInv
  <2>10. ASSUME NEW i \in DOMAIN history', NEW j \in DOMAIN history', i < j
         PROVE  /\ history'[i].time <= history'[j].time
                /\ history'[i].session = history'[j].session => XidOf(i)' <= XidOf(j)'
    <3>1. i \in DOMAIN history
      BY <2>10, <2>4, <2>0, <2>5, <1>t, <1>u
    <3>2. CASE j = n
      <4>1. history[i].time <= clock
        BY <3>1 DEF HistoryInv
      <4>2. history[i].session = s => XidOf(i) <= x
        BY <3>1, <2>2
      <4>3. QED
        BY <3>1, <3>2, <4>1, <4>2, <2>3, <2>4, <2>5, <2>6
    <3>3. CASE j \in DOMAIN history
      BY <3>1, <3>3, <2>10, <2>4, <2>5 DEF HistoryInv
    <3>4. QED
      BY <3>2, <3>3, <2>4
  <2>11. HistoryInv'
    BY <2>1, <2>7, <2>8, <2>9, <2>10 DEF HistoryInv
  <2>12. QED
    BY <2>0, <2>1, <2>4, <2>11, <1>t
<1>3. ASSUME \/ \E k \in Keys : OpenSession(k)
             \/ \E s \in DOMAIN sessions : Disconnect(s)
             \/ LogAgain \/ Crash \/ NewFile \/ Tick \/ ExtractStep \/ LoaderStep \/ UNCHANGED vars
      PROVE  history' = history
  BY <1>3, OtherFrame DEF OpenSession, Disconnect, LogAgain, Crash, NewFile, Tick
<1>4. QED
  BY <1>1, <1>2, <1>3, StepCases DEF ClusterStep, Cluster

\* Appending a line of a session that is the latest of its client.
LEMMA LineAppend ==
  ASSUME Types, LinesInv, NEW s \in Nat, s \in DOMAIN sessions', NEW line \in Lines,
         line.session = s, NEW n \in Nat, \A l \in DOMAIN connectionlog : l < n,
         DOMAIN connectionlog = 1..(n-1), connectionlog'[n] = line,
         DOMAIN connectionlog' = DOMAIN connectionlog \cup {n},
         \A l \in DOMAIN connectionlog : connectionlog'[l] = connectionlog[l],
         DOMAIN sessions \subseteq DOMAIN sessions',
         \A r \in DOMAIN sessions :
           /\ sessions'[r].key = sessions[r].key
           /\ sessions[r].to # Unset => sessions'[r].to # Unset
           /\ sessions[r].key = sessions'[s].key => r <= s,
         \A r \in DOMAIN sessions' :
           r \in DOMAIN sessions \/ (r = s /\ Begins(line)),
         Ends(line) => sessions'[s].to # Unset
  PROVE  LinesInv'
<1> USE DEF Closed
<1>u. ASSUME NEW l \in DOMAIN connectionlog
      PROVE  /\ l \in Nat /\ connectionlog[l].session \in Nat
             /\ connectionlog[l].session \in DOMAIN sessions
  <2>1. l \in Nat /\ connectionlog[l].session \in Nat
    BY LineTypes
  <2>2. connectionlog[l].session \in DOMAIN sessions
    BY DEF LinesInv
  <2>3. QED
    BY <2>1, <2>2
<1>4. ASSUME NEW r \in DOMAIN sessions'
      PROVE  \E l \in DOMAIN connectionlog' :
               Begins(connectionlog'[l]) /\ connectionlog'[l].session = r
  <2>1. CASE r = s /\ Begins(line)
    BY <2>1
  <2>2. CASE r \in DOMAIN sessions
    BY <2>2 DEF LinesInv
  <2>3. QED
    BY <2>1, <2>2
<1>5. ASSUME NEW l \in DOMAIN connectionlog'
      PROVE  /\ connectionlog'[l].session \in DOMAIN sessions'
             /\ Ends(connectionlog'[l]) =>
                  /\ Closed(sessions'[connectionlog'[l].session])
                  /\ \E m \in 1..(l-1) :
                       /\ Begins(connectionlog'[m])
                       /\ connectionlog'[m].session = connectionlog'[l].session
  <2>1. CASE l = n
    <3>1. SUFFICES ASSUME Ends(line)
                   PROVE  \E m \in 1..(n-1) :
                            /\ Begins(connectionlog'[m])
                            /\ connectionlog'[m].session = s
      BY <2>1
    <3>2. s \in DOMAIN sessions
      BY <3>1 DEF Begins, Ends
    <3>3. PICK m \in DOMAIN connectionlog :
            Begins(connectionlog[m]) /\ connectionlog[m].session = s
      BY <3>2 DEF LinesInv
    <3>4. m \in 1..(n-1)
      OBVIOUS
    <3>5. QED
      BY <3>3, <3>4
  <2>2. CASE l \in DOMAIN connectionlog
    <3>1. connectionlog'[l] = connectionlog[l] /\ \A m \in 1..(l-1) : m \in DOMAIN connectionlog
      BY <2>2, <1>u
    <3>2. \A m \in 1..(l-1) : connectionlog'[m] = connectionlog[m]
      BY <3>1
    <3>3. connectionlog[l].session \in DOMAIN sessions
      BY <2>2, <1>u
    <3>4. CASE Ends(connectionlog[l])
      <4>1. PICK m \in 1..(l-1) :
              /\ Begins(connectionlog[m])
              /\ connectionlog[m].session = connectionlog[l].session
        BY <2>2, <3>4 DEF LinesInv
      <4>2. Closed(sessions[connectionlog[l].session])
        BY <2>2, <3>4 DEF LinesInv
      <4>3. QED
        BY <3>1, <3>2, <3>3, <4>1, <4>2
    <3>5. QED
      BY <3>1, <3>3, <3>4
  <2>3. QED
    BY <2>1, <2>2
<1>6. ASSUME NEW m \in DOMAIN connectionlog', NEW l \in DOMAIN connectionlog',
             connectionlog'[m].session < connectionlog'[l].session,
             sessions'[connectionlog'[m].session].key = sessions'[connectionlog'[l].session].key
      PROVE  m < l
  <2>1. CASE m = n
    <3>1. l # n
      BY <2>1, <1>6
    <3>2. l \in DOMAIN connectionlog /\ connectionlog'[l] = connectionlog[l]
      BY <3>1
    <3>3. connectionlog[l].session \in DOMAIN sessions
      BY <3>2, <1>u
    <3>4. sessions[connectionlog[l].session].key = sessions'[s].key
      BY <2>1, <3>2, <3>3, <1>6
    <3>5. connectionlog[l].session <= s
      BY <3>3, <3>4
    <3>6. s < connectionlog[l].session
      BY <2>1, <3>2, <1>6
    <3>7. QED
      BY <3>2, <3>5, <3>6, <1>u
  <2>2. CASE m \in DOMAIN connectionlog /\ l = n
    BY <2>2
  <2>3. CASE m \in DOMAIN connectionlog /\ l \in DOMAIN connectionlog
    <3>1. connectionlog'[m] = connectionlog[m] /\ connectionlog'[l] = connectionlog[l]
      BY <2>3
    <3>2. /\ connectionlog[m].session \in DOMAIN sessions
          /\ connectionlog[l].session \in DOMAIN sessions
      BY <2>3, <1>u
    <3>3. sessions[connectionlog[m].session].key = sessions[connectionlog[l].session].key
      BY <3>1, <3>2, <1>6
    <3>4. QED
      BY <2>3, <3>1, <3>3, <1>6 DEF LinesInv
  <2>4. QED
    BY <2>1, <2>2, <2>3
<1>7. QED
  BY <1>4, <1>5, <1>6 DEF LinesInv

\* The invariant of the connection log is inductive.
LEMMA LinesStep ==
  ASSUME Types, SessionsInv, LinesInv, [Next]_vars
  PROVE  LinesInv' /\ connectionlog' \in Seq(Lines)
<1> USE DEF Closed
<1>t. connectionlog \in Seq(Lines) /\ sessions \in Seq(Sessions)
  BY DEF Types
<1>n. PICK n \in Nat : n = Len(connectionlog) + 1
  BY <1>t
<1>m. /\ DOMAIN connectionlog = 1..(n-1) /\ \A l \in DOMAIN connectionlog : l < n
  BY <1>t, <1>n
<1>a. ASSUME NEW line \in Lines, connectionlog' = Append(connectionlog, line)
      PROVE  /\ connectionlog' \in Seq(Lines) /\ DOMAIN connectionlog' = DOMAIN connectionlog \cup {n}
             /\ connectionlog'[n] = line
             /\ \A l \in DOMAIN connectionlog : connectionlog'[l] = connectionlog[l]
  BY <1>a, <1>t, <1>n, AppendFact
<1>s. /\ DOMAIN sessions \subseteq DOMAIN sessions'
      /\ \A s \in DOMAIN sessions :
           /\ sessions'[s].key = sessions[s].key
           /\ sessions[s].to # Unset => sessions'[s].to # Unset
  BY SessionsChange DEF Closed
<1>1. ASSUME NEW k \in Keys, OpenSession(k)
      PROVE  LinesInv' /\ connectionlog' \in Seq(Lines)
  <2>1. PICK s \in Nat : s = Len(sessions) + 1
    BY <1>t
  <2>2. PICK line : line = [event |-> "initiating session", session |-> s]
    OBVIOUS
  <2>3. line \in Lines /\ line.session = s /\ Begins(line)
    BY <2>2 DEF Lines, Begins
  <2>4. PICK session : session = [key |-> k, from |-> clock, to |-> Unset]
    OBVIOUS
  <2>5. session \in Sessions
    BY <2>4 DEF Types, Sessions, Unset
  <2>6. sessions' = Append(sessions, session) /\ connectionlog' = Append(connectionlog, line)
    BY <1>1, <2>1, <2>2, <2>4 DEF OpenSession, Logged
  <2>7. DOMAIN sessions' = DOMAIN sessions \cup {s}
    BY <2>1, <2>5, <2>6, <1>t, AppendFact
  <2>8. \A r \in DOMAIN sessions : r <= s
    BY <2>1, <1>t, SessionTypes
  <2>9. ~Ends(line) /\ s \in DOMAIN sessions'
    BY <2>2, <2>7 DEF Ends
  <2>10. /\ connectionlog' \in Seq(Lines) /\ connectionlog'[n] = line
         /\ DOMAIN connectionlog' = DOMAIN connectionlog \cup {n}
         /\ \A l \in DOMAIN connectionlog : connectionlog'[l] = connectionlog[l]
    BY <2>3, <2>6, <1>a
  <2>11. LinesInv'
    BY <2>3, <2>7, <2>8, <2>9, <2>10, <1>s, <1>m, LineAppend
  <2>12. QED
    BY <2>10, <2>11
<1>2. ASSUME NEW s \in DOMAIN sessions, Disconnect(s)
      PROVE  LinesInv' /\ connectionlog' \in Seq(Lines)
  <2>1. PICK line : line = [event |-> "disconnecting session", session |-> s]
    OBVIOUS
  <2>2. s \in Nat /\ sessions[s] \in [key : Keys, from : Nat \ {0}, to : Nat]
    BY SessionTypes
  <2>3. line \in Lines /\ line.session = s /\ Ends(line)
    BY <2>1, <2>2 DEF Lines, Ends
  <2>4. /\ sessions' = [sessions EXCEPT ![s].to = clock] /\ ~Closed(sessions[s])
        /\ connectionlog' = Append(connectionlog, line)
    BY <1>2, <2>1 DEF Disconnect, Logged
  <2>5. DOMAIN sessions' = DOMAIN sessions /\ sessions'[s] = [sessions[s] EXCEPT !.to = clock]
    BY <2>4, <1>t
  <2>6. sessions'[s].to # Unset
    BY <2>2, <2>5 DEF Types, Closed, Unset
  <2>7. ASSUME NEW r \in DOMAIN sessions, sessions[r].key = sessions'[s].key
        PROVE  r <= s
    <3>1. ~(s < r)
      BY <2>4, <2>7, <1>s DEF SessionsInv
    <3>2. QED
      BY <3>1, SessionTypes
  <2>8. QED
    BY <2>2, <2>3, <2>4, <2>5, <2>6, <2>7, <1>s, <1>m, <1>a, LineAppend
<1>3. ASSUME \/ \E s \in DOMAIN sessions : \E text \in Texts : Execute(s, text)
             \/ LogAgain \/ Crash \/ NewFile \/ Tick \/ ExtractStep \/ LoaderStep \/ UNCHANGED vars
      PROVE  LinesInv' /\ connectionlog' \in Seq(Lines)
  <2>1. connectionlog' = connectionlog /\ DOMAIN sessions' = DOMAIN sessions
    BY <1>3, OtherFrame DEF Execute, LogAgain, Crash, NewFile, Tick
  <2>2. QED
    BY <2>1, <1>s, <1>t DEF LinesInv, Closed
<1>4. QED
  BY <1>1, <1>2, <1>3, StepCases DEF ClusterStep, Cluster

\* Appending to the last file what is not before what the files hold.
LEMMA FileAppend ==
  ASSUME Types, FilesInv, NEW i \in Nat, i \in DOMAIN history',
         DOMAIN history \subseteq DOMAIN history',
         \A j \in DOMAIN history : j <= i,
         activitylog' = [activitylog EXCEPT ![Len(activitylog)] = Append(@, i)]
  PROVE  FilesInv' /\ activitylog' \in Seq(Seq(Nat)) \ {<<>>}
<1>t. activitylog \in Seq(Seq(Nat)) /\ activitylog # <<>>
  BY DEF Types
<1>1. PICK n \in Nat : n = Len(activitylog)
  BY <1>t
<1>2. n \in DOMAIN activitylog /\ DOMAIN activitylog' = DOMAIN activitylog
  BY <1>1, <1>t
<1>3. \A f \in DOMAIN activitylog :
        /\ f \in Nat /\ f <= n /\ activitylog[f] \in Seq(Nat)
        /\ \A e \in DOMAIN activitylog[f] :
             e \in 1..Len(activitylog[f]) /\ e \in Nat \ {0} /\ activitylog[f][e] \in Nat
  BY <1>1, FileTypes
<1>4. PICK d \in Nat : d = Len(activitylog[n]) + 1
  BY <1>2, <1>3
<1>5. /\ activitylog'[n] \in Seq(Nat)
      /\ DOMAIN activitylog'[n] = DOMAIN activitylog[n] \cup {d}
      /\ activitylog'[n][d] = i /\ d \notin DOMAIN activitylog[n]
      /\ \A e \in DOMAIN activitylog[n] : activitylog'[n][e] = activitylog[n][e] /\ e < d
  <2>1. activitylog'[n] = Append(activitylog[n], i)
    BY <1>1, <1>2
  <2>2. \A e \in DOMAIN activitylog[n] : e < d
    BY <1>2, <1>3, <1>4
  <2>3. QED
    BY <2>1, <2>2, <1>2, <1>3, <1>4, AppendFact
<1>6. \A f \in DOMAIN activitylog : f # n => activitylog'[f] = activitylog[f]
  BY <1>1
<1>7. activitylog' \in Seq(Seq(Nat)) \ {<<>>}
  <2>1. \A f \in DOMAIN activitylog : activitylog'[f] \in Seq(Nat)
    BY <1>3, <1>5, <1>6
  <2> DEFINE S == Seq(Nat)
  <2>2. activitylog \in Seq(S) /\ Append(activitylog[n], i) \in S
    BY <1>t, <1>1, <1>2, <1>3, <1>5
  <2> HIDE DEF S
  <2>3. [activitylog EXCEPT ![n] = Append(@, i)] \in Seq(S)
    BY <1>2, <2>2
  <2>4. activitylog' \in Seq(Seq(Nat))
    BY <2>3, <1>1 DEF S
  <2>5. QED
    BY <2>4, <1>2
<1>8. ASSUME NEW f \in DOMAIN activitylog', NEW e \in DOMAIN activitylog'[f]
      PROVE  /\ activitylog'[f][e] \in DOMAIN history' /\ activitylog'[f][e] <= i
             /\ \/ f = n /\ e = d
                \/ e \in DOMAIN activitylog[f] /\ activitylog'[f][e] = activitylog[f][e]
  <2>1. CASE f = n /\ e = d
    BY <2>1, <1>5
  <2>2. CASE ~(f = n /\ e = d)
    <3>1. f \in DOMAIN activitylog /\ e \in DOMAIN activitylog[f]
          /\ activitylog'[f][e] = activitylog[f][e]
      BY <2>2, <1>2, <1>5, <1>6
    <3>2. activitylog[f][e] \in DOMAIN history
      BY <3>1 DEF FilesInv
    <3>3. QED
      BY <3>1, <3>2
  <2>3. QED
    BY <2>1, <2>2
<1>9. ASSUME NEW f \in DOMAIN activitylog', NEW g \in DOMAIN activitylog',
             NEW e \in DOMAIN activitylog'[f], NEW c \in DOMAIN activitylog'[g],
             f < g \/ (f = g /\ e <= c)
      PROVE  activitylog'[f][e] <= activitylog'[g][c]
  <2>1. CASE g = n /\ c = d
    BY <2>1, <1>5, <1>8
  <2>2. CASE ~(g = n /\ c = d)
    <3>1. c \in DOMAIN activitylog[g] /\ activitylog'[g][c] = activitylog[g][c]
      BY <2>2, <1>8
    <3>2. ~(f = n /\ e = d)
      BY <1>2, <1>3, <1>5, <1>9, <3>1
    <3>3. e \in DOMAIN activitylog[f] /\ activitylog'[f][e] = activitylog[f][e]
      BY <3>2, <1>8
    <3>4. QED
      BY <1>2, <3>1, <3>3, <1>9 DEF FilesInv
  <2>3. QED
    BY <2>1, <2>2
<1>10. \A f \in DOMAIN activitylog' : \A e \in DOMAIN activitylog'[f] :
         activitylog'[f][e] \in DOMAIN history'
  BY <1>8
<1>11. \A f, g \in DOMAIN activitylog' :
         \A e \in DOMAIN activitylog'[f], c \in DOMAIN activitylog'[g] :
           f < g \/ (f = g /\ e <= c) => activitylog'[f][e] <= activitylog'[g][c]
  BY <1>9
<1>12. FilesInv'
  BY <1>10, <1>11, Zenon DEF FilesInv
<1>13. QED
  BY <1>7, <1>12

\* The invariant of the activity log is inductive.
LEMMA FilesStep ==
  ASSUME Types, HistoryInv, FilesInv, [Next]_vars
  PROVE  FilesInv' /\ activitylog' \in Seq(Seq(Nat)) \ {<<>>}
<1>t. history \in Seq(Records) /\ activitylog \in Seq(Seq(Nat)) \ {<<>>}
  BY DEF Types
<1>u. \A i \in DOMAIN history : i \in 1..Len(history)
  BY RecordTypes
<1>1. ASSUME NEW s \in DOMAIN sessions, NEW text \in Texts, Execute(s, text)
      PROVE  FilesInv' /\ activitylog' \in Seq(Seq(Nat)) \ {<<>>}
  <2>1. PICK i \in Nat : i = Len(history) + 1
    BY <1>t
  <2>2. activitylog' = [activitylog EXCEPT ![Len(activitylog)] = Append(@, i)]
    BY <1>1, <2>1 DEF Execute
  <2>3. PICK r : history' = Append(history, r)
    BY <1>1 DEF Execute
  <2>4. i \in DOMAIN history' /\ DOMAIN history \subseteq DOMAIN history'
    BY <2>1, <2>3, <1>t
  <2>5. \A j \in DOMAIN history : j <= i
    BY <2>1, <1>u, <1>t
  <2>6. QED
    BY <2>2, <2>4, <2>5, FileAppend
<1>2. ASSUME LogAgain
      PROVE  FilesInv' /\ activitylog' \in Seq(Seq(Nat)) \ {<<>>}
  <2>1. PICK i \in Nat : i = Len(history)
    BY <1>t
  <2>2. /\ activitylog' = [activitylog EXCEPT ![Len(activitylog)] = Append(@, i)]
        /\ history' = history /\ history # <<>>
    BY <1>2, <2>1 DEF LogAgain
  <2>3. i \in DOMAIN history' /\ \A j \in DOMAIN history : j <= i
    BY <2>1, <2>2, <1>u, <1>t
  <2>4. QED
    BY <2>2, <2>3, FileAppend
<1>3. ASSUME NewFile
      PROVE  FilesInv' /\ activitylog' \in Seq(Seq(Nat)) \ {<<>>}
  <2>1. activitylog' = Append(activitylog, <<>>) /\ history' = history
    BY <1>3 DEF NewFile
  <2>2. PICK n \in Nat : n = Len(activitylog) + 1
    BY <1>t
  <2>3. /\ activitylog' \in Seq(Seq(Nat)) \ {<<>>}
        /\ DOMAIN activitylog' = DOMAIN activitylog \cup {n}
        /\ \A f \in DOMAIN activitylog : activitylog'[f] = activitylog[f]
        /\ activitylog'[n] = <<>>
    BY <2>1, <2>2, <1>t, AppendFact
  <2>4. DOMAIN activitylog'[n] = {}
    BY <2>3
  <2>5. \A f \in DOMAIN activitylog' : \A e \in DOMAIN activitylog'[f] :
          f \in DOMAIN activitylog /\ activitylog'[f] = activitylog[f]
    BY <2>3, <2>4
  <2>6. FilesInv'
    BY <2>1, <2>5 DEF FilesInv
  <2>7. QED
    BY <2>3, <2>6
<1>4. ASSUME \/ \E k \in Keys : OpenSession(k)
             \/ \E s \in DOMAIN sessions : Disconnect(s)
             \/ Crash \/ Tick \/ ExtractStep \/ LoaderStep \/ UNCHANGED vars
      PROVE  FilesInv' /\ activitylog' \in Seq(Seq(Nat)) \ {<<>>}
  <2>1. history' = history /\ activitylog' = activitylog
    BY <1>4, OtherFrame DEF OpenSession, Disconnect, Crash, Tick
  <2>2. QED
    BY <2>1, <1>t DEF FilesInv
<1>5. QED
  BY <1>1, <1>2, <1>3, <1>4, StepCases DEF ClusterStep, Cluster

---------------------------------------------------------------------------
(* The parsers, step by step.                                              *)

\* What one line of the connection log does.
LEMMA ConnectionLineFact ==
  ASSUME ParseConnectionLog, NEW l, l = lines + 1
  PROVE  /\ phase = "connectionlog" /\ lines < Len(connectionlog) /\ lines' = l
         /\ UNCHANGED <<phase, range, file, entry, logs>>
         /\ ~IsKept(l) => UNCHANGED <<connections, lastconnections>>
         /\ IsKept(l) /\ Begins(connectionlog[l]) =>
              /\ connections' = With(connections, <<Of(l).key, Of(l).from>>, range.end)
              /\ lastconnections' = With(lastconnections, Of(l).key, <<Of(l).key, Of(l).from>>)
         /\ IsKept(l) /\ ~Begins(connectionlog[l]) =>
              \E c : /\ IF Of(l).key \in DOMAIN lastconnections
                        THEN c = lastconnections[Of(l).key] ELSE c = <<Of(l).key, range.start>>
                     /\ connections' = With(connections, c, Of(l).to)
                     /\ lastconnections' = With(lastconnections, Of(l).key, c)
<1> DEFINE before == [connections |-> connections, last |-> lastconnections]
           line == connectionlog[l]
           s == sessions[line.session]
<1>1. /\ phase = "connectionlog" /\ lines < Len(connectionlog) /\ lines' = l
      /\ UNCHANGED <<phase, range, file, entry, logs>>
      /\ connections' = ReadConnectionLine(before, line).connections
      /\ lastconnections' = ReadConnectionLine(before, line).last
  BY DEF ParseConnectionLog
<1>2. before.connections = connections /\ before.last = lastconnections
  OBVIOUS
<1>3. Of(l) = s
  BY DEF Of
<1> HIDE DEF before, line, s
<1>4. IsKept(l) <=> IF Begins(line) THEN InRange(s.from) ELSE InRange(s.to)
  BY <1>3 DEF IsKept, line
<1>5. ReadConnectionLine(before, line) =
        IF Begins(line)
        THEN IF InRange(s.from) THEN Initiate(before, s) ELSE before
        ELSE IF InRange(s.to) THEN EndSession(before, s) ELSE before
  BY DEF ReadConnectionLine, Begins, s
<1>6. CASE ~IsKept(l)
  BY <1>1, <1>2, <1>4, <1>5, <1>6
<1>7. CASE IsKept(l) /\ Begins(line)
  <2>1. ReadConnectionLine(before, line) = Initiate(before, s)
    BY <1>4, <1>5, <1>7
  <2>2. /\ Initiate(before, s).connections = With(connections, <<s.key, s.from>>, range.end)
        /\ Initiate(before, s).last = With(lastconnections, s.key, <<s.key, s.from>>)
    BY <1>2 DEF Initiate
  <2>3. QED
    BY <1>1, <1>3, <1>7, <2>1, <2>2 DEF line
<1>8. CASE IsKept(l) /\ ~Begins(line)
  <2>1. ReadConnectionLine(before, line) = EndSession(before, s)
    BY <1>4, <1>5, <1>8
  <2> DEFINE c == IF s.key \in DOMAIN lastconnections
                  THEN lastconnections[s.key] ELSE <<s.key, range.start>>
  <2>2. /\ EndSession(before, s).connections = With(connections, c, s.to)
        /\ EndSession(before, s).last = With(lastconnections, s.key, c)
    BY <1>2 DEF EndSession
  <2>3. IF s.key \in DOMAIN lastconnections
        THEN c = lastconnections[s.key] ELSE c = <<s.key, range.start>>
    OBVIOUS
  <2> HIDE DEF c
  <2>4. connections' = With(connections, c, s.to) /\ lastconnections' = With(lastconnections, s.key, c)
    BY <1>1, <2>1, <2>2
  <2>5. QED
    BY <1>1, <1>3, <1>8, <2>3, <2>4 DEF line
<1>9. QED
  BY <1>6, <1>7, <1>8 DEF line

\* The steps after the cluster, as seen by the parsers' state.
LEMMA ParserCases ==
  ASSUME ExtractStep \/ LoaderStep \/ UNCHANGED vars
  PROVE  \/ StartExtract /\ UNCHANGED <<lines, file, entry, logs, connections, lastconnections>>
         \/ ParseConnectionLog
         \/ ConnectionLogRead /\ UNCHANGED <<range, lines, file, entry, logs, connections, lastconnections>>
         \/ ParseUserActivityLog /\ UNCHANGED <<phase, range, lines, file, connections, lastconnections>>
         \/ NextActivityFile /\ UNCHANGED <<phase, range, lines, logs, connections, lastconnections>>
         \/ SaveLogs /\ UNCHANGED <<range, lines, file, entry, logs, lastconnections>>
         \/ /\ UNCHANGED <<range, lines, file, entry, logs, connections, lastconnections>>
            /\ \/ NothingFound \/ UNCHANGED phase
               \/ Saved /\ Loaded'
<1>1. CASE ExtractStep
  BY <1>1 DEF ExtractStep, Extract, StartExtract, ConnectionLogRead, ParseUserActivityLog,
              NextActivityFile, NothingFound, SaveLogs, parsed
<1>2. CASE LoaderStep
  <2>1. UNCHANGED <<range, parsed>> /\ (UNCHANGED phase \/ (Saved /\ Loaded'))
    BY <1>2 DEF LoaderStep, Load, Prepared, Match, MatchFails, Saved, Loaded
  <2>2. QED
    BY <2>1 DEF parsed
<1>3. CASE UNCHANGED vars
  BY <1>3 DEF vars, extractVars, parsed
<1>4. QED
  BY <1>1, <1>2, <1>3

\* The invariant of the phases is inductive.
LEMMA PhaseStep ==
  ASSUME Types, PhaseInv, [Next]_vars
  PROVE  PhaseInv'
<1> USE DEF PhaseInv, Unread, Saved, Loaded
<1>1. CASE ClusterStep
  BY <1>1, ClusterFrame
<1>2. ASSUME StartExtract, UNCHANGED <<lines, file, entry, logs, connections, lastconnections>>,
             UNCHANGED <<clock, sessions, history, connectionlog, activitylog, faults>>
      PROVE  PhaseInv'
  BY <1>2 DEF StartExtract
<1>3. ASSUME ParseConnectionLog,
             UNCHANGED <<clock, sessions, history, connectionlog, activitylog, faults>>
      PROVE  PhaseInv'
  BY <1>3 DEF ParseConnectionLog
<1>4. ASSUME ConnectionLogRead \/ ParseUserActivityLog \/ NextActivityFile \/ SaveLogs,
             UNCHANGED <<clock, sessions, history, connectionlog, activitylog, faults>>
      PROVE  PhaseInv'
  BY <1>4 DEF ConnectionLogRead, ParseUserActivityLog, NextActivityFile, SaveLogs, ActivityRead, parsed
<1>5. ASSUME UNCHANGED <<range, lines, file, entry, logs, connections, lastconnections>>,
             NothingFound \/ UNCHANGED phase \/ (Saved /\ Loaded'),
             UNCHANGED <<clock, sessions, history, connectionlog, activitylog, faults>>
      PROVE  PhaseInv'
  BY <1>5 DEF NothingFound, ActivityRead
<1>6. QED
  BY <1>1, <1>2, <1>3, <1>4, <1>5, StepCases, OtherFrame, ParserCases

\* Of two sessions of a client, the one before ended before the other began.
LEMMA SessionOrder ==
  ASSUME Types, SessionsInv, NEW r \in DOMAIN sessions, NEW s \in DOMAIN sessions,
         sessions[r].key = sessions[s].key, r < s
  PROVE  /\ Closed(sessions[r]) /\ sessions[r].from <= sessions[r].to
         /\ sessions[r].to < sessions[s].from
         /\ Second(sessions[r].to) < Second(sessions[s].from)
<1>1. /\ Closed(sessions[r]) /\ sessions[r].from <= sessions[r].to
      /\ Second(sessions[r].to) < Second(sessions[s].from)
  BY DEF SessionsInv
<1>2. sessions[r].to \in Nat /\ sessions[s].from \in Nat
  BY SessionTypes
<1>3. CASE sessions[s].from <= sessions[r].to
  <2>1. Second(sessions[s].from) <= Second(sessions[r].to)
    BY <1>2, <1>3, SecondOrder
  <2>2. Second(sessions[s].from) \in Nat /\ Second(sessions[r].to) \in Nat
    BY <1>2, SecondFact
  <2>3. QED
    BY <1>1, <2>1, <2>2
<1>4. QED
  BY <1>1, <1>2, <1>3

\* A line that is kept writes the connection of its session.
LEMMA KeptLine ==
  ASSUME Types, PhaseInv, SessionsInv, LinesInv, ConnectionsInv,
         ParseConnectionLog, NEW l, l = lines + 1, IsKept(l)
  PROVE  /\ DOMAIN connections' = DOMAIN connections \cup {Connection(Of(l))}
         /\ connections'[Connection(Of(l))] =
              IF Begins(connectionlog[l]) THEN range.end ELSE Of(l).to
         /\ \A c \in DOMAIN connections : c # Connection(Of(l)) => connections'[c] = connections[c]
         /\ lastconnections' = With(lastconnections, Of(l).key, Connection(Of(l)))
<1> DEFINE s == connectionlog[l].session
<1>1. l \in DOMAIN connectionlog /\ l \in Nat /\ lines \in Nat
  <2>1. lines < Len(connectionlog)
    BY ConnectionLineFact
  <2>2. connectionlog \in Seq(Lines) /\ lines \in 0..Len(connectionlog)
    BY DEF Types
  <2>3. QED
    BY <2>1, <2>2
<1>2. s \in DOMAIN sessions /\ Of(l) = sessions[s] /\ s \in Nat
  BY <1>1, LineTypes DEF LinesInv, Of
<1>3. /\ sessions[s].key \in Keys /\ sessions[s].from \in Nat \ {0} /\ sessions[s].to \in Nat
      /\ range.start \in Nat /\ range.end \in Nat
  <2>1. sessions[s].key \in Keys /\ sessions[s].from \in Nat \ {0} /\ sessions[s].to \in Nat
    BY <1>2, SessionTypes
  <2>2. QED
    BY <2>1, RangeTypes
<1>4. CASE Begins(connectionlog[l])
  <2>1. /\ connections' = With(connections, <<Of(l).key, Of(l).from>>, range.end)
        /\ lastconnections' = With(lastconnections, Of(l).key, <<Of(l).key, Of(l).from>>)
    BY <1>4, ConnectionLineFact
  <2>2. Connection(Of(l)) = <<Of(l).key, Of(l).from>>
    BY <1>4 DEF IsKept, Begins, Connection
  <2>3. QED
    <3> DEFINE c == Connection(Of(l))
    <3>1. connections' = With(connections, c, range.end) /\ lastconnections' = With(lastconnections, Of(l).key, c)
      BY <2>1, <2>2
    <3> HIDE DEF c
    <3>2. /\ DOMAIN connections' = DOMAIN connections \cup {c} /\ connections'[c] = range.end
          /\ \A z \in DOMAIN connections : z # c => connections'[z] = connections[z]
      BY <3>1 DEF With
    <3>3. QED
      BY <1>4, <3>1, <3>2, Zenon DEF c
<1>5. CASE ~Begins(connectionlog[l])
  <2>1. PICK c : /\ IF Of(l).key \in DOMAIN lastconnections
                    THEN c = lastconnections[Of(l).key] ELSE c = <<Of(l).key, range.start>>
                 /\ connections' = With(connections, c, Of(l).to)
                 /\ lastconnections' = With(lastconnections, Of(l).key, c)
    BY <1>5, ConnectionLineFact
  <2>11. /\ DOMAIN connections' = DOMAIN connections \cup {c} /\ connections'[c] = Of(l).to
         /\ \A z \in DOMAIN connections : z # c => connections'[z] = connections[z]
    <3>1. connections' = With(connections, c, Of(l).to)
      BY <2>1
    <3>2. QED
      BY <3>1 DEF With
  <2>2. InRange(sessions[s].to)
    BY <1>2, <1>5 DEF IsKept, Begins
  <2>3. Ends(connectionlog[l])
    BY <1>1, <1>5, LineTypes DEF Begins, Ends
  <2>4. PICK k \in 1..(l-1) : Begins(connectionlog[k]) /\ connectionlog[k].session = s
    BY <1>1, <2>3 DEF LinesInv
  <2>5. k \in 1..lines /\ Of(k) = sessions[s]
    BY <1>1, <2>4 DEF Of
  <2>6. InRange(sessions[s].from) => IsKept(k)
    BY <2>4, <2>5 DEF IsKept, Begins
  <2>7. /\ Closed(sessions[s]) /\ sessions[s].from <= sessions[s].to
    BY <1>1, <1>2, <2>3 DEF LinesInv, SessionsInv
  <2>8. CASE Of(l).key \notin DOMAIN lastconnections
    <3>1. ~InRange(sessions[s].from)
      BY <1>2, <2>5, <2>6, <2>8 DEF ConnectionsInv
    <3>2. c = Connection(Of(l))
      BY <1>2, <2>1, <2>8, <3>1 DEF Connection
    <3>3. QED
      BY <1>5, <2>1, <2>11, <3>2, Zenon
  <2>9. CASE Of(l).key \in DOMAIN lastconnections
    <3>1. PICK m \in 1..lines :
            /\ IsKept(m) /\ Of(m).key = Of(l).key /\ lastconnections[Of(l).key] = Connection(Of(m))
            /\ \A j \in 1..lines : IsKept(j) /\ Of(j).key = Of(l).key =>
                 connectionlog[j].session <= connectionlog[m].session
      BY <2>9 DEF ConnectionsInv
    <3>2. PICK r \in Nat : /\ r = connectionlog[m].session /\ m \in DOMAIN connectionlog
                           /\ r \in DOMAIN sessions /\ Of(m) = sessions[r]
      <4>1. m \in DOMAIN connectionlog
        BY <1>1 DEF Types
      <4>2. QED
        BY <4>1, LineTypes DEF LinesInv, Of
    <3>3. ~(s < r)
      <4>1. s < r => l < m
        BY <1>1, <1>2, <3>1, <3>2 DEF LinesInv
      <4>2. QED
        BY <1>1, <4>1
    <3>4. ~(r < s)
      <4>1. SUFFICES ASSUME r < s
                     PROVE  FALSE
        OBVIOUS
      <4>2. ~InRange(sessions[s].from)
        BY <1>2, <2>4, <2>5, <2>6, <3>1, <3>2, <4>1
      <4>3. sessions[r].from <= sessions[r].to /\ sessions[r].to < sessions[s].from
        BY <1>2, <3>1, <3>2, <4>1, SessionOrder
      <4>4. sessions[r].from \in Nat /\ sessions[r].to \in Nat
        BY <3>2, SessionTypes
      <4>5. sessions[s].from < Earliest /\ Earliest \in Nat
        BY <1>3, <2>2, <2>7, <4>2, RangeFact
      <4>6. ~InRange(sessions[r].from) /\ ~InRange(sessions[r].to)
        BY <1>3, <4>3, <4>4, <4>5, RangeFact
      <4>7. QED
        BY <3>1, <3>2, <4>6 DEF IsKept
    <3>5. c = Connection(Of(l))
      BY <1>2, <2>1, <2>9, <3>1, <3>2, <3>3, <3>4
    <3>6. QED
      BY <1>5, <2>1, <2>11, <3>5, Zenon
  <2>10. QED
    BY <2>8, <2>9
<1>6. QED
  BY <1>4, <1>5


\* What the invariant says depends on these variables alone.
LEMMA ConnectionsFrame ==
  ASSUME ConnectionsInv, UNCHANGED <<range, lines, connections, lastconnections, sessions, connectionlog>>,
         \/ ~Saved /\ ~Saved'
         \/ Saved /\ Saved' /\ UNCHANGED <<logs, history>>
  PROVE  ConnectionsInv'
<1>1. \A l : (IsKept(l)' <=> IsKept(l)) /\ Of(l)' = Of(l) /\ Connection(Of(l))' = Connection(Of(l))
  BY DEF IsKept, InRange, Of, Begins, Connection
<1>2. \A l : Ends(connectionlog[l])' <=> Ends(connectionlog[l])
  BY DEF Ends
<1>3. UNCHANGED <<logs, history>> => Missing' = Missing
  BY DEF Missing, KeyOfXid, XidOf, ExtractedXids
<1>4. \A l \in 1..lines' : IsKept(l)' =>
        (Connection(Of(l)) \in DOMAIN connections)' /\ (Of(l).key \in DOMAIN lastconnections)'
  BY <1>1 DEF ConnectionsInv
<1>5. \A k \in DOMAIN lastconnections' : \E l \in 1..lines' :
        /\ IsKept(l)' /\ (Of(l).key = k)' /\ (lastconnections[k] = Connection(Of(l)))'
        /\ \A m \in 1..lines' : IsKept(m)' /\ (Of(m).key = k)' =>
             (connectionlog[m].session <= connectionlog[l].session)'
  BY <1>1 DEF ConnectionsInv
<1>6. \A c \in DOMAIN connections' :
        \/ /\ \E l \in 1..lines' : IsKept(l)' /\ (c = Connection(Of(l)))'
           /\ \/ (connections[c] = range.end)'
              \/ \E l \in 1..lines' : /\ IsKept(l)' /\ (c = Connection(Of(l)))'
                                     /\ Ends(connectionlog[l])'
                                     /\ (connections[c] = Of(l).to)'
        \/ Saved /\ c[1] \in Missing /\ c[2] = range.start /\ connections[c] = range.end
  BY <1>1, <1>2 DEF ConnectionsInv
<1>7. Saved => \A k \in Missing : <<k, range.start>> \in DOMAIN connections
  BY DEF ConnectionsInv
<1>8. CASE ~Saved /\ ~Saved'
  BY <1>4, <1>5, <1>6, <1>8 DEF ConnectionsInv
<1>9. CASE Saved /\ UNCHANGED <<logs, history>> /\ Saved'
  BY <1>3, <1>4, <1>5, <1>6, <1>7, <1>9 DEF ConnectionsInv
<1>10. QED
  BY <1>8, <1>9

\* Before a line was read there is nothing to say of connections.
LEMMA NoConnections ==
  ASSUME lines' = 0, connections' = <<>>, lastconnections' = <<>>, ~Saved'
  PROVE  ConnectionsInv'
<1>1. 1..lines' = {} /\ DOMAIN connections' = {} /\ DOMAIN lastconnections' = {}
  OBVIOUS
<1>2. QED
  BY <1>1 DEF ConnectionsInv

\* A line of the connection log.
LEMMA LineKeepsConnections ==
  ASSUME Types, PhaseInv, SessionsInv, LinesInv, ConnectionsInv, ParseConnectionLog,
         UNCHANGED <<clock, sessions, history, connectionlog, activitylog, faults>>
  PROVE  ConnectionsInv'
<1>l. lines \in Nat
  BY DEF Types
<1>d. PICK l \in Nat : l = lines + 1
  BY <1>l
<1>1. /\ phase = "connectionlog" /\ phase' = phase /\ range' = range
      /\ lines < Len(connectionlog) /\ lines' = l
  BY <1>d, ConnectionLineFact
<1>2. l \in DOMAIN connectionlog
  BY <1>l, <1>d, <1>1 DEF Types
<1>3. \A m : m \in 1..lines' <=> m \in 1..lines \/ m = l
  BY <1>l, <1>d, <1>1, <1>2
<1>4. ~Saved /\ ~Saved'
  BY <1>1 DEF Saved
<1>5. \A m : (IsKept(m)' <=> IsKept(m)) /\ Of(m)' = Of(m) /\ Connection(Of(m))' = Connection(Of(m))
  BY <1>1 DEF IsKept, InRange, Of, Begins, Connection
<1>6. \A m : (Ends(connectionlog[m])' <=> Ends(connectionlog[m])) /\ connectionlog[m]' = connectionlog[m]
  BY DEF Ends
<1>7. CASE ~IsKept(l)
  <2>1. UNCHANGED <<connections, lastconnections>>
    BY <1>d, <1>7, ConnectionLineFact
  <2>2. \A m \in 1..lines' : IsKept(m)' =>
          (Connection(Of(m)) \in DOMAIN connections)' /\ (Of(m).key \in DOMAIN lastconnections)'
    BY <1>3, <1>5, <1>7, <2>1 DEF ConnectionsInv
  <2>3. \A k \in DOMAIN lastconnections' : \E m \in 1..lines' :
          /\ IsKept(m)' /\ (Of(m).key = k)' /\ (lastconnections[k] = Connection(Of(m)))'
          /\ \A j \in 1..lines' : IsKept(j)' /\ (Of(j).key = k)' =>
               (connectionlog[j].session <= connectionlog[m].session)'
    BY <1>3, <1>5, <1>7, <2>1 DEF ConnectionsInv
  <2>4. \A c \in DOMAIN connections' :
          /\ \E m \in 1..lines' : IsKept(m)' /\ (c = Connection(Of(m)))'
          /\ \/ (connections[c] = range.end)'
             \/ \E m \in 1..lines' : /\ IsKept(m)' /\ (c = Connection(Of(m)))'
                                    /\ Ends(connectionlog[m])'
                                    /\ (connections[c] = Of(m).to)'
    <3>1. SUFFICES ASSUME NEW c \in DOMAIN connections
                   PROVE  /\ \E m \in 1..lines' : IsKept(m)' /\ (c = Connection(Of(m)))'
                          /\ \/ (connections[c] = range.end)'
                             \/ \E m \in 1..lines' : /\ IsKept(m)' /\ (c = Connection(Of(m)))'
                                                    /\ Ends(connectionlog[m])'
                                                    /\ (connections[c] = Of(m).to)'
      BY <2>1
    <3>2. /\ \E m \in 1..lines : IsKept(m) /\ c = Connection(Of(m))
          /\ \/ connections[c] = range.end
             \/ \E m \in 1..lines : /\ IsKept(m) /\ c = Connection(Of(m))
                                    /\ Ends(connectionlog[m])
                                    /\ connections[c] = Of(m).to
      BY <1>4 DEF ConnectionsInv
    <3>3. QED
      BY <1>1, <1>3, <1>5, <1>6, <2>1, <3>2
  <2>5. QED
    BY <1>4, <2>2, <2>3, <2>4 DEF ConnectionsInv
<1>8. CASE IsKept(l)
  <2> DEFINE pk == Connection(Of(l))
  <2>1. /\ DOMAIN connections' = DOMAIN connections \cup {pk}
        /\ connections'[pk] = IF Begins(connectionlog[l]) THEN range.end ELSE Of(l).to
        /\ \A c \in DOMAIN connections : c # pk => connections'[c] = connections[c]
        /\ lastconnections' = With(lastconnections, Of(l).key, pk)
    BY <1>d, <1>8, KeptLine
  <2>2. /\ DOMAIN lastconnections' = DOMAIN lastconnections \cup {Of(l).key}
        /\ lastconnections'[Of(l).key] = pk
        /\ \A k \in DOMAIN lastconnections : k # Of(l).key => lastconnections'[k] = lastconnections[k]
    <3>1. lastconnections' = With(lastconnections, Of(l).key, pk)
      BY <2>1
    <3> HIDE DEF pk
    <3>2. QED
      BY <3>1 DEF With
  <2> HIDE DEF pk
  <2>3. \A m \in 1..lines' : IsKept(m)' =>
          (Connection(Of(m)) \in DOMAIN connections)' /\ (Of(m).key \in DOMAIN lastconnections)'
    BY <1>3, <1>5, <2>1, <2>2 DEF ConnectionsInv, pk
  <2>4. ASSUME NEW k \in DOMAIN lastconnections'
        PROVE  \E m \in 1..lines' :
          /\ IsKept(m)' /\ (Of(m).key = k)' /\ (lastconnections[k] = Connection(Of(m)))'
          /\ \A j \in 1..lines' : IsKept(j)' /\ (Of(j).key = k)' =>
               (connectionlog[j].session <= connectionlog[m].session)'
    <3>1. CASE k # Of(l).key
      <4>1. k \in DOMAIN lastconnections /\ lastconnections'[k] = lastconnections[k]
        BY <2>2, <2>4, <3>1
      <4>2. PICK m \in 1..lines : 
               /\ IsKept(m) /\ Of(m).key = k /\ lastconnections[k] = Connection(Of(m))
               /\ \A j \in 1..lines : IsKept(j) /\ Of(j).key = k =>
                     connectionlog[j].session <= connectionlog[m].session
        BY <4>1 DEF ConnectionsInv
      <4>3. QED
        BY <1>3, <1>5, <1>6, <3>1, <4>1, <4>2
    <3>2. CASE k = Of(l).key
      <4>1. \A j \in 1..lines' : IsKept(j) /\ Of(j).key = k =>
              connectionlog[j].session <= connectionlog[l].session
        <5>1. SUFFICES ASSUME NEW j \in 1..lines', Of(j).key = k
                       PROVE  connectionlog[j].session <= connectionlog[l].session
          OBVIOUS
        <5>2. j \in DOMAIN connectionlog /\ ~(l < j) /\ j \in Nat
          BY <1>1, <1>2 DEF Types
        <5>3. connectionlog[j].session \in Nat /\ connectionlog[l].session \in Nat
          BY <1>2, <5>2, LineTypes
        <5>4. ~(connectionlog[l].session < connectionlog[j].session)
          BY <1>2, <3>2, <5>1, <5>2 DEF LinesInv, Of
        <5>5. QED
          BY <5>3, <5>4
      <4>2. l \in 1..lines' /\ IsKept(l)' /\ (Of(l).key)' = k /\ lastconnections'[k] = Connection(Of(l))'
        BY <1>3, <1>5, <1>8, <2>2, <3>2 DEF pk
      <4>3. QED
        BY <1>5, <1>6, <4>1, <4>2
    <3>3. QED
      BY <3>1, <3>2
  <2>5. ASSUME NEW c \in DOMAIN connections'
        PROVE  /\ \E m \in 1..lines' : IsKept(m)' /\ (c = Connection(Of(m)))'
               /\ \/ (connections[c] = range.end)'
                  \/ \E m \in 1..lines' : /\ IsKept(m)' /\ (c = Connection(Of(m)))'
                                         /\ Ends(connectionlog[m])'
                                         /\ (connections[c] = Of(m).to)'
    <3>1. CASE c # pk
      <4>1. c \in DOMAIN connections /\ connections'[c] = connections[c]
        BY <2>1, <2>5, <3>1
      <4>2. /\ \E m \in 1..lines : IsKept(m) /\ c = Connection(Of(m))
            /\ \/ connections[c] = range.end
               \/ \E m \in 1..lines : /\ IsKept(m) /\ c = Connection(Of(m))
                                      /\ Ends(connectionlog[m])
                                      /\ connections[c] = Of(m).to
        BY <1>4, <4>1 DEF ConnectionsInv
      <4>3. QED
        BY <1>1, <1>3, <1>5, <1>6, <4>1, <4>2
    <3>2. CASE c = pk
      <4>1. l \in 1..lines' /\ IsKept(l)' /\ c = Connection(Of(l))'
        BY <1>3, <1>5, <1>8, <3>2 DEF pk
      <4>2. CASE Begins(connectionlog[l])
        BY <1>1, <2>1, <3>2, <4>1, <4>2
      <4>3. CASE ~Begins(connectionlog[l])
        <5>1. Ends(connectionlog[l])'
          BY <1>2, <1>6, <4>3, LineTypes DEF Begins, Ends
        <5>2. connections'[c] = Of(l)'.to
          BY <1>5, <2>1, <3>2, <4>3
        <5>3. QED
          BY <4>1, <5>1, <5>2
      <4>4. QED
        BY <4>2, <4>3
    <3>3. QED
      BY <3>1, <3>2
  <2>6. QED
    BY <1>4, <2>3, <2>4, <2>5 DEF ConnectionsInv
<1>9. QED
  BY <1>7, <1>8

\* save_logs() adds connections for the clients that have none.
LEMMA SavingKeepsConnections ==
  ASSUME Types, PhaseInv, ConnectionsInv, SaveLogs,
         UNCHANGED <<range, lines, logs, lastconnections, sessions, history, connectionlog>>
  PROVE  ConnectionsInv'
<1> DEFINE added == {<<k, range.start>> : k \in Missing}
<1>1. /\ ~Saved /\ Saved'
      /\ connections' = [c \in DOMAIN connections \cup added |->
                            IF c[1] \in Missing THEN range.end ELSE connections[c]]
  BY DEF SaveLogs, ActivityRead, Saved
<1>2. /\ \A k \in Missing : <<k, range.start>> \in added
      /\ \A c \in added : c[1] \in Missing /\ c[2] = range.start
  OBVIOUS
<1> HIDE DEF added
<1>3. \A l : (IsKept(l)' <=> IsKept(l)) /\ Of(l)' = Of(l) /\ Connection(Of(l))' = Connection(Of(l))
  BY DEF IsKept, InRange, Of, Begins, Connection
<1>4. \A l : Ends(connectionlog[l])' <=> Ends(connectionlog[l])
  BY DEF Ends
<1>5. Missing' = Missing
  BY DEF Missing, KeyOfXid, XidOf, ExtractedXids
<1>6. \A l \in 1..lines' : IsKept(l)' =>
        (Connection(Of(l)) \in DOMAIN connections)' /\ (Of(l).key \in DOMAIN lastconnections)'
  BY <1>1, <1>3 DEF ConnectionsInv
<1>7. \A k \in DOMAIN lastconnections' : \E l \in 1..lines' :
        /\ IsKept(l)' /\ (Of(l).key = k)' /\ (lastconnections[k] = Connection(Of(l)))'
        /\ \A m \in 1..lines' : IsKept(m)' /\ (Of(m).key = k)' =>
             (connectionlog[m].session <= connectionlog[l].session)'
  BY <1>3 DEF ConnectionsInv
<1>8. \A c \in DOMAIN connections' :
        \/ /\ \E l \in 1..lines' : IsKept(l)' /\ (c = Connection(Of(l)))'
           /\ \/ (connections[c] = range.end)'
              \/ \E l \in 1..lines' : /\ IsKept(l)' /\ (c = Connection(Of(l)))'
                                     /\ Ends(connectionlog[l])'
                                     /\ (connections[c] = Of(l).to)'
        \/ c[1] \in Missing /\ c[2] = range.start /\ (connections[c] = range.end)'
  <2>1. SUFFICES ASSUME NEW c \in DOMAIN connections, c \notin added
                 PROVE  /\ \E l \in 1..lines' : IsKept(l)' /\ (c = Connection(Of(l)))'
                        /\ \/ (connections[c] = range.end)'
                           \/ \E l \in 1..lines' : /\ IsKept(l)' /\ (c = Connection(Of(l)))'
                                                  /\ Ends(connectionlog[l])'
                                                  /\ (connections[c] = Of(l).to)'
    BY <1>1, <1>2
  <2>2. /\ \E l \in 1..lines : IsKept(l) /\ c = Connection(Of(l))
        /\ \/ connections[c] = range.end
           \/ \E l \in 1..lines : /\ IsKept(l) /\ c = Connection(Of(l))
                                  /\ Ends(connectionlog[l])
                                  /\ connections[c] = Of(l).to
    BY <1>1 DEF ConnectionsInv
  <2>3. c[1] \in DOMAIN lastconnections
    BY <2>2 DEF ConnectionsInv, Connection
  <2>4. connections'[c] = connections[c]
    BY <1>1, <2>3 DEF Missing
  <2>5. QED
    BY <1>3, <1>4, <2>2, <2>4
<1>9. \A k \in Missing' : <<k, range.start>>' \in DOMAIN connections'
  BY <1>1, <1>2, <1>5
<1>10. QED
  BY <1>1, <1>5, <1>6, <1>7, <1>8, <1>9 DEF ConnectionsInv

\* The invariant of the connections is inductive.
LEMMA ConnectionsStep ==
  ASSUME Types, PhaseInv, SessionsInv, LinesInv, ConnectionsInv, [Next]_vars
  PROVE  ConnectionsInv'
<1>1. CASE ClusterStep
  <2>1. lines' = 0 /\ connections' = <<>> /\ lastconnections' = <<>> /\ ~Saved'
    BY <1>1, ClusterFrame DEF PhaseInv, Saved
  <2>2. QED
    BY <2>1, NoConnections
<1>2. CASE ExtractStep \/ LoaderStep \/ UNCHANGED vars
  <2>1. UNCHANGED <<clock, sessions, history, connectionlog, activitylog, faults>>
    BY <1>2, OtherFrame
  <2>2. CASE StartExtract /\ UNCHANGED <<lines, file, entry, logs, connections, lastconnections>>
    <3>1. lines' = 0 /\ connections' = <<>> /\ lastconnections' = <<>> /\ ~Saved'
      BY <2>2 DEF StartExtract, PhaseInv, Saved
    <3>2. QED
      BY <3>1, NoConnections
  <2>3. CASE ParseConnectionLog
    BY <2>1, <2>3, LineKeepsConnections
  <2>4. CASE ConnectionLogRead /\ UNCHANGED <<range, lines, file, entry, logs, connections, lastconnections>>
    <3>1. ~Saved /\ ~Saved'
      BY <2>4 DEF ConnectionLogRead, Saved
    <3>2. QED
      BY <2>1, <2>4, <3>1, ConnectionsFrame
  <2>5. CASE ParseUserActivityLog /\ UNCHANGED <<phase, range, lines, file, connections, lastconnections>>
    <3>1. ~Saved /\ ~Saved'
      BY <2>5 DEF ParseUserActivityLog, Saved
    <3>2. QED
      BY <2>1, <2>5, <3>1, ConnectionsFrame
  <2>6. CASE NextActivityFile /\ UNCHANGED <<phase, range, lines, logs, connections, lastconnections>>
    <3>1. ~Saved /\ ~Saved'
      BY <2>6 DEF NextActivityFile, Saved
    <3>2. QED
      BY <2>1, <2>6, <3>1, ConnectionsFrame
  <2>7. CASE SaveLogs /\ UNCHANGED <<range, lines, file, entry, logs, lastconnections>>
    BY <2>1, <2>7, SavingKeepsConnections
  <2>8. CASE /\ UNCHANGED <<range, lines, file, entry, logs, connections, lastconnections>>
             /\ NothingFound \/ UNCHANGED phase \/ (Saved /\ Loaded')
    <3>1. (~Saved /\ ~Saved') \/ (Saved /\ Saved')
      BY <2>8 DEF NothingFound, ActivityRead, Saved, Loaded
    <3>2. QED
      BY <2>1, <2>8, <3>1, ConnectionsFrame
  <2>9. QED
    BY <1>2, <2>2, <2>3, <2>4, <2>5, <2>6, <2>7, <2>8, ParserCases
<1>3. QED
  BY <1>1, <1>2, StepCases

---------------------------------------------------------------------------
(* The entries of the activity log.                                        *)

\* A FETCH after two dashes is a comment.
LEMMA SilentFact ==
  ASSUME NEW t \in AllTexts
  PROVE  /\ Silent(t).word = "comment" /\ Silent(t).name = t.name
         /\ Silent(t) \in EntryTexts
         /\ t \in EntryTexts
         /\ t.word # "comment" /\ (IsFetch(t) <=> t.word = "fetch")
         /\ IsFetch(Silent(t))
<1>1. /\ Silent(t).word = "comment" /\ Silent(t).name = t.name
      /\ Silent(t) \in EntryTexts
      /\ t \in EntryTexts
  BY DEF Silent, AllTexts, EntryTexts
<1>2. t.word \in Words
  BY DEF AllTexts
<1>3. t.word # "comment"
  BY <1>2 DEF Words
<1>4. QED
  BY <1>1, <1>3 DEF IsFetch

\* A statement that is dropped as a duplicate says the same as the one before.
LEMMA DuplicateFact ==
  ASSUME NEW t \in AllTexts, NEW u \in AllTexts, NEW e, Stands(e, t), IsDuplicate(e, u)
  PROVE  SameText(t, u) \/ (t.word = u.word /\ u.word \in Definitions /\ u.ended)
<1>1. e = t \/ e.word = "comment"
  BY SilentFact DEF Stands
<1>2. CASE e = t
  BY <1>2 DEF IsDuplicate
<1>3. CASE e.word = "comment"
  <2>1. SameText(e, u) => u.word = "comment"
    BY <1>3 DEF SameText, AllTexts
  <2>2. QED
    BY <1>3, <2>1 DEF IsDuplicate, Definitions
<1>4. QED
  BY <1>1, <1>2, <1>3

\* A statement that is stored twice is a FETCH, stored as a comment, or one whose
\* repetition is not recognised.
LEMMA RepeatFact ==
  ASSUME NEW t \in AllTexts, t.word # "internal", NEW e, Stands(e, t), ~IsDuplicate(e, t),
         NEW u, Stands(u, t), IsFetch(e) /\ IsFetch(t) => u = Silent(t)
  PROVE  RunsAgain(u)
<1>1. t.word \in Words
  BY DEF AllTexts
<1>2. CASE t.word = "fetch"
  <2>1. IsFetch(t) /\ IsFetch(e)
    BY <1>2, SilentFact DEF Stands
  <2>2. QED
    BY <2>1, SilentFact DEF RunsAgain
<1>3. CASE t.word # "fetch"
  <2>1. e = t /\ u = t
    BY <1>3 DEF Stands
  <2>2. SameText(t, t)
    BY DEF SameText, AllTexts
  <2>3. QED
    BY <1>1, <1>3, <2>1, <2>2 DEF IsDuplicate, Definitions, Words, RunsAgain, Unrecognised
<1>4. QED
  BY <1>2, <1>3

\* An entry is dropped, or added to those of its name.
Dropped(q, b, i) == q = b /\ b # <<>> /\ IsDuplicate(b[Len(b)].text, history[i].text)
Added(q, b, i) ==
  /\ q # <<>> /\ Len(q) = Len(b) + 1 /\ DOMAIN q = DOMAIN b \cup {Len(q)}
  /\ \A k \in DOMAIN b : q[k] = b[k]
  /\ q[Len(q)].id = i /\ Stands(q[Len(q)].text, history[i].text)
  /\ q[Len(q)].text.word = "comment" => b # <<>> /\ IsFetch(b[Len(b)].text)
  /\ b # <<>> => /\ ~IsDuplicate(b[Len(b)].text, history[i].text)
                 /\ IsFetch(b[Len(b)].text) /\ IsFetch(history[i].text) =>
                      q[Len(q)].text = Silent(history[i].text)

\* What is done with the next statement of a transaction's second, for any
\* entries before it.
LEMMA AppendEntryFact ==
  ASSUME NEW b \in Seq(Entry), NEW i \in Nat, history[i].text \in AllTexts
  PROVE  /\ AppendEntry(b, i) \in Seq(Entry) \ {<<>>}
         /\ Dropped(AppendEntry(b, i), b, i) \/ Added(AppendEntry(b, i), b, i)
<1> DEFINE text == history[i].text
           u == IF b # <<>> /\ IsFetch(b[Len(b)].text) /\ IsFetch(text) THEN Silent(text) ELSE text
           e == [id |-> i, text |-> u]
<1>1. Last(b) = b[Len(b)]
  BY DEF Last
<1>2. /\ Stands(u, text) /\ u \in EntryTexts
      /\ b # <<>> /\ IsFetch(b[Len(b)].text) /\ IsFetch(text) => u = Silent(text)
      /\ u.word = "comment" => b # <<>> /\ IsFetch(b[Len(b)].text)
  BY SilentFact DEF Stands
<1>3. CASE b # <<>> /\ IsDuplicate(b[Len(b)].text, text)
  <2>1. AppendEntry(b, i) = b
    BY <1>1, <1>3 DEF AppendEntry
  <2>2. QED
    BY <1>3, <2>1 DEF Dropped
<1>4. CASE ~(b # <<>> /\ IsDuplicate(b[Len(b)].text, text))
  <2>1. AppendEntry(b, i) = Append(b, e)
    <3>1. CASE b = <<>>
      <4>1. AppendEntry(b, i) = <<e>>
        BY <3>1 DEF AppendEntry
      <4>2. QED
        BY <3>1, <4>1
    <3>2. CASE b # <<>>
      BY <1>1, <1>4, <3>2 DEF AppendEntry
    <3>3. QED
      BY <3>1, <3>2
  <2>2. e \in Entry /\ e.id = i /\ e.text = u
    BY <1>2 DEF Entry
  <2> HIDE DEF e
  <2>3. PICK q : q = AppendEntry(b, i)
    OBVIOUS
  <2>4. /\ q \in Seq(Entry) /\ q # <<>> /\ Len(q) = Len(b) + 1
        /\ DOMAIN q = DOMAIN b \cup {Len(b) + 1}
        /\ \A k \in DOMAIN b : q[k] = b[k]
        /\ q[Len(b) + 1] = e
    BY <2>1, <2>2, <2>3, AppendFact
  <2> HIDE DEF u
  <2>5. q[Len(q)].id = i /\ q[Len(q)].text = u
    BY <2>2, <2>4
  <2>6. Added(q, b, i)
    BY <1>2, <1>4, <2>4, <2>5 DEF Added
  <2>7. QED
    BY <2>3, <2>4, <2>6
<1>5. QED
  BY <1>3, <1>4

\* What one entry of an activity file does.
LEMMA StoreFact ==
  ASSUME Types, FilesInv, ParseUserActivityLog
  PROVE  /\ phase = "useractivitylog" /\ file \in DOMAIN activitylog
         /\ entry \in DOMAIN activitylog[file] /\ entry < Len(activitylog[file])
         /\ file' = file /\ entry' = entry + 1
         /\ activitylog[file][entry] \in DOMAIN history
         /\ ~IsValidLog(activitylog[file][entry]) => logs' = logs
         /\ IsValidLog(activitylog[file][entry]) =>
              \E b \in Seq(Entry), q \in Seq(Entry) \ {<<>>} :
                /\ DOMAIN logs' = DOMAIN logs \cup {Name(activitylog[file][entry])}
                /\ logs'[Name(activitylog[file][entry])] = q
                /\ \A n \in DOMAIN logs :
                     n # Name(activitylog[file][entry]) => logs'[n] = logs[n]
                /\ b = IF Name(activitylog[file][entry]) \in DOMAIN logs
                       THEN logs[Name(activitylog[file][entry])] ELSE <<>>
                /\ \/ Dropped(q, b, activitylog[file][entry])
                   \/ Added(q, b, activitylog[file][entry])
<1> DEFINE i == activitylog[file][entry]
<1>1. /\ phase = "useractivitylog" /\ file <= Len(activitylog) /\ entry < Len(activitylog[file])
      /\ logs' = Store(logs, i) /\ entry' = entry + 1 /\ file' = file
  BY DEF ParseUserActivityLog
<1>2. file \in DOMAIN activitylog
  BY <1>1 DEF Types
<1>3. entry \in DOMAIN activitylog[file]
  <2>1. activitylog[file] \in Seq(Nat) /\ entry \in Nat \ {0}
    BY <1>2, FileTypes DEF Types
  <2>2. QED
    BY <1>1, <2>1
<1>4. i \in DOMAIN history
  BY <1>2, <1>3 DEF FilesInv
<1> HIDE DEF i
<1>5. CASE ~IsValidLog(i)
  <2>1. logs' = logs
    BY <1>1, <1>5 DEF Store
  <2>2. QED
    BY <1>1, <1>2, <1>3, <1>4, <1>5, <2>1 DEF i
<1>6. CASE IsValidLog(i)
  <2> DEFINE b == IF Name(i) \in DOMAIN logs THEN logs[Name(i)] ELSE <<>>
  <2>1. logs' = With(logs, Name(i), AppendEntry(b, i))
    BY <1>1, <1>6 DEF Store, Name
  <2>2. b \in Seq(Entry)
    <3>1. Name(i) \in DOMAIN logs => logs[Name(i)] \in Seq(Entry)
      BY DEF Types
    <3>2. <<>> \in Seq(Entry)
      OBVIOUS
    <3>3. QED
      BY <3>1, <3>2
  <2>3. b = IF Name(i) \in DOMAIN logs THEN logs[Name(i)] ELSE <<>>
    OBVIOUS
  <2> HIDE DEF b
  <2>4. i \in Nat /\ history[i].text \in AllTexts
    BY <1>4, RecordTypes, ExtractAssumption
  <2>5. PICK q : q = AppendEntry(b, i)
    OBVIOUS
  <2>6. q \in Seq(Entry) \ {<<>>} /\ (Dropped(q, b, i) \/ Added(q, b, i))
    BY <2>2, <2>4, <2>5, AppendEntryFact
  <2>7. /\ DOMAIN logs' = DOMAIN logs \cup {Name(i)} /\ logs'[Name(i)] = q
        /\ \A n \in DOMAIN logs : n # Name(i) => logs'[n] = logs[n]
    <3>1. logs' = With(logs, Name(i), q)
      BY <2>1, <2>5
    <3>2. QED
      BY <3>1 DEF With
  <2>8. \E c \in Seq(Entry), p \in Seq(Entry) \ {<<>>} :
          /\ DOMAIN logs' = DOMAIN logs \cup {Name(i)}
          /\ logs'[Name(i)] = p
          /\ \A n \in DOMAIN logs : n # Name(i) => logs'[n] = logs[n]
          /\ c = IF Name(i) \in DOMAIN logs THEN logs[Name(i)] ELSE <<>>
          /\ Dropped(p, c, i) \/ Added(p, c, i)
    BY <2>2, <2>3, <2>6, <2>7
  <2>9. QED
    BY <1>1, <1>2, <1>3, <1>4, <1>6, <2>8, Zenon DEF i
<1>7. QED
  BY <1>5, <1>6


\* The entries of one name, after one that was dropped or added.
LEMMA GrownFact ==
  ASSUME Types, FilesInv, EntriesInv, file \in DOMAIN activitylog, entry \in DOMAIN activitylog[file],
         NEW i \in DOMAIN history, i = activitylog[file][entry], IsValidLog(i),
         NEW b \in Seq(Entry), NEW q \in Seq(Entry),
         b = IF Name(i) \in DOMAIN logs THEN logs[Name(i)] ELSE <<>>,
         Dropped(q, b, i) \/ Added(q, b, i)
  PROVE  /\ \A k \in DOMAIN q : EntryInv(Name(i), q[k]) /\ q[k].id <= i
         /\ InOrder(q) /\ AfterFetch(q)
<1>1. i \in Nat /\ history[i].text \in AllTexts /\ history[i].text.word # "internal"
  BY RecordTypes, ExtractAssumption DEF IsValidLog
<1>2. ~IsRead(file, entry)
  BY FileTypes DEF IsRead, Types
<1>3. \A k \in DOMAIN b : EntryInv(Name(i), b[k]) /\ b[k].id <= i
  BY <1>2 DEF EntriesInv
<1>4. InOrder(b) /\ AfterFetch(b)
  <2>1. CASE Name(i) \in DOMAIN logs
    BY <2>1 DEF EntriesInv
  <2>2. CASE Name(i) \notin DOMAIN logs
    BY <2>2 DEF InOrder, AfterFetch
  <2>3. QED
    BY <2>1, <2>2
<1>5. CASE Dropped(q, b, i)
  BY <1>3, <1>4, <1>5 DEF Dropped
<1>6. CASE Added(q, b, i)
  <2>1. /\ Len(q) = Len(b) + 1 /\ DOMAIN q = DOMAIN b \cup {Len(q)} /\ Len(q) \in Nat
        /\ \A k \in DOMAIN b : q[k] = b[k] /\ k < Len(q) /\ k \in Nat
        /\ q[Len(q)].id = i
    BY <1>6 DEF Added
  <2>2. EntryInv(Name(i), q[Len(q)]) 
    BY <1>6, <2>1 DEF Added, EntryInv
  <2>3. ASSUME NEW k \in DOMAIN b, b[k].id = i
        PROVE  RunsAgain(q[Len(q)].text)
    <3>1. b # <<>> /\ Len(b) \in DOMAIN b /\ (k = Len(b) \/ k < Len(b))
      BY <2>3
    <3>2. b[Len(b)].id = i
      <4>1. b[Len(b)].id \in Nat /\ b[Len(b)].id <= i
        BY <3>1, <1>3, RecordTypes DEF EntryInv
      <4>2. i <= b[Len(b)].id
        BY <1>1, <1>4, <2>3, <3>1 DEF InOrder
      <4>3. QED
        BY <1>1, <4>1, <4>2
    <3>3. Stands(b[Len(b)].text, history[i].text)
      BY <1>3, <3>1, <3>2 DEF EntryInv
    <3>4. /\ ~IsDuplicate(b[Len(b)].text, history[i].text)
          /\ Stands(q[Len(q)].text, history[i].text)
          /\ IsFetch(b[Len(b)].text) /\ IsFetch(history[i].text) =>
               q[Len(q)].text = Silent(history[i].text)
      BY <1>6, <3>1 DEF Added
    <3>5. QED
      BY <1>1, <3>3, <3>4, RepeatFact
  <2>4. InOrder(q)
    <3>1. SUFFICES ASSUME NEW k \in DOMAIN q, NEW l \in DOMAIN q, k < l
                   PROVE  /\ q[k].id <= q[l].id
                          /\ q[k].id = q[l].id => RunsAgain(q[l].text)
      BY DEF InOrder
    <3>2. k \in DOMAIN b
      BY <2>1, <3>1
    <3>3. CASE l \in DOMAIN b
      BY <1>4, <2>1, <3>1, <3>2, <3>3 DEF InOrder
    <3>4. CASE l = Len(q)
      BY <1>3, <2>1, <2>3, <3>2, <3>4
    <3>5. QED
      BY <2>1, <3>3, <3>4
  <2>5. AfterFetch(q)
    <3>1. SUFFICES ASSUME NEW k \in DOMAIN q, q[k].text.word = "comment"
                   PROVE  \E l \in DOMAIN q : l < k /\ q[l].text.word = "fetch"
      BY DEF AfterFetch
    <3>2. CASE k \in DOMAIN b
      BY <1>4, <2>1, <3>1, <3>2 DEF AfterFetch
    <3>3. CASE k = Len(q)
      <4>1. b # <<>> /\ IsFetch(b[Len(b)].text) /\ Len(b) \in DOMAIN b
        BY <1>6, <3>1, <3>3 DEF Added
      <4>2. CASE b[Len(b)].text.word = "fetch"
        BY <2>1, <3>3, <4>1, <4>2
      <4>3. CASE b[Len(b)].text.word = "comment"
        <5>1. PICK l \in DOMAIN b : b[l].text.word = "fetch"
          BY <1>4, <4>1, <4>3 DEF AfterFetch
        <5>2. QED
          BY <2>1, <3>3, <5>1
      <4>4. QED
        BY <4>1, <4>2, <4>3 DEF IsFetch
    <3>4. QED
      BY <2>1, <3>2, <3>3
  <2>6. QED
    BY <1>1, <1>3, <2>1, <2>2, <2>4, <2>5
<1>7. QED
  BY <1>5, <1>6

\* What was said of statements is said of the same statements after a step
\* that leaves the log and the range alone.
LEMMA NamesFrame ==
  ASSUME UNCHANGED <<range, history>>
  PROVE  /\ \A i : Name(i)' = Name(i) /\ (IsValidLog(i)' <=> IsValidLog(i))
         /\ \A n, x : EntryInv(n, x)' <=> EntryInv(n, x)
         /\ \A i : SaysTheSame(i)' <=> SaysTheSame(i)
<1>1. \A i : XidOf(i)' = XidOf(i) /\ RecordTime(i)' = RecordTime(i)
  BY DEF XidOf, RecordTime, Second
<1>2. \A i : Name(i)' = Name(i)
  BY <1>1 DEF Name
<1>3. \A i : IsValidLog(i)' <=> IsValidLog(i)
  BY <1>1 DEF IsValidLog, InRange
<1>4. \A n, x : EntryInv(n, x)' <=> EntryInv(n, x)
  BY <1>2, <1>3 DEF EntryInv
<1>5. \A i : SaysTheSame(i)' <=> SaysTheSame(i)
  BY <1>1 DEF SaysTheSame, EarlierInSecond
<1>6. QED
  BY <1>2, <1>3, <1>4, <1>5

\* What the invariant says of entries, after a step that reads none.
LEMMA EntriesFrame ==
  ASSUME EntriesInv, UNCHANGED <<range, history, activitylog, logs>>,
         \A f \in DOMAIN activitylog : \A e \in DOMAIN activitylog[f] : IsRead(f, e) => IsRead(f, e)'
  PROVE  EntriesInv'
<1>1. \A n \in DOMAIN logs' : \A k \in DOMAIN logs'[n] :
        /\ EntryInv(n, logs[n][k])'
        /\ \A f \in DOMAIN activitylog' : \A e \in DOMAIN activitylog'[f] :
             ~IsRead(f, e)' => logs'[n][k].id <= activitylog'[f][e]
  BY NamesFrame DEF EntriesInv
<1>2. \A n \in DOMAIN logs' : InOrder(logs'[n]) /\ AfterFetch(logs'[n])
  BY DEF EntriesInv
<1>3. \A n \in DOMAIN logs' : InOrder(logs[n])' /\ AfterFetch(logs[n])'
  BY <1>2 DEF InOrder, AfterFetch
<1>4. QED
  BY <1>1, <1>3 DEF EntriesInv

\* What the invariant says of statements that were read, after such a step.
LEMMA KeptFrame ==
  ASSUME KeptInv, UNCHANGED <<range, history, activitylog, logs>>,
         \A f \in DOMAIN activitylog : \A e \in DOMAIN activitylog[f] :
           IsRead(f, e)' /\ e < Len(activitylog[f]) => IsRead(f, e)
  PROVE  KeptInv'
BY NamesFrame DEF KeptInv

\* One entry of an activity file.
LEMMA EntryKeepsEntries ==
  ASSUME Types, FilesInv, EntriesInv, ParseUserActivityLog,
         UNCHANGED <<range, history, activitylog>>
  PROVE  EntriesInv'
<1>1. PICK i : i = activitylog[file][entry]
  OBVIOUS
<1>2. /\ file \in DOMAIN activitylog /\ entry \in DOMAIN activitylog[file]
      /\ file' = file /\ entry' = entry + 1 /\ i \in DOMAIN history /\ i \in Nat
      /\ file \in Nat /\ entry \in Nat
  BY <1>1, StoreFact, RecordTypes, FileTypes
<1>3. \A f \in DOMAIN activitylog : \A e \in DOMAIN activitylog[f] :
        ~IsRead(f, e)' => ~IsRead(f, e) /\ (file < f \/ (file = f /\ entry <= e))
  <2>1. SUFFICES ASSUME NEW f \in DOMAIN activitylog, NEW e \in DOMAIN activitylog[f]
                 PROVE  ~IsRead(f, e)' =>
                          ~IsRead(f, e) /\ (file < f \/ (file = f /\ entry <= e))
    OBVIOUS
  <2>2. f \in Nat /\ e \in Nat
    BY FileTypes
  <2>3. QED
    BY <1>2, <2>2 DEF IsRead
<1>4. CASE ~IsValidLog(i)
  <2>1. logs' = logs
    BY <1>1, <1>4, StoreFact
  <2>2. QED
    BY <1>3, <2>1, EntriesFrame
<1>5. CASE IsValidLog(i)
  <2>1. PICK b \in Seq(Entry), q \in Seq(Entry) \ {<<>>} :
          /\ DOMAIN logs' = DOMAIN logs \cup {Name(i)}
          /\ logs'[Name(i)] = q
          /\ \A n \in DOMAIN logs : n # Name(i) => logs'[n] = logs[n]
          /\ b = IF Name(i) \in DOMAIN logs THEN logs[Name(i)] ELSE <<>>
          /\ Dropped(q, b, i) \/ Added(q, b, i)
    BY <1>1, <1>5, StoreFact
  <2>2. /\ \A k \in DOMAIN q : EntryInv(Name(i), q[k]) /\ q[k].id <= i
        /\ InOrder(q) /\ AfterFetch(q)
    BY <1>1, <1>2, <1>5, <2>1, GrownFact
  <2>3. \A f \in DOMAIN activitylog : \A e \in DOMAIN activitylog[f] :
          ~IsRead(f, e)' => i <= activitylog[f][e]
    BY <1>1, <1>2, <1>3 DEF FilesInv
  <2>4. \A n \in DOMAIN logs' : \A k \in DOMAIN logs'[n] :
          /\ EntryInv(n, logs'[n][k])
          /\ \A f \in DOMAIN activitylog : \A e \in DOMAIN activitylog[f] :
               ~IsRead(f, e)' => logs'[n][k].id <= activitylog[f][e]
    <3>1. SUFFICES ASSUME NEW n \in DOMAIN logs', NEW k \in DOMAIN logs'[n]
                   PROVE  /\ EntryInv(n, logs'[n][k])
                          /\ \A f \in DOMAIN activitylog : \A e \in DOMAIN activitylog[f] :
                               ~IsRead(f, e)' => logs'[n][k].id <= activitylog[f][e]
      OBVIOUS
    <3>2. CASE n # Name(i)
      BY <1>3, <2>1, <3>2 DEF EntriesInv
    <3>3. CASE n = Name(i)
      <4>1. PICK x : x = logs'[n][k]
        OBVIOUS
      <4>2. EntryInv(n, x) /\ x.id <= i
        BY <2>1, <2>2, <3>3, <4>1
      <4>3. x.id \in Nat
        BY <4>2, RecordTypes DEF EntryInv
      <4>4. ASSUME NEW f \in DOMAIN activitylog, NEW e \in DOMAIN activitylog[f], ~IsRead(f, e)'
            PROVE  x.id <= activitylog[f][e]
        <5>1. activitylog[f][e] \in Nat
          BY FileTypes
        <5>2. QED
          BY <1>2, <2>3, <4>2, <4>3, <4>4, <5>1
      <4>5. QED
        BY <4>1, <4>2, <4>4
    <3>4. QED
      BY <3>2, <3>3
  <2>5. \A n \in DOMAIN logs' : InOrder(logs'[n]) /\ AfterFetch(logs'[n])
    BY <2>1, <2>2 DEF EntriesInv
  <2>6. \A n \in DOMAIN logs' : InOrder(logs[n])' /\ AfterFetch(logs[n])'
    BY <2>5 DEF InOrder, AfterFetch
  <2>7. \A n \in DOMAIN logs' : \A k \in DOMAIN logs'[n] : EntryInv(n, logs[n][k])'
    BY <2>4, NamesFrame
  <2>8. QED
    BY <2>4, <2>6, <2>7 DEF EntriesInv
<1>6. QED
  BY <1>4, <1>5

\* What was read is kept, or repeats what was read before.
LEMMA EntryKeepsKept ==
  ASSUME Types, FilesInv, EntriesInv, KeptInv, ParseUserActivityLog,
         UNCHANGED <<range, history, activitylog>>
  PROVE  KeptInv'
<1>1. PICK i : i = activitylog[file][entry]
  OBVIOUS
<1>2. /\ file \in DOMAIN activitylog /\ entry \in DOMAIN activitylog[file]
      /\ file' = file /\ entry' = entry + 1 /\ i \in DOMAIN history /\ i \in Nat
      /\ file \in Nat /\ entry \in Nat
  BY <1>1, StoreFact, RecordTypes, FileTypes
<1>3. \A f \in DOMAIN activitylog : \A e \in DOMAIN activitylog[f] :
        IsRead(f, e)' => IsRead(f, e) \/ (f = file /\ e = entry)
  BY <1>2, FileTypes DEF IsRead
<1>4. CASE ~IsValidLog(i)
  <2>1. logs' = logs
    BY <1>1, <1>4, StoreFact
  <2>2. QED
    BY <1>1, <1>3, <1>4, <2>1, NamesFrame DEF KeptInv
<1>5. CASE IsValidLog(i)
  <2>1. PICK b \in Seq(Entry), q \in Seq(Entry) \ {<<>>} :
          /\ DOMAIN logs' = DOMAIN logs \cup {Name(i)}
          /\ logs'[Name(i)] = q
          /\ \A n \in DOMAIN logs : n # Name(i) => logs'[n] = logs[n]
          /\ b = IF Name(i) \in DOMAIN logs THEN logs[Name(i)] ELSE <<>>
          /\ Dropped(q, b, i) \/ Added(q, b, i)
    BY <1>1, <1>5, StoreFact
  <2>2. \A k \in DOMAIN b : k \in DOMAIN q /\ q[k] = b[k]
    BY <2>1 DEF Dropped, Added
  <2>3. SaysTheSame(i) \/ \E k \in DOMAIN q : q[k].id = i
    <3>1. CASE Added(q, b, i)
      BY <3>1 DEF Added
    <3>2. CASE Dropped(q, b, i)
      <4>1. PICK k \in DOMAIN b : k = Len(b)
        BY <3>2 DEF Dropped
      <4>2. Name(i) \in DOMAIN logs /\ b = logs[Name(i)]
        BY <2>1, <4>1
      <4>3. EntryInv(Name(i), b[k]) /\ b[k].id <= i
        <5>1. ~IsRead(file, entry)
          BY <1>2 DEF IsRead
        <5>2. QED
          BY <1>1, <1>2, <4>2, <5>1 DEF EntriesInv
      <4>4. PICK j \in DOMAIN history : j = b[k].id /\ j \in Nat \ {0}
        BY <4>3, RecordTypes DEF EntryInv
      <4>5. XidOf(j) = XidOf(i) /\ RecordTime(j) = RecordTime(i)
        BY <4>3, <4>4 DEF EntryInv, Name
      <4>6. history[j].text \in AllTexts /\ history[i].text \in AllTexts
        BY <1>2, RecordTypes, ExtractAssumption
      <4>7. Stands(b[k].text, history[j].text) /\ IsDuplicate(b[k].text, history[i].text)
        BY <3>2, <4>1, <4>3, <4>4 DEF EntryInv, Dropped
      <4>8. \/ SameText(history[j].text, history[i].text)
            \/ /\ history[j].text.word = history[i].text.word
               /\ history[i].text.word \in Definitions /\ history[i].text.ended
        BY <4>6, <4>7, DuplicateFact
      <4>9. j = i \/ j \in 1..(i-1)
        BY <1>2, <4>3, <4>4
      <4>10. QED
        BY <2>2, <4>1, <4>4, <4>5, <4>8, <4>9 DEF SaysTheSame, EarlierInSecond
    <3>3. QED
      BY <2>1, <3>1, <3>2
  <2>4. ASSUME NEW f \in DOMAIN activitylog, NEW e \in DOMAIN activitylog[f],
               IsRead(f, e)', e < Len(activitylog[f]), IsValidLog(activitylog[f][e])
        PROVE  /\ Name(activitylog[f][e]) \in DOMAIN logs'
               /\ \/ SaysTheSame(activitylog[f][e])
                  \/ \E k \in DOMAIN logs'[Name(activitylog[f][e])] :
                       logs'[Name(activitylog[f][e])][k].id = activitylog[f][e]
    <3>1. PICK a : a = activitylog[f][e]
      OBVIOUS
    <3>2. CASE a = i
      BY <2>1, <2>3, <3>1, <3>2
    <3>3. CASE a # i
      <4>1. IsRead(f, e)
        BY <1>1, <1>3, <2>4, <3>1, <3>3
      <4>2. /\ Name(a) \in DOMAIN logs
            /\ SaysTheSame(a) \/ \E k \in DOMAIN logs[Name(a)] : logs[Name(a)][k].id = a
        BY <2>4, <3>1, <4>1 DEF KeptInv
      <4>3. \A k \in DOMAIN logs[Name(a)] :
              k \in DOMAIN logs'[Name(a)] /\ logs'[Name(a)][k] = logs[Name(a)][k]
        BY <2>1, <2>2, <4>2
      <4>4. QED
        BY <2>1, <3>1, <4>2, <4>3
    <3>4. QED
      BY <3>2, <3>3
  <2>5. QED
    BY <2>4, NamesFrame DEF KeptInv
<1>6. QED
  BY <1>4, <1>5

\* Nothing is read before the activity log.
LEMMA NothingRead ==
  ASSUME Types, logs = <<>>, file = 1, entry = 1
  PROVE  EntriesInv /\ KeptInv
<1>1. DOMAIN logs = {}
  OBVIOUS
<1>2. \A f \in DOMAIN activitylog : \A e \in DOMAIN activitylog[f] : ~IsRead(f, e)
  BY FileTypes DEF IsRead
<1>3. QED
  BY <1>1, <1>2 DEF EntriesInv, KeptInv

\* The invariants of the entries are inductive.
LEMMA EntriesStep ==
  ASSUME Types, Types', PhaseInv, FilesInv, EntriesInv, KeptInv, [Next]_vars
  PROVE  EntriesInv' /\ KeptInv'
<1>1. CASE ClusterStep
  <2>1. (logs = <<>> /\ file = 1 /\ entry = 1)'
    BY <1>1, ClusterFrame DEF PhaseInv, Unread
  <2>2. QED
    BY <2>1, NothingRead, PTL
<1>2. CASE ExtractStep \/ LoaderStep \/ UNCHANGED vars
  <2>1. UNCHANGED <<clock, sessions, history, connectionlog, activitylog, faults>>
    BY <1>2, OtherFrame
  <2>2. CASE StartExtract /\ UNCHANGED <<lines, file, entry, logs, connections, lastconnections>>
    <3>1. (logs = <<>> /\ file = 1 /\ entry = 1)'
      BY <2>2 DEF StartExtract, PhaseInv, Unread
    <3>2. QED
      BY <3>1, NothingRead, PTL
  <2>3. CASE ParseUserActivityLog /\ UNCHANGED <<phase, range, lines, file, connections, lastconnections>>
    BY <2>1, <2>3, EntryKeepsEntries, EntryKeepsKept
  <2>4. CASE NextActivityFile /\ UNCHANGED <<phase, range, lines, logs, connections, lastconnections>>
    <3>1. /\ file <= Len(activitylog) /\ entry >= Len(activitylog[file])
          /\ file' = file + 1 /\ entry' = 1 /\ file \in Nat /\ entry \in Nat
      BY <2>4 DEF NextActivityFile, Types
    <3>2. ASSUME NEW f \in DOMAIN activitylog, NEW e \in DOMAIN activitylog[f]
          PROVE  /\ IsRead(f, e) => IsRead(f, e)'
                 /\ IsRead(f, e)' /\ e < Len(activitylog[f]) => IsRead(f, e)
      <4>1. f \in Nat /\ e \in Nat \ {0} /\ Len(activitylog[f]) \in Nat
        BY FileTypes
      <4>2. QED
        BY <3>1, <4>1 DEF IsRead
    <3>3. QED
      BY <2>1, <2>4, <3>2, EntriesFrame, KeptFrame
  <2>5. CASE UNCHANGED <<range, file, entry, logs>>
    <3>1. \A f, e : IsRead(f, e)' <=> IsRead(f, e)
      BY <2>5 DEF IsRead
    <3>2. QED
      BY <2>1, <2>5, <3>1, EntriesFrame, KeptFrame
  <2>6. ParseConnectionLog => UNCHANGED <<range, file, entry, logs>>
    BY ConnectionLineFact
  <2>7. QED
    BY <1>2, <2>2, <2>3, <2>4, <2>5, <2>6, ParserCases
<1>3. QED
  BY <1>1, <1>2, StepCases

---------------------------------------------------------------------------
(* Transactions, and the types of the state.                               *)

\* A transaction belongs to the session that ran any of its statements.
LEMMA XidFact ==
  ASSUME Types, HistoryInv, NEW i \in DOMAIN history
  PROVE  /\ KeyOfXid(XidOf(i)) = history[i].key
         /\ SessionOf(XidOf(i)) = sessions[history[i].session]
<1>1. PICK j : j = CHOOSE k \in DOMAIN history : XidOf(k) = XidOf(i)
  OBVIOUS
<1>2. j \in DOMAIN history /\ XidOf(j) = XidOf(i)
  BY <1>1
<1>3. history[j].session = history[i].session /\ history[j].key = history[i].key
  BY <1>2 DEF HistoryInv
<1>4. QED
  BY <1>1, <1>3 DEF KeyOfXid, SessionOf

\* A transaction that was extracted has an entry, of a statement it ran.
LEMMA NameFact ==
  ASSUME Types, EntriesInv, NEW n \in DOMAIN logs
  PROVE  /\ logs[n] \in Seq(Entry) /\ logs[n] # <<>> /\ 1 \in DOMAIN logs[n]
         /\ logs[n][1].id \in DOMAIN history /\ n = Name(logs[n][1].id)
         /\ IsValidLog(logs[n][1].id)
         /\ n[1] = XidOf(logs[n][1].id) /\ n[2] = RecordTime(logs[n][1].id)
         /\ n[1] \in Nat /\ n[2] \in Nat /\ n = <<n[1], n[2]>>
<1>1. logs[n] \in Seq(Entry) /\ logs[n] # <<>>
  BY DEF Types
<1>2. 1 \in DOMAIN logs[n]
  BY <1>1
<1>3. PICK i : i = logs[n][1].id
  OBVIOUS
<1>4. i \in DOMAIN history /\ n = Name(i) /\ IsValidLog(i)
  BY <1>2, <1>3 DEF EntriesInv, EntryInv
<1>5. n[1] = XidOf(i) /\ n[2] = RecordTime(i)
  BY <1>4 DEF Name
<1>6. XidOf(i) \in Nat /\ RecordTime(i) \in Nat
  BY <1>4, RecordTypes
<1>7. n = <<n[1], n[2]>>
  BY <1>4 DEF Name
<1>8. QED
  BY <1>1, <1>2, <1>3, <1>4, <1>5, <1>6, <1>7

\* An extracted transaction has a statement in the range, and its client is that
\* of the statement's session.
LEMMA ExtractedFact ==
  ASSUME Types, HistoryInv, EntriesInv, NEW x \in ExtractedXids
  PROVE  /\ x \in Nat /\ KeyOfXid(x) \in Keys
         /\ \E i \in DOMAIN history :
              /\ XidOf(i) = x /\ IsValidLog(i) /\ Name(i) \in DOMAIN logs
              /\ KeyOfXid(x) = history[i].key /\ SessionOf(x) = sessions[history[i].session]
<1>1. PICK n \in DOMAIN logs : x = n[1]
  BY DEF ExtractedXids
<1>2. PICK i \in DOMAIN history : i = logs[n][1].id
  BY NameFact
<1>3. /\ n = Name(i) /\ IsValidLog(i) /\ x = XidOf(i) /\ x \in Nat
  BY <1>1, <1>2, NameFact
<1>4. KeyOfXid(x) = history[i].key /\ SessionOf(x) = sessions[history[i].session]
  BY <1>3, XidFact
<1>5. history[i].key \in Keys
  BY RecordTypes
<1>6. QED
  BY <1>3, <1>4, <1>5

\* The clients without a connection are clients.
LEMMA MissingFact ==
  ASSUME Types, HistoryInv, EntriesInv
  PROVE  Missing \subseteq Keys
BY ExtractedFact DEF Missing

Phases == {"cluster", "connectionlog", "useractivitylog", "exited", "saved",
           "matching", "failed", "done"}

\* The part of the types that the extraction changes.
ParsedTypes ==
  /\ lines \in 0..Len(connectionlog) /\ file \in 1..(Len(activitylog) + 1) /\ entry \in Nat \ {0}
  /\ DOMAIN logs \subseteq Nat \X Nat
  /\ \A n \in DOMAIN logs : logs[n] \in Seq(Entry) \ {<<>>}
  /\ DOMAIN connections \subseteq Keys \X Nat /\ DOMAIN lastconnections \subseteq Keys

\* The phases are those of the type invariant.
LEMMA PhaseTypes ==
  ASSUME phase \in Phases, [Next]_vars
  PROVE  phase' \in Phases
<1>1. CASE ClusterStep
  BY <1>1, ClusterFrame DEF Phases
<1>2. CASE ExtractStep
  BY <1>2 DEF ExtractStep, Extract, StartExtract, ParseConnectionLog, ConnectionLogRead,
              ParseUserActivityLog, NextActivityFile, NothingFound, SaveLogs, Phases
<1>3. CASE LoaderStep
  BY <1>3 DEF LoaderStep, Load, Prepared, Match, MatchFails, Phases
<1>4. CASE UNCHANGED vars
  BY <1>4 DEF vars, extractVars
<1>5. QED
  BY <1>1, <1>2, <1>3, <1>4, StepCases

\* The parsers keep the types of what they write.
LEMMA ParsedTypesStep ==
  ASSUME Types, PhaseInv, SessionsInv, HistoryInv, LinesInv, FilesInv, ConnectionsInv, EntriesInv,
         ExtractStep \/ LoaderStep \/ UNCHANGED vars
  PROVE  ParsedTypes'
<1>1. UNCHANGED <<clock, sessions, history, connectionlog, activitylog, faults>>
  BY OtherFrame
<1>2. ParsedTypes /\ connectionlog \in Seq(Lines) /\ activitylog \in Seq(Seq(Nat))
  BY DEF Types, ParsedTypes
<1>3. CASE UNCHANGED <<lines, file, entry, logs, connections, lastconnections>>
  BY <1>1, <1>2, <1>3 DEF ParsedTypes
<1>4. CASE ParseConnectionLog
  <2>l. lines \in Nat
    BY DEF Types
  <2>1. PICK l \in Nat : l = lines + 1
    BY <2>l
  <2>2. /\ lines < Len(connectionlog) /\ lines' = l /\ UNCHANGED <<file, entry, logs>>
        /\ ~IsKept(l) => UNCHANGED <<connections, lastconnections>>
    BY <1>4, <2>1, ConnectionLineFact
  <2>3. l \in DOMAIN connectionlog /\ lines' \in 0..Len(connectionlog')
    BY <1>1, <1>2, <2>1, <2>2, <2>l
  <2>4. DOMAIN connections' \subseteq Keys \X Nat /\ DOMAIN lastconnections' \subseteq Keys
    <3>1. CASE ~IsKept(l)
      BY <1>2, <2>2, <3>1 DEF ParsedTypes
    <3>2. CASE IsKept(l)
      <4>1. PICK pk : pk = Connection(Of(l))
        OBVIOUS
      <4>2. /\ DOMAIN connections' = DOMAIN connections \cup {pk}
            /\ lastconnections' = With(lastconnections, Of(l).key, pk)
        BY <1>4, <2>1, <3>2, <4>1, KeptLine
      <4>3. Of(l).key \in Keys /\ Of(l).from \in Nat
        BY <2>3, SessionTypes DEF LinesInv, Of
      <4>4. range.start \in Nat
        BY ExtractAssumption DEF Types
      <4>5. pk \in Keys \X Nat
        BY <4>1, <4>3, <4>4 DEF Connection
      <4>6. DOMAIN lastconnections' = DOMAIN lastconnections \cup {Of(l).key}
        BY <4>2 DEF With
      <4>7. QED
        BY <1>2, <4>2, <4>3, <4>5, <4>6 DEF ParsedTypes
    <3>3. QED
      BY <3>1, <3>2
  <2>5. QED
    BY <1>1, <1>2, <2>2, <2>3, <2>4 DEF ParsedTypes
<1>5. CASE ParseUserActivityLog /\ UNCHANGED <<lines, file, connections, lastconnections>>
  <2>1. PICK i : i = activitylog[file][entry]
    OBVIOUS
  <2>2. entry' = entry + 1 /\ i \in DOMAIN history /\ (~IsValidLog(i) => logs' = logs)
    BY <1>5, <2>1, StoreFact
  <2>3. Name(i) \in Nat \X Nat
    BY <2>2, RecordTypes DEF Name
  <2>4. DOMAIN logs' \subseteq Nat \X Nat /\ \A n \in DOMAIN logs' : logs'[n] \in Seq(Entry) \ {<<>>}
    <3>1. CASE ~IsValidLog(i)
      BY <1>2, <2>2, <3>1 DEF ParsedTypes
    <3>2. CASE IsValidLog(i)
      <4>1. PICK b \in Seq(Entry), q \in Seq(Entry) \ {<<>>} :
              /\ DOMAIN logs' = DOMAIN logs \cup {Name(i)}
              /\ logs'[Name(i)] = q
              /\ \A n \in DOMAIN logs : n # Name(i) => logs'[n] = logs[n]
        BY <1>5, <2>1, <3>2, StoreFact
      <4>2. QED
        BY <1>2, <2>3, <4>1 DEF ParsedTypes
    <3>3. QED
      BY <3>1, <3>2
  <2>5. entry' \in Nat \ {0}
    BY <1>2, <2>2 DEF ParsedTypes
  <2>6. QED
    BY <1>1, <1>2, <1>5, <2>4, <2>5 DEF ParsedTypes
<1>6. CASE NextActivityFile /\ UNCHANGED <<lines, logs, connections, lastconnections>>
  <2>1. file <= Len(activitylog) /\ file' = file + 1 /\ entry' = 1
    BY <1>6 DEF NextActivityFile
  <2>2. file' \in 1..(Len(activitylog') + 1) /\ entry' \in Nat \ {0}
    BY <1>1, <1>2, <2>1 DEF ParsedTypes
  <2>3. QED
    BY <1>1, <1>2, <1>6, <2>2 DEF ParsedTypes
<1>7. CASE SaveLogs /\ UNCHANGED <<lines, file, entry, logs, lastconnections>>
  <2>1. DOMAIN connections' = DOMAIN connections \cup {<<k, range.start>> : k \in Missing}
    BY <1>7 DEF SaveLogs
  <2>2. range.start \in Nat
    BY ExtractAssumption DEF Types
  <2>3. DOMAIN connections' \subseteq Keys \X Nat
    BY <1>2, <2>1, <2>2, MissingFact DEF ParsedTypes
  <2>4. QED
    BY <1>1, <1>2, <1>7, <2>3 DEF ParsedTypes
<1>8. QED
  BY <1>3, <1>4, <1>5, <1>6, <1>7, ParserCases

\* The types are inductive.
LEMMA TypesStep ==
  ASSUME Types, PhaseInv, SessionsInv, HistoryInv, LinesInv, FilesInv, ConnectionsInv, EntriesInv,
         [Next]_vars
  PROVE  Types'
<1>1. /\ sessions' \in Seq(Sessions) /\ clock' \in Nat \ {0}
      /\ history' \in Seq(Records) /\ Len(history') <= MaxStatements
      /\ connectionlog' \in Seq(Lines) /\ activitylog' \in Seq(Seq(Nat)) \ {<<>>}
  BY SessionsChange, HistoryStep, LinesStep, FilesStep
<1>2. phase' \in Phases
  BY PhaseTypes DEF Types, Phases
<1>3. faults' \in Nat /\ range' \in [start : 0..MaxTime, end : 0..MaxTime, since : 0..MaxTime]
  <2>1. CASE ClusterStep
    <3>1. range' = range
      BY <2>1, ClusterFrame
    <3>2. faults' = faults \/ faults' = faults + 1
      BY <2>1 DEF ClusterStep, Cluster, OpenSession, Disconnect, Execute, LogAgain, Crash, NewFile, Tick
    <3>3. QED
      BY <3>1, <3>2 DEF Types
  <2>2. CASE ExtractStep \/ LoaderStep \/ UNCHANGED vars
    <3>1. faults' = faults
      BY <2>2, OtherFrame
    <3>2. StartExtract => range' \in Ranges
      BY DEF StartExtract
    <3>3. ParseConnectionLog => range' = range
      BY DEF ParseConnectionLog
    <3>4. range' = range \/ range' \in Ranges
      BY <2>2, <3>2, <3>3, ParserCases
    <3>5. QED
      BY <3>1, <3>4, ExtractAssumption DEF Types
  <2>3. QED
    BY <2>1, <2>2, StepCases
<1>4. ParsedTypes'
  <2>1. CASE ClusterStep
    <3>1. /\ lines' = 0 /\ file' = 1 /\ entry' = 1
          /\ logs' = <<>> /\ connections' = <<>> /\ lastconnections' = <<>>
      BY <2>1, ClusterFrame DEF PhaseInv, Unread
    <3>2. lines' \in 0..Len(connectionlog') /\ file' \in 1..(Len(activitylog') + 1)
      BY <1>1, <3>1
    <3>3. DOMAIN logs' = {} /\ DOMAIN connections' = {} /\ DOMAIN lastconnections' = {}
      BY <3>1
    <3>4. QED
      BY <3>1, <3>2, <3>3 DEF ParsedTypes
  <2>2. CASE ExtractStep \/ LoaderStep \/ UNCHANGED vars
    BY <2>2, ParsedTypesStep
  <2>3. QED
    BY <2>1, <2>2, StepCases
<1>5. QED
  BY <1>1, <1>2, <1>3, <1>4 DEF Types, Phases, ParsedTypes

---------------------------------------------------------------------------
(* The loader.                                                             *)

\* What is said of transactions rests on the logs and the connections alone.
LEMMA OrderFrame ==
  ASSUME UNCHANGED <<history, logs, connections>>
  PROVE  /\ ExtractedXids' = ExtractedXids
         /\ \A x : KeyOfXid(x)' = KeyOfXid(x) /\ Candidates(x)' = Candidates(x)
         /\ \A x, y : Before(x, y)' <=> Before(x, y)
<1>1. ExtractedXids' = ExtractedXids
  BY DEF ExtractedXids
<1>2. \A x : KeyOfXid(x)' = KeyOfXid(x)
  BY DEF KeyOfXid, XidOf
<1>3. \A x : Seconds(x)' = Seconds(x)
  BY DEF Seconds
<1>4. \A x : StartTime(x)' = StartTime(x)
  BY <1>3 DEF StartTime
<1>5. \A x : Candidates(x)' = Candidates(x)
  BY <1>2, <1>4 DEF Candidates, Second
<1>6. \A x, y : Before(x, y)' <=> Before(x, y)
  BY <1>4 DEF Before
<1>7. QED
  BY <1>1, <1>2, <1>5, <1>6

\* The loader leaves the logs alone.
LEMMA LoaderFrame ==
  ASSUME LoaderStep \/ UNCHANGED vars
  PROVE  UNCHANGED <<history, sessions, range, logs, connections, lastconnections>>
<1>1. UNCHANGED <<range, cluster, parsed>>
  <2>1. CASE LoaderStep
    BY <2>1 DEF LoaderStep, Load, Prepared, Match, MatchFails
  <2>2. CASE UNCHANGED vars
    BY <2>2 DEF vars, extractVars
  <2>3. QED
    BY <2>1, <2>2
<1>2. QED
  BY <1>1 DEF cluster, parsed


\* The next transaction is given to a connection, after those before it.
LEMMA GivenMatch ==
  ASSUME Types, Given, unmatched \subseteq Selected,
         NEW x \in unmatched, \A y \in unmatched \ {x} : Before(x, y),
         UNCHANGED <<history, logs, connections, selected>>, unmatched' = unmatched \ {x},
         NEW c \in DOMAIN replayed, c \in Candidates(x), \A d \in Candidates(x) : d[2] <= c[2],
         replayed' = [replayed EXCEPT ![c] = Append(@, x)]
  PROVE  Given'
<1> DEFINE S == Selected \ unmatched
           S1 == S \cup {x}
<1>1. Selected' = Selected /\ (Selected \ unmatched)' = S1
  BY OrderFrame DEF Selected
<1> HIDE DEF S, S1
<1>2. \A d \in DOMAIN replayed : replayed[d] \in Seq(S) /\ replayed[d] \in Seq(S1)
  <2>1. SUFFICES ASSUME NEW d \in DOMAIN replayed
                 PROVE  replayed[d] \in Seq(S) /\ replayed[d] \in Seq(S1)
    OBVIOUS
  <2>2. replayed[d] \in Seq(S)
    BY DEF Given, S
  <2>3. S \subseteq S1
    BY DEF S1
  <2>4. QED
    BY <2>2, <2>3
<1>3. PICK q : q = replayed[c]
  OBVIOUS
<1>4. PICK k \in Nat : k = Len(q) + 1
  BY <1>2, <1>3
<1>5. PICK q1 : q1 = replayed'[c]
  OBVIOUS
<1>6. /\ DOMAIN replayed' = DOMAIN replayed
      /\ \A d \in DOMAIN replayed : d # c => replayed'[d] = replayed[d]
      /\ q1 = Append(q, x)
  BY <1>3, <1>5
<1>7. /\ q1 \in Seq(S1) /\ DOMAIN q1 = DOMAIN q \cup {k} /\ k \notin DOMAIN q
      /\ \A n \in DOMAIN q : q1[n] = q[n]
      /\ q1[k] = x
  <2>1. q \in Seq(S1) /\ x \in S1
    BY <1>2, <1>3 DEF S1
  <2>2. QED
    BY <1>4, <1>6, <2>1, AppendFact
<1>8. /\ \A n \in DOMAIN q : n \in Nat \ {0} /\ n < k
      /\ \A n \in 1..(k-1) : n \in DOMAIN q
      /\ \A n \in DOMAIN q : \A m \in 1..(n-1) : m \in DOMAIN q
  BY <1>2, <1>3, <1>4
<1>9. \A d \in DOMAIN replayed : \A n \in DOMAIN replayed[d] : replayed[d][n] # x
  BY <1>2, ElementFact DEF S
<1>10. \A d \in DOMAIN replayed' : replayed'[d] \in Seq(S1)
  BY <1>2, <1>5, <1>6, <1>7
<1>11. ASSUME NEW d \in DOMAIN replayed', NEW n \in DOMAIN replayed'[d]
       PROVE  /\ d \in Candidates(replayed'[d][n])
              /\ \A e \in Candidates(replayed'[d][n]) : e[2] <= d[2]
              /\ \A y \in unmatched' : Before(replayed'[d][n], y)
              /\ \A m \in 1..(n-1) : Before(replayed'[d][m], replayed'[d][n])
  <2>1. CASE d # c
    BY <1>6, <1>11, <2>1 DEF Given
  <2>2. CASE d = c /\ n \in DOMAIN q
    <3>1. /\ d \in Candidates(q[n])
          /\ \A e \in Candidates(q[n]) : e[2] <= d[2]
          /\ \A y \in unmatched : Before(q[n], y)
          /\ \A m \in 1..(n-1) : Before(q[m], q[n])
      BY <1>3, <2>2 DEF Given
    <3>2. q1[n] = q[n] /\ \A m \in 1..(n-1) : q1[m] = q[m]
      BY <1>7, <1>8, <2>2
    <3>3. QED
      BY <1>5, <2>2, <3>1, <3>2
  <2>3. CASE d = c /\ n = k
    <3>1. q1[n] = x /\ \A m \in 1..(n-1) : m \in DOMAIN q /\ q1[m] = q[m]
      BY <1>7, <1>8, <2>3
    <3>2. \A m \in DOMAIN q : Before(q[m], x)
      BY <1>3 DEF Given
    <3>3. QED
      BY <1>5, <2>3, <3>1, <3>2
  <2>4. QED
    BY <1>5, <1>7, <1>11, <2>1, <2>2, <2>3
<1>12. ASSUME NEW d \in DOMAIN replayed', NEW e \in DOMAIN replayed',
              NEW m \in DOMAIN replayed'[d], NEW n \in DOMAIN replayed'[e],
              replayed'[d][m] = replayed'[e][n]
       PROVE  d = e /\ m = n
  <2>1. \/ d = c /\ m = k /\ replayed'[d][m] = x
        \/ m \in DOMAIN replayed[d] /\ replayed'[d][m] = replayed[d][m]
    BY <1>3, <1>5, <1>6, <1>7, <1>12
  <2>2. \/ e = c /\ n = k /\ replayed'[e][n] = x
        \/ n \in DOMAIN replayed[e] /\ replayed'[e][n] = replayed[e][n]
    BY <1>3, <1>5, <1>6, <1>7, <1>12
  <2>3. QED
    BY <1>6, <1>9, <1>12, <2>1, <2>2 DEF Given
<1>13. \A y \in S1 : Candidates(y) # {} =>
         \E d \in DOMAIN replayed' : \E n \in DOMAIN replayed'[d] : replayed'[d][n] = y
  <2>1. SUFFICES ASSUME NEW y \in S1, Candidates(y) # {}
                 PROVE  \E d \in DOMAIN replayed' : \E n \in DOMAIN replayed'[d] : replayed'[d][n] = y
    OBVIOUS
  <2>2. CASE y = x
    BY <1>5, <1>6, <1>7, <2>2
  <2>3. CASE y # x
    <3>1. PICK d \in DOMAIN replayed : \E n \in DOMAIN replayed[d] : replayed[d][n] = y
      BY <2>1, <2>3 DEF Given, S1, S
    <3>2. QED
      BY <1>3, <1>5, <1>6, <1>7, <3>1
  <2>4. QED
    BY <2>2, <2>3
<1>14. \A d \in DOMAIN replayed' : replayed'[d] \in Seq((Selected \ unmatched)')
  BY <1>1, <1>10
<1>15. \A y \in (Selected \ unmatched)' : Candidates(y)' # {} =>
         \E d \in DOMAIN replayed' : \E n \in DOMAIN replayed'[d] : replayed'[d][n] = y
  BY <1>1, <1>13, OrderFrame
<1>16. \A d \in DOMAIN replayed' : \A n \in DOMAIN replayed'[d] :
         /\ d \in Candidates(replayed[d][n])'
         /\ \A e \in Candidates(replayed[d][n])' : e[2] <= d[2]
         /\ \A y \in unmatched' : Before(replayed[d][n], y)'
         /\ \A m \in 1..(n-1) : Before(replayed[d][m], replayed[d][n])'
  BY <1>11, OrderFrame
<1>17. QED
  BY <1>12, <1>14, <1>15, <1>16 DEF Given

\* The next transaction is left out, or nothing changes.
LEMMA GivenFrame ==
  ASSUME Given, UNCHANGED <<history, logs, connections, selected>>,
         unmatched' \subseteq unmatched, \A x \in unmatched \ unmatched' : Candidates(x) = {},
         DOMAIN replayed' \subseteq DOMAIN replayed,
         \A c \in DOMAIN replayed' : replayed'[c] = replayed[c],
         \A c \in DOMAIN replayed \ DOMAIN replayed' : replayed[c] = <<>>
  PROVE  Given'
<1>1. Selected' = Selected
  BY OrderFrame DEF Selected
<1>2. \A c \in DOMAIN replayed' : replayed'[c] \in Seq((Selected \ unmatched)')
  <2>1. SUFFICES ASSUME NEW c \in DOMAIN replayed'
                 PROVE  replayed'[c] \in Seq((Selected \ unmatched)')
    OBVIOUS
  <2>2. replayed[c] \in Seq(Selected \ unmatched) /\ replayed'[c] = replayed[c]
    BY DEF Given
  <2>3. (Selected \ unmatched) \subseteq (Selected \ unmatched)'
    BY <1>1
  <2>4. QED
    BY <2>2, <2>3
<1>3. \A c \in DOMAIN replayed' : \A n \in DOMAIN replayed'[c] :
        /\ c \in Candidates(replayed[c][n])'
        /\ \A d \in Candidates(replayed[c][n])' : d[2] <= c[2]
        /\ \A x \in unmatched' : Before(replayed[c][n], x)'
        /\ \A m \in 1..(n-1) : Before(replayed[c][m], replayed[c][n])'
  BY OrderFrame DEF Given
<1>4. \A c, d \in DOMAIN replayed' : \A m \in DOMAIN replayed'[c], n \in DOMAIN replayed'[d] :
        replayed'[c][m] = replayed'[d][n] => c = d /\ m = n
  BY DEF Given
<1>5. \A x \in (Selected \ unmatched)' : Candidates(x)' # {} =>
        \E c \in DOMAIN replayed' : \E n \in DOMAIN replayed'[c] : replayed'[c][n] = x
  <2>1. SUFFICES ASSUME NEW x \in (Selected \ unmatched)', Candidates(x) # {}
                 PROVE  \E c \in DOMAIN replayed' : \E n \in DOMAIN replayed'[c] : replayed'[c][n] = x
    BY OrderFrame
  <2>2. PICK c \in DOMAIN replayed : \E n \in DOMAIN replayed[c] : replayed[c][n] = x
    BY <1>1, <2>1 DEF Given
  <2>3. c \in DOMAIN replayed'
    BY <2>2
  <2>4. QED
    BY <2>2, <2>3
<1>6. QED
  BY <1>2, <1>3, <1>4, <1>5 DEF Given

\* The invariant of the loader is inductive.
LEMMA MatchStep ==
  ASSUME Types, MatchInv, [Next]_vars
  PROVE  MatchInv'
<1>1. CASE ClusterStep
  <2>1. ~Loaded /\ ~Loaded' /\ UNCHANGED <<selected, unmatched, replayed>>
    BY <1>1, ClusterFrame DEF Loaded
  <2>2. QED
    BY <2>1 DEF MatchInv
<1>2. CASE ExtractStep
  <2>1. phase' \in {"connectionlog", "useractivitylog", "exited", "saved"}
    BY <1>2 DEF ExtractStep, Extract, StartExtract, ParseConnectionLog, ConnectionLogRead,
                ParseUserActivityLog, NextActivityFile, NothingFound, SaveLogs
  <2>2. ~Loaded
    BY <1>2 DEF ExtractStep, Extract, StartExtract, ParseConnectionLog, ConnectionLogRead,
                ParseUserActivityLog, NextActivityFile, NothingFound, SaveLogs, ActivityRead, Loaded
  <2>3. ~Loaded' /\ UNCHANGED <<selected, unmatched, replayed>>
    BY <1>2, <2>1 DEF Loaded, ExtractStep
  <2>4. QED
    BY <2>2, <2>3 DEF MatchInv
<1>3. CASE Load
  <2>1. PICK f \in Filters :
          /\ selected' = f
          /\ unmatched' = {x \in ExtractedXids : KeyOfXid(x) \in f}
          /\ replayed' = [c \in {d \in DOMAIN connections : d[1] \in f} |-> <<>>]
    BY <1>3 DEF Load
  <2>2. UNCHANGED <<history, logs, connections>> /\ phase' = "matching"
    BY <1>3, LoaderFrame DEF LoaderStep, Load
  <2>3. Selected' = unmatched'
    BY <2>1, <2>2, OrderFrame DEF Selected
  <2>4. Given'
    <3>1. \A c \in DOMAIN replayed' : DOMAIN replayed'[c] = {} /\ replayed'[c] = <<>>
      BY <2>1
    <3>2. \A c \in DOMAIN replayed' : replayed'[c] \in Seq((Selected \ unmatched)')
      <4>1. \A S : <<>> \in Seq(S)
        OBVIOUS
      <4>2. QED
        BY <3>1, <4>1
    <3>3. (Selected \ unmatched)' = {}
      BY <2>3
    <3>4. QED
      BY <3>1, <3>2, <3>3 DEF Given
  <2>5. selected' \subseteq Keys
    BY <2>1, WorkloadAssumption
  <2>6. /\ \A c \in DOMAIN replayed' : c \in DOMAIN connections' /\ c[1] \in selected'
        /\ \A c \in DOMAIN connections' : c[1] \in selected' => c \in DOMAIN replayed'
    BY <2>1, <2>2
  <2>7. Loaded' /\ phase' # "done"
    BY <2>2 DEF Loaded
  <2>8. QED
    BY <2>3, <2>4, <2>5, <2>6, <2>7 DEF MatchInv
<1>4. ASSUME Loaded, NEW x \in unmatched, Match(x)
      PROVE  MatchInv'
  <2>1. /\ phase = "matching" /\ UNCHANGED <<phase, selected>> /\ unmatched' = unmatched \ {x}
        /\ \A y \in unmatched \ {x} : Before(x, y)
    BY <1>4 DEF Match, IsNext
  <2>2. UNCHANGED <<history, sessions, range, logs, connections, lastconnections>>
    BY <1>4, LoaderFrame DEF LoaderStep
  <2>3. /\ selected \subseteq Keys /\ unmatched \subseteq Selected /\ Given
        /\ \A c \in DOMAIN replayed : c \in DOMAIN connections /\ c[1] \in selected
        /\ \A c \in DOMAIN connections : c[1] \in selected => c \in DOMAIN replayed
    BY <1>4, <2>1 DEF MatchInv
  <2>4. Begun(x) = Candidates(x)
    BY <2>3 DEF Begun, Possible, Candidates, Selected
  <2>5. Given' /\ DOMAIN replayed' = DOMAIN replayed
    <3>1. CASE Begun(x) = {} /\ UNCHANGED replayed
      BY <2>1, <2>2, <2>3, <2>4, <3>1, GivenFrame
    <3>2. CASE \E c \in Begun(x) :
                 /\ \A d \in Begun(x) : d[2] <= c[2]
                 /\ replayed' = [replayed EXCEPT ![c] = Append(@, x)]
      <4>1. PICK c \in Begun(x) :
              /\ \A d \in Begun(x) : d[2] <= c[2]
              /\ replayed' = [replayed EXCEPT ![c] = Append(@, x)]
        BY <3>2
      <4>2. c \in DOMAIN replayed
        BY DEF Begun, Possible
      <4>3. Given'
        BY <2>1, <2>2, <2>3, <2>4, <4>1, <4>2, GivenMatch
      <4>4. QED
        BY <4>1, <4>3
    <3>3. QED
      BY <1>4, <3>1, <3>2 DEF Match
  <2>6. Selected' = Selected
    BY <2>1, <2>2, OrderFrame DEF Selected
  <2>7. Loaded' /\ phase' # "done"
    BY <1>4, <2>1 DEF Loaded
  <2>8. QED
    BY <2>1, <2>2, <2>3, <2>5, <2>6, <2>7 DEF MatchInv
<1>5. ASSUME Loaded, \/ \E x \in unmatched : MatchFails(x)
                     \/ UNCHANGED vars
      PROVE  MatchInv'
  <2>1. UNCHANGED <<history, sessions, range, logs, connections, lastconnections>>
    BY <1>5, LoaderFrame DEF LoaderStep
  <2>2. /\ UNCHANGED <<selected, unmatched, replayed>>
        /\ phase' = phase \/ (phase = "matching" /\ phase' = "failed")
    BY <1>5 DEF MatchFails, vars, extractVars
  <2>3. Given'
    BY <1>5, <2>1, <2>2, GivenFrame DEF MatchInv
  <2>4. Selected' = Selected
    BY <2>1, <2>2, OrderFrame DEF Selected
  <2>5. Loaded'
    BY <1>5, <2>2 DEF Loaded
  <2>6. QED
    BY <1>5, <2>1, <2>2, <2>3, <2>4, <2>5 DEF MatchInv
<1>6. ASSUME Loaded, Prepared
      PROVE  MatchInv'
  <2>1. UNCHANGED <<history, sessions, range, logs, connections, lastconnections>>
    BY <1>6, LoaderFrame DEF LoaderStep
  <2>2. /\ UNCHANGED <<selected, unmatched>> /\ unmatched = {} /\ phase' = "done"
        /\ replayed' = [c \in {d \in DOMAIN replayed : replayed[d] # <<>>} |-> replayed[c]]
    BY <1>6 DEF Prepared
  <2>3. /\ DOMAIN replayed' \subseteq DOMAIN replayed
        /\ \A c \in DOMAIN replayed' : replayed'[c] = replayed[c]
        /\ \A c \in DOMAIN replayed \ DOMAIN replayed' : replayed[c] = <<>>
    BY <2>2
  <2>4. Given'
    BY <1>6, <2>1, <2>2, <2>3, GivenFrame DEF MatchInv
  <2>5. Selected' = Selected /\ Loaded'
    BY <2>1, <2>2, OrderFrame DEF Selected, Loaded
  <2>6. QED
    BY <1>6, <2>1, <2>2, <2>3, <2>4, <2>5 DEF MatchInv
<1>7. CASE ~Loaded /\ UNCHANGED vars
  BY <1>7 DEF MatchInv, Loaded, vars, extractVars
<1>8. Prepared \/ (\E x \in unmatched : Match(x) \/ MatchFails(x)) => Loaded
  BY DEF Prepared, Match, MatchFails, Loaded
<1>9. QED
  BY <1>1, <1>2, <1>3, <1>4, <1>5, <1>6, <1>7, <1>8, StepCases DEF LoaderStep

---------------------------------------------------------------------------
(* The invariant holds.                                                    *)

\* The inductive invariant holds at first.
LEMMA InvInit ==
  ASSUME WorkloadInit
  PROVE  Inv
<1>1. /\ phase = "cluster" /\ range = [start |-> Unset, end |-> Unset, since |-> Unset]
      /\ clock = 1 /\ sessions = <<>> /\ history = <<>> /\ connectionlog = <<>>
      /\ activitylog = <<<<>>>> /\ faults = 0 /\ lines = 0 /\ file = 1 /\ entry = 1
      /\ logs = <<>> /\ connections = <<>> /\ lastconnections = <<>>
  BY DEF WorkloadInit, Init
<1>2. DOMAIN logs = {} /\ DOMAIN connections = {} /\ DOMAIN lastconnections = {}
  BY <1>1
<1>3. DOMAIN sessions = {} /\ DOMAIN history = {} /\ DOMAIN connectionlog = {}
  BY <1>1
<1>4. activitylog \in Seq(Seq(Nat)) \ {<<>>} /\ DOMAIN activitylog = {1} /\ activitylog[1] = <<>>
      /\ Len(activitylog) = 1 /\ DOMAIN activitylog[1] = {}
  BY <1>1
<1>5. sessions \in Seq(Sessions) /\ history \in Seq(Records) /\ connectionlog \in Seq(Lines)
      /\ Len(history) = 0 /\ Len(connectionlog) = 0
  BY <1>1
<1>6. Types
  <2>1. range \in [start : 0..MaxTime, end : 0..MaxTime, since : 0..MaxTime] /\ clock \in Nat \ {0}
        /\ Len(history) <= MaxStatements
    BY <1>1, <1>5, ExtractAssumption DEF Unset
  <2>2. lines \in 0..Len(connectionlog) /\ file \in 1..(Len(activitylog) + 1) /\ entry \in Nat \ {0}
    BY <1>1, <1>4, <1>5
  <2>3. faults \in Nat
    BY <1>1
  <2>4. QED
    BY <1>1, <1>2, <1>4, <1>5, <2>1, <2>2, <2>3 DEF Types
<1>7. PhaseInv
  BY <1>1 DEF PhaseInv, Unread, Saved
<1>8. SessionsInv /\ HistoryInv /\ LinesInv /\ FilesInv
  <2>1. FilesInv
    BY <1>4 DEF FilesInv
  <2>2. QED
    BY <1>3, <2>1 DEF SessionsInv, HistoryInv, LinesInv
<1>9. ConnectionsInv
  <2>1. 1..lines = {}
    BY <1>1
  <2>2. ~Saved
    BY <1>1 DEF Saved
  <2>3. QED
    BY <1>2, <2>1, <2>2 DEF ConnectionsInv
<1>10. EntriesInv /\ KeptInv
  BY <1>1, <1>6, NothingRead
<1>11. MatchInv
  BY <1>1 DEF MatchInv, Loaded, WorkloadInit
<1>12. QED
  BY <1>6, <1>7, <1>8, <1>9, <1>10, <1>11 DEF Inv, ClusterInv

\* Every step keeps the inductive invariant.
LEMMA InvStep ==
  ASSUME Inv, [Next]_vars
  PROVE  Inv'
<1>1. /\ Types /\ PhaseInv /\ SessionsInv /\ HistoryInv /\ LinesInv /\ FilesInv
      /\ ConnectionsInv /\ EntriesInv /\ KeptInv /\ MatchInv
  BY DEF Inv, ClusterInv
<1>2. Types'
  BY <1>1, TypesStep
<1>3. PhaseInv'
  BY <1>1, PhaseStep
<1>4. SessionsInv' /\ HistoryInv' /\ LinesInv' /\ FilesInv'
  BY <1>1, SessionsStep, HistoryStep, LinesStep, FilesStep
<1>5. ConnectionsInv'
  BY <1>1, ConnectionsStep
<1>6. EntriesInv' /\ KeptInv'
  BY <1>1, <1>2, EntriesStep
<1>7. MatchInv'
  BY <1>1, MatchStep
<1>8. QED
  BY <1>2, <1>3, <1>4, <1>5, <1>6, <1>7 DEF Inv, ClusterInv

\* The inductive invariant holds of every behaviour.
THEOREM InvHolds == Spec => []Inv
<1>1. WorkloadInit => Inv
  BY InvInit
<1>2. Inv /\ [Next]_vars => Inv'
  BY InvStep
<1>3. QED
  BY <1>1, <1>2, PTL DEF Spec

---------------------------------------------------------------------------
(* What the invariant says of transactions and their connections.          *)

\* A transaction starts in the second of one of its statements, the least.
LEMMA StartFact ==
  ASSUME Types, HistoryInv, EntriesInv, NEW x \in ExtractedXids
  PROVE  /\ StartTime(x) \in Seconds(x) /\ StartTime(x) \in Nat
         /\ \A t \in Seconds(x) : t \in Nat /\ StartTime(x) <= t
<1>1. Seconds(x) \subseteq Nat /\ Seconds(x) # {}
  <2>1. \A n \in DOMAIN logs : n[2] \in Nat
    BY NameFact
  <2>2. PICK n \in DOMAIN logs : x = n[1]
    BY DEF ExtractedXids
  <2>3. QED
    BY <2>1, <2>2 DEF Seconds
<1>2. PICK s \in Seconds(x) : \A t \in Seconds(x) : s <= t
  BY <1>1, LeastNat
<1>3. StartTime(x) \in Seconds(x) /\ \A t \in Seconds(x) : StartTime(x) <= t
  BY <1>2 DEF StartTime
<1>4. QED
  BY <1>1, <1>3

\* A second of a transaction is that of statements it ran.
LEMMA SecondsFact ==
  ASSUME Types, HistoryInv, EntriesInv, NEW x, NEW t \in Seconds(x)
  PROVE  /\ <<x, t>> \in DOMAIN logs
         /\ \E i \in DOMAIN history :
              XidOf(i) = x /\ RecordTime(i) = t /\ IsValidLog(i) /\ i = logs[<<x, t>>][1].id
         /\ \A k \in DOMAIN logs[<<x, t>>] :
              /\ logs[<<x, t>>][k].id \in DOMAIN history /\ IsValidLog(logs[<<x, t>>][k].id)
              /\ XidOf(logs[<<x, t>>][k].id) = x /\ RecordTime(logs[<<x, t>>][k].id) = t
<1>1. PICK n \in DOMAIN logs : n[1] = x /\ n[2] = t
  BY DEF Seconds
<1>2. n = <<x, t>>
  BY <1>1, NameFact
<1>3. PICK i : i = logs[n][1].id
  OBVIOUS
<1>4. i \in DOMAIN history /\ XidOf(i) = x /\ RecordTime(i) = t /\ IsValidLog(i)
  BY <1>1, <1>3, NameFact
<1>5. ASSUME NEW k \in DOMAIN logs[n]
      PROVE  /\ logs[n][k].id \in DOMAIN history /\ IsValidLog(logs[n][k].id)
             /\ XidOf(logs[n][k].id) = x /\ RecordTime(logs[n][k].id) = t
  <2>1. EntryInv(n, logs[n][k])
    BY DEF EntriesInv
  <2>2. QED
    BY <1>2, <2>1 DEF EntryInv, Name
<1>6. QED
  BY <1>1, <1>2, <1>3, <1>4, <1>5

\* The statement a transaction starts with.
LEMMA FirstFact ==
  ASSUME Types, HistoryInv, EntriesInv, NEW x \in ExtractedXids
  PROVE  \E i \in DOMAIN history :
           /\ XidOf(i) = x /\ RecordTime(i) = StartTime(x) /\ IsValidLog(i)
           /\ KeyOfXid(x) = history[i].key /\ SessionOf(x) = sessions[history[i].session]
<1>1. PICK i \in DOMAIN history : XidOf(i) = x /\ RecordTime(i) = StartTime(x) /\ IsValidLog(i)
  BY StartFact, SecondsFact
<1>2. QED
  BY <1>1, XidFact

\* A statement comes after the beginning of its session and before the end,
\* and the seconds too.
LEMMA WithinFact ==
  ASSUME Types, SessionsInv, HistoryInv, NEW i \in DOMAIN history,
         NEW s, s = history[i].session
  PROVE  /\ s \in DOMAIN sessions /\ s \in Nat
         /\ sessions[s].key = history[i].key /\ sessions[s].from \in Nat \ {0} /\ sessions[s].to \in Nat
         /\ RecordTime(i) \in Nat
         /\ Second(sessions[s].from) \in Nat /\ Second(sessions[s].from) <= RecordTime(i)
         /\ Closed(sessions[s]) =>
              /\ Second(sessions[s].to) \in Nat /\ RecordTime(i) <= Second(sessions[s].to)
              /\ RecordTime(i) <= sessions[s].to /\ sessions[s].from <= sessions[s].to
<1>1. /\ s \in DOMAIN sessions /\ sessions[s].key = history[i].key
      /\ sessions[s].from <= history[i].time
      /\ Closed(sessions[s]) => history[i].time <= sessions[s].to
  BY DEF HistoryInv
<1>2. /\ s \in Nat /\ sessions[s].from \in Nat \ {0} /\ sessions[s].to \in Nat
      /\ history[i].time \in Nat /\ RecordTime(i) \in Nat /\ RecordTime(i) <= history[i].time
  BY <1>1, SessionTypes, RecordTypes
<1>3. Second(sessions[s].from) \in Nat /\ Second(sessions[s].to) \in Nat
  BY <1>2, SecondFact
<1>4. Second(sessions[s].from) <= RecordTime(i)
  BY <1>1, <1>2, SecondOrder DEF RecordTime
<1>5. Closed(sessions[s]) => RecordTime(i) <= Second(sessions[s].to)
  BY <1>1, <1>2, SecondOrder DEF RecordTime
<1>6. Closed(sessions[s]) => sessions[s].from <= sessions[s].to
  BY <1>1 DEF SessionsInv
<1>7. Closed(sessions[s]) => RecordTime(i) <= sessions[s].to
  BY <1>1, <1>2
<1>8. QED
  BY <1>1, <1>2, <1>3, <1>4, <1>5, <1>6, <1>7

\* The line that tells of the beginning of a session.
LEMMA BeginLine ==
  ASSUME Types, LinesInv, NEW s \in DOMAIN sessions, lines = Len(connectionlog)
  PROVE  \E l \in 1..lines : /\ l \in DOMAIN connectionlog /\ Begins(connectionlog[l])
                             /\ Of(l) = sessions[s] /\ connectionlog[l].session = s
                             /\ IsKept(l) <=> InRange(sessions[s].from)
<1>1. PICK l \in DOMAIN connectionlog : Begins(connectionlog[l]) /\ connectionlog[l].session = s
  BY DEF LinesInv
<1>2. l \in 1..lines
  BY <1>1, LineTypes
<1>3. Of(l) = sessions[s]
  BY <1>1 DEF Of
<1>4. IsKept(l) <=> InRange(sessions[s].from)
  BY <1>1, <1>3 DEF IsKept
<1>5. QED
  BY <1>1, <1>2, <1>3, <1>4

\* A line that is kept: where its session lies.
LEMMA KeptRange ==
  ASSUME Types, SessionsInv, LinesInv, NEW l \in 1..lines, IsKept(l)
  PROVE  \E r \in DOMAIN sessions :
           /\ r = connectionlog[l].session /\ Of(l) = sessions[r] /\ l \in DOMAIN connectionlog
           /\ r \in Nat /\ sessions[r].key \in Keys
           /\ sessions[r].from \in Nat \ {0} /\ sessions[r].to \in Nat
           /\ \/ InRange(sessions[r].from)
              \/ /\ Ends(connectionlog[l]) /\ Closed(sessions[r]) /\ InRange(sessions[r].to)
                 /\ sessions[r].from < Earliest /\ Earliest <= sessions[r].to
           /\ Ends(connectionlog[l]) => Closed(sessions[r])
<1>1. l \in DOMAIN connectionlog
  BY DEF Types
<1>2. PICK r \in DOMAIN sessions : r = connectionlog[l].session
  BY <1>1 DEF LinesInv
<1>3. /\ Of(l) = sessions[r] /\ r \in Nat /\ sessions[r].key \in Keys
      /\ sessions[r].from \in Nat \ {0} /\ sessions[r].to \in Nat
  BY <1>2, SessionTypes DEF Of
<1>4. Ends(connectionlog[l]) => Closed(sessions[r])
  BY <1>1, <1>2 DEF LinesInv
<1>5. CASE Begins(connectionlog[l])
  BY <1>1, <1>2, <1>3, <1>4, <1>5 DEF IsKept
<1>6. CASE ~Begins(connectionlog[l])
  <2>1. Ends(connectionlog[l]) /\ InRange(sessions[r].to)
    BY <1>1, <1>3, <1>6, LineTypes DEF Begins, Ends, IsKept
  <2>2. Closed(sessions[r]) /\ sessions[r].from <= sessions[r].to
    BY <1>4, <2>1 DEF SessionsInv
  <2>3. InRange(sessions[r].from) \/ (sessions[r].from < Earliest /\ Earliest <= sessions[r].to)
    BY <1>3, <2>1, <2>2, RangeTypes, RangeFact
  <2>4. QED
    BY <1>1, <1>2, <1>3, <1>4, <2>1, <2>2, <2>3
<1>7. QED
  BY <1>5, <1>6

\* A connection that is the latest to begin before a statement, of its client,
\* is that of the statement's session.
LEMMA SameSession ==
  ASSUME Types, PhaseInv, SessionsInv, HistoryInv, LinesInv, ConnectionsInv,
         lines = Len(connectionlog),
         NEW i \in DOMAIN history, IsValidLog(i), NEW s, s = history[i].session,
         ~AfterRange(sessions[s]),
         NEW l \in 1..lines, IsKept(l), Of(l).key = history[i].key,
         Second(Connection(Of(l))[2]) <= RecordTime(i),
         Connection(sessions[s]) \in DOMAIN connections
           /\ Second(Connection(sessions[s])[2]) <= RecordTime(i) =>
             Connection(sessions[s])[2] <= Connection(Of(l))[2]
  PROVE  connectionlog[l].session = s /\ Of(l) = sessions[s]
<1>1. PICK r \in DOMAIN sessions :
        /\ r = connectionlog[l].session /\ Of(l) = sessions[r]
        /\ r \in Nat /\ sessions[r].from \in Nat \ {0} /\ sessions[r].to \in Nat
        /\ \/ InRange(sessions[r].from)
           \/ /\ Closed(sessions[r])
              /\ sessions[r].from < Earliest /\ Earliest <= sessions[r].to
  BY KeptRange
<1>2. /\ s \in DOMAIN sessions /\ s \in Nat
      /\ sessions[s].key = history[i].key /\ sessions[s].from \in Nat \ {0} /\ sessions[s].to \in Nat
      /\ RecordTime(i) \in Nat
      /\ Second(sessions[s].from) \in Nat /\ Second(sessions[s].from) <= RecordTime(i)
      /\ Closed(sessions[s]) =>
           /\ Second(sessions[s].to) \in Nat /\ RecordTime(i) <= Second(sessions[s].to)
           /\ RecordTime(i) <= sessions[s].to
  BY WithinFact
<1>3. range.start \in Nat /\ range.end \in Nat /\ Earliest \in Nat /\ range.start <= Earliest
  BY RangeTypes, RangeFact
<1>4. /\ InRange(sessions[r].from) => Connection(Of(l))[2] = sessions[r].from
      /\ ~InRange(sessions[r].from) => Connection(Of(l))[2] = range.start
  BY <1>1 DEF Connection
<1>5. ASSUME r < s
      PROVE  FALSE
  <2>1. Closed(sessions[r]) /\ sessions[r].from <= sessions[r].to /\ sessions[r].to < sessions[s].from
    BY <1>1, <1>2, <1>5, SessionOrder
  <2>2. CASE InRange(sessions[s].from)
    <3>1. Connection(sessions[s]) = <<sessions[s].key, sessions[s].from>>
      BY <2>2 DEF Connection
    <3>2. Connection(sessions[s]) \in DOMAIN connections
      <4>1. PICK k \in 1..lines : IsKept(k) /\ Of(k) = sessions[s]
        BY <1>2, <2>2, BeginLine
      <4>2. QED
        BY <4>1 DEF ConnectionsInv
    <3>3. sessions[s].from <= Connection(Of(l))[2]
      BY <1>2, <3>1, <3>2
    <3>4. Connection(Of(l))[2] = sessions[r].from \/ Connection(Of(l))[2] <= sessions[r].to
      BY <1>1, <1>3, <1>4
    <3>5. ~(sessions[s].from <= sessions[r].from) /\ ~(sessions[s].from <= sessions[r].to)
      BY <1>1, <1>2, <2>1
    <3>6. Connection(Of(l))[2] \in Nat
      BY <1>1, <1>3, <1>4
    <3>7. QED
      BY <1>1, <1>2, <3>3, <3>4, <3>5, <3>6
  <2>3. CASE ~InRange(sessions[s].from)
    <3>1. sessions[s].from < Earliest
      BY <1>2, <1>3, <2>3, RangeTypes, RangeFact DEF AfterRange
    <3>2. sessions[r].from < Earliest /\ sessions[r].to < Earliest
      <4>1. sessions[r].from \in Nat /\ sessions[r].to \in Nat /\ sessions[s].from \in Nat
        BY <1>1, <1>2
      <4>2. Earliest \in Nat
        BY <1>3
      <4>3. QED
        BY <4>1, <4>2, <2>1, <3>1
    <3>3. ~InRange(sessions[r].from) /\ ~(Earliest <= sessions[r].to)
      BY <1>1, <1>3, <3>1, <3>2, RangeFact
    <3>4. QED
      BY <1>1, <3>3
  <2>4. QED
    BY <2>2, <2>3
<1>6. ASSUME s < r
      PROVE  FALSE
  <2>1. /\ Closed(sessions[s]) /\ sessions[s].to < sessions[r].from
        /\ Second(sessions[s].to) < Second(sessions[r].from)
    BY <1>1, <1>2, <1>6, SessionOrder
  <2>2. Second(sessions[r].from) \in Nat
    BY <1>1, SecondFact
  <2>3. CASE InRange(sessions[r].from)
    BY <1>2, <1>4, <2>1, <2>2, <2>3
  <2>4. CASE ~InRange(sessions[r].from)
    <3>1. RecordTime(i) < Earliest
      BY <1>1, <1>2, <1>3, <2>1, <2>4
    <3>2. ~InRange(RecordTime(i))
      BY <1>2, <1>3, <3>1, RangeFact
    <3>3. QED
      BY <3>2 DEF IsValidLog
  <2>5. QED
    BY <2>3, <2>4
<1>7. QED
  BY <1>1, <1>2, <1>5, <1>6

\* Where a transaction was given: the parts of the invariant that say so.
LEMMA GivenFact ==
  ASSUME Inv, phase = "done", NEW c \in DOMAIN replayed, NEW n \in DOMAIN replayed[c],
         NEW x, x = replayed[c][n]
  PROVE  /\ lines = Len(connectionlog) /\ Saved
         /\ x \in Selected /\ x \in ExtractedXids /\ c \in DOMAIN connections
         /\ n \in Nat \ {0}
         /\ c[1] = KeyOfXid(x) /\ Second(c[2]) <= StartTime(x)
         /\ \A d \in DOMAIN connections :
              d[1] = KeyOfXid(x) /\ Second(d[2]) <= StartTime(x) => d[2] <= c[2]
         /\ \A m \in 1..(n-1) : Before(replayed[c][m], x)
<1>1. PhaseInv /\ MatchInv
  BY DEF Inv, ClusterInv
<1>2. lines = Len(connectionlog) /\ Saved /\ Loaded
  BY <1>1 DEF PhaseInv, Unread, Saved, Loaded
<1>3. Given /\ c \in DOMAIN connections
  BY <1>1, <1>2 DEF MatchInv
<1>4. x \in Selected /\ n \in Nat \ {0}
  <2>1. replayed[c] \in Seq(Selected \ unmatched)
    BY <1>3 DEF Given
  <2>2. QED
    BY <2>1, ElementFact
<1>5. /\ c \in Candidates(x) /\ \A d \in Candidates(x) : d[2] <= c[2]
      /\ \A m \in 1..(n-1) : Before(replayed[c][m], x)
  BY <1>3 DEF Given
<1>6. QED
  BY <1>2, <1>3, <1>4, <1>5 DEF Candidates, Selected

\* The line a connection comes from, when it is not one of those that were
\* added: in any case it is that of the transaction's session.
LEMMA OwnConnection ==
  ASSUME Inv, phase = "done", NEW c \in DOMAIN replayed, NEW n \in DOMAIN replayed[c],
         NEW x, x = replayed[c][n], ~AfterRange(SessionOf(x))
  PROVE  /\ c = Connection(SessionOf(x))
         /\ \A l \in 1..lines : IsKept(l) /\ c = Connection(Of(l)) => Of(l) = SessionOf(x)
<1>1. /\ Types /\ PhaseInv /\ SessionsInv /\ HistoryInv /\ LinesInv /\ ConnectionsInv /\ EntriesInv
  BY DEF Inv, ClusterInv
<1>2. /\ lines = Len(connectionlog) /\ Saved
      /\ x \in ExtractedXids /\ c \in DOMAIN connections
      /\ c[1] = KeyOfXid(x) /\ Second(c[2]) <= StartTime(x)
      /\ \A d \in DOMAIN connections :
           d[1] = KeyOfXid(x) /\ Second(d[2]) <= StartTime(x) => d[2] <= c[2]
  BY GivenFact
<1>3. PICK i \in DOMAIN history :
        /\ XidOf(i) = x /\ RecordTime(i) = StartTime(x) /\ IsValidLog(i)
        /\ KeyOfXid(x) = history[i].key /\ SessionOf(x) = sessions[history[i].session]
  BY <1>1, <1>2, FirstFact
<1>4. PICK s : s = history[i].session
  OBVIOUS
<1>5. s \in DOMAIN sessions /\ sessions[s].key = history[i].key /\ SessionOf(x) = sessions[s]
  BY <1>1, <1>3, <1>4, WithinFact
<1>6. Connection(sessions[s])[1] = KeyOfXid(x)
  BY <1>3, <1>5 DEF Connection
<1>7. ASSUME NEW l \in 1..lines, IsKept(l), c = Connection(Of(l))
      PROVE  Of(l) = sessions[s]
  <2>1. Of(l).key = history[i].key
    BY <1>2, <1>3, <1>7 DEF Connection
  <2>2. Second(Connection(Of(l))[2]) <= RecordTime(i)
    BY <1>2, <1>3, <1>7
  <2>3. Connection(sessions[s]) \in DOMAIN connections
          /\ Second(Connection(sessions[s])[2]) <= RecordTime(i) =>
            Connection(sessions[s])[2] <= Connection(Of(l))[2]
    BY <1>2, <1>3, <1>6, <1>7
  <2>4. QED
    BY <1>1, <1>2, <1>3, <1>4, <1>5, <1>7, <2>1, <2>2, <2>3, SameSession
<1>8. CASE \E l \in 1..lines : IsKept(l) /\ c = Connection(Of(l))
  BY <1>5, <1>7, <1>8
<1>9. CASE c[1] \in Missing /\ c[2] = range.start
  <2>1. ~InRange(sessions[s].from)
    <3>1. SUFFICES ASSUME InRange(sessions[s].from)
                   PROVE  FALSE
      OBVIOUS
    <3>2. PICK l \in 1..lines : IsKept(l) /\ Of(l) = sessions[s]
      BY <1>1, <1>2, <1>5, <3>1, BeginLine
    <3>3. sessions[s].key \in DOMAIN lastconnections
      BY <1>1, <3>2 DEF ConnectionsInv
    <3>4. QED
      BY <1>2, <1>3, <1>5, <1>9, <3>3 DEF Missing
  <2>2. Connection(sessions[s]) = <<sessions[s].key, range.start>>
    BY <2>1 DEF Connection
  <2>3. c = <<c[1], c[2]>>
    <3>1. DOMAIN connections \subseteq Keys \X Nat
      BY <1>1 DEF Types
    <3>2. QED
      BY <1>2, <3>1
  <2>4. c = Connection(sessions[s])
    BY <1>2, <1>3, <1>5, <1>9, <2>2, <2>3
  <2>5. QED
    BY <1>5, <1>7, <2>4
<1>10. QED
  BY <1>1, <1>2, <1>8, <1>9 DEF ConnectionsInv

---------------------------------------------------------------------------
(* The properties.                                                         *)

\* The inductive invariant implies the type invariant.
LEMMA TypesFollow ==
  ASSUME Inv
  PROVE  TypeOK
<1>1. /\ Types /\ PhaseInv /\ SessionsInv /\ HistoryInv /\ LinesInv
      /\ ConnectionsInv /\ EntriesInv /\ MatchInv
  BY DEF Inv, ClusterInv
<1>2. \A n \in DOMAIN logs :
        /\ n[2] = Second(n[2]) /\ logs[n] # <<>>
        /\ \A e \in DOMAIN logs[n] :
             /\ logs[n][e].id \in DOMAIN history
             /\ n = <<XidOf(logs[n][e].id), RecordTime(logs[n][e].id)>>
  <2>1. SUFFICES ASSUME NEW n \in DOMAIN logs
                 PROVE  /\ n[2] = Second(n[2]) /\ logs[n] # <<>>
                        /\ \A e \in DOMAIN logs[n] :
                             /\ logs[n][e].id \in DOMAIN history
                             /\ n = <<XidOf(logs[n][e].id), RecordTime(logs[n][e].id)>>
    OBVIOUS
  <2>2. PICK i \in DOMAIN history : n[2] = RecordTime(i)
    BY <1>1, NameFact
  <2>3. Second(RecordTime(i)) = RecordTime(i)
    BY <1>1, RecordTypes, SecondFact DEF RecordTime
  <2>4. \A e \in DOMAIN logs[n] : EntryInv(n, logs[n][e])
    BY <1>1 DEF EntriesInv
  <2>5. logs[n] # <<>>
    BY <1>1 DEF Types
  <2>6. QED
    BY <2>2, <2>3, <2>4, <2>5 DEF EntryInv, Name
<1>3. DOMAIN connections \subseteq Keys \X (0..MaxTime)
  <2>1. SUFFICES ASSUME NEW c \in DOMAIN connections
                 PROVE  c \in Keys \X (0..MaxTime)
    OBVIOUS
  <2>2. c \in Keys \X Nat
    BY <1>1 DEF Types
  <2>3. clock = MaxTime /\ MaxTime \in Nat
    <3>1. connections # <<>>
      BY <2>1
    <3>2. QED
      BY <1>1, <3>1, ExtractAssumption DEF PhaseInv
  <2>4. range.start \in 0..MaxTime
    BY <1>1 DEF Types
  <2>5. CASE \E l \in 1..lines : IsKept(l) /\ c = Connection(Of(l))
    <3>1. PICK l \in 1..lines : IsKept(l) /\ c = Connection(Of(l))
      BY <2>5
    <3>2. PICK r \in DOMAIN sessions : Of(l) = sessions[r] /\ sessions[r].from \in Nat
      BY <1>1, <3>1, KeptRange
    <3>3. sessions[r].from <= MaxTime
      BY <1>1, <2>3 DEF SessionsInv
    <3>4. c[2] = sessions[r].from \/ c[2] = range.start
      BY <3>1, <3>2 DEF Connection
    <3>5. QED
      BY <2>2, <2>3, <2>4, <3>2, <3>3, <3>4
  <2>6. CASE c[2] = range.start
    BY <2>2, <2>4, <2>6
  <2>7. QED
    BY <1>1, <2>5, <2>6 DEF ConnectionsInv
<1>4. \A k \in DOMAIN lastconnections : lastconnections[k] \in DOMAIN connections
  BY <1>1 DEF ConnectionsInv
<1>5. ExtractTypeOK
  <2>1. /\ lines \in 0..Len(connectionlog) /\ file \in 1..(Len(activitylog) + 1) /\ entry \in Nat
    BY <1>1 DEF Types
  <2>2. phase \in {"cluster", "connectionlog", "useractivitylog", "exited", "saved",
                   "matching", "failed", "done"}
    BY <1>1 DEF Types
  <2>3. QED
    BY <1>2, <1>3, <1>4, <2>1, <2>2 DEF ExtractTypeOK
<1>6. /\ selected \subseteq Keys /\ DOMAIN replayed \subseteq DOMAIN connections
      /\ unmatched \subseteq ExtractedXids
      /\ \A c \in DOMAIN replayed : c[1] \in selected
  <2>1. CASE Loaded
    BY <1>1, <2>1 DEF MatchInv, Selected
  <2>2. CASE ~Loaded
    <3>1. selected = {} /\ unmatched = {} /\ DOMAIN replayed = {}
      BY <1>1, <2>2 DEF MatchInv
    <3>2. QED
      BY <3>1
  <2>3. QED
    BY <2>1, <2>2
<1>7. QED
  BY <1>5, <1>6 DEF TypeOK

\* The parsers' state and the loader's are well-typed, in every state.
THEOREM WorkloadTypeCorrect == Spec => []TypeOK
<1>1. Inv => TypeOK
  BY TypesFollow
<1>2. QED
  BY <1>1, InvHolds, PTL

\* The inductive invariant implies that transactions stay in their sessions.
LEMMA OwnSession ==
  ASSUME Inv
  PROVE  EachInItsSession
<1>1. SUFFICES ASSUME phase = "done", NEW c \in DOMAIN replayed, NEW n \in DOMAIN replayed[c],
                      ~AfterRange(SessionOf(replayed[c][n]))
               PROVE  c = Connection(SessionOf(replayed[c][n]))
  BY DEF EachInItsSession, Connection
<1>2. QED
  BY <1>1, OwnConnection

\* main() gives every transaction to the connection of the session that ran it,
\* whatever clients share the cluster and however their process ids are used
\* again, unless the session began after the range.
THEOREM SessionsAreKept == Spec => []EachInItsSession
<1>1. Inv => EachInItsSession
  BY OwnSession
<1>2. QED
  BY <1>1, InvHolds, PTL

\* The inductive invariant implies that connections span their statements.
LEMMA Spanned ==
  ASSUME Inv
  PROVE  ConnectionSpansStatements
<1>1. SUFFICES ASSUME phase = "done", NEW c \in DOMAIN replayed, NEW n \in DOMAIN replayed[c],
                      NEW t \in Seconds(replayed[c][n])
               PROVE  /\ Second(c[2]) <= t
                      /\ \/ connections[c] = Unset \/ t <= connections[c]
                         \/ AfterRange(SessionOf(replayed[c][n]))
  BY DEF ConnectionSpansStatements
<1>2. PICK x : x = replayed[c][n]
  OBVIOUS
<1>3. /\ Types /\ PhaseInv /\ SessionsInv /\ HistoryInv /\ LinesInv /\ ConnectionsInv /\ EntriesInv
  BY DEF Inv, ClusterInv
<1>4. /\ x \in ExtractedXids /\ c \in DOMAIN connections /\ Second(c[2]) <= StartTime(x)
  BY <1>1, <1>2, GivenFact
<1>5. /\ StartTime(x) \in Nat /\ t \in Nat /\ StartTime(x) <= t
  BY <1>1, <1>2, <1>3, <1>4, StartFact
<1>6. Second(c[2]) <= t
  <2>1. c[2] \in Nat
    <3>1. DOMAIN connections \subseteq Keys \X Nat
      BY <1>3 DEF Types
    <3>2. QED
      BY <1>4, <3>1
  <2>2. Second(c[2]) \in Nat
    BY <2>1, SecondFact
  <2>3. QED
    BY <1>4, <1>5, <2>2
<1>7. ASSUME ~AfterRange(SessionOf(x))
      PROVE  connections[c] = Unset \/ t <= connections[c]
  <2>1. PICK i \in DOMAIN history : XidOf(i) = x /\ RecordTime(i) = t /\ IsValidLog(i)
    BY <1>1, <1>2, <1>3, SecondsFact
  <2>2. SessionOf(x) = sessions[history[i].session]
    BY <1>3, <2>1, XidFact
  <2>3. CASE connections[c] = range.end
    BY <1>5, <2>1, <2>3 DEF IsValidLog, InRange
  <2>4. CASE \E l \in 1..lines : /\ IsKept(l) /\ c = Connection(Of(l)) /\ Ends(connectionlog[l])
                                 /\ connections[c] = Of(l).to
    <3>1. PICK l \in 1..lines : /\ IsKept(l) /\ c = Connection(Of(l)) /\ Ends(connectionlog[l])
                                /\ connections[c] = Of(l).to
      BY <2>4
    <3>2. Of(l) = sessions[history[i].session]
      BY <1>1, <1>2, <1>7, <2>2, <3>1, OwnConnection
    <3>3. Closed(sessions[history[i].session])
      BY <1>3, <3>1, <3>2, KeptRange
    <3>4. RecordTime(i) <= sessions[history[i].session].to
      BY <1>3, <3>3, WithinFact
    <3>5. QED
      BY <2>1, <3>1, <3>2, <3>4
  <2>5. QED
    BY <1>3, <1>4, <2>3, <2>4 DEF ConnectionsInv
<1>8. QED
  BY <1>2, <1>6, <1>7

\* A connection is open while the statements given to it are replayed: it
\* begins no later than their second and ends no earlier.
THEOREM ConnectionsSpan == Spec => []ConnectionSpansStatements
<1>1. Inv => ConnectionSpansStatements
  BY Spanned
<1>2. QED
  BY <1>1, InvHolds, PTL

\* Transaction ids, which are compared as strings, have as many digits each.
XidsInOrder ==
  \A x, y \in FirstXid..(FirstXid + MaxStatements) : XidBefore(x, y) => x < y

\* Ids of more than one digit do.
LEMMA LongXids ==
  ASSUME FirstXid >= 10
  PROVE  XidsInOrder
BY ExtractAssumption DEF XidsInOrder, XidBefore, Padded

\* The order of the transactions of a connection is that of their seconds.
LEMMA BeforeFact ==
  ASSUME Inv, XidsInOrder, NEW x \in ExtractedXids, NEW y \in ExtractedXids, Before(x, y)
  PROVE  \/ StartTime(x) < StartTime(y)
         \/ StartTime(x) = StartTime(y) /\ x < y
<1>1. Types /\ HistoryInv /\ EntriesInv
  BY DEF Inv, ClusterInv
<1>2. \A i \in DOMAIN history : XidOf(i) \in FirstXid..(FirstXid + MaxStatements)
  <2>1. SUFFICES ASSUME NEW i \in DOMAIN history
                 PROVE  XidOf(i) \in FirstXid..(FirstXid + MaxStatements)
    OBVIOUS
  <2>2. i \in 1..Len(history) /\ i \in Nat /\ XidOf(i) \in Nat /\ Len(history) <= MaxStatements
    BY <1>1, RecordTypes DEF Types
  <2>3. FirstXid <= XidOf(i) /\ XidOf(i) < FirstXid + i
    BY <1>1 DEF HistoryInv
  <2>4. history \in Seq(Records) /\ FirstXid \in Nat /\ MaxStatements \in Nat
    BY <1>1, ExtractAssumption DEF Types
  <2>5. QED
    BY <2>2, <2>3, <2>4
<1>3. /\ x \in FirstXid..(FirstXid + MaxStatements)
      /\ y \in FirstXid..(FirstXid + MaxStatements)
  BY <1>1, <1>2, ExtractedFact
<1>4. XidBefore(x, y) => x < y
  BY <1>3 DEF XidsInOrder
<1>5. QED
  BY <1>4 DEF Before

\* Records that are stamped with an earlier second were executed earlier.
LEMMA EarlierFact ==
  ASSUME Types, HistoryInv, NEW i \in DOMAIN history, NEW j \in DOMAIN history,
         RecordTime(i) < RecordTime(j)
  PROVE  i < j
<1>1. i \in Nat /\ j \in Nat /\ history[i].time \in Nat /\ history[j].time \in Nat
      /\ RecordTime(i) \in Nat /\ RecordTime(j) \in Nat
  BY RecordTypes
<1>2. CASE j < i
  <2>1. history[j].time <= history[i].time
    BY <1>2 DEF HistoryInv
  <2>2. RecordTime(j) <= RecordTime(i)
    BY <1>1, <2>1, SecondOrder DEF RecordTime
  <2>3. QED
    BY <1>1, <2>2
<1>3. QED
  BY <1>1, <1>2

\* Statements of one client, of an earlier and a later transaction.
LEMMA TransactionOrder ==
  ASSUME Inv, XidsInOrder, NEW x \in ExtractedXids, NEW y \in ExtractedXids, Before(x, y),
         KeyOfXid(x) = KeyOfXid(y),
         NEW i \in DOMAIN history, NEW j \in DOMAIN history,
         XidOf(i) = x, XidOf(j) = y, RecordTime(j) \in Seconds(y), RecordTime(i) \in Seconds(x)
  PROVE  i <= j
<1>1. Types /\ SessionsInv /\ HistoryInv /\ EntriesInv
  BY DEF Inv, ClusterInv
<1>2. /\ i \in Nat /\ j \in Nat /\ x \in Nat /\ y \in Nat
      /\ RecordTime(i) \in Nat /\ RecordTime(j) \in Nat
  BY <1>1, RecordTypes
<1>3. /\ StartTime(x) \in Nat /\ StartTime(y) \in Nat
      /\ StartTime(x) <= RecordTime(i) /\ StartTime(y) <= RecordTime(j)
  BY <1>1, StartFact
<1>4. \/ StartTime(x) < StartTime(y)
      \/ StartTime(x) = StartTime(y) /\ x < y
  BY BeforeFact
<1>5. PICK u \in DOMAIN history : XidOf(u) = x /\ RecordTime(u) = StartTime(x)
  BY <1>1, FirstFact
<1>6. PICK v \in DOMAIN history : XidOf(v) = y /\ RecordTime(v) = StartTime(y)
  BY <1>1, FirstFact
<1>7. PICK r, s : r = history[i].session /\ s = history[j].session
  OBVIOUS
<1>8. /\ history[u].session = r /\ history[v].session = s
  BY <1>1, <1>5, <1>6, <1>7 DEF HistoryInv
<1>9. CASE r = s
  <2>1. SUFFICES ASSUME j < i
                 PROVE  FALSE
    BY <1>2
  <2>2. y <= x
    BY <1>1, <1>7, <1>9, <2>1 DEF HistoryInv
  <2>3. StartTime(x) < StartTime(y)
    BY <1>2, <1>4, <2>2
  <2>4. u < v
    BY <1>1, <1>5, <1>6, <2>3, EarlierFact
  <2>5. x <= y
    BY <1>1, <1>5, <1>6, <1>8, <1>9, <2>4 DEF HistoryInv
  <2>6. x = y
    BY <1>2, <2>2, <2>5
  <2>7. QED
    BY <1>3, <2>3, <2>6
<1>10. CASE r # s
  <2>1. /\ r \in DOMAIN sessions /\ s \in DOMAIN sessions /\ r \in Nat /\ s \in Nat
        /\ sessions[r].key = sessions[s].key
    <3>1. history[i].key = history[j].key
      BY <1>1, XidFact
    <3>2. QED
      BY <1>1, <1>7, <3>1, WithinFact
  <2>2. CASE r < s
    <3>1. Closed(sessions[r]) /\ Second(sessions[r].to) < Second(sessions[s].from)
      BY <1>1, <2>1, <2>2, SessionOrder
    <3>2. /\ Second(sessions[r].to) \in Nat /\ RecordTime(i) <= Second(sessions[r].to)
          /\ Second(sessions[s].from) \in Nat /\ Second(sessions[s].from) <= RecordTime(j)
      BY <1>1, <1>7, <3>1, WithinFact
    <3>3. RecordTime(i) < RecordTime(j)
      BY <1>2, <3>1, <3>2
    <3>4. QED
      BY <1>1, <1>2, <3>3, EarlierFact
  <2>3. CASE s < r
    <3>1. Closed(sessions[s]) /\ Second(sessions[s].to) < Second(sessions[r].from)
      BY <1>1, <2>1, <2>3, SessionOrder
    <3>2. /\ Second(sessions[s].to) \in Nat /\ RecordTime(v) <= Second(sessions[s].to)
          /\ Second(sessions[r].from) \in Nat /\ Second(sessions[r].from) <= RecordTime(u)
      BY <1>1, <1>8, <3>1, WithinFact
    <3>3. StartTime(y) < StartTime(x)
      BY <1>3, <1>5, <1>6, <3>1, <3>2
    <3>4. QED
      BY <1>3, <1>4, <3>3
  <2>4. QED
    BY <1>10, <2>1, <2>2, <2>3
<1>11. QED
  BY <1>9, <1>10

\* Three numbers, the most significant first.
LEMMA PrecedesFact ==
  ASSUME NEW a, NEW b, NEW c, NEW d, NEW e, NEW f, Precedes(<<a, b, c>>, <<d, e, f>>)
  PROVE  a < d \/ (a = d /\ b < e) \/ (a = d /\ b = e /\ c < f)
<1> DEFINE p == <<a, b, c>>
           q == <<d, e, f>>
<1>1. PICK i \in DOMAIN p : p[i] < q[i] /\ \A j \in 1..(i-1) : p[j] = q[j]
  BY DEF Precedes
<1>2. i \in 1..3
  OBVIOUS
<1>3. i = 1 \/ i = 2 \/ i = 3
  BY <1>2
<1>4. CASE i = 1
  BY <1>1, <1>4
<1>5. CASE i = 2
  <2>1. p[1] = q[1] /\ p[2] < q[2]
    BY <1>1, <1>5
  <2>2. QED
    BY <2>1
<1>6. CASE i = 3
  <2>1. p[1] = q[1] /\ p[2] = q[2] /\ p[3] < q[3]
    BY <1>1, <1>6
  <2>2. QED
    BY <2>1
<1>7. QED
  BY <1>3, <1>4, <1>5, <1>6

\* The inductive invariant implies the order of a connection's statements.
LEMMA Ordered ==
  ASSUME Inv, XidsInOrder
  PROVE  OriginalOrder
<1>1. SUFFICES ASSUME phase = "done", NEW c \in DOMAIN replayed,
                      NEW m \in DOMAIN replayed[c], NEW n \in DOMAIN replayed[c],
                      NEW s \in Seconds(replayed[c][m]), NEW t \in Seconds(replayed[c][n]),
                      NEW k \in DOMAIN Entries(c, m, s), NEW l \in DOMAIN Entries(c, n, t),
                      Precedes(<<m, s, k>>, <<n, t, l>>)
               PROVE  Entries(c, m, s)[k].id <= Entries(c, n, t)[l].id
  BY DEF OriginalOrder
<1>2. Types /\ SessionsInv /\ HistoryInv /\ EntriesInv
  BY DEF Inv, ClusterInv
<1>3. PICK x, y : x = replayed[c][m] /\ y = replayed[c][n]
  OBVIOUS
<1>4. /\ x \in ExtractedXids /\ y \in ExtractedXids /\ KeyOfXid(x) = KeyOfXid(y)
      /\ m \in Nat \ {0} /\ n \in Nat \ {0}
      /\ \A h \in 1..(n-1) : Before(replayed[c][h], y)
  BY <1>1, <1>3, GivenFact
<1>5. PICK i, j : i = logs[<<x, s>>][k].id /\ j = logs[<<y, t>>][l].id
  OBVIOUS
<1>6. /\ <<x, s>> \in DOMAIN logs /\ <<y, t>> \in DOMAIN logs
      /\ i \in DOMAIN history /\ XidOf(i) = x /\ RecordTime(i) = s
      /\ j \in DOMAIN history /\ XidOf(j) = y /\ RecordTime(j) = t
      /\ i \in Nat /\ j \in Nat
  BY <1>1, <1>2, <1>3, <1>5, SecondsFact, RecordTypes DEF Entries
<1>7. m < n \/ (m = n /\ s < t) \/ (m = n /\ s = t /\ k < l)
  BY <1>1, PrecedesFact
<1>8. CASE m < n
  <2>1. Before(x, y)
    BY <1>3, <1>4, <1>8
  <2>2. i <= j
    BY <1>1, <1>3, <1>4, <1>6, <2>1, TransactionOrder
  <2>3. QED
    BY <1>3, <1>5, <2>2 DEF Entries
<1>9. CASE m = n /\ s < t
  <2>1. i < j
    BY <1>2, <1>6, <1>9, EarlierFact
  <2>2. QED
    BY <1>3, <1>5, <1>6, <2>1 DEF Entries
<1>10. CASE m = n /\ s = t /\ k < l
  <2>1. x = y /\ InOrder(logs[<<x, s>>])
    BY <1>2, <1>3, <1>6, <1>10 DEF EntriesInv
  <2>2. k \in DOMAIN logs[<<x, s>>] /\ l \in DOMAIN logs[<<x, s>>]
    BY <1>1, <1>3, <1>10 DEF Entries
  <2>3. i <= j
    BY <1>5, <1>10, <2>1, <2>2 DEF InOrder
  <2>4. QED
    BY <1>3, <1>5, <2>3 DEF Entries
<1>11. QED
  BY <1>7, <1>8, <1>9, <1>10

\* A connection replays its statements in the order in which the cluster
\* executed them, across transactions and files, as long as the transaction
\* ids, which are sorted as strings, have the same number of digits.
THEOREM OrderIsKept == XidsInOrder => (Spec => []OriginalOrder)
<1>1. Inv /\ XidsInOrder => OriginalOrder
  BY Ordered
<1>2. XidsInOrder => XidsInOrder'
  BY DEF XidsInOrder, XidBefore, Padded
<1>3. XidsInOrder /\ [Next]_vars => XidsInOrder'
  BY <1>2
<1>4. QED
  BY <1>1, <1>3, InvHolds, PTL DEF Spec

\* A transaction of a session that did not begin after the range has a candidate.
LEMMA HasCandidate ==
  ASSUME Inv, Saved, NEW x \in ExtractedXids,
         ~AfterRange(SessionOf(x)), ~Superseded(SessionOf(x))
  PROVE  Candidates(x) # {}
<1>1. /\ Types /\ PhaseInv /\ SessionsInv /\ HistoryInv /\ LinesInv /\ ConnectionsInv /\ EntriesInv
  BY DEF Inv, ClusterInv
<1>2. lines = Len(connectionlog)
  BY <1>1 DEF PhaseInv, Unread, Saved
<1>3. PICK i \in DOMAIN history :
        /\ XidOf(i) = x /\ RecordTime(i) = StartTime(x) /\ IsValidLog(i)
        /\ KeyOfXid(x) = history[i].key /\ SessionOf(x) = sessions[history[i].session]
  BY <1>1, FirstFact
<1>4. PICK s : s = history[i].session
  OBVIOUS
<1>5. /\ s \in DOMAIN sessions /\ sessions[s].key = KeyOfXid(x) /\ SessionOf(x) = sessions[s]
      /\ sessions[s].from \in Nat \ {0} /\ RecordTime(i) \in Nat
      /\ Second(sessions[s].from) <= RecordTime(i)
  BY <1>1, <1>3, <1>4, WithinFact
<1>6. range.start \in Nat /\ range.end \in Nat /\ Second(range.start) \in Nat
      /\ Second(range.start) <= range.start /\ range.start <= Earliest /\ Earliest \in Nat
  BY <1>1, RangeTypes, RangeFact, SecondFact
<1>7. CASE InRange(sessions[s].from)
  <2>1. PICK l \in 1..lines : IsKept(l) /\ Of(l) = sessions[s]
    BY <1>1, <1>2, <1>5, <1>7, BeginLine
  <2>2. <<sessions[s].key, sessions[s].from>> \in DOMAIN connections
    BY <1>1, <1>7, <2>1 DEF ConnectionsInv, Connection
  <2>3. <<sessions[s].key, sessions[s].from>> \in Candidates(x)
    BY <1>3, <1>5, <2>2 DEF Candidates
  <2>4. QED
    BY <2>3
<1>8. CASE ~InRange(sessions[s].from)
  <2>1. sessions[s].from < Earliest
    BY <1>1, <1>5, <1>6, <1>8, RangeFact DEF AfterRange
  <2>2. <<KeyOfXid(x), range.start>> \in DOMAIN connections
    <3>1. CASE KeyOfXid(x) \in Missing
      BY <1>1, <3>1 DEF ConnectionsInv
    <3>2. CASE KeyOfXid(x) \notin Missing
      <4>1. KeyOfXid(x) \in DOMAIN lastconnections
        BY <3>2 DEF Missing
      <4>2. PICK l \in 1..lines : IsKept(l) /\ Of(l).key = KeyOfXid(x)
        BY <1>1, <4>1 DEF ConnectionsInv
      <4>3. PICK r \in DOMAIN sessions : Of(l) = sessions[r] /\ sessions[r].from \in Nat
        BY <1>1, <4>2, KeptRange
      <4>4. sessions[r].from <= sessions[s].from
        BY <1>5, <1>8, <4>2, <4>3 DEF Superseded
      <4>5. ~InRange(sessions[r].from)
        BY <1>1, <1>5, <1>6, <2>1, <4>3, <4>4, RangeFact
      <4>6. Connection(Of(l)) = <<KeyOfXid(x), range.start>>
        BY <4>2, <4>3, <4>5 DEF Connection
      <4>7. QED
        BY <1>1, <4>2, <4>6 DEF ConnectionsInv
    <3>3. QED
      BY <3>1, <3>2
  <2>3. range.start <= RecordTime(i)
    BY <1>1, <1>3, <1>5, <1>6, RangeFact DEF IsValidLog
  <2>4. Second(range.start) <= StartTime(x)
    BY <1>3, <1>5, <1>6, <2>3
  <2>5. <<KeyOfXid(x), range.start>> \in Candidates(x)
    BY <2>2, <2>4 DEF Candidates
  <2>6. QED
    BY <2>5
<1>9. QED
  BY <1>7, <1>8

\* The inductive invariant implies that what is lost is one of the named cases.
LEMMA LossBounded ==
  ASSUME Inv
  PROVE  LossIsBounded
<1>1. SUFFICES ASSUME phase = "done", NEW i \in DOMAIN history, IsValidLog(i),
                      history[i].key \in selected, ~EndsFile(i), ~SaysTheSame(i), ~IsSilenced(i),
                      ~Superseded(sessions[history[i].session]),
                      ~AfterRange(sessions[history[i].session])
               PROVE  IsReplayed(i)
  BY DEF LossIsBounded
<1>2. /\ Types /\ PhaseInv /\ HistoryInv /\ EntriesInv /\ KeptInv /\ MatchInv
  BY DEF Inv, ClusterInv
<1>3. Saved /\ Loaded /\ file > Len(activitylog)
  BY <1>1, <1>2 DEF PhaseInv, Saved, Loaded
<1>4. PICK f, e : /\ f \in DOMAIN activitylog /\ e \in DOMAIN activitylog[f]
                  /\ activitylog[f][e] = i /\ e < Len(activitylog[f])
  <2>1. PICK f, e : /\ f \in DOMAIN activitylog /\ e \in DOMAIN activitylog[f]
                    /\ activitylog[f][e] = i /\ e # Len(activitylog[f])
    BY <1>1 DEF EndsFile
  <2>2. e \in 1..Len(activitylog[f]) /\ activitylog[f] \in Seq(Nat)
    BY <1>2, <2>1, FileTypes
  <2>3. e < Len(activitylog[f])
    BY <2>1, <2>2
  <2>4. QED
    BY <2>1, <2>3
<1>5. IsRead(f, e)
  <2>1. f \in 1..Len(activitylog)
    BY <1>2, <1>4, FileTypes
  <2>2. activitylog \in Seq(Seq(Nat)) /\ file \in 1..(Len(activitylog) + 1)
    BY <1>2 DEF Types
  <2>3. QED
    BY <1>3, <2>1, <2>2 DEF IsRead
<1>6. /\ Name(i) \in DOMAIN logs
      /\ \E k \in DOMAIN logs[Name(i)] :
           logs[Name(i)][k].id = i /\ logs[Name(i)][k].text.word # "comment"
  <2>1. Name(i) \in DOMAIN logs /\ \E k \in DOMAIN logs[Name(i)] : logs[Name(i)][k].id = i
    BY <1>1, <1>2, <1>4, <1>5 DEF KeptInv
  <2>2. PICK q : q = logs[Name(i)] /\ InOrder(q) /\ AfterFetch(q)
                 /\ \A k \in DOMAIN q : EntryInv(Name(i), q[k])
    BY <1>2, <2>1 DEF EntriesInv
  <2>3. PICK k \in DOMAIN q : q[k].id = i
    BY <2>1, <2>2
  <2>4. CASE q[k].text.word # "comment"
    BY <2>1, <2>2, <2>3, <2>4
  <2>5. CASE q[k].text.word = "comment"
    <3>1. PICK l \in DOMAIN q : l < k /\ q[l].text.word = "fetch"
      BY <2>2, <2>5 DEF AfterFetch
    <3>2. PICK j \in DOMAIN history : j = q[l].id /\ Name(j) = Name(i)
      BY <2>2 DEF EntryInv
    <3>3. i \in Nat /\ j \in Nat \ {0} /\ history[i].text \in AllTexts /\ history[j].text \in AllTexts
      BY <1>2, RecordTypes, ExtractAssumption
    <3>4. Stands(q[k].text, history[i].text) /\ Stands(q[l].text, history[j].text)
      BY <2>2, <2>3, <3>2 DEF EntryInv
    <3>5. history[i].text.word = "fetch" /\ history[j].text.word = "fetch"
      BY <2>5, <3>1, <3>3, <3>4, SilentFact DEF Stands
    <3>6. j <= i
      BY <2>2, <2>3, <3>1, <3>2 DEF InOrder
    <3>7. ~(j < i)
      <4>1. SUFFICES ASSUME j < i
                     PROVE  FALSE
        OBVIOUS
      <4>2. j \in EarlierInSecond(i)
        BY <3>2, <3>3, <4>1 DEF Name, EarlierInSecond
      <4>3. QED
        BY <1>1, <3>5, <4>2 DEF IsSilenced
    <3>8. q[l].id = i
      BY <3>2, <3>3, <3>6, <3>7
    <3>9. QED
      BY <2>1, <2>2, <3>1, <3>8
  <2>6. QED
    BY <2>4, <2>5
<1>7. PICK x, t : x = XidOf(i) /\ t = RecordTime(i)
  OBVIOUS
<1>8. Name(i) = <<x, t>> /\ x \in ExtractedXids /\ t \in Seconds(x)
  BY <1>6, <1>7 DEF Name, ExtractedXids, Seconds
<1>9. KeyOfXid(x) = history[i].key /\ SessionOf(x) = sessions[history[i].session]
  BY <1>2, <1>7, XidFact
<1>10. Candidates(x) # {}
  BY <1>1, <1>3, <1>8, <1>9, HasCandidate
<1>11. PICK c, n : c \in DOMAIN replayed /\ n \in DOMAIN replayed[c] /\ replayed[c][n] = x
  BY <1>1, <1>2, <1>3, <1>8, <1>9, <1>10 DEF MatchInv, Given, Selected
<1>12. PICK k \in DOMAIN Entries(c, n, t) :
         Entries(c, n, t)[k].id = i /\ Entries(c, n, t)[k].text.word # "comment"
  BY <1>6, <1>8, <1>11 DEF Entries
<1>13. QED
  BY <1>8, <1>11, <1>12 DEF IsReplayed

\* The inductive invariant implies that a repetition that is recognised runs once.
LEMMA RepeatsOnce ==
  ASSUME Inv
  PROVE  RepeatsRunOnce
<1>1. SUFFICES ASSUME phase = "done", NEW c \in DOMAIN replayed, NEW d \in DOMAIN replayed,
                      NEW m \in DOMAIN replayed[c], NEW n \in DOMAIN replayed[d],
                      NEW s \in Seconds(replayed[c][m]), NEW t \in Seconds(replayed[d][n]),
                      NEW k \in DOMAIN Entries(c, m, s), NEW l \in DOMAIN Entries(d, n, t),
                      Entries(c, m, s)[k].id = Entries(d, n, t)[l].id
               PROVE  /\ c = d /\ m = n /\ s = t
                      /\ k < l => Unrecognised(history[Entries(d, n, t)[l].id].text)
  BY DEF RepeatsRunOnce
<1>2. Types /\ HistoryInv /\ EntriesInv /\ MatchInv
  BY DEF Inv, ClusterInv
<1>3. PICK x, y : x = replayed[c][m] /\ y = replayed[d][n]
  OBVIOUS
<1>4. PICK i : i = logs[<<x, s>>][k].id /\ i = logs[<<y, t>>][l].id
  BY <1>1, <1>3 DEF Entries
<1>5. /\ <<x, s>> \in DOMAIN logs /\ XidOf(i) = x /\ RecordTime(i) = s
      /\ XidOf(i) = y /\ RecordTime(i) = t
  BY <1>1, <1>2, <1>3, <1>4, SecondsFact DEF Entries
<1>6. c = d /\ m = n
  <2>1. Given
    BY <1>1, <1>2 DEF MatchInv, Loaded
  <2>2. replayed[c][m] = replayed[d][n]
    BY <1>3, <1>5
  <2>3. QED
    BY <2>1, <2>2 DEF Given
<1>7. InOrder(logs[<<x, s>>]) /\ k \in DOMAIN logs[<<x, s>>] /\ l \in DOMAIN logs[<<x, s>>]
  BY <1>1, <1>2, <1>3, <1>5 DEF EntriesInv, Entries
<1>8. k < l => Unrecognised(history[i].text)
  <2>1. SUFFICES ASSUME k < l
                 PROVE  Unrecognised(history[i].text)
    OBVIOUS
  <2>2. RunsAgain(logs[<<x, s>>][l].text)
    BY <1>4, <1>5, <1>7, <2>1 DEF InOrder
  <2>3. i \in DOMAIN history /\ Stands(logs[<<x, s>>][l].text, history[i].text)
    BY <1>2, <1>4, <1>5, <1>7 DEF EntriesInv, EntryInv
  <2>4. history[i].text \in AllTexts
    BY <1>2, <2>3, RecordTypes, ExtractAssumption
  <2>5. CASE logs[<<x, s>>][l].text = history[i].text
    BY <2>2, <2>4, <2>5, SilentFact DEF RunsAgain
  <2>6. CASE history[i].text.word = "fetch"
    BY <2>6 DEF Unrecognised
  <2>7. QED
    BY <2>3, <2>5, <2>6 DEF Stands
<1>9. Entries(d, n, t)[l].id = i
  BY <1>3, <1>4 DEF Entries
<1>10. QED
  BY <1>3, <1>5, <1>6, <1>8, <1>9

\* Every transaction of a selected client finds a connection of the client, and
\* a connection without a start time is that of a session without a beginning.
LEMMA LoadFails ==
  ASSUME Inv, Loads, [Next]_vars
  PROVE  Loads'
<1>1. SUFFICES ASSUME NEW x \in unmatched, MatchFails(x)
               PROVE  /\ range.start = Unset
                      /\ \E s \in DOMAIN sessions :
                           sessions[s].key \in selected /\ ~InRange(sessions[s].from)
  <2>1. CASE ClusterStep
    BY <2>1, ClusterFrame DEF Loads
  <2>2. CASE ExtractStep
    BY <2>2 DEF Loads, ExtractStep, Extract, StartExtract, ParseConnectionLog, ConnectionLogRead,
                ParseUserActivityLog, NextActivityFile, NothingFound, SaveLogs
  <2>3. CASE Load \/ Prepared \/ \E x \in unmatched : Match(x)
    BY <2>3 DEF Loads, Load, Prepared, Match
  <2>4. CASE UNCHANGED vars
    BY <2>4 DEF Loads, vars, extractVars, cluster, InRange
  <2>5. ASSUME NEW x \in unmatched, MatchFails(x)
        PROVE  Loads'
    BY <1>1, <2>5 DEF MatchFails, cluster, Loads, InRange
  <2>6. QED
    BY <2>1, <2>2, <2>3, <2>4, <2>5, StepCases DEF LoaderStep
<1>2. /\ Types /\ PhaseInv /\ SessionsInv /\ HistoryInv /\ LinesInv
      /\ ConnectionsInv /\ EntriesInv /\ MatchInv
  BY DEF Inv, ClusterInv
<1>3. phase = "matching" /\ (KeyError(x) \/ NoStartTime(x))
  BY <1>1 DEF MatchFails
<1>4. /\ lines = Len(connectionlog) /\ Saved /\ range \in Ranges
      /\ unmatched \subseteq Selected
      /\ \A c \in DOMAIN replayed : c \in DOMAIN connections
      /\ \A c \in DOMAIN connections : c[1] \in selected => c \in DOMAIN replayed
  BY <1>2, <1>3 DEF PhaseInv, Unread, Saved, Loaded, MatchInv
<1>5. x \in ExtractedXids /\ KeyOfXid(x) \in selected
  BY <1>4 DEF Selected
<1>6. PICK k : k = KeyOfXid(x)
  OBVIOUS
<1>7. \E c \in DOMAIN connections : c[1] = k
  <2>1. CASE k \in Missing
    <3>1. <<k, range.start>> \in DOMAIN connections
      BY <1>2, <1>4, <2>1 DEF ConnectionsInv
    <3>2. QED
      BY <3>1
  <2>2. CASE k \notin Missing
    <3>1. k \in DOMAIN lastconnections
      BY <1>5, <1>6, <2>2 DEF Missing
    <3>2. PICK l \in 1..lines : IsKept(l) /\ Of(l).key = k
      BY <1>2, <3>1 DEF ConnectionsInv
    <3>3. Connection(Of(l)) \in DOMAIN connections /\ Connection(Of(l))[1] = k
      BY <1>2, <3>2 DEF ConnectionsInv, Connection
    <3>4. QED
      BY <3>3
  <2>3. QED
    BY <2>1, <2>2
<1>8. ~KeyError(x)
  BY <1>4, <1>5, <1>6, <1>7 DEF KeyError, Possible
<1>9. PICK c \in DOMAIN connections : c[1] = k /\ c[2] = Unset
  BY <1>3, <1>4, <1>6, <1>8 DEF NoStartTime, Possible
<1>10. range.start \in Nat /\ k \in selected
  BY <1>2, <1>5, <1>6, RangeTypes
<1>11. CASE \E l \in 1..lines : IsKept(l) /\ c = Connection(Of(l))
  <2>1. PICK l \in 1..lines : IsKept(l) /\ c = Connection(Of(l))
    BY <1>11
  <2>2. PICK r \in DOMAIN sessions : Of(l) = sessions[r] /\ sessions[r].from \in Nat \ {0}
    BY <1>2, <2>1, KeptRange
  <2>3. sessions[r].key = k
    BY <1>9, <2>1, <2>2 DEF Connection
  <2>4. ~InRange(sessions[r].from)
    BY <1>9, <2>1, <2>2 DEF Connection, Unset
  <2>5. range.start = Unset
    BY <1>9, <2>1, <2>2, <2>4 DEF Connection
  <2>6. QED
    BY <1>10, <2>3, <2>4, <2>5
<1>12. CASE k \in Missing /\ c[2] = range.start
  <2>1. PICK i \in DOMAIN history : k = history[i].key
    BY <1>2, <1>5, <1>6, ExtractedFact
  <2>2. PICK s \in DOMAIN sessions : sessions[s].key = k
    BY <1>2, <2>1, WithinFact
  <2>3. ~InRange(sessions[s].from)
    <3>1. SUFFICES ASSUME InRange(sessions[s].from)
                   PROVE  FALSE
      OBVIOUS
    <3>2. PICK l \in 1..lines : IsKept(l) /\ Of(l) = sessions[s]
      BY <1>2, <1>4, <3>1, BeginLine
    <3>3. k \in DOMAIN lastconnections
      BY <1>2, <2>2, <3>2 DEF ConnectionsInv
    <3>4. QED
      BY <1>12, <3>3 DEF Missing
  <2>4. QED
    BY <1>9, <1>10, <1>12, <2>2, <2>3
<1>13. QED
  BY <1>2, <1>9, <1>11, <1>12 DEF ConnectionsInv

\* The saved workload loads if a start_time was given or the beginnings of all
\* sessions are extracted; and what was executed is replayed once: no statement
\* of the range is lost and none is doubled, but for the named cases.
THEOREM ReplayedOnce == Spec => []OnceEach
<1>1. WorkloadInit => Loads
  BY DEF WorkloadInit, Init, Loads
<1>2. Inv /\ Loads /\ [Next]_vars => Loads'
  BY LoadFails
<1>3. Inv /\ Loads => OnceEach
  BY LossBounded, RepeatsOnce DEF OnceEach
<1>4. QED
  BY <1>1, <1>2, <1>3, InvHolds, PTL DEF Spec
=============================================================================
