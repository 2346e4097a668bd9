----------------------------- MODULE ExtractLogs -----------------------------
(***************************************************************************)
(* The extraction of Simple Replay: from the audit logs of a cluster to    *)
(* the connections and transactions of a workload.                         *)
(*                                                                         *)
(* First a cluster runs sessions and writes two logs (external): a         *)
(* connection log with a line when a session begins and one when it ends,  *)
(* and files of user activity with one entry per statement.  Then          *)
(* parse_log() reads the logs line by line, and save_logs() merges the     *)
(* entries into transactions and adds the connections the log does not     *)
(* mention.                                                                *)
(*                                                                         *)
(* A client key is the triple of database, user and process id; process    *)
(* ids are used again.  Time is counted in ticks; user activity is stamped *)
(* in whole seconds.  A statement is the number of its record in           *)
(* `history': parsers read the record's key, xid, text and its time in     *)
(* seconds, never its session.                                             *)
(***************************************************************************)
EXTENDS Naturals, Sequences, FiniteSets, SequencesExt

CONSTANTS Keys,             \* clients: database, user and process id
          Texts,            \* statement texts
          Ranges,           \* the ranges an extraction may be given
          TicksPerSecond,
          FirstXid,
          MaxTime, MaxSessions, MaxStatements, MaxFiles,
          MaxFaults         \* statements logged twice and crashes

Unset == 0                  \* the empty string in place of a time

(* The word after the comment in front: `internal' stands for every text    *)
(* that is_valid_log() refuses, `select' for the other words that           *)
(* is_duplicate() lists, `begin' for all it does not look for.              *)
Words == {"select", "create", "drop", "alter", "fetch", "begin", "internal"}
Definitions == {"create", "drop", "alter"}

(* A text: its word and whether that is written in lower case, whether a   *)
(* semicolon ends it, the length of the comment in front of the word (0    *)
(* without one), and a name for the rest.                                  *)
Text(word, lower, ended, comment, name) ==
  [word |-> word, lower |-> lower, ended |-> ended, comment |-> comment, name |-> name]
AllTexts == [word : Words, lower : BOOLEAN, ended : BOOLEAN, comment : Nat, name : Nat]

(* A range has the times of extract.yaml and the time since which the logs *)
(* are there: what is older has expired, or was before logging began.      *)
ASSUME ExtractAssumption ==
  /\ Texts \subseteq AllTexts
  /\ Ranges \subseteq [start : 0..MaxTime, end : 0..MaxTime, since : 0..MaxTime]
  /\ TicksPerSecond \in Nat \ {0} /\ FirstXid \in Nat \ {0}
  /\ {MaxTime, MaxSessions, MaxStatements, MaxFiles, MaxFaults} \subseteq Nat

VARIABLES phase,            \* what runs: the cluster, a parser, or the loader
          range,            \* what is extracted: start_time, end_time, the logs there are
          clock, sessions, history, connectionlog, activitylog, faults,
          lines,            \* lines of the connection log that were read
          file, entry,      \* the next entry of the activity files
          logs,             \* from xid and second to entries kept
          connections,      \* from primary key to disconnection time
          lastconnections   \* from client to primary key

cluster == <<clock, sessions, history, connectionlog, activitylog, faults>>
parsed == <<lines, file, entry, logs, connections, lastconnections>>
extractVars == <<phase, range, cluster, parsed>>

Second(t) == t - (t % TicksPerSecond)
InRange(t) == /\ range.start = Unset \/ t >= range.start
              /\ range.end = Unset \/ t <= range.end
              /\ t >= range.since

Closed(s) == s.to # Unset
XidOf(i) == history[i].xid
NewXid == FirstXid + Len(history)       \* greater than all before it
RecordTime(i) == Second(history[i].time)

(***************************************************************************)
(* The cluster.                                                            *)
(***************************************************************************)
Logged(event, s) == connectionlog' = Append(connectionlog, [event |-> event, session |-> s])

(* A process id is not used again within the second in which it was released. *)
OpenSession(k) ==
  /\ phase = "cluster" /\ Len(sessions) < MaxSessions
  /\ \A s \in DOMAIN sessions : sessions[s].key = k =>
        Closed(sessions[s]) /\ Second(sessions[s].to) < Second(clock)
  /\ sessions' = Append(sessions, [key |-> k, from |-> clock, to |-> Unset])
  /\ Logged("initiating session", Len(sessions) + 1)
  /\ UNCHANGED <<phase, range, clock, history, activitylog, faults, parsed>>

(* A statement continues its session's last transaction or begins one.  *)
Execute(s, text) ==
  /\ phase = "cluster" /\ Len(history) < MaxStatements /\ ~Closed(sessions[s])
  /\ LET mine == {i \in DOMAIN history : history[i].session = s}
         current == {XidOf(i) : i \in {j \in mine : \A k \in mine : k <= j}}
     IN \E x \in current \cup {NewXid} :
          history' = Append(history, [session |-> s, key |-> sessions[s].key, xid |-> x,
                                      text |-> text, time |-> clock])
  /\ activitylog' = [activitylog EXCEPT ![Len(activitylog)] = Append(@, Len(history) + 1)]
  /\ UNCHANGED <<phase, range, clock, sessions, connectionlog, faults, parsed>>

(* Drivers that prepare a statement leave it in the log twice.  *)
LogAgain ==
  /\ phase = "cluster" /\ faults < MaxFaults /\ history # <<>>
  /\ faults' = faults + 1
  /\ activitylog' = [activitylog EXCEPT ![Len(activitylog)] = Append(@, Len(history))]
  /\ UNCHANGED <<phase, range, clock, sessions, history, connectionlog, parsed>>

Disconnect(s) ==
  /\ phase = "cluster" /\ ~Closed(sessions[s])
  /\ sessions' = [sessions EXCEPT ![s].to = clock]
  /\ Logged("disconnecting session", s)
  /\ UNCHANGED <<phase, range, clock, history, activitylog, faults, parsed>>

(* The cluster restarts: sessions end without a line.  *)
Crash ==
  /\ phase = "cluster" /\ faults < MaxFaults
  /\ faults' = faults + 1
  /\ sessions' = [s \in DOMAIN sessions |->
                    IF Closed(sessions[s]) THEN sessions[s] ELSE [sessions[s] EXCEPT !.to = clock]]
  /\ UNCHANGED <<phase, range, clock, history, connectionlog, activitylog, parsed>>

NewFile ==
  /\ phase = "cluster" /\ Len(activitylog) < MaxFiles /\ Last(activitylog) # <<>>
  /\ activitylog' = Append(activitylog, <<>>)
  /\ UNCHANGED <<phase, range, clock, sessions, history, connectionlog, faults, parsed>>

Tick ==
  /\ phase = "cluster" /\ clock < MaxTime
  /\ clock' = clock + 1
  /\ UNCHANGED <<phase, range, sessions, history, connectionlog, activitylog, faults, parsed>>

(* The logs are extracted when the time the instance covers is over.  *)
StartExtract ==
  /\ phase = "cluster" /\ clock = MaxTime /\ history # <<>>
  /\ phase' = "connectionlog"
  /\ \E r \in Ranges : range' = r
  /\ UNCHANGED <<cluster, parsed>>

(***************************************************************************)
(* parse_log() of a connection log, then of each user activity log.        *)
(*                                                                         *)
(* _parse_connection_log(): a session that ends in the range and has no    *)
(* connection yet gets one that begins with the range.                     *)
(***************************************************************************)
With(f, x, y) == [z \in DOMAIN f \cup {x} |-> IF z = x THEN y ELSE f[z]]

(* `c' holds the connections and the last connection of each client.  *)
Initiate(c, s) ==
  [connections |-> With(c.connections, <<s.key, s.from>>, range.end),
   last |-> With(c.last, s.key, <<s.key, s.from>>)]
MutEndSessionStart(c, s) ==             \* the wrong time goes into disconnection_time
  LET pk == IF s.key \in DOMAIN c.last THEN c.last[s.key] ELSE <<s.key, range.start>>
  IN [connections |-> With(c.connections, pk, s.from), last |-> With(c.last, s.key, pk)]

EndSession(c, s) ==
  LET pk == IF s.key \in DOMAIN c.last THEN c.last[s.key] ELSE <<s.key, range.start>>
  IN [connections |-> With(c.connections, pk, s.to), last |-> With(c.last, s.key, pk)]

ReadConnectionLine(c, l) ==
  LET s == sessions[l.session]
  IN IF l.event = "initiating session"
     THEN IF InRange(s.from) THEN Initiate(c, s) ELSE c
     ELSE IF InRange(s.to) THEN EndSession(c, s) ELSE c

ParseConnectionLog ==
  /\ phase = "connectionlog" /\ lines < Len(connectionlog)
  /\ LET read == ReadConnectionLine([connections |-> connections, last |-> lastconnections],
                                    connectionlog[lines + 1])
     IN connections' = read.connections /\ lastconnections' = read.last
  /\ lines' = lines + 1
  /\ UNCHANGED <<phase, range, cluster, file, entry, logs>>

ConnectionLogRead ==
  /\ phase = "connectionlog" /\ lines = Len(connectionlog)
  /\ phase' = "useractivitylog"
  /\ UNCHANGED <<range, cluster, parsed>>

(***************************************************************************)
(* _parse_user_activity_log(): an entry is stored when the header of the   *)
(* next one is met, so that the last one of a file is not stored.          *)
(***************************************************************************)
IsValidLog(i) == InRange(RecordTime(i)) /\ history[i].text.word # "internal"

(* Equal but for semicolons, the second in lower case; or two definitions  *)
(* of one kind, the second ended and the first found behind the comment of *)
(* the second, where the code looks for it.                                *)
SameText(first, second) == [first EXCEPT !.ended = second.ended] = second
IsDuplicate(first, second) ==
  \/ SameText(first, second) /\ second.word \in {"select", "create"} /\ second.lower
  \/ /\ second.word \in Definitions /\ second.ended
     /\ first.word = second.word /\ first.comment \in {0, second.comment}
Silent(text) == [text EXCEPT !.word = "comment"]    \* a FETCH after two dashes
IsFetch(text) == text.word \in {"fetch", "comment"}

MutAppendUnchecked(kept, i) ==                  \* a JDBC duplicate is appended
  Append(kept, [id |-> i, text |-> history[i].text])

AppendEntry(kept, i) ==
  LET text == history[i].text
  IN IF kept = <<>> THEN <<[id |-> i, text |-> text]>>
     ELSE IF IsDuplicate(Last(kept).text, text) THEN kept
     ELSE Append(kept, [id |-> i, text |-> IF IsFetch(Last(kept).text) /\ IsFetch(text)
                                           THEN Silent(text) ELSE text])

Store(kept, i) ==
  LET name == <<XidOf(i), RecordTime(i)>>
      before == IF name \in DOMAIN kept THEN kept[name] ELSE <<>>
  IN IF IsValidLog(i) THEN With(kept, name, AppendEntry(before, i)) ELSE kept

ParseUserActivityLog ==
  /\ phase = "useractivitylog"
  /\ file <= Len(activitylog) /\ entry < Len(activitylog[file])
  /\ logs' = Store(logs, activitylog[file][entry])
  /\ entry' = entry + 1
  /\ UNCHANGED <<phase, range, cluster, lines, file, connections, lastconnections>>

NextActivityFile ==
  /\ phase = "useractivitylog"
  /\ file <= Len(activitylog) /\ entry >= Len(activitylog[file])
  /\ file' = file + 1 /\ entry' = 1
  /\ UNCHANGED <<phase, range, cluster, lines, logs, connections, lastconnections>>

(***************************************************************************)
(* validate_log_result() and save_logs().                                  *)
(***************************************************************************)
ActivityRead == phase = "useractivitylog" /\ file > Len(activitylog)

NothingFound ==
  /\ ActivityRead /\ (logs = <<>> \/ connections = <<>>)
  /\ phase' = "exited"
  /\ UNCHANGED <<range, cluster, parsed>>

KeyOfXid(x) == history[CHOOSE i \in DOMAIN history : XidOf(i) = x].key
ExtractedXids == {n[1] : n \in DOMAIN logs}
MutMissing == {}                        \* clients without a connection are left out
Missing == {KeyOfXid(x) : x \in ExtractedXids} \ DOMAIN lastconnections

SaveLogs ==
  /\ ActivityRead /\ logs # <<>> /\ connections # <<>>
  /\ phase' = "saved"
  /\ connections' = [c \in DOMAIN connections \cup {<<k, range.start>> : k \in Missing} |->
                       IF c[1] \in Missing THEN range.end ELSE connections[c]]
  /\ UNCHANGED <<range, cluster, lines, file, entry, logs, lastconnections>>

Init ==
  /\ phase = "cluster" /\ range = [start |-> Unset, end |-> Unset, since |-> Unset]
  /\ clock = 1
  /\ sessions = <<>> /\ history = <<>> /\ connectionlog = <<>> /\ activitylog = <<<<>>>>
  /\ faults = 0
  /\ lines = 0 /\ file = 1 /\ entry = 1 /\ logs = <<>> /\ connections = <<>> /\ lastconnections = <<>>

Cluster ==
  \/ \E k \in Keys : OpenSession(k)
  \/ \E s \in DOMAIN sessions : Disconnect(s) \/ \E text \in Texts : Execute(s, text)
  \/ LogAgain \/ Crash \/ NewFile \/ Tick

Extract ==
  \/ StartExtract \/ ParseConnectionLog \/ ConnectionLogRead
  \/ ParseUserActivityLog \/ NextActivityFile \/ NothingFound \/ SaveLogs

ExtractTypeOK ==
  /\ phase \in {"cluster", "connectionlog", "useractivitylog", "exited", "saved",
                "matching", "failed", "done"}
  /\ lines \in 0..Len(connectionlog) /\ file \in 1..(Len(activitylog) + 1) /\ entry \in Nat
  /\ \A n \in DOMAIN logs :
       /\ n[2] = Second(n[2]) /\ logs[n] # <<>>
       /\ \A e \in DOMAIN logs[n] :
            logs[n][e].id \in DOMAIN history /\ n = <<XidOf(logs[n][e].id), RecordTime(logs[n][e].id)>>
  /\ DOMAIN connections \subseteq Keys \X (0..MaxTime)
  /\ \A k \in DOMAIN lastconnections : lastconnections[k] \in DOMAIN connections
=============================================================================
