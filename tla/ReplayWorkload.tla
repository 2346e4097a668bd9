---------------------------- MODULE ReplayWorkload ----------------------------
(***************************************************************************)
(* The preparation of a replay: parse_connections(), parse_transactions()  *)
(* and the part of main() in replay.py that gives each transaction to a    *)
(* connection, on the workload that ExtractLogs saved.                     *)
(***************************************************************************)
EXTENDS ExtractLogs

CONSTANT Filters            \* sets of clients the filters of replay.yaml let pass

ASSUME WorkloadAssumption == \A f \in Filters : f \subseteq Keys

VARIABLES selected,         \* the clients that pass
          unmatched,        \* transactions main() has not reached
          replayed          \* from a connection's primary key to its transactions

vars == <<extractVars, selected, unmatched, replayed>>

(* Queries of a transaction are sorted by second: it starts with the first. *)
Seconds(x) == {n[2] : n \in {m \in DOMAIN logs : m[1] = x}}
StartTime(x) == CHOOSE s \in Seconds(x) : \A t \in Seconds(x) : s <= t

MutLoadUnfiltered ==                         \* filters apply to transactions only
  /\ phase = "saved"
  /\ phase' = "matching"
  /\ \E f \in Filters :
       /\ selected' = f
       /\ unmatched' = {x \in ExtractedXids : KeyOfXid(x) \in f}
       /\ replayed' = [c \in DOMAIN connections |-> <<>>]
  /\ UNCHANGED <<range, cluster, parsed>>

Load ==
  /\ phase = "saved"
  /\ phase' = "matching"
  /\ \E f \in Filters :
       /\ selected' = f
       /\ unmatched' = {x \in ExtractedXids : KeyOfXid(x) \in f}
       /\ replayed' = [c \in {d \in DOMAIN connections : d[1] \in f} |-> <<>>]
  /\ UNCHANGED <<range, cluster, parsed>>

(* Transaction ids are compared as strings; ids have at most two digits here. *)
Padded(x) == IF x < 10 THEN 10 * x ELSE x
XidBefore(x, y) == Padded(x) < Padded(y) \/ (Padded(x) = Padded(y) /\ x < y)
MutBeforeTime(x, y) ==                       \* the sort key without the xid, not stable
  StartTime(x) < StartTime(y) \/ (StartTime(x) = StartTime(y) /\ x > y)

Before(x, y) == \/ StartTime(x) < StartTime(y)
                \/ StartTime(x) = StartTime(y) /\ XidBefore(x, y)

MutPossibleAny(x) == DOMAIN replayed          \* connections of every client
Possible(x) == {c \in DOMAIN replayed : c[1] = KeyOfXid(x)}
MutBegunExact(x) ==                          \* start times are not truncated
  {c \in Possible(x) : c[2] <= StartTime(x)}

Begun(x) == {c \in Possible(x) : Second(c[2]) <= StartTime(x)}

IsNext(x) == x \in unmatched /\ \A y \in unmatched \ {x} : Before(x, y)
KeyError(x) == Possible(x) = {}
NoStartTime(x) == \E c \in Possible(x) : c[2] = Unset

Match(x) ==
  /\ phase = "matching" /\ IsNext(x) /\ ~KeyError(x) /\ ~NoStartTime(x)
  /\ unmatched' = unmatched \ {x}
  /\ \/ /\ Begun(x) = {}
        /\ UNCHANGED replayed
     \/ \E c \in Begun(x) :
          /\ \A d \in Begun(x) : d[2] <= c[2]
          /\ replayed' = [replayed EXCEPT ![c] = Append(@, x)]
  /\ UNCHANGED <<phase, range, cluster, parsed, selected>>

MatchFails(x) ==
  /\ phase = "matching" /\ IsNext(x) /\ (KeyError(x) \/ NoStartTime(x))
  /\ phase' = "failed"
  /\ UNCHANGED <<range, cluster, parsed, selected, unmatched, replayed>>

(* Connections without transactions are left out.  *)
Prepared ==
  /\ phase = "matching" /\ unmatched = {}
  /\ phase' = "done"
  /\ replayed' = [c \in {d \in DOMAIN replayed : replayed[d] # <<>>} |-> replayed[c]]
  /\ UNCHANGED <<range, cluster, parsed, selected, unmatched>>

WorkloadInit == Init /\ selected = {} /\ unmatched = {} /\ replayed = <<>>
Next ==
  \/ (Cluster \/ Extract) /\ UNCHANGED <<selected, unmatched, replayed>>
  \/ Load \/ Prepared
  \/ \E x \in unmatched : Match(x) \/ MatchFails(x)
Spec == WorkloadInit /\ [][Next]_vars

(***************************************************************************)
(* Properties.                                                             *)
(***************************************************************************)
(* State is well-typed: parser state as in ExtractLogs, and only selected  *)
(* connections have transactions.                                          *)
TypeOK ==
  /\ ExtractTypeOK
  /\ selected \subseteq Keys
  /\ DOMAIN replayed \subseteq DOMAIN connections
  /\ unmatched \subseteq ExtractedXids
  /\ \A c \in DOMAIN replayed : c[1] \in selected

SessionOf(x) == sessions[history[CHOOSE i \in DOMAIN history : XidOf(i) = x].session]
AfterRange(s) == range.end # Unset /\ s.from > range.end

(* A transaction is replayed in the connection of the session that ran it: *)
(* the one that began when the session did or, for a session older than    *)
(* the range or the logs, the one that begins with the range.  A session that begins   *)
(* within the last second of the range but after its end is left out: its  *)
(* statements are stamped with that second.                                *)
EachInItsSession ==
  phase = "done" =>
    \A c \in DOMAIN replayed : \A n \in DOMAIN replayed[c] :
      LET s == SessionOf(replayed[c][n])
      IN AfterRange(s) \/ c = <<s.key, IF InRange(s.from) THEN s.from ELSE range.start>>

(* Entries of a second of the n-th transaction of a connection.  They are  *)
(* replayed by transaction, then by second, then as they were logged.      *)
Entries(c, n, s) == logs[<<replayed[c][n], s>>]
Precedes(p, q) == \E i \in DOMAIN p : p[i] < q[i] /\ \A j \in 1..(i-1) : p[j] = q[j]

(* A connection replays its statements in the order in which they were     *)
(* executed, across transactions and across files.                         *)
OriginalOrder ==
  phase = "done" =>
    \A c \in DOMAIN replayed : \A m, n \in DOMAIN replayed[c] :
      \A s \in Seconds(replayed[c][m]), t \in Seconds(replayed[c][n]) :
        \A k \in DOMAIN Entries(c, m, s), l \in DOMAIN Entries(c, n, t) :
          Precedes(<<m, s, k>>, <<n, t, l>>) =>
            Entries(c, m, s)[k].id <= Entries(c, n, t)[l].id

(* The workload that was saved can be loaded, unless no start_time was     *)
(* given and a selected client has a session whose beginning is not        *)
(* extracted: its connection has an empty start time, which main() cannot  *)
(* compare.                                                                *)
Loads ==
  phase = "failed" =>
    /\ range.start = Unset
    /\ \E s \in DOMAIN sessions : sessions[s].key \in selected /\ ~InRange(sessions[s].from)

(* Texts of which is_duplicate() misses a repetition: FETCH and BEGIN, a    *)
(* word in upper case, a definition that is in upper case or a DROP or     *)
(* ALTER, if no semicolon ends it.                                         *)
Unrecognised(text) ==
  \/ text.word \in {"fetch", "begin"}
  \/ text.word = "select" /\ ~text.lower
  \/ text.word = "create" /\ ~text.lower /\ ~text.ended
  \/ text.word \in {"drop", "alter"} /\ ~text.ended

(* A statement that is in the log twice is kept in one transaction of one  *)
(* connection, and a repetition that is_duplicate() recognises is not      *)
(* kept.  A repetition it misses is replayed again (a limitation the       *)
(* README of Simple Replay names), or is a FETCH that became a comment.    *)
RepeatsRunOnce ==
  phase = "done" =>
    \A c, d \in DOMAIN replayed : \A m \in DOMAIN replayed[c], n \in DOMAIN replayed[d] :
      \A s \in Seconds(replayed[c][m]), t \in Seconds(replayed[d][n]) :
        \A k \in DOMAIN Entries(c, m, s), l \in DOMAIN Entries(d, n, t) :
          LET i == Entries(d, n, t)[l].id
          IN Entries(c, m, s)[k].id = i =>
               /\ c = d /\ m = n /\ s = t
               /\ k < l => Unrecognised(history[i].text)

(* A comment is removed from what is sent to the cluster.                  *)
IsReplayed(i) ==
  \E c \in DOMAIN replayed : \E n \in DOMAIN replayed[c] : \E s \in Seconds(replayed[c][n]) :
    \E k \in DOMAIN Entries(c, n, s) :
      Entries(c, n, s)[k].id = i /\ Entries(c, n, s)[k].text.word # "comment"
EndsFile(i) == \A f \in DOMAIN activitylog : \A l \in DOMAIN activitylog[f] :
                 activitylog[f][l] = i => l = Len(activitylog[f])
EarlierInSecond(i) == {j \in 1..(i-1) : XidOf(j) = XidOf(i) /\ RecordTime(j) = RecordTime(i)}
SaysTheSame(i) == \E j \in EarlierInSecond(i) :
                    \/ SameText(history[j].text, history[i].text)
                    \/ /\ history[j].text.word = history[i].text.word
                       /\ history[i].text.word \in Definitions /\ history[i].text.ended
IsSilenced(i) == /\ history[i].text.word = "fetch"
                 /\ \E j \in EarlierInSecond(i) : history[j].text.word = "fetch"
Superseded(s) == /\ ~InRange(s.from)
                 /\ \E r \in DOMAIN sessions : sessions[r].key = s.key /\ sessions[r].from > s.from

(* What is lost: a statement recorded in the range for a selected client   *)
(* is sent again unless it is the last entry of its file, or repeats an    *)
(* earlier one of the same transaction and second (the same text, or a     *)
(* definition after one of the same kind), or is a FETCH after another of  *)
(* the same transaction and second (which is made a comment), or belongs   *)
(* to a session older than the range whose process id another session has  *)
(* used since, or to one that began after the range.                       *)
LossIsBounded ==
  phase = "done" =>
    \A i \in DOMAIN history :
      \/ ~IsValidLog(i) \/ history[i].key \notin selected
      \/ IsReplayed(i)
      \/ EndsFile(i) \/ SaysTheSame(i) \/ IsSilenced(i)
      \/ Superseded(sessions[history[i].session])
      \/ AfterRange(sessions[history[i].session])

(* What was executed is replayed once, neither lost nor doubled, but for   *)
(* the cases named above.                                                  *)
OnceEach == Loads /\ RepeatsRunOnce /\ LossIsBounded

(* A connection covers what is replayed in it: it begins no later than the *)
(* second of its first statement and does not end before the last, unless  *)
(* that is one of a session that began after the range.                    *)
ConnectionSpansStatements ==
  phase = "done" =>
    \A c \in DOMAIN replayed : \A n \in DOMAIN replayed[c] : \A s \in Seconds(replayed[c][n]) :
      /\ Second(c[2]) <= s
      /\ \/ connections[c] = Unset \/ s <= connections[c]
         \/ AfterRange(SessionOf(replayed[c][n]))
=============================================================================
