---------------------------- MODULE WlmScheduler ----------------------------
(***************************************************************************)
(* The Workload Management Scheduler (WorkloadManagementScheduler/         *)
(* wlm_scheduler.py): whenever it is run, it looks for the ruleset whose   *)
(* active-interval contains the time and writes its WLM configuration to   *)
(* the parameter group of the cluster.                                     *)
(***************************************************************************)
EXTENDS Naturals, Sequences

CONSTANTS
  Hours, Minutes,  \* the day has Hours * Minutes units of time
  Schedules        \* the configured rulesets: sequences of intervals

DayTimes == 0 .. Hours * Minutes - 1
HourOf(t) == t \div Minutes

\* broken: neither a list nor a string stands under "configuration".
Ruleset == [from : DayTimes, to : DayTimes, broken : BOOLEAN]

WlmSchedulerAssumption ==
  /\ Hours \in Nat \ {0} /\ Minutes \in Nat \ {0}
  /\ \A s \in Schedules : s \in Seq(Ruleset)

VARIABLES
  clock,      \* the time of day
  rulesets,   \* the configuration
  wstep,      \* run_scheduler(): "idle", "search" or "found"
  looked,     \* looked[i]: the time of day at which ruleset i was tested
  group,      \* the ruleset in the parameter group, 0: another configuration
  answer      \* the last run: "none" (under way), "ok", "unfound" or "raised"

wlmVars == <<clock, rulesets, wstep, looked, group, answer>>

WlmInit ==
  /\ clock = 0 /\ rulesets \in Schedules
  /\ wstep = "idle" /\ looked = <<>>
  /\ group = 0 /\ answer = "none"

---------------------------------------------------------------------------
\* Mutant: the end is always on the next day.
MutActiveNextDay(r, now) == r.from < now /\ now < r.to + Hours * Minutes

\* Mutant: the end is always on the current day.
MutActiveSameDay(r, now) == r.from < now /\ now < r.to

\* get_active_ruleset(): both ends are of the current day; when the end's hour
\* is lower than the start's, the end is moved to the next day.
Active(r, now) ==
  /\ r.from < now
  /\ now < r.to + (IF HourOf(r.to) < HourOf(r.from) THEN Hours * Minutes ELSE 0)

\* run_scheduler(), with a configuration that check_config() accepts.
StartRun ==
  /\ wstep = "idle"
  /\ wstep' = "search" /\ looked' = <<>> /\ answer' = "none"
  /\ UNCHANGED <<clock, rulesets, group>>

\* The next ruleset is tested, each with a datetime.now() of its own.
Test ==
  /\ wstep = "search" /\ Len(looked) < Len(rulesets)
  /\ looked' = Append(looked, clock)
  /\ wstep' = IF Active(rulesets[Len(looked) + 1], clock) THEN "found" ELSE "search"
  /\ UNCHANGED <<clock, rulesets, group, answer>>

\* No ruleset is active: the name of None is read.
Refuse ==
  /\ wstep = "search" /\ Len(looked) = Len(rulesets)
  /\ wstep' = "idle" /\ answer' = "unfound"
  /\ UNCHANGED <<clock, rulesets, looked, group>>

\* get_wlm_config() raises: "Malformed Configuration".
Malformed ==
  /\ wstep = "found" /\ rulesets[Len(looked)].broken
  /\ wstep' = "idle" /\ answer' = "raised"
  /\ UNCHANGED <<clock, rulesets, looked, group>>

\* modify_cluster_parameter_group(), which may come any time after the search.
Apply ==
  /\ wstep = "found" /\ ~rulesets[Len(looked)].broken
  /\ wstep' = "idle" /\ group' = Len(looked) /\ answer' = "ok"
  /\ UNCHANGED <<clock, rulesets, looked>>

\* S3 or Redshift refuses, or Redshift's answer is lost.
CallFails ==
  /\ wstep = "found" /\ ~rulesets[Len(looked)].broken
  /\ wstep' = "idle" /\ answer' = "raised" /\ group' \in {group, Len(looked)}
  /\ UNCHANGED <<clock, rulesets, looked>>

ClockTick ==
  /\ clock' = (clock + 1) % (Hours * Minutes)
  /\ UNCHANGED <<rulesets, wstep, looked, group, answer>>

RunScheduler == StartRun \/ Test \/ Refuse \/ Malformed \/ Apply \/ CallFails

WlmNext == RunScheduler \/ ClockTick

WlmSpec == WlmInit /\ [][WlmNext]_wlmVars

---------------------------------------------------------------------------
(* Properties.                                                             *)

WlmTypeOK ==
  /\ clock \in DayTimes /\ rulesets \in Schedules
  /\ wstep \in {"idle", "search", "found"}
  /\ looked \in Seq(DayTimes) /\ Len(looked) <= Len(rulesets)
  /\ group \in 0 .. Len(rulesets) /\ answer \in {"none", "ok", "unfound", "raised"}

\* Reference: time t of the day is within the interval of r, which goes over
\* midnight when it ends before it starts.
Overnight(r) == r.to <= r.from
Covers(r, t) ==
  IF Overnight(r) THEN r.from < t \/ t < r.to ELSE r.from < t /\ t < r.to

\* README, "dynamically change your WLM configuration based on a schedule":
\* after a run that succeeds the parameter group has a ruleset that was meant
\* for the time at which it was tested, and a ruleset before it that was meant
\* for the time of its own test goes over midnight.  These are different times,
\* and the group is written later than all of them: what is written may be out
\* of date by then, and is still written.
AppliedInItsInterval ==
  answer = "ok" =>
    /\ group = Len(looked) /\ Covers(rulesets[group], looked[group])
    /\ \A i \in 1 .. group - 1 :
         Covers(rulesets[i], looked[i]) => Overnight(rulesets[i])

\* A run that finds no ruleset has tested every one, each outside its interval,
\* but for the times after midnight of an interval that goes over it, or those
\* of one that ends in the hour it starts in.  Since each is tested at a time of
\* its own, of two intervals that meet the one that ends may be tested after the
\* boundary and the one that begins, if it is listed first, before it: both are
\* missed, though one of them was meant for every moment of the run.
GapsAfterMidnight ==
  answer = "unfound" =>
    /\ Len(looked) = Len(rulesets)
    /\ \A i \in DOMAIN rulesets :
         Covers(rulesets[i], looked[i]) =>
           /\ Overnight(rulesets[i])
           /\ looked[i] < rulesets[i].to \/ HourOf(rulesets[i].to) = HourOf(rulesets[i].from)

\* The schedule holds for the times at which the rulesets were tested, however
\* the clock goes on between the tests and before the write: a run applies a
\* ruleset in its interval, and fails to find one only outside all of them, but
\* for those two gaps.
ScheduleHolds == AppliedInItsInterval /\ GapsAfterMidnight
===========================================================================
