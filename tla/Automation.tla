----------------------------- MODULE Automation -----------------------------
(***************************************************************************)
(* Redshift Automation (RedshiftAutomation/lambda_function.py, common.py   *)
(* and src/config_constants.py): a Lambda function that reads one          *)
(* configuration and runs utilities with it, those an event or the         *)
(* configuration names.  A utility returns or raises; how it works is the  *)
(* subject of AnalyzeVacuum, SystemTables, WlmScheduler and                *)
(* ColumnEncoding, whose arguments come from here.                         *)
(***************************************************************************)
EXTENDS Naturals, SequencesExt

CONSTANTS
  Files,           \* configurations that event_handler() may be given
  MaxInvocations,  \* bound on the invocations
  MaxSlips         \* bound on errors

\* Tested in this order, whatever the order in the configuration is.
Order == <<"ColumnEncodingUtility", "AnalyzeVacuumUtility", "Analyze", "Vacuum",
           "Monitoring", "SystemTablePersistence", "WlmScheduler">>
Utilities == Range(Order)
TableUtilities == {"AnalyzeVacuumUtility", "Analyze", "Vacuum"}

\* wrapped: the settings stand under "configuration"; hasList: there is a key
\* "utilities", with the names in listed; wlm: there are rulesets and a parameter
\* group to apply them to.
Configuration ==
  [wrapped : BOOLEAN, hasList : BOOLEAN, listed : SUBSET Utilities, wlm : BOOLEAN]

AutomationAssumption ==
  Files \subseteq Configuration /\ MaxInvocations \in Nat /\ MaxSlips \in Nat

VARIABLES
  file,         \* what is at the configured location
  event,        \* ExecuteUtility: a utility, "unknown", or "none"
  apc,          \* "idle", "load" or "run"
  config,       \* what get_config() returned, with the run's own changes
  queue,        \* run_utilities, those that are still to be run
  results,      \* the utilities that results has an entry of
  ending,       \* "none", "results", "nothing" (None), "raised" or "killed"
  invocations, slips,
  \* History:
  ran           \* the utilities that have returned

lambdaVars ==
  <<file, event, apc, config, queue, results, ending, invocations, slips, ran>>

LambdaInit ==
  /\ file \in Files /\ event = "none" /\ apc = "idle" /\ config = file
  /\ queue = <<>> /\ results = <<>> /\ ending = "none"
  /\ invocations = 0 /\ slips = 0 /\ ran = <<>>

---------------------------------------------------------------------------
\* normalise_config(): neither the list of utilities nor the rulesets are among
\* the settings that are kept.
Normalised(f) == [f EXCEPT !.hasList = FALSE, !.listed = {}, !.wlm = FALSE]

GetConfig(f) == IF f.wrapped THEN Normalised(f) ELSE f

\* Mutant: an event adds to the configured utilities.
MutRequested(u, e, c) == u = e \/ u \in c.listed

\* What an event names takes the place of what the configuration lists.
Requested(u, e, c) == IF e = "none" THEN u \in c.listed ELSE u = e

\* run_utilities: each utility is tested and appended by itself.
RunUtilities(e, c) ==
  LET only(i) == IF Requested(Order[i], e, c) THEN <<Order[i]>> ELSE <<>>
  IN  only(1) \o only(2) \o only(3) \o only(4) \o only(5) \o only(6) \o only(7)

Invoke(e) ==
  /\ apc = "idle" /\ invocations < MaxInvocations
  /\ event' = e /\ apc' = "load" /\ invocations' = invocations + 1
  /\ ending' = "none" /\ queue' = <<>> /\ results' = <<>> /\ ran' = <<>>
  /\ UNCHANGED <<file, config, slips>>

\* get_config() and get_password().
LoadConfig ==
  /\ apc = "load"
  /\ config' = GetConfig(file)
  /\ queue' = RunUtilities(event, config')
  /\ \/ /\ event = "none" /\ ~config'.hasList
        /\ apc' = "idle" /\ ending' = "nothing"
     \/ /\ event = "none" => config'.hasList
        /\ apc' = "run" /\ UNCHANGED ending
  /\ UNCHANGED <<file, event, results, invocations, slips, ran>>

Goes(u) == apc = "run" /\ queue # <<>> /\ Head(queue) = u

Reports(u) == u = "ColumnEncodingUtility" \/ u \in TableUtilities

\* The next utility returns; the scheduler does so only with its rulesets.  (The
\* flags that Analyze and Vacuum set are not read by the code they call.)
UtilityReturns ==
  /\ apc = "run" /\ queue # <<>>
  /\ Goes("WlmScheduler") => config.wlm
  /\ queue' = Tail(queue)
  /\ results' = IF Reports(Head(queue)) THEN Append(results, Head(queue)) ELSE results
  /\ ran' = Append(ran, Head(queue))
  /\ UNCHANGED <<file, event, apc, config, ending, invocations, slips>>

\* Mutant: a utility that raises is skipped.
MutInvocationFails ==
  /\ apc = "run" /\ queue # <<>> /\ slips < MaxSlips
  /\ slips' = slips + 1 /\ queue' = Tail(queue)
  /\ UNCHANGED <<file, event, apc, config, results, ending, invocations, ran>>

\* The configuration or the password cannot be had, or a utility raises.
InvocationFails ==
  /\ \/ /\ apc = "load" \/ (apc = "run" /\ queue # <<>>)
        /\ slips < MaxSlips /\ slips' = slips + 1
     \/ Goes("WlmScheduler") /\ ~config.wlm /\ UNCHANGED slips
  /\ apc' = "idle" /\ ending' = "raised"
  /\ UNCHANGED <<file, event, config, queue, results, invocations, ran>>

\* The function's time is over.
Killed ==
  /\ apc \in {"load", "run"} /\ slips < MaxSlips /\ slips' = slips + 1
  /\ apc' = "idle" /\ ending' = "killed"
  /\ UNCHANGED <<file, event, config, queue, results, invocations, ran>>

Return ==
  /\ apc = "run" /\ queue = <<>>
  /\ apc' = "idle" /\ ending' = "results"
  /\ UNCHANGED <<file, event, config, queue, results, invocations, slips, ran>>

\* Somebody puts another configuration there.
Configure ==
  /\ file' \in Files
  /\ UNCHANGED <<event, apc, config, queue, results, ending, invocations, slips, ran>>

Events == Utilities \cup {"unknown", "none"}

LambdaNext ==
  \/ \E e \in Events : Invoke(e)
  \/ LoadConfig \/ UtilityReturns \/ InvocationFails \/ Killed \/ Return \/ Configure

LambdaSpec == LambdaInit /\ [][LambdaNext]_lambdaVars

---------------------------------------------------------------------------
(* Properties.                                                             *)

LambdaTypeOK ==
  /\ file \in Files /\ event \in Events /\ apc \in {"idle", "load", "run"}
  /\ config \in Configuration /\ queue \in Seq(Utilities)
  /\ results \in Seq(Utilities) /\ ran \in Seq(Utilities)
  /\ ending \in {"none", "results", "nothing", "raised", "killed"}
  /\ invocations \in 0 .. MaxInvocations /\ slips \in 0 .. MaxSlips

\* An invocation returns results only when every utility that was asked for has
\* returned, one after the other in the fixed order; what the event names takes
\* the place of what the configuration lists, and the entries of results stand
\* for the utilities that report one.  Without an event the configuration must
\* have a list: one that is wrapped never has, and runs nothing.
ReturnsWhenAllRan ==
  ending = "results" =>
    /\ event = "none" => config.hasList /\ ~config.wrapped
    /\ Range(ran) = IF event = "none" THEN config.listed ELSE Utilities \cap {event}
    /\ \A i, j \in DOMAIN ran : i < j =>
         \E k, l \in DOMAIN Order : Order[k] = ran[i] /\ Order[l] = ran[j] /\ k < l
    /\ Range(results) = {u \in Range(ran) : Reports(u)}
===========================================================================
