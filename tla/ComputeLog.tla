---------------------------- MODULE ComputeLog ----------------------------
(***************************************************************************)
(* compute/: the start and the end of every attempt as records of their    *)
(* own, one record per finished invocation, and the summary drawn from     *)
(* them (execution/compute.py, execution/compute_report.py).  Records are  *)
(* best effort: one whose publication fails is logged and missing, like    *)
(* one whose file no longer validates.                                     *)
(*                                                                         *)
(* An attempt is a task within an invocation.  Durations are not in the    *)
(* model: an attempt is timed or it is not.                                *)
(***************************************************************************)
EXTENDS Naturals, FiniteSets

CONSTANTS
  NoRecord,     \* no record
  Invocations,  \* bound: invocations of the program on one output
  Runs,         \* tasks that are simulations
  Others,       \* tasks that are derivations
  Losses        \* bound: records that could not be published

Attempts == (1..Invocations) \X (Runs \union Others)
TaskOf(a) == a[2]

VARIABLES
  begun,    \* the saved step an attempt began at, NoRecord before
  started,  \* attempts with a start record
  ended,    \* the status in an attempt's end record
  lost,     \* publications that failed
  reports,  \* the status of each invocation's record
  summary   \* summary.json, NoRecord before the first
logVars == <<begun, started, ended, lost, reports, summary>>

LogInit ==
  /\ begun = [a \in Attempts |-> NoRecord] /\ started = {}
  /\ ended = [a \in Attempts |-> NoRecord] /\ lost = 0
  /\ reports = [n \in 1..Invocations |-> NoRecord] /\ summary = NoRecord

\* Publication, or a failure of it that only the log tells
Best(published, unpublished) ==
  \/ published /\ UNCHANGED lost
  \/ lost < Losses /\ lost' = lost + 1 /\ unpublished

StartAttempt(a, step) ==
  /\ begun' = [begun EXCEPT ![a] = step]
  /\ Best(started' = started \union {a}, UNCHANGED started)
  /\ UNCHANGED <<ended, reports, summary>>

EndAttempt(a, status) ==
  /\ Best(ended' = [ended EXCEPT ![a] = status], UNCHANGED ended)
  /\ UNCHANGED <<begun, started, reports, summary>>

-----------------------------------------------------------------------------
(* The summary of the records there are *)

Recorded == {a \in Attempts : a \in started \/ ended[a] # NoRecord}
\* A finish is authoritative, a start alone is unresolved.
StatusOf(a) == IF ended[a] # NoRecord THEN ended[a] ELSE "unresolved"
Ran == {a \in Recorded : StatusOf(a) # "skipped"}
Timed == {a \in Ran : StatusOf(a) # "unresolved"}
OfRun(set, r) == {a \in set : TaskOf(a) = r}
Earliest(set) == CHOOSE a \in set : \A b \in set : a[1] <= b[1]

WithoutTiming(completed) ==
  {r \in completed : \A a \in OfRun(Timed, r) : StatusOf(a) # "completed"}
TimedOnly(completed) == {} \* mutant: an attempt without an end is no evidence
WithUnresolved(completed) ==
  {r \in completed : \E a \in OfRun(Ran, r) : StatusOf(a) = "unresolved"}
WithoutPrefix(completed) ==
  {r \in completed : OfRun(Ran, r) # {} /\ begun[Earliest(OfRun(Ran, r))] > 0}

SummaryOf(completed, final) ==
  [invocations |-> final, attempts |-> Ran, timed |-> Timed, skipped |-> Recorded \ Ran,
   withoutTiming |-> WithoutTiming(completed),
   partial |-> WithUnresolved(completed) \union WithoutPrefix(completed),
   unfinished |-> {n \in 1..Invocations :
                     (\E a \in Recorded : a[1] = n) /\ n \notin final}]

\* publish_invocation publishes the invocation's record first.
RecordInvocation(n, status) ==
  /\ Best(reports' = [reports EXCEPT ![n] = status], UNCHANGED reports)
  /\ UNCHANGED <<begun, started, ended, summary>>

\* Then it draws the summary again, from whatever records there are; where this
\* fails the one before it stays.
RegenerateSummary(completed) ==
  LET final == {m \in 1..Invocations : reports[m] # NoRecord}
  IN /\ Best(summary' = SummaryOf(completed, final), UNCHANGED summary)
     /\ UNCHANGED <<begun, started, ended, reports>>
=============================================================================
