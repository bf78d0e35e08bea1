------------------------------ MODULE Notifier ------------------------------
(***************************************************************************)
(* The optional Discord summaries of one invocation                        *)
(* (execution/notifications.py): the coordinator's callbacks keep counts   *)
(* under a lock, one daemon thread builds messages and sends them, and     *)
(* finish() waits for it a bounded time.                                   *)
(*                                                                         *)
(* A message is its stage and its counts; the webhook, the wording and the *)
(* durable steps it lists are left out.  Time is only: the cooldown that   *)
(* an answer starts ends (TimePasses), and a wait ends with or without it. *)
(***************************************************************************)
EXTENDS Outcomes

VARIABLES
  enabled,     \* delivery is configured and was not refused
  activeRuns,  \* `_active`
  known,       \* `_counts`
  final,       \* `_final`: None or the report and whether it was cut short
  finished,    \* `_finished`
  cancelled,   \* `_cancelled`
  cool,        \* now < _next_allowed
  sender,      \* none, built, open, loop, waiting, woken or exit
  last,        \* the message is the one for "finished"
  message      \* the message that was built, until it is answered or dropped

books == <<activeRuns, known, final>>
flags == <<finished, cancelled>>
delivery == <<enabled, cool, sender, last, message>>
notifierVars == <<books, flags, delivery>>

NotifierInit ==
  /\ activeRuns = {} /\ known = Zero /\ final = None
  /\ finished = FALSE /\ cancelled = FALSE
  /\ cool = FALSE /\ sender = "none" /\ last = FALSE /\ message = None

-----------------------------------------------------------------------------
(* Messages *)

LabelOfOutcomes(f) == \* mutant: what is pending is not looked at
  IF f.aborted THEN "aborted"
  ELSE IF f.counts["failed"] > 0 THEN "finished with failures"
  ELSE IF f.counts["paused"] > 0 THEN "paused" ELSE "completed"
Label(f) ==
  IF f.aborted THEN "aborted"
  ELSE IF f.counts["failed"] > 0 THEN "finished with failures"
  ELSE IF f.counts["paused"] > 0 \/ f.pending > 0 THEN "paused" ELSE "completed"

\* The report overrides the event, whichever the sender was about to tell.
Message(event) ==
  IF final # None
  THEN [stage |-> Label(final), counts |-> final.counts, pending |-> final.pending, active |-> 0]
  ELSE [stage |-> event, counts |-> known,
        pending |-> Minus(Cardinality(Planned), Total(known) + Cardinality(activeRuns)),
        active |-> Cardinality(activeRuns)]

-----------------------------------------------------------------------------
(* Callbacks of the coordinator *)

\* The thread may fail to start, which disables delivery.
StartSender ==
  /\ IF ~enabled THEN UNCHANGED <<enabled, sender, message>>
     ELSE \/ message' = Message("started") /\ sender' = "built" /\ UNCHANGED enabled
          \/ enabled' = FALSE /\ UNCHANGED <<sender, message>>
  /\ UNCHANGED <<books, flags, cool, last>>

NotifyStarted(r) ==
  /\ activeRuns' = IF enabled THEN activeRuns \union {r} ELSE activeRuns
  /\ UNCHANGED <<known, final, flags, delivery>>

NotifyFinished(r, status) ==
  /\ IF enabled
     THEN activeRuns' = activeRuns \ {r} /\ known' = Add(known, status, 1)
     ELSE UNCHANGED <<activeRuns, known>>
  /\ UNCHANGED <<final, flags, delivery>>

\* finish(): the report, then the event, then a join with a deadline.
GiveReport(counts, pending, aborted) ==
  /\ sender # "none" /\ final = None
  /\ final' = [counts |-> counts, aborted |-> aborted,
               pending |-> LET rest == Minus(Cardinality(Planned), Total(counts))
                           IN IF aborted /\ rest > pending THEN rest ELSE pending]
  /\ UNCHANGED <<activeRuns, known, flags, delivery>>

SetFinished ==
  /\ final # None /\ ~finished
  /\ finished' = TRUE
  /\ UNCHANGED <<books, cancelled, delivery>>

JoinForever == \* mutant: join() without a timeout
  /\ finished /\ sender = "exit"
  /\ cancelled' = cancelled
  /\ UNCHANGED <<books, finished, delivery>>
Join ==
  /\ finished
  /\ cancelled' = (sender # "exit")
  /\ UNCHANGED <<books, finished, delivery>>

-----------------------------------------------------------------------------
(* The sender *)

Refused == ~enabled \/ cancelled \/ cool

\* After the message for "finished" the loop returns.
Onward == IF last THEN "exit" ELSE "loop"

Send ==
  /\ sender = "built"
  /\ IF Refused THEN sender' = Onward /\ message' = None
                ELSE sender' = "open" /\ UNCHANGED message
  /\ UNCHANGED <<books, flags, enabled, cool, last>>

\* Discord's answer, a connection that fails, or the time limit.
Answer ==
  /\ sender = "open"
  /\ sender' = Onward
  /\ message' = None
  /\ \/ cool' \in BOOLEAN /\ UNCHANGED enabled \* accepted; 429 and other errors
     \/ enabled' = FALSE /\ UNCHANGED cool     \* 401, 403, 404
  /\ UNCHANGED <<books, flags, last>>

EnterWait ==
  /\ sender = "loop"
  /\ sender' = IF enabled /\ ~cancelled THEN "waiting" ELSE "exit"
  /\ UNCHANGED <<books, flags, enabled, cool, last, message>>

\* The wait is never shorter than the cooldown.
WakeToTell ==
  /\ sender = "waiting" /\ ~finished /\ ~cool
  /\ sender' = "woken"
  /\ UNCHANGED <<books, flags, enabled, cool, last, message>>
Tell ==
  /\ sender = "woken"
  /\ sender' = "built" /\ message' = Message("progress")
  /\ UNCHANGED <<books, flags, enabled, cool, last>>

\* The final message is sent once or, in a retry window, omitted.
Finish ==
  /\ sender = "waiting" /\ finished
  /\ IF cool THEN sender' = "exit" /\ UNCHANGED <<last, message>>
             ELSE sender' = "built" /\ last' = TRUE /\ message' = Message("finished")
  /\ UNCHANGED <<books, flags, enabled, cool>>

TimePasses ==
  /\ cool /\ cool' = FALSE
  /\ UNCHANGED <<books, flags, enabled, sender, last, message>>
=============================================================================
