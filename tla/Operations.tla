----------------------------- MODULE Operations -----------------------------
(* The improvement loop of AutoService (the "Dream Engine"): conversation    *)
(* turns are stored, a scheduler starts the proposal pipeline in quiet       *)
(* hours, an administrator approves proposals, and an approval starts a      *)
(* staged rollout that a monitor or an operator can roll back.               *)
(*                                                                           *)
(* Code: memory_pool.py, low_peak_scheduler.py, proposal_pipeline.py,        *)
(* canary.py, canary_monitor.py, rollback_command.py and    *)
(* the handlers of api_routes.py over their singletons, all on one asyncio   *)
(* loop.  A step is what runs between two awaits; the only await in the loop *)
(* is the analyzer's.  A restart loses the scheduler, the runs and the       *)
(* rollout, and keeps the two SQLite files.                                  *)
EXTENDS Integers, FiniteSets, Sequences, SequencesExt

CONSTANTS
  Convs,          \* conversation ids
  Tasks,          \* requests and scheduler ticks that may run the pipeline
  BatchSize,      \* conversations analysed together
  MaxCount,       \* conversations of a run at most
  Analyses,       \* what the analyzer may suggest: evidence counts, in order
  Readings,       \* metric readings taken during the rollout
  Day,            \* ticks of the clock in 24 hours
  MaxTime, MaxProposals, MaxHistory   \* bounds of the instance

ASSUME OperationsAssumption ==
  /\ IsFiniteSet(Convs)
  /\ BatchSize \in Nat \ {0} /\ MaxCount \in Nat
  /\ Analyses \subseteq Seq(Nat)
  /\ Day \in Nat \ {0}
  /\ MaxTime \in Nat

VARIABLES
  now,          \* the clock
  lastTurn,     \* memory_turns: time of a conversation's newest turn, or NoTurn
  proposals,    \* the proposals table, oldest row first
  run,          \* the pipeline run a task is in
  low,          \* what is_low_peak answers to the samples recorded so far
  triggered,    \* LowPeakScheduler._triggered
  stage,        \* CanaryRouter._current_stage, as its place in _STAGE_ORDER
  startedAt,    \* CanaryRouter._stage_started_at
  history,      \* CanaryRouter._history, with who asked for each transition
  reading,      \* CanaryMonitor._canary
  approved,     \* ghost: an approval was handled since the process started
  periodRuns,   \* ghost: scheduled runs since traffic was last seen recovered
  bootedAt      \* ghost: when the process started

db       == <<lastTurn, proposals>>
rollout  == <<stage, startedAt, history>>
schedule == <<low, triggered, periodRuns>>
vars == <<now, db, run, schedule, rollout, reading, approved, bootedAt>>

NoTurn == -1

-----------------------------------------------------------------------------
(* Memory pool *)

(* record_turn inserts the turn, timed now, and commits at once.             *)
RecordTurn(c) ==
  /\ lastTurn' = [lastTurn EXCEPT ![c] = now]
  /\ UNCHANGED <<now, proposals, run, schedule, rollout, reading, approved, bootedAt>>

(* n of a set, or all of it if there are not so many.                        *)
Some(set, n) ==
  {some \in SUBSET set : Cardinality(some) = IF Cardinality(set) < n THEN Cardinality(set) ELSE n}

(* What may be selected: max_count of the conversations with a turn of the   *)
(* last 24 hours.  Those of the oldest turns come first; the model keeps the *)
(* newest turn only and leaves open which.                                   *)
SelectConversations ==
  Some({c \in Convs : lastTurn[c] /= NoTurn /\ lastTurn[c] >= now - Day}, MaxCount)

-----------------------------------------------------------------------------
(* Proposal pipeline *)

NoRun == [pc |-> "idle", left |-> {}, batch |-> {}]

(* The next batch: batch_size conversations, or all that are left.           *)
Batches(left) == Some(left, BatchSize)

(* The run goes on to its next batch and suspends in the analyzer, or ends.  *)
NextBatch(t, left) ==
  IF left = {} THEN run' = [run EXCEPT ![t] = NoRun]
  ELSE \E b \in Batches(left) :
         run' = [run EXCEPT ![t] = [pc |-> "analyzing", left |-> left \ b, batch |-> b]]

DeterminePriority(evidence) ==
  IF evidence >= 3 THEN "high" ELSE IF evidence >= 1 THEN "medium" ELSE "low"

CreateProposal(evidence, batch) ==
  [status |-> "draft", priority |-> DeterminePriority(evidence), source |-> batch]

(* A batch comes back from the analyzer: its suggestions are stored one      *)
(* commit each, and the next batch is started.                               *)
Analyzed(t) ==
  /\ run[t].pc = "analyzing"
  /\ \E found \in Analyses :
       /\ Len(proposals) + Len(found) <= MaxProposals
       /\ proposals' = proposals \o [i \in DOMAIN found |-> CreateProposal(found[i], run[t].batch)]
  /\ NextBatch(t, run[t].left)
  /\ UNCHANGED <<now, lastTurn, schedule, rollout, reading, approved, bootedAt>>

(* The analyzer raises: the rest of the run is given up.                     *)
AnalyzerRaises(t) ==
  /\ run[t].pc = "analyzing"
  /\ run' = [run EXCEPT ![t] = NoRun]
  /\ UNCHANGED <<now, db, schedule, rollout, reading, approved, bootedAt>>

(* POST /api/proposals/run                                                   *)
RunRequested(t) ==
  /\ run[t].pc = "idle"
  /\ \E selected \in SelectConversations : selected /= {} /\ NextBatch(t, selected)
  /\ UNCHANGED <<now, db, schedule, rollout, reading, approved, bootedAt>>

-----------------------------------------------------------------------------
(* Low-peak scheduler *)

(* A new sample moves the window's average and the 24 hour peak.             *)
RecordSample ==
  /\ low' \in BOOLEAN
  /\ low' /= low
  /\ UNCHANGED <<now, db, run, triggered, periodRuns, rollout, reading, approved, bootedAt>>

(* A plausible error: the period is marked once the callback has returned.  *)
TriggerMarksAfterwards(t) ==
  /\ periodRuns' = periodRuns + 1
  /\ \E selected \in SelectConversations : triggered' = (selected = {}) /\ NextBatch(t, selected)

(* The period is marked before its callback, the pipeline, is awaited.       *)
Trigger(t) ==
  /\ triggered' = TRUE
  /\ periodRuns' = periodRuns + 1
  /\ \E selected \in SelectConversations : NextBatch(t, selected)

CheckAndTrigger(t) ==
  /\ run[t].pc = "idle"
  /\ \/ low /\ ~triggered /\ Trigger(t)
     \/ ~low /\ triggered /\ triggered' = FALSE /\ periodRuns' = 0 /\ UNCHANGED run
  /\ UNCHANGED <<now, db, low, rollout, reading, approved, bootedAt>>

-----------------------------------------------------------------------------
(* Canary router *)

Stages     == 0..3
Disabled   == 0
LastStage  == 3
Percentage == <<5, 25, 100>>
Percent(s) == IF s = Disabled THEN 0 ELSE Percentage[s]

(* What api_routes writes into _stage_started_at to skip the observation.    *)
LongAgo == -Day

CanAdvance(since) == stage /= LastStage /\ now - since >= Day

AdvanceFrom(since, by) ==
  /\ CanAdvance(since)
  /\ Len(history) < MaxHistory
  /\ history' = Append(history, [action |-> "advance", to |-> stage + 1, at |-> now, by |-> by])
  /\ stage' = stage + 1
  /\ startedAt' = now

(* A plausible error: the clock of the abandoned stage goes on counting.     *)
RollbackKeepsClock(by) ==
  /\ Len(history) < MaxHistory
  /\ history' = Append(history, [action |-> "rollback", to |-> Disabled, at |-> now, by |-> by])
  /\ stage' = Disabled
  /\ UNCHANGED startedAt

Rollback(by) ==
  /\ Len(history) < MaxHistory
  /\ history' = Append(history, [action |-> "rollback", to |-> Disabled, at |-> now, by |-> by])
  /\ stage' = Disabled
  /\ startedAt' = now

(* POST /api/canary/advance.  A request that may not advance changes the     *)
(* clock of the stage when it was forced, and nothing otherwise.             *)
CanaryAdvance(force) ==
  LET since == IF force THEN LongAgo ELSE startedAt IN
  /\ IF CanAdvance(since)
       THEN AdvanceFrom(since, IF force THEN "force" ELSE "observation")
       ELSE startedAt' = since /\ UNCHANGED <<stage, history>>
  /\ UNCHANGED <<now, db, run, schedule, reading, approved, bootedAt>>

(* POST /api/canary/rollback, /rollback in the management chat and           *)
(* RollbackCommand.execute.                                                  *)
OperatorRollsBack ==
  /\ Rollback("operator")
  /\ UNCHANGED <<now, db, run, schedule, reading, approved, bootedAt>>

-----------------------------------------------------------------------------
(* Canary monitor *)

(* A reading is [csat, complaints] in percent of the baseline.               *)
NoReading == [csat |-> -1, complaints |-> -1]

(* A metric where higher is better may halve, the others may double.         *)
Breaches(r) ==
  {m \in DOMAIN r :
     /\ r[m] /= -1
     /\ IF m = "csat" THEN r[m] < 50 ELSE r[m] > 200}

RecordCanaryMetrics(r) ==
  /\ reading' = r
  /\ UNCHANGED <<now, db, run, schedule, rollout, approved, bootedAt>>

MonitorAndAct ==
  /\ Breaches(reading) /= {}
  /\ Rollback("monitor")
  /\ UNCHANGED <<now, db, run, schedule, reading, approved, bootedAt>>

-----------------------------------------------------------------------------
(* The administrator's commands *)

ListProposals == Reverse(proposals)

(* "/approve prop_x" names a row; "/approve #n" the nth newest of now.       *)
ParseProposalId(text) ==
  IF text.kind = "id" THEN text.value ELSE Len(ListProposals) + 1 - text.value

Texts == [kind : {"id", "number"}, value : DOMAIN proposals]

UpdateStatus(text, status) ==
  proposals' = [proposals EXCEPT ![ParseProposalId(text)].status = status]

(* A plausible error: an approval waits for the observation like a widening.*)
StartsRolloutWhenObserved ==
  IF Percent(stage) = 0 /\ CanAdvance(startedAt) THEN AdvanceFrom(startedAt, "approval")
  ELSE UNCHANGED rollout

(* An approval starts a rollout that is not running.                         *)
StartsRollout ==
  IF Percent(stage) = 0 THEN AdvanceFrom(LongAgo, "approval")
  ELSE UNCHANGED rollout

HandleApproveCommand(text) ==
  /\ UpdateStatus(text, "accepted")
  /\ StartsRollout
  /\ approved' = TRUE
  /\ UNCHANGED <<now, lastTurn, run, schedule, reading, bootedAt>>

HandleRejectCommand(text) ==
  /\ UpdateStatus(text, "rejected")
  /\ UNCHANGED <<now, lastTurn, run, schedule, rollout, reading, approved, bootedAt>>

-----------------------------------------------------------------------------
Tick ==
  /\ now < MaxTime
  /\ now' = now + 1
  /\ UNCHANGED <<db, run, schedule, rollout, reading, approved, bootedAt>>

(* What a new process starts with.                                           *)
Fresh(time) ==
  /\ run' = [t \in Tasks |-> NoRun]
  /\ low' = FALSE /\ triggered' = FALSE /\ periodRuns' = 0
  /\ stage' = Disabled /\ startedAt' = time /\ history' = <<>>
  /\ reading' = NoReading
  /\ approved' = FALSE
  /\ bootedAt' = time

Restart ==
  /\ bootedAt < now
  /\ Fresh(now)
  /\ UNCHANGED <<now, db>>

Init ==
  /\ now = 0
  /\ lastTurn = [c \in Convs |-> NoTurn]
  /\ proposals = <<>>
  /\ run = [t \in Tasks |-> NoRun]
  /\ low = FALSE /\ triggered = FALSE /\ periodRuns = 0
  /\ stage = Disabled /\ startedAt = 0 /\ history = <<>>
  /\ reading = NoReading
  /\ approved = FALSE
  /\ bootedAt = 0

Next ==
  \/ \E c \in Convs : RecordTurn(c)
  \/ \E t \in Tasks : RunRequested(t) \/ Analyzed(t) \/ AnalyzerRaises(t) \/ CheckAndTrigger(t)
  \/ RecordSample
  \/ \E force \in BOOLEAN : CanaryAdvance(force)
  \/ OperatorRollsBack
  \/ \E r \in Readings : RecordCanaryMetrics(r)
  \/ MonitorAndAct
  \/ \E text \in Texts : HandleApproveCommand(text) \/ HandleRejectCommand(text)
  \/ Tick
  \/ Restart

Spec == Init /\ [][Next]_vars
-----------------------------------------------------------------------------
(* Properties *)

(* Every variable keeps to its set of values.                                *)
TypeOK ==
  /\ now \in 0..MaxTime /\ bootedAt \in 0..now
  /\ lastTurn \in [Convs -> (0..now) \cup {NoTurn}]
  /\ \A i \in DOMAIN proposals :
       proposals[i] \in [status : {"draft", "accepted", "rejected"},
                         priority : {"high", "medium", "low"}, source : SUBSET Convs]
  /\ \A t \in Tasks :
       /\ run[t] \in [pc : {"idle", "analyzing"}, left : SUBSET Convs, batch : SUBSET Convs]
       /\ run[t].pc = "analyzing" <=> run[t].batch /= {}
       /\ run[t].left \cap run[t].batch = {}
  /\ low \in BOOLEAN /\ triggered \in BOOLEAN /\ approved \in BOOLEAN
  /\ periodRuns \in Nat
  /\ stage \in Stages
  /\ startedAt \in {LongAgo} \cup (bootedAt..now)
  /\ reading \in Readings \cup {NoReading}

(* A rollout that was not forced widens only after a full observation of the *)
(* stage it was in, counted from the last change of stage: after a rollback  *)
(* it rests for a day (CanaryRouter.can_advance, advance and rollback).      *)
RestBeforeWidening ==
  \A i \in DOMAIN history :
    history[i].by = "observation" =>
      history[i].at - (IF i = 1 THEN bootedAt ELSE history[i - 1].at) >= Day

(* A quiet period starts the pipeline once, however many ticks of the        *)
(* scheduler come while the first run is still suspended in the analyzer     *)
(* (LowPeakScheduler.check_and_trigger).                                     *)
OneRunPerLowPeriod == TypeOK /\ periodRuns <= 1

(* Once a proposal has been approved, only a rollback leaves the rollout     *)
(* disabled: approving starts it whatever happened before (approving right   *)
(* after a rollback does not wait; _handle_approve_command).                 *)
ApprovalStartsRollout ==
  approved /\ stage = Disabled => history /= <<>> /\ Last(history).action = "rollback"
=============================================================================
