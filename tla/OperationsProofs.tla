--------------------------- MODULE OperationsProofs ---------------------------
(* Machine-checked theorems about Operations: whatever the conversations,    *)
(* tasks, batch size, analyzer and bounds.                                   *)
EXTENDS Operations, FiniteSetTheorems, TLAPS

Proposals == [status : {"draft", "accepted", "rejected"},
              priority : {"high", "medium", "low"}, source : SUBSET Convs]
Runs      == [pc : {"idle", "analyzing"}, left : SUBSET Convs, batch : SUBSET Convs]
Entries   == [action : {"advance", "rollback"}, to : Stages, at : Int,
              by : {"observation", "force", "approval", "operator", "monitor"}]

(* The inductive invariant, part by part.                                    *)
ClockOK == now \in 0..MaxTime /\ bootedAt \in 0..now

StoreOK ==
  /\ lastTurn \in [Convs -> (0..now) \cup {NoTurn}]
  /\ proposals \in Seq(Proposals)

RunsOK ==
  /\ run \in [Tasks -> Runs]
  /\ \A t \in Tasks : /\ run[t].pc = "analyzing" <=> run[t].batch /= {}
                      /\ run[t].left \cap run[t].batch = {}

FlagsOK ==
  /\ low \in BOOLEAN /\ triggered \in BOOLEAN /\ approved \in BOOLEAN
  /\ reading \in Readings \cup {NoReading}

(* A period counts one run exactly while it is marked.                       *)
PeriodOK == periodRuns = IF triggered THEN 1 ELSE 0

HistoryOK ==
  /\ history \in Seq(Entries)
  /\ \A i \in DOMAIN history : history[i].at \in bootedAt..now

(* When the current stage was entered.                                       *)
Entered == IF history = <<>> THEN bootedAt ELSE history[Len(history)].at

(* The stage is where the history ends; the clock of the stage is when it    *)
(* was entered, or was set back while no stage is left to go to.             *)
RolloutOK ==
  /\ stage \in Stages
  /\ history = <<>> => stage = Disabled
  /\ history /= <<>> =>
       /\ stage = history[Len(history)].to
       /\ stage = Disabled => history[Len(history)].action = "rollback"
  /\ startedAt = Entered \/ (startedAt = LongAgo /\ stage = LastStage)

IInv ==
  /\ ClockOK /\ StoreOK /\ RunsOK /\ FlagsOK /\ PeriodOK /\ HistoryOK /\ RolloutOK
  /\ RestBeforeWidening /\ ApprovalStartsRollout

-----------------------------------------------------------------------------
(* The operators                                                             *)

LEMMA NoRunTyped == NoRun \in Runs /\ NoRun.pc = "idle" /\ NoRun.batch = {} /\ NoRun.left = {}
  BY DEF NoRun, Runs

LEMMA SelectionTyped == \A selected \in SelectConversations : selected \in SUBSET Convs
  BY DEF SelectConversations, Some

(* A batch is some of what is left, and never empty.                         *)
LEMMA BatchTyped ==
  ASSUME NEW left \in SUBSET Convs, left /= {}, NEW b \in Batches(left)
  PROVE  b \in SUBSET left /\ b /= {}
<1>1. IsFiniteSet(left)
  BY OperationsAssumption, FS_Subset
<1>2. Cardinality(left) \in Nat /\ Cardinality(left) /= 0
  BY <1>1, FS_CardinalityType, FS_EmptySet
<1>3. Cardinality(b) /= 0
  BY <1>2, OperationsAssumption DEF Batches, Some
<1>4. QED
  BY <1>3, FS_EmptySet DEF Batches, Some

(* The run that goes on is well formed, the others are untouched.            *)
LEMMA NextBatchTyped ==
  ASSUME RunsOK, NEW t \in Tasks, NEW left \in SUBSET Convs, NextBatch(t, left)
  PROVE  RunsOK'
<1>1. CASE left = {}
  <2>1. run' = [run EXCEPT ![t] = NoRun]
    BY <1>1 DEF NextBatch
  <2>2. QED
    BY <2>1, NoRunTyped DEF RunsOK
<1>2. CASE left /= {}
  <2>1. PICK b \in Batches(left) :
          run' = [run EXCEPT ![t] = [pc |-> "analyzing", left |-> left \ b, batch |-> b]]
    BY <1>2 DEF NextBatch
  <2>2. b \in SUBSET left /\ b /= {}
    BY <1>2, BatchTyped
  <2>3. [pc |-> "analyzing", left |-> left \ b, batch |-> b] \in Runs
    BY <2>2 DEF Runs
  <2>4. QED
    BY <2>1, <2>2, <2>3 DEF RunsOK
<1>3. QED
  BY <1>1, <1>2

LEMMA StartedTyped == ASSUME IInv PROVE startedAt \in Int /\ now \in Nat /\ Day \in Int /\ Day > 0
<1>1. now \in Nat /\ bootedAt \in Int /\ Day \in Int /\ Day > 0
  BY OperationsAssumption DEF IInv, ClockOK
<1>2. Entered \in Int
  BY <1>1 DEF IInv, HistoryOK, Entered, Entries
<1>3. QED
  BY <1>1, <1>2 DEF IInv, RolloutOK, LongAgo

-----------------------------------------------------------------------------
(* The rollout                                                               *)

RolloutPart == HistoryOK /\ RolloutOK /\ RestBeforeWidening

(* An entry of now keeps the history well formed.                            *)
LEMMA Appended ==
  ASSUME IInv, UNCHANGED <<now, bootedAt>>, NEW e \in Entries, e.at = now,
         history' = Append(history, e),
         e.by = "observation" => now - Entered >= Day
  PROVE  /\ HistoryOK' /\ RestBeforeWidening'
         /\ history' /= <<>> /\ history'[Len(history')] = e /\ Entered' = now
<1>1. /\ history \in Seq(Entries)
      /\ \A i \in DOMAIN history : history[i].at \in bootedAt..now
      /\ now \in Int /\ bootedAt \in Int /\ bootedAt <= now
  BY DEF IInv, HistoryOK, ClockOK
<1>2. /\ history' \in Seq(Entries)
      /\ Len(history') = Len(history) + 1
      /\ \A i \in DOMAIN history : history'[i] = history[i]
      /\ history'[Len(history')] = e
      /\ DOMAIN history' = 1..Len(history') /\ DOMAIN history = 1..Len(history)
      /\ Len(history) \in Nat
  BY <1>1
<1>3. \A i \in DOMAIN history' : i \in DOMAIN history \/ i = Len(history')
  BY <1>2
<1>4. HistoryOK'
  BY <1>1, <1>2, <1>3 DEF HistoryOK
<1>5. RestBeforeWidening'
  <2> SUFFICES ASSUME NEW i \in DOMAIN history', history'[i].by = "observation"
               PROVE  history'[i].at - (IF i = 1 THEN bootedAt ELSE history'[i - 1].at) >= Day
    BY DEF RestBeforeWidening
  <2>1. CASE i \in DOMAIN history
    <3>1. i = 1 \/ i - 1 \in DOMAIN history
      BY <2>1, <1>2
    <3>2. QED
      BY <2>1, <3>1, <1>2 DEF IInv, RestBeforeWidening
  <2>2. CASE i = Len(history')
    <3>1. history'[i].at = now /\ now - Entered >= Day
      BY <2>2, <1>2
    <3>2. CASE history = <<>>
      BY <3>1, <3>2, <2>2, <1>2 DEF Entered
    <3>3. CASE history /= <<>>
      <4>1. i /= 1 /\ i - 1 = Len(history) /\ i - 1 \in DOMAIN history
        BY <3>3, <2>2, <1>1, <1>2
      <4>2. QED
        BY <4>1, <3>3, <3>1, <1>2 DEF Entered
    <3>4. QED
      BY <3>2, <3>3
  <2>3. QED
    BY <1>3, <2>1, <2>2
<1>6. history' /= <<>>
  BY <1>2
<1>7. QED
  BY <1>2, <1>4, <1>5, <1>6 DEF Entered

(* A widening that was observed follows a day of the stage before it.        *)
LEMMA AdvanceKeeps ==
  ASSUME IInv, UNCHANGED <<now, bootedAt>>, NEW since,
         NEW by \in {"observation", "force", "approval"},
         by = "observation" => since = startedAt,
         AdvanceFrom(since, by)
  PROVE  RolloutPart' /\ stage' /= Disabled
<1> DEFINE e == [action |-> "advance", to |-> stage + 1, at |-> now, by |-> by]
<1>1. stage \in Stages /\ stage /= LastStage /\ now - since >= Day
  BY DEF AdvanceFrom, CanAdvance, IInv, RolloutOK
<1>2. stage + 1 \in Stages /\ stage + 1 /= Disabled
  BY <1>1 DEF Stages, LastStage, Disabled
<1>3. e \in Entries /\ e.at = now /\ e.to = stage + 1 /\ e.by = by /\ e.action = "advance"
  BY <1>2, StartedTyped DEF Entries
<1>4. history' = Append(history, e) /\ stage' = stage + 1 /\ startedAt' = now
  BY DEF AdvanceFrom
<1>5. by = "observation" => now - Entered >= Day
  BY <1>1 DEF IInv, RolloutOK
<1> HIDE DEF e
<1>6. /\ HistoryOK' /\ RestBeforeWidening' /\ history' /= <<>>
      /\ history'[Len(history')] = e /\ Entered' = now
  BY <1>3, <1>4, <1>5, Appended
<1>7. RolloutOK'
  BY <1>2, <1>3, <1>4, <1>6 DEF RolloutOK
<1>8. QED
  BY <1>2, <1>4, <1>6, <1>7 DEF RolloutPart

LEMMA RollbackKeeps ==
  ASSUME IInv, UNCHANGED <<now, bootedAt>>, NEW by \in {"operator", "monitor"}, Rollback(by)
  PROVE  RolloutPart' /\ history' /= <<>> /\ history'[Len(history')].action = "rollback"
<1> DEFINE e == [action |-> "rollback", to |-> Disabled, at |-> now, by |-> by]
<1>1. e \in Entries /\ e.at = now /\ e.to = Disabled /\ e.by = by /\ e.action = "rollback"
  BY StartedTyped DEF Entries, Stages, Disabled
<1>2. history' = Append(history, e) /\ stage' = Disabled /\ startedAt' = now
  BY DEF Rollback
<1>3. e.by /= "observation"
  BY <1>1
<1> HIDE DEF e
<1>4. /\ HistoryOK' /\ RestBeforeWidening' /\ history' /= <<>>
      /\ history'[Len(history')] = e /\ Entered' = now
  BY <1>1, <1>2, <1>3, Appended
<1>5. RolloutOK'
  BY <1>1, <1>2, <1>4 DEF RolloutOK, Stages, Disabled
<1>6. QED
  BY <1>1, <1>4, <1>5 DEF RolloutPart

(* Nothing of the rollout changes while time passes at most.                 *)
LEMMA RolloutStays ==
  ASSUME IInv, UNCHANGED <<rollout, bootedAt>>, now' \in Int, now <= now'
  PROVE  RolloutPart'
<1>1. HistoryOK'
  BY DEF IInv, HistoryOK, ClockOK, rollout
<1>2. RolloutOK'
  BY DEF IInv, RolloutOK, Entered, rollout
<1>3. RestBeforeWidening'
  BY DEF IInv, RestBeforeWidening, rollout
<1>4. QED
  BY <1>1, <1>2, <1>3 DEF RolloutPart

LEMMA ApprovalStays ==
  ASSUME IInv, UNCHANGED <<rollout, approved>>
  PROVE  ApprovalStartsRollout'
  BY DEF IInv, ApprovalStartsRollout, rollout, Last

-----------------------------------------------------------------------------
(* The two stores                                                            *)

LEMMA CreatedTyped ==
  ASSUME NEW evidence \in Nat, NEW batch \in SUBSET Convs
  PROVE  CreateProposal(evidence, batch) \in Proposals
  BY DEF CreateProposal, DeterminePriority, Proposals

(* Sequences: an element replaced, a sequence added.                         *)
LEMMA Replaced ==
  ASSUME NEW S, NEW s \in Seq(S), NEW k, NEW e, k \in DOMAIN s => e \in S
  PROVE  [s EXCEPT ![k] = e] \in Seq(S)
<1>1. s \in [1..Len(s) -> S] /\ Len(s) \in Nat
  OBVIOUS
<1>2. [s EXCEPT ![k] = e] \in [1..Len(s) -> S]
  BY <1>1
<1>3. QED
  BY <1>1, <1>2

LEMMA Tabulated ==
  ASSUME NEW S, NEW n \in Nat, NEW f, f = [i \in 1..n |-> f[i]], \A i \in 1..n : f[i] \in S
  PROVE  f \in Seq(S)
<1>1. f \in [1..n -> S]
  OBVIOUS
<1>2. QED
  BY <1>1

LEMMA Joined == ASSUME NEW S, NEW s \in Seq(S), NEW t \in Seq(S) PROVE s \o t \in Seq(S)
  OBVIOUS

LEMMA StatusTyped ==
  ASSUME IInv, NEW text, NEW status \in {"accepted", "rejected"}, UpdateStatus(text, status)
  PROVE  proposals' \in Seq(Proposals)
<1>1. proposals \in Seq(Proposals)
  BY DEF IInv, StoreOK
<1>2. \A p \in Proposals : [p EXCEPT !.status = status] \in Proposals
  BY DEF Proposals
<1> DEFINE k == ParseProposalId(text)
           e == [proposals[k] EXCEPT !.status = status]
<1>3. proposals' = [proposals EXCEPT ![k] = e]
  BY DEF UpdateStatus
<1>4. k \in DOMAIN proposals => proposals[k] \in Proposals
  BY <1>1
<1>5. k \in DOMAIN proposals => e \in Proposals
  BY <1>2, <1>4
<1> HIDE DEF k, e
<1>6. QED
  BY <1>1, <1>3, <1>5, Replaced

LEMMA FoundTyped ==
  ASSUME IInv, NEW found \in Analyses, NEW batch \in SUBSET Convs
  PROVE  proposals \o [i \in DOMAIN found |-> CreateProposal(found[i], batch)] \in Seq(Proposals)
<1> DEFINE new == [i \in DOMAIN found |-> CreateProposal(found[i], batch)]
<1>1. found \in Seq(Nat) /\ DOMAIN found = 1..Len(found) /\ Len(found) \in Nat
  BY OperationsAssumption
<1>2. \A i \in DOMAIN found : CreateProposal(found[i], batch) \in Proposals
  BY <1>1, CreatedTyped
<1>3. new = [i \in 1..Len(found) |-> new[i]] /\ \A i \in 1..Len(found) : new[i] \in Proposals
  BY <1>1, <1>2
<1> HIDE DEF new
<1>4. new \in Seq(Proposals)
  BY <1>1, <1>3, Tabulated
<1>5. proposals \o new \in Seq(Proposals)
  BY <1>4, Joined DEF IInv, StoreOK
<1>6. QED
  BY <1>5 DEF new

-----------------------------------------------------------------------------
(* The inductive invariant                                                   *)

LEMMA InitEstablishes == Init => IInv
<1> SUFFICES ASSUME Init PROVE IInv
  OBVIOUS
<1>1. ClockOK /\ StoreOK
  BY OperationsAssumption DEF Init, ClockOK, StoreOK
<1>2. RunsOK
  BY NoRunTyped DEF Init, RunsOK
<1>3. FlagsOK /\ PeriodOK
  BY DEF Init, FlagsOK, PeriodOK
<1>4. HistoryOK /\ RolloutOK /\ RestBeforeWidening
  BY DEF Init, HistoryOK, RolloutOK, RestBeforeWidening, Entered, Stages, Disabled
<1>5. ApprovalStartsRollout
  BY DEF Init, ApprovalStartsRollout
<1>6. QED
  BY <1>1, <1>2, <1>3, <1>4, <1>5 DEF IInv

(* The parts a step leaves alone stay as they are.                           *)
LEMMA ClockStays == ASSUME IInv, UNCHANGED <<now, bootedAt>> PROVE ClockOK'
  BY DEF IInv, ClockOK
LEMMA StoreStays == ASSUME IInv, UNCHANGED <<now, db>> PROVE StoreOK'
  BY DEF IInv, StoreOK, db
LEMMA RunsStay == ASSUME IInv, UNCHANGED run PROVE RunsOK'
  BY DEF IInv, RunsOK
LEMMA FlagsStay == ASSUME IInv, UNCHANGED <<schedule, approved, reading>> PROVE FlagsOK' /\ PeriodOK'
  BY DEF IInv, FlagsOK, PeriodOK, schedule
LEMMA StandsStill == ASSUME IInv, UNCHANGED <<rollout, bootedAt, now>> PROVE RolloutPart'
<1>1. now' \in Int /\ now <= now'
  BY DEF IInv, ClockOK
<1>2. QED
  BY <1>1, RolloutStays DEF rollout

LEMMA RecordTurnKeeps == ASSUME IInv, NEW c \in Convs, RecordTurn(c) PROVE IInv'
<1>1. StoreOK'
  BY DEF RecordTurn, IInv, StoreOK, ClockOK
<1>2. QED
  BY <1>1, ClockStays, RunsStay, FlagsStay, StandsStill, ApprovalStays
  DEF RecordTurn, IInv, RolloutPart

LEMMA RunRequestedKeeps == ASSUME IInv, NEW t \in Tasks, RunRequested(t) PROVE IInv'
<1>1. RunsOK'
  BY SelectionTyped, NextBatchTyped DEF RunRequested, IInv
<1>2. QED
  BY <1>1, ClockStays, StoreStays, FlagsStay, StandsStill, ApprovalStays
  DEF RunRequested, IInv, RolloutPart

LEMMA AnalyzedKeeps == ASSUME IInv, NEW t \in Tasks, Analyzed(t) PROVE IInv'
<1>1. run[t] \in Runs /\ run[t].left \in SUBSET Convs /\ run[t].batch \in SUBSET Convs
  BY DEF IInv, RunsOK, Runs
<1>2. RunsOK'
  BY <1>1, NextBatchTyped DEF Analyzed, IInv
<1>3. proposals' \in Seq(Proposals)
  <2>1. PICK found \in Analyses :
          proposals' = proposals \o [i \in DOMAIN found |-> CreateProposal(found[i], run[t].batch)]
    BY DEF Analyzed
  <2>2. QED
    BY <1>1, <2>1, FoundTyped
<1>4. StoreOK'
  BY <1>3 DEF Analyzed, IInv, StoreOK
<1>5. QED
  BY <1>2, <1>4, ClockStays, FlagsStay, StandsStill, ApprovalStays
  DEF Analyzed, IInv, RolloutPart

LEMMA AnalyzerRaisesKeeps == ASSUME IInv, NEW t \in Tasks, AnalyzerRaises(t) PROVE IInv'
<1>1. RunsOK'
  BY NoRunTyped DEF AnalyzerRaises, IInv, RunsOK
<1>2. QED
  BY <1>1, ClockStays, StoreStays, FlagsStay, StandsStill, ApprovalStays
  DEF AnalyzerRaises, IInv, RolloutPart

LEMMA RecordSampleKeeps == ASSUME IInv, RecordSample PROVE IInv'
<1>1. FlagsOK' /\ PeriodOK'
  BY DEF RecordSample, IInv, FlagsOK, PeriodOK
<1>2. QED
  BY <1>1, ClockStays, StoreStays, RunsStay, StandsStill, ApprovalStays
  DEF RecordSample, IInv, RolloutPart

(* The period is marked before the run that it counts is awaited.            *)
LEMMA CheckAndTriggerKeeps == ASSUME IInv, NEW t \in Tasks, CheckAndTrigger(t) PROVE IInv'
<1>1. CASE low /\ ~triggered /\ Trigger(t)
  <2>1. RunsOK'
    BY <1>1, SelectionTyped, NextBatchTyped DEF Trigger, IInv
  <2>2. periodRuns = 0 /\ periodRuns' = 1 /\ triggered' = TRUE
    BY <1>1 DEF Trigger, IInv, PeriodOK
  <2>3. FlagsOK' /\ PeriodOK'
    BY <2>2 DEF CheckAndTrigger, IInv, FlagsOK, PeriodOK
  <2>4. QED
    BY <2>1, <2>3, ClockStays, StoreStays, StandsStill, ApprovalStays
    DEF CheckAndTrigger, IInv, RolloutPart
<1>2. CASE ~low /\ triggered /\ triggered' = FALSE /\ periodRuns' = 0 /\ UNCHANGED run
  <2>1. FlagsOK' /\ PeriodOK'
    BY <1>2 DEF CheckAndTrigger, IInv, FlagsOK, PeriodOK
  <2>2. QED
    BY <1>2, <2>1, ClockStays, StoreStays, RunsStay, StandsStill, ApprovalStays
    DEF CheckAndTrigger, IInv, RolloutPart
<1>3. QED
  BY <1>1, <1>2 DEF CheckAndTrigger

(* A forced request moves the clock of the stage, but only where no stage is *)
(* left to go to does that clock outlive the request.                        *)
LEMMA CanaryAdvanceKeeps == ASSUME IInv, NEW force \in BOOLEAN, CanaryAdvance(force) PROVE IInv'
<1> DEFINE since == IF force THEN LongAgo ELSE startedAt
           by    == IF force THEN "force" ELSE "observation"
<1>0. UNCHANGED <<now, db, run, schedule, reading, approved, bootedAt>>
  BY DEF CanaryAdvance
<1>1. CASE CanAdvance(since)
  <2>1. AdvanceFrom(since, by) /\ by \in {"observation", "force", "approval"}
    BY <1>1 DEF CanaryAdvance
  <2>2. by = "observation" => since = startedAt
    OBVIOUS
  <2> HIDE DEF since, by
  <2>3. RolloutPart' /\ stage' /= Disabled
    BY <1>0, <2>1, <2>2, AdvanceKeeps
  <2>4. ApprovalStartsRollout'
    BY <2>3 DEF ApprovalStartsRollout
  <2>5. QED
    BY <1>0, <2>3, <2>4, ClockStays, StoreStays, RunsStay, FlagsStay DEF IInv, RolloutPart
<1>2. CASE ~CanAdvance(since)
  <2>1. startedAt' = since /\ UNCHANGED <<stage, history>>
    BY <1>2 DEF CanaryAdvance
  <2>2. force => stage = LastStage
    <3>1. now - LongAgo >= Day
      BY StartedTyped DEF LongAgo
    <3>2. QED
      BY <1>2, <3>1 DEF CanAdvance
  <2>3. RolloutOK'
    BY <1>0, <2>1, <2>2 DEF IInv, RolloutOK, Entered
  <2>4. HistoryOK' /\ RestBeforeWidening' /\ ApprovalStartsRollout'
    BY <1>0, <2>1 DEF IInv, HistoryOK, RestBeforeWidening, ApprovalStartsRollout, Last
  <2>5. QED
    BY <1>0, <2>3, <2>4, ClockStays, StoreStays, RunsStay, FlagsStay DEF IInv
<1>3. QED
  BY <1>1, <1>2

LEMMA RollbackPreserves ==
  ASSUME IInv, NEW by \in {"operator", "monitor"}, Rollback(by),
         UNCHANGED <<now, db, run, schedule, reading, approved, bootedAt>>
  PROVE  IInv'
<1>1. RolloutPart' /\ history' /= <<>> /\ history'[Len(history')].action = "rollback"
  BY RollbackKeeps
<1>2. ApprovalStartsRollout'
  BY <1>1 DEF ApprovalStartsRollout, Last
<1>3. QED
  BY <1>1, <1>2, ClockStays, StoreStays, RunsStay, FlagsStay DEF IInv, RolloutPart

LEMMA RecordCanaryMetricsKeeps ==
  ASSUME IInv, NEW r \in Readings, RecordCanaryMetrics(r) PROVE IInv'
<1>1. FlagsOK' /\ PeriodOK'
  BY DEF RecordCanaryMetrics, IInv, FlagsOK, PeriodOK, schedule
<1>2. QED
  BY <1>1, ClockStays, StoreStays, RunsStay, StandsStill, ApprovalStays
  DEF RecordCanaryMetrics, IInv, RolloutPart

(* An approval of a rollout that is disabled never waits, also right after a *)
(* rollback.                                                                 *)
LEMMA ApproveKeeps == ASSUME IInv, NEW text, HandleApproveCommand(text) PROVE IInv'
<1>0. UNCHANGED <<now, lastTurn, run, schedule, reading, bootedAt>> /\ approved' = TRUE
  BY DEF HandleApproveCommand
<1>1. StoreOK'
  BY <1>0, StatusTyped DEF HandleApproveCommand, IInv, StoreOK
<1>2. FlagsOK' /\ PeriodOK'
  BY <1>0 DEF IInv, FlagsOK, PeriodOK, schedule
<1>3. CASE Percent(stage) = 0
  <2>1. AdvanceFrom(LongAgo, "approval")
    BY <1>3 DEF HandleApproveCommand, StartsRollout
  <2>2. RolloutPart' /\ stage' /= Disabled
    BY <1>0, <2>1, AdvanceKeeps
  <2>3. QED
    BY <1>0, <1>1, <1>2, <2>2, ClockStays, RunsStay
    DEF IInv, RolloutPart, ApprovalStartsRollout
<1>4. CASE Percent(stage) /= 0
  <2>1. UNCHANGED rollout /\ stage /= Disabled
    BY <1>4 DEF HandleApproveCommand, StartsRollout, Percent
  <2>2. RolloutPart' /\ stage' /= Disabled
    BY <1>0, <2>1, StandsStill DEF rollout
  <2>3. QED
    BY <1>0, <1>1, <1>2, <2>2, ClockStays, RunsStay
    DEF IInv, RolloutPart, ApprovalStartsRollout
<1>5. QED
  BY <1>3, <1>4

LEMMA RejectKeeps == ASSUME IInv, NEW text, HandleRejectCommand(text) PROVE IInv'
<1>1. StoreOK'
  BY StatusTyped DEF HandleRejectCommand, IInv, StoreOK
<1>2. QED
  BY <1>1, ClockStays, RunsStay, FlagsStay, StandsStill, ApprovalStays
  DEF HandleRejectCommand, IInv, RolloutPart

LEMMA TickKeeps == ASSUME IInv, Tick PROVE IInv'
<1>1. now' = now + 1 /\ now \in Int /\ now < MaxTime
      /\ UNCHANGED <<db, run, schedule, rollout, reading, approved, bootedAt>>
  BY DEF Tick, IInv, ClockOK
<1>2. ClockOK'
  BY <1>1, OperationsAssumption DEF IInv, ClockOK
<1>3. StoreOK'
  BY <1>1 DEF IInv, StoreOK, db
<1>4. RolloutPart'
  BY <1>1, RolloutStays
<1>5. QED
  BY <1>1, <1>2, <1>3, <1>4, RunsStay, FlagsStay, ApprovalStays DEF IInv, RolloutPart

LEMMA RestartKeeps == ASSUME IInv, Restart PROVE IInv'
<1>1. UNCHANGED <<now, db>> /\ bootedAt' = now /\ now \in Int /\ history' = <<>> /\ stage' = Disabled
      /\ startedAt' = now
  BY DEF Restart, Fresh, IInv, ClockOK
<1>2. ClockOK' /\ StoreOK'
  BY <1>1 DEF IInv, ClockOK, StoreOK, db
<1>3. RunsOK'
  BY NoRunTyped DEF Restart, Fresh, RunsOK
<1>4. FlagsOK' /\ PeriodOK'
  BY DEF Restart, Fresh, FlagsOK, PeriodOK
<1>5. HistoryOK' /\ RolloutOK' /\ RestBeforeWidening'
  BY <1>1 DEF HistoryOK, RolloutOK, RestBeforeWidening, Entered, Stages, Disabled
<1>6. ApprovalStartsRollout'
  BY DEF Restart, Fresh, ApprovalStartsRollout
<1>7. QED
  BY <1>2, <1>3, <1>4, <1>5, <1>6 DEF IInv

LEMMA NextPreserves == IInv /\ [Next]_vars => IInv'
<1> SUFFICES ASSUME IInv, [Next]_vars PROVE IInv'
  OBVIOUS
<1>1. CASE \E c \in Convs : RecordTurn(c)
  BY <1>1, RecordTurnKeeps
<1>2. CASE \E t \in Tasks : RunRequested(t) \/ Analyzed(t) \/ AnalyzerRaises(t) \/ CheckAndTrigger(t)
  BY <1>2, RunRequestedKeeps, AnalyzedKeeps, AnalyzerRaisesKeeps, CheckAndTriggerKeeps
<1>3. CASE RecordSample
  BY <1>3, RecordSampleKeeps
<1>4. CASE \E force \in BOOLEAN : CanaryAdvance(force)
  BY <1>4, CanaryAdvanceKeeps
<1>5. CASE OperatorRollsBack
  BY <1>5, RollbackPreserves DEF OperatorRollsBack
<1>6. CASE \E r \in Readings : RecordCanaryMetrics(r)
  BY <1>6, RecordCanaryMetricsKeeps
<1>7. CASE MonitorAndAct
  BY <1>7, RollbackPreserves DEF MonitorAndAct
<1>8. CASE \E text \in Texts : HandleApproveCommand(text) \/ HandleRejectCommand(text)
  BY <1>8, ApproveKeeps, RejectKeeps
<1>9. CASE Tick
  BY <1>9, TickKeeps
<1>10. CASE Restart
  BY <1>10, RestartKeeps
<1>11. CASE UNCHANGED vars
  <2>1. UNCHANGED <<now, db, run, schedule, rollout, reading, approved, bootedAt>>
    BY <1>11 DEF vars
  <2>2. QED
    BY <2>1, ClockStays, StoreStays, RunsStay, FlagsStay, StandsStill, ApprovalStays
    DEF IInv, RolloutPart
<1>12. QED
  BY <1>1, <1>2, <1>3, <1>4, <1>5, <1>6, <1>7, <1>8, <1>9, <1>10, <1>11 DEF Next

LEMMA Invariant == Spec => []IInv
  BY InitEstablishes, NextPreserves, PTL DEF Spec

LEMMA TypeFollows == IInv => TypeOK
<1> SUFFICES ASSUME IInv PROVE TypeOK
  OBVIOUS
<1>1. now \in 0..MaxTime /\ bootedAt \in 0..now /\ lastTurn \in [Convs -> (0..now) \cup {NoTurn}]
  BY DEF IInv, ClockOK, StoreOK
<1>2. \A i \in DOMAIN proposals : proposals[i] \in Proposals
  BY DEF IInv, StoreOK
<1>3. \A t \in Tasks : /\ run[t] \in Runs
                       /\ run[t].pc = "analyzing" <=> run[t].batch /= {}
                       /\ run[t].left \cap run[t].batch = {}
  BY DEF IInv, RunsOK
<1>4. low \in BOOLEAN /\ triggered \in BOOLEAN /\ approved \in BOOLEAN
      /\ reading \in Readings \cup {NoReading}
  BY DEF IInv, FlagsOK
<1>5. periodRuns \in Nat /\ stage \in Stages
  BY DEF IInv, PeriodOK, RolloutOK
<1>6. startedAt \in {LongAgo} \cup (bootedAt..now)
  BY <1>1 DEF IInv, RolloutOK, HistoryOK, Entered, Entries
<1>7. QED
  BY <1>1, <1>2, <1>3, <1>4, <1>5, <1>6 DEF TypeOK, Proposals, Runs

-----------------------------------------------------------------------------
(* The theorems                                                              *)

(* Whatever the order of turns, runs, samples, commands, readings, ticks and *)
(* restarts, every variable keeps its type.                                  *)
THEOREM TypeCorrect == Spec => []TypeOK
  BY Invariant, TypeFollows, PTL

(* A stage that was not forced or approved is widened only after a full      *)
(* observation of the stage before, also after rollbacks and forced requests *)
(* that set the clock of the stage back (CanaryRouter).                      *)
THEOREM WideningIsObserved == Spec => []RestBeforeWidening
<1>1. IInv => RestBeforeWidening
  BY DEF IInv
<1>2. QED
  BY Invariant, <1>1, PTL

(* One scheduled run per quiet period, however many ticks fall into it.      *)
THEOREM RunsOncePerPeriod == Spec => []OneRunPerLowPeriod
<1>1. IInv => OneRunPerLowPeriod
  BY TypeFollows DEF IInv, PeriodOK, OneRunPerLowPeriod
<1>2. QED
  BY Invariant, <1>1, PTL

(* After an approval the rollout is disabled only by a rollback.             *)
THEOREM ApprovalHolds == Spec => []ApprovalStartsRollout
<1>1. IInv => ApprovalStartsRollout
  BY DEF IInv
<1>2. QED
  BY Invariant, <1>1, PTL
=============================================================================
