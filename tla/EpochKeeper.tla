------------------------------ MODULE EpochKeeper ------------------------------
(* What keeps the engine's ledger moving when nobody trades: the hourly workflow
   v4-epoch-maintainer.yml runs maintainV4Epochs.ts, and the watchdog
   dispatchV4EpochMaintainer.ts starts it when GitHub's own schedule does not. Each step
   below is one await of the script; the engine goes on between any two of them.       *)
EXTENDS NaraEngine

CONSTANTS
    BatchSize, MaxBatches, MaxBacklog,  \* 100, 2 and 150 in the routine's command line
    MaxFaults                           \* bound: runs that fail for reasons of their own

ASSUME KeeperAssumption ==
    /\ BatchSize \in Nat \ {0} /\ MaxBatches \in Nat \ {0} /\ MaxBacklog \in Nat
    /\ MaxBacklog <= BatchSize * MaxBatches
    /\ MaxFaults \in Nat

VARIABLES
    kept,       \* who sees to the ledger: "anyone" who pokes, or the "workflow" alone
    workflow,   \* what GitHub shows of the workflow's runs, and what the watchdog saw
    job,        \* the run in progress
    txs,        \* the keeper's transactions that wait to be included, by nonce
    outcome,    \* how the last run ended, as its alerts and heartbeats say
    faults

keeperVars == <<kept, workflow, job, txs, outcome, faults>>
allVars == <<vars, keeperVars>>

Idle == [at |-> "idle", backlog |-> 0, batches |-> 0]

KeeperInit ==
    /\ Init
    /\ kept \in {"anyone", "workflow"}
    /\ workflow = [pending |-> FALSE, watch |-> FALSE]
    /\ job = Idle /\ txs = <<>> /\ outcome = "healthy" /\ faults = 0

--------------------------------------------------------------------------------
(* Runs                                                                              *)

\* GitHub's cron event, which may be late or never come.
Schedule ==
    /\ kept = "workflow"
    /\ workflow' = [workflow EXCEPT !.pending = TRUE]
    /\ UNCHANGED <<vars, kept, job, txs, outcome, faults>>

\* Mutant: a run that failed still counts as one that will do the work.
WatchdogLooks_FailedCounts ==
    /\ kept = "workflow" /\ ~workflow.pending /\ job.at = "idle"
    /\ outcome # "failed"
    /\ workflow' = [workflow EXCEPT !.watch = TRUE]
    /\ UNCHANGED <<vars, kept, job, txs, outcome, faults>>

\* The watchdog finds no active run, and the latest older than its limit, which is a
\* matter of time only; what it saw may be outdated when it dispatches.
WatchdogLooks ==
    /\ kept = "workflow" /\ ~workflow.pending /\ job.at = "idle"
    /\ workflow' = [workflow EXCEPT !.watch = TRUE]
    /\ UNCHANGED <<vars, kept, job, txs, outcome, faults>>

WatchdogDispatches ==
    /\ workflow.watch
    /\ workflow' = [pending |-> TRUE, watch |-> FALSE]
    /\ UNCHANGED <<vars, kept, job, txs, outcome, faults>>

\* One run at a time (the concurrency group); a newer pending run replaces an older one.
BeginRun ==
    /\ workflow.pending /\ job.at = "idle"
    /\ workflow' = [workflow EXCEPT !.pending = FALSE]
    /\ job' = [Idle EXCEPT !.at = "check"]
    /\ UNCHANGED <<vars, kept, txs, outcome, faults>>

--------------------------------------------------------------------------------
(* One run of the script                                                             *)

Backlog == CurrentEpoch - core.epoch

\* NARA the engine holds and does not account for.
UntrackedDirectReserve ==
    LET reserved == totalLocked + core.totalPendingNaraRewards + core.trackedEmissionReserve
    IN  IF core.balance > reserved THEN core.balance - reserved ELSE 0

\* validateAutomaticPlan.
PlanValid(backlog) == backlog <= MaxBacklog /\ backlog <= BatchSize * MaxBatches

Ends(how) == job' = Idle /\ outcome' = how
GoesOn(next) == job' = next /\ UNCHANGED outcome
OnlyJob == UNCHANGED <<vars, kept, workflow, txs, faults>>

\* The routine's read-only check, a process of its own.
Check ==
    /\ job.at = "check"
    /\ IF PlanValid(Backlog) THEN GoesOn([job EXCEPT !.at = "plan"]) ELSE Ends("failed")
    /\ OnlyJob

\* The state is read again; unaccounted NARA is for an operator to look at.
Plan ==
    /\ job.at = "plan"
    /\ IF PlanValid(Backlog) /\ UntrackedDirectReserve = 0
       THEN GoesOn([job EXCEPT !.at = IF Backlog = 0 THEN "report" ELSE "send",
                               !.backlog = Backlog])
       ELSE Ends("failed")
    /\ OnlyJob

\* The gas estimate reverts when somebody else has settled everything meanwhile.
Send ==
    /\ job.at = "send"
    /\ IF Backlog > 0
       THEN /\ GoesOn([job EXCEPT !.at = "wait"])
            /\ txs' = Append(txs, MinOf(job.backlog, BatchSize))
       ELSE Ends("failed") /\ UNCHANGED txs
    /\ UNCHANGED <<vars, kept, workflow, faults>>

\* The oldest transaction is included; it reverts when there is nothing left to settle.
\* The run waits for the newest, and reads the engine as of that block.
Include ==
    LET mine == job.at = "wait" /\ Len(txs) = 1
    IN  /\ txs # <<>>
        /\ txs' = Tail(txs)
        /\ \/ /\ AdvanceEpochs(Head(txs))
              /\ IF mine
                 THEN GoesOn([at |-> "read", backlog |-> CurrentEpoch - core'.epoch,
                              batches |-> job.batches + 1])
                 ELSE UNCHANGED <<job, outcome>>
           \/ /\ Backlog = 0
              /\ UNCHANGED vars
              /\ IF mine THEN Ends("failed") ELSE UNCHANGED <<job, outcome>>
        /\ UNCHANGED <<kept, workflow, faults>>

\* Another batch, or the end: a backlog that remains is reported, not retried.
NextBatch ==
    /\ job.at = "read"
    /\ IF job.backlog = 0 THEN GoesOn([job EXCEPT !.at = "report"])
       ELSE IF job.batches < MaxBatches THEN GoesOn([job EXCEPT !.at = "send"])
       ELSE Ends("failed")
    /\ OnlyJob

Report ==
    /\ job.at = "report"
    /\ Ends("healthy")
    /\ OnlyJob

\* The job's timeout, silent: a transaction that was dropped is waited for in vain.
TimeOut ==
    /\ job.at = "wait" /\ txs = <<>>
    /\ Ends(outcome)
    /\ OnlyJob

--------------------------------------------------------------------------------
(* Faults: a provider, GitHub or a webhook fails, with an alert or silently.          *)

Fault == faults < MaxFaults /\ faults' = faults + 1

RunFails ==
    /\ job.at # "idle" /\ Fault
    /\ \E how \in {"failed", outcome} : Ends(how)
    /\ UNCHANGED <<vars, kept, workflow, txs>>

LoseTransaction ==
    /\ txs # <<>> /\ Fault
    /\ txs' = Tail(txs)
    /\ UNCHANGED <<vars, kept, workflow, job, outcome>>

--------------------------------------------------------------------------------
JobStep == Check \/ Plan \/ Send \/ NextBatch \/ Report \/ TimeOut

Keeper ==
    \/ Schedule
    \/ WatchdogLooks
    \/ WatchdogDispatches
    \/ BeginRun
    \/ JobStep
    \/ Include
    \/ RunFails
    \/ LoseTransaction

\* While the workflow keeps the ledger its users are quiet, but for a rival's poke,
\* tokens sent to the engine, and a new configuration.
Quiet ==
    \/ Tick
    \/ Poke
    \/ \E a \in Donations : Donate(a)
    \/ \E c \in ProposedConfigs : ProposeConfig(c)
    \/ ExecuteConfig

KeeperNext ==
    \/ Keeper
    \/ /\ IF kept = "anyone" THEN Next ELSE Quiet
       /\ UNCHANGED keeperVars

\* A call that settles up to n epochs goes through.
CanSettle(n) ==
    \E c \in Advanced(n) : c.epoch = MinOf(CurrentEpoch, core.epoch + n)

\* The transaction that is next can be included: it settles what it can, or reverts
\* because nothing is left.
CanInclude == txs # <<>> /\ (Backlog = 0 \/ CanSettle(Head(txs)))

CanPoke == core.epoch < CurrentEpoch /\ CanSettle(MaxJitAdvance)

\* WF(Include), with its enabling condition and what only it does written out: one
\* transaction leaves the queue and none is lost.
IncludeFairness ==
    []<> ~ CanInclude \/ []<><<Len(txs') < Len(txs) /\ faults' = faults>>_txs

\* Anyone may call poke, and in the engine's own terms somebody does: WF(Poke), written
\* out likewise.
PokeFairness == []<> ~ (kept = "anyone" /\ CanPoke) \/ []<><<Poke>>_core

\* Time passes; the watchdog is run every quarter of an hour; GitHub starts what is
\* pending; a process that is not killed takes its next step; the chain includes what
\* it has not lost. While the workflow keeps the ledger, nothing is assumed of GitHub's
\* schedule nor of anybody's poke.
KeeperFairness ==
    /\ WF_now(Tick /\ UNCHANGED keeperVars)
    /\ WF_workflow(WatchdogLooks) /\ WF_workflow(WatchdogDispatches)
    /\ WF_workflow(BeginRun) /\ WF_job(JobStep) /\ IncludeFairness
    /\ PokeFairness

KeeperSpec == KeeperInit /\ [][KeeperNext]_allVars /\ KeeperFairness

--------------------------------------------------------------------------------
(* Properties                                                                        *)

\* The two cases in which a run refuses by design.
NeedsOperator == Backlog > MaxBacklog \/ UntrackedDirectReserve > 0

\* A backlog of epochs is settled, by whatever run or poke comes through, unless it is a
\* case for the operator, and then an alert says so: no state of the reserve, of the
\* schedules or of the configuration makes the epoch step revert for ever, and no mix of
\* lost events, races of runs and lost transactions stops the keeper for good.
BacklogClears ==
    (core.epoch < CurrentEpoch)
        ~> (core.epoch = CurrentEpoch \/ (NeedsOperator /\ outcome = "failed"))

\* A staged configuration comes into force or is cancelled, and so never blocks the next
\* proposal for good, with the same exception. (MaxTime is where the model's clock ends.)
StagedConfigResolves ==
    (core.stagedConfigEpoch \in 1 .. MaxTime \div EpochLength)
        ~> (core.stagedConfigEpoch = 0 \/ (NeedsOperator /\ outcome = "failed"))
================================================================================
