----------------------------- MODULE Supervisor -----------------------------
(***************************************************************************)
(* The service supervisor (crates/i2pr-runtime/src/supervisor.rs): one     *)
(* supervising task starts the services of a validated graph in            *)
(* dependency-first order, waits for each one's readiness, then reacts to  *)
(* managers that end, and finally joins or aborts them.  One manager task  *)
(* per service runs attempts, restarts with a bounded budget, and ends     *)
(* with a completion.                                                      *)
(*                                                                         *)
(* Time is abstracted to timeouts that may fire; failures of every kind    *)
(* (typed failure, panic, timeout, unexpected exit, a failed child of a    *)
(* FailParent scope) are one completion, "failed".  A service reports its  *)
(* own health only after it signalled readiness.  Managers catch panics,   *)
(* so a JoinError only stems from an abort.                                *)
(***************************************************************************)
EXTENDS Integers, Sequences

CONSTANTS
    Services, NoService,
    Order,         \* ServiceGraph.startup_order
    Deps,          \* service -> its declared dependencies
    Class,         \* service -> ServiceClassification
    StartupOptional,   \* services with StartupRequirement::Optional
    ExhaustionShutdown,   \* restartable services with RestartExhaustion::Shutdown
    RestartAttempts, \* RestartPolicy.max_attempts
    Resets         \* services whose policy has a reset interval

Classes == {"essential", "restartable", "degradable", "optional"}

\* What ServiceGraphBuilder::build has validated.
ASSUME GraphAssumption ==
    /\ NoService \notin Services
    /\ Order \in Seq(Services) /\ {Order[k] : k \in 1 .. Len(Order)} = Services
    /\ \A j, k \in 1 .. Len(Order) : Order[j] = Order[k] => j = k
    /\ Deps \in [Services -> SUBSET Services]
    /\ \A k \in 1 .. Len(Order) : Deps[Order[k]] \subseteq {Order[j] : j \in 1 .. k - 1}
    /\ Class \in [Services -> Classes]
    /\ \A s \in StartupOptional : Class[s] # "essential"
    /\ \A s \in ExhaustionShutdown : Class[s] = "restartable"
    /\ RestartAttempts \in Nat \ {0}
    /\ StartupOptional \subseteq Services /\ ExhaustionShutdown \subseteq Services /\ Resets \subseteq Services

VARIABLES
    mgr,          \* phase of each manager task
    restarts,     \* its restart_count
    out,          \* the ManagerOutput of a finished manager
    readySignalled,    \* value of its startup watch
    childCancelled,    \* its token, when cancelled by itself
    root,         \* the root token
    health,       \* SharedHealth
    completions,  \* what the report says of each service
    degraded,     \* degraded_at_startup
    pc, idx,      \* the supervisor: where it is, and which service it starts
    culprit       \* service named by the SupervisorError

serviceVars == <<mgr, restarts, out, readySignalled, childCancelled, root, health, completions, degraded, pc, idx, culprit>>

Completions == {"none", "requested", "failed", "exhausted", "timeout", "forced"}
Healths == {"registered", "starting", "ready", "degraded", "stopping", "failed"}

\* unspawned; an attempt before, while publishing and after readiness; the delay
\* after an attempt, the last of them after a sustained one; output queued; joined
Phases == {"unspawned", "starting", "announced", "ready", "backoff", "recovering", "finished", "joined"}

TypeOK ==
    /\ mgr \in [Services -> Phases]
    /\ restarts \in [Services -> 0 .. RestartAttempts]
    /\ out \in [Services -> Completions]
    /\ readySignalled \in [Services -> BOOLEAN]
    /\ childCancelled \in [Services -> BOOLEAN]
    /\ root \in BOOLEAN
    /\ health \in [Services -> Healths]
    /\ completions \in [Services -> Completions]
    /\ degraded \subseteq Services
    /\ pc \in {"starting", "waiting", "running", "stopping", "aborting", "done"}
    /\ idx \in 1 .. Len(Order) + 1
    /\ culprit \in Services \cup {NoService}

SupervisorInit ==
    /\ mgr = [s \in Services |-> "unspawned"]
    /\ restarts = [s \in Services |-> 0]
    /\ out = [s \in Services |-> "none"]
    /\ readySignalled = [s \in Services |-> FALSE]
    /\ childCancelled = [s \in Services |-> FALSE]
    /\ root = FALSE
    /\ health = [s \in Services |-> "registered"]
    /\ completions = [s \in Services |-> "none"]
    /\ degraded = {}
    /\ pc = IF Order = <<>> THEN "running" ELSE "starting"
    /\ idx = 1
    /\ culprit = NoService

Cur == Order[idx]
Token(s) == root \/ childCancelled[s]
Active == {s \in Services : mgr[s] \notin {"unspawned", "joined"}}
IsFailure(c) == c # "requested"

-----------------------------------------------------------------------------
(* Managers: run_manager and run_attempt.                                  *)

supervisorVars == <<childCancelled, root, completions, degraded, pc, idx, culprit>>

\* The service signals readiness; the attempt announces it ...
Announce(s) ==
    /\ mgr[s] = "starting"
    /\ mgr' = [mgr EXCEPT ![s] = "announced"]
    /\ readySignalled' = [readySignalled EXCEPT ![s] = TRUE]
    /\ UNCHANGED <<restarts, out, health, supervisorVars>>

\* ... and then publishes it.
PublishReady(s) ==
    /\ mgr[s] = "announced"
    /\ mgr' = [mgr EXCEPT ![s] = "ready"]
    /\ health' = [health EXCEPT ![s] = "ready"]
    /\ UNCHANGED <<restarts, out, readySignalled, supervisorVars>>

\* HealthReporter, used by the running service.
Report(s, h) ==
    /\ mgr[s] = "ready"
    /\ h \in {"ready", "degraded"}
    /\ health' = [health EXCEPT ![s] = h]
    /\ UNCHANGED <<mgr, restarts, out, readySignalled, supervisorVars>>

\* The attempt ends.  late: readiness was signalled but not yet seen.
EndAttempt(s, late) ==
    /\ mgr[s] \in {"starting", "ready"}
    /\ late => mgr[s] = "starting"
    /\ readySignalled' = [readySignalled EXCEPT ![s] = @ \/ late]

\* classify_service_result: a clean exit counts as requested under a cancelled
\* token only.
Stop(s) ==
    /\ Token(s)
    /\ \E late \in BOOLEAN : EndAttempt(s, late)
    /\ mgr' = [mgr EXCEPT ![s] = "finished"]
    /\ out' = [out EXCEPT ![s] = "requested"]
    /\ health' = [health EXCEPT ![s] = "stopping"]
    /\ UNCHANGED <<restarts, supervisorVars>>

\* An attempt fails in a service that is never restarted.  A DegradeParent scope
\* may leave the health degraded.
Fail(s) ==
    /\ Class[s] # "restartable"
    /\ \E late \in BOOLEAN : EndAttempt(s, late) /\ \E h \in {IF late THEN "ready" ELSE health[s], "degraded"} :
                                 health' = [health EXCEPT ![s] = h]
    /\ mgr' = [mgr EXCEPT ![s] = "finished"]
    /\ out' = [out EXCEPT ![s] = "failed"]
    /\ UNCHANGED <<restarts, supervisorVars>>

\* An attempt of a restartable service fails within the budget.
Backoff(s) ==
    /\ Class[s] = "restartable"
    /\ restarts[s] < RestartAttempts
    /\ \E late \in BOOLEAN : EndAttempt(s, late) /\ health' = [health EXCEPT ![s] = IF late THEN "ready" ELSE @]
    /\ restarts' = [restarts EXCEPT ![s] = @ + 1]
    /\ \E sustained \in BOOLEAN :
          /\ sustained => s \in Resets /\ mgr[s] = "ready"
          /\ mgr' = [mgr EXCEPT ![s] = IF sustained THEN "recovering" ELSE "backoff"]
    /\ UNCHANGED <<out, supervisorVars>>

\* ... or with the budget spent.
Exhaust(s) ==
    /\ Class[s] = "restartable"
    /\ restarts[s] >= RestartAttempts
    /\ \E late \in BOOLEAN : EndAttempt(s, late)
    /\ mgr' = [mgr EXCEPT ![s] = "finished"]
    /\ out' = [out EXCEPT ![s] = "exhausted"]
    /\ health' = [health EXCEPT ![s] = IF s \in ExhaustionShutdown THEN "failed" ELSE "degraded"]
    /\ UNCHANGED <<restarts, supervisorVars>>

\* The delay passes.
Restart(s) ==
    /\ mgr[s] \in {"backoff", "recovering"}
    /\ mgr' = [mgr EXCEPT ![s] = "starting"]
    /\ health' = [health EXCEPT ![s] = "starting"]
    /\ restarts' = [restarts EXCEPT ![s] = IF mgr[s] = "recovering" THEN 0 ELSE @]
    /\ UNCHANGED <<out, readySignalled, supervisorVars>>

\* Cancelled during the delay.
StopInBackoff(s) ==
    /\ mgr[s] \in {"backoff", "recovering"}
    /\ Token(s)
    /\ mgr' = [mgr EXCEPT ![s] = "finished"]
    /\ out' = [out EXCEPT ![s] = "requested"]
    /\ health' = [health EXCEPT ![s] = "stopping"]
    /\ UNCHANGED <<restarts, readySignalled, supervisorVars>>

Manager(s) ==
    \/ Announce(s) \/ PublishReady(s)
    \/ \E h \in Healths : Report(s, h)
    \/ Stop(s) \/ Fail(s) \/ Backoff(s) \/ Exhaust(s) \/ Restart(s) \/ StopInBackoff(s)

-----------------------------------------------------------------------------
(* Recording completions.                                                  *)

\* record_completion
Recorded(h, s, c) == [h EXCEPT ![s] = IF IsFailure(c) THEN "failed" ELSE "stopping"]

\* record_startup_completion
RecordedStartup(h, s, c) ==
    IF IsFailure(c) /\ Class[s] = "degradable" THEN [h EXCEPT ![s] = "degraded"] ELSE Recorded(h, s, c)

\* degrades_startup_failure
Degrades(s, c) ==
    \/ s \in StartupOptional
    \/ Class[s] = "restartable" /\ c = "exhausted" /\ s \notin ExhaustionShutdown

Advance ==
    /\ idx' = idx + 1
    /\ pc' = IF idx = Len(Order) THEN "running" ELSE "starting"

\* shutdown() up to its join loop
BeginShutdown(named) ==
    /\ pc' = "stopping"
    /\ root' = TRUE
    /\ culprit' = named
    /\ UNCHANGED <<idx, degraded>>

Join(s) ==
    /\ mgr[s] = "finished"
    /\ mgr' = [mgr EXCEPT ![s] = "joined"]

managerVars == <<restarts, out, readySignalled>>

-----------------------------------------------------------------------------
(* Startup: run() and wait_for_initial_ready.                              *)

SpawnNext ==
    /\ pc = "starting"
    /\ mgr' = [mgr EXCEPT ![Cur] = "starting"]
    /\ health' = [health EXCEPT ![Cur] = "starting"]
    /\ pc' = "waiting"
    /\ UNCHANGED <<managerVars, childCancelled, root, completions, degraded, idx, culprit>>

\* The startup of the current service fails with c, after the maps h and m.
StartupError(c, h, m) ==
    /\ completions' = [m EXCEPT ![Cur] = c]
    /\ IF Degrades(Cur, c)
       THEN /\ health' = [h EXCEPT ![Cur] = "degraded"]
            /\ degraded' = degraded \cup {Cur}
            /\ Advance
            /\ UNCHANGED <<root, culprit>>
       ELSE /\ health' = Recorded(h, Cur, c)
            /\ BeginShutdown(Cur)

WaitReady ==
    /\ pc = "waiting"
    /\ readySignalled[Cur]
    /\ Advance
    /\ UNCHANGED <<mgr, managerVars, childCancelled, root, health, completions, degraded, culprit>>

\* The current service's manager ends before its readiness was seen.
WaitOwnOutput ==
    /\ pc = "waiting"
    /\ Join(Cur)
    /\ IF health[Cur] = "ready" /\ Class[Cur] \in {"degradable", "optional"}
       THEN /\ health' = RecordedStartup(health, Cur, out[Cur])
            /\ completions' = [completions EXCEPT ![Cur] = out[Cur]]
            /\ Advance
            /\ UNCHANGED <<root, degraded, culprit>>
       ELSE StartupError(out[Cur], health, completions)
    /\ UNCHANGED <<managerVars, childCancelled>>

\* A peer that merely ended is taken for readiness of the current service.
WaitPeer_CountsAsReady(s) ==
    /\ pc = "waiting"
    /\ s # Cur /\ Join(s)
    /\ health' = RecordedStartup(health, s, out[s])
    /\ completions' = [completions EXCEPT ![s] = out[s]]
    /\ Advance
    /\ UNCHANGED <<managerVars, childCancelled, root, degraded, culprit>>

\* observe_startup_peer
WaitPeer(s) ==
    LET h == RecordedStartup(health, s, out[s])
        m == [completions EXCEPT ![s] = out[s]]
    IN  /\ pc = "waiting"
        /\ s # Cur /\ Join(s)
        /\ IF s \in degraded THEN UNCHANGED <<health, completions, pc, idx, root, degraded, culprit>>
           ELSE IF Class[s] = "essential" /\ IsFailure(out[s]) THEN StartupError(out[s], h, m)
           ELSE IF s \in Deps[Cur] THEN StartupError("failed", h, m)
           ELSE health' = h /\ completions' = m /\ UNCHANGED <<pc, idx, root, degraded, culprit>>
        /\ UNCHANGED <<managerVars, childCancelled>>

\* The service's startup_timeout passes.
WaitTimeout ==
    /\ pc = "waiting"
    /\ StartupError("timeout", health, completions)
    /\ UNCHANGED <<mgr, managerVars, childCancelled>>

-----------------------------------------------------------------------------
(* Steady state: the loop of run().                                        *)

\* Nothing is left to supervise.
RunEmpty ==
    /\ pc = "running"
    /\ Active = {}
    /\ BeginShutdown(NoService)
    /\ UNCHANGED <<mgr, managerVars, childCancelled, health, completions>>

RunCancelled ==
    /\ pc = "running"
    /\ root
    /\ BeginShutdown(NoService)
    /\ UNCHANGED <<mgr, managerVars, childCancelled, health, completions>>

\* mark_dependents_degraded
Dependents(s) == {t \in Active \ {s} : s \in Deps[t]}

\* React to the failure of a service that is not restarted or not essential.
Tolerate(s, h) ==
    /\ health' = [t \in Services |-> CASE t = s -> h
                                       [] t \in Dependents(s) -> "degraded"
                                       [] OTHER -> health[t]]
    /\ completions' = [completions EXCEPT ![s] = out[s]]
    /\ childCancelled' = [t \in Services |-> childCancelled[t] \/ t \in Dependents(s)]
    /\ UNCHANGED <<pc, idx, root, degraded, culprit>>

\* What a manager's completion means by the service's classification.
React(s) ==
    \/ /\ ~IsFailure(out[s]) \/ root
       /\ health' = Recorded(health, s, out[s])
       /\ completions' = [completions EXCEPT ![s] = out[s]]
       /\ UNCHANGED <<pc, idx, root, degraded, culprit, childCancelled>>
    \/ /\ IsFailure(out[s]) /\ ~root /\ Class[s] = "essential"
       /\ health' = [health EXCEPT ![s] = "failed"]
       /\ BeginShutdown(s)
       /\ UNCHANGED <<completions, childCancelled>>
    \/ /\ IsFailure(out[s]) /\ ~root /\ Class[s] = "restartable" /\ s \notin ExhaustionShutdown
       /\ health' = [health EXCEPT ![s] = "degraded"]
       /\ completions' = [completions EXCEPT ![s] = out[s]]
       /\ UNCHANGED <<pc, idx, root, degraded, culprit, childCancelled>>
    \/ /\ IsFailure(out[s]) /\ ~root /\ s \in ExhaustionShutdown
       /\ BeginShutdown(s)
       /\ UNCHANGED <<health, completions, childCancelled>>
    \/ IsFailure(out[s]) /\ ~root /\ Class[s] = "degradable" /\ Tolerate(s, "degraded")
    \/ IsFailure(out[s]) /\ ~root /\ Class[s] = "optional" /\ Tolerate(s, "failed")

\* A failure that startup already dealt with is reacted to again.
RunJoin_Again(s) ==
    /\ pc = "running"
    /\ Join(s)
    /\ React(s)
    /\ UNCHANGED managerVars

\* A service that degraded at startup has had its disposition already.
RunJoin(s) ==
    /\ pc = "running"
    /\ Join(s)
    /\ IF s \in degraded
       THEN /\ degraded' = degraded \ {s}
            /\ UNCHANGED <<health, completions, pc, idx, root, culprit, childCancelled>>
       ELSE React(s)
    /\ UNCHANGED managerVars

\* SupervisorHandle::shutdown
RequestShutdown ==
    /\ ~root
    /\ root' = TRUE
    /\ UNCHANGED <<mgr, managerVars, childCancelled, health, completions, degraded, pc, idx, culprit>>

-----------------------------------------------------------------------------
(* shutdown()                                                              *)

StopJoin(s) ==
    /\ pc = "stopping"
    /\ Join(s)
    /\ health' = Recorded(health, s, out[s])
    /\ completions' = [completions EXCEPT ![s] = out[s]]
    /\ UNCHANGED <<managerVars, childCancelled, root, degraded, pc, idx, culprit>>

StopDone ==
    /\ pc = "stopping"
    /\ Active = {}
    /\ pc' = "done"
    /\ UNCHANGED <<mgr, managerVars, childCancelled, root, health, completions, degraded, idx, culprit>>

\* The deadline passes, the aborted services are left out of the report.
StopDeadline_Unreported ==
    /\ pc = "stopping"
    /\ Active # {}
    /\ pc' = "aborting"
    /\ health' = [s \in Services |-> IF s \in Active THEN "stopping" ELSE health[s]]
    /\ UNCHANGED <<mgr, managerVars, childCancelled, root, completions, degraded, idx, culprit>>

\* The deadline waits for services that do not stop.
StopDeadline_Waits ==
    /\ pc = "stopping"
    /\ Active # {} /\ \A s \in Active : mgr[s] = "finished"
    /\ pc' = "aborting"
    /\ health' = [s \in Services |-> IF s \in Active THEN "stopping" ELSE health[s]]
    /\ completions' = [s \in Services |-> IF s \in Active THEN "forced" ELSE completions[s]]
    /\ UNCHANGED <<mgr, managerVars, childCancelled, root, degraded, idx, culprit>>

\* The deadline passes: the remaining managers are told to abort ...
StopDeadline ==
    /\ pc = "stopping"
    /\ Active # {}
    /\ pc' = "aborting"
    /\ health' = [s \in Services |-> IF s \in Active THEN "stopping" ELSE health[s]]
    /\ completions' = [s \in Services |-> IF s \in Active THEN "forced" ELSE completions[s]]
    /\ UNCHANGED <<mgr, managerVars, childCancelled, root, degraded, idx, culprit>>

\* ... and joined with their children.  Until then a manager may take a step.  The
\* join of an aborted task ends when that task next reaches an await: a service that
\* never yields its thread would hold it up, and is not modelled.
DrainAborted ==
    /\ pc = "aborting"
    /\ mgr' = [s \in Services |-> IF s \in Active THEN "joined" ELSE mgr[s]]
    /\ pc' = "done"
    /\ UNCHANGED <<managerVars, childCancelled, root, health, completions, degraded, idx, culprit>>

Supervise ==
    \/ SpawnNext \/ WaitReady \/ WaitOwnOutput \/ WaitTimeout
    \/ \E s \in Services : WaitPeer(s) \/ RunJoin(s) \/ StopJoin(s)
    \/ RunEmpty \/ RunCancelled
    \/ StopDone \/ StopDeadline \/ DrainAborted

SupervisorNext == Supervise \/ RequestShutdown \/ \E s \in Services : Manager(s)

\* The supervising task is polled, its timers fire and an aborted task is gone once
\* it reaches an await; services may do nothing.
SupervisorSpec == SupervisorInit /\ [][SupervisorNext]_serviceVars /\ WF_serviceVars(Supervise)

-----------------------------------------------------------------------------
(* Properties.                                                             *)

\* The readiness gate: startup passes a service only after it signalled
\* readiness or was degraded by the startup policy, so a service is spawned when
\* all its dependencies have been ready or are degraded at startup.
ReadinessGate ==
    /\ TypeOK
    /\ \A k \in 1 .. Len(Order) :
        k < idx => \/ readySignalled[Order[k]]
                   \/ completions[Order[k]] # "none" /\ Degrades(Order[k], completions[Order[k]])

\* A dependent is cancelled on account of a dependency only when that dependency
\* failed after startup; one that degraded at startup never takes its dependents
\* with it.
StartupDegradationSparesDependents ==
    [][\A s \in Services : ~childCancelled[s] /\ childCancelled'[s] =>
          \E d \in Deps[s] \ degraded : mgr[d] = "finished" /\ mgr'[d] = "joined" /\ IsFailure(out[d])]_serviceVars

\* The report accounts for every spawned service (but the one the error itself
\* names), and no manager outlives run().
ReportComplete ==
    pc = "done" => /\ Active = {}
                   /\ \A s \in Services : mgr[s] = "joined" => completions[s] # "none" \/ s = culprit

\* Failure of an essential service cancels the router, at startup and after.
EssentialFailureIsFatal ==
    \A s \in Services :
        Class[s] = "essential" /\ mgr[s] = "joined" /\ IsFailure(out[s]) => root

\* Whatever the services do, startup comes to a decision and a requested shutdown
\* ends run(), also when a service hangs at an await or ignores its cancellation (one
\* that blocks its thread is outside: abort_all takes effect at an await).
RunDecided == <>(pc \in {"running", "done"}) /\ (root ~> pc = "done")

\* The claim that RestartExhaustion::Shutdown cancels the graph.
ExhaustionIsFatal ==
    \A s \in ExhaustionShutdown : mgr[s] = "joined" /\ out[s] = "exhausted" => root

\* The claim that a degradable service's failure is visible as degradation: it
\* is not reported ready once its manager is gone.
DegradableFailureVisible ==
    \A s \in Services :
        Class[s] = "degradable" /\ mgr[s] = "joined" /\ IsFailure(out[s]) /\ ~root => health[s] # "ready"

=============================================================================
