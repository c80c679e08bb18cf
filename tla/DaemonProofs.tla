---------------------------- MODULE DaemonProofs ----------------------------
(*****************************************************************************)
(* Proofs about two parts of the daemon.                                     *)
(* Supervisor, for every validated service graph: startup passes a service   *)
(* only when it was ready or is degraded by policy, a service degraded at    *)
(* startup takes no dependent with it, and the report accounts for every     *)
(* service that was spawned.                                                 *)
(* LeaseLookups, for any number of services, any targets, replies and        *)
(* ceilings, and whether or not other holders of the coordinator step in     *)
(* between: lookups and publications are owned, bounded and cached exactly.  *)
(*****************************************************************************)
EXTENDS Supervisor, LeaseLookups, FiniteSetTheorems, TLAPS

\* The time the solvers have for a leaf; one that is interrupted is tried again.
USE SMTT(30), Z3T(30), ZenonT(30), SMTT(40)

Over == {"stopping", "aborting", "done"}

\* What a manager has said is consistent with where it is.
Told(s) ==
    /\ mgr[s] = "finished" => out[s] # "none"
    /\ out[s] = "exhausted" => Class[s] = "restartable"
    /\ mgr[s] \in {"announced", "ready"} \/ health[s] = "ready" => readySignalled[s]

\* The startup policy has dealt with s for good: its manager is gone, or any
\* later completion of it is tolerated as well.
Settled(s) ==
    /\ completions[s] # "none"
    /\ s \in StartupOptional \/ (mgr[s] = "joined" /\ Degrades(s, completions[s]))

Passed == \A k \in 1 .. Len(Order) : k < idx => readySignalled[Order[k]] \/ Settled(Order[k])

\* The services without a completion are at work, or the error names them.
Accounted ==
    /\ \A s \in degraded : completions[s] # "none"
    /\ \A s \in Services : mgr[s] = "joined" => completions[s] # "none" \/ (s = culprit /\ pc \in Over)
    /\ pc = "aborting" => \A s \in Active : completions[s] # "none"
    /\ pc = "done" => Active = {}

SupInv ==
    /\ TypeOK
    /\ pc \in {"starting", "waiting"} => idx <= Len(Order)
    /\ \A s \in Services : Told(s)
    /\ Passed
    /\ Accounted

-----------------------------------------------------------------------------
(* The manager of one service. *)

\* A step of the manager of s.
Moves(s) ==
    /\ mgr' \in [Services -> Phases] /\ out' \in [Services -> Completions]
    /\ readySignalled' \in [Services -> BOOLEAN] /\ health' \in [Services -> Healths]
    /\ restarts' \in [Services -> 0 .. RestartAttempts]
    /\ \A t \in Services \ {s} : /\ mgr'[t] = mgr[t] /\ out'[t] = out[t]
                                 /\ readySignalled'[t] = readySignalled[t] /\ health'[t] = health[t]
    /\ mgr[s] \notin {"unspawned", "joined"} /\ mgr'[s] \notin {"unspawned", "joined"}
    /\ readySignalled[s] => readySignalled'[s]
    /\ Told(s)'
    /\ UNCHANGED supervisorVars

\* Each step of run_manager and run_attempt is of that form.
LEMMA ManagerMoves ==
    ASSUME TypeOK, NEW s \in Services, Told(s), Manager(s)
    PROVE  Moves(s)
  <1> USE DEF TypeOK, Told, Moves, Phases, Completions, Healths
  <1>0. RestartAttempts \in Nat  BY GraphAssumption
  <1>1. CASE Announce(s)  BY <1>1 DEF Announce
  <1>2. CASE PublishReady(s)  BY <1>2 DEF PublishReady
  <1>3. ASSUME NEW h \in Healths, Report(s, h) PROVE Moves(s)  BY <1>3 DEF Report
  <1>4. CASE Stop(s)  BY <1>4 DEF Stop, EndAttempt
  <1>5. CASE Fail(s)
    <2>1. PICK late \in BOOLEAN :
              EndAttempt(s, late) /\ \E h \in {IF late THEN "ready" ELSE health[s], "degraded"} :
                                         health' = [health EXCEPT ![s] = h]
      BY <1>5, ZenonT(60) DEF Fail
    <2>2. PICK h \in {IF late THEN "ready" ELSE health[s], "degraded"} :
              health' = [health EXCEPT ![s] = h]
      BY <2>1, ZenonT(60)
    <2>3. h \in Healths /\ (h = "ready" => late \/ health[s] = "ready")  BY ZenonT(60)
    <2> QED  BY <1>5, <2>1, <2>2, <2>3 DEF Fail, EndAttempt
  <1>6. CASE Backoff(s)
    <2>1. PICK late \in BOOLEAN :
              /\ EndAttempt(s, late)
              /\ health' = [health EXCEPT ![s] = IF late THEN "ready" ELSE health[s]]
      BY <1>6, ZenonT(60) DEF Backoff
    <2>2. restarts' \in [Services -> 0 .. RestartAttempts]
      <3>1. restarts[s] + 1 \in 0 .. RestartAttempts /\ restarts' = [restarts EXCEPT ![s] = restarts[s] + 1]
        BY <1>0, <1>6 DEF Backoff
      <3> QED  BY <3>1
    <2>3. mgr' = [mgr EXCEPT ![s] = "recovering"] \/ mgr' = [mgr EXCEPT ![s] = "backoff"]
      BY ONLY <1>6, ZenonT(60) DEF Backoff
    <2> QED  BY <1>6, <2>1, <2>2, <2>3 DEF Backoff, EndAttempt
  <1>7. CASE Exhaust(s)
    <2>1. health' = [health EXCEPT ![s] = "failed"] \/ health' = [health EXCEPT ![s] = "degraded"]
      BY ONLY <1>7, ZenonT(60) DEF Exhaust
    <2> QED  BY <1>7, <2>1 DEF Exhaust, EndAttempt
  <1>8. CASE Restart(s)
    <2>1. restarts' \in [Services -> 0 .. RestartAttempts]  BY <1>0, <1>8 DEF Restart
    <2> QED  BY <1>8, <2>1 DEF Restart
  <1>9. CASE StopInBackoff(s)  BY <1>9 DEF StopInBackoff
  <1> QED  BY <1>1, <1>2, <1>3, <1>4, <1>5, <1>6, <1>7, <1>8, <1>9, ZenonT(60) DEF Manager

\* Managers keep the invariant.
LEMMA ManagerKeeps ==
    ASSUME SupInv, NEW s \in Services, Manager(s)
    PROVE  SupInv'
  <1>1. Moves(s)  BY ManagerMoves DEF SupInv
  <1>2. UNCHANGED <<childCancelled, root, completions, degraded, pc, idx, culprit>>
    BY <1>1 DEF Moves, supervisorVars
  <1>3. TypeOK'  BY <1>1, <1>2 DEF SupInv, TypeOK, Moves
  <1>4. \A t \in Services : Told(t)'  BY <1>1, ZenonT(60) DEF SupInv, Told, Moves
  <1>5. Passed'
    <2>1. \A k \in 1 .. Len(Order) : Order[k] \in Services  BY GraphAssumption
    <2>2. \A t \in Services : readySignalled[t] => readySignalled'[t]  BY <1>1 DEF Moves
    <2>3. \A t \in Services : Settled(t) => Settled(t)'  BY <1>1, <1>2 DEF Settled, Degrades, Moves
    <2> QED  BY <1>2, <2>1, <2>2, <2>3 DEF SupInv, Passed
  <1>6. Active' = Active  BY <1>1 DEF Active, Moves
  <1>7. Accounted'
    <2>1. \A t \in Services : mgr'[t] = "joined" => mgr[t] = "joined"  BY <1>1 DEF Moves
    <2> QED  BY <1>2, <1>6, <2>1 DEF SupInv, Accounted
  <1> QED  BY <1>2, <1>3, <1>4, <1>5, <1>7 DEF SupInv

-----------------------------------------------------------------------------
(* The supervising task. *)

\* A step of the supervising task: whom it joins it accounts for, and whom it
\* passes was ready or is settled.
Steps ==
    /\ TypeOK' /\ (pc' \in {"starting", "waiting"} => idx' <= Len(Order))
    /\ out' = out /\ readySignalled' = readySignalled
    /\ \A t \in Services :
          /\ \/ mgr'[t] = mgr[t]
             \/ mgr'[t] = "starting"
             \/ mgr'[t] = "joined" /\ (completions'[t] # "none" \/ (t = culprit' /\ pc' \in Over))
          /\ health'[t] = "ready" => health[t] = "ready"
          /\ completions[t] # "none" => completions'[t] # "none"
          /\ (\E k \in 1 .. Len(Order) : k < idx /\ t = Order[k]) /\ mgr[t] = "joined" =>
                completions'[t] = completions[t] /\ mgr'[t] = "joined"
    /\ \A k \in 1 .. Len(Order) :
          k < idx' => k < idx \/ readySignalled[Order[k]] \/ Settled(Order[k])'
    /\ \A t \in degraded' : t \in degraded \/ completions'[t] # "none"
    /\ pc \in Over => pc' \in Over /\ culprit' = culprit
    /\ pc' = "aborting" => \A t \in Active' : completions'[t] # "none"
    /\ pc' = "done" => Active' = {}

\* Such a step keeps the invariant.
LEMMA StepsKeep ==
    ASSUME SupInv, Steps
    PROVE  SupInv'
  <1>1. \A t \in Services : Told(t)'  BY DEF SupInv, Steps, Told
  <1>2. Passed'
    <2> SUFFICES ASSUME NEW k \in 1 .. Len(Order), k < idx, ~readySignalled[Order[k]]
                 PROVE  Settled(Order[k])'
      BY DEF Passed, Steps
    <2>1. Order[k] \in Services  BY GraphAssumption
    <2>2. Settled(Order[k])  BY DEF SupInv, Passed
    <2> QED  BY <2>1, <2>2 DEF Settled, Degrades, Steps
  <1>3. Accounted'
    <2>1. degraded \subseteq Services /\ degraded' \subseteq Services  BY DEF SupInv, Steps, TypeOK
    <2>2. \A t \in degraded' : completions'[t] # "none"  BY <2>1 DEF SupInv, Accounted, Steps
    <2>3. \A t \in Services : mgr'[t] = "joined" =>
              completions'[t] # "none" \/ (t = culprit' /\ pc' \in Over)
      BY DEF SupInv, Accounted, Steps
    <2> QED  BY <2>2, <2>3 DEF Accounted, Steps
  <1> QED  BY <1>1, <1>2, <1>3 DEF SupInv, Steps

\* The services that startup has passed come before the current one.
LEMMA Current ==
    ASSUME SupInv, pc \in {"starting", "waiting"}
    PROVE  /\ idx \in 1 .. Len(Order) /\ Cur \in Services
           /\ ~\E k \in 1 .. Len(Order) : k < idx /\ Cur = Order[k]
  <1>1. idx \in 1 .. Len(Order)  BY GraphAssumption DEF SupInv, TypeOK
  <1>2. Cur \in Services  BY <1>1, GraphAssumption DEF Cur
  <1>3. \A k \in 1 .. Len(Order) : k < idx => Cur # Order[k]
    <2> SUFFICES ASSUME NEW k \in 1 .. Len(Order), k < idx, Order[idx] = Order[k] PROVE FALSE
      BY DEF Cur
    <2>1. idx = k  BY <1>1, GraphAssumption
    <2> QED  BY <1>1, <2>1
  <1> QED  BY <1>1, <1>2, <1>3

\* A startup that moves on to the next service.
LEMMA AdvanceIs ==
    ASSUME SupInv, pc = "waiting", Advance
    PROVE  /\ idx' = idx + 1 /\ idx' \in 1 .. Len(Order) + 1
           /\ pc' \in {"running", "starting"} /\ (pc' = "starting" => idx' <= Len(Order))
           /\ \A k \in 1 .. Len(Order) : k < idx' => k < idx \/ Order[k] = Cur
  <1>1. idx \in 1 .. Len(Order)  BY Current
  <1>2. idx \in Int /\ Len(Order) \in Nat  BY <1>1, GraphAssumption
  <1>3. idx' = idx + 1 /\ pc' = IF idx = Len(Order) THEN "running" ELSE "starting"  BY DEF Advance
  <1>4. \A k \in 1 .. Len(Order) : k < idx' => k < idx \/ k = idx  BY <1>2, <1>3
  <1> QED  BY <1>1, <1>2, <1>3, <1>4 DEF Cur

\* An error of the current service's startup, after peers may have been recorded.
LEMMA StartupErrorSteps ==
    ASSUME SupInv, pc = "waiting",
           NEW c \in Completions \ {"none"}, NEW h \in [Services -> Healths],
           NEW m \in [Services -> Completions],
           StartupError(c, h, m), UNCHANGED <<managerVars, childCancelled>>,
           mgr' \in [Services -> Phases],
           \A t \in Services : h[t] = "ready" => health[t] = "ready",
           \A t \in Services : m[t] = completions[t] \/ (m[t] # "none" /\ mgr[t] = "finished"),
           \A t \in Services : \/ mgr'[t] = mgr[t]
                               \/ mgr[t] = "finished" /\ mgr'[t] = "joined" /\ (m[t] # "none" \/ t = Cur),
           Degrades(Cur, c) => Cur \in StartupOptional \/ mgr'[Cur] = "joined"
    PROVE  Steps
  <1>1. Cur \in Services /\ ~\E k \in 1 .. Len(Order) : k < idx /\ Cur = Order[k]  BY Current, ZenonT(60)
  <1>2. UNCHANGED <<restarts, out, readySignalled, childCancelled>>  BY ZenonT(60) DEF managerVars
  <1>3. completions' = [m EXCEPT ![Cur] = c]  BY ZenonT(60) DEF StartupError
  <1>4. /\ completions' \in [Services -> Completions] /\ completions'[Cur] # "none"
        /\ \A t \in Services \ {Cur} : completions'[t] = m[t]
    BY <1>1, <1>3, ZenonT(60)
  <1>5. /\ health' \in [Services -> Healths] /\ health'[Cur] # "ready"
        /\ \A t \in Services \ {Cur} : health'[t] = h[t]
    <2>1. health' = [h EXCEPT ![Cur] = "degraded"] \/ health' = [h EXCEPT ![Cur] = "failed"]
          \/ health' = [h EXCEPT ![Cur] = "stopping"]
      BY ZenonT(60) DEF StartupError, Recorded
    <2> QED  BY <1>1, <2>1 DEF Healths
  <1>6. /\ idx' \in 1 .. Len(Order) + 1 /\ pc' \in {"running", "starting", "stopping"}
        /\ pc' = "starting" => idx' <= Len(Order)
        /\ \A k \in 1 .. Len(Order) : k < idx' => k < idx \/ (Order[k] = Cur /\ Degrades(Cur, c))
        /\ root' \in BOOLEAN /\ culprit' \in Services \cup {NoService}
        /\ degraded' \subseteq degraded \cup {Cur}
    <2>1. CASE Degrades(Cur, c)
      <3>1. Advance /\ UNCHANGED <<root, culprit>> /\ degraded' = degraded \cup {Cur}
        BY <2>1 DEF StartupError
      <3>2. root \in BOOLEAN /\ culprit \in Services \cup {NoService}  BY ZenonT(60) DEF SupInv, TypeOK
      <3> QED  BY <2>1, <3>1, <3>2, AdvanceIs, ZenonT(60)
    <2>2. CASE ~Degrades(Cur, c)
      <3>1. pc' = "stopping" /\ root' = TRUE /\ culprit' = Cur /\ idx' = idx /\ degraded' = degraded
        BY <2>2 DEF StartupError, BeginShutdown
      <3> QED  BY <1>1, <3>1, ZenonT(60) DEF SupInv, TypeOK
    <2> QED  BY <2>1, <2>2, ZenonT(60)
  <1>7. TypeOK'  BY <1>1, <1>2, <1>4, <1>5, <1>6, ZenonT(60) DEF SupInv, TypeOK
  <1>8. ASSUME Degrades(Cur, c), NEW k \in 1 .. Len(Order), Order[k] = Cur
        PROVE  Settled(Order[k])'
    <2>1. completions'[Order[k]] = c  BY <1>1, <1>3, <1>8, ZenonT(60)
    <2>2. Order[k] \in StartupOptional \/ mgr'[Order[k]] = "joined"  BY <1>8, ZenonT(60)
    <2> QED  BY <2>1, <2>2, <1>8, ZenonT(60) DEF Settled, Degrades
  <1>9. \A t \in Services :
          /\ \/ mgr'[t] = mgr[t]
             \/ mgr'[t] = "joined" /\ completions'[t] # "none"
          /\ health'[t] = "ready" => health[t] = "ready"
          /\ completions[t] # "none" => completions'[t] # "none"
          /\ (\E k \in 1 .. Len(Order) : k < idx /\ t = Order[k]) /\ mgr[t] = "joined" =>
                completions'[t] = completions[t] /\ mgr'[t] = "joined"
    BY <1>1, <1>4, <1>5, ZenonT(60)
  <1>10. \A k \in 1 .. Len(Order) :
          k < idx' => k < idx \/ readySignalled[Order[k]] \/ Settled(Order[k])'
    BY <1>6, <1>8, ZenonT(60)
  <1> QED  BY <1>2, <1>4, <1>6, <1>7, <1>9, <1>10, ZenonT(60) DEF Steps, Over

\* run() spawns the next service.
LEMMA SpawnNextSteps ==
    ASSUME SupInv, SpawnNext
    PROVE  Steps
  <1>1. Cur \in Services /\ ~\E k \in 1 .. Len(Order) : k < idx /\ Cur = Order[k]
    BY Current DEF SpawnNext
  <1>2. UNCHANGED <<restarts, out, readySignalled, childCancelled, root, completions, degraded, idx, culprit>>
    BY ZenonT(60) DEF SpawnNext, managerVars
  <1> QED  BY <1>1, <1>2 DEF SpawnNext, SupInv, TypeOK, Steps, Over, Phases, Healths

\* The service's readiness was seen.
LEMMA WaitReadySteps ==
    ASSUME SupInv, WaitReady
    PROVE  Steps
  <1>1. UNCHANGED <<mgr, restarts, out, readySignalled, childCancelled, root, health, completions, degraded, culprit>>
    BY DEF WaitReady, managerVars
  <1> QED  BY <1>1, AdvanceIs DEF WaitReady, SupInv, TypeOK, Steps, Over

\* The startup_timeout of the current service.
LEMMA WaitTimeoutSteps ==
    ASSUME SupInv, WaitTimeout
    PROVE  Steps
  <1>1. Degrades(Cur, "timeout") => Cur \in StartupOptional  BY DEF Degrades
  <1> QED  BY <1>1, StartupErrorSteps, ZenonT(60) DEF WaitTimeout, SupInv, TypeOK, Completions

\* Recording a completion touches the health of its service only.
Touches(r, h, s) ==
    /\ r \in [Services -> Healths] /\ r[s] # "ready"
    /\ \A t \in Services \ {s} : r[t] = h[t]

LEMMA RecordedIs ==
    ASSUME NEW h \in [Services -> Healths], NEW s \in Services, NEW c
    PROVE  Touches(Recorded(h, s, c), h, s) /\ Touches(RecordedStartup(h, s, c), h, s)
  <1>1. \A v \in {"failed", "stopping", "degraded"} : Touches([h EXCEPT ![s] = v], h, s)
    <2>1. \A v \in {"failed", "stopping", "degraded"} : v \in Healths /\ v # "ready"  BY ONLY SMTT(30), Z3T(30) DEF Healths
    <2> QED  BY <2>1, ZenonT(60) DEF Touches
  <1>2. Touches(Recorded(h, s, c), h, s)
    <2>1. CASE IsFailure(c)
      <3>1. Recorded(h, s, c) = [h EXCEPT ![s] = "failed"]  BY <2>1, ZenonT(60) DEF Recorded
      <3> QED  BY <1>1, <3>1, ZenonT(60)
    <2>2. CASE ~IsFailure(c)
      <3>1. Recorded(h, s, c) = [h EXCEPT ![s] = "stopping"]  BY <2>2, ZenonT(60) DEF Recorded
      <3> QED  BY <1>1, <3>1, ZenonT(60)
    <2> QED  BY <2>1, <2>2
  <1>3. \/ RecordedStartup(h, s, c) = [h EXCEPT ![s] = "degraded"]
        \/ RecordedStartup(h, s, c) = Recorded(h, s, c)
    BY DEF RecordedStartup
  <1> QED  BY <1>1, <1>2, <1>3, ZenonT(60)

\* A finished manager is joined, and startup stays where it is.
LEMMA JoinSteps ==
    ASSUME SupInv, NEW s \in Services, Join(s), UNCHANGED <<managerVars, idx>>,
           health' \in [Services -> Healths], \A t \in Services : health'[t] = "ready" => health[t] = "ready",
           childCancelled' \in [Services -> BOOLEAN], root' \in BOOLEAN, degraded' \subseteq degraded,
           \/ pc' = pc /\ culprit' = culprit /\ pc \in {"waiting", "running", "stopping"}
           \/ pc = "running" /\ pc' = "stopping" /\ culprit' = s,
           completions' \in [Services -> Completions],
           \A t \in Services \ {s} : completions'[t] = completions[t],
           \/ completions'[s] = out[s]
           \/ completions'[s] = completions[s] /\ (s \in degraded \/ (culprit' = s /\ pc' = "stopping"))
    PROVE  Steps
  <1>1. /\ mgr[s] = "finished" /\ mgr' \in [Services -> Phases] /\ mgr'[s] = "joined"
        /\ \A t \in Services \ {s} : mgr'[t] = mgr[t]
    BY DEF Join, SupInv, TypeOK, Phases
  <1>2. UNCHANGED <<restarts, out, readySignalled>>  BY ZenonT(60) DEF managerVars
  <1>3. out[s] # "none"  BY <1>1, ZenonT(60) DEF SupInv, Told
  <1>4. completions'[s] # "none" \/ (completions'[s] = completions[s] /\ s = culprit' /\ pc' \in Over)
    BY <1>3, ZenonT(60) DEF SupInv, Accounted, Over
  <1>5. TypeOK'  BY <1>1, <1>2, <1>4, ZenonT(60) DEF SupInv, TypeOK
  <1>6. \A t \in degraded' : t \in degraded  BY ZenonT(60)
  <1> QED  BY <1>1, <1>2, <1>4, <1>5, <1>6 DEF SupInv, Steps, Over

\* wait_for_initial_ready sees the output of the current service.
LEMMA WaitOwnOutputSteps ==
    ASSUME SupInv, WaitOwnOutput
    PROVE  Steps
  <1>1. Cur \in Services /\ ~\E k \in 1 .. Len(Order) : k < idx /\ Cur = Order[k]
    BY Current, ZenonT(60) DEF WaitOwnOutput
  <1>2. pc = "waiting" /\ Join(Cur) /\ UNCHANGED <<restarts, out, readySignalled, childCancelled>>
    BY DEF WaitOwnOutput, managerVars
  <1>3. /\ mgr[Cur] = "finished" /\ mgr' \in [Services -> Phases] /\ mgr'[Cur] = "joined"
        /\ \A t \in Services \ {Cur} : mgr'[t] = mgr[t]
    BY <1>1, <1>2, ZenonT(60) DEF Join, SupInv, TypeOK, Phases
  <1>4. out[Cur] \in Completions \ {"none"}  BY <1>1, <1>3, ZenonT(60) DEF SupInv, TypeOK, Told
  <1>5. CASE health[Cur] = "ready" /\ Class[Cur] \in {"degradable", "optional"}
    <2>1. /\ health' = RecordedStartup(health, Cur, out[Cur]) /\ Advance
          /\ completions' = [completions EXCEPT ![Cur] = out[Cur]]
          /\ UNCHANGED <<root, degraded, culprit>>
      BY <1>5, ZenonT(60) DEF WaitOwnOutput
    <2>2. /\ health' \in [Services -> Healths] /\ health'[Cur] # "ready"
          /\ \A t \in Services \ {Cur} : health'[t] = health[t]
      <3>1. Touches(health', health, Cur)  BY <1>1, <2>1, RecordedIs, ZenonT(60) DEF SupInv, TypeOK
      <3> QED  BY <3>1, ZenonT(60) DEF Touches
    <2>3. /\ completions' \in [Services -> Completions] /\ completions'[Cur] # "none"
          /\ \A t \in Services \ {Cur} : completions'[t] = completions[t]
      <3>1. completions \in [Services -> Completions]  BY ZenonT(60) DEF SupInv, TypeOK
      <3>2. out[Cur] \in Completions /\ out[Cur] # "none"  BY <1>4, ZenonT(60)
      <3> QED  BY <1>1, <2>1, <3>1, <3>2, ZenonT(60)
    <2>4. TypeOK'  BY <1>2, <1>3, <2>1, <2>2, <2>3, AdvanceIs DEF SupInv, TypeOK
    <2>5. readySignalled[Cur]  BY <1>1, <1>5, ZenonT(60) DEF SupInv, Told
    <2> QED  BY <1>1, <1>2, <1>3, <2>1, <2>2, <2>3, <2>4, <2>5, AdvanceIs, ZenonT(60) DEF Steps, Over
  <1>6. CASE ~(health[Cur] = "ready" /\ Class[Cur] \in {"degradable", "optional"})
    <2>1. StartupError(out[Cur], health, completions) /\ UNCHANGED <<managerVars, childCancelled>>
      BY <1>6, ZenonT(60) DEF WaitOwnOutput
    <2>2. health \in [Services -> Healths] /\ completions \in [Services -> Completions]
      BY DEF SupInv, TypeOK
    <2>3. \A t \in Services : mgr'[t] = mgr[t] \/ (mgr[t] = "finished" /\ mgr'[t] = "joined" /\ t = Cur)
      BY <1>3, ZenonT(60)
    <2> QED  BY <1>2, <1>3, <1>4, <2>1, <2>2, <2>3, StartupErrorSteps, ZenonT(60)
  <1> QED  BY <1>5, <1>6, ZenonT(60)

\* observe_startup_peer
LEMMA WaitPeerSteps ==
    ASSUME SupInv, NEW s \in Services, WaitPeer(s)
    PROVE  Steps
  <1> DEFINE h == RecordedStartup(health, s, out[s])
             m == [completions EXCEPT ![s] = out[s]]
  <1>1. pc = "waiting" /\ s # Cur /\ Join(s) /\ UNCHANGED <<managerVars, childCancelled>>  BY DEF WaitPeer
  <1>2. /\ mgr[s] = "finished" /\ mgr' \in [Services -> Phases] /\ mgr'[s] = "joined"
        /\ \A t \in Services \ {s} : mgr'[t] = mgr[t]
    BY <1>1 DEF Join, SupInv, TypeOK, Phases
  <1>3. out[s] \in Completions \ {"none"}  BY <1>2, ZenonT(60) DEF SupInv, TypeOK, Told
  <1>4. /\ h \in [Services -> Healths] /\ \A t \in Services : h[t] = "ready" => health[t] = "ready"
    <2>1. Touches(h, health, s)  BY RecordedIs DEF SupInv, TypeOK
    <2> QED  BY <2>1, ZenonT(60) DEF Touches
  <1>5. /\ m \in [Services -> Completions] /\ m[s] # "none"
        /\ \A t \in Services \ {s} : m[t] = completions[t]
    BY <1>3, ZenonT(60) DEF SupInv, TypeOK
  <1>6. ASSUME NEW c \in Completions \ {"none"}, c # "exhausted", StartupError(c, h, m) PROVE Steps
    <2>1. Degrades(Cur, c) => Cur \in StartupOptional  BY <1>6, ZenonT(60) DEF Degrades
    <2> HIDE DEF h, m
    <2> QED  BY <1>1, <1>2, <1>4, <1>5, <1>6, <2>1, StartupErrorSteps, ZenonT(60)
  <1>7. CASE s \in degraded
    <2>1. UNCHANGED <<health, completions, pc, idx, root, degraded, culprit>>  BY <1>7, ZenonT(60) DEF WaitPeer
    <2> QED  BY <1>1, <1>7, <2>1, JoinSteps, ZenonT(60) DEF SupInv, TypeOK
  <1>8. CASE s \notin degraded /\ Class[s] = "essential" /\ IsFailure(out[s])
    <2>1. StartupError(out[s], h, m)  BY <1>8, ZenonT(60) DEF WaitPeer
    <2>2. out[s] # "exhausted"  BY <1>8 DEF SupInv, Told
    <2> QED  BY <1>3, <1>6, <2>1, <2>2
  <1>9. CASE s \notin degraded /\ ~(Class[s] = "essential" /\ IsFailure(out[s])) /\ s \in Deps[Cur]
    <2>1. StartupError("failed", h, m)  BY <1>9, ZenonT(60) DEF WaitPeer
    <2> QED  BY <1>6, <2>1, ZenonT(60) DEF Completions
  <1>10. CASE s \notin degraded /\ ~(Class[s] = "essential" /\ IsFailure(out[s])) /\ s \notin Deps[Cur]
    <2>1. health' = h /\ completions' = m /\ UNCHANGED <<pc, idx, root, degraded, culprit>>
      BY <1>10 DEF WaitPeer
    <2>2. childCancelled' \in [Services -> BOOLEAN] /\ root' \in BOOLEAN  BY <1>1, <2>1 DEF SupInv, TypeOK
    <2>3. /\ health' \in [Services -> Healths]
          /\ \A t \in Services : health'[t] = "ready" => health[t] = "ready"
      BY <1>4, <2>1, ZenonT(60)
    <2>4. UNCHANGED <<managerVars, idx>> /\ degraded' \subseteq degraded  BY <1>1, <2>1, ZenonT(60)
    <2>5. pc' = pc /\ culprit' = culprit /\ pc \in {"waiting", "running", "stopping"}  BY <1>1, <2>1, ZenonT(60)
    <2>6. /\ completions' \in [Services -> Completions] /\ completions'[s] = out[s]
          /\ \A t \in Services \ {s} : completions'[t] = completions[t]
      BY <1>3, <2>1, ZenonT(60) DEF SupInv, TypeOK
    <2> QED  BY <1>1, <2>2, <2>3, <2>4, <2>5, <2>6, JoinSteps, ZenonT(60)
  <1> QED  BY <1>7, <1>8, <1>9, <1>10, ZenonT(60)

\* The loop of run() joins a manager and reacts to its completion; the only ones
\* it cancels for it are dependents, and only for a failure it did not know of.
LEMMA RunJoinSteps ==
    ASSUME SupInv, NEW s \in Services, RunJoin(s)
    PROVE  /\ Steps
           /\ \A t \in Services : childCancelled'[t] = childCancelled[t]
                                  \/ (s \notin degraded /\ s \in Deps[t] /\ IsFailure(out[s]))
  <1> DEFINE m == [completions EXCEPT ![s] = out[s]]
  <1>1. pc = "running" /\ Join(s) /\ UNCHANGED managerVars  BY DEF RunJoin
  <1>2. mgr[s] = "finished"  BY <1>1 DEF Join
  <1>3. out[s] \in Completions \ {"none"}  BY <1>2 DEF SupInv, TypeOK, Told
  <1>4. /\ m \in [Services -> Completions] /\ m[s] = out[s]
        /\ \A t \in Services \ {s} : m[t] = completions[t]
    BY <1>3 DEF SupInv, TypeOK
  <1>5. \A v \in {"failed", "degraded"} : Touches([health EXCEPT ![s] = v], health, s)
    BY ZenonT(60) DEF Touches, SupInv, TypeOK, Healths
  <1>7. ASSUME UNCHANGED <<idx, degraded>>, root' \in BOOLEAN,
               health' \in [Services -> Healths],
               \A t \in Services : health'[t] = "ready" => health[t] = "ready",
               childCancelled' \in [Services -> BOOLEAN],
               \/ pc' = pc /\ culprit' = culprit /\ completions' = m
               \/ pc' = "stopping" /\ culprit' = s /\ completions' = completions
        PROVE  Steps
    <2>1. /\ completions' \in [Services -> Completions]
          /\ \A t \in Services \ {s} : completions'[t] = completions[t]
          /\ \/ completions'[s] = out[s] /\ pc' = pc /\ culprit' = culprit
             \/ completions'[s] = completions[s] /\ pc' = "stopping" /\ culprit' = s
      <3>1. completions \in [Services -> Completions]  BY DEF SupInv, TypeOK
      <3>2. CASE pc' = pc /\ culprit' = culprit /\ completions' = m  BY <1>4, <3>2, ZenonT(60)
      <3>3. CASE pc' = "stopping" /\ culprit' = s /\ completions' = completions  BY <3>1, <3>3, ZenonT(60)
      <3> QED  BY <1>7, <3>2, <3>3, ZenonT(60)
    <2>2. UNCHANGED <<managerVars, idx>> /\ degraded' \subseteq degraded  BY <1>1, <1>7, ZenonT(60)
    <2> HIDE DEF m
    <2> QED  BY <1>1, <1>7, <2>1, <2>2, JoinSteps, ZenonT(60)
  <1>8. ASSUME NEW h \in {"degraded", "failed"}, Tolerate(s, h)
        PROVE  /\ Steps
               /\ \A t \in Services : childCancelled'[t] = childCancelled[t] \/ s \in Deps[t]
    <2>1. /\ health' = [t \in Services |-> CASE t = s -> h
                                              [] t \in Dependents(s) -> "degraded"
                                              [] OTHER -> health[t]]
          /\ childCancelled' = [t \in Services |-> childCancelled[t] \/ t \in Dependents(s)]
          /\ completions' = m /\ UNCHANGED <<pc, idx, root, degraded, culprit>>
      BY <1>8, ZenonT(60) DEF Tolerate
    <2>2. s \notin Dependents(s) /\ \A t \in Dependents(s) : s \in Deps[t]  BY ZenonT(60) DEF Dependents
    <2>3. /\ health' \in [Services -> Healths]
          /\ \A t \in Services : health'[t] = "ready" => health[t] = "ready"
      <3>1. \A t \in Services : health'[t] = h \/ health'[t] = "degraded" \/ health'[t] = health[t]
        BY <2>1, <2>2
      <3>2. health' = [t \in Services |-> health'[t]]  BY <2>1
      <3>3. \A t \in Services : health[t] \in Healths  BY DEF SupInv, TypeOK
      <3>4. \A t \in Services : health'[t] \in Healths  BY <3>1, <3>3 DEF Healths
      <3> QED  BY <3>1, <3>2, <3>4
    <2>4. /\ childCancelled' \in [Services -> BOOLEAN]
          /\ \A t \in Services : childCancelled'[t] = childCancelled[t] \/ s \in Deps[t]
      BY <2>1, <2>2 DEF SupInv, TypeOK
    <2>5. root' \in BOOLEAN  BY <2>1, ZenonT(60) DEF SupInv, TypeOK
    <2> QED  BY <1>7, <2>1, <2>3, <2>4, <2>5, ZenonT(60)
  <1>9. CASE s \in degraded
    <2>1. degraded' = degraded \ {s} /\ UNCHANGED <<health, completions, pc, idx, root, culprit, childCancelled>>
      BY <1>9 DEF RunJoin
    <2> QED  BY <1>1, <1>9, <2>1, JoinSteps, ZenonT(60) DEF SupInv, TypeOK
  <1>10. ASSUME health' = [health EXCEPT ![s] = "failed"] \/ health' = [health EXCEPT ![s] = "degraded"]
                \/ health' = Recorded(health, s, out[s]) \/ health' = health
         PROVE  /\ health' \in [Services -> Healths]
                /\ \A t \in Services : health'[t] = "ready" => health[t] = "ready"
    <2>1. health \in [Services -> Healths]  BY DEF SupInv, TypeOK
    <2>2. Touches(Recorded(health, s, out[s]), health, s)  BY <2>1, RecordedIs
    <2>3. Touches(health', health, s) \/ health' = health  BY <1>5, <1>10, <2>2, ZenonT(60)
    <2> QED  BY <2>1, <2>3 DEF Touches
  <1>11. CASE s \notin degraded
    <2>1. React(s)  BY <1>11 DEF RunJoin
    <2>2. ASSUME UNCHANGED <<pc, idx, root, degraded, culprit, childCancelled>>, completions' = m,
                 \/ health' = Recorded(health, s, out[s]) \/ health' = [health EXCEPT ![s] = "degraded"]
          PROVE  Steps
      <3>1. root' \in BOOLEAN /\ childCancelled' \in [Services -> BOOLEAN]  BY <2>2 DEF SupInv, TypeOK
      <3> QED  BY <1>7, <1>10, <2>2, <3>1, ZenonT(60)
    <2>3. ASSUME BeginShutdown(s), UNCHANGED <<completions, childCancelled>>,
                 health' = [health EXCEPT ![s] = "failed"] \/ health' = health
          PROVE  Steps
      <3>1. root' \in BOOLEAN /\ childCancelled' \in [Services -> BOOLEAN]
        BY <2>3 DEF BeginShutdown, SupInv, TypeOK
      <3> QED  BY <1>7, <1>10, <2>3, <3>1, ZenonT(60) DEF BeginShutdown
    <2>4. CASE \E h \in {"degraded", "failed"} : IsFailure(out[s]) /\ Tolerate(s, h)
      BY <1>8, <1>11, <2>4, ZenonT(60)
    <2> QED  BY <2>1, <2>2, <2>3, <2>4, ZenonT(60) DEF React
  <1> QED  BY <1>9, <1>11

\* shutdown() joins a manager that has finished.
LEMMA StopJoinSteps ==
    ASSUME SupInv, NEW s \in Services, StopJoin(s)
    PROVE  Steps
  <1>1. /\ pc = "stopping" /\ Join(s) /\ completions' = [completions EXCEPT ![s] = out[s]]
        /\ health' = Recorded(health, s, out[s])
        /\ UNCHANGED <<managerVars, childCancelled, root, degraded, pc, idx, culprit>>
    BY DEF StopJoin
  <1>2. Touches(health', health, s)  BY <1>1, RecordedIs, ZenonT(60) DEF SupInv, TypeOK
  <1>3. out[s] \in Completions  BY DEF SupInv, TypeOK
  <1>4. /\ completions' \in [Services -> Completions] /\ completions'[s] = out[s]
        /\ \A t \in Services \ {s} : completions'[t] = completions[t]
    BY <1>1, <1>3 DEF SupInv, TypeOK
  <1>5. childCancelled' \in [Services -> BOOLEAN] /\ root' \in BOOLEAN  BY <1>1 DEF SupInv, TypeOK
  <1>6. UNCHANGED <<managerVars, idx>> /\ degraded' \subseteq degraded  BY <1>1, ZenonT(60)
  <1>7. pc' = pc /\ culprit' = culprit  BY <1>1, ZenonT(60)
  <1> QED  BY <1>1, <1>2, <1>4, <1>5, <1>6, <1>7, JoinSteps, ZenonT(60) DEF Touches

\* run() leaves its loop, or shutdown is requested.
LEMMA TurnsSteps ==
    ASSUME SupInv, RunEmpty \/ RunCancelled \/ RequestShutdown
    PROVE  Steps
  <1>1. UNCHANGED <<mgr, restarts, out, readySignalled, childCancelled, health, completions, degraded, idx>>
    BY DEF RunEmpty, RunCancelled, RequestShutdown, BeginShutdown, managerVars
  <1>2. /\ root' = TRUE
        /\ \/ pc = "running" /\ pc' = "stopping" /\ culprit' = NoService
           \/ pc' = pc /\ culprit' = culprit
    BY DEF RunEmpty, RunCancelled, RequestShutdown, BeginShutdown
  <1>3. Active' = Active  BY <1>1 DEF Active
  <1> QED  BY <1>1, <1>2, <1>3 DEF SupInv, TypeOK, Accounted, Steps, Over

\* The end of shutdown(): all joined, or the deadline and the abort.
LEMMA EndSteps ==
    ASSUME SupInv, StopDone \/ StopDeadline \/ DrainAborted
    PROVE  Steps
  <1>1. UNCHANGED <<restarts, out, readySignalled, childCancelled, root, degraded, idx, culprit>>
        /\ pc \in {"stopping", "aborting"}
    BY ZenonT(60) DEF StopDone, StopDeadline, DrainAborted, managerVars
  <1>2. CASE StopDone
    <2>1. Active' = Active  BY <1>2, ZenonT(60) DEF StopDone, Active
    <2> QED  BY <1>1, <1>2, <2>1 DEF StopDone, SupInv, TypeOK, Steps, Over
  <1>3. CASE StopDeadline
    <2>1. /\ pc' = "aborting" /\ mgr' = mgr
          /\ health' = [s \in Services |-> IF s \in Active THEN "stopping" ELSE health[s]]
          /\ completions' = [s \in Services |-> IF s \in Active THEN "forced" ELSE completions[s]]
      BY <1>3, ZenonT(60) DEF StopDeadline
    <2>2. health' \in [Services -> Healths] /\ completions' \in [Services -> Completions]
      BY <2>1, ZenonT(60) DEF SupInv, TypeOK, Healths, Completions
    <2>3. TypeOK'  BY <1>1, <2>1, <2>2, ZenonT(60) DEF SupInv, TypeOK
    <2>4. Active' = Active /\ \A t \in Active : t \in Services /\ mgr[t] # "joined"  BY <2>1, ZenonT(60) DEF Active
    <2>5. \A t \in Services : completions'[t] = (IF t \in Active THEN "forced" ELSE completions[t])
      BY <2>1, ZenonT(60)
    <2> QED  BY <1>1, <2>1, <2>3, <2>4, <2>5, ZenonT(60) DEF Steps, Over
  <1>4. CASE DrainAborted
    <2>1. /\ pc = "aborting" /\ pc' = "done" /\ UNCHANGED <<health, completions>>
          /\ mgr' = [s \in Services |-> IF s \in Active THEN "joined" ELSE mgr[s]]
      BY <1>4 DEF DrainAborted
    <2>2. mgr' \in [Services -> Phases]  BY <2>1, ZenonT(60) DEF SupInv, TypeOK, Phases
    <2>3. TypeOK'  BY <1>1, <2>1, <2>2, ZenonT(60) DEF SupInv, TypeOK
    <2>4. \A t \in Active : completions[t] # "none"  BY <2>1, ZenonT(60) DEF SupInv, Accounted
    <2>5. \A t \in Services : IF t \in Active THEN mgr'[t] = "joined" ELSE mgr'[t] = mgr[t]  BY <2>1, ZenonT(60)
    <2>6. Active' = {}  BY <2>5 DEF Active
    <2> QED  BY <1>1, <2>1, <2>3, <2>4, <2>5, <2>6, ZenonT(60) DEF Steps, Over
  <1> QED  BY <1>2, <1>3, <1>4, ZenonT(60)

-----------------------------------------------------------------------------
(* The results. *)

LEMMA SupInvInit ==
    ASSUME SupervisorInit
    PROVE  SupInv
  <1>0. Len(Order) \in Nat /\ RestartAttempts \in Nat /\ (Order # <<>> => Len(Order) >= 1)
    BY GraphAssumption
  <1>a. \A s \in Services : /\ mgr[s] = "unspawned" /\ out[s] = "none"
                             /\ health[s] = "registered" /\ completions[s] = "none"
    BY ZenonT(60) DEF SupervisorInit
  <1>1. TypeOK
    <2>1. mgr \in [Services -> Phases] /\ out \in [Services -> Completions] /\ health \in [Services -> Healths]
          /\ completions \in [Services -> Completions]
      BY DEF SupervisorInit, Phases, Completions, Healths
    <2>2. restarts \in [Services -> 0 .. RestartAttempts]  BY <1>0 DEF SupervisorInit
    <2>3. idx \in 1 .. Len(Order) + 1  BY <1>0 DEF SupervisorInit
    <2>4. readySignalled \in [Services -> BOOLEAN] /\ childCancelled \in [Services -> BOOLEAN] /\ root \in BOOLEAN
      BY ZenonT(60) DEF SupervisorInit
    <2> QED  BY <2>1, <2>2, <2>3, <2>4 DEF SupervisorInit, TypeOK
  <1>2. \A s \in Services : Told(s)  BY <1>a, ZenonT(60) DEF Told
  <1>3. Passed  BY <1>0 DEF SupervisorInit, Passed
  <1>4. Accounted
    <2>1. degraded = {} /\ pc \in {"running", "starting"}  BY DEF SupervisorInit
    <2> QED  BY <1>a, <2>1 DEF Accounted
  <1> QED  BY <1>0, <1>1, <1>2, <1>3, <1>4 DEF SupervisorInit, SupInv

LEMMA SupInvNext ==
    ASSUME SupInv, [SupervisorNext]_serviceVars
    PROVE  SupInv'
  <1>1. CASE UNCHANGED serviceVars
    BY <1>1 DEF serviceVars, SupInv, TypeOK, Told, Passed, Settled, Accounted, Active
  <1>2. CASE \E s \in Services : Manager(s)  BY <1>2, ManagerKeeps
  <1>3. CASE RequestShutdown  BY <1>3, TurnsSteps, StepsKeep
  <1>4. CASE SpawnNext \/ WaitReady \/ WaitOwnOutput \/ WaitTimeout
    BY <1>4, SpawnNextSteps, WaitReadySteps, WaitOwnOutputSteps, WaitTimeoutSteps, StepsKeep, ZenonT(60)
  <1>5. ASSUME NEW s \in Services, WaitPeer(s) \/ RunJoin(s) \/ StopJoin(s) PROVE SupInv'
    BY <1>5, WaitPeerSteps, RunJoinSteps, StopJoinSteps, StepsKeep, ZenonT(60)
  <1>6. CASE RunEmpty \/ RunCancelled  BY <1>6, TurnsSteps, StepsKeep
  <1>7. CASE StopDone \/ StopDeadline \/ DrainAborted  BY <1>7, EndSteps, StepsKeep
  <1> QED  BY <1>1, <1>2, <1>3, <1>4, <1>5, <1>6, <1>7, ZenonT(60) DEF SupervisorNext, Supervise

\* The inductive invariant of run(), wait_for_initial_ready, shutdown() and the
\* managers, for every validated graph.
THEOREM SupervisorInvariant == SupervisorSpec => []SupInv
  <1>1. SupervisorInit => SupInv  BY SupInvInit
  <1>2. SupInv /\ [SupervisorNext]_serviceVars => SupInv'  BY SupInvNext
  <1> QED  BY <1>1, <1>2, PTL DEF SupervisorSpec

\* Startup passes a service only when it signalled readiness or its failure is
\* tolerated by its startup policy (wait_for_initial_ready).
THEOREM GateHolds == SupervisorSpec => []ReadinessGate
  <1>1. SupInv => ReadinessGate
    BY ZenonT(60) DEF SupInv, Passed, Settled, Degrades, ReadinessGate
  <1> QED  BY <1>1, SupervisorInvariant, PTL

\* When run() returns, every manager is joined and every spawned service is in
\* the report or is the one the error names.
THEOREM ReportIsComplete == SupervisorSpec => []ReportComplete
  <1>1. SupInv => ReportComplete  BY DEF SupInv, Accounted, ReportComplete
  <1> QED  BY <1>1, SupervisorInvariant, PTL

\* mark_dependents_degraded cancels a service only for the failure of a
\* dependency that startup had not degraded already.
THEOREM DependentsSpared == SupervisorSpec => StartupDegradationSparesDependents
  <1> DEFINE Spared == \A s \in Services : ~childCancelled[s] /\ childCancelled'[s] =>
                           \E d \in Deps[s] \ degraded : mgr[d] = "finished" /\ mgr'[d] = "joined" /\ IsFailure(out[d])
  <1>1. SupInv /\ [SupervisorNext]_serviceVars => [Spared]_serviceVars
    <2> SUFFICES ASSUME SupInv, SupervisorNext PROVE Spared
      BY ZenonT(60)
    <2>1. CASE \E s \in Services : RunJoin(s)
      <3>1. PICK d \in Services : RunJoin(d)  BY <2>1, ZenonT(60)
      <3>2. \A t \in Services : childCancelled'[t] = childCancelled[t]
                                \/ (d \notin degraded /\ d \in Deps[t] /\ IsFailure(out[d]))
        BY <3>1, RunJoinSteps, ZenonT(60)
      <3>3. mgr[d] = "finished" /\ mgr'[d] = "joined"  BY <3>1, ZenonT(60) DEF RunJoin, Join, SupInv, TypeOK
      <3> QED  BY <3>2, <3>3
    <2>2. CASE ~\E s \in Services : RunJoin(s)
      <3>1. CASE \E s \in Services : Manager(s)
        BY <3>1, ZenonT(60) DEF Manager, supervisorVars, Announce, PublishReady, Report, Stop, Fail, Backoff, Exhaust, Restart,
                    StopInBackoff
      <3>2. CASE \E s \in Services : WaitPeer(s) \/ StopJoin(s)  BY <3>2, ZenonT(60) DEF WaitPeer, StopJoin
      <3>3. CASE SpawnNext \/ WaitReady \/ WaitOwnOutput \/ WaitTimeout \/ RequestShutdown
        BY <3>3, ZenonT(60) DEF SpawnNext, WaitReady, WaitOwnOutput, WaitTimeout, RequestShutdown
      <3>4. CASE RunEmpty \/ RunCancelled \/ StopDone \/ StopDeadline \/ DrainAborted
        BY <3>4 DEF RunEmpty, RunCancelled, StopDone, StopDeadline, DrainAborted
      <3> QED  BY <2>2, <3>1, <3>2, <3>3, <3>4, ZenonT(60) DEF SupervisorNext, Supervise
    <2> QED  BY <2>1, <2>2, ZenonT(60)
  <1>2. [][Spared]_serviceVars => StartupDegradationSparesDependents
    BY PTL DEF StartupDegradationSparesDependents
  <1> QED  BY <1>1, <1>2, SupervisorInvariant, PTL DEF SupervisorSpec

---------------------------------------------------------------------------
(* The inductive invariants, one per table.                                *)

Destinations == {TargetOf[r].destination : r \in Resolvers}

Requests == [key : {TargetOf[r].key : r \in Resolvers},
             destination : Destinations, deadline : Nat, retries : Nat]

ResolverStates ==
    [at : {"idle", "waiting", "answered", "installed", "exhausted", "failed"},
     id : Nat, attempts : Nat, answer : Replies \cup {NoRecord},
     installed : Replies \cup {NoRecord}]

PublisherStates ==
    [at : {"idle", "begun", "composed", "accepted", "failed"}, id : Nat]

\* Types; request ids are drawn from the counter, so every id in use lies below
\* it; and the cache files a lease set under its own key.
Types ==
    /\ now \in Nat
    /\ nextId \in Nat
    /\ pending \in [DOMAIN pending -> Requests]
    /\ \A id \in DOMAIN pending : id \in Nat /\ id < nextId
    /\ \A key \in DOMAIN cache : cache[key] \in Replies /\ cache[key].key = key
    /\ resolver \in [Resolvers -> ResolverStates]
    /\ publisher \in [Publishers -> PublisherStates]
    /\ newest \in [Destinations -> Nat]

\* A waiting resolution's request, as long as it is pending, is for its target.
\* Request ids are not reused, so no later request can pass for it.
WaitsForTarget ==
    \A r \in Resolvers : resolver[r].at = "waiting" =>
        /\ resolver[r].id < nextId
        /\ resolver[r].id \in DOMAIN pending =>
               pending[resolver[r].id].destination = TargetOf[r].destination

\* What was installed for a destination is not newer than what is cached for it.
CacheLeads ==
    \A d \in Destinations : d # NoDestination /\ newest[d] > 0 =>
        d \in DOMAIN cache /\ newest[d] <= cache[d].published

\* One publication is in flight at most, and before it is composed its slot is
\* there and bears no message id.
OneInFlight ==
    /\ \A p, q \in Publishers :
          publisher[p].at \in {"begun", "composed"} /\
          publisher[q].at \in {"begun", "composed"} => p = q
    /\ \A p \in Publishers : publisher[p].at = "begun" =>
          publisher[p].id \in DOMAIN publications /\ publications[publisher[p].id] = 0

LookupInv ==
    Types /\ WaitsForTarget /\ CacheLeads /\ EngineHasOwner /\ AnswerBinds

SlotInv == Types /\ OneInFlight /\ SlotsHeldByLive

---------------------------------------------------------------------------
(* Lemmas.                                                                 *)

\* What keeping part of a table gives.
LEMMA RestrictFacts ==
    ASSUME NEW f, NEW S \in SUBSET DOMAIN f
    PROVE  /\ DOMAIN Restrict(f, S) = S
           /\ \A x \in S : Restrict(f, S)[x] = f[x]
           /\ Restrict(f, S) = [x \in S |-> f[x]]
  BY DEF Restrict

\* A resolution that returns is left in a well-typed state.
LEMMA ReturnsType ==
    ASSUME Types, NEW r \in Resolvers, NEW outcome \in {"failed", "exhausted"},
           Returns(r, outcome)
    PROVE  /\ resolver' \in [Resolvers -> ResolverStates]
           /\ resolver'[r].at = outcome
           /\ \A q \in Resolvers \ {r} : resolver'[q] = resolver[q]
  <1>1. [Idle EXCEPT !.at = outcome,
                     !.id = IF outcome = "exhausted" THEN resolver[r].id ELSE 0]
            \in ResolverStates
    BY ZenonT(60) DEF Types, ResolverStates, Idle
  <1>2. QED
    BY <1>1 DEF Returns, Types, Idle

\* A request that is only removed leaves a well-typed table.
LEMMA PendingShrinks ==
    ASSUME Types, NEW S \in SUBSET DOMAIN pending, pending' = Restrict(pending, S),
           nextId' = nextId
    PROVE  /\ pending' \in [DOMAIN pending' -> Requests]
           /\ \A id \in DOMAIN pending' : id \in Nat /\ id < nextId'
  <1>1. /\ DOMAIN pending' = S /\ \A id \in S : pending'[id] = pending[id]
        /\ pending' = [id \in S |-> pending[id]]
    BY RestrictFacts, ZenonT(60)
  <1>2. /\ pending \in [DOMAIN pending -> Requests] /\ nextId' = nextId
        /\ \A id \in DOMAIN pending : id \in Nat /\ id < nextId
    BY ZenonT(60) DEF Types
  <1>3. QED
    BY <1>1, <1>2, ZenonT(60)

\* The ids that resolutions wait for stay below a counter that only grows.
LEMMA LaterIds ==
    ASSUME Types, nextId' \in Nat, nextId' >= nextId
    PROVE  \A q \in Resolvers : resolver[q].id < nextId => resolver[q].id < nextId'
  <1>1. nextId \in Nat /\ \A q \in Resolvers : resolver[q].id \in Nat
    BY ZenonT(60) DEF Types, ResolverStates
  <1>2. \A i \in Nat : i < nextId => i < nextId'
    BY <1>1
  <1>3. QED
    BY <1>1, <1>2, ZenonT(60)

\* What the engine accepts goes to the cache under its key, and only if newer.
LEMMA CacheStep ==
    ASSUME Types, NEW x \in Replies, EngineAccepts(x)
    PROVE  /\ \A key \in DOMAIN cache' : cache'[key] \in Replies /\ cache'[key].key = key
           /\ \A key \in DOMAIN cache :
                 key \in DOMAIN cache' /\ cache[key].published <= cache'[key].published
  <1>1. CASE cache' = cache
    BY <1>1, LeaseAssumption DEF Types
  <1>2. CASE Takes(x) /\ cache' = With(cache, x.key, x)
    <2>1. DOMAIN cache' = DOMAIN cache \cup {x.key}
      BY <1>2, ZenonT(60) DEF With
    <2>2. \A key \in DOMAIN cache : key # x.key => cache'[key] = cache[key]
      BY <1>2 DEF With
    <2>3. cache'[x.key] = x
      BY <1>2, ZenonT(60) DEF With
    <2>4. x.key \in DOMAIN cache => x.published > cache[x.key].published
      BY <1>2, ZenonT(60) DEF Takes
    <2>5. \A y \in Replies : y.published \in Nat
      BY LeaseAssumption, ZenonT(60)
    <2>6. QED
      BY <2>1, <2>2, <2>3, <2>4, <2>5 DEF Types
  <1>3. QED
    BY <1>1, <1>2 DEF EngineAccepts, StoreInsert

---------------------------------------------------------------------------
(* Types.                                                                  *)

\* The types hold at the start (DestinationTunnelCoordinator::new).
LEMMA TypesInit == Init => Types
  <1>1. SUFFICES ASSUME Init PROVE Types
    OBVIOUS
  <1>2. Idle \in ResolverStates
    BY ZenonT(60) DEF Idle, ResolverStates
  <1>3. pending \in [DOMAIN pending -> Requests] /\ DOMAIN pending = {}
    BY <1>1 DEF Init
  <1>4. QED
    BY <1>1, <1>2, <1>3 DEF Init, Types, PublisherStates, Destinations

\* Every step keeps the types.
LEMMA TypesStep == Types /\ [Next]_vars => Types'
  <1>1. SUFFICES ASSUME Types, [Next]_vars PROVE Types'
    OBVIOUS
  <1>2. ASSUME NEW r \in Resolvers, BeginLookup(r) PROVE Types'
    <2> DEFINE refused == \/ Cardinality(DOMAIN pending) >= MaxPending
                          \/ Candidates(TargetOf[r].key) = {}
                          \/ ~EngineIdle
    <2>1. CASE refused
      <3>1. /\ Returns(r, "failed") /\ UNCHANGED <<pending, now, cache, publisher, newest>>
            /\ nextId' \in {nextId, nextId + 1}
        BY <1>2, <2>1 DEF BeginLookup
      <3>2. QED
        BY <1>1, <3>1, ReturnsType DEF Types
    <2>2. CASE ~refused
      <3> DEFINE request == [key |-> TargetOf[r].key,
                             destination |-> TargetOf[r].destination,
                             deadline |-> now + LookupDeadline, retries |-> 0]
      <3>1. /\ pending' = With(pending, nextId, request)
            /\ nextId' = nextId + 1
            /\ resolver' = [resolver EXCEPT ![r] =
                  [Idle EXCEPT !.at = "waiting", !.id = nextId, !.attempts = 1]]
            /\ UNCHANGED <<now, cache, publisher, newest>>
        BY <1>2, <2>2, ZenonT(60) DEF BeginLookup
      <3>2. request \in Requests
        BY <1>1, LeaseAssumption DEF Types, Requests, Destinations
      <3>3. /\ pending' \in [DOMAIN pending' -> Requests]
            /\ \A id \in DOMAIN pending' : id \in Nat /\ id < nextId'
        BY <1>1, <3>1, <3>2 DEF Types, With
      <3>4. [Idle EXCEPT !.at = "waiting", !.id = nextId, !.attempts = 1]
                \in ResolverStates
        BY <1>1, ZenonT(60) DEF Types, ResolverStates, Idle
      <3>5. QED
        BY <1>1, <3>1, <3>3, <3>4 DEF Types
    <2>3. QED
      BY <2>1, <2>2
  <1>3. ASSUME NEW r \in Resolvers, NEW x \in Replies, Ingest(r, x) PROVE Types'
    <2>1. CASE Binds(resolver[r].id, x)
      <3>1. /\ pending' = Restrict(pending, DOMAIN pending \ {resolver[r].id})
            /\ resolver' = [resolver EXCEPT ![r] =
                              [Idle EXCEPT !.at = "answered", !.answer = x]]
            /\ UNCHANGED <<now, nextId, publisher, newest>>
        BY <1>3, <2>1 DEF Ingest, Without
      <3>2. [Idle EXCEPT !.at = "answered", !.answer = x] \in ResolverStates
        BY ZenonT(60) DEF ResolverStates, Idle
      <3>3. QED
        BY <1>1, <1>3, <3>1, <3>2, PendingShrinks, CacheStep, ZenonT(60) DEF Types, Ingest
    <2>2. CASE ~Binds(resolver[r].id, x)
      <3>1. UNCHANGED <<pending, resolver, now, nextId, publisher, newest>>
        BY <1>3, <2>2 DEF Ingest
      <3>2. QED
        BY <1>1, <1>3, <3>1, CacheStep DEF Types, Ingest
    <2>3. QED
      BY <2>1, <2>2
  <1>4. ASSUME NEW r \in Resolvers,
               DispatchFails(r) \/ WindowEnds(r) \/ InstallRefused(r)
        PROVE  Types'
    <2>1. resolver' \in [Resolvers -> ResolverStates]
      BY <1>1, <1>4, ReturnsType
      DEF Types, DispatchFails, Undelivered, WindowEnds, InstallRefused, ResolverStates
    <2>2. QED
      BY <1>1, <1>4, <2>1
      DEF Types, DispatchFails, WindowEnds, InstallRefused, coordinator
  <1>5. ASSUME NEW r \in Resolvers, Install(r) PROVE Types'
    <2>1. Installable(r) \in Replies \cup {NoRecord}
      BY <1>1, <1>5 DEF Install, Installable, IngestStore, Types, ResolverStates
    <2>2. [Idle EXCEPT !.at = "installed", !.installed = Installable(r)]
              \in ResolverStates
      BY <2>1, ZenonT(60) DEF Idle, ResolverStates
    <2>a. resolver \in [Resolvers -> ResolverStates] /\ newest \in [Destinations -> Nat]
      BY <1>1, ZenonT(60) DEF Types
    <2>3. resolver' \in [Resolvers -> ResolverStates]
      <3>1. CASE Returns(r, "failed")
        BY <1>1, <3>1, ReturnsType, ZenonT(60)
      <3>2. CASE resolver' = [resolver EXCEPT ![r] =
                               [Idle EXCEPT !.at = "installed", !.installed = Installable(r)]]
        BY <2>2, <2>a, <3>2, ZenonT(60)
      <3>3. QED
        BY <1>5, <3>1, <3>2, ZenonT(60) DEF Install
    <2>4. newest' \in [Destinations -> Nat]
      <3>1. CASE UNCHANGED newest
        BY <2>a, <3>1, ZenonT(60)
      <3>2. CASE Installable(r) # NoRecord /\ ~UNCHANGED newest
        <4> DEFINE d == TargetOf[r].destination
                   x == Installable(r)
        <4>1. newest' = [newest EXCEPT ![d] = IF x.published > @ THEN x.published ELSE @]
          BY <1>5, <3>2, ZenonT(60) DEF Install
        <4>2. x.published \in Nat
          BY <2>1, <3>2, LeaseAssumption, ZenonT(60)
        <4> HIDE DEF d, x
        <4>3. QED
          BY ONLY <2>a, <4>1, <4>2, ZenonT(60)
      <3>3. QED
        BY <1>5, <3>1, <3>2, ZenonT(60) DEF Install
    <2>5. QED
      BY <1>1, <1>5, <2>3, <2>4 DEF Types, Install, coordinator
  <1>6. ASSUME NEW p \in Publishers,
               BeginPublication(p) \/ ComposePublication(p)
                 \/ DeliverPublication(p) \/ PublishAgain(p)
        PROVE  Types'
    <2>1. publisher' \in [Publishers -> PublisherStates]
      BY <1>1, <1>6
      DEF Types, BeginPublication, ComposePublication, DeliverPublication,
          PublishAgain, Publishes, GiveUp, PublisherStates
    <2>2. nextId' \in Nat /\ nextId' >= nextId
      <3>1. nextId \in Nat
        BY <1>1, ZenonT(60) DEF Types
      <3>2. nextId' = nextId \/ nextId' = nextId + 1
        BY <1>6, ZenonT(60)
        DEF BeginPublication, ComposePublication, DeliverPublication, PublishAgain, coordinator
      <3>3. QED
        BY ONLY <3>1, <3>2, SMTT(30), Z3T(30)
    <2>3. UNCHANGED <<now, pending, cache, resolver, newest>>
      BY <1>6
      DEF BeginPublication, ComposePublication, DeliverPublication, PublishAgain,
          coordinator
    <2>4. QED
      BY <1>1, <2>1, <2>2, <2>3 DEF Types
  <1>7. ASSUME NEW id \in 1..MaxRequests, CancelLookup(id) PROVE Types'
    BY <1>1, <1>7, PendingShrinks, ZenonT(60) DEF Types, CancelLookup, Without
  <1>8. ASSUME NEW id \in 1..MaxRequests, NoteTunnelLoss(id) PROVE Types'
    <2>1. CASE pending' = Without(pending, id)
      BY <1>1, <1>8, <2>1, PendingShrinks, ZenonT(60) DEF Types, NoteTunnelLoss, Without
    <2>2. CASE pending' = [pending EXCEPT ![id].retries = @ + 1]
      <3>1. pending' \in [DOMAIN pending -> Requests]
        BY <1>1, <1>8, <2>2 DEF Types, NoteTunnelLoss, Requests
      <3>2. QED
        BY <1>1, <1>8, <3>1 DEF Types, NoteTunnelLoss
    <2>3. QED
      BY <1>8, <2>1, <2>2 DEF NoteTunnelLoss
  <1>9. ASSUME ExpireLookups PROVE Types'
    <2> DEFINE live == DOMAIN pending \ {id \in DOMAIN pending :
                                            pending[id].deadline <= now}
    <2>1. pending' = Restrict(pending, live) /\ live \in SUBSET DOMAIN pending
      BY <1>9, ZenonT(60) DEF ExpireLookups
    <2>2. QED
      BY <1>1, <1>9, <2>1, PendingShrinks, ZenonT(60) DEF Types, ExpireLookups
  <1>10. ASSUME CorrelateStatus \/ (\E f \in Floodfills : Bootstrap(f)) \/ Tick
                  \/ UNCHANGED vars
         PROVE  Types'
    BY <1>1, <1>10 DEF Types, CorrelateStatus, Bootstrap, Tick, vars, coordinator
  <1>11. QED
    BY <1>1, <1>2, <1>3, <1>4, <1>5, <1>6, <1>7, <1>8, <1>9, <1>10, ZenonT(60) DEF Next

---------------------------------------------------------------------------
(* Lookups.                                                                *)

\* The lookup invariant holds at the start.
LEMMA LookupInit == Init => LookupInv
  <1>1. SUFFICES ASSUME Init PROVE LookupInv
    OBVIOUS
  <1>2. Types
    BY <1>1, TypesInit, ZenonT(60)
  <1>3. \A r \in Resolvers : resolver[r].at = "idle"
    BY <1>1, ZenonT(60) DEF Init, Idle
  <1>4. WaitsForTarget /\ AnswerBinds
    BY <1>3, ZenonT(60) DEF WaitsForTarget, AnswerBinds
  <1>5. CacheLeads
    <2>1. \A d \in Destinations : newest[d] = 0
      BY <1>1, ZenonT(60) DEF Init, Destinations
    <2>2. ~(0 > 0)
      OBVIOUS
    <2>3. QED
      BY <2>1, <2>2, ZenonT(60) DEF CacheLeads
  <1>6. EngineHasOwner
    BY <1>1, ZenonT(60) DEF Init, EngineHasOwner
  <1>7. QED
    BY <1>2, <1>4, <1>5, <1>6 DEF LookupInv

\* Steps of the publishers and of the clock do not touch a lookup.
LEMMA LookupFrame ==
    ASSUME LookupInv, Types', nextId' >= nextId,
           UNCHANGED <<engine, pending, cache, resolver, newest>>
    PROVE  LookupInv'
  <1>1. WaitsForTarget'
    <2>1. Types /\ nextId' \in Nat
      <3>1. Types
        BY ZenonT(60) DEF LookupInv
      <3>2. nextId' \in Nat
        BY ZenonT(60) DEF Types
      <3>3. QED
        BY <3>1, <3>2, ZenonT(60)
    <2>2. QED
      <3>1. \A q \in Resolvers : resolver[q].id < nextId => resolver[q].id < nextId'
        BY <2>1, LaterIds, ZenonT(60)
      <3>2. QED
        BY <3>1, ZenonT(60) DEF LookupInv, WaitsForTarget
  <1>2. QED
    BY <1>1, ZenonT(60) DEF LookupInv, CacheLeads, EngineHasOwner, AnswerBinds

\* Neither does giving up requests, as long as the engine stops with them.
LEMMA LookupGivenUp ==
    ASSUME LookupInv, Types', NEW S \in SUBSET DOMAIN pending,
           pending' = Restrict(pending, S), engine' = NoLookup,
           UNCHANGED <<nextId, cache, resolver, newest>>
    PROVE  LookupInv'
  <1>1. WaitsForTarget'
    <2>1. DOMAIN pending' = S /\ \A id \in S : pending'[id] = pending[id]
      BY RestrictFacts, ZenonT(60)
    <2>2. QED
      BY <2>1, ZenonT(60) DEF LookupInv, WaitsForTarget
  <1>2. QED
    BY <1>1, ZenonT(60) DEF LookupInv, CacheLeads, EngineHasOwner, AnswerBinds

\* begin_lease_lookup_inner keeps it: refused, it only spends an id; started, the
\* engine and the table get the same new request.
LEMMA BeginLookupStep ==
    ASSUME LookupInv, Types', NEW r \in Resolvers, BeginLookup(r)
    PROVE  LookupInv'
  <1> DEFINE refused == \/ Cardinality(DOMAIN pending) >= MaxPending
                        \/ Candidates(TargetOf[r].key) = {}
                        \/ ~EngineIdle
  <1>1. Types /\ nextId \in Nat
    BY ZenonT(60) DEF LookupInv, Types
  <1>2. CASE refused
    <2>1. /\ Returns(r, "failed") /\ UNCHANGED <<pending, engine, cache, newest>>
          /\ nextId' \in {nextId, nextId + 1}
      BY <1>2 DEF BeginLookup
    <2>2. /\ resolver'[r].at = "failed"
          /\ \A q \in Resolvers \ {r} : resolver'[q] = resolver[q]
      BY <1>1, <2>1, ReturnsType, ZenonT(60)
    <2>3. WaitsForTarget'
      <3>1. SUFFICES ASSUME NEW q \in Resolvers, resolver'[q].at = "waiting"
                     PROVE  /\ resolver'[q].id < nextId'
                            /\ resolver'[q].id \in DOMAIN pending' =>
                                 pending'[resolver'[q].id].destination
                                   = TargetOf[q].destination
        BY DEF WaitsForTarget
      <3>2. q # r /\ resolver'[q] = resolver[q]
        BY <2>2, <3>1
      <3>3. nextId' \in Nat /\ nextId' >= nextId
        BY ONLY <1>1, <2>1, SMTT(30), Z3T(30)
      <3>4. resolver[q].id < nextId' /\ pending' = pending
        BY <1>1, <2>1, <3>1, <3>2, <3>3, LaterIds, ZenonT(60) DEF LookupInv, WaitsForTarget
      <3>5. QED
        BY <3>1, <3>2, <3>4, ZenonT(60) DEF LookupInv, WaitsForTarget
    <2>4. AnswerBinds'
      BY <2>2 DEF LookupInv, AnswerBinds
    <2>5. QED
      BY <2>1, <2>3, <2>4, ZenonT(60) DEF LookupInv, CacheLeads, EngineHasOwner
  <1>3. CASE ~refused
    <2> DEFINE request == [key |-> TargetOf[r].key,
                           destination |-> TargetOf[r].destination,
                           deadline |-> now + LookupDeadline, retries |-> 0]
    <2>1. /\ pending' = With(pending, nextId, request)
          /\ nextId' = nextId + 1
          /\ engine' = [id |-> nextId, key |-> TargetOf[r].key]
          /\ resolver' = [resolver EXCEPT ![r] =
                [Idle EXCEPT !.at = "waiting", !.id = nextId, !.attempts = 1]]
          /\ UNCHANGED <<cache, newest>>
      BY <1>3 DEF BeginLookup, EngineStart
    <2>2. /\ resolver'[r].at = "waiting" /\ resolver'[r].id = nextId
          /\ \A q \in Resolvers \ {r} : resolver'[q] = resolver[q]
      BY <1>1, <2>1 DEF Types, Idle
    <2>3. /\ DOMAIN pending' = DOMAIN pending \cup {nextId}
          /\ pending'[nextId] = request
          /\ \A id \in DOMAIN pending : id # nextId => pending'[id] = pending[id]
      BY <2>1, ZenonT(60) DEF With
    <2>4. WaitsForTarget'
      <3>1. SUFFICES ASSUME NEW q \in Resolvers, resolver'[q].at = "waiting"
                     PROVE  /\ resolver'[q].id < nextId'
                            /\ resolver'[q].id \in DOMAIN pending' =>
                                 pending'[resolver'[q].id].destination
                                   = TargetOf[q].destination
        BY DEF WaitsForTarget
      <3>2. CASE q = r
        BY <1>1, <2>1, <2>2, <2>3, <3>2
      <3>3. CASE q # r
        <4>1. resolver'[q] = resolver[q] /\ resolver[q].id \in Nat
          BY <1>1, <2>2, <3>3, ZenonT(60) DEF Types, ResolverStates
        <4>2. resolver[q].id < nextId
          BY <3>1, <4>1, ZenonT(60) DEF LookupInv, WaitsForTarget
        <4>3. QED
          BY <1>1, <2>1, <2>3, <3>1, <4>1, <4>2 DEF LookupInv, WaitsForTarget
      <3>4. QED
        BY <3>2, <3>3
    <2>5. AnswerBinds'
      BY <2>2 DEF LookupInv, AnswerBinds
    <2>6. EngineHasOwner'
      BY <2>1, <2>3 DEF EngineHasOwner
    <2>7. QED
      BY <2>1, <2>4, <2>5, <2>6 DEF LookupInv, CacheLeads
  <1>4. QED
    BY <1>2, <1>3

\* ingest_tunnel_lease_store keeps it, whether the record binds or not.
LEMMA IngestStep ==
    ASSUME LookupInv, Types', NEW r \in Resolvers, NEW x \in Replies, Ingest(r, x)
    PROVE  LookupInv'
  <1>1. Types /\ UNCHANGED <<nextId, newest>> /\ engine' = NoLookup
    BY ZenonT(60) DEF LookupInv, Ingest, EngineAccepts
  <1>2. EngineHasOwner'
    BY <1>1, ZenonT(60) DEF EngineHasOwner
  <1>3. CacheLeads'
    <2>1. \A key \in DOMAIN cache :
             key \in DOMAIN cache' /\ cache[key].published <= cache'[key].published
      BY <1>1, CacheStep, ZenonT(60) DEF Ingest
    <2>2. \A key \in DOMAIN cache : cache[key].published \in Nat
      BY <1>1, LeaseAssumption, ZenonT(60) DEF Types
    <2>3. \A key \in DOMAIN cache' : cache'[key].published \in Nat
      BY LeaseAssumption DEF Types
    <2>4. QED
      BY <1>1, <2>1, <2>2, <2>3 DEF LookupInv, CacheLeads, Types
  <1>4. CASE Binds(resolver[r].id, x)
    <2>1. /\ pending' = Without(pending, resolver[r].id)
          /\ resolver' = [resolver EXCEPT ![r] =
                            [Idle EXCEPT !.at = "answered", !.answer = x]]
      BY <1>4 DEF Ingest
    <2>2. /\ resolver'[r].at = "answered" /\ resolver'[r].answer = x
          /\ \A q \in Resolvers \ {r} : resolver'[q] = resolver[q]
      BY <1>1, <2>1 DEF Types, Idle
    <2>3. /\ DOMAIN pending' \subseteq DOMAIN pending
          /\ \A id \in DOMAIN pending' : pending'[id] = pending[id]
      BY <2>1, ZenonT(60) DEF Without, Restrict
    <2>4. WaitsForTarget'
      BY <1>1, <2>2, <2>3, ZenonT(60) DEF LookupInv, WaitsForTarget
    <2>5. ASSUME TargetOf[r].destination # NoDestination
          PROVE  x.kind = "LeaseSet2" /\ x.key = TargetOf[r].destination
      <3>1. pending[resolver[r].id].destination = TargetOf[r].destination
        BY DEF LookupInv, WaitsForTarget, Ingest
      <3>2. QED
        BY <1>4, <2>5, <3>1, ZenonT(60) DEF Binds
    <2>6. AnswerBinds'
      BY <2>2, <2>5, ZenonT(60) DEF LookupInv, AnswerBinds
    <2>7. QED
      BY <1>2, <1>3, <2>4, <2>6 DEF LookupInv
  <1>5. CASE ~Binds(resolver[r].id, x)
    <2>1. UNCHANGED <<pending, resolver>>
      BY <1>5, ZenonT(60) DEF Ingest
    <2>2. QED
      BY <1>1, <1>2, <1>3, <2>1, ZenonT(60) DEF LookupInv, WaitsForTarget, AnswerBinds
  <1>6. QED
    BY <1>4, <1>5

\* A resolution that returns, or only counts another attempt, waits no longer or
\* waits for the same request.
LEMMA ResolverStep ==
    ASSUME LookupInv, Types', NEW r \in Resolvers,
           DispatchFails(r) \/ WindowEnds(r) \/ InstallRefused(r)
    PROVE  LookupInv'
  <1>1. Types /\ UNCHANGED <<nextId, engine, pending, cache, newest>>
    BY DEF LookupInv, DispatchFails, WindowEnds, InstallRefused, coordinator
  <1>2. \A q \in Resolvers \ {r} : resolver'[q] = resolver[q]
    BY <1>1, ReturnsType DEF DispatchFails, Undelivered, WindowEnds, InstallRefused, Types
  <1>3. \/ resolver'[r].at \in {"failed", "exhausted"}
        \/ /\ resolver[r].at = "waiting" /\ resolver'[r].at = "waiting"
           /\ resolver'[r].id = resolver[r].id
    <2>1. resolver \in [Resolvers -> ResolverStates]
      BY <1>1, ZenonT(60) DEF Types
    <2>2. CASE \E outcome \in {"failed", "exhausted"} : Returns(r, outcome)
      BY <1>1, <2>2, ReturnsType, ZenonT(60)
    <2>3. CASE resolver[r].at = "waiting" /\ resolver' = [resolver EXCEPT ![r].attempts = @ + 1]
      BY <2>1, <2>3, ZenonT(60) DEF ResolverStates
    <2>4. QED
      BY <2>2, <2>3 DEF DispatchFails, Undelivered, WindowEnds, InstallRefused
  <1>a. WaitsForTarget'
    BY <1>1, <1>2, <1>3, ZenonT(60) DEF LookupInv, WaitsForTarget
  <1>b. resolver'[r].at \notin {"answered", "installed"}
    BY <1>3, ZenonT(60)
  <1>4. AnswerBinds'
    BY <1>1, <1>2, <1>b, ZenonT(60) DEF LookupInv, AnswerBinds
  <1>5. QED
    BY <1>1, <1>a, <1>4, ZenonT(60) DEF LookupInv, CacheLeads, EngineHasOwner

\* What is installed: the record of the target's key, and for a destination the
\* cached one, which is no older than anything installed for it.
LEMMA InstallFacts ==
    ASSUME LookupInv, NEW r \in Resolvers, Install(r), Installable(r) # NoRecord
    PROVE  /\ Installable(r) \in Replies
           /\ Installable(r).key = TargetOf[r].key
           /\ TargetOf[r].destination # NoDestination =>
                 LET d == TargetOf[r].destination
                 IN  /\ d \in DOMAIN cache
                     /\ Installable(r) = cache[d]
                     /\ newest[d] <= cache[d].published
  <1>1. Types
    BY DEF LookupInv
  <1>2. CASE TargetOf[r].destination = NoDestination
    BY <1>1, <1>2 DEF Installable, IngestStore, Install, Types, ResolverStates
  <1>3. CASE TargetOf[r].destination # NoDestination
    <2> DEFINE d == TargetOf[r].destination
    <2>1. d = TargetOf[r].key
      BY <1>3, LeaseAssumption
    <2>2. d \in DOMAIN cache /\ Installable(r) = cache[d]
      BY <1>3, <2>1, ZenonT(60) DEF Installable
    <2>3. cache[d] \in Replies /\ cache[d].key = d /\ cache[d].published \in Nat
      BY <1>1, <2>2, LeaseAssumption, ZenonT(60) DEF Types
    <2>4. newest[d] \in Nat /\ d \in Destinations
      BY <1>1, ZenonT(60) DEF Types, Destinations
    <2>5. newest[d] <= cache[d].published
      BY <1>3, <2>3, <2>4 DEF LookupInv, CacheLeads
    <2>6. QED
      BY <1>3, <2>1, <2>2, <2>3, <2>5, ZenonT(60)
  <1>4. QED
    BY <1>2, <1>3, ZenonT(60)

\* The service's installation keeps it.
LEMMA InstallStep ==
    ASSUME LookupInv, Types', NEW r \in Resolvers, Install(r)
    PROVE  LookupInv'
  <1>1. Types /\ UNCHANGED <<nextId, engine, pending, cache>>
    BY ZenonT(60) DEF LookupInv, Install, coordinator
  <1>2. CASE Installable(r) = NoRecord
    <2>1. Returns(r, "failed") /\ UNCHANGED newest
      BY <1>2, ZenonT(60) DEF Install
    <2>2. /\ resolver'[r].at = "failed"
          /\ \A q \in Resolvers \ {r} : resolver'[q] = resolver[q]
      BY <1>1, <2>1, ReturnsType, ZenonT(60)
    <2>3. WaitsForTarget' /\ AnswerBinds'
      BY <1>1, <2>2, ZenonT(60) DEF LookupInv, WaitsForTarget, AnswerBinds
    <2>4. QED
      BY <1>1, <2>1, <2>3, ZenonT(60) DEF LookupInv, CacheLeads, EngineHasOwner
  <1>3. CASE Installable(r) # NoRecord
    <2> DEFINE x == Installable(r)
               d == TargetOf[r].destination
    <2>1. /\ resolver' = [resolver EXCEPT ![r] =
                            [Idle EXCEPT !.at = "installed", !.installed = x]]
          /\ newest' = [newest EXCEPT ![d] = IF x.published > @ THEN x.published ELSE @]
      BY <1>3 DEF Install
    <2>2. /\ resolver'[r].at = "installed" /\ resolver'[r].installed = x
          /\ \A q \in Resolvers \ {r} : resolver'[q] = resolver[q]
      BY <1>1, <2>1, ZenonT(60) DEF Types, Idle
    <2>3. WaitsForTarget' /\ AnswerBinds'
      <3>1. x.key = TargetOf[r].key
        BY <1>3, InstallFacts, ZenonT(60)
      <3>2. WaitsForTarget'
        BY <1>1, <2>2, ZenonT(60) DEF LookupInv, WaitsForTarget
      <3> HIDE DEF x
      <3>3. QED
        BY <1>1, <2>2, <3>1, <3>2, ZenonT(60) DEF LookupInv, AnswerBinds
    <2>4. CacheLeads'
      <3>1. SUFFICES ASSUME NEW e \in Destinations, e # NoDestination, newest'[e] > 0
                     PROVE  e \in DOMAIN cache' /\ newest'[e] <= cache'[e].published
        BY DEF CacheLeads
      <3>a. newest \in [Destinations -> Nat]
        BY <1>1, ZenonT(60) DEF Types
      <3>2. CASE e # d
        <4>1. newest'[e] = newest[e]
          BY <2>1, <3>1, <3>2, <3>a, ZenonT(60)
        <4>2. QED
          BY <1>1, <3>1, <4>1, ZenonT(60) DEF LookupInv, CacheLeads
      <3>3. CASE e = d
        <4>1. d \in DOMAIN cache /\ x = cache[d] /\ newest[d] <= cache[d].published
          BY <1>3, <3>1, <3>3, InstallFacts, ZenonT(60)
        <4> HIDE DEF x, d
        <4>2. newest'[d] = IF x.published > newest[d] THEN x.published ELSE newest[d]
          BY <2>1, <3>1, <3>3, <3>a, ZenonT(60)
        <4>3. cache[d].published \in Nat /\ newest[d] \in Nat
          <5>1. cache[d] \in Replies
            BY <1>1, <4>1, ZenonT(60) DEF Types
          <5>2. QED
            BY <3>1, <3>3, <3>a, <5>1, LeaseAssumption, ZenonT(60)
        <4>4. newest'[d] <= cache[d].published
          BY ONLY <4>1, <4>2, <4>3, SMTT(30), Z3T(30)
        <4>5. QED
          BY <1>1, <3>3, <4>1, <4>4, ZenonT(60)
      <3>4. QED
        BY <3>2, <3>3, ZenonT(60)
    <2>5. QED
      BY <1>1, <2>3, <2>4, ZenonT(60) DEF LookupInv, EngineHasOwner
  <1>4. QED
    BY <1>2, <1>3

\* note_tunnel_loss keeps it, counting a retry or giving the request up.
LEMMA TunnelLossStep ==
    ASSUME LookupInv, Types', NEW id \in 1..MaxRequests, NoteTunnelLoss(id)
    PROVE  LookupInv'
  <1>1. Types /\ UNCHANGED <<nextId, cache, resolver, newest>> /\ id \in DOMAIN pending
    BY DEF LookupInv, NoteTunnelLoss
  <1>2. CASE pending' = Without(pending, id) /\ EngineCancel
    BY <1>1, <1>2, LookupGivenUp, ZenonT(60) DEF Without, EngineCancel
  <1>3. CASE pending' = [pending EXCEPT ![id].retries = @ + 1] /\ UNCHANGED engine
    <2>1. /\ DOMAIN pending' = DOMAIN pending
          /\ \A i \in DOMAIN pending : /\ pending'[i].destination = pending[i].destination
                                       /\ pending'[i].key = pending[i].key
      BY <1>1, <1>3, ZenonT(60) DEF Types, Requests
    <2>2. WaitsForTarget'
      BY <1>1, <2>1 DEF LookupInv, WaitsForTarget
    <2>3. EngineHasOwner'
      BY <1>3, <2>1, ZenonT(60) DEF LookupInv, EngineHasOwner
    <2>4. QED
      BY <1>1, <2>2, <2>3 DEF LookupInv, CacheLeads, AnswerBinds
  <1>4. QED
    BY <1>2, <1>3 DEF NoteTunnelLoss

\* Every step keeps the lookup invariant.
LEMMA LookupStep == LookupInv /\ [Next]_vars => LookupInv'
  <1>1. SUFFICES ASSUME LookupInv, [Next]_vars PROVE LookupInv'
    OBVIOUS
  <1>2. Types'
    BY <1>1, TypesStep DEF LookupInv
  <1>3. ASSUME NEW r \in Resolvers, BeginLookup(r) PROVE LookupInv'
    BY <1>1, <1>2, <1>3, BeginLookupStep
  <1>4. ASSUME NEW r \in Resolvers, NEW x \in Replies, Ingest(r, x) PROVE LookupInv'
    BY <1>1, <1>2, <1>4, IngestStep
  <1>5. ASSUME NEW r \in Resolvers,
               DispatchFails(r) \/ WindowEnds(r) \/ InstallRefused(r)
        PROVE  LookupInv'
    BY <1>1, <1>2, <1>5, ResolverStep, ZenonT(60)
  <1>6. ASSUME NEW r \in Resolvers, Install(r) PROVE LookupInv'
    BY <1>1, <1>2, <1>6, InstallStep
  <1>7. ASSUME NEW p \in Publishers,
               BeginPublication(p) \/ ComposePublication(p)
                 \/ DeliverPublication(p) \/ PublishAgain(p)
        PROVE  LookupInv'
    <2>1. UNCHANGED <<engine, pending, cache, resolver, newest>> /\ nextId' >= nextId
      BY <1>1, <1>7
      DEF LookupInv, Types, BeginPublication, ComposePublication,
          DeliverPublication, PublishAgain, coordinator
    <2>2. QED
      BY <1>1, <1>2, <2>1, LookupFrame, ZenonT(60)
  <1>8. ASSUME NEW id \in 1..MaxRequests, CancelLookup(id) PROVE LookupInv'
    BY <1>1, <1>2, <1>8, LookupGivenUp DEF CancelLookup, Without, EngineCancel
  <1>9. ASSUME NEW id \in 1..MaxRequests, NoteTunnelLoss(id) PROVE LookupInv'
    BY <1>1, <1>2, <1>9, TunnelLossStep, ZenonT(60)
  <1>10. ASSUME ExpireLookups PROVE LookupInv'
    <2> DEFINE live == DOMAIN pending \ {id \in DOMAIN pending :
                                            pending[id].deadline <= now}
    <2>1. /\ pending' = Restrict(pending, live) /\ live \in SUBSET DOMAIN pending
          /\ engine' = NoLookup
          /\ UNCHANGED <<nextId, cache, resolver, newest>>
      BY <1>10, ZenonT(60) DEF ExpireLookups, EngineCancel
    <2>2. QED
      BY <1>1, <1>2, <2>1, LookupGivenUp, ZenonT(60)
  <1>11. ASSUME CorrelateStatus \/ (\E f \in Floodfills : Bootstrap(f)) \/ Tick
                  \/ UNCHANGED vars
         PROVE  LookupInv'
    <2>1. UNCHANGED <<engine, pending, cache, resolver, newest, nextId>>
      BY <1>11 DEF CorrelateStatus, Bootstrap, Tick, vars, coordinator
    <2>2. QED
      <3>1. nextId \in Nat
        BY <1>1, ZenonT(60) DEF LookupInv, Types
      <3>2. nextId' >= nextId
        BY ONLY <2>1, <3>1, SMTT(30), Z3T(30)
      <3>3. QED
        BY <1>1, <1>2, <2>1, <3>2, LookupFrame, ZenonT(60)
  <1>12. QED
    BY <1>1, <1>3, <1>4, <1>5, <1>6, <1>7, <1>8, <1>9, <1>10, <1>11 DEF Next

\* The inductive invariant of the lookups holds in every reachable state, with any
\* number of services and whatever replies, cancellations and expiries do.
THEOREM LookupInvariant == Spec => []LookupInv
  BY LookupInit, LookupStep, PTL DEF Spec

\* The engine never works for a request the coordinator has forgotten, whichever
\* of cancel_lookup, expire_lookups, note_tunnel_loss and a reply came first.
THEOREM EngineOwned == Spec => []EngineHasOwner
  <1>1. LookupInv => EngineHasOwner
    BY DEF LookupInv
  <1>2. QED
    BY <1>1, LookupInvariant, PTL

\* No resolution is completed by, or installs, a record of another target.
THEOREM AnswersBound == Spec => []AnswerBinds
  <1>1. LookupInv => AnswerBinds
    BY ZenonT(60) DEF LookupInv
  <1>2. QED
    BY <1>1, LookupInvariant, PTL

\* Only Install installs.
LEMMA InstalledByInstall ==
    ASSUME LookupInv, Next, NEW r \in Resolvers,
           resolver[r].at # "installed", resolver'[r].at = "installed"
    PROVE  Install(r) /\ Installable(r) # NoRecord
  <1>1. Types
    BY DEF LookupInv
  <1>2. ASSUME NEW q \in Resolvers, NEW outcome \in {"failed", "exhausted"},
               Returns(q, outcome)
        PROVE  FALSE
    <2>1. resolver'[q].at = outcome /\ (q # r => resolver'[r] = resolver[r])
      BY <1>1, <1>2, ReturnsType, ZenonT(60)
    <2>2. QED
      BY <2>1, ZenonT(60)
  <1>3. ~UNCHANGED resolver
    OBVIOUS
  <1>4. ASSUME NEW q \in Resolvers, BeginLookup(q) PROVE FALSE
    BY <1>1, <1>2, <1>4, ZenonT(60) DEF BeginLookup, Types, Idle
  <1>5. ASSUME NEW q \in Resolvers, NEW x \in Replies, Ingest(q, x) PROVE FALSE
    BY <1>1, <1>3, <1>5, ZenonT(60) DEF Ingest, Types, Idle
  <1>6. ASSUME NEW q \in Resolvers, DispatchFails(q) \/ InstallRefused(q) PROVE FALSE
    BY <1>2, <1>6, ZenonT(60) DEF DispatchFails, Undelivered, InstallRefused
  <1>7. ASSUME NEW q \in Resolvers, WindowEnds(q) PROVE FALSE
    BY <1>1, <1>2, <1>7 DEF WindowEnds, Types, ResolverStates
  <1>8. ASSUME NEW q \in Resolvers, Install(q)
        PROVE  q = r /\ Installable(r) # NoRecord
    BY <1>1, <1>2, <1>8 DEF Install, Types
  <1>9. QED
    BY <1>3, <1>4, <1>5, <1>6, <1>7, <1>8, ZenonT(60)
    DEF Next, BeginPublication, ComposePublication, DeliverPublication,
        PublishAgain, CancelLookup, NoteTunnelLoss, ExpireLookups,
        CorrelateStatus, Bootstrap, Tick

\* No service installs a lease set older than one installed before it for the same
\* destination, though the engine completes a lookup whatever the cache made of
\* the record: what is installed is the cache's record, which never goes back.
THEOREM InstallsNeverGoBack == Spec => InstallsAdvance
  <1>1. ASSUME LookupInv, [Next]_vars, NEW r \in Resolvers,
               resolver[r].at # "installed", resolver'[r].at = "installed",
               TargetOf[r].destination # NoDestination
        PROVE  resolver'[r].installed.published >= newest[TargetOf[r].destination]
    <2> DEFINE d == TargetOf[r].destination
    <2>1. Next
      BY <1>1, ZenonT(60) DEF vars
    <2>2. Install(r) /\ Installable(r) # NoRecord
      BY <1>1, <2>1, InstalledByInstall, ZenonT(60)
    <2>3. /\ d \in DOMAIN cache /\ Installable(r) = cache[d]
          /\ newest[d] <= cache[d].published
      BY <1>1, <2>2, InstallFacts
    <2>4. resolver'[r].installed = Installable(r)
      BY <1>1, <2>2, ZenonT(60) DEF Install, LookupInv, Types, Idle
    <2>5. cache[d].published \in Nat /\ newest[d] \in Nat
      BY <1>1, <2>3, LeaseAssumption DEF LookupInv, Types, Destinations
    <2>6. QED
      BY <2>3, <2>4, <2>5, ZenonT(60)
  <1> DEFINE Newest ==
        \A r \in Resolvers :
          /\ resolver[r].at # "installed" /\ resolver'[r].at = "installed"
          /\ TargetOf[r].destination # NoDestination
          => resolver'[r].installed.published >= newest[TargetOf[r].destination]
  <1>2. LookupInv /\ [Next]_vars => [Newest]_vars
    BY <1>1, ZenonT(60)
  <1>3. QED
    BY <1>2, LookupInvariant, PTL DEF Spec, InstallsAdvance

---------------------------------------------------------------------------
(* Publications.                                                           *)

\* The slot invariant holds at the start.
LEMMA SlotInit == Init => SlotInv
  <1>1. SUFFICES ASSUME Init PROVE SlotInv
    OBVIOUS
  <1>2. \A p \in Publishers : publisher[p].at = "idle"
    BY <1>1, ZenonT(60) DEF Init
  <1>3. DOMAIN publications = {}
    BY <1>1 DEF Init
  <1>4. QED
    BY <1>1, <1>2, <1>3, TypesInit, ZenonT(60) DEF SlotInv, OneInFlight, SlotsHeldByLive

\* Steps of the lookups and of the clock do not touch a publication.
LEMMA SlotFrame ==
    ASSUME SlotInv, Types', UNCHANGED <<publications, publisher, accepted>>
    PROVE  SlotInv'
  BY ZenonT(60) DEF SlotInv, OneInFlight, SlotsHeldByLive

\* begin_ls2_publication keeps it: it is only called when nothing is in flight.
LEMMA BeginPublicationStep ==
    ASSUME SlotInv, Types', NEW p \in Publishers, BeginPublication(p)
    PROVE  SlotInv'
  <1>1. Types /\ UNCHANGED accepted /\ publisher[p].at = "idle"
    BY ZenonT(60) DEF SlotInv, BeginPublication
  <1>2. \A q \in Publishers : publisher[q].at \notin {"begun", "composed"}
    BY ZenonT(60) DEF BeginPublication, Unoccupied
  <1>3. CASE Publishes(p, "failed") /\ UNCHANGED publications
    <2>1. /\ publisher'[p].at = "failed"
          /\ \A q \in Publishers \ {p} : publisher'[q] = publisher[q]
      BY <1>1, <1>3 DEF Publishes, Types, PublisherStates
    <2>2. QED
      BY <1>1, <1>2, <1>3, <2>1, ZenonT(60) DEF SlotInv, OneInFlight, SlotsHeldByLive
  <1>4. CASE /\ publications' = With(publications, nextId, 0)
             /\ publisher' = [publisher EXCEPT ![p] = [at |-> "begun", id |-> nextId]]
    <2>1. /\ publisher'[p].at = "begun" /\ publisher'[p].id = nextId
          /\ \A q \in Publishers \ {p} : publisher'[q] = publisher[q]
      BY <1>1, <1>4 DEF Types
    <2>2. /\ DOMAIN publications' = DOMAIN publications \cup {nextId}
          /\ publications'[nextId] = 0
      BY <1>4, ZenonT(60) DEF With
    <2>3. DOMAIN publications \subseteq accepted
      BY <1>2, ZenonT(60) DEF SlotInv, SlotsHeldByLive
    <2>4. OneInFlight'
      BY <1>2, <2>1, <2>2, ZenonT(60) DEF OneInFlight
    <2>5. SlotsHeldByLive'
      BY <1>1, <1>2, <2>1, <2>2, <2>3, ZenonT(60) DEF SlotsHeldByLive
    <2>6. QED
      BY <2>4, <2>5 DEF SlotInv
  <1>5. QED
    BY <1>3, <1>4, ZenonT(60) DEF BeginPublication

\* Beside the publication in flight only accepted ones hold a slot.
LEMMA OthersAccepted ==
    ASSUME SlotInv, NEW p \in Publishers, publisher[p].at \in {"begun", "composed"}
    PROVE  /\ DOMAIN publications \subseteq {publisher[p].id} \cup accepted
           /\ \A q \in Publishers \ {p} : publisher[q].at \notin {"begun", "composed"}
  BY ZenonT(60) DEF SlotInv, OneInFlight, SlotsHeldByLive

\* cancel_ls2_publication keeps it.
LEMMA GiveUpStep ==
    ASSUME SlotInv, Types', NEW p \in Publishers,
           publisher[p].at \in {"begun", "composed"}, GiveUp(p), UNCHANGED accepted
    PROVE  SlotInv'
  <1>1. /\ publisher'[p].at = "failed"
        /\ \A q \in Publishers \ {p} : publisher'[q] = publisher[q]
    <2>1. publisher \in [Publishers -> PublisherStates]
      BY ZenonT(60) DEF SlotInv, Types
    <2>2. QED
      BY <2>1, ZenonT(60) DEF GiveUp, Publishes, PublisherStates
  <1>2. DOMAIN publications' = DOMAIN publications \ {publisher[p].id}
    BY ZenonT(60) DEF GiveUp, Without, Restrict
  <1>3. /\ DOMAIN publications' \subseteq accepted
        /\ \A q \in Publishers : publisher'[q].at \notin {"begun", "composed"}
    <2>1. /\ DOMAIN publications \subseteq {publisher[p].id} \cup accepted
          /\ \A q \in Publishers \ {p} : publisher[q].at \notin {"begun", "composed"}
      BY OthersAccepted, ZenonT(60)
    <2>2. QED
      BY <1>1, <1>2, <2>1
  <1>4. OneInFlight'
    BY <1>3, ZenonT(60) DEF OneInFlight
  <1>5. SlotsHeldByLive'
    BY <1>3, ZenonT(60) DEF SlotsHeldByLive
  <1>6. QED
    BY <1>4, <1>5, ZenonT(60) DEF SlotInv

\* Composing and delivering keep it, on their failing paths too.
LEMMA InFlightStep ==
    ASSUME SlotInv, Types', NEW p \in Publishers,
           ComposePublication(p) \/ DeliverPublication(p)
    PROVE  SlotInv'
  <1>1. publisher[p].at \in {"begun", "composed"} /\ Types
    BY ZenonT(60) DEF ComposePublication, DeliverPublication, SlotInv
  <1>2. CASE GiveUp(p) /\ UNCHANGED accepted
    BY <1>1, <1>2, GiveUpStep, ZenonT(60)
  <1>3. CASE /\ publications' = [publications EXCEPT ![publisher[p].id] = 1]
             /\ Publishes(p, "composed") /\ UNCHANGED accepted
    <2>1. /\ publisher'[p].at = "composed" /\ publisher'[p].id = publisher[p].id
          /\ \A q \in Publishers \ {p} : publisher'[q] = publisher[q]
      BY <1>1, <1>3 DEF Publishes, Types, PublisherStates
    <2>2. DOMAIN publications' = DOMAIN publications
      BY <1>3
    <2>3. OneInFlight'
      BY <1>1, <2>1, OthersAccepted, ZenonT(60) DEF OneInFlight
    <2>4. SlotsHeldByLive'
      BY <1>1, <1>3, <2>1, <2>2, OthersAccepted, ZenonT(60) DEF SlotsHeldByLive
    <2>5. QED
      BY <2>3, <2>4 DEF SlotInv
  <1>4. CASE /\ Publishes(p, "accepted") /\ UNCHANGED publications
             /\ accepted' = accepted \cup {publisher[p].id}
    <2>1. /\ publisher'[p].at = "accepted"
          /\ \A q \in Publishers \ {p} : publisher'[q] = publisher[q]
      BY <1>1, <1>4 DEF Publishes, Types, PublisherStates
    <2>2. QED
      BY <1>1, <1>4, <2>1, OthersAccepted, ZenonT(60) DEF SlotInv, OneInFlight, SlotsHeldByLive
  <1>5. QED
    BY <1>2, <1>3, <1>4, ZenonT(60) DEF ComposePublication, DeliverPublication

\* Every step keeps the slot invariant.
LEMMA SlotStep == SlotInv /\ [Next]_vars => SlotInv'
  <1>1. SUFFICES ASSUME SlotInv, [Next]_vars PROVE SlotInv'
    OBVIOUS
  <1>2. Types /\ Types'
    BY <1>1, TypesStep DEF SlotInv
  <1>3. ASSUME NEW p \in Publishers, BeginPublication(p) PROVE SlotInv'
    BY <1>1, <1>2, <1>3, BeginPublicationStep
  <1>4. ASSUME NEW p \in Publishers, ComposePublication(p) \/ DeliverPublication(p)
        PROVE  SlotInv'
    BY <1>1, <1>2, <1>4, InFlightStep, ZenonT(60)
  <1>5. ASSUME NEW p \in Publishers, PublishAgain(p) PROVE SlotInv'
    <2>1. /\ publisher[p].at \notin {"begun", "composed"} /\ publisher'[p].at = "idle"
          /\ \A q \in Publishers \ {p} : publisher'[q] = publisher[q]
          /\ UNCHANGED <<publications, accepted>>
      BY <1>2, <1>5 DEF PublishAgain, Types, coordinator
    <2>2. /\ \A q \in Publishers : publisher'[q].at \in {"begun", "composed"} => publisher'[q] = publisher[q]
          /\ \A q \in Publishers : publisher[q].at \in {"begun", "composed"} => publisher'[q] = publisher[q]
      BY <2>1
    <2>3. OneInFlight'
      BY <1>1, <2>1, <2>2, ZenonT(60) DEF SlotInv, OneInFlight
    <2>4. SlotsHeldByLive'
      BY <1>1, <2>1, <2>2 DEF SlotInv, SlotsHeldByLive
    <2>5. QED
      BY <1>2, <2>3, <2>4, ZenonT(60) DEF SlotInv
  <1>6. ASSUME CorrelateStatus PROVE SlotInv'
    <2>1. PICK id \in DOMAIN publications :
             publications[id] = 1 /\ publications' = Without(publications, id)
      BY <1>6 DEF CorrelateStatus
    <2>2. /\ DOMAIN publications' = DOMAIN publications \ {id}
          /\ \A i \in DOMAIN publications' : publications'[i] = publications[i]
      BY <2>1 DEF Without, Restrict
    <2>3. UNCHANGED <<publisher, accepted>>
      BY <1>6 DEF CorrelateStatus
    <2>4. \A p \in Publishers : publisher[p].at = "begun" => publisher[p].id # id
      <3>1. 0 # 1
        OBVIOUS
      <3>2. QED
        BY <1>1, <2>1, <3>1, ZenonT(60) DEF SlotInv, OneInFlight
    <2>5. OneInFlight'
      BY <1>1, <2>2, <2>3, <2>4, ZenonT(60) DEF SlotInv, OneInFlight
    <2>6. SlotsHeldByLive'
      BY <1>1, <2>2, <2>3, <2>4 DEF SlotInv, SlotsHeldByLive
    <2>7. QED
      BY <1>2, <2>5, <2>6 DEF SlotInv
  <1>7. ASSUME UNCHANGED <<publications, publisher, accepted>> PROVE SlotInv'
    BY <1>1, <1>2, <1>7, SlotFrame
  <1>8. QED
    BY <1>1, <1>3, <1>4, <1>5, <1>6, <1>7, ZenonT(60)
    DEF Next, vars, coordinator, BeginLookup, Ingest, DispatchFails, WindowEnds,
        Install, InstallRefused, CancelLookup, NoteTunnelLoss, ExpireLookups,
        Bootstrap, Tick

\* A publication slot is never held by an attempt that failed, and an attempt in
\* flight keeps its slot, whatever acknowledgements arrive for the message id all
\* publications share (publish_service_ls2_for_service).
THEOREM SlotsAccountedFor == Spec => []SlotsHeldByLive
  <1>1. SlotInv => SlotsHeldByLive
    BY DEF SlotInv
  <1>2. QED
    BY <1>1, SlotInit, SlotStep, PTL DEF Spec

---------------------------------------------------------------------------
(* The cache.                                                              *)

CacheInv == IsFiniteSet(DOMAIN cache) /\ CacheExact

\* One element per byte of the records that f files under the keys.
Bytes(keys, f) == UNION {{key} \X (1 .. f[key].len) : key \in keys}

\* The bytes under some keys depend on the records of these keys only.
LEMMA BytesSame ==
    ASSUME NEW S, NEW f, NEW g, \A key \in S : g[key] = f[key]
    PROVE  Bytes(S, g) = Bytes(S, f)
  BY DEF Bytes

\* Finitely many records have finitely many bytes.
LEMMA BytesFinite ==
    ASSUME NEW S, IsFiniteSet(S), NEW f, \A key \in S : f[key].len \in Nat
    PROVE  IsFiniteSet(Bytes(S, f)) /\ Cardinality(Bytes(S, f)) \in Nat
  <1> DEFINE B == [key \in S |-> {key} \X (1 .. f[key].len)]
             T == {B[key] : key \in S}
  <1>1. IsFiniteSet(T)
    <2>1. B \in Surjection(S, T)
      BY ZenonT(60) DEF Surjection
    <2>2. QED
      BY <2>1, FS_Surjection
  <1>2. ASSUME NEW b \in T PROVE IsFiniteSet(b)
    <2>1. PICK key \in S : b = {key} \X (1 .. f[key].len)
      OBVIOUS
    <2>2. f[key].len \in Int /\ 1 \in Int
      OBVIOUS
    <2>3. IsFiniteSet(1 .. f[key].len)
      BY <2>2, FS_Interval, ZenonT(60)
    <2>4. QED
      BY <2>1, <2>3, FS_Singleton, FS_Product, ZenonT(60)
  <1>3. Bytes(S, f) = UNION T
    BY DEF Bytes
  <1> HIDE DEF T
  <1>4. IsFiniteSet(UNION T)
    BY <1>1, <1>2, FS_UNION, ZenonT(60)
  <1>5. QED
    BY <1>3, <1>4, FS_CardinalityType, ZenonT(60)

\* A record under one more key adds its length.
LEMMA BytesAdd ==
    ASSUME NEW f, NEW S, IsFiniteSet(S), \A key \in S : f[key].len \in Nat,
           NEW k, k \notin S, f[k].len \in Nat
    PROVE  Cardinality(Bytes(S \cup {k}, f)) = Cardinality(Bytes(S, f)) + f[k].len
  <1> DEFINE A == Bytes(S, f)
             n == f[k].len
             X == {k} \X (1 .. n)
  <1>0. n \in Nat /\ n \in Int /\ 1 \in Int
    OBVIOUS
  <1>1. Bytes(S \cup {k}, f) = A \cup X
    BY ZenonT(60) DEF Bytes
  <1>2. A \cap X = {}
    BY DEF Bytes
  <1>3. IsFiniteSet(A) /\ Cardinality(A) \in Nat
    BY BytesFinite
  <1> HIDE DEF n
  <1>4. IsFiniteSet(X) /\ Cardinality(X) = n
    <2>1. IsFiniteSet(1 .. n) /\ Cardinality(1 .. n) = n
      <3>1. IsFiniteSet(1 .. n) /\ Cardinality(1 .. n) = IF 1 > n THEN 0 ELSE n - 1 + 1
        BY <1>0, FS_Interval, ZenonT(60)
      <3>2. QED
        BY ONLY <1>0, <3>1, SMTT(30), Z3T(30)
    <2>2. IsFiniteSet({k}) /\ Cardinality({k}) = 1
      BY FS_Singleton, ZenonT(60)
    <2>3. IsFiniteSet(X) /\ Cardinality(X) = Cardinality({k}) * Cardinality(1 .. n)
      BY <2>1, <2>2, FS_Product, ZenonT(60)
    <2>4. QED
      BY ONLY <1>0, <2>1, <2>2, <2>3, SMTT(30), Z3T(30)
  <1> HIDE DEF A, X
  <1>5. Cardinality(A \cup X) = Cardinality(A) + Cardinality(X) - Cardinality(A \cap X)
    BY <1>3, <1>4, FS_Union, ZenonT(60)
  <1>6. Cardinality(A \cap X) = 0
    BY <1>2, FS_EmptySet, ZenonT(60)
  <1>7. Cardinality(A \cup X) = Cardinality(A) + n
    BY ONLY <1>0, <1>3, <1>4, <1>5, <1>6, SMTT(30), Z3T(30)
  <1>8. QED
    BY <1>1, <1>7, ZenonT(60) DEF A, n

\* A record the cache takes is counted in place of the one it replaces.
LEMMA InsertCounted ==
    ASSUME Types, CacheInv, NEW x \in Replies, Takes(x), StoreInsert(x)
    PROVE  CacheInv'
  <1> DEFINE f == cache
             g == cache'
             k == x.key
             D == DOMAIN cache
             S == D \ {k}
  <1>1. /\ g = With(f, k, x) /\ DOMAIN g = S \cup {k} /\ g[k] = x
        /\ \A key \in S : g[key] = f[key]
        /\ cacheBytes' = cacheBytes + x.len - HeldBytes(x)
    BY ZenonT(60) DEF StoreInsert, With
  <1>2. /\ \A key \in D : f[key].len \in Nat
        /\ \A key \in S : g[key].len \in Nat
        /\ x.len \in Nat /\ MaxBytes \in Nat
    BY <1>1, LeaseAssumption DEF Types
  <1>3. IsFiniteSet(D) /\ IsFiniteSet(S) /\ IsFiniteSet(S \cup {k})
    BY FS_RemoveElement, FS_AddElement, ZenonT(60) DEF CacheInv
  <1>4. Bytes(S, g) = Bytes(S, f)
    BY <1>1, BytesSame, ZenonT(60)
  <1>5. /\ BytesUnder(DOMAIN cache) = Bytes(D, f)
        /\ BytesUnder(DOMAIN cache)' = Bytes(S \cup {k}, g)
    BY <1>1, ZenonT(60) DEF BytesUnder, Bytes
  <1>6. k \notin S /\ g[k].len \in Nat /\ g[k].len = x.len
    BY <1>1, <1>2, ZenonT(60)
  <1>7. cacheBytes = Cardinality(Bytes(D, f)) /\ cacheBytes <= MaxBytes
    BY <1>5, ZenonT(60) DEF CacheInv, CacheExact
  <1>8. Cardinality(D) \in Nat /\ Cardinality(S \cup {k}) \in Nat /\ Cardinality(Bytes(D, f)) \in Nat
    BY <1>2, <1>3, BytesFinite, FS_CardinalityType, ZenonT(60)
  <1>9. Cardinality(D) <= MaxRecords /\ MaxRecords \in Nat
    BY LeaseAssumption, ZenonT(60) DEF CacheInv, CacheExact
  <1>10. k \in D => /\ D = S \cup {k} /\ HeldBytes(x) = f[k].len
                    /\ x.len > f[k].len => cacheBytes + x.len - f[k].len <= MaxBytes
    BY ZenonT(60) DEF HeldBytes, Takes
  <1>11. k \notin D => /\ D = S /\ HeldBytes(x) = 0 /\ Cardinality(D) < MaxRecords
                       /\ cacheBytes + x.len <= MaxBytes
    BY ZenonT(60) DEF HeldBytes, Takes
  <1>12. k \in D => f[k].len \in Nat
    BY <1>2, ZenonT(60)
  <1>13. IsFiniteSet(DOMAIN cache)' /\ Cardinality(DOMAIN cache)' = Cardinality(S \cup {k})
    BY <1>1, <1>3, ZenonT(60)
  <1>14. k \notin D => Cardinality(S \cup {k}) = Cardinality(D) + 1
    BY <1>3, <1>11, FS_AddElement, ZenonT(60)
  <1> HIDE DEF f, g, k, D, S
  <1>15. Cardinality(Bytes(S \cup {k}, g)) = Cardinality(Bytes(S, g)) + g[k].len
    BY ONLY <1>2, <1>3, <1>6, BytesAdd, ZenonT(60)
  <1>16. k \in D => Cardinality(Bytes(S \cup {k}, f)) = Cardinality(Bytes(S, f)) + f[k].len
    BY <1>2, <1>3, <1>6, <1>10, <1>12, BytesAdd, ZenonT(60)
  <1>17. Cardinality(Bytes(S, f)) \in Nat
    BY <1>2, <1>3, BytesFinite, ZenonT(60) DEF S
  <1>18. /\ cacheBytes' = Cardinality(Bytes(S \cup {k}, g)) /\ cacheBytes' <= MaxBytes
         /\ Cardinality(S \cup {k}) <= MaxRecords
    <2>1. CASE k \in D
      <3>1. Cardinality(Bytes(D, f)) = Cardinality(Bytes(S, f)) + f[k].len
        BY ONLY <2>1, <1>10, <1>16, ZenonT(60)
      <3>2. Cardinality(Bytes(S \cup {k}, g)) = Cardinality(Bytes(S, f)) + x.len
        BY ONLY <1>4, <1>6, <1>15, ZenonT(60)
      <3>3. cacheBytes' = cacheBytes + x.len - f[k].len
        BY ONLY <2>1, <1>1, <1>10, ZenonT(60)
      <3>4. cacheBytes' = Cardinality(Bytes(S \cup {k}, g)) /\ cacheBytes' <= MaxBytes
        <4>1. /\ x.len \in Nat /\ f[k].len \in Nat /\ MaxBytes \in Nat
              /\ x.len > f[k].len => cacheBytes' <= MaxBytes
          BY ONLY <2>1, <3>3, <1>2, <1>10, <1>12, ZenonT(60)
        <4>2. QED
          BY ONLY <3>1, <3>2, <3>3, <4>1, <1>7, <1>17, SMTT(30), Z3T(30)
      <3>5. Cardinality(S \cup {k}) <= MaxRecords
        BY ONLY <2>1, <1>9, <1>10, ZenonT(60)
      <3>6. QED
        BY <3>4, <3>5, ZenonT(60)
    <2>2. CASE k \notin D
      <3>1. /\ Bytes(D, f) = Bytes(S, g) /\ g[k].len = x.len /\ x.len \in Nat /\ MaxBytes \in Nat
            /\ cacheBytes' = cacheBytes + x.len - 0 /\ cacheBytes + x.len <= MaxBytes
        BY ONLY <2>2, <1>1, <1>2, <1>4, <1>6, <1>11, ZenonT(60)
      <3>2. cacheBytes' = Cardinality(Bytes(S \cup {k}, g)) /\ cacheBytes' <= MaxBytes
        BY ONLY <3>1, <1>7, <1>8, <1>15, SMTT(30), Z3T(30)
      <3>3. Cardinality(S \cup {k}) <= MaxRecords
        BY ONLY <2>2, <1>8, <1>9, <1>11, <1>14, SMTT(30), Z3T(30)
      <3>4. QED
        BY <3>2, <3>3, ZenonT(60)
    <2>3. QED
      BY <2>1, <2>2, ZenonT(60)
  <1>19. QED
    BY ONLY <1>5, <1>13, <1>18, ZenonT(60) DEF CacheInv, CacheExact

\* Only a reply the engine accepts reaches the cache.
LEMMA CacheInvStep == Types /\ CacheInv /\ [Next]_vars => CacheInv'
  <1>1. SUFFICES ASSUME Types, CacheInv, [Next]_vars PROVE CacheInv'
    OBVIOUS
  <1>2. ASSUME UNCHANGED <<cache, cacheBytes>> PROVE CacheInv'
    BY <1>1, <1>2, ZenonT(60) DEF CacheInv, CacheExact, BytesUnder
  <1>3. ASSUME NEW r \in Resolvers, NEW x \in Replies, Ingest(r, x) PROVE CacheInv'
    <2>1. CASE Takes(x) /\ StoreInsert(x)
      BY <1>1, <1>3, <2>1, InsertCounted, ZenonT(60)
    <2>2. QED
      BY <1>2, <1>3, <2>1 DEF Ingest, EngineAccepts, StoreInsert
  <1>4. ASSUME NEW r \in Resolvers,
               BeginLookup(r) \/ DispatchFails(r) \/ WindowEnds(r) \/ Install(r) \/ InstallRefused(r)
        PROVE  UNCHANGED <<cache, cacheBytes>>
    BY <1>4, ZenonT(60) DEF BeginLookup, DispatchFails, WindowEnds, Install, InstallRefused, coordinator
  <1>5. ASSUME NEW p \in Publishers,
               BeginPublication(p) \/ ComposePublication(p) \/ DeliverPublication(p) \/ PublishAgain(p)
        PROVE  UNCHANGED <<cache, cacheBytes>>
    BY <1>5 DEF BeginPublication, ComposePublication, DeliverPublication, PublishAgain, coordinator
  <1>6. ASSUME NEW id, CancelLookup(id) \/ NoteTunnelLoss(id)
        PROVE  UNCHANGED <<cache, cacheBytes>>
    BY <1>6, ZenonT(60) DEF CancelLookup, NoteTunnelLoss
  <1>7. ASSUME \/ ExpireLookups \/ CorrelateStatus \/ Tick
               \/ \E f \in Floodfills : Bootstrap(f)
               \/ UNCHANGED vars
        PROVE  UNCHANGED <<cache, cacheBytes>>
    BY <1>7, ZenonT(60) DEF ExpireLookups, CorrelateStatus, Tick, Bootstrap, vars, coordinator
  <1>8. QED
    BY <1>1, <1>2, <1>3, <1>4, <1>5, <1>6, <1>7 DEF Next

\* The lease-set cache never loses count of its bytes and never exceeds its
\* ceilings, whatever records arrive in whatever order (LeaseSet2Store::insert).
THEOREM CacheCounted == Spec => []CacheExact
  <1>1. Init => CacheInv
    <2>1. SUFFICES ASSUME Init PROVE CacheInv
      OBVIOUS
    <2>2. DOMAIN cache = {} /\ cacheBytes = 0
      BY <2>1 DEF Init
    <2>3. BytesUnder(DOMAIN cache) = {}
      BY <2>2, ZenonT(60) DEF BytesUnder
    <2>4. IsFiniteSet({}) /\ Cardinality({}) = 0
      BY FS_EmptySet, ZenonT(60)
    <2>5. MaxBytes \in Nat /\ MaxRecords \in Nat
      BY LeaseAssumption, ZenonT(60)
    <2>6. IsFiniteSet(DOMAIN cache) /\ Cardinality(DOMAIN cache) <= MaxRecords
      <3>1. IsFiniteSet(DOMAIN cache) /\ Cardinality(DOMAIN cache) = 0
        BY ONLY <2>2, <2>4, ZenonT(60)
      <3>2. QED
        BY <2>5, <3>1
    <2>7. cacheBytes = Cardinality(BytesUnder(DOMAIN cache))
      BY ONLY <2>2, <2>3, <2>4, ZenonT(60)
    <2>8. cacheBytes <= MaxBytes
      BY ONLY <2>2, <2>5, SMTT(30), Z3T(30)
    <2>9. QED
      BY ONLY <2>6, <2>7, <2>8, ZenonT(60) DEF CacheInv, CacheExact
  <1>2. LookupInv => Types
    BY DEF LookupInv
  <1>3. CacheInv => CacheExact
    BY DEF CacheInv
  <1>4. QED
    BY <1>1, <1>2, <1>3, CacheInvStep, LookupInvariant, PTL DEF Spec

=============================================================================
