---------------------------- MODULE MCSupervisor ----------------------------
(* A small service graph for TLC: an essential store, an app that need not
   start, and a restartable web that depends on app. *)
EXTENDS Supervisor, TLC

CONSTANTS store, app, web

AppOrder == <<store, app, web>>
AppDeps == (store :> {}) @@ (app :> {}) @@ (web :> {app})
AppClass == (store :> "essential") @@ (app :> "degradable") @@ (web :> "restartable")

=============================================================================
