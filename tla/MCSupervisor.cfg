\* A service that need not start, and a restartable one that depends on it.
CONSTANTS
    store = store
    app = app
    web = web
    NoService = NoService
    Services = {store, app, web}
    Order <- AppOrder
    Deps <- AppDeps
    Class <- AppClass
    StartupOptional = {app}
    ExhaustionShutdown = {web}
    RestartAttempts = 2
    Resets = {web}
SPECIFICATION SupervisorSpec
INVARIANTS ReadinessGate ReportComplete
PROPERTIES StartupDegradationSparesDependents RunDecided
CHECK_DEADLOCK FALSE
