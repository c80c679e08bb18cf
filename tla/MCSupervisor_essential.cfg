\* The essential service fails while a service that need not start is starting.
CONSTANTS
    store = store
    app = app
    web = web
    NoService = NoService
    Services = {store, app, web}
    Order <- AppOrder
    Deps <- AppDeps
    Class <- AppClass
    StartupOptional = {app}
    ExhaustionShutdown = {}
    RestartAttempts = 1
    Resets = {web}
SPECIFICATION SupervisorSpec
INVARIANT EssentialFailureIsFatal
CHECK_DEADLOCK FALSE
