\* Two callers racing unlock, use, lock and shutdown over a session with one
\* dialer, one poller, one inbound peer and one completion.  Storage that does
\* not answer only delays steps, so the outages are left to the liveness run.
SPECIFICATION Spec
CONSTANTS
    Callers = {c1, c2}
    Listener = listener
    Dialers = {d1}
    Pollers = {p1}
    Peers = {k1}
    Completions = {m1}
    Outages = FALSE
    None = None
SYMMETRY Alike
INVARIANTS TypeOK FenceOutlivesWriters ShutdownIsFinal DatabaseOutlivesUsers
PROPERTIES FailuresKeepTheFence
