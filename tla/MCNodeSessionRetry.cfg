SPECIFICATION Spec
CONSTANTS
    Callers = {c1, c2}
    Listener = listener
    Dialers = {}
    Pollers = {}
    Peers = {k1}
    Completions = {}
    Outages = TRUE
    None = None
INVARIANTS RetriesAreAttempts
