\* Two callers over a session with one inbound peer and one completion: every
\* call returns.
SPECIFICATION FairSpec
CONSTANTS
    Callers = {c1, c2}
    Listener = listener
    Dialers = {}
    Pollers = {}
    Peers = {k1}
    Completions = {m1}
    Outages = TRUE
    None = None
PROPERTIES CallsReturn
