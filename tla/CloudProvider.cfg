\* Two requests at once and the three metadata APIs, each of which begins and
\* ceases to work at any time; all requests end, so the system may stop.
SPECIFICATION FairSpec
CONSTANTS
    Req = {q1, q2}
    API = 3
INVARIANTS OneClient EveryGetHasDeadline WorkingAPIFound
PROPERTIES RequestEnds ConnectionsReleased
CHECK_DEADLOCK FALSE
