\* The kubelet's default configuration paths, which change three times during the
\* call; the call ends, so the system may stop.
SPECIFICATION Spec
CONSTANTS
    Candidates <- MCCandidates
    Version = {v1, v2, v3}
    Unreadable = {v3}
    Nameless = {v2}
    Foreign = {v1}
    MaxChanges = 3
INVARIANTS FieldsWereTrue CandidatesInOrder
CHECK_DEADLOCK FALSE
