\* Two requests race on the host's root and on one container's, whose files are
\* edited or replaced once.
SPECIFICATION Spec
CONSTANTS
    Req = {q1, q2}
    Root = {host, proc}
    Id = {d1}
    Name = {n1}
    Item = {i1, i2, i3}
    EditableRoot = {proc}
    ProcRoot = {proc}
    MaxEdits = 1
SYMMETRY Symmetry
INVARIANTS NamesComeFromTheirFile FaultsOnlyFromRaces
PROPERTIES EntriesAreKept ImplementsNameService
