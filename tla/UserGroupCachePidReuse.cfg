\* One request at a time on a container's root whose pid is reused once.
SPECIFICATION Spec
CONSTANTS
    Req = {q1}
    Root = {proc}
    Id = {d1}
    Name = {n1, n2}
    Item = {i1, i2}
    EditableRoot = {}
    ProcRoot = {proc}
    MaxEdits = 1
INVARIANT NamesAreFresh
