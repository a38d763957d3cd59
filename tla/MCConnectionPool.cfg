\* Two databases, one of them a template, over a pool of two connections.
SPECIFICATION Spec
CONSTANTS
    c1 = c1
    c2 = c2
    c3 = c3
    c4 = c4
    k1 = k1
    k2 = k2
    k3 = k3
    None = None
    Db = {"prod", "postgres"}
    Template = {"postgres"}
    Conn = {c1, c2, c3, c4}
    Cursor = {k1, k2, k3}
    MaxConn = 2
SYMMETRY MCSymmetry
INVARIANTS
    WithinLimit
    NoSharedConnection
    NoOrphan
PROPERTY
    IsSessions
