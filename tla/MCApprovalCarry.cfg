\* A picking, its back order, the inventories with their ids, and a user that approves nothing.
SPECIFICATION Spec
CONSTANTS
    Doc = {"p1", "p2", "v1", "v2"}
    Item = {"amount", "count"}
    User = {"guest"}
    Content = {"small", "big", "huge"}
    Hook = {"force_assign"}
    HashVal = {"small", "big", "huge", "True"}
    ForceAssign = "force_assign"
    NoDoc = "new"
    Deleted = "deleted"
    NoUser = "nobody"
    AutoItem = {}
    MaxApprovals = 2
    Picking <- MCPicking
    ModelOf <- MCModelOf
    IdOf <- MCIdOf
    ItemModel <- MCItemModel
    ItemHooks <- MCItemHooks
    GroupUsers <- MCGroupUsers
    ItemApprover <- MCItemApprover
    Rule <- MCRule
    Hash <- MCHash
    Scheme <- MCScheme
INVARIANT StateTracksRule
PROPERTY NoUnapprovedOperation
CHECK_DEADLOCK FALSE
