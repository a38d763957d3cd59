\* One document with up to two approvals of three items, and the messages.
SPECIFICATION MSpec
CONSTANTS
    Doc = {"p1"}
    Item = {"release", "amount", "limit"}
    User = {"boss", "clerk"}
    Content = {"small", "big", "huge"}
    Hook = {"action_done", "force_assign"}
    HashVal = {"small", "big", "huge", "True"}
    ForceAssign = "force_assign"
    NoDoc = "new"
    Deleted = "deleted"
    NoUser = "nobody"
    AutoItem = {"limit"}
    MaxApprovals = 2
    Picking <- MCPicking
    ModelOf <- MCModelOf
    IdOf <- MCIdOf
    ItemModel <- MCItemModel
    ItemHooks <- MCItemHooks
    GroupUsers <- MCGroupUsers
    ItemApprover <- MCItemApprover
    Rule <- MCRule
    Hash <- MCHash
    Scheme <- MCScheme
    Notify <- MCNotify
INVARIANT StateTracksRule
INVARIANT HashTracksContent
PROPERTY NoUnapprovedOperation
PROPERTY ReviewSurvives
PROPERTY ResetIsAnnounced
PROPERTY ForceOnlyForceAssign
CHECK_DEADLOCK FALSE
