SPECIFICATION Spec
CONSTANTS
    Request = {"a"}
    Alone = Alone
    MaxMoves = 5
    MaxSteps = 20
    MaxOvertakes = 1
    Entered <- MCEntered
    Location = {"supplier", "input", "stock", "shelf", "output", "customer"}
    Within <- MCWithin
    Everywhere = {"shelf"}
    Unlimited = {"supplier"}
    Arrive <- MCArrive
    Chain <- MCChain
    None = None
    Initial <- MCInitial
PROPERTY DemandKept
PROPERTY ReserveWithinFree
PROPERTY ProcessedIsFrozen
PROPERTY LastUpstreamReleases
CHECK_DEADLOCK FALSE
