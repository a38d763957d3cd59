\* Two writers and a reader.
SPECIFICATION Spec
CONSTANTS
    w1 = w1
    w2 = w2
    r1 = r1
    Process = {w1, w2, r1}
    Writer = {w1, w2}
    Model = {"x_model"}
    MaxChanges = 2
    MaxCrash = 1
SYMMETRY MCSymmetry
INVARIANTS
    ReadersAreTold
    ReadersAreFresh
    DeletedModelsTold
