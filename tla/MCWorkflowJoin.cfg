SPECIFICATION Spec
CONSTANTS
    Request = {"a", "b"}
    None = None
    MaxItems = 9
    MaxSteps = 40
    Doc <- MCDoc
    FlowOf <- MCFlowOf
    Start <- MCStart
    Activity <- MCActivity
    Transition <- MCTransition
    Condition <- MCCondition
    Trigger <- MCTrigger
    SubDoc <- MCSubDoc
    Signals <- MCSignals
    Facts <- MCFacts
    Created = {"sale", "need"}
    Deleted = {"invoice", "order"}
    Merged <- MCMerged
    Telling = {"move"}
INVARIANT JoinsFire
CHECK_DEADLOCK FALSE
