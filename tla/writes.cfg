SPECIFICATION FairSpec
CONSTANTS
    Users = {u1, u2}
    Batches = {b1, b2, b3}
    Bad = {b3}
    MaxPending = 2
    MaxFaults = 2
INVARIANTS TypeOK PipelineIsHeadOfQueue AnswerIsForFront CallbackIsOwn
PROPERTIES ImplementsService QueueDrains
CHECK_DEADLOCK FALSE
