SPECIFICATION BoundarySpec
CONSTANTS
    Updates = {u1}
    Restarts = {r1}
    Workers = {w1, w2}
    NoAction = NoAction
    NoWorker = NoWorker
    Backlog = 2
INVARIANTS
    InvokedOnce
    ReceiptIsTruthful
    AnswerIsTruthful
PROPERTIES
    RuntimeCallsReturn
