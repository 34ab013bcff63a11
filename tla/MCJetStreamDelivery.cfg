CONSTANTS
    Events = {e1}
    Contents = {c1, c2}
    NoEvent = NoEvent
    NoContent = NoContent
    MaxAttempts = 2
    Dispatchers = {d1}
    Consumers = {k1}
    Transfers = {t1, t2}
    StreamCapacity = 2
    MaxDeliver = 2
SPECIFICATION Spec
SYMMETRY Symmetry
INVARIANTS TransferIsSound
PROPERTIES ImplementsPromise
