SPECIFICATION FairSpec
CONSTANTS
    Events = {e1}
    Contents = {c1, c2}
    NoEvent = NoEvent
    NoContent = NoContent
    MaxAttempts = 3
    Dispatchers = {d1, d2}
    Consumers = {k1, k2}
INVARIANTS TablesConsistent EffectsOnceIffProcessed SentIsInMailbox
PROPERTIES LeaseIsExclusive ImplementsPromise EventuallyVerdict EventuallySettled
