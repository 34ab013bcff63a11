SPECIFICATION IdentitySpec
CONSTANTS
    MaxTime = 1
    MaxCounter = 2
    MaxFresh = 1
    Holders = {h1, h2}
    Kinds = {"human"}
    LastInstant = 1
    MaxVersion = 4
INVARIANT GeneratorIsSound
PROPERTY PrincipalsAreSound
