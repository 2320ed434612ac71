CONSTANTS
    Slots = {s1}
    Values = {v1}
    Tables = {"api_tokens"}
    Calls = {c1, c2}
    TTL = 2
    ChanCap = 2
SPECIFICATION FairSpec
INVARIANTS
    StaleWithinTTL
PROPERTIES
    RevokedIsForgotten
