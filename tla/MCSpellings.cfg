CONSTANTS
    h1 = h1
    h2 = h2
    k1 = k1
    k2 = k2
    x1 = x1
    Headers = {h1, h2}
    Keys = {k1, k2}
    Handlers = {x1}
    Envelopes = {h1, h2}
    EnvelopeOf <- TwoSpellings
    Timestamp <- SignedAtZero
    Settings = {}
    Tolerance = 2
    MaxHeaders = 2
    MaxTime = 2
SPECIFICATION Spec
PROPERTIES
    EnvelopeHasOneKey
