CONSTANTS
    r1 = r1
    r2 = r2
    r3 = r3
    Request <- Requests
    MaxInFlight = 1
SPECIFICATION ExporterFairSpec
INVARIANTS
    UnauthenticatedLearnsNothing
PROPERTIES
    ServeStops
