SPECIFICATION Spec
CONSTANTS
    Processes = {p1, p2}
    MaxUpdates = 2
INVARIANTS
    FilesAreWhole
    RunIsUsable
    AckedUpdateSurvives
    EventsFollowManifest
    NotedEventStays
    TypeOK
    StoreInvariant
