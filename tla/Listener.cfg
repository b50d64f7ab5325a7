SPECIFICATION Spec
CONSTANTS
    MaxEvents = 3
    MaxCrashes = 2
    PageLimit = 2
INVARIANTS
    NoneSkipped
    HandledInOrder
PROPERTIES
    AllHandled
