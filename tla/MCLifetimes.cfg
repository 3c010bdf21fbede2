SPECIFICATION Spec
CONSTANTS
    H = H
    C = C
    A = A
    Ao = Ao
    Co = Co
    Ci = Ci
    Ai = Ai
    Host = H
    Composites = {H, C}
    Atomics = {A}
    Container <- TheContainer
    InputPorts = {Ci, Ai}
    OutputPorts = {Ao, Co}
    Owner <- TheOwner
    Wires <- TheWires
    NoPort = NoPort
    CodeCallbacks <- TheCodeCallbacks
    Outputs = {Ao}
    MaxId = 2
INVARIANT TypeOK
INVARIANT CallbacksOfTheLiving
INVARIANT WiresOfTheLiving
INVARIANT QueuedChildrenAreReached
INVARIANT AnnouncedChildrenAreInitialized
INVARIANT ClearsOnlyItsOwnUnlessStale
CHECK_DEADLOCK FALSE
