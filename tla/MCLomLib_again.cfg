SPECIFICATION Spec
CONSTANTS
    Clients = {c1}
    Actions = {a1}
    Cap = 1
INVARIANT
    RegisteredIsReached
