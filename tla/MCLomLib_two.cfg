SPECIFICATION Spec
CONSTANTS
    Clients = {c1, c2}
    Actions = {a1}
    Cap = 2
SYMMETRY Symmetry
INVARIANTS
    TypeOK  
