SPECIFICATION Spec
CONSTANTS
    Clients = {c1}
    Methods <- AllMethods
INVARIANTS ResponseIsDefined
