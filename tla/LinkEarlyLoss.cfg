SPECIFICATION Spec
CONSTANTS
    Aps = 1
    Envs = {{"early"}}
INVARIANTS
    LiveIsOpen
