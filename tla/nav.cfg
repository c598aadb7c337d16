SPECIFICATION Spec
CONSTANTS
    Users = {ann, bob}
    None = None
    Calls = {call1, call2}
    MaxDepth = 4
SYMMETRY Symmetry
INVARIANTS TypeOK PagesRestOnSignIn
PROPERTY OnlyResetBlanks
