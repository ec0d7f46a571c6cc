SPECIFICATION Spec
CONSTANTS
    ollama = ollama
    Profile = {ollama, claude}
    Builtin <- BuiltinOne
    Key = {k1}
    NoKey = NoKey
    None = None
    Request = {r1, r2}
    MaxCrashes = 0
CHECK_DEADLOCK FALSE
PROPERTIES
    BlankKeepsKey
