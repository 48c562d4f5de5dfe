SPECIFICATION Spec

CONSTANTS
    Instances = {"new"}
    Image <- MCImage
    Passwords = {"p"}
    Keys = {"k"}
    EnvKeys = {"k"}
    None = None
    MaxStops = 0
    MaxSaves = 1

INVARIANTS
    ClearedKeyIsOff

CHECK_DEADLOCK FALSE
