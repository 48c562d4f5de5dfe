SPECIFICATION Spec

CONSTANTS
    Instances = {"old", "new"}
    Image <- MCImage
    Passwords = {"p", "q"}
    Keys = {"k"}
    EnvKeys = {"k"}
    None = None
    MaxStops = 3
    MaxSaves = 1

INVARIANTS
    MigrationsFollowOneAnother
    ServingInstancesAreComplete
PROPERTIES
    InstallationComesUp

CHECK_DEADLOCK FALSE
