SPECIFICATION DeploySpec
CONSTANTS
    None = None
    Owners = {alice, bob}
    Scripts = {s1, s2}
    MaxJobs = 3
INVARIANTS
    KeysNeverCrossOwners
    KeyAtOneDeployment
    HashFollowsScript
CHECK_DEADLOCK FALSE
