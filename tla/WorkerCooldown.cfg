SPECIFICATION Spec
CONSTANTS
    Procs = {w1}
    NoFile = NoFile
    MaxCrashes = 0
    MaxLongRuns = 0
    Replicas = 1
    Versions = {v1}
    NoVersion = NoVersion
    Cooldown = 1
    Schedule = 2
PROPERTY CooldownKept
