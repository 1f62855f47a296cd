SPECIFICATION LiveSpec
CONSTANTS
    Replicas = {r1}
    Requests = {q1}
    Reloaders = {a1, a2}
    Variants = {1}
    Versions = {1, 2}
    MaxPromotes = 1
    MaxReloads = 2
    MaxFallbacks = 1
INVARIANTS SerialReloadsApply
PROPERTIES Attributed StaleDiesOut
