SPECIFICATION ProviderSpec
CHECK_DEADLOCK FALSE
CONSTANTS
    Fallback = TRUE
    Forks = TRUE
    MaxOutput = 1
    MaxProduced = 1
PROPERTIES
    TimeoutKillsDescendants
