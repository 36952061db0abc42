CONSTANTS
    Platforms <- MCPlatforms
    GithubMax = 1
    Mirrors = 2
    MaxRetries = 2
    MaxBoots = 2
    System = System
    None = None
SPECIFICATION Spec
INVARIANTS WholeUnlessCut LaunchersAgree
PROPERTIES GoodChromeKept StartEnds
CHECK_DEADLOCK FALSE
