SPECIFICATION FSpec
CONSTANTS
    Heavy = {pet}
    HealThresh = 1
    Cooldown = 2
    SourceLag = 1
    Back = 3
    MaxPosts = 0
    MaxMishaps = 2
PROPERTIES AppendOnly
CHECK_DEADLOCK FALSE
