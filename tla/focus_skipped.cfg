SPECIFICATION Spec
CONSTANTS
    Configs <- DefaultConfigs
    Refusals <- NoRefusals
    Apps = {"asks"}
PROPERTIES
    FollowsFocus
