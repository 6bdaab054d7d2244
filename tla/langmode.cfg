SPECIFICATION Spec
CONSTANTS
    Configs <- MCConfigs
    Refusals <- MCRefusals
    Apps = {"asks", "does not ask"}
INVARIANTS
    TypeOK
    CapsLockDecides
    LeavesNothingBehind
PROPERTIES
    OnlyATapToggles
    ClosedIgnoresKeys
    MissedOnlyWhenUnsettled
