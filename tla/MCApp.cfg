CONSTANTS
    garbage = garbage
    Order <- Lines
    Values <- AllValues
    Unset = unset
    Default <- Defaults
    Accepted <- Kept
    Numbers = {"watch"}
    Unquotable <- Escaped
    Garbage = garbage
    UserFiles <- Files
    Platforms = {"linux", "windows"}
VIEW Compared
SPECIFICATION FairSpec
CHECK_DEADLOCK FALSE
INVARIANTS TypeOK SettingsKnown ResaveKeeps NoGap
PROPERTIES Starts Heard
