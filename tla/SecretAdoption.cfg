SPECIFICATION ApiSpec
CONSTANTS
    MaxId = 2
    Names <- MCNames
    Values = {"v1"}
    ann = ann
    bob = bob
    root = root
    Owners = {ann, bob, root}
    Bodies <- MCBodies
    Admins = {root}
    GlobalNames = {"global.ldap"}
    SystemNames = {"global.ldap"}
    ConfigNames = {"global.ldap"}
    LegacyNames <- MCLegacyNames
    GlobalName <- MCGlobalName
    LegacyFiles <- MCLegacyFiles
    Empty = "empty"
    Absent = "absent"
    Hidden = "hidden"
    NoOwner = "noowner"
    Plugin = "plugin"
    NoCaller = "nobody"
INVARIANT ReservedIsNobodysOwn
