SPECIFICATION Spec
CONSTANTS
    mgr = mgr
    exec = exec
    own = own
    plumber = plumber
    electric = electric
    NoUser = NoUser
    NoGroup = NoGroup
    Users <- MCUsers
    Groups <- MCGroups
    Roles <- MCRoles
    Skills <- MCSkills
    Owner = own
    Neighbours <- MCNeighbours
    MaxVersion = 4
    MaxRows = 3
INVARIANT
    RefusedReturnCanBeStaffed
