SPECIFICATION WSpec
CONSTANTS
    mgr = mgr
    exec = exec
    plumber = plumber
    NoUser = NoUser
    NoGroup = NoGroup
    Users <- MCUsers
    Groups <- MCGroups
    Roles <- MCRoles
    Skills <- MCSkills
    Owner = mgr
    Neighbours = {exec}
    MaxVersion = 4
    MaxRows = 3
    Writers = {"duty", "transfer", "sync"}
INVARIANT
    InProgressHasExecutor
