SPECIFICATION PeopleSpec
CONSTANTS
    u1 = u1
    u2 = u2
    u3 = u3
    i1 = i1
    i2 = i2
    one = one
    other = other
    f1 = f1
    f2 = f2
    f3 = f3
    e1 = e1
    e2 = e2
    s1 = s1
    s2 = s2
    o1 = o1
    o2 = o2
    Scheduler = Scheduler
    Nobody = Nobody
    Users <- MCUsers
    Present <- MCPresent
    Invites <- MCInvites
    RoleOf <- MCRoleOf
    Sessions <- Both
    AccountOps <- MCAccountOps
    Apartments <- MCApartments
    Workers <- Both
    NoOne = NoOne
    Ops <- MCOps
    MaxTime = 3
    Threads <- Both
    Executors <- MCExecutors
    Shifts <- MCShifts
    Offers <- MCOffers
    Slots = {1}
    ShiftOps <- MCShiftOps
SYMMETRY Symmetric
INVARIANTS
    PeopleTypeOK
    InvitationsKept
    OneMain
    BookedOnce
CHECK_DEADLOCK FALSE
