SPECIFICATION FairSpec
CONSTANTS
    fl1 = fl1
    fl2 = fl2
    j1 = j1
    j2 = j2
    j3 = j3
    v1 = v1
    p1 = p1
    u1 = u1
    u2 = u2
    n1 = n1
    s1 = s1
    s2 = s2
    None = None
    Flights = {fl1, fl2}
    JobIds = {j1, j2}
    Visits = {v1}
    Requests = {p1, u1, n1, s1}
    KindOf <- MCKindOf
    JobOf <- MCJobOf
    VisitOf <- MCVisitOf
    Resubmits = {}
    MaxLosses = 1
CHECK_DEADLOCK FALSE
PROPERTIES
    RequestsAnswered
    ComputingResolves
