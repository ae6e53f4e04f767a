SPECIFICATION Spec
CONSTANTS
    c1 = c1
    c2 = c2
    p1 = p1
    p2 = p2
    s1 = s1
    k1 = k1
    None = None
    Conns = {c1, c2}
    Requests = {p1, p2, s1}
    Keys = {k1}
    Attended = {p1, s1}
    Remembering = {s1}
    Granted = {"pay"}
    MaxTroubles = 1
    ConnOf <- TwoConns
    Kind <- PaysAndSign
    KeyOf <- OneKey
PROPERTIES
    CancelHolds
CHECK_DEADLOCK FALSE
