CONSTANTS
    Name = {s, g, ip}
    Literal = {ip}
    Static = {s}
    Expiry = 2
    Silent = Silent
    Absent = Absent
    Unasked = Unasked
    MaxVersion = 2
    MaxMoves = 2
    MaxFaults = 1
SPECIFICATION PinsFairSpec
INVARIANTS PinsTypeOK FileIsTable
PROPERTIES HeldThroughStalls 
CHECK_DEADLOCK FALSE
