CONSTANTS
    u1 = u1  u2 = u2  r1 = r1  r2 = r2  r3 = r3  p1 = p1  d1 = d1  d2 = d2
    Users = {u1, u2}  Nobody = Nobody
    Requests = {r1, r2, r3}
    Owner <- MCOwner
    Updates = {p1}
    Statuses = {"pending", "active", "closed"}
    Deletes = {d1, d2}
    Caller <- MCCaller
    NoRow = NoRow
    MaxRooms = 1  MaxFailures = 1  MaxChats = 1
SPECIFICATION Spec
SYMMETRY Symmetry
PROPERTY ChatUpdatesSession
CHECK_DEADLOCK FALSE
