SPECIFICATION Spec
CONSTANTS
    t1 = t1
    t2 = t2
    c1 = c1
    Thread = {t1, t2}
    Conn = {c1, c2}
    Owner <- OwnerOf
    Channel = {re_globl, lobby}
    Generated = {g1, g2}
    Requestable = {}
    Global = re_globl
    Zero = Zero
    NoSession = NoSession
    NoChannel = NoChannel
SYMMETRY Symmetry
CHECK_DEADLOCK FALSE
INVARIANT JoinFindsChannel
