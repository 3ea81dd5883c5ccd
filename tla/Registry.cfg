SPECIFICATION RosterSpec
CONSTANTS
    Conn = {c1, c2, c3}
    Channel = {re_globl, lobby}
    Generated = {g1, g2, g3}
    Requestable = {g1}
    Modes = {}
    Key = {}
    Value = {}
    Global = re_globl
    Zero = Zero
    NoSession = NoSession
    NoValue = NoValue
    Offline = Offline
SYMMETRY Symmetry
INVARIANTS TypeOK IdOwnership GarbageExactlyOnce ValidMeansOpen ChannelTableExact 
PROPERTIES ImplementsDirectory
