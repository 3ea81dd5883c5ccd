SPECIFICATION Spec
CONSTANTS
    Conn = {c1, c2, c3}
    Channel = {re_globl, lobby}
    Generated = {g1, g2, g3}
    Requestable = {}
    Modes <- SomeModes
    Key = {k}
    Value = {x}
    Global = re_globl
    Zero = Zero
    NoSession = NoSession
    NoValue = NoValue
    Offline = Offline
SYMMETRY Symmetry
INVARIANTS BroadcastExact PrivateConfined DisconnectExact
PROPERTIES VariablesKept
