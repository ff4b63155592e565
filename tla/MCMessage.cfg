SPECIFICATION Spec
CONSTANTS
    Say = Say
    Menu = Menu
    p1 = p1
    everyone = everyone
    format = format
    long = long
    junk = junk
    zero = zero
    Idle = Idle
    Null = Null
    Broken = Broken
    Types <- MCTypes
    Targets <- MCTargets
    Values <- MCValues
    Fits <- MCFits
    Reads <- MCReads
    Zero = zero
    Written <- MCWritten
    Function <- MCFunction
    OnSide = {p1}
    ForAll = {format}
    Settable = {long}
    MaxMessages = 2
INVARIANTS
    TypeOK
    EngineUnbroken
    HeldIsComposed
    HearsWhatArrives
PROPERTY StreamSpec
