CONSTANTS
    Singular <- MCSingular
    Plural <- MCPlural
    Camel <- MCCamel
    Stem <- MCStem
    WithS <- MCWithS
    Hints <- MCHints
    NameOrder <- MCNameOrder
    Setups <- MCSetups
    MaxAdded = 1
    NewRelation = "extra"
    Excluded = {"depth"}
    Capital <- MCCapital
SPECIFICATION ApiSpec
INVARIANTS
    Bound
    Navigable
    RegeneratedAlike
    DocumentsHold
    DocumentedIsAccepted
CHECK_DEADLOCK FALSE
