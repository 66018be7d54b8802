SPECIFICATION Spec
CONSTANTS
    a = a
    b = b
    NoText = NoText
    IdMax = 4
    Texts <- MCTexts
    Atoms <- MCAtoms
    Strings <- MCStrings
    Assets <- MCAssets
INVARIANTS
    TypeOK
    ActsOnTheTable
    PanicsOnUnreadableBodyOnly
    NamespacesKeptApart
    WhoHearsAProposal
    BuiltRequestsServed
