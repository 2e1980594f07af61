SPECIFICATION Spec
CONSTANTS
    Formulas <- MCFormulas
    Wring <- MCWring
    MaxCalls = 2
INVARIANTS
    TranslationIsFaithful
    ErrorsHaveCauses
    NothingLeft
CHECK_DEADLOCK FALSE
