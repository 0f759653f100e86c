CONSTANTS
    Width <- TreeWidth
    Exclusive <- Alternatives
    MaxMementos = 2
SPECIFICATION Spec
INVARIANT StandsInGrammar
PROPERTIES OnlyUndoStrays OnlyForward NothingPassedBy
