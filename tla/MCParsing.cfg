CONSTANTS
    Grammars <- Examples
    Alphabet <- WordsOf
    MaxWords <- BoundOf
SPECIFICATION Spec
INVARIANTS
    AcceptedIsComplete
    AcceptedIsUnambiguous
    PositionsArePaths
    PositionsInGrammar
    SearchesEnd
    JoinedFlagsAreSeparate
    AdvertisedIsRead
\* A command line ends where the user stops typing.
CHECK_DEADLOCK FALSE
