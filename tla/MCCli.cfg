CONSTANTS
    CliGrammar <- MainGrammar
    CommandLines <- Lines
SPECIFICATION Spec
INVARIANTS
    NoTextLost
    ReadsToTheEnd
    AdvertisedAccepted
PROPERTY Implements
