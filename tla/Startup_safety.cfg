SPECIFICATION StartupSpec
CONSTANTS
    None = None  NotANumber = NotANumber
    p1 = p1  p2 = p2
    Process = {p1, p2}
    MaxStart = 3
    MAX_COST = 2147483646
    MAX_LANES = 16777215
    MaxMinutes = 2147483646
    Environment <- Environments
    Phrase <- Phrases
    Char <- Chars
    ClassPattern <- Patterns
    Space = {" "}
    Lower <- LowerOf
    MIN_LENGTH = 4
    MIN_CHARACTER_CLASSES = 3
    MAX_REPEATED_RUN = 3
    FORBIDDEN_SUBSTRINGS <- Common
    MaxWord = 5
SYMMETRY Interchangeable
CHECK_DEADLOCK FALSE
INVARIANTS ServesCurrent StampMeansComplete OldSecretsWork
    FailuresSpoilNothing PolicyExact
PROPERTIES LegacyUntouched
