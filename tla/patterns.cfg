\* Patterns of three or four characters, texts of up to three letters.
SPECIFICATION Spec
CONSTANTS
    Letters <- AllLetters
    OldPatterns <- ShortPatterns
    Texts <- ShortTexts
INVARIANTS
    PatternOrdered
