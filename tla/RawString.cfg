CONSTANTS
    DelimiterMax = 3
    MaxFragments = 4
    Fragments <- MCFragments
    Macros <- MCMacros

SPECIFICATION Spec

INVARIANTS
    MaskIsExpansion
    LiteralEndsAtItsDelimiter
    ScannersAgree
    MaskAgreesWithParser
