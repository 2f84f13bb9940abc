SPECIFICATION VSpec
CONSTANTS
    VersionMeta = "unstable"
    HexDigits <- MCHexDigits
    MaxCommitLen <- MCMaxCommitLen
    Dates <- MCDates
INVARIANT RuntimeInfoNoPanic
