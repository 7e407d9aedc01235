\* Sound and singly damaged files of all three checkers.
SPECIFICATION Spec
CONSTANTS
    Jobs <- MCJobs
    Language <- MCLanguage
    Dialect <- Dialect202012
    SupportedExtensionVersion <- Version100
    Sha256Texts <- Hashes256
    Sha512Texts <- Hashes512
    Producers <- MCProducers
    Size <- MCSize
    Revision = "rev"
    PinnedBundle = "pinned"
    OtherBundle = "other"
    Repositories <- MCRepositories
    Texts <- MCTexts
    Depth <- MCDepth
CHECK_DEADLOCK FALSE
INVARIANTS
    DecodedIsUnambiguous
    EnvelopeVerdictIsJustified
    EvidenceIsComplete
    InventoryIsExact
