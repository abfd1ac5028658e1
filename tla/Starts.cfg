SPECIFICATION FairSpec
CONSTANTS
    Boot = {b1, b2, b3}
    NoBoot = NoBoot
CHECK_DEADLOCK FALSE
INVARIANTS
    SchemaMatchesJournal
    ReadyMeansMigrated
    OneMigrator
    RefusedOnlyForLegacyRows
PROPERTIES
    ConstraintNeverLost
    LedgerSpec
    EveryBootEnds
