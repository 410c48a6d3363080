SPECIFICATION Spec
CONSTANTS
    N = 3
    Content = {a, b}
    Absent = Absent
    NoJournal = NoJournal
    Torn = Torn
    MaxFaults = 2
    MaxCrashes = 2
    MaxTampers = 1
INVARIANT TypeOK
INVARIANT NothingStranded
INVARIANT Recoverable
PROPERTY JournalOutlivesMixture
PROPERTY BackupKept
