SPECIFICATION LiveSpec
CONSTANTS
    Settings <- MCSettings
    Monitors = {m1, m2}
    None = None
INVARIANTS EntryExact EventsOnce  EndsForCause
PROPERTY Finishes
