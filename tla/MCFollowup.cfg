CONSTANTS
    Cases = {c1, c2}
    Interval = 1
    Stale = 1
    Window = 3
    MaxLag = 2
    MaxFaults = 1

SPECIFICATION Spec
INVARIANTS TypeOK FreeTextInWindow
PROPERTIES QuietCasesReminded RemindersSpaced
