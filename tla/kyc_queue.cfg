\* Two documents, the app and the background task.
CONSTANTS
    d1 = d1
    d2 = d2
    a1 = a1
    s1 = s1
    Metadata = {d1, d2}
    App = {a1}
    Sync = {s1}
    None = None
SPECIFICATION FairSpec
INVARIANTS
    RegisteredWasUploaded
PROPERTY
    QueuedIsUploaded
