\* Two readers that promote concurrently.
SPECIFICATION Spec
CONSTANTS
    Threads = {t1, t2}
    Reader_Mask = 3
    MaxWriterCount = 3
INVARIANTS
    ConcurrentPromotionsBlock
