SPECIFICATION SeenSpec
CONSTANTS
    s1 = s1
    s2 = s2
    NoSender = NoSender
    Sender = {s1, s2}
    CacheSize = 2
    Ttl = 2
    Seqs = 3
    MaxUnheard = 1
INVARIANTS
    SeenTypeOK
    DropsTheRecent
PROPERTY
    HeardAgain
