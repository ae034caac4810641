CONSTANTS
    Senders = {s1, s2}
    Threshold = 1
    CountModulus = 2
    NoSender = NoSender
SPECIFICATION BacklogFairSpec
PROPERTY BackPressureEnds
