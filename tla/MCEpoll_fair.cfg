CONSTANTS
    Thread = {t1}
    Writer = {w1}
    Fd = {f1, f2}
    Mode = {"LT", "ONESHOT"}
    MaxEvents = 1
    QueueBound = 2
    None = None
SPECIFICATION FairSpec
PROPERTIES EventWakes NoStarvation
