SPECIFICATION FairSpec
CONSTANTS
    a = a
    b = b
    c = c
    s = s
    Actors = {a, b}
    Clients = {c}
    Sinks = {s}
    Source <- Subscribed
    Calls <- OneWay
    MailboxSize = 2
    EventBuffer = 2
    MaxCalls = 4
    MaxEvents = 3
CHECK_DEADLOCK FALSE
INVARIANTS
    TypeOK
    WaitersAreOwed
    NoDeadlock
    EventsAccounted
    EndsWithTheLast
PROPERTIES
    CallsReturn
    SinksEnd
