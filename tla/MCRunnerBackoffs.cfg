SPECIFICATION Spec
CONSTANTS
    Clients = {c}
    MailboxSize = 1
    Supervising <- Delays
    Asking <- Delays
    MaxCalls = 1
    MaxRestarts = 1
CHECK_DEADLOCK FALSE
INVARIANTS
    RetriesAsPlanned
