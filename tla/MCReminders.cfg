CONSTANTS
    Reminder = {a, b}
    Cancel = {k, l}
    MaxCrash = 1
SPECIFICATION RFairSpec
INVARIANTS ConfirmedKept CancelIsFinal
PROPERTIES EveryReminderTried
