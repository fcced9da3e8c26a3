CONSTANTS
    Reminder = {a, b}
    Cancel = {k}
    MaxCrash = 0
SPECIFICATION RSpec
PROPERTIES UnheardKept
