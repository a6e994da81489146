SPECIFICATION FairSpec
CONSTANTS
    reply = reply
    notice = notice
    Reactive = {reply}
    Reminders = {notice}
    Marketing = {k1}
    k1 = k1
    NoRow = NoRow
    MaxAttempts = 2
    BatchLimit = 2
    MaxClock = 2
    MaxInterrupts = 1
PROPERTIES
    NoSendAfterStop
    KeepsThePromise
    EventuallySettled
