\* One process, so one subscriber per object; unconfirmed notices, and a link that
\* may refuse them.
CONSTANTS
    MaxSubscriptions = 2
    MaxTransactions = 1
    MaxInvokeID = 1
    NoPdu = NoPdu
    Addresses = {a, b}
    Processes = {1}
    Objects = {x, y}
    Values = {on, off}
    Nothing = Nothing
    Lifetimes = {0, 3}
    Confirmed = {FALSE}
    Elapsed = {1, 2}
    LinkMayFail = TRUE
    Timeout = 1
    Retries = 0
SPECIFICATION Spec
INVARIANTS SubscriberKnows

