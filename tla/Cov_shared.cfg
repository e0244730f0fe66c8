\* Two processes subscribe to the same inputs.
CONSTANTS
    MaxSubscriptions = 2
    MaxTransactions = 1
    MaxInvokeID = 1
    NoPdu = NoPdu
    Addresses = {a}
    Processes = {1, 2}
    Objects = {x}
    Values = {on, off}
    Nothing = Nothing
    Lifetimes = {3}
    Confirmed = {FALSE}
    Elapsed = {1}
    LinkMayFail = FALSE
    Timeout = 1
    Retries = 0
SPECIFICATION Spec
INVARIANTS SubscriberKnows
