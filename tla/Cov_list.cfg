\* Three processes, a list of two entries, a table of one transaction and a link
\* that may refuse notices: the list and the table fill up, subscriptions are
\* renewed, cancelled and expire.
CONSTANTS
    MaxSubscriptions = 2
    MaxTransactions = 1
    MaxInvokeID = 1
    NoPdu = NoPdu
    Addresses = {a}
    Processes = {1, 2, 3}
    Objects = {x}
    Values = {on}
    Nothing = Nothing
    Lifetimes = {0, 3}
    Confirmed = {TRUE}
    Elapsed = {1, 2}
    LinkMayFail = TRUE
    Timeout = 1
    Retries = 0
SPECIFICATION FairSpec
INVARIANTS NoDuplicates LifetimeHonoured
PROPERTIES SubscriptionsExpire
