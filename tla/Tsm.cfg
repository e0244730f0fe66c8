\* Two slots and three invoke IDs: slots and IDs are reused in every order.
CONSTANTS
    MaxTransactions = 2
    MaxInvokeID = 3
    Pdus = {p}
    NoPdu = NoPdu
    Timeouts = {0, 2}
    Retries = {0, 2}
    Ticks = {1, 3}
SPECIFICATION HistorySpec
INVARIANTS TypeOK UniqueInvokeIDs TransmissionsCounted ReusedOnlyAfterRound
PROPERTIES FailureIsFinal KeepsPromise RequestsSettle
