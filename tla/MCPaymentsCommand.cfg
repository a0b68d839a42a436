SPECIFICATION FairSpec
CONSTANTS
    MaxInvoices = 2
    Workers = 2
    Customers = {1, 2}
    Holds = {"h1"}
    Owner <- MCOwner
    Balance = 1
    MaxPolls = 1
    Scenarios <- MCScenarios
INVARIANTS
    PaymentsAccounted
    EvidenceSound
PROPERTY
    Terminates
