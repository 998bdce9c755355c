CONSTANTS
    a1 = a1
    a2 = a2
    Accounts <- MCAccounts
    HalfWord <- MCHalfWord
    Word <- MCWord
    TotalMemory <- MCTotalMemory
    KeyOrder <- MCKeyOrder
    Faulty <- MCFaulty
SPECIFICATION KeeperSpec
INVARIANTS
    ProductNoWrap
    QuotaWithinBudget
    ResidueBelowCount
PROPERTIES
    SidevmRestarted
