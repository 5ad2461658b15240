SPECIFICATION Spec
CONSTANTS
    Symbols = {"btc", "eth"}
    Prices = {6, 12}
    Lots = {1, 2}
    Fees = {6}
    Capital = 120
    Bases = {0, 126}
    Wallets <- MCWallets
    MaxQty = 2
    MaxCost = 24
    MaxCash = 6
INVARIANTS
    TypeOK
    Mirrored
    FillsConserve
PROPERTIES
    OnlyRebasingSplits
