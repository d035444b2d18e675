\* Two spendable outpoints and an unspendable one, two coins, two blocks.
SPECIFICATION Spec
CONSTANTS
    o1 = o1
    o2 = o2
    data = data
    c1 = c1
    c2 = c2
    Spent = Spent
    NotCached = NotCached
    Null = "null"
    Outpoint <- MCOutpoint
    Unspendable <- MCUnspendable
    Coin <- MCCoin
    Hash = {"h1", "h2"}
INVARIANTS
    NoLogicError
    FlagsTruthful
PROPERTIES
    ImplementsViews
