CONSTANTS
    Chats = {c1, c2}
    Legs = {l1}
    Acks = {a1}
    Relays = {r1}
    Length = 6
    Window = 6
    MaxRetries = 1
    MaxPendingV2Sends = 1
    MaxChains = 2
    MaxTaps = 1
    MaxFaults = 1
    Picks = {{c1, c2}, {c1, l1}, {l1, a1}}
    Spent = {4}
    NoEntry = NoEntry
    NoMsg = NoMsg
SPECIFICATION MCFairSpec
INVARIANTS DeliveredWasShown  
PROPERTIES EntryOnlyAdvances EntryResolves
