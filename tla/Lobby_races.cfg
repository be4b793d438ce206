SPECIFICATION Spec
CONSTANTS
    a = a
    b = b
    c = c
    bot = bot
    r1 = r1
    r2 = r2
    alice = alice
    bob = bob
    carol = carol
    Players = {alice, bob}
    Creator = alice
    Nobody = nobody
    FirstSeats <- MCFirst2
    SpareSeats = {c}
    Engines = {bot}
    Requests = {r1, r2}
    MaxRows = 2
    FormNames <- MCFormNames
    FormHours <- MCFormHours
    FormPlayers <- MCFormPlayers
    MaxEdits = 3
INVARIANTS
    PlayedGameIsFull
    PendingRowsFollowSeats
    OffersAreAccepted
    SubmittedAsShown
PROPERTIES
    SeatedByInvitation
CHECK_DEADLOCK FALSE
