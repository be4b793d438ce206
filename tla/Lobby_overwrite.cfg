SPECIFICATION Spec
CONSTANTS
    a = a
    b = b
    c = c
    bot = bot
    r1 = r1
    r2 = r2
    alice = alice
    bob = bob
    carol = carol
    Players = {alice, bob, carol}
    Creator = alice
    Nobody = nobody
    FirstSeats <- MCFirst3
    SpareSeats = {bot}
    Engines = {bot}
    Requests = {r1, r2}
    MaxRows = 4
    FormNames <- MCFormNames
    FormHours <- MCFormHours
    FormPlayers <- MCFormPlayers
    MaxEdits = 3
PROPERTIES
    SeatNotOverwritten
CHECK_DEADLOCK FALSE
