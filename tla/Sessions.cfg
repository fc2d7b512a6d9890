SPECIFICATION Spec
CONSTANTS
    gateway = gateway
    plug = plug
    lan = lan
    socket = socket
    member = member
    Devices = {gateway, plug}
    Ways = {lan, socket, member}
    NoWay = NoWay
    Order <- Listed
    Of <- WhoseWay
    Through <- ThroughIt
    Place <- InOrder
    Held = {lan, socket}
    Spotty = {socket}
    Flaky = {socket}
    Astray = {socket}
    SigningIn = {gateway}
    MaxMoves = 1
    MaxTurns = 2
    MaxClosing = 1
    MaxLooks = 1
INVARIANT TypeOK
INVARIANT NoneForgotten
INVARIANT MembersFollow
INVARIANT SettledAsTold
INVARIANT WaitsOnPerson
CHECK_DEADLOCK FALSE
