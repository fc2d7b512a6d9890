SPECIFICATION FairSpec
CONSTANTS
    gateway = gateway
    plug = plug
    lan = lan
    socket = socket
    member = member
    Devices = {gateway, plug}
    Ways = {lan, socket, member}
    NoWay = NoWay
    Order <- Listed
    Of <- WhoseWay
    Through <- ThroughIt
    Place <- InOrder
    Held = {lan, socket}
    Spotty = {socket}
    Flaky = {socket}
    Astray = {}
    SigningIn = {gateway}
    MaxMoves = 1
    MaxTurns = 1
    MaxClosing = 1
    MaxLooks = 1
PROPERTY MendsItself
CHECK_DEADLOCK FALSE
