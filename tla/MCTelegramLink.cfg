CONSTANTS
    bot = bot
    cli = cli
    dana = dana
    omar = omar
    chat1 = chat1
    chat2 = chat2
    NoChat = NoChat
    NoRow = NoRow
    NoLink = NoLink
    NoEvent = NoEvent
    NoUpload = NoUpload
    Redeemers <- TheBot
    Admins <- TheCli
    Users <- TwoUsers
    Chats <- TwoChats
    Ttl = 1
    MaxCodes = 3
    MaxTime = 1
SPECIFICATION BotSpec
SYMMETRY Symmetry
CHECK_DEADLOCK FALSE
INVARIANTS
    SerialLinkHasConsumedCode
    LogTellsLinkState
    UploadsAreAccountedFor
PROPERTIES
    LiveLinkNotReplaced
