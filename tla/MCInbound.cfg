SPECIFICATION FairSpec
CONSTANTS
    chat = chat
    key = key
    text = text
    other = other
    Messages = {m1, m2, m3}
    Chats = {chat}
    ChatOf <- MCChatOf
    Allowed = {m1, m2}
    Keys = {key}
    NoKey = nokey
    Requests <- MCRequests
    Window = 1
    Cap = 2
    MaxTurns = 2
    MaxHeard = 3
    MaxSessions = 2
    MaxFaults = 2
CHECK_DEADLOCK FALSE
INVARIANTS TypeOK ConversationOrder RunsOnce ReplyRemembered 
PROPERTIES Answered
