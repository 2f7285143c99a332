SPECIFICATION FairSpec
CONSTANTS
    m1 = m1
    m2 = m2
    chat1 = chat1
    chat2 = chat2
    code1 = code1
    code2 = code2
    l1 = l1
    l2 = l2
    s1 = s1
    s2 = s2
    NoChat = NoChat
    Members = {m1, m2}
    Chats = {chat1, chat2}
    LinkedAtStart <- MCLinkedAtStart
    Codes = {code1, code2}
    OwnerOf <- MCOwnerOf
    Links = {l1, l2}
    Choosers = {m1}
    MaxCommands = 1
    Sends = {s1, s2}
    Workloads <- MCWorkloads
INVARIANT TypeOK
INVARIANT LinksHold
INVARIANT CampaignTellsDeliveries
INVARIANT UnsubscribedChatsStayQuiet
PROPERTY SendingEnds
CHECK_DEADLOCK FALSE
