CONSTANTS
    Msgs <- MCMsgs
    Inbox <- MCInbox
    Starts <- MCStarts
    TransferRetries = 2
    MaxRescans = 1
    MaxEdits = 2
    MaxFaults = 1
    Words <- MCWords
    WebStarts <- MCWebStarts
    WebRetries = 2
    MaxWebEdits = 1
SPECIFICATION ApplySpec
CHECK_DEADLOCK FALSE
INVARIANTS TokenRevoked MailSynced SitesMirrored SitesKept UndisturbedIsClean
PROPERTIES NothingLost NoDuplicates
