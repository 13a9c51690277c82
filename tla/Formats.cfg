SPECIFICATION Spec
CONSTANTS
    Key <- MCKey
    Value <- MCValue
    Item <- MCItem
    Octet = {0, 1, 127, 170, 255}
    CryptKey <- MCCryptKey
    Final <- MCFinal
    DnsHeader = 2
    MaxLabel = 2
    Datagram = 8
    Advertised <- MCAdvertised
    ByteMod = 4
    BrowserHeader = 4
    MinRequest = 6
    Challenge = 1
    Options = 1
    Letter = 1
    Backslash = 3
    MaxLength <- MCMaxLength
    BrowserSize = {12, 13, 14}
INVARIANTS
    TextsParsed
    Base64Decodes
    SealedMessagesOpen
    DnsAnswersQuestions
    BrowserGrammar
CHECK_DEADLOCK FALSE
