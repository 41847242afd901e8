\* Three clients, an audio and a video track each, three candidate lists.
CONSTANTS
    Clients <- MCClients
    MaxParticipants = 3
    Mids <- MCMids
    SessionId = 7
    Kinds <- MCKinds
    CandidateLists <- MCCandidateLists
SPECIFICATION Spec
CHECK_DEADLOCK FALSE
INVARIANTS
    MessagesUnderstood
    OffersConveyStreams
    AnswerMatchesOffer
    AgentTold
    ReadsItsOwn
PROPERTIES
    MLinesOnlyAppended
    EndsOnlyIf
