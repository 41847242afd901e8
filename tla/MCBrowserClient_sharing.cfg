SPECIFICATION Spec
CONSTANTS
    Kinds <- MCKinds
    Senders <- MCSenders
    MaxClicks = 3
    MaxOffers = 2
INVARIANTS
    TypeOK
    OneOfferAtATime
    OneAnswerPerOffer
PROPERTIES
    OffersAnswered
    SharesTakeEffect
CHECK_DEADLOCK FALSE
