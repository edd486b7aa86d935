SPECIFICATION OfferSpec
CONSTANTS
    OfferInputs <- GtinChain
    Plans <- Intents
    RememberedChoices <- RememberedSets
    OfficialRates <- ServiceRates
    CustomsLimit = 3
    CompareLimit = 3
INVARIANT MatchingOffersAgree
CHECK_DEADLOCK FALSE
