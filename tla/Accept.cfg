SPECIFICATION Spec
CONSTANTS
  Headers <- MCHeaders
  OfferLists <- MCOffers
  OtherVary = {"Origin", "*"}
  MaxVary = 2
INVARIANTS ChoiceIsPreferred VaryTold
