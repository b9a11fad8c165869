SPECIFICATION Spec
CONSTANTS
  None = None
  Games <- MCGames
  Fixture <- MCFixture
  Begins <- MCBegins
  Ids <- MCIds
  GameOf <- MCGameOf
  Lines <- MCLines
  Orders <- MCOrders
  Wants <- MCWants
  Ttl = 2
  Delay = 1
INVARIANTS
  PricedOnOwnGame
  PricedAsAsked
PROPERTIES
  PricesAreRecent
