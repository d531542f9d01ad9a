SPECIFICATION MCSpec
CONSTANTS
  s1 = s1
  s2 = s2
  f1 = f1
  f2 = f2
  Searches = {s1, s2}
  FlightSuppliers = {f1, f2}
  Markets <- MCMarkets
  PastFailures = {0, 2}
  RowsMayFail = TRUE
  HotelAdapters <- MCAdapters
  CityHotels = 2
  MaxOffers = 2
  HotelRowsMayFail = TRUE
  TokenCallers = {q1, q2, q3}
  Lifetime = 4
  Margin = 1
  LastTick = 6
  RuleIds = {i1, i2}
  Quotes = {m1}
  BaseFare = 10
  QuoteHasAgency = TRUE
  DefaultMarkup = 1
  RuleDtos <- MCRuleDtos
  RulePatches <- MCRulePatches
  PatchLimit = 2
  o1 = o1
  o2 = o2
  n1 = n1
  n2 = n2
  FareOffers = {o1, o2}
  CacheKeys = {"1", "2"}
  FareRequests = {n1, n2}
  FareScenarios <- MCFareScenarios
  KeyMaps <- MCKeyMaps
  FareLevels = {1, 2}
  Markup = 1
  Converters = {q1, q2}
  RatesTtl = 3
  RatesLastTick = 6
  Evaluations = {e1}
  Trips <- MCTrips
  PolicyAdmins = {a1, a2, a3}
  PolicyDtos <- MCPolicyDtos
  FxRate = 2
  MaxRooms = 2
  SearchPrice = 2
  RoomPrices = {4}
  Submissions = {1, 2}
  Previews = {1, 2}
  LastForm = 2
  SearchedTrips <- MCSearchedTrips
  Hubs = {"DXB", "DOH"}
  FlightMinutes = {2, 3}
  LayoverMinutes = {1}
  LegGap = 20
  Zone <- MCZone
  Visitors = {u1, u2}
  Guest = guest
  MaxToolIterations = 2
  MaxCalls = 2
  Airports = {"DAC", "DXB"}
  NoAirport = none
  MaxLegs = 3
  MaxTravellers = 2
INVARIANT
  BookedAtVerifiedPrice
CHECK_DEADLOCK FALSE
