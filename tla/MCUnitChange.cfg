\* The change of a unit, where nothing goes wrong.
SPECIFICATION ServicesSpec
CONSTANTS
    Parts = {"unit"}
    Callers = {"c1", "c2", "c3", "c4", "c5"}
    CallType <- MCCallType
    Base = 900000
    EndBookings = {"b1"}
    EndCustomers = {"r1"}
    EndJobs = {"j1"}
    EndPays = {"p1"}
    EndBookingOf <- MCEndBookingOf
    EndMovesOut <- MCEndMovesOut
    EndNotice = 1
    EndMonth = 1
    EndLastDay = 2
    NoDues = "none"
    DueBookings = {"b1", "b2"}
    WithUnused = {"b1"}
    DepositFaults = 2
    HostRenewals = {"n1", "n2"}
    HostPeriod = 3
    HostJitter = 1
    HostLastTick = 7
    PickOrders = {"o1"}
    PickOrderPays = {"p1"}
    PickBookingPays = {"b1"}
    PickCancels = {"c1", "c2"}
    NoOrder = "no order"
    MoveRequests = {"c1", "c2", "c3"}
    MoveSpaces = {"s1", "s2", "s3"}
    MoveFrom = "s1"
    MovePrice <- MCMovePrice
    MoveTarget <- MCMoveTarget
    MoveNow = {"c3"}
    MoveMishaps = 2
    StockUnits = {"u1", "u2"}
    StockTypeOf <- MCStockTypeOf
    StockInexact = {"u2"}
    StockOffers = {"low", "high"}
    StockFirst <- MCStockFirst
    StockMaxRows = 4
    StockRuns = 2
    StockChanges = 1
    SizeSides = {1, 2, 3, 4, 6}
    SizeAreas = {2, 4, 8, 10, 12, 14, 18, 20, 24, 36}
    SizeCountries = {"sg", "th"}
    SizeStore = "sg"
    SizeTables <- MCSizeTables
    VisitStores <- MCVisitStores
    VisitSites = {"s1", "s2", "s3"}
    VisitStoreOf <- MCVisitStoreOf
    VisitRuns = 2
    PriceChoices <- MCBookables
    PriceInsurances = {7, 11}
    PriceMonths <- MCPriceMonths
    PriceLead = 2
    PriceSiteTax = 7
    PriceInsuranceTax = 3
    PriceServiceTax = 7
    PriceBases = {3100, 4000}
    CouponVouchers = {"v1", "v2"}
    CouponCodes = {"k1"}
    CouponLimit = 1
    CouponAlone = {"v1"}
    CouponEdits = {"e1", "e2"}
    CouponBookers = {"b1", "b2"}
    CouponAdds = {"a1", "a2"}
    CouponBookingOf <- MCCouponBookingOf
    SignSends = {o1}
    SignRequests = {1, 2, 3}
    SignPlatform <- MCSignPlatform
    SiteUpdates = {1, 2, 3}
    SiteAsked = {"ACTIVE", "INACTIVE"}
    CardProfiles = {"r1"}
    CardPays = {"p1", "p2"}
    CardBringing = {"r1", "p1"}
    DoorBookings = {"b1", "b2"}
    DoorOpenings = {"d1", "d2", "d3", "d4"}
    DoorOpens <- MCDoorOpens
    NoBooking = "none"
    EntranceDoors = {"e1", "e2"}
    DoorSite <- MCDoorSite
    DoorAsks <- MCDoorAsks
    DriveTypes = {"XS", "L"}
    DrivePrices = {1055, 2000}
    DriveMover = 300
    DriveMovers = 1
    DrivePercent = 10
    DriveTax = 7
    DriveLastDay = 1
    LoginAddresses = {"a"}
    LoginPhones = {"p"}
    LoginProfiles = {"g"}
    LoginAccounts = 3
    QuoteIds = {"q1"}
    QuoteSpaces = {"s1"}
    QuotePrices = {1, 2}
    QuoteItems = 1
    QuoteRemind = 1
    QuoteRuns = 2
    QuoteBookings <- MCQuoteBookings
    QuoteKeep <- MCQuoteKeep
    QuoteLast <- MCQuoteLast
    QuarterBookings <- MCQuarterBookings
    QuarterPosts <- MCQuarterPosts
    QuarterSet <- MCQuarterSet
    QuarterRuns <- MCQuarterRuns
    QuarterOverlaps <- MCQuarterOverlaps
    OpinionOf = "b1"
    NoticeRequests = {1, 2}
    NoticeCustomers = {"d", "e", "f"}
    StayCustomers = {1, 2, 3}
    StayUnits = 1
    StayLastDay = 4
    StayFakeEnd = 4
    ListRequests = {"r1", "r2"}
    ListFirst = "r1"
    ListRules = {"rule"}
    ListPolicies = {"policy"}
    ListFeatures = {"f1", "bad"}
    ListUnknown = {"bad"}
    ImageUploads = {"u1"}
    ImageFiles = {"f1", "f2", "f3", "f4"}
    ImageKind <- MCKind
    ImageResizes = {"r1", "r2"}
    ImageSource <- MCSource
    ImagePieces = 2
    ImageFaults = 1
    WalkRows = {1, 2, 3, 4}
    WalkTied = {2, 3}
    WalkLimits <- MCLimits
    WalkUnits = 2
    WalkChanges = 1
INVARIANT OldDepositGivenBack
CHECK_DEADLOCK FALSE
