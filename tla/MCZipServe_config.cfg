CONSTANTS
    Clients = {c1}
    Segments <- MCSegments
    Rank <- MCRank
    NoFirst = NoFirst
    NoArchive = NoArchive
    ZipFilesArg <- MCZipFilesArg
    ArchiveContent <- MCArchiveContent
    DeployedContent <- MCDeployedContent
    MaxDeploys = 0
    Large <- MCLarge
    OpenMayFail = FALSE
    IntlSeg <- intl
    EnSeg <- en
    EmptySeg <- empty
    IndexSeg <- index
    FaviconSeg <- fav
    ValidLangs <- MCValidLangs
    TypedExts = {"html", "png"}
    CookieValues <- MCCookieValues
    NoCookie = NoCookie
    StartPaths <- StartsBasic
    KeyPaths <- MCKeyPaths
    MaxAgeArg = 3600
    PublicArg = NoArg
    NoArg = NoArg
    None = None
    NegSentinel = NegSentinel
    TimeTBits = 32
    Clock <- ClockToday
SPECIFICATION Spec
INVARIANT CacheControlHonoursConfig
