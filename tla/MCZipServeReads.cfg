CONSTANTS
    Clients = {c1, c2}
    Segments <- MCSegments
    Rank <- MCRank
    NoFirst = NoFirst
    NoArchive = NoArchive
    ZipFilesArg <- MCZipFilesArg
    ArchiveContent <- MCArchiveContent
    DeployedContent <- MCDeployedContent
    MaxDeploys = 0
    Large <- LargeReads
    OpenMayFail = FALSE
    IntlSeg <- intl
    EnSeg <- en
    EmptySeg <- empty
    IndexSeg <- index
    FaviconSeg <- fav
    ValidLangs <- MCValidLangs
    TypedExts = {"html", "png"}
    CookieValues <- MCCookieValues
    NoCookie = NoCookie
    StartPaths <- StartsReads
    KeyPaths <- MCKeyPaths
    MaxAgeArg = NoArg
    PublicArg = NoArg
    NoArg = NoArg
    None = None
    NegSentinel = NegSentinel
    TimeTBits = 32
    Clock <- ClockToday
SPECIFICATION SpecH
PROPERTY NoRedundantArchiveRead
PROPERTY IndexHintReadsOnce
