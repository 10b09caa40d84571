SPECIFICATION FairSpec
CONSTANTS
    Byte <- MCByte
    Erased = "ff"
    SectorSize = 2
    Addr <- MCAddr
    PartSectors = 2
    Versions <- MCVersions
    Asset <- MCAsset
    Installed <- MCInstalled
    Releases <- MCReleases
    Detours <- MCDetours
    ApiCap = 4
    TAG_MAX = 10
    MAX_REDIRECTS = 3
INVARIANTS TypeOK BootsAsset
PROPERTIES FallbackUntouched DownloadsTagged NoDowngrade UpdateEnds
