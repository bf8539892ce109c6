SPECIFICATION Spec
CONSTANTS
    NONE = NONE
    Blank = Blank
    Junk = Junk
    UsizeMax = 255
    Bundled = "/usr/bin/chromium"
    Mounted = "/opt/browser/chrome"
    Installed = "/opt/browsers/key/chrome"
    RegionZones <- MCRegionZones
    LanguageZones <- MCLanguageZones
    Regions <- MCRegions
    Starts <- MCStarts
    Clients <- MCClients
INVARIANTS SecretDecides BinaryPrecedence LimitsUsable SessionWins AcceptListSound ScreenFitsWindow
CHECK_DEADLOCK FALSE
