SPECIFICATION SettingsSpec
CONSTANTS
    Handlers = {h1, h2}
    Updates <- SettingsUpdates
    Environments <- SettingsEnvironments
    Files <- SettingsFiles
    Spelling <- SettingsSpelling
    Malformed = {"nowhere"}
    Unescaped = {}
    MaxUpdates = 3
INVARIANT
    AcceptedSettingsLoad
