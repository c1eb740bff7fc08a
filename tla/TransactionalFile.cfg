SPECIFICATION FileSpec
CONSTANTS
    Versions = {v1, v2, v3}
    NoFile = NoFile
    Torn = Torn
PROPERTIES OldKeptAsBackup AtomicSave
