SPECIFICATION Spec
CONSTANTS
  mac = mac
  installer = installer
  Loader = Loader
  OldLoader = OldLoader
  NoPath = NoPath
  Own = 128
  Highest = 65535
  Indices <- MCIndices
  Entries <- MCEntries
  Setups <- MCSetups
  Factory <- MCFactory
  Blessed = mac
  Installers <- MCInstallers
  OsIndices <- MCOsIndices
  MaxBoots = 3
  MaxMoves = 3
PROPERTY DefaultIsSet
CHECK_DEADLOCK FALSE
