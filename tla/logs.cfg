SPECIFICATION LogScreensSpec
CONSTANTS
  Nil = Nil
  Logs <- LogDef
  Fact <- FactDef
  Uploaded <- UploadedDef
  StartedAt <- StartedAtDef
  People <- PeopleDef
  Words <- WordsDef
  Levels = {"error", "info"}
  Odd <- OddDef
  Torn <- TornDef
  Garbled <- GarbledDef
  Dashed = {"-x"}
  Typed <- TypedDef
  Addresses <- AddressesDef
  Span <- SpanDef
  PageLimit = 2
  ExportLimit = 2
  NetworkLimit = 2
  Ranges <- RangesDef
  Keep = 8
  FirstTime = 9
  LastTime = 10
  MaxClicks = 3
  MaxOpen = 2
CHECK_DEADLOCK FALSE
INVARIANTS ListingsAreWhole CountsAreHonest InspectorAgrees
PROPERTY LinksChangeOneThing
