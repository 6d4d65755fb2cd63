SPECIFICATION TextsSpec
CONSTANTS
  Text = {"x", "y"}
  MaxChunk = 4
  MaxCalls = 2
  Buf = 3
  Atom <- MCAtom
  Key <- MCKey
  Repaired <- MCRepaired
  MaxSize = 2
  MaxDepth = 2
  Name = {"A"}
  Other = {"x"}
  Value <- MCValue
  Uid <- MCUid
  MaxText = 4
  MaxFlows = 2
INVARIANTS
  TextIsLogged
  StreamIsKept
  RoundTrip
  OnlyListsRefused
PROPERTY RenderedOnce
CHECK_DEADLOCK FALSE
