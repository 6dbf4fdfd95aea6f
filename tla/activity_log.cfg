SPECIFICATION FairSpec
CONSTANTS
  NULL = NULL
  Wallet = {w1, w2}
  MaxItems = 2
  QueueSize = 2
  BacklogSize = 1
  PanelSize = 2
  MaxPushed = 4
  MaxAppends = 2
INVARIANTS
  TypeOK
  StreamIsOwn
  StreamIsInOrder
PROPERTIES
  ReconnectKeepsNewest
  PanelCatchesUp
