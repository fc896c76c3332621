SPECIFICATION FairSpec
CONSTANTS
  desktop = desktop
  tab = tab
  pane = pane
  r1 = r1
  NoView = NoView
  Nobody = Nobody
  Requests = {r1}
  Clients = {desktop, tab}
  Drivers = {desktop}
  Views = {pane}
INVARIANTS
  BrokerTypeOK
  OnePerformer
  NothingChanged
PROPERTIES
  EveryCallerAnswered
  RefinesRequest
CHECK_DEADLOCK FALSE
