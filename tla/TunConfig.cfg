SPECIFICATION Spec
CONSTANTS
  Handlers = {h1, h2}
  Ids = {i1}
  RouteLists = {none, some}
  NoRoutes = none
  NoRoot = NoRoot
  Empty = Empty
  Mixed = Mixed
INVARIANTS
  TypeOK
  RestartKeepsConfig
  TablesFollowConfig
SYMMETRY Symmetry
