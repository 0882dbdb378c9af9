SPECIFICATION Spec
CONSTANTS
  Endpoints <- MCEndpoints
  Conns <- OneConn
  MaxActions = 3
INVARIANTS TypeOK ReportIsComplete AtMostOneLateCommand NothingLeftBehind LateConnectionIsMute
PROPERTIES ImplementsConversation ArenaEnds RelayQuiets
