SPECIFICATION FairSpec
CONSTANTS
  Core = {"nifty"}
  Stocks = {}
  Options = {"ce", "pe"}
  FeedFaults = 2
  Deployed = {"ce"}
  Listed = {"pe"}
  GatewayFaults = 2
  Indices = {"nifty"}
  Heavy = {"lt"}
  Aliens = {"vix"}
  Every = 2
  Refresh = 2
  QueueSize = 1
  ReplySize = 1
  MailSize = 1
  SensorFaults = 1
  MaxMoves = 1
PROPERTIES Recovers Settles HeldRestored CoreRecovers VerdictFollows ViewsAgree
