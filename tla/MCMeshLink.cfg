CONSTANTS
  c1 = c1
  c2 = c2
  Conn = {c1, c2}
  PipeID <- MCPipeID
  Control <- MCControl
  Jobs <- MCJobs
  Replies <- MCReplies

SPECIFICATION LinkSpec
INVARIANTS
  OwnedOnce
  ArrivesAsSent
PROPERTIES
  CloseReleases
  SentIsRead

CHECK_DEADLOCK FALSE
