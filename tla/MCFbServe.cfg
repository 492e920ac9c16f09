CONSTANTS
  Clients = {"a", "b"}
  Requests <- MCRequests
  REQUEST_BYTES = 3
  Backlog = 1
  MaxDraws = 1
SPECIFICATION Spec
INVARIANTS RightReply FrameIsFresh OnceServesOne
PROPERTY EveryoneIsServed
