\* Both streams; one client that connects before the agent is done with what
\* the one before it sent; one client that gives up.
CONSTANTS
  Streams = {"stdout", "stderr"}
  MaxOutput = 2
  MaxInput = 1
  MaxHasty = 1
  MaxDrops = 1
SPECIFICATION FairSpec
INVARIANTS
  TypeOK
  OutputIsPrefix
  SessionInSync
PROPERTY AgentComesBack
