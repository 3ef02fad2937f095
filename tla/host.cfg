SPECIFICATION FairSpec
CONSTANTS
  k1 = k1
  k2 = k2
  here = here
  there = there
  Client <- OneClient
  Self = here
  Remote <- Others
  Cap = 1
  MaxAsk = 3
  MaxLoss = 1
  MaxFault = 1
INVARIANTS TypeOK RightAnswer DaemonOutlivesClients MutualWaitTakes PromptHoldsUp
PROPERTY OneLossSurvived
CHECK_DEADLOCK FALSE
