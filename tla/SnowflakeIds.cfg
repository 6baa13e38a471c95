\* a server and a worker with different machine ids, 2 sequence numbers per
\* millisecond; clocks step back, binaries restart
SPECIFICATION FairSpec
CONSTANTS
  Api = api
  Job = job
  Binary = {api, job}
  Unset = Unset
  Env <- EnvSet
  MachineSpan = 4
  SeqSpan = 2
  MaxTime = 3
  MaxIds = 3
  MaxBack = 2
  MaxRestarts = 1
INVARIANTS RepeatsHaveACause IdsGrow
PROPERTY WaitEnds
CHECK_DEADLOCK FALSE
