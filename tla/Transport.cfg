SPECIFICATION FairSpec
CONSTANTS
  CAPACITY = 3
  Peers = {far, near}
  Remote = {far}
  Requests = {heartbeat, status}
  NoJob = NoJob
  far = far
  near = near
  heartbeat = heartbeat
  status = status
INVARIANTS TypeOK NoLostWakeup
PROPERTIES KeepsPromise EveryJobBegun
