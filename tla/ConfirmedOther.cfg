SPECIFICATION Spec
CONSTANTS
  d1 = d1
  d2 = d2
  job = job
  rpc = rpc
  Deployments <- TheDeployments
  Services <- TheServices
  Job = {job}
  Levelled = {rpc}
  None = None
  MaxChanges = 2
  MaxReads = 2
PROPERTY DoneAsConfirmed
CHECK_DEADLOCK FALSE
