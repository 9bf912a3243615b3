\* Every operation of the workbench on an inventory of two sites.
CONSTANTS
  Hosts <- MCHosts
  Suffix <- MCSuffix
  Opened <- MCOpened
  NewIds <- MCNewIds
  NewHomes <- MCNewHomes
  Executions <- MCExecutions
  Rerouted <- MCRerouted
  Tuned <- MCTuned
  Dialled <- MCDialled
  Targets <- MCTargets
  Listeners <- MCListeners
  Hostnames <- MCHostnames
  MaxCount = 2
  MaxUndo = 2
SPECIFICATION Spec
INVARIANTS PlanInOrder AvailabilityAgrees StoreReachesKubo MinimalExposure
PROPERTIES InstancesStay
