\* The gate of an edit is the resolver alone: a draft that no plan can be built from.
CONSTANTS
  Hosts <- MCHosts
  Suffix <- MCSuffix
  Opened <- MCOpened
  NewIds <- MCNewIds
  NewHomes <- MCNewHomes
  Executions <- MCExecutions
  Rerouted <- MCRerouted
  Tuned <- MCTuned
  Dialled <- MCDialled
  Targets <- MCTargets
  Listeners <- MCListeners
  Hostnames <- MCHostnames
  MaxCount = 2
  MaxUndo = 2
SPECIFICATION Spec
INVARIANT DraftPlans
