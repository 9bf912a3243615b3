\* Drafts of the inventories of Inventory.cfg are as the theorems about them take them to be.
CONSTANTS
  Hosts <- MCHosts
  Suffix <- MCSuffix
  Opened <- MCOpened
  NewIds <- MCNewIds
  NewHomes <- MCNewHomes
  Executions <- MCExecutions
  Rerouted <- MCRerouted
  Tuned <- MCTuned
  Dialled <- MCDialled
  Targets <- MCTargets
  Listeners <- MCListeners
  Hostnames <- MCHostnames
  MaxCount = 2
  MaxUndo = 2
SPECIFICATION Spec
INVARIANT OrdinaryDraft
