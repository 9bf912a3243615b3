CONSTANTS
  Service = {"validator", "contracts", "api"}
  Job = {"contracts"}
  Producer = "contracts"
  Consumer = {"api"}
  Stateful = {"validator"}
  Probed = {"validator", "api"}
  Machine = {"chain", "apps"}
  MachineOf <- MCMachineOf
  LocalMachine = {"chain"}
  PhaseOf <- MCPhaseOf
  LastPhase = 3
  NoVersion = NoVersion
  Guarded = {"validator"}
  Spec = {1, 2}
  File = {1}
  Inventory <- Changing
  Commands = {"prepare", "verify", "lifecycle", "clean"}
  Environment = {"old data"}
SPECIFICATION Specification
INVARIANTS GateOrder NoForeignData
PROPERTIES ManagedRemembered
