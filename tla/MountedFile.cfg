CONSTANTS
  Service = {"validator", "contracts", "api"}
  Job = {"contracts"}
  Producer = "contracts"
  Consumer = {"api"}
  Stateful = {"validator"}
  Probed = {"validator", "api"}
  Machine = {"chain", "apps"}
  MachineOf <- MCMachineOf
  LocalMachine = {"chain"}
  PhaseOf <- MCPhaseOf
  LastPhase = 3
  NoVersion = NoVersion
  Guarded = {"validator"}
  Spec = {1}
  File = {1, 2}
  Inventory <- Mounting
  Commands = {"prepare"}
  Environment = {}
SPECIFICATION Specification
INVARIANTS FilesSound
