CONSTANTS
  Service = {"validator", "contracts", "api"}
  Job = {"contracts"}
  Producer = "contracts"
  Consumer = {"api"}
  Stateful = {"validator"}
  Probed = {"validator", "api"}
  Machine = {"chain", "apps"}
  MachineOf <- MCMachineOf
  LocalMachine = {"chain"}
  PhaseOf <- MCPhaseOf
  LastPhase = 3
  NoVersion = NoVersion
  Guarded = {"validator"}
  Spec = {1, 2}
  File = {1, 2}
  Inventory <- Growing
  Commands = {"prepare", "push"}
  Environment = {"push fails"}
SPECIFICATION Specification
INVARIANTS FingerprintsSound
