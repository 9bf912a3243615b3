CONSTANTS
  Job = {j1}
  NoJob = NoJob
  Producer = apps
  Recipient = {api, resolver}
  NoFile = NoFile
  Torn = Torn
  NoTx = NoTx
  MaxFailures = 3
  Environment = {"kills", "abandons", "unwritten"}
SPECIFICATION Specification
INVARIANT ConsumersAgree
