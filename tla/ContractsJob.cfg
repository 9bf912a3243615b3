CONSTANTS
  Job = {j1}
  NoJob = NoJob
  Producer = apps
  Recipient = {api, resolver}
  NoFile = NoFile
  Torn = Torn
  NoTx = NoTx
  MaxFailures = 3
  Environment = {"kills", "abandons", "reverts"}
SPECIFICATION Specification
INVARIANTS TypeOK PublishedIsLive ConsumersAgree StraysExplained
PROPERTIES PublicationKept JobSucceeds
