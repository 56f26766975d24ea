SPECIFICATION Spec
CONSTANTS
  Names <- MCNames
  Hosts <- MCHosts
  Keys <- MCKeys
  Programs <- MCPrograms
  PortModulus = 3
  DefaultName = "default"
  DefaultEditor = "vim"
  NoProgram = ""
  NoFile = NoFile
  Torn = Torn
  Missing = Missing
  Mistyped = Mistyped
  ServerKeys = {"good"}
  Procs = {p1}
  Commands <- SoloCommands
  Answers <- MCAnswers
  InitFiles <- AllFiles
  Faults = {"open_fails", "short_write", "crash", "server_fails"}
INVARIANTS
  TypeOK
  SuccessMeansStored
PROPERTIES
  UpdateIsLocal
  RejectedKeyStays
