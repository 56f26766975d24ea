SPECIFICATION FairSpec
CONSTANTS
  Names <- MCNames
  Hosts <- MCHosts
  Keys <- MCKeys
  Programs <- MCPrograms
  PortModulus = 3
  DefaultName = "default"
  DefaultEditor = "vim"
  NoProgram = ""
  NoFile = NoFile
  Torn = Torn
  Missing = Missing
  Mistyped = Mistyped
  ServerKeys = {"good"}
  Procs = {p1}
  Commands <- StoreCommands
  Answers <- NoSslAnswers
  InitFiles <- SingleFiles
  Faults = {"crash", "server_fails"}
  Unset = Unset
PROPERTIES
  StoreSpec
  Repaired
