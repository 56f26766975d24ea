SPECIFICATION Spec
CONSTANTS
  Names <- MCNames
  Hosts <- MCHosts
  Keys <- MCKeys
  Programs <- MCPrograms
  PortModulus = 3
  DefaultName = "default"
  DefaultEditor = "vim"
  NoProgram = ""
  NoFile = NoFile
  Torn = Torn
  Missing = Missing
  Mistyped = Mistyped
  ServerKeys = {"good"}
  Procs = {p1}
  Commands <- KeyCommands
  Answers <- OneAnswer
  InitFiles <- OneFile
  Faults = {"short_write"}
INVARIANTS
  SaveSaves
