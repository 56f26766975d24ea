SPECIFICATION Spec
CONSTANTS
  Names <- MCNames
  Hosts <- MCHosts
  Keys <- MCKeys
  Programs <- MCPrograms
  PortModulus = 3
  DefaultName = "default"
  DefaultEditor = "vim"
  NoProgram = ""
  NoFile = NoFile
  Torn = Torn
  Missing = Missing
  Mistyped = Mistyped
  ServerKeys = {"good"}
  Procs = {p1}
  Commands <- HelpCommands
  Answers <- OneAnswer
  InitFiles <- FirstActive
  Faults = {}
INVARIANTS
  ActiveIsNamed
