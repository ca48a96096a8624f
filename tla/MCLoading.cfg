SPECIFICATION AllSpec
CONSTANTS
  Strings <- MCStrings
  LIBS = 3
  SYMS = 4
  Inputs <- MCInputs
  P = 2
  Size = 6
  Top = 12
  ARGSIZE = 2
  MAINARG_ADDR = 10
  Header = 2
  HDRSIZE = 4
  Headers = {0, 1}
  Tables <- MCTables
  Argvs <- MCArgvs
  Envps <- MCEnvps
  Verbose = {"SSH_TTY"}
  Room = 11
INVARIANTS
  LinksWell
  ImageInPlace
PROPERTY
  LoadingEnds
