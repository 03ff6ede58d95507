CONSTANTS
  Width = 4
  Height = 2
  Tab = 2
  Byte = 4
  Colors = {15, 4}
  Letters = {97}
  HandlerText <- Line
  MaxCalls = 2
  MaxInterrupts = 2
SPECIFICATION Spec
INVARIANTS
  StoresStayInTheBuffer
  CursorComesBack
PROPERTIES
  ImplementsTerminal
