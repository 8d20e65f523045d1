SPECIFICATION FairSpec
CONSTANTS
  Command = {c1}
  MAXCOMMANDSINBUFFER = 1
  SERIALTIMEOUT = 1
  OPTIONALPCBQUERYTIME = 1
  Setup <- PcbOrCommands
  MAXDATA = 3
  RxBuffer = 2
  MaxUnanswered = 1
  MaxOvertakes = 2
  c1 = c1
INVARIANT PcbIsRegular
INVARIANT LinkIsConsistent
PROPERTY WaitEnds
PROPERTY CommandIsTaken
