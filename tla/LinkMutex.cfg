SPECIFICATION FairSpec
CONSTANTS
  Command = {c1}
  MAXCOMMANDSINBUFFER = 1
  SERIALTIMEOUT = 1
  OPTIONALPCBQUERYTIME = 1
  Setup <- OnlyPcb
  MAXDATA = 3
  RxBuffer = 2
  MaxUnanswered = 1
  MaxOvertakes = 1
  c1 = c1
PROPERTY OneRequestAtATime
