\* Card numbers of three or four digits, so that every text of up to seven bytes can be
\* tried; the other formats keep their lengths, except those of e-mail addresses, which
\* are short enough for an edit to pass them.
CONSTANTS
  MinCard = 3
  MaxCard = 4
  MaxLocal = 3
  MaxLabel = 3
  MaxDomain = 6
  MinDial = 7
  MaxDial = 9
  PhoneIsValid <- MCPhoneIsValid
  Seeds <- MCSeeds
  Alphabet <- MCAlphabet
  MaxEdits <- MCMaxEdits
SPECIFICATION Spec
INVARIANT ReportsAreGenuine
INVARIANT ReportsStandAlone
INVARIANT NoneIsMissed
CHECK_DEADLOCK FALSE
