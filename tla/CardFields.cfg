SPECIFICATION CardSpec
CONSTANTS
  Fields = {cardNumber, cvv}
  Styles = {"light", "dark"}
  Ports = {"plain", "nextjs", "go-react"}
  MaxReloads = 1
  MaxChanges = 3
  MaxPresses = 2
  MaxEvents = 4
INVARIANTS OneCallbackPerCall ButtonWaits FieldsWearTheLastPush ThemeSurvives
PROPERTY TokenizationGathers
CHECK_DEADLOCK FALSE
