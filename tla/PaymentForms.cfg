SPECIFICATION FormsSpec
CONSTANTS
  NameMax = 2
  CardNameMax = 5
  PollsMax = 2
  MaxEdits = 4
  Texts <- MCTexts
  Codes <- MCCodes
  SaleReplies <- MCSaleReplies
  Statuses <- MCStatuses
INVARIANTS SamePage SuggestionFits
CHECK_DEADLOCK FALSE
