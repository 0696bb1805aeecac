SPECIFICATION LiveSpec
CONSTANTS
  Frames <- MCFrames
  Fine = 2
  Limits = {0, 2, 3}
  Window = 2
  ClockMod = 4
  Prompt = TRUE
  MaxBegins = 1
INVARIANTS TypeOK FlagsFitRadio NothingForgotten BudgetKept
PROPERTIES CompletionsAreReal TransmissionsEnd AnnouncedFramesAreTaken
