SPECIFICATION Spec
CONSTANTS
  MaxKeys = 2
  Screens <- MCScreens
  Bitmaps <- MCBitmaps
  HeaderSize = 54
  Word32 <- MCWord32
INVARIANTS
  TypeOK
  MemoryRespected
  PicturesFaithful
  PromptIsSeen
PROPERTIES
  OnlyEnterAnswers
  EnterEndsPrompt
CHECK_DEADLOCK FALSE
