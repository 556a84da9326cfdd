CONSTANTS
  MaxPlayedHistory = 1
  MaxSongs = 2
  MaxSpeech = 2
  MaxNested = 1
SPECIFICATION Spec
PROPERTY SpeechIsHeard
CHECK_DEADLOCK FALSE
