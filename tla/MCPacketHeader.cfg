SPECIFICATION Spec
CONSTANTS
  Firmware <- MCFirmware
  Registers <- MCRegisters
  Levels <- MCLevels
  EditWords <- MCEditWords
  Biases <- MCBiases
  MaxFrames = 1
  MaxUpdates = 2
  MaxEdits = 1
INVARIANTS
  TypeOK
  BiasFollows
  BiasWhole
  PacketMeans
  ViewsAgree
CHECK_DEADLOCK FALSE
