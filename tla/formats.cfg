SPECIFICATION Spec
CONSTANTS
  CommandSize = 12
  PacketSize = 14
  DataSize = 18
  TextSize = 3
  UuidCount = 2
  Failed = Failed
  Panicked = Panicked
  None = None
  Commands <- AllCommands
  Messages <- AllMessages
  AttributeLists <- Lists
  Addresses <- TwoAddresses
  DeviceClasses <- Classes
  AclHeaders <- Headers
  SdpCid = 64
  Padding <- PaddingOctets
  DamagedOctets <- Damage
INVARIANTS
  TypeOK
  WholeIsRead
  CutIsNoticed
  WhatIsReadIsThere
PROPERTIES
  SizesAddUp
CHECK_DEADLOCK FALSE
