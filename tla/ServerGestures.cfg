SPECIFICATION FairSpec
CONSTANTS
  c1 = c1
  c2 = c2
  Proxies = {c1}
  Primary = Primary
  NoScreen = NoScreen
  Names = {1, 2, 3}
  PrimaryName = 2
  NoName = 0
  Configs <- MCGestures
  Horizontal = {left}
  Vertical = {top}
  NoDirection = NoDirection
INVARIANTS
  SwitchSound

  
  
