SPECIFICATION KernelSpec
CONSTANTS
  WORD = 48
  PAGESIZE = 4
  MEM_USERLO_PI = 2
  MEM_USERHI_PI = 7
  NUM_TABLES = 2
  PLANE_BYTES = 3
  PLANE_COUNT = 2
  VGA_WIDTH = 3
  VGA_HEIGHT = 4
  VGA_PLANES = 2
  VGA_PIXELS_PER_BYTE = 2
  CHAR_SIZE = 2
  CONSOLE_BUFFER_SIZE = 5
  MAX_ARGS = 3
  USER_QUOTA = 8
  Maps <- MCKernelMaps
  Font <- MCFont
  Letters <- MCLetters
  Character <- MCCharacter
  Commands <- MCCommands
  ColorNames <- MCColorNames
  Text <- MCText
  Images <- MCImages
INVARIANTS KernelTypeOK RamExactBelow4G MapPrinted LineOnScreen ImageLoaded
PROPERTIES ImplementsTextScreen CallContract
CHECK_DEADLOCK FALSE
