SPECIFICATION Spec
CONSTANTS
  CONSOLE_BUFFER_SIZE = 4
  MAX_ARGS = 3
  Letters <- MCLetters
INVARIANTS TypeOK
PROPERTIES ImplementsInputQueue ArgumentsAreWords
