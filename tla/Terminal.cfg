CONSTANTS
  width = 4
  height = 4
  Numbers = {0, 16, 418}
SPECIFICATION ScreenSpec
INVARIANT TypeOK CursorAtRest MainColours NumberShown
PROPERTY MainInside HandlerNear TerminalSpec
