SPECIFICATION Spec
CONSTANTS
  NOX_EDIT_CAP = 4
  LINENOISE_MAX_FOLDS = 2
  PASTE_FOLD_THRESHOLD = 2
  Pastes <- MCPastes
  STDIN_BUF_INIT = 2
  STDIN_BUF_MAX = 5
  Slack = 2
  MaxFailures = 1
  InputCap = 2
  TUI_CHAT_SCROLLBACK = 2
  TUI_MAX_CONTACTS = 1
  Onions = {"x", "y"}
  Page = 2
  Heights = {3, 6}
  TUI_INPUT_HEIGHT = 2
  MinChat = 3
  MaxRows = 2
  ScriptBytes = {"a", "[", "E", "N", "R", "B", "0"}
  MaxScript = 4
INVARIANTS
  FoldsIntact
  NewlinesHidden
  TerminalGivenBack
  EachLineOnce
  LinesOwnedOnce
  
PROPERTY
  ScriptEnds
