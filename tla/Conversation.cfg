SPECIFICATION Spec
CONSTANTS
  muse = muse
  codex = codex
  chat = chat
  compat = compat
  anthropic = anthropic
  Backends <- MCBackends
  Api <- MCApi
  HarnessPrompt <- MCHarnessPrompt
  Continues <- MCContinues
  AlwaysStream <- MCAlwaysStream
  Triggers <- MCTriggers
  SignsThinking <- MCSignsThinking
  MaxRounds = 2
  Utterances <- MCUtterances
  ResultPlaces <- MCResultPlaces
  Replies <- MCReplies
  MaxAsks = 3
CHECK_DEADLOCK FALSE
INVARIANT RequestsAreAccepted
INVARIANT NothingIsLost
INVARIANT EndIsUnderstood
PROPERTY PrefixIsStable
