--------------------------- MODULE MCConversation ---------------------------
(* Small instances of Conversation.                                        *)
EXTENDS Conversation

CONSTANTS muse, codex, chat, compat, anthropic

MCApi == [b \in Backends |->
  CASE b \in {muse, codex} -> "responses"
    [] b = chat -> "chat"
    [] OTHER -> "anthropic"]

MCHarnessPrompt == [b \in Backends |-> IF b = muse THEN <<"harness">> ELSE <<>>]

MCBackends == {muse, codex, chat, compat, anthropic}
MCContinues == {muse}
MCAlwaysStream == {codex}
MCTriggers == {codex}
MCSignsThinking == {anthropic}
MCUtterances == {"strings", "blocks"}
MCResultPlaces == {"between"}

R(kind, class) == [kind |-> kind, class |-> class, named |-> TRUE]
Unnamed == [kind |-> "call", class |-> "prose", named |-> FALSE]
Of(items) == [items |-> items, status |-> "completed"]

MCReplies ==
  { Of(<<R("reasoning", "prose"), R("message", "prose"), Unnamed, Unnamed>>),
    Of(<<R("reasoning", "empty"), R("call", "prose"), R("call", "prose")>>),
    Of(<<R("message", "done")>>),
    Of(<<R("message", "blank"), R("reasoning", "prose"), R("message", "prose")>>),
    [items |-> <<R("message", "prose"), R("call", "prose")>>, status |-> "incomplete"],
    [items |-> <<R("message", "prose"), R("message", "done")>>, status |-> "incomplete"],
    [items |-> <<R("message", "prose")>>, status |-> "failed"],
    [items |-> <<>>, status |-> "failed"] }
=============================================================================
