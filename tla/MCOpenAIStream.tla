--------------------------- MODULE MCOpenAIStream ---------------------------
(* Small instances of OpenAIStream.                                        *)
EXTENDS OpenAIStream

CONSTANTS c1, c2

Calls == {c1, c2}
=============================================================================
