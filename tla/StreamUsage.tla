---------------------------- MODULE StreamUsage -----------------------------
(***************************************************************************)
(* How many tokens a streamed answer is billed for: the parsers of         *)
(* proxy.py and routers/gemini.py, which go through the collected bytes    *)
(* line by line once the stream has ended.  A line is a record of what the *)
(* parsers tell apart; everything they skip (comments, event names, [DONE],*)
(* chunks without usage, text that is not JSON) is Noise.                  *)
(***************************************************************************)
EXTENDS Integers, Sequences, FiniteSets, SequencesExt

Absent == -1        \* a count that the object does not have

Lines == [type : {"noise", "usage", "message_start", "message_delta", "metadata"},
          input : Nat \cup {Absent}, output : Nat \cup {Absent}, total : Nat \cup {Absent}]

Line(type, input, output) == [type |-> type, input |-> input, output |-> output, total |-> Absent]

Noise == Line("noise", Absent, Absent)

\* dict.get with a default.
Given(x, default) == IF x = Absent THEN default ELSE x

\* openai_stream_usage: the first chunk that has a usage object.
OpenAIUsage(lines) ==
    LET reported == {i \in DOMAIN lines : lines[i].type = "usage"}
        first == lines[Min(reported)]
    IN  IF reported = {} THEN <<0, 0>> ELSE <<Given(first.input, 0), Given(first.output, 0)>>

\* Mutant: the counts of message_delta are taken for increments.
AnthropicLineSummed(tokens, l) ==
    CASE l.type = "message_start" -> <<Given(l.input, tokens[1]), Given(l.output, tokens[2])>>
      [] l.type = "message_delta" -> <<tokens[1], tokens[2] + Given(l.output, 0)>>
      [] OTHER -> tokens

\* anthropic_stream_usage: message_start has the input tokens, and each
\* message_delta the output tokens so far.
AnthropicLine(tokens, l) ==
    CASE l.type = "message_start" -> <<Given(l.input, tokens[1]), Given(l.output, tokens[2])>>
      [] l.type = "message_delta" -> <<tokens[1], Given(l.output, tokens[2])>>
      [] OTHER -> tokens

\* usage.from_gemini: without a count of candidates, what the total leaves.
FromGemini(l) ==
    LET prompt == Given(l.input, 0)
        rest == Given(l.total, 0) - prompt
    IN  <<prompt, Given(l.output, IF rest > 0 THEN rest ELSE 0)>>

\* The pieces _gemini_stream_usage takes the text of a stream apart into: at every
\* "data:" and every line break of str.splitlines (U+0085 and U+2028 are some),
\* between the chunks or within one.  Of a chunk that is cut no piece is read: it
\* does not begin with a brace, or is not JSON.
Piece(chunk, cut) == IF cut THEN Noise ELSE chunk

\* _gemini_stream_usage: the last piece that counts anything.
GeminiLine(tokens, l) ==
    IF l.type = "metadata" /\ FromGemini(l) # <<0, 0>> THEN FromGemini(l) ELSE tokens

\* What a line makes of the tokens read so far; and what all of them make.
ReadLine(api, tokens, l) ==
    IF api = "anthropic" THEN AnthropicLine(tokens, l) ELSE GeminiLine(tokens, l)

StreamUsageOf(api, lines) ==
    IF api = "openai" THEN OpenAIUsage(lines)
    ELSE FoldLeft(LAMBDA tokens, l : ReadLine(api, tokens, l), <<0, 0>>, lines)

-----------------------------------------------------------------------------
(* The providers (external): the lines in which each of them says that the *)
(* call has used the tokens now, when it had last said before.  OpenAI     *)
(* says it once, and only if the client has asked; Anthropic the input     *)
(* once and the output again and again; Gemini everything with each chunk, *)
(* the output directly or within the total.                                *)

Says(api, before, now) ==
    CASE api = "openai" -> IF before = <<0, 0>> THEN {Line("usage", now[1], now[2])} ELSE {}
      [] api = "anthropic" ->
            IF before = <<0, 0>> THEN {Line("message_start", now[1], now[2])}
            ELSE IF now[1] = before[1] THEN {Line("message_delta", Absent, now[2])} ELSE {}
      [] api = "gemini" ->
            {Line("metadata", now[1], now[2]),
             [Line("metadata", now[1], Absent) EXCEPT !.total = now[1] + now[2]]}
=============================================================================
