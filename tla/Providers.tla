----------------------------- MODULE Providers ------------------------------
(***************************************************************************)
(* How the providers' formats are read: ParseRequest, ParseResponse and    *)
(* ParseStreamChunk of internal/provider, one style per Go type.           *)
(*                                                                         *)
(* A JSON body is a record of the fields the parsers look at, with the     *)
(* names the styles share: "prompt" stands for the prompt_tokens of OpenAI *)
(* and Azure, the promptTokenCount of Gemini; "input" for input_tokens.    *)
(***************************************************************************)
EXTENDS Integers, Sequences

Styles == {"openai", "anthropic", "azure", "gemini", "cohere"}

\* RequestMeta.Model: Azure has its deployment and Gemini its model in the
\* path, which the parsers do not see.
azureRequestModel  == <<"azure-deployment">>
geminiRequestModel == <<>>

RequestModel(style, model) ==
    CASE style = "azure"  -> azureRequestModel
      [] style = "gemini" -> geminiRequestModel
      [] OTHER            -> model

\* Token counts of a usage object.
counts(prompt, completion, input, output) ==
    [prompt |-> prompt, completion |-> completion, input |-> input, output |-> output]

NoCounts == counts(0, 0, 0, 0)

override(x, y) == IF y > 0 THEN y ELSE x

\* OpenAI: the names of the Responses API take precedence.
openaiUsage(u) ==
    [input |-> override(u.prompt, u.input), output |-> override(u.completion, u.output)]
azureUsage(u)     == [input |-> u.prompt, output |-> u.completion]
geminiUsage(u)    == azureUsage(u)
anthropicUsage(u) == [input |-> u.input, output |-> u.output]
cohereUsage(u)    == anthropicUsage(u)     \* of its billed units

styleUsage(style, u) ==
    CASE style = "openai"    -> openaiUsage(u)
      [] style = "azure"     -> azureUsage(u)
      [] style = "gemini"    -> geminiUsage(u)
      [] style = "anthropic" -> anthropicUsage(u)
      [] style = "cohere"    -> cohereUsage(u)

\* ResponseMeta of a complete response; Cohere's names no model.
ParseResponse(style, body) ==
    [model |-> IF style = "cohere" THEN <<>> ELSE body.model,
     input |-> styleUsage(style, body.usage).input,
     output |-> styleUsage(style, body.usage).output]

\* One event of a stream: the name of its SSE "event:" line, the "type" field
\* of its JSON, and what it holds.
chunk(event, type, model, text, usage) ==
    [event |-> event, type |-> type, model |-> model, text |-> text, usage |-> usage]

NoMeta == [model |-> <<>>, input |-> 0, output |-> 0, text |-> 0]

is(c, name) == c.event = name \/ c.type = name

\* A chunk whose usage lies in a nested "response" object counts only in the
\* event that ends a Responses API stream.
openaiChunk(c) ==
    IF c.type = "response.completed"
    THEN [NoMeta EXCEPT !.model = c.model, !.input = c.usage.input, !.output = c.usage.output]
    ELSE [model |-> c.model, text |-> c.text, input |-> openaiUsage(c.usage).input,
          output |-> openaiUsage(c.usage).output]

\* Anthropic goes by the SSE event name only: the input tokens come with the
\* first event, the output tokens with the last but one.
anthropicChunk(c) ==
    CASE c.event = "message_start"       -> [NoMeta EXCEPT !.model = c.model, !.input = c.usage.input]
      [] c.event = "content_block_delta" -> [NoMeta EXCEPT !.text = c.text]
      [] c.event = "message_delta"       -> [NoMeta EXCEPT !.output = c.usage.output]
      [] OTHER                           -> NoMeta

\* Azure: any chunk may carry text and counts.
azureChunk(c) ==
    [model |-> c.model, text |-> c.text, input |-> c.usage.prompt, output |-> c.usage.completion]

\* Gemini: likewise, once the brackets and commas of the array its stream is
\* written as are stripped; where nothing is left the chunk says nothing.
geminiChunk(c) == IF c.type = "bracket" THEN NoMeta ELSE azureChunk(c)

\* Cohere: text and billed units, each in an event of its own; an event with
\* two names is a delta.
cohereChunk(c) ==
    IF is(c, "content-delta") THEN [NoMeta EXCEPT !.text = c.text]
    ELSE IF is(c, "message-end")
         THEN [NoMeta EXCEPT !.input = c.usage.input, !.output = c.usage.output]
    ELSE NoMeta

ParseStreamChunk(style, c) ==
    CASE style = "openai"    -> openaiChunk(c)
      [] style = "anthropic" -> anthropicChunk(c)
      [] style = "cohere"    -> cohereChunk(c)
      [] style = "azure"     -> azureChunk(c)
      [] style = "gemini"    -> geminiChunk(c)
=============================================================================
