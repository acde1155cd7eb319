------------------------- MODULE StreamInterceptor --------------------------
(***************************************************************************)
(* The body of a streaming response: internal/proxy/streaming.go.  The     *)
(* reverse proxy reads it in pieces of any size, copies them to the client *)
(* and closes it in the end; the interceptor cuts the bytes into SSE       *)
(* events, accumulates the usage they report and records it once.          *)
(*                                                                         *)
(* The stream is a sequence of symbols: LF, CR, and one for the lines of   *)
(* an event.  A symbol is a record of its kind ("n", "r", "data" for an    *)
(* event with a "data:" line, "other" for a comment or "[DONE]") and, for  *)
(* data, the chunk, which the provider's parser reads (Providers).         *)
(***************************************************************************)
EXTENDS Meter, Providers

CONSTANTS
    Events,         \* Events[style]: what an upstream of that style may send
    MaxEvents,      \* bound on the events of a stream
    Framings,       \* the event terminators in use, one or both of LF and CRLF
    Asked           \* the model named in the request

symbol(kind, c) == [kind |-> kind, chunk |-> c]
data(c) == symbol("data", c)
Silent  == chunk("", "", NoModel, 0, NoCounts)
lf == symbol("n", Silent)
cr == symbol("r", Silent)
LF   == <<lf, lf>>
CRLF == <<cr, lf, cr, lf>>

\* What an event says to a reader who knows the formats: the counts it holds,
\* under whatever name.
says(c) ==
    [model |-> c.model, text |-> c.text, input |-> c.usage.prompt + c.usage.input,
     output |-> c.usage.completion + c.usage.output]

\* The format of a style: what its events hold, under which names and in which
\* events.
inFormat(s, c) ==
    LET u == c.usage
    IN  CASE s = "openai" ->
                IF c.type = "response.completed"
                THEN c.text = 0 /\ u.prompt = 0 /\ u.completion = 0
                ELSE (u.prompt = 0 \/ u.input = 0) /\ (u.completion = 0 \/ u.output = 0)
          [] s = "anthropic" ->
                /\ u.prompt = 0 /\ u.completion = 0
                /\ c.model # NoModel \/ u.input > 0 => c.event = "message_start"
                /\ c.text > 0 => c.event = "content_block_delta"
                /\ u.output > 0 => c.event = "message_delta"
          [] s \in {"azure", "gemini"} ->
                /\ u.input = 0 /\ u.output = 0
                /\ s = "gemini" /\ c.type = "bracket" => says(c) = says(Silent)
          [] s = "cohere" ->
                /\ c.model = NoModel /\ u.prompt = 0 /\ u.completion = 0
                /\ c.text > 0 => is(c, "content-delta")
                /\ u.input > 0 \/ u.output > 0 => is(c, "message-end") /\ ~is(c, "content-delta")

ASSUME StreamAssumption ==
    /\ MaxEvents \in Nat /\ Framings \subseteq {LF, CRLF}
    /\ DOMAIN Events \subseteq Styles
    /\ \A s \in DOMAIN Events : \A e \in Events[s] :
         /\ e.kind = "data" \/ (e.kind = "other" /\ e.chunk = Silent)
         /\ e.chunk.text \in Nat
         /\ e.chunk.usage \in [prompt : Nat, completion : Nat, input : Nat, output : Nat]
         /\ inFormat(s, e.chunk)

VARIABLES
    style,      \* the provider's format
    sent,       \* history: the events of the stream, as far as they are begun
    rest,       \* what is still to come of the last of them
    reported,   \* history: what the first, the first two ... events report
    parseBuf,   \* read and not yet cut into events
    usage,      \* accumulated model, input and output tokens, and text
    reader,     \* where the reader stands
    eof,        \* the last Read returned io.EOF
    once,       \* finalize has run
    records     \* usage records handed to the recorder

wire == <<sent, rest, reported>>
streamVars == <<style, wire, parseBuf, usage, reader, eof, once, records>>

StreamInit ==
    /\ style \in DOMAIN Events
    /\ sent = <<>> /\ rest = <<>> /\ reported = <<>>
    /\ parseBuf = <<>>
    /\ usage = NoMeta
    /\ reader = "read"
    /\ eof = FALSE
    /\ once = FALSE
    /\ records = <<>>

-----------------------------------------------------------------------------
(* parseSSEEvent.                                                          *)

\* Later positive counts replace earlier ones, text is collected.
accumulate(u, c) ==
    [model  |-> IF c.model # NoModel THEN c.model ELSE u.model,
     input  |-> override(u.input, c.input),
     output |-> override(u.output, c.output),
     text   |-> u.text + c.text]

\* An event's data lines are joined by a newline: two chunks in one event are
\* not one JSON value, and the provider's parser refuses them.
parseSSEEvent(u, event) ==
    LET payload == {i \in DOMAIN event : event[i].kind = "data"}
    IN  IF \E i \in payload : payload = {i}
        THEN accumulate(u, ParseStreamChunk(style, event[CHOOSE i \in payload : TRUE].chunk))
        ELSE u

-----------------------------------------------------------------------------
(* processEvents.                                                          *)

\* Where the terminator starts in the buffer, if anywhere.
found(sep) == {i \in 1 .. Len(parseBuf) + 1 - Len(sep) :
                  SubSeq(parseBuf, i, i + Len(sep) - 1) = sep}
firstOf(S) == {i \in S : \A j \in S : i <= j}

\* The bytes before idx are an event; kept stays in the buffer.
cutAt(idx, kept) ==
    /\ usage' = parseSSEEvent(usage, SubSeq(parseBuf, 1, idx - 1))
    /\ parseBuf' = kept

\* Faulty: what follows the event in the buffer is thrown away.
cutAll(sep) == \E idx \in firstOf(found(sep)) : cutAt(idx, <<>>)

\* Faulty: the terminator stays, and is found again.
cutBefore(sep) == \E idx \in firstOf(found(sep)) :
    cutAt(idx, SubSeq(parseBuf, idx, Len(parseBuf)))

\* The event and its terminator leave the buffer.
cut(sep) == \E idx \in firstOf(found(sep)) :
    cutAt(idx, SubSeq(parseBuf, idx + Len(sep), Len(parseBuf)))

\* One turn of the loop: LF LF is looked for first, in the whole buffer.
processEvent ==
    /\ reader = "parse"
    /\ \/ cut(LF)
       \/ found(LF) = {} /\ cut(CRLF)
    /\ UNCHANGED <<style, wire, reader, eof, once, records>>

-----------------------------------------------------------------------------
(* finalize, Read and Close.                                               *)

\* The model is the stream's, else the request's.  Missing output tokens are
\* estimated from the text, if tiktoken has an encoding for the model and can
\* load it; the status recorded is always 200.
usageRecord(loads, order) ==
    LET model     == IF usage.model # NoModel THEN usage.model ELSE RequestModel(style, Asked)
        estimated == usage.output = 0 /\ usage.text > 0
        output    == IF estimated THEN CountTokens(model, usage.text, loads) ELSE usage.output
    IN  [model |-> model, input |-> usage.input, output |-> output, estimated |-> estimated,
         cost |-> Calculate(order, model, usage.input, output)]

\* Faulty: without sync.Once, both the last Read and Close record.
finalizeTwice ==
    /\ once' = TRUE
    /\ \E loads \in BOOLEAN, order \in iterations :
          records' = Append(records, usageRecord(loads, order))

finalize ==
    /\ once' = TRUE
    /\ IF once THEN UNCHANGED records
       ELSE \E loads \in BOOLEAN, order \in iterations :
               records' = Append(records, usageRecord(loads, order))

\* What the stream reports as far as its events are complete.
latest == IF reported = <<>> THEN NoMeta ELSE reported[Len(reported)]

\* The upstream begins an event ...
Begin ==
    /\ rest = <<>> /\ Len(sent) < MaxEvents
    /\ \E e \in Events[style], end \in Framings :
         /\ sent' = Append(sent, [lines |-> e, end |-> end])
         /\ parseBuf' = Append(parseBuf, e)
         /\ rest' = end
    /\ UNCHANGED reported

\* ... or sends the next byte of its terminator.
Continue ==
    /\ rest # <<>>
    /\ parseBuf' = Append(parseBuf, Head(rest))
    /\ rest' = Tail(rest)
    /\ reported' = IF Tail(rest) # <<>> THEN reported
                   ELSE Append(reported, accumulate(latest, says(sent[Len(sent)].lines.chunk)))
    /\ UNCHANGED sent

\* Bytes arrive while src.Read waits for some; how many it returns at once is
\* open.  (Nothing looks at the buffer before it returns.)
Receive ==
    /\ reader \in {"read", "fill"}
    /\ reader' = "fill"
    /\ Begin \/ Continue
    /\ UNCHANGED <<style, usage, eof, once, records>>

\* src.Read returns bytes, the last of them possibly with io.EOF.
Read ==
    /\ reader = "fill"
    /\ eof' \in BOOLEAN
    /\ reader' = "parse"
    /\ UNCHANGED <<style, wire, parseBuf, usage, once, records>>

\* Read returns to the reverse proxy, which writes the bytes to the client.
ReadReturn ==
    /\ reader = "parse"
    /\ found(LF) = {} /\ found(CRLF) = {}
    /\ IF eof THEN finalize /\ reader' = "close"
       ELSE UNCHANGED <<once, records>> /\ reader' = "read"
    /\ UNCHANGED <<style, wire, parseBuf, usage, eof>>

\* src.Read returns io.EOF and no bytes; the last event may be incomplete.
ReadEOF ==
    /\ reader = "read"
    /\ reader' = "close" /\ eof' = TRUE
    /\ finalize
    /\ UNCHANGED <<style, wire, parseBuf, usage>>

\* The upstream connection breaks, or the write to the client fails: the
\* reverse proxy stops copying.
Abort ==
    /\ reader = "read"
    /\ reader' = "close"
    /\ UNCHANGED <<style, wire, parseBuf, usage, eof, once, records>>

\* The reverse proxy closes the body, however the copying ended.
StreamClose ==
    /\ reader = "close"
    /\ reader' = "done"
    /\ finalize
    /\ UNCHANGED <<style, wire, parseBuf, usage, eof>>

StreamNext == Receive \/ Read \/ processEvent \/ ReadReturn \/ ReadEOF \/ Abort \/ StreamClose

StreamSpec == StreamInit /\ [][StreamNext]_streamVars

\* The handler's goroutine runs; the upstream sends, ends or breaks.
FairStreamSpec ==
    /\ StreamSpec
    /\ WF_streamVars(Read) /\ WF_streamVars(processEvent) /\ WF_streamVars(ReadReturn)
    /\ WF_streamVars(Abort \/ ReadEOF) /\ WF_streamVars(StreamClose)

-----------------------------------------------------------------------------
(* Properties.                                                             *)

\* The events of the stream end alike.
uniform == \A i, j \in 1 .. Len(sent) : sent[i].end = sent[j].end

\* Every variable has its type; an event is reported when it is complete.
Symbols == {lf, cr} \cup Events[style]
Models  == {NoModel} \cup {e.chunk.model : e \in Events[style]}
Usage   == [model : Models, input : Nat, output : Nat, text : Nat]

StreamTypeOK ==
    /\ style \in DOMAIN Events
    /\ sent \in Seq([lines : Events[style], end : Framings])
    /\ rest \in Seq({lf, cr}) /\ Len(rest) <= 4
    /\ reported \in Seq(Usage)
    /\ Len(reported) = Len(sent) - (IF rest = <<>> THEN 0 ELSE 1)
    /\ parseBuf \in Seq(Symbols)
    /\ usage \in Usage
    /\ reader \in {"read", "fill", "parse", "close", "done"}
    /\ eof \in BOOLEAN /\ once \in BOOLEAN

\* How the upstream's bytes are split into reads is invisible: between two
\* reads the usage is what the complete events received so far report, under
\* the names of the provider's format, even when a terminator was split
\* between reads.  It holds for streams that end
\* all events alike: where terminators differ, an event ended by CRLF CRLF is
\* joined to a following one ended by LF LF, which is looked for first.
ChunkingInvisible == uniform /\ reader \notin {"fill", "parse"} => usage = latest

\* A stream that has ended - at EOF, by an error or by the client - is
\* recorded exactly once, and if its events end alike with the usage of the
\* events that were received: output tokens are estimated only where no event
\* reported any, the model is one that was reported or asked for, and the cost
\* is that of the tokens recorded.  (Stated of well-typed states.)
RecordedOnce ==
    /\ StreamTypeOK
    /\ reader = "done" =>
         /\ Len(records) = 1
         /\ uniform =>
              LET rec == records[1]
              IN  /\ rec.input = latest.input
                  /\ rec.estimated <=> (latest.output = 0 /\ latest.text > 0)
                  /\ latest.output > 0 => rec.output = latest.output
                  /\ rec.output \in {0, latest.output, latest.text}
                  /\ latest.model # NoModel => rec.model = latest.model
                  /\ \A order \in iterations :
                        rec.cost = Calculate(order, rec.model, rec.input, rec.output)

\* Every stream is recorded in the end: processEvents terminates and Close
\* records what the last Read did not.
EventuallyRecorded == <>(Len(records) > 0)
=============================================================================
