------------------------ MODULE MCStreamInterceptor -------------------------
(* Small instances of the stream interceptor: for every format the events  *)
(* that carry text and usage, and a line without data.                    *)
EXTENDS StreamInterceptor

Dated == <<"gpt-", "4", "o", "-mini", "-2025">>
MCAsked == <<"gpt-", "4">>

Done == symbol("other", Silent)

MCEvents ==
    "openai" :> {data(chunk("", "", Dated, 1, NoCounts)),
                 data(chunk("", "", Dated, 0, counts(2, 3, 0, 0))),
                 data(chunk("response.completed", "response.completed", Dated, 0, counts(0, 0, 1, 2))),
                 Done}
    @@ "anthropic" :> {data(chunk("message_start", "message_start", <<"claude">>, 0, counts(0, 0, 2, 0))),
                       data(chunk("content_block_delta", "content_block_delta", NoModel, 1, NoCounts)),
                       data(chunk("message_delta", "message_delta", NoModel, 0, counts(0, 0, 0, 3))),
                       data(chunk("ping", "ping", NoModel, 0, NoCounts))}
    @@ "azure" :> {data(chunk("", "", Dated, 1, NoCounts)),
                   data(chunk("", "", Dated, 0, counts(2, 3, 0, 0))), Done}
    @@ "gemini" :> {data(chunk("", "", Dated, 1, counts(2, 1, 0, 0))),
                    data(chunk("", "", NoModel, 1, counts(2, 3, 0, 0))),
                    data(chunk("", "bracket", NoModel, 0, NoCounts))}
    @@ "cohere" :> {data(chunk("", "content-delta", NoModel, 1, NoCounts)),
                    data(chunk("message-end", "", NoModel, 0, counts(0, 0, 2, 3))), Done}

BothFramings == {LF, CRLF}
=============================================================================
