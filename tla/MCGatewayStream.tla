--------------------------- MODULE MCGatewayStream ---------------------------
EXTENDS GatewayStream

CONSTANT r1

OneRequest == {r1}

\* The lines of a worker in the order it writes them: its stages, a summary
\* before the classification and one after it, the tokens, the end; the queue
\* response of the main thread; a request that raises.
LongAnswers ==
    {<<"queued", "system", "summary", "system", "summary", "system", "token", "token", "done">>,
     <<"system", "queued", "summary", "system", "token", "system", "token", "done">>,
     <<"queued", "system", "error">>}
=============================================================================
