------------------------------- MODULE Scraper -------------------------------
(***************************************************************************)
(* A web search: run_brave_search() of the Python worker asks the scraper  *)
(* task of the Rust server over a unix socket; the task asks the search    *)
(* engine, fetches the pages it names at the same time, and answers        *)
(* (src/scripts/worker_mistral7b/brave.py, src/src/scraper).               *)
(*                                                                         *)
(* Time is counted in ticks, and a tick waits for whatever is due.  The    *)
(* Python worker makes one search at a time; a handler whose client gave   *)
(* up goes on beside the next one.                                         *)
(***************************************************************************)
EXTENDS Integers, Sequences, FiniteSets

CONSTANTS
    Searches,       \* the searches the worker makes, in this order: 1, 2, ...
    Take,           \* pages of one search (5)
    HttpLimit,      \* timeout of the HTTP client for a request (5 s)
    ClientLimit,    \* timeout of the Python socket (10 s)
    MaxCrashes      \* bound: ends of the Rust process

ASSUME ScraperAssumption ==
    /\ Searches \subseteq Nat \ {0}
    /\ Take \in Nat /\ MaxCrashes \in Nat
    /\ HttpLimit \in Nat \ {0} /\ ClientLimit \in Nat
    /\ 2 * HttpLimit <= ClientLimit

VARIABLES
    server,     \* the scraper task
    client,     \* where run_brave_search() is, or its outcome
    waited,     \* how long the client has waited for the answer
    handler,    \* where handle_conn() is
    phase,      \* how long its requests have been under way
    page,       \* what became of each page
    reply,      \* the results of the answer: page numbers
    crashes

vars == <<server, client, waited, handler, phase, page, reply, crashes>>

Outcomes == {"results", "no_socket", "empty_response", "timeout"}
Running == {"read", "search", "pages", "write"}

\* The types, with the limits that a bug would pass: no time runs on beyond its
\* limit, and no more pages than `Take` are asked for.
TypeOK ==
    /\ server \in {"starting", "up"}
    /\ client \in [Searches -> {"idle", "recv"} \cup Outcomes]
    /\ handler \in [Searches -> {"none", "done", "killed"} \cup Running]
    /\ waited \in [Searches -> 0..ClientLimit] /\ phase \in [Searches -> 0..HttpLimit]
    /\ page \in [Searches -> Seq({"fetch", "text", "snippet", "nothing"})]
    /\ \A s \in Searches : Len(page[s]) <= Take
    /\ reply \in [Searches -> SUBSET (1..Take)]
    /\ crashes \in 0..MaxCrashes

Init ==
    /\ server = "starting"
    /\ client = [s \in Searches |-> "idle"]
    /\ waited = [s \in Searches |-> 0]
    /\ handler = [s \in Searches |-> "none"]
    /\ phase = [s \in Searches |-> 0]
    /\ page = [s \in Searches |-> <<>>]
    /\ reply = [s \in Searches |-> {}]
    /\ crashes = 0

-----------------------------------------------------------------------------
(* The server.                                                             *)

\* spawn_scraper_process(): remove the file an earlier process left, bind, accept.
Bind ==
    /\ server = "starting"
    /\ server' = "up"
    /\ UNCHANGED <<client, waited, handler, phase, page, reply, crashes>>

\* The process ends, its handlers with it, and it is started again.
Crash ==
    /\ server = "up" /\ crashes < MaxCrashes
    /\ crashes' = crashes + 1 /\ server' = "starting"
    /\ handler' = [s \in Searches |-> IF handler[s] \in Running THEN "killed" ELSE handler[s]]
    /\ UNCHANGED <<client, waited, phase, page, reply>>

Goto(s, step) == handler' = [handler EXCEPT ![s] = step] /\ phase' = [phase EXCEPT ![s] = 0]
handlerVars == <<handler, phase, page, reply>>

\* read_to_end() returns: the client has shut down its side after the request.
Read(s) ==
    /\ handler[s] = "read" /\ Goto(s, "search")
    /\ UNCHANGED <<server, client, waited, page, reply, crashes>>

\* The engine names some pages, of which `Take` are fetched; or it fails, or
\* its time is up, and that is an answer without results.
SearchEnds(s) ==
    /\ handler[s] = "search"
    /\ \E hits \in 0..Take :
          /\ phase[s] = HttpLimit => hits = 0
          /\ page' = [page EXCEPT ![s] = [i \in 1..hits |-> "fetch"]]
    /\ Goto(s, "pages")
    /\ UNCHANGED <<server, client, waited, reply, crashes>>

\* Faulty variants: the pages are fetched one after the other, each with its own
\* time; a page that is not there in time is waited for.
PageEndsInTurn(s, i) ==
    /\ handler[s] = "pages" /\ page[s][i] = "fetch"
    /\ \A j \in 1..i - 1 : page[s][j] # "fetch"
    /\ \E got \in {"text", "snippet", "nothing"} :
          /\ phase[s] = HttpLimit => got # "text"
          /\ page' = [page EXCEPT ![s][i] = got]
    /\ phase' = [phase EXCEPT ![s] = 0]
    /\ UNCHANGED <<server, client, waited, handler, reply, crashes>>

PageEndsInTime(s, i) ==
    /\ handler[s] = "pages" /\ page[s][i] = "fetch" /\ phase[s] < HttpLimit
    /\ \E got \in {"text", "snippet", "nothing"} : page' = [page EXCEPT ![s][i] = got]
    /\ UNCHANGED <<server, client, waited, handler, phase, reply, crashes>>

\* extract_paragraphs(): paragraphs, or none or an error or no time left; then
\* the snippet of the hit, if it has one.  Each page is a task of its own.
PageEnds(s, i) ==
    /\ handler[s] \in {"pages", "write", "done"} /\ page[s][i] = "fetch"
    /\ \E got \in {"text", "snippet", "nothing"} :
          /\ phase[s] = HttpLimit => got # "text"
          /\ page' = [page EXCEPT ![s][i] = got]
    /\ UNCHANGED <<server, client, waited, handler, phase, reply, crashes>>

Fetching(s) == \E i \in DOMAIN page[s] : page[s][i] = "fetch"
Found(s) == {i \in DOMAIN page[s] : page[s][i] \in {"text", "snippet"}}

\* Faulty variant: the handler goes on with the first page that is there.
JoinFirst(s) ==
    /\ handler[s] = "pages" /\ (page[s] = <<>> \/ \E i \in DOMAIN page[s] : page[s][i] # "fetch")
    /\ reply' = [reply EXCEPT ![s] = Found(s)]
    /\ Goto(s, "write")
    /\ UNCHANGED <<server, client, waited, page, crashes>>

\* join_all().
Join(s) ==
    /\ handler[s] = "pages" /\ ~Fetching(s)
    /\ reply' = [reply EXCEPT ![s] = Found(s)]
    /\ Goto(s, "write")
    /\ UNCHANGED <<server, client, waited, page, crashes>>

\* write_all() and the end of the connection; a client that is gone is no error.
Write(s) ==
    /\ handler[s] = "write" /\ Goto(s, "done")
    /\ UNCHANGED <<server, client, waited, page, reply, crashes>>

HandlerStep(s) == Read(s) \/ SearchEnds(s) \/ (\E i \in DOMAIN page[s] : PageEnds(s, i)) \/ Join(s) \/ Write(s)

-----------------------------------------------------------------------------
(* The Python worker.                                                      *)

Returns(s, outcome) == client' = [client EXCEPT ![s] = outcome]

\* The file does not exist, nobody listens, or the connection is there and the
\* request is written.
Ask(s) ==
    /\ client[s] = "idle" /\ \A r \in Searches : r < s => client[r] \in Outcomes
    /\ IF server = "up"
       THEN Returns(s, "recv") /\ handler' = [handler EXCEPT ![s] = "read"]
       ELSE Returns(s, "no_socket") /\ UNCHANGED handler
    /\ UNCHANGED <<server, waited, phase, page, reply, crashes>>

Receives(s) == client[s] = "recv" /\ handler[s] = "done" /\ Returns(s, "results")
Empty(s) == client[s] = "recv" /\ handler[s] = "killed" /\ Returns(s, "empty_response")
TimesOut(s) == client[s] = "recv" /\ waited[s] = ClientLimit /\ Returns(s, "timeout")

ClientEnds(s) ==
    /\ Receives(s) \/ Empty(s) \/ TimesOut(s)
    /\ UNCHANGED <<server, waited, handlerVars, crashes>>

-----------------------------------------------------------------------------
\* Something is due at this moment; everything else takes as long as it takes.
Due(s) ==
    \/ handler[s] \in {"read", "write"}
    \/ handler[s] \in {"search", "pages"} /\ phase[s] = HttpLimit
    \/ handler[s] = "pages" /\ ~Fetching(s)
    \/ client[s] = "recv" /\ (waited[s] = ClientLimit \/ handler[s] \in {"done", "killed"})

Tick ==
    /\ \A s \in Searches : ~Due(s)
    /\ \E s \in Searches : client[s] = "recv" \/ handler[s] \in Running
    /\ waited' = [s \in Searches |-> IF client[s] = "recv" THEN waited[s] + 1 ELSE waited[s]]
    /\ phase' = [s \in Searches |->
                    IF handler[s] \in {"search", "pages"} THEN phase[s] + 1 ELSE phase[s]]
    /\ UNCHANGED <<server, client, handler, page, reply, crashes>>

Next ==
    \/ Bind \/ Crash \/ Tick
    \/ \E s \in Searches : Ask(s) \/ ClientEnds(s) \/ HandlerStep(s)

Spec == Init /\ [][Next]_vars

\* tokio and Python run what can run, and time passes.
FairSpec ==
    /\ Spec
    /\ WF_vars(Bind) /\ WF_vars(Tick)
    /\ \A s \in Searches : WF_vars(ClientEnds(s)) /\ WF_vars(HandlerStep(s))

-----------------------------------------------------------------------------
(* Properties.                                                             *)

\* The client never gives up on a handler that has time left: when its 10 s are
\* over the answer is there, or due at that very moment (two times 5 s).
AnswerIsDue ==
    \A s \in Searches : client[s] = "recv" /\ waited[s] = ClientLimit =>
        \/ handler[s] \in {"write", "done", "killed"}
        \/ handler[s] = "pages" /\ (phase[s] = HttpLimit \/ ~Fetching(s))

\* What a search returns is whole: each page that gave paragraphs or had a
\* snippet is in it, whenever it came.
AnswerIsWhole == \A s \in Searches : client[s] = "results" => reply[s] = Found(s)

\* A handler ends, also one whose client gave up: none piles up behind others.
HandlerEnds ==
    \A s \in Searches : (handler[s] \in Running) ~> (handler[s] \in {"done", "killed"})
=============================================================================
