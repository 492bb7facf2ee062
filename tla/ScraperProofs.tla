--------------------------- MODULE ScraperProofs ---------------------------
(***************************************************************************)
(* Machine-checked proofs about Scraper, for every number of searches and  *)
(* of pages, and for all time limits of which the client's is at least     *)
(* twice that of a request.                                                *)
(***************************************************************************)
EXTENDS Scraper, TLAPS

\* How far the client's clock is ahead of the handler's: nothing before the
\* search starts, at most one request's time while the pages are fetched.
InTime ==
    \A s \in Searches :
        /\ client[s] = "idle" => waited[s] = 0
        /\ client[s] = "recv" =>
              /\ handler[s] # "none"
              /\ handler[s] = "read" => waited[s] = 0
              /\ handler[s] = "search" => waited[s] <= phase[s]
              /\ handler[s] = "pages" => waited[s] <= HttpLimit + phase[s]

\* From join_all() on, the answer is what the pages gave, and no page is out.
Whole ==
    \A s \in Searches :
        /\ handler[s] \in {"write", "done"} => ~Fetching(s) /\ reply[s] = Found(s)
        /\ client[s] = "results" => handler[s] = "done"

Inv == TypeOK /\ InTime /\ Whole

PageState == {"fetch", "text", "snippet", "nothing"}

\* A list of `n` pages, all still to be fetched.
LEMMA FreshPages ==
    ASSUME NEW n \in Nat
    PROVE  /\ [i \in 1..n |-> "fetch"] \in Seq(PageState)
           /\ Len([i \in 1..n |-> "fetch"]) = n
  BY DEF PageState

\* The outcome of one page changes neither the length nor the kind of the list.
LEMMA OnePage ==
    ASSUME NEW q \in Seq(PageState), NEW i \in DOMAIN q, NEW got \in PageState
    PROVE  /\ [q EXCEPT ![i] = got] \in Seq(PageState)
           /\ Len([q EXCEPT ![i] = got]) = Len(q)
  BY DEF PageState

\* The types hold in the initial state.
LEMMA InitTypeOK == ASSUME Init PROVE TypeOK
  BY ScraperAssumption DEF Init, TypeOK, Running, Outcomes

\* Nobody waits and nothing runs in the initial state.
LEMMA InitInv == Init => Inv
<1> SUFFICES ASSUME Init PROVE Inv OBVIOUS
<1>1. TypeOK BY InitTypeOK
<1>2. InTime BY DEF Init, InTime
<1>3. Whole BY DEF Init, Whole
<1> QED BY <1>1, <1>2, <1>3 DEF Inv

\* No step passes a limit: each action keeps the types.
LEMMA StepTypeOK == Inv /\ [Next]_vars => TypeOK'
<1> SUFFICES ASSUME Inv, [Next]_vars PROVE TypeOK' OBVIOUS
<1> USE ScraperAssumption DEF Running, Outcomes
<1> TypeOK BY DEF Inv
<1>1. CASE Bind BY <1>1 DEF Bind, TypeOK
<1>2. CASE Crash BY <1>2 DEF Crash, TypeOK
<1>3. CASE Tick
  <2>1. waited' \in [Searches -> 0..ClientLimit]
    BY <1>3 DEF Tick, Due, TypeOK
  <2>2. phase' \in [Searches -> 0..HttpLimit]
    BY <1>3 DEF Tick, Due, TypeOK
  <2> QED BY <1>3, <2>1, <2>2 DEF Tick, TypeOK
<1>4. ASSUME NEW s \in Searches, Ask(s) PROVE TypeOK'
  BY <1>4 DEF Ask, Returns, TypeOK
<1>5. ASSUME NEW s \in Searches, ClientEnds(s) PROVE TypeOK'
  BY <1>5 DEF ClientEnds, Receives, Empty, TimesOut, Returns, handlerVars, TypeOK
<1>6. ASSUME NEW s \in Searches, HandlerStep(s) PROVE TypeOK'
  <2>1. CASE Read(s) BY <2>1 DEF Read, Goto, TypeOK
  <2>2. CASE SearchEnds(s)
    <3>1. PICK hits \in 0..Take : page' = [page EXCEPT ![s] = [i \in 1..hits |-> "fetch"]]
      BY <2>2 DEF SearchEnds
    <3>2. hits \in Nat /\ hits <= Take OBVIOUS
    <3>3. /\ [i \in 1..hits |-> "fetch"] \in Seq(PageState)
          /\ Len([i \in 1..hits |-> "fetch"]) = hits
      BY <3>2, FreshPages
    <3>4. page' \in [Searches -> Seq(PageState)] /\ \A r \in Searches : Len(page'[r]) <= Take
      BY <3>1, <3>2, <3>3 DEF TypeOK, PageState
    <3> QED BY <2>2, <3>4 DEF SearchEnds, Goto, TypeOK, PageState
  <2>3. ASSUME NEW i \in DOMAIN page[s], PageEnds(s, i) PROVE TypeOK'
    <3>1. PICK got \in {"text", "snippet", "nothing"} : page' = [page EXCEPT ![s][i] = got]
      BY <2>3 DEF PageEnds
    <3>2. page[s] \in Seq(PageState) /\ got \in PageState BY DEF TypeOK, PageState
    <3>3. /\ [page[s] EXCEPT ![i] = got] \in Seq(PageState)
          /\ Len([page[s] EXCEPT ![i] = got]) = Len(page[s])
      BY <3>2, OnePage
    <3>4. page' \in [Searches -> Seq(PageState)] /\ \A r \in Searches : Len(page'[r]) <= Take
      BY <3>1, <3>3 DEF TypeOK, PageState
    <3> QED BY <2>3, <3>4 DEF PageEnds, TypeOK, PageState
  <2>4. CASE Join(s)
    <3>1. Found(s) \subseteq 1..Take BY DEF Found, TypeOK
    <3> QED BY <2>4, <3>1 DEF Join, Goto, TypeOK
  <2>5. CASE Write(s) BY <2>5 DEF Write, Goto, TypeOK
  <2> QED BY <1>6, <2>1, <2>2, <2>3, <2>4, <2>5 DEF HandlerStep
<1>7. CASE UNCHANGED vars BY <1>7 DEF vars, TypeOK
<1> QED BY <1>1, <1>2, <1>3, <1>4, <1>5, <1>6, <1>7 DEF Next

\* Both clocks run together, so the distance between them stays.
LEMMA StepInTime == Inv /\ [Next]_vars => InTime'
<1> SUFFICES ASSUME Inv, [Next]_vars, NEW r \in Searches
             PROVE  /\ client'[r] = "idle" => waited'[r] = 0
                    /\ client'[r] = "recv" =>
                          /\ handler'[r] # "none"
                          /\ handler'[r] = "read" => waited'[r] = 0
                          /\ handler'[r] = "search" => waited'[r] <= phase'[r]
                          /\ handler'[r] = "pages" => waited'[r] <= HttpLimit + phase'[r]
  BY DEF InTime
<1> USE ScraperAssumption
<1> TypeOK /\ InTime BY DEF Inv
<1>0. waited[r] \in Nat /\ phase[r] \in 0..HttpLimit BY DEF TypeOK
<1>1. CASE Bind BY <1>1 DEF Bind, InTime
<1>2. CASE Crash BY <1>2 DEF Crash, InTime, TypeOK, Running
<1>3. CASE Tick BY <1>0, <1>3 DEF Tick, Due, InTime, TypeOK
<1>4. ASSUME NEW s \in Searches, Ask(s) PROVE InTime'
  BY <1>4 DEF Ask, Returns, InTime, TypeOK
<1>5. ASSUME NEW s \in Searches, ClientEnds(s) PROVE InTime'
  BY <1>5 DEF ClientEnds, Receives, Empty, TimesOut, Returns, handlerVars, InTime, TypeOK
<1>6. ASSUME NEW s \in Searches, HandlerStep(s) PROVE InTime'
  <2>1. CASE Read(s) BY <2>1 DEF Read, Goto, InTime, TypeOK
  <2>2. CASE SearchEnds(s) BY <2>2 DEF SearchEnds, Goto, InTime, TypeOK
  <2>3. ASSUME NEW i \in DOMAIN page[s], PageEnds(s, i) PROVE InTime'
    BY <2>3 DEF PageEnds, InTime
  <2>4. CASE Join(s) BY <2>4 DEF Join, Goto, InTime, TypeOK
  <2>5. CASE Write(s) BY <2>5 DEF Write, Goto, InTime, TypeOK
  <2> QED BY <1>6, <2>1, <2>2, <2>3, <2>4, <2>5 DEF HandlerStep
<1>7. CASE UNCHANGED vars BY <1>7 DEF vars, InTime
<1> QED BY <1>1, <1>2, <1>3, <1>4, <1>5, <1>6, <1>7 DEF Next, InTime

\* The answer is put together when no page is out, and no step adds one.
LEMMA StepWhole == Inv /\ [Next]_vars => Whole'
<1> SUFFICES ASSUME Inv, [Next]_vars PROVE Whole' OBVIOUS
<1> TypeOK /\ Whole BY DEF Inv
<1> USE DEF Whole, Found, Fetching
<1>1. CASE Bind BY <1>1 DEF Bind
<1>2. CASE Crash BY <1>2 DEF Crash, TypeOK, Running
<1>3. CASE Tick BY <1>3 DEF Tick
<1>4. ASSUME NEW s \in Searches, Ask(s) PROVE Whole'
  BY <1>4 DEF Ask, Returns, TypeOK
<1>5. ASSUME NEW s \in Searches, ClientEnds(s) PROVE Whole'
  BY <1>5 DEF ClientEnds, Receives, Empty, TimesOut, Returns, handlerVars, TypeOK
<1>6. ASSUME NEW s \in Searches, HandlerStep(s) PROVE Whole'
  <2>1. CASE Read(s) BY <2>1 DEF Read, Goto, TypeOK
  <2>2. CASE SearchEnds(s) BY <2>2 DEF SearchEnds, Goto, TypeOK
  <2>3. ASSUME NEW i \in DOMAIN page[s], PageEnds(s, i) PROVE Whole'
    BY <2>3 DEF PageEnds, TypeOK
  <2>4. CASE Join(s) BY <2>4 DEF Join, Goto, TypeOK
  <2>5. CASE Write(s) BY <2>5 DEF Write, Goto, TypeOK
  <2> QED BY <1>6, <2>1, <2>2, <2>3, <2>4, <2>5 DEF HandlerStep
<1>7. CASE UNCHANGED vars BY <1>7 DEF vars
<1> QED BY <1>1, <1>2, <1>3, <1>4, <1>5, <1>6, <1>7 DEF Next

\* The inductive invariant holds in every state.
LEMMA InvAlways == Spec => []Inv
<1>1. Inv /\ [Next]_vars => Inv' BY StepTypeOK, StepInTime, StepWhole DEF Inv
<1> QED BY InitInv, <1>1, PTL DEF Spec

\* A search and its pages stay within their limits (run_brave_search, handle_conn).
THEOREM ScraperTypeCorrect == Spec => []TypeOK
<1>1. Inv => TypeOK BY DEF Inv
<1> QED BY InvAlways, <1>1, PTL

\* The client never gives up on a handler that has time left: twice the limit of
\* a request is enough, however many pages there are.
THEOREM AnswerInTime == Spec => []AnswerIsDue
<1>1. ASSUME Inv PROVE AnswerIsDue
  <2> SUFFICES ASSUME NEW s \in Searches, client[s] = "recv", waited[s] = ClientLimit
               PROVE  \/ handler[s] \in {"write", "done", "killed"}
                      \/ handler[s] = "pages" /\ (phase[s] = HttpLimit \/ ~Fetching(s))
    BY DEF AnswerIsDue
  <2> USE ScraperAssumption, <1>1
  <2>1. phase[s] \in 0..HttpLimit BY DEF Inv, TypeOK
  <2>2. handler[s] \notin {"none", "read"} BY DEF Inv, InTime
  <2>3. handler[s] # "search" BY <2>1 DEF Inv, InTime
  <2>4. handler[s] = "pages" => phase[s] = HttpLimit BY <2>1 DEF Inv, InTime
  <2>5. handler[s] \in {"none", "done", "killed"} \cup Running BY DEF Inv, TypeOK
  <2> QED BY <2>2, <2>3, <2>4, <2>5 DEF Running
<1> QED BY InvAlways, <1>1, PTL

\* A search returns every page that gave something (join_all and the filter after it).
THEOREM AnswerComplete == Spec => []AnswerIsWhole
<1>1. Inv => AnswerIsWhole BY DEF Inv, Whole, AnswerIsWhole
<1> QED BY InvAlways, <1>1, PTL
=============================================================================
