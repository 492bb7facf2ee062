------------------------ MODULE GatewayStreamProofs ------------------------
(***************************************************************************)
(* Machine-checked proofs about GatewayStream, for every number of         *)
(* requests, every answer a worker may write and every interleaving of the *)
(* chunk handlers: the tokens keep their order, the saved answer is whole, *)
(* and no answer enters the topic before its question.                     *)
(***************************************************************************)
EXTENDS GatewayStream, FiniteSetTheorems, NaturalsInduction, WellFoundedInduction, TLAPS

-----------------------------------------------------------------------------
(* Sets of positions and their lists.                                      *)

Below == {pair \in Nat \X Nat : pair[1] < pair[2]}

\* A set of numbers that is not empty has a least element.
LEMMA Least ==
    ASSUME NEW S \in SUBSET Nat, S # {}
    PROVE  \E n \in S : \A k \in S : n <= k
<1>1. IsWellFoundedOn(Below, Nat) BY NatLessThanWellFounded DEF OpToRel, Below
<1>2. PICK n \in S : \A k \in S : ~(<<k, n>> \in Below)
  BY <1>1, WFMin
<1>3. \A k \in S : n <= k
  <2> SUFFICES ASSUME NEW k \in S PROVE ~(k < n) OBVIOUS
  <2>1. k \in Nat /\ n \in Nat OBVIOUS
  <2>2. <<k, n>> \notin Below BY <1>2
  <2> QED BY <2>1, <2>2 DEF Below
<1> QED BY <1>3

\* The positions up to n can be listed, whichever of them are wanted.
Listable(n) ==
    \A S \in SUBSET (1..n) :
        /\ IsFiniteSet(S)
        /\ \E s \in [1..Cardinality(S) -> S] : Lists(s, S)

\* One more position goes to the end of the list.
LEMMA ListableStep ==
    ASSUME NEW n \in Nat, Listable(n)
    PROVE  Listable(n + 1)
<1> SUFFICES ASSUME NEW S \in SUBSET (1..(n + 1))
    PROVE  IsFiniteSet(S) /\ \E s \in [1..Cardinality(S) -> S] : Lists(s, S)
  BY DEF Listable
<1> DEFINE R == S \ {n + 1}
<1>1. R \in SUBSET (1..n) OBVIOUS
<1>2. PICK r \in [1..Cardinality(R) -> R] : Lists(r, R) BY <1>1 DEF Listable
<1>3. IsFiniteSet(R) BY <1>1 DEF Listable
<1>4. CASE n + 1 \notin S
  <2>1. R = S BY <1>4
  <2> QED BY <1>2, <1>3, <2>1
<1>5. CASE n + 1 \in S
  <2> DEFINE k == Cardinality(R)
  <2>1. k \in Nat BY <1>3, FS_CardinalityType
  <2>2. S = R \cup {n + 1} BY <1>5
  <2>3. IsFiniteSet(S) /\ Cardinality(S) = k + 1
    <3>1. n + 1 \notin R OBVIOUS
    <3>2. /\ IsFiniteSet(R \cup {n + 1})
          /\ Cardinality(R \cup {n + 1}) = IF n + 1 \in R THEN k ELSE k + 1
      BY <1>3, FS_AddElement
    <3> QED BY <2>2, <3>1, <3>2
  <2> DEFINE s == [i \in 1..(k + 1) |-> IF i = k + 1 THEN n + 1 ELSE r[i]]
  <2>4. \A x \in R : x \in Nat /\ x < n + 1 BY <1>1
  <2> HIDE DEF k, R
  <2>5. DOMAIN r = 1..k /\ (\A i \in 1..k : r[i] \in R) /\ r \in [1..k -> R] BY <1>2 DEF k
  <2>6. /\ DOMAIN s = 1..(k + 1) /\ s[k + 1] = n + 1 /\ \A i \in 1..k : s[i] = r[i]
        /\ \A i \in 1..(k + 1) : i \in 1..k \/ i = k + 1
    BY <2>1
  <2>7. s \in [1..(k + 1) -> S] BY <2>2, <2>5, <2>6
  <2> HIDE DEF s
  <2>8. ASSUME NEW i \in DOMAIN s, NEW j \in DOMAIN s, i < j PROVE s[i] < s[j]
    <3>1. i \in 1..k BY <2>1, <2>6, <2>8
    <3>2. CASE j = k + 1 BY <2>4, <2>5, <2>6, <3>1, <3>2
    <3>3. CASE j \in 1..k BY <1>2, <2>5, <2>6, <2>8, <3>1, <3>3 DEF Lists
    <3> QED BY <2>6, <3>2, <3>3
  <2>9. {s[i] : i \in DOMAIN s} = S
    <3>1. {r[i] : i \in 1..k} = R BY <1>2, <2>5 DEF Lists
    <3>2. {s[i] : i \in DOMAIN s} = {r[i] : i \in 1..k} \cup {n + 1} BY <2>1, <2>6
    <3> QED BY <2>2, <3>1, <3>2
  <2> QED BY <2>3, <2>7, <2>8, <2>9 DEF Lists
<1> QED BY <1>4, <1>5

\* Any positions can be listed: there is no least bound where it fails.
LEMMA AllListable == \A n \in Nat : Listable(n)
<1> DEFINE Bad == {n \in Nat : ~Listable(n)}
<1> SUFFICES ASSUME Bad # {} PROVE FALSE
  OBVIOUS
<1>1. PICK n \in Bad : \A k \in Bad : n <= k BY Least
<1>2. Listable(0)
  <2> SUFFICES ASSUME NEW S \in SUBSET (1..0)
      PROVE  IsFiniteSet(S) /\ \E s \in [1..Cardinality(S) -> S] : Lists(s, S)
    BY DEF Listable
  <2>1. S = {} OBVIOUS
  <2>2. IsFiniteSet(S) /\ 1..Cardinality(S) = {} BY <2>1, FS_EmptySet
  <2>3. [i \in {} |-> i] \in [{} -> {}] /\ Lists([i \in {} |-> i], {}) BY DEF Lists
  <2> QED BY <2>1, <2>2, <2>3
<1>3. n \in Nat /\ ~Listable(n) OBVIOUS
<1>4. n # 0 BY <1>2, <1>3
<1>5. n - 1 \in Nat /\ ~(n <= n - 1) /\ (n - 1) + 1 = n BY <1>3, <1>4
<1>6. Listable(n - 1) BY <1>1, <1>5
<1>7. Listable((n - 1) + 1) BY <1>5, <1>6, ListableStep
<1> QED BY <1>3, <1>5, <1>7

\* What Ascending returns.
LEMMA AscendingLists ==
    ASSUME NEW n \in Nat, NEW S \in SUBSET (1..n)
    PROVE  Ascending(S) \in Seq(Nat) /\ Lists(Ascending(S), S)
<1>1. IsFiniteSet(S) /\ \E s \in [1..Cardinality(S) -> S] : Lists(s, S)
  BY AllListable DEF Listable
<1>2. Cardinality(S) \in Nat BY <1>1, FS_CardinalityType
<1>3. Ascending(S) \in [1..Cardinality(S) -> S] /\ Lists(Ascending(S), S)
  BY <1>1 DEF Ascending
<1>4. S \subseteq Nat OBVIOUS
<1>5. ASSUME NEW c \in Nat, NEW s \in [1..c -> S] PROVE s \in Seq(Nat)
  <2>1. s \in [1..c -> Nat] BY <1>4
  <2> QED BY <2>1
<1> QED BY <1>2, <1>3, <1>5

\* Where a concatenation finds its elements.
LEMMA ConcatFacts ==
    ASSUME NEW S, NEW s \in Seq(S), NEW t \in Seq(S)
    PROVE  /\ s \o t \in Seq(S)
           /\ Len(s) \in Nat /\ Len(t) \in Nat
           /\ DOMAIN s = 1..Len(s) /\ DOMAIN t = 1..Len(t)
           /\ DOMAIN (s \o t) = 1..(Len(s) + Len(t))
           /\ \A i \in 1..Len(s) : (s \o t)[i] = s[i]
           /\ \A i \in 1..Len(t) : (s \o t)[Len(s) + i] = t[i]
  OBVIOUS

\* The lists of two sets, one below the other, one after the other.
LEMMA ConcatLists ==
    ASSUME NEW s \in Seq(Nat), NEW t \in Seq(Nat), NEW S, NEW T,
           Lists(s, S), Lists(t, T), \A x \in S : \A y \in T : x < y
    PROVE  Lists(s \o t, S \cup T)
<1> DEFINE m == Len(s)
           n == Len(t)
           u == s \o t
<1>1. /\ m \in Nat /\ n \in Nat /\ DOMAIN s = 1..m /\ DOMAIN t = 1..n /\ DOMAIN u = 1..(m + n)
      /\ \A i \in 1..m : u[i] = s[i]
      /\ \A i \in 1..n : u[m + i] = t[i]
  BY ConcatFacts
<1>2. (\A i \in 1..m : s[i] \in S) /\ (\A i \in 1..n : t[i] \in T)
  BY <1>1 DEF Lists
<1> HIDE DEF m, n, u
<1>3. \A i \in 1..(m + n) : i \in 1..m \/ (i - m \in 1..n /\ m + (i - m) = i) BY <1>1
<1>4. ASSUME NEW i \in 1..(m + n), NEW j \in 1..(m + n), i < j PROVE u[i] < u[j]
  <2>1. CASE i \in 1..m /\ j \in 1..m BY <1>1, <1>4, <2>1 DEF Lists
  <2>2. CASE i \in 1..m /\ j \notin 1..m
    <3>1. j - m \in 1..n /\ u[j] = t[j - m] BY <1>1, <1>3, <2>2
    <3> QED BY <1>1, <1>2, <2>2, <3>1
  <2>3. CASE i \notin 1..m
    <3>1. i - m \in 1..n /\ u[i] = t[i - m] BY <1>1, <1>3, <2>3
    <3>2. j \notin 1..m BY <1>1, <1>4, <2>3
    <3>3. j - m \in 1..n /\ u[j] = t[j - m] BY <1>1, <1>3, <3>2
    <3>4. i - m < j - m BY <1>1, <1>4
    <3> QED BY <1>1, <3>1, <3>3, <3>4 DEF Lists
  <2> QED BY <2>1, <2>2, <2>3
<1>5. {u[i] : i \in 1..(m + n)} = S \cup T
  <2>1. S = {s[i] : i \in 1..m} /\ T = {t[i] : i \in 1..n} BY <1>1 DEF Lists
  <2>2. \A i \in 1..(m + n) : u[i] \in S \cup T
    <3> SUFFICES ASSUME NEW i \in 1..(m + n) PROVE u[i] \in S \cup T
      OBVIOUS
    <3>1. CASE i \in 1..m BY <1>1, <1>2, <3>1
    <3>2. CASE i \notin 1..m
      <4>1. i - m \in 1..n /\ m + (i - m) = i BY <1>3, <3>2
      <4>2. u[m + (i - m)] = t[i - m] BY <1>1, <4>1
      <4>3. u[i] = t[i - m] BY <4>1, <4>2
      <4> QED BY <1>2, <4>1, <4>3
    <3> QED BY <3>1, <3>2
  <2>3. \A x \in S : \E i \in 1..(m + n) : u[i] = x
    <3>1. \A i \in 1..m : i \in 1..(m + n) BY <1>1
    <3> QED BY <1>1, <2>1, <3>1
  <2>4. \A x \in T : \E i \in 1..(m + n) : u[i] = x
    <3>1. \A i \in 1..n : m + i \in 1..(m + n) BY <1>1
    <3> QED BY <1>1, <2>1, <3>1
  <2> QED BY <2>2, <2>3, <2>4
<1> QED BY <1>1, <1>4, <1>5 DEF Lists, u

\* A sequence is a prefix of itself and of what it is extended to.
LEMMA PrefixGrows ==
    ASSUME NEW S, NEW s \in Seq(S), NEW t \in Seq(S), NEW u \in Seq(S), IsPrefix(s, t)
    PROVE  IsPrefix(s, t \o u)
<1> DEFINE v == t \o u
<1>1. /\ v \in Seq(S) /\ Len(v) = Len(t) + Len(u)
      /\ \A i \in 1..Len(t) : v[i] = t[i]
      /\ Len(s) \in Nat /\ Len(t) \in Nat /\ Len(u) \in Nat
  OBVIOUS
<1>2. Len(s) <= Len(t) /\ SubSeq(s, 1, Len(s)) = SubSeq(t, 1, Len(s)) BY DEF IsPrefix
<1> HIDE DEF v
<1>3. Len(s) <= Len(v) BY <1>1, <1>2
<1>4. SubSeq(t, 1, Len(s)) = SubSeq(v, 1, Len(s))
  <2>1. \A i \in 1..Len(s) : t[i] = v[i] BY <1>1, <1>2
  <2>2. SubSeq(t, 1, Len(s)) = [i \in 1..Len(s) |-> t[i]] BY <1>1, <1>2
  <2>3. SubSeq(v, 1, Len(s)) = [i \in 1..Len(s) |-> v[i]] BY <1>1, <1>3
  <2> QED BY <2>1, <2>2, <2>3
<1> QED BY <1>2, <1>3, <1>4 DEF IsPrefix, v
-----------------------------------------------------------------------------
(* One run of the loop.                                                    *)

\* The loop stops at a line it found, or before the first.
LEMMA LastBounds ==
    ASSUME NEW r, NEW from \in Nat, NEW n \in Nat, from <= n
    PROVE  LastTaken(r, from, n) \in from..n
<1> DEFINE stops == {i \in (from + 1)..n : Lines(r)[i] = "system"} \cup {n}
<1>1. stops \in SUBSET Nat /\ stops # {} /\ stops \subseteq from..n OBVIOUS
<1>2. \E i \in stops : \A j \in stops : i <= j BY <1>1, Least
<1>3. LastTaken(r, from, n) \in stops BY <1>2 DEF LastTaken
<1> QED BY <1>1, <1>3

\* What a stage may become in the loop, and why.
StageRuns(r, last) ==
    \/ stage' = stage
    \/ /\ stage[r] = "streaming"
       /\ stage' = [stage EXCEPT ![r] = "half"]
       /\ \E i \in 1..last : Lines(r)[i] = "done"

\* What one run of the loop does: it takes the lines up to some last one, collects
\* their tokens in order, and shows them while the websocket is open.
LEMMA LoopFacts ==
    ASSUME TypeOK, NEW r \in Requests, NEW n \in Nat, taken[r] <= n, n <= Len(Lines(r)),
           RunLoop(r, taken[r], n)
    PROVE  \E last \in taken[r]..n : \E tokens \in Seq(Nat) :
              /\ taken' = [taken EXCEPT ![r] = last]
              /\ full' = [full EXCEPT ![r] = full[r] \o tokens]
              /\ shown' = [shown EXCEPT ![r] = IF open THEN shown[r] \o tokens ELSE shown[r]]
              /\ Lists(tokens, {i \in Tokens(r) : taken[r] < i /\ i <= last})
              /\ StageRuns(r, last)
              /\ sends \subseteq sends'
              /\ \A m \in sends' : m \in sends \/ (EmitOK(m) /\ m.role \in {"system", "summary"})
<1> DEFINE last == LastTaken(r, taken[r], n)
           Of(kind) == {i \in (taken[r] + 1)..last : Lines(r)[i] = kind}
           tokens == Ascending(Of("token"))
<1>1. taken[r] \in Nat /\ Len(Lines(r)) \in Nat
  BY GatewayAssumption DEF TypeOK, Lines
<1>2. last \in taken[r]..n BY <1>1, LastBounds
<1>3. /\ taken' = [taken EXCEPT ![r] = last]
      /\ full' = [full EXCEPT ![r] = full[r] \o tokens]
      /\ shown' = [shown EXCEPT ![r] = IF open THEN shown[r] \o tokens ELSE shown[r]]
      /\ stage' = [stage EXCEPT ![r] = IF stage[r] = "streaming" /\ Of("done") # {}
                                       THEN "half" ELSE stage[r]]
      /\ sends' = sends \cup {Emit(r, Lines(r)[i], i, <<>>) :
                                i \in Of("system") \cup Of("summary")}
  BY DEF RunLoop
<1> HIDE DEF last
<1>4. \A kind : Of(kind) \in SUBSET (1..Len(Lines(r))) /\ Of(kind) \in SUBSET (1..last)
  BY <1>1, <1>2
<1>5. Of("token") = {i \in Tokens(r) : taken[r] < i /\ i <= last}
  BY <1>1, <1>2 DEF Tokens
<1>6. tokens \in Seq(Nat) /\ Lists(tokens, Of("token"))
  BY <1>1, <1>4, AscendingLists
<1>7. StageRuns(r, last)
  <2>1. CASE stage[r] = "streaming" /\ Of("done") # {}
    <3>1. \E i \in 1..last : Lines(r)[i] = "done" BY <1>4, <2>1
    <3> QED BY <1>3, <2>1, <3>1 DEF StageRuns
  <2>2. CASE ~(stage[r] = "streaming" /\ Of("done") # {})
    <3>1. stage' = stage BY <1>3, <2>2 DEF TypeOK
    <3> QED BY <3>1 DEF StageRuns
  <2> QED BY <2>1, <2>2
<1>8. ASSUME NEW m \in sends', m \notin sends
      PROVE  EmitOK(m) /\ m.role \in {"system", "summary"}
  <2>1. PICK i \in Of("system") \cup Of("summary") : m = Emit(r, Lines(r)[i], i, <<>>)
    BY <1>3, <1>8
  <2>2. i \in Nat /\ i <= Len(Lines(r)) /\ Lines(r)[i] \in {"system", "summary"}
    BY <1>1, <1>4, <2>1
  <2>3. <<>> \in Seq(Nat) OBVIOUS
  <2> HIDE DEF Of
  <2> QED BY <2>1, <2>2, <2>3 DEF Emit, EmitOK, Roles
<1>9. sends \subseteq sends' BY <1>3
<1> HIDE DEF tokens, Of
<1> QED BY <1>2, <1>3, <1>5, <1>6, <1>7, <1>8, <1>9

\* The lines a handler may find: those that have arrived, before or with its chunk.
LEMMA FoundLines ==
    ASSUME TypeOK, NEW r \in Requests
    PROVE  /\ taken[r] \in Nat /\ arrived[r] \in Nat /\ written[r] \in Nat /\ Len(Lines(r)) \in Nat
           /\ taken[r] <= arrived[r] /\ arrived[r] <= written[r] /\ written[r] <= Len(Lines(r))
BY GatewayAssumption DEF TypeOK, Lines

\* A handler's step: a chunk that arrives, or a handler that goes on after its
\* system line was emitted.  Both run the loop on what is in the buffer.
Handles(r, n) ==
    /\ n \in Nat /\ arrived[r] <= n /\ n <= written[r]
    /\ arrived' = [arrived EXCEPT ![r] = n]
    /\ RunLoop(r, taken[r], n)
    /\ \A m \in acks' : m \in acks
    /\ \A m \in acks : m \in acks' \/ m.role = "system"
    /\ UNCHANGED <<question, answer, written, log, open, dead, lost, cut>>

LEMMA HandlerRuns ==
    ASSUME TypeOK, NEW r \in Requests, OnData(r) \/ ResumeSystem(r)
    PROVE  \E n : Handles(r, n)
<1>1. CASE OnData(r)
  <2>1. PICK n \in (arrived[r] + 1)..written[r] :
            arrived' = [arrived EXCEPT ![r] = n] /\ RunLoop(r, taken[r], n)
    BY <1>1 DEF OnData
  <2>2. n \in Nat /\ arrived[r] <= n /\ n <= written[r] BY FoundLines
  <2> QED BY <1>1, <2>1, <2>2 DEF OnData, Handles
<1>2. CASE ResumeSystem(r)
  <2>1. arrived' = [arrived EXCEPT ![r] = arrived[r]]
    BY <1>2 DEF ResumeSystem, TypeOK
  <2>2. (\A m \in acks' : m \in acks) /\ \A m \in acks : m \in acks' \/ m.role = "system"
    BY <1>2 DEF ResumeSystem
  <2>3. RunLoop(r, taken[r], arrived[r]) BY <1>2 DEF ResumeSystem
  <2>4. UNCHANGED <<question, answer, written, log, open, dead, lost, cut>>
    BY <1>2 DEF ResumeSystem
  <2>5. arrived[r] \in Nat /\ arrived[r] <= arrived[r] /\ arrived[r] <= written[r]
    BY FoundLines
  <2>6. Handles(r, arrived[r]) BY <2>1, <2>2, <2>3, <2>4, <2>5 DEF Handles
  <2> QED BY <2>6
<1> QED BY <1>1, <1>2

-----------------------------------------------------------------------------
(* Types.                                                                  *)

\* The initial state is well typed.
LEMMA TypeInit == Init => TypeOK
<1> SUFFICES ASSUME Init PROVE TypeOK
  OBVIOUS
<1>1. \A r \in Requests : Len(Lines(r)) \in Nat
  BY GatewayAssumption DEF Init, Lines
<1>2. /\ full \in [Requests -> Seq(Nat)] /\ shown \in [Requests -> Seq(Nat)]
      /\ taken \in [Requests -> Nat] /\ arrived \in [Requests -> Nat]
      /\ written \in [Requests -> Nat] /\ lost \in 0..MaxLost
  BY GatewayAssumption DEF Init
<1>3. stage \in [Requests -> {"idle", "asking", "streaming", "half", "over", "failed"}]
  BY DEF Init
<1>4. /\ question \in [Requests -> BOOLEAN] /\ answer \in [Requests -> Answers]
      /\ open \in BOOLEAN /\ dead \in BOOLEAN /\ cut \in SUBSET Requests
  BY DEF Init
<1>5. \A r \in Requests : taken[r] <= arrived[r] /\ arrived[r] <= written[r] /\ written[r] <= Len(Lines(r))
  BY <1>1 DEF Init
<1>6. \A m \in sends \cup acks \cup log : EmitOK(m)
  BY DEF Init
<1> QED BY <1>2, <1>3, <1>4, <1>5, <1>6 DEF TypeOK

\* A message of the websocket handler, of the loop or of the end of a stream.
LEMMA EmitType ==
    ASSUME NEW r \in Requests, NEW role \in Roles, NEW text \in Seq(Nat), Len(Lines(r)) \in Nat
    PROVE  EmitOK(Emit(r, role, 0, text))
BY DEF Emit, EmitOK

\* Every step keeps the types, and the counts of lines in their order.
LEMMA TypeStep == TypeOK /\ [Next]_vars => TypeOK'
<1> SUFFICES ASSUME TypeOK, [Next]_vars PROVE TypeOK'
  OBVIOUS
<1>0. /\ \A r \in Requests : Len(Lines(r)) \in Nat
      /\ <<>> \in Seq(Nat) /\ "user" \in Roles /\ "assistant" \in Roles
  BY FoundLines DEF Roles
<1>1. ASSUME NEW r \in Requests, Ask(r) PROVE TypeOK'
  <2>1. EmitOK(Emit(r, "user", 0, <<>>)) BY <1>0, EmitType
  <2>2. \A m \in sends' : m \in sends \/ m = Emit(r, "user", 0, <<>>) BY <1>1 DEF Ask
  <2>3. \A m \in sends' \cup acks \cup log : EmitOK(m) BY <2>1, <2>2 DEF TypeOK
  <2> QED BY <1>1, <2>3 DEF Ask, CanConnect, TypeOK, EmitOK, Lines
<1>2. ASSUME NEW r \in Requests, AskWorker(r) PROVE TypeOK'
  BY <1>2 DEF AskWorker, CanConnect, TypeOK, EmitOK, Lines
<1>3. ASSUME NEW r \in Requests, OnData(r) \/ ResumeSystem(r) PROVE TypeOK'
  <2>1. PICK n : Handles(r, n) BY <1>3, HandlerRuns
  <2>2. n \in Nat /\ taken[r] <= n /\ n <= Len(Lines(r)) BY <2>1, FoundLines DEF Handles
  <2>3. PICK last \in taken[r]..n, tokens \in Seq(Nat) :
              /\ taken' = [taken EXCEPT ![r] = last]
              /\ full' = [full EXCEPT ![r] = full[r] \o tokens]
              /\ shown' = [shown EXCEPT ![r] = IF open THEN shown[r] \o tokens ELSE shown[r]]
              /\ StageRuns(r, last)
              /\ \A m \in sends' : m \in sends \/ EmitOK(m)
    BY <2>1, <2>2, LoopFacts DEF Handles
  <2>4. last \in Nat /\ last <= n BY <2>2, FoundLines
  <2>5. full[r] \o tokens \in Seq(Nat) /\ shown[r] \o tokens \in Seq(Nat)
    BY DEF TypeOK
  <2>6. /\ taken' \in [Requests -> Nat] /\ arrived' \in [Requests -> Nat]
        /\ written' \in [Requests -> Nat]
        /\ \A q \in Requests :
              /\ taken'[q] <= arrived'[q] /\ arrived'[q] <= written'[q]
              /\ written'[q] <= Len(Lines(q)')
    BY <2>1, <2>3, <2>4 DEF Handles, TypeOK, Lines
  <2>7. full' \in [Requests -> Seq(Nat)] /\ shown' \in [Requests -> Seq(Nat)]
    <3>1. shown' = [shown EXCEPT ![r] = shown[r] \o tokens] \/ shown' = shown
      BY <2>3 DEF TypeOK
    <3> QED BY <2>3, <2>5, <3>1 DEF TypeOK
  <2>8. stage' \in [Requests -> {"idle", "asking", "streaming", "half", "over", "failed"}]
    BY <2>3 DEF StageRuns, TypeOK
  <2>9. \A m \in sends' \cup acks' \cup log' : EmitOK(m)'
    <3>1. \A m \in sends' \cup acks' \cup log' : EmitOK(m)
      BY <2>1, <2>3 DEF Handles, TypeOK
    <3> QED BY <2>1, <3>1 DEF Handles, EmitOK, Lines
  <2> QED BY <2>1, <2>6, <2>7, <2>8, <2>9 DEF Handles, TypeOK
<1>4. ASSUME NEW r \in Requests, Broadcast(r) PROVE TypeOK'
  BY <1>4 DEF Broadcast, TypeOK, EmitOK, Lines
<1>5. ASSUME NEW r \in Requests, OnEnd(r) PROVE TypeOK'
  <2>1. EmitOK(Emit(r, "assistant", 0, full[r])) BY <1>0, EmitType DEF TypeOK
  <2>2. \A m \in sends' : m \in sends \/ m = Emit(r, "assistant", 0, full[r])
    BY <1>5 DEF OnEnd, Ends
  <2>3. \A m \in sends' \cup acks \cup log : EmitOK(m) BY <2>1, <2>2 DEF TypeOK
  <2> QED BY <1>5, <2>3 DEF OnEnd, Ends, TypeOK, EmitOK, Lines
<1>6. ASSUME NEW r \in Requests, OnError(r) PROVE TypeOK'
  BY <1>6 DEF OnError, TypeOK, EmitOK, Lines
<1>7. ASSUME NEW r \in Requests, WorkerWrites(r) PROVE TypeOK'
  <2>1. /\ written' \in [Requests -> Nat]
        /\ \A q \in Requests : arrived[q] <= written'[q] /\ written'[q] <= Len(Lines(q))
    BY <1>0, <1>7 DEF WorkerWrites, TypeOK
  <2> QED BY <1>7, <2>1 DEF WorkerWrites, TypeOK, EmitOK, Lines
<1>8. ASSUME NEW m \in sends, KafkaAppends(m) \/ KafkaRefuses(m) PROVE TypeOK'
  <2>1. \A x \in sends' \cup acks' \cup log' : x \in sends \cup acks \cup log
    BY <1>8 DEF KafkaAppends, KafkaRefuses
  <2>2. lost' \in 0..MaxLost
    BY <1>8, GatewayAssumption DEF KafkaAppends, KafkaRefuses, TypeOK
  <2>3. UNCHANGED <<stage, question, answer, written, arrived, taken, full, shown, open, dead, cut>>
    BY <1>8 DEF KafkaAppends, KafkaRefuses
  <2> QED BY <2>1, <2>2, <2>3 DEF TypeOK, EmitOK, Lines
<1>9. CASE WorkerDies
  BY <1>9 DEF WorkerDies, TypeOK, EmitOK, Lines
<1>10. CASE CloseSocket
  BY <1>10 DEF CloseSocket, TypeOK, EmitOK, Lines
<1>11. CASE UNCHANGED vars
  BY <1>11 DEF vars, TypeOK, EmitOK, Lines
<1> QED
  BY <1>1, <1>2, <1>3, <1>4, <1>5, <1>6, <1>7, <1>8, <1>9, <1>10, <1>11
     DEF Next, GatewayStep, KafkaAnswers

\* Every variable keeps its type, and no line is taken before it has arrived or
\* arrives before it was written.
THEOREM GatewayTypeCorrect == Spec => []TypeOK
BY TypeInit, TypeStep, PTL DEF Spec

-----------------------------------------------------------------------------
(* The order of the tokens.                                                *)

\* Taking lines adds the tokens among them to what was collected, in order.
LEMMA OrderHandles ==
    ASSUME TypeOK, TokensInOrder, NEW r \in Requests, NEW n, Handles(r, n)
    PROVE  TokensInOrder'
<1>1. n \in Nat /\ taken[r] <= n /\ n <= Len(Lines(r)) BY FoundLines DEF Handles
<1>2. PICK last \in taken[r]..n, tokens \in Seq(Nat) :
         /\ taken' = [taken EXCEPT ![r] = last]
         /\ full' = [full EXCEPT ![r] = full[r] \o tokens]
         /\ shown' = [shown EXCEPT ![r] = IF open THEN shown[r] \o tokens ELSE shown[r]]
         /\ Lists(tokens, {i \in Tokens(r) : taken[r] < i /\ i <= last})
  <2>1. RunLoop(r, taken[r], n) BY DEF Handles
  <2> QED BY <1>1, <2>1, LoopFacts
<1>3. UNCHANGED <<answer, open>> BY DEF Handles
<1> SUFFICES ASSUME NEW q \in Requests
    PROVE  /\ Lists(full'[q], {i \in Tokens(q) : i <= taken'[q]})
           /\ IsPrefix(shown'[q], full'[q])
           /\ open => shown'[q] = full'[q]
  BY <1>3 DEF TokensInOrder, Tokens, Lines
<1>4. /\ Lists(full[q], {i \in Tokens(q) : i <= taken[q]})
      /\ IsPrefix(shown[q], full[q])
      /\ open => shown[q] = full[q]
      /\ full[q] \in Seq(Nat) /\ shown[q] \in Seq(Nat)
  BY DEF TokensInOrder, TypeOK
<1>5. CASE q # r
  BY <1>2, <1>4, <1>5 DEF TypeOK
<1>6. CASE q = r
  <2>1. /\ full'[r] = full[r] \o tokens /\ taken'[r] = last
        /\ shown'[r] = IF open THEN shown[r] \o tokens ELSE shown[r]
    BY <1>2 DEF TypeOK
  <2>2. taken[r] \in Nat /\ last \in Nat /\ taken[r] <= last /\ \A i \in Tokens(r) : i \in Nat
    BY <1>1, FoundLines DEF Tokens
  <2>3. {i \in Tokens(r) : i <= last} = {i \in Tokens(r) : i <= taken[r]}
                                       \cup {i \in Tokens(r) : taken[r] < i /\ i <= last}
    BY <2>2
  <2>4. \A x \in {i \in Tokens(r) : i <= taken[r]} :
           \A y \in {i \in Tokens(r) : taken[r] < i /\ i <= last} : x < y
    BY <2>2
  <2>5. Lists(full[r] \o tokens, {i \in Tokens(r) : i <= last})
    <3> DEFINE S == {i \in Tokens(r) : i <= taken[r]}
               T == {i \in Tokens(r) : taken[r] < i /\ i <= last}
    <3>1. /\ full[r] \in Seq(Nat) /\ tokens \in Seq(Nat) /\ Lists(full[r], S)
          /\ Lists(tokens, T) /\ \A x \in S : \A y \in T : x < y
      BY <1>2, <1>4, <1>6, <2>4
    <3> HIDE DEF S, T
    <3>2. Lists(full[r] \o tokens, S \cup T) BY <3>1, ConcatLists
    <3> QED BY <2>3, <3>2 DEF S, T
  <2>6. IsPrefix(shown'[r], full'[r])
    <3>1. CASE open
      <4>1. shown'[r] = full'[r] BY <1>4, <1>6, <2>1, <3>1
      <4>2. full[r] \in Seq(Nat) /\ tokens \in Seq(Nat) BY <1>2, <1>4, <1>6
      <4>3. full[r] \o tokens \in Seq(Nat) BY <4>2
      <4>4. Len(full'[r]) <= Len(full'[r]) BY <2>1, <4>3
      <4> QED BY <4>1, <4>4 DEF IsPrefix
    <3>2. CASE ~open
      <4>1. IsPrefix(shown[r], full[r] \o tokens) BY <1>4, <1>6, PrefixGrows
      <4> QED BY <2>1, <3>2, <4>1
    <3> QED BY <3>1, <3>2
  <2>7. open => shown'[r] = full'[r] BY <1>4, <1>6, <2>1
  <2> QED BY <1>6, <2>1, <2>5, <2>6, <2>7
<1> QED BY <1>5, <1>6

\* No other step collects or shows a token, or opens the websocket again.
LEMMA OrderStep == TypeOK /\ TokensInOrder /\ [Next]_vars => TokensInOrder'
<1> SUFFICES ASSUME TypeOK, TokensInOrder, [Next]_vars PROVE TokensInOrder'
  OBVIOUS
<1>1. CASE \E r \in Requests : OnData(r) \/ ResumeSystem(r)
  BY <1>1, HandlerRuns, OrderHandles
<1>2. CASE ~(\E r \in Requests : OnData(r) \/ ResumeSystem(r))
  <2>1. UNCHANGED <<answer, taken, full, shown>> /\ (open' => open)
    BY <1>2 DEF Next, GatewayStep, KafkaAnswers, Ask, AskWorker, Broadcast, OnEnd, Ends, OnError,
         WorkerWrites, KafkaAppends, KafkaRefuses, WorkerDies, CloseSocket, vars, TypeOK
  <2> QED BY <2>1 DEF TokensInOrder, Tokens, Lines
<1> QED BY <1>1, <1>2

\* Nothing has been collected or shown at first.
LEMMA OrderInit == Init => TokensInOrder
<1> SUFFICES ASSUME Init, NEW r \in Requests
    PROVE  /\ Lists(full[r], {i \in Tokens(r) : i <= taken[r]})
           /\ IsPrefix(shown[r], full[r])
           /\ open => shown[r] = full[r]
  BY DEF TokensInOrder
<1>1. full[r] = <<>> /\ shown[r] = <<>> /\ taken[r] = 0 BY DEF Init
<1>2. {i \in Tokens(r) : i <= 0} = {} BY DEF Tokens
<1> QED BY <1>1, <1>2 DEF Lists, IsPrefix

\* However the chunk handlers overtake each other, what they collect is the tokens
\* of the lines taken, each once and in the worker's order, and what the websocket
\* is shown is the beginning of it.
THEOREM TokensKeepOrder == Spec => []TokensInOrder
BY TypeInit, TypeStep, OrderInit, OrderStep, PTL DEF Spec

-----------------------------------------------------------------------------
(* The answer that is saved.                                               *)

\* The gateway ends its side only after it has taken the end of the answer.
HalfOK ==
    \A r \in Requests : stage[r] = "half" => \E i \in 1..taken[r] : Lines(r)[i] = "done"

\* The final message is emitted once its connection is over, and unless that ended
\* before the gateway's side it holds every token of the answer.
SaysOK ==
    \A m \in sends \cup acks \cup log :
        m.role = "assistant" =>
            /\ stage[m.request] = "over"
            /\ m.request \notin cut => Lists(m.text, Tokens(m.request))

AnswerInv == TypeOK /\ TokensInOrder /\ HalfOK /\ SaysOK

\* Once the end has been taken, so has every token: they come before it.
LEMMA AllTaken ==
    ASSUME TypeOK, TokensInOrder, HalfOK, NEW r \in Requests, stage[r] = "half"
    PROVE  Lists(full[r], Tokens(r))
<1>1. PICK d \in 1..taken[r] : Lines(r)[d] = "done" BY DEF HalfOK
<1>2. /\ taken[r] \in Nat /\ Len(Lines(r)) \in Nat /\ taken[r] <= Len(Lines(r))
      /\ DOMAIN Lines(r) = 1..Len(Lines(r)) /\ Lines(r) \in Answers
  BY FoundLines, GatewayAssumption DEF TypeOK, Lines
<1>3. ASSUME NEW i \in Tokens(r) PROVE i <= taken[r]
  <2>1. i \in 1..Len(Lines(r)) /\ Lines(r)[i] = "token" BY DEF Tokens
  <2>2. i < d BY <1>1, <1>2, <2>1, GatewayAssumption
  <2> QED BY <1>1, <1>2, <2>1, <2>2
<1>4. {i \in Tokens(r) : i <= taken[r]} = Tokens(r) BY <1>3
<1> QED BY <1>4 DEF TokensInOrder

\* Only the loop lets a connection half-close, after it took the end.
LEMMA HalfStep == TypeOK /\ HalfOK /\ [Next]_vars => HalfOK'
<1> SUFFICES ASSUME TypeOK, HalfOK, [Next]_vars PROVE HalfOK'
  OBVIOUS
<1>1. ASSUME NEW r \in Requests, OnData(r) \/ ResumeSystem(r) PROVE HalfOK'
  <2>1. PICK n : Handles(r, n) BY <1>1, HandlerRuns
  <2>2. n \in Nat /\ taken[r] <= n /\ n <= Len(Lines(r)) BY <2>1, FoundLines DEF Handles
  <2>3. RunLoop(r, taken[r], n) BY <2>1 DEF Handles
  <2>4. PICK last \in taken[r]..n :
           taken' = [taken EXCEPT ![r] = last] /\ StageRuns(r, last)
    BY <2>2, <2>3, LoopFacts
  <2>5. answer' = answer BY <2>1 DEF Handles
  <2> SUFFICES ASSUME NEW q \in Requests, stage'[q] = "half"
      PROVE  \E i \in 1..taken'[q] : Lines(q)[i] = "done"
    BY <2>5 DEF HalfOK, Lines
  <2>6. CASE stage[q] = "half"
    <3>1. PICK i \in 1..taken[q] : Lines(q)[i] = "done" BY <2>6 DEF HalfOK
    <3>2. taken[q] \in Nat /\ taken'[q] \in Nat /\ taken[q] <= taken'[q]
      <4>1. taken[q] \in Nat /\ taken[r] \in Nat /\ taken \in [Requests -> Nat]
        BY DEF TypeOK
      <4>2. last \in Nat /\ taken[r] <= last BY <2>2, <4>1
      <4>3. taken'[q] = IF q = r THEN last ELSE taken[q] BY <2>4, <4>1
      <4> QED BY <4>1, <4>2, <4>3
    <3>3. i \in 1..taken'[q] BY <3>1, <3>2
    <3> QED BY <3>1, <3>3
  <2>7. CASE stage[q] # "half"
    <3>1. q = r /\ \E i \in 1..last : Lines(r)[i] = "done"
      BY <2>4, <2>7 DEF StageRuns, TypeOK
    <3>2. taken'[r] = last BY <2>4 DEF TypeOK
    <3> QED BY <3>1, <3>2
  <2> QED BY <2>6, <2>7
<1>2. CASE ~(\E r \in Requests : OnData(r) \/ ResumeSystem(r))
  <2>1. /\ UNCHANGED <<answer, taken>>
        /\ \A r \in Requests : stage'[r] = "half" => stage[r] = "half"
    BY <1>2 DEF Next, GatewayStep, KafkaAnswers, Ask, AskWorker, Broadcast, OnEnd, Ends, OnError,
         WorkerWrites, KafkaAppends, KafkaRefuses, WorkerDies, CloseSocket, vars, TypeOK
  <2> QED BY <2>1 DEF HalfOK, Lines
<1> QED BY <1>1, <1>2

\* A connection that is over stays so, and one that ended too early has done so for
\* good.
LEMMA OverStays ==
    ASSUME TypeOK, [Next]_vars, NEW r \in Requests
    PROVE  /\ stage[r] = "over" => stage'[r] = "over"
           /\ cut \subseteq cut'
           /\ answer' = answer
<1>1. ASSUME NEW q \in Requests, OnData(q) \/ ResumeSystem(q)
      PROVE  (stage[r] = "over" => stage'[r] = "over") /\ cut \subseteq cut' /\ answer' = answer
  <2>1. PICK n : Handles(q, n) BY <1>1, HandlerRuns
  <2>2. n \in Nat /\ taken[q] <= n /\ n <= Len(Lines(q)) BY <2>1, FoundLines DEF Handles
  <2>3. RunLoop(q, taken[q], n) BY <2>1 DEF Handles
  <2>4. \E last \in taken[q]..n : StageRuns(q, last) BY <2>2, <2>3, LoopFacts
  <2> QED BY <2>1, <2>4 DEF Handles, StageRuns, TypeOK
<1>2. CASE ~(\E q \in Requests : OnData(q) \/ ResumeSystem(q))
  BY <1>2 DEF Next, GatewayStep, KafkaAnswers, Ask, AskWorker, Broadcast, OnEnd, Ends, OnError,
       WorkerWrites, KafkaAppends, KafkaRefuses, WorkerDies, CloseSocket, vars, TypeOK
<1> QED BY <1>1, <1>2

\* What a step adds to the emits and the topic: the loop adds no question and no
\* final message.
LEMMA NewEmits ==
    ASSUME TypeOK, [Next]_vars
    PROVE  \A m \in sends' \cup acks' \cup log' :
              \/ m \in sends \cup acks \cup log
              \/ m.role \in {"system", "summary"}
              \/ \E r \in Requests : Ask(r) /\ m = Emit(r, "user", 0, <<>>)
              \/ \E r \in Requests : OnEnd(r) /\ m = Emit(r, "assistant", 0, full[r])
<1>1. ASSUME NEW r \in Requests, OnData(r) \/ ResumeSystem(r)
      PROVE  \A m \in sends' \cup acks' \cup log' :
                m \in sends \cup acks \cup log \/ m.role \in {"system", "summary"}
  <2>1. PICK n : Handles(r, n) BY <1>1, HandlerRuns
  <2>2. n \in Nat /\ taken[r] <= n /\ n <= Len(Lines(r)) BY <2>1, FoundLines DEF Handles
  <2>3. RunLoop(r, taken[r], n) BY <2>1 DEF Handles
  <2>4. \A m \in sends' : m \in sends \/ m.role \in {"system", "summary"}
    BY <2>2, <2>3, LoopFacts
  <2> QED BY <2>1, <2>4 DEF Handles
<1>2. CASE ~(\E r \in Requests : OnData(r) \/ ResumeSystem(r))
  BY <1>2 DEF Next, GatewayStep, KafkaAnswers, Ask, AskWorker, Broadcast, OnEnd, Ends, OnError,
       WorkerWrites, KafkaAppends, KafkaRefuses, WorkerDies, CloseSocket, vars
<1> QED BY <1>1, <1>2

\* The final message snapshots the tokens when they are all there.
LEMMA SaysStep == AnswerInv /\ [Next]_vars => SaysOK'
<1> SUFFICES ASSUME AnswerInv, [Next]_vars,
                    NEW m \in sends' \cup acks' \cup log', m.role = "assistant"
    PROVE  stage'[m.request] = "over" /\ (m.request \notin cut' => Lists(m.text, Tokens(m.request)'))
  BY DEF SaysOK
<1> USE DEF AnswerInv
<1>1. CASE m \in sends \cup acks \cup log
  <2>1. /\ m.request \in Requests /\ stage[m.request] = "over"
        /\ m.request \notin cut => Lists(m.text, Tokens(m.request))
    BY <1>1 DEF SaysOK, TypeOK, EmitOK
  <2>2. stage'[m.request] = "over" /\ cut \subseteq cut' /\ answer' = answer
    BY <2>1, OverStays
  <2> QED BY <2>1, <2>2 DEF Tokens, Lines
<1>2. ASSUME NEW r \in Requests, OnEnd(r), m = Emit(r, "assistant", 0, full[r])
      PROVE  stage'[m.request] = "over" /\ (m.request \notin cut' => Lists(m.text, Tokens(m.request)'))
  <2>1. m.request = r /\ m.text = full[r] BY <1>2 DEF Emit
  <2>2. /\ stage' = [stage EXCEPT ![r] = "over"] /\ answer' = answer
        /\ stage[r] = "half" \/ r \in cut'
    BY <1>2 DEF OnEnd, Ends
  <2>3. r \notin cut' => Lists(full[r], Tokens(r)) BY <2>2, AllTaken
  <2>4. stage'[r] = "over" BY <2>2 DEF TypeOK
  <2> QED BY <2>1, <2>2, <2>3, <2>4 DEF Tokens, Lines
<1>3. ~(m.role \in {"system", "summary"}) OBVIOUS
<1>4. \A r \in Requests : m # Emit(r, "user", 0, <<>>) BY DEF Emit
<1> QED BY <1>1, <1>2, <1>3, <1>4, NewEmits

\* The invariant of the answers holds at first, and every step keeps it.
LEMMA AnswerInit == Init => AnswerInv
<1>1. Init => HalfOK /\ SaysOK BY DEF Init, HalfOK, SaysOK
<1> QED BY <1>1, TypeInit, OrderInit DEF AnswerInv

LEMMA AnswerStep == AnswerInv /\ [Next]_vars => AnswerInv'
BY TypeStep, OrderStep, HalfStep, SaysStep DEF AnswerInv

\* The message saved for the assistant holds every token of the answer, in order,
\* unless its connection ended before the gateway had ended its side: the end event
\* may overtake suspended handlers, but those have only lines without tokens left
\* once the gateway has seen the end of the answer.
THEOREM SavedAnswerIsWhole == Spec => []AssistantComplete
<1>1. AnswerInv => AssistantComplete
  BY DEF AnswerInv, SaysOK, AssistantComplete
<1> QED BY <1>1, AnswerInit, AnswerStep, PTL DEF Spec

-----------------------------------------------------------------------------
(* Questions before answers.                                               *)

\* An emit of a question belongs to a handler that waits for it: it is in flight
\* or answered, and when answered the topic has it or Kafka refused an emit.
AskOK ==
    /\ \A m \in sends \cup acks :
          m.role = "user" => stage[m.request] = "asking" /\ m = Emit(m.request, "user", 0, <<>>)
    /\ \A m \in sends : m.role = "user" => m \notin acks
    /\ \A m \in acks : m.role = "user" => Logged(m.request, "user") \/ lost > 0

\* A question that went to the worker has been through Kafka.
PassedOK ==
    \A r \in Requests :
        question[r] /\ stage[r] \notin {"idle", "asking"} => Logged(r, "user") \/ lost > 0

QuestionInv == AnswerInv /\ AskOK /\ PassedOK

\* What is logged or lost stays so, a text stays a text, and only a handler that
\* had its turn leaves the question behind.
LEMMA KafkaKeeps ==
    ASSUME TypeOK, [Next]_vars, NEW r \in Requests, NEW role, Logged(r, role) \/ lost > 0
    PROVE  Logged(r, role)' \/ lost' > 0
<1>1. log \subseteq log' /\ (lost' = lost \/ lost' = lost + 1)
  <2>1. ASSUME NEW q \in Requests, OnData(q) \/ ResumeSystem(q) PROVE UNCHANGED <<log, lost>>
    BY <2>1 DEF OnData, ResumeSystem
  <2>2. CASE ~(\E q \in Requests : OnData(q) \/ ResumeSystem(q))
    BY <2>2 DEF Next, GatewayStep, KafkaAnswers, Ask, AskWorker, Broadcast, OnEnd, Ends, OnError,
         WorkerWrites, KafkaAppends, KafkaRefuses, WorkerDies, CloseSocket, vars
  <2> QED BY <2>1, <2>2
<1>2. lost \in Nat BY GatewayAssumption DEF TypeOK
<1> QED BY <1>1, <1>2 DEF Logged

\* Where a connection is neither new nor waiting, it was so before, had no text or
\* waited for Kafka.
LEMMA StageMoves ==
    ASSUME TypeOK, [Next]_vars, NEW r \in Requests
    PROVE  /\ question' = question
           /\ \/ stage'[r] = stage[r]
              \/ stage[r] \notin {"idle", "asking"} /\ stage'[r] \notin {"idle", "asking"}
              \/ Ask(r) /\ stage[r] = "idle" /\ (question[r] => stage'[r] = "asking")
              \/ AskWorker(r)
<1>1. ASSUME NEW q \in Requests, OnData(q) \/ ResumeSystem(q)
      PROVE  /\ question' = question
             /\ \/ stage'[r] = stage[r]
                \/ stage[r] \notin {"idle", "asking"} /\ stage'[r] \notin {"idle", "asking"}
  <2>1. PICK n : Handles(q, n) BY <1>1, HandlerRuns
  <2>2. n \in Nat /\ taken[q] <= n /\ n <= Len(Lines(q)) BY <2>1, FoundLines DEF Handles
  <2>3. RunLoop(q, taken[q], n) BY <2>1 DEF Handles
  <2>4. \E last \in taken[q]..n : StageRuns(q, last) BY <2>2, <2>3, LoopFacts
  <2> QED BY <2>1, <2>4 DEF Handles, StageRuns, TypeOK
<1>2. ASSUME NEW q \in Requests, Ask(q)
      PROVE  /\ question' = question
             /\ \/ stage'[r] = stage[r]
                \/ Ask(r) /\ stage[r] = "idle" /\ (question[r] => stage'[r] = "asking")
  BY <1>2 DEF Ask, TypeOK
<1>3. ASSUME NEW q \in Requests, AskWorker(q)
      PROVE  question' = question /\ (stage'[r] = stage[r] \/ AskWorker(r))
  <2>1. question' = question /\ (q # r => stage'[r] = stage[r]) BY <1>3 DEF AskWorker, TypeOK
  <2> QED BY <1>3, <2>1
<1>4. ASSUME NEW q \in Requests, OnEnd(q) \/ OnError(q)
      PROVE  /\ question' = question
             /\ \/ stage'[r] = stage[r]
                \/ stage[r] \notin {"idle", "asking"} /\ stage'[r] \notin {"idle", "asking"}
  BY <1>4 DEF OnEnd, Ends, OnError, TypeOK
<1>5. CASE ~(\E q \in Requests : \/ OnData(q) \/ ResumeSystem(q) \/ Ask(q) \/ AskWorker(q)
                                 \/ OnEnd(q) \/ OnError(q))
  <2>1. UNCHANGED <<stage, question>>
    BY <1>5 DEF Next, GatewayStep, KafkaAnswers, Broadcast, WorkerWrites, KafkaAppends,
         KafkaRefuses, WorkerDies, CloseSocket, vars
  <2> QED BY <2>1
<1> QED BY <1>1, <1>2, <1>3, <1>4, <1>5

\* The emits of questions: where they come from, and where they go.
LEMMA QuestionEmits ==
    ASSUME QuestionInv, [Next]_vars, NEW m, m.role = "user"
    PROVE  /\ m \in sends' => \/ m \in sends
                              \/ \E r \in Requests :
                                    Ask(r) /\ question[r] /\ m = Emit(r, "user", 0, <<>>)
           /\ m \in acks' => \/ m \in acks
                             \/ /\ m \in sends /\ m \notin sends'
                                /\ m \in log' \/ lost' > 0
<1> USE DEF QuestionInv, AnswerInv
<1>1. ASSUME NEW q \in Requests, OnData(q) \/ ResumeSystem(q)
      PROVE  (m \in sends' => m \in sends) /\ (m \in acks' => m \in acks)
  <2>1. PICK n : Handles(q, n) BY <1>1, HandlerRuns
  <2>2. n \in Nat /\ taken[q] <= n /\ n <= Len(Lines(q)) BY <2>1, FoundLines DEF Handles
  <2>3. RunLoop(q, taken[q], n) BY <2>1 DEF Handles
  <2>4. \A x \in sends' : x \in sends \/ x.role \in {"system", "summary"}
    BY <2>2, <2>3, LoopFacts
  <2> QED BY <2>1, <2>4 DEF Handles
<1>2. ASSUME NEW q \in Requests, OnEnd(q)
      PROVE  (m \in sends' => m \in sends) /\ (m \in acks' => m \in acks)
  <2>1. m # Emit(q, "assistant", 0, full[q]) BY DEF Emit
  <2> QED BY <1>2, <2>1 DEF OnEnd, Ends
<1>3. ASSUME NEW q \in Requests, Ask(q)
      PROVE  /\ m \in sends' => m \in sends \/ (question[q] /\ m = Emit(q, "user", 0, <<>>))
             /\ m \in acks' => m \in acks
  BY <1>3 DEF Ask
<1>4. ASSUME NEW x \in sends, KafkaAppends(x) \/ KafkaRefuses(x)
      PROVE  /\ m \in sends' => m \in sends
             /\ m \in acks' => \/ m \in acks
                               \/ /\ m \in sends /\ m \notin sends'
                                  /\ m \in log' \/ lost' > 0
  <2>1. lost \in Nat BY GatewayAssumption DEF TypeOK
  <2>2. sends' = sends \ {x} /\ acks' = acks \cup {x} /\ (x \in log' \/ lost' = lost + 1)
    BY <1>4 DEF KafkaAppends, KafkaRefuses
  <2>3. x \in log' \/ lost' > 0 BY <2>1, <2>2
  <2> QED BY <1>4, <2>2, <2>3
<1>5. CASE ~(\/ \E q \in Requests : OnData(q) \/ ResumeSystem(q) \/ OnEnd(q) \/ Ask(q)
             \/ KafkaAnswers)
  BY <1>5 DEF Next, GatewayStep, AskWorker, Broadcast, OnError, WorkerWrites, WorkerDies,
       CloseSocket, vars
<1> QED BY <1>1, <1>2, <1>3, <1>4, <1>5 DEF KafkaAnswers

\* A handler that goes on has taken the answer of its emit: no emit of its question
\* is left.
LEMMA AskStep == QuestionInv /\ [Next]_vars => AskOK'
<1> SUFFICES ASSUME QuestionInv, [Next]_vars PROVE AskOK'
  OBVIOUS
<1> USE DEF QuestionInv, AnswerInv
<1>1. ASSUME NEW m \in sends' \cup acks', m.role = "user"
      PROVE  stage'[m.request] = "asking" /\ m = Emit(m.request, "user", 0, <<>>)
  <2>1. CASE m \in sends \cup acks
    <3>1. /\ m.request \in Requests /\ stage[m.request] = "asking"
          /\ m = Emit(m.request, "user", 0, <<>>)
      BY <1>1, <2>1 DEF AskOK, TypeOK, EmitOK
    <3>2. ~AskWorker(m.request)
      <4> SUFFICES ASSUME AskWorker(m.request) PROVE FALSE
        OBVIOUS
      <4>1. m \in acks /\ acks' = acks \ {m} /\ sends' = sends BY <3>1 DEF AskWorker
      <4>2. m \in sends BY <1>1, <4>1
      <4> QED BY <1>1, <4>1, <4>2 DEF AskOK
    <3>3. stage'[m.request] = "asking" BY <3>1, <3>2, StageMoves
    <3> QED BY <3>1, <3>3
  <2>2. CASE m \notin sends \cup acks
    <3>1. PICK r \in Requests : Ask(r) /\ question[r] /\ m = Emit(r, "user", 0, <<>>)
      BY <1>1, <2>2, QuestionEmits
    <3>2. m.request = r BY <3>1 DEF Emit
    <3>3. stage'[r] = "asking" BY <3>1 DEF Ask, TypeOK
    <3> QED BY <3>1, <3>2, <3>3
  <2> QED BY <2>1, <2>2
<1>2. ASSUME NEW m \in sends', m.role = "user" PROVE m \notin acks'
  <2>1. CASE m \in sends
    BY <1>2, <2>1, QuestionEmits DEF AskOK
  <2>2. CASE m \notin sends
    <3>1. PICK r \in Requests : Ask(r) /\ m = Emit(r, "user", 0, <<>>)
      BY <1>2, <2>2, QuestionEmits
    <3>2. m.request = r /\ stage[r] = "idle" /\ acks' = acks BY <3>1 DEF Emit, Ask
    <3> QED BY <1>2, <3>2 DEF AskOK
  <2> QED BY <2>1, <2>2
<1>3. ASSUME NEW m \in acks', m.role = "user"
      PROVE  Logged(m.request, "user")' \/ lost' > 0
  <2>1. CASE m \in acks
    <3>1. m.request \in Requests /\ (Logged(m.request, "user") \/ lost > 0)
      BY <1>3, <2>1 DEF AskOK, TypeOK, EmitOK
    <3> QED BY <3>1, KafkaKeeps
  <2>2. CASE m \notin acks
    <3>1. m \in log' \/ lost' > 0 BY <1>3, <2>2, QuestionEmits
    <3> QED BY <1>3, <3>1 DEF Logged
  <2> QED BY <2>1, <2>2
<1> QED BY <1>1, <1>2, <1>3 DEF AskOK

\* The websocket handler asks the worker only after the emit of the text.
LEMMA PassedStep == QuestionInv /\ [Next]_vars => PassedOK'
<1> SUFFICES ASSUME QuestionInv, [Next]_vars,
                    NEW r \in Requests, question'[r], stage'[r] \notin {"idle", "asking"}
    PROVE  Logged(r, "user")' \/ lost' > 0
  BY DEF PassedOK
<1> USE DEF QuestionInv, AnswerInv
<1>1. question' = question BY StageMoves
<1>2. CASE AskWorker(r)
  <2>1. Emit(r, "user", 0, <<>>) \in acks BY <1>2 DEF AskWorker
  <2>2. Logged(r, "user") \/ lost > 0 BY <2>1 DEF AskOK, Emit
  <2> QED BY <2>2, KafkaKeeps
<1>3. CASE ~AskWorker(r)
  <2>1. stage[r] \notin {"idle", "asking"} BY <1>1, <1>3, StageMoves
  <2>2. Logged(r, "user") \/ lost > 0 BY <1>1, <2>1 DEF PassedOK
  <2> QED BY <2>2, KafkaKeeps
<1> QED BY <1>2, <1>3

\* What enters the topic was in flight.
LEMMA LoggedFromSends ==
    ASSUME [Next]_vars, NEW m \in log', m \notin log
    PROVE  m \in sends
<1>1. ASSUME NEW q \in Requests, OnData(q) \/ ResumeSystem(q) PROVE log' = log
  BY <1>1 DEF OnData, ResumeSystem
<1>2. CASE ~(\E q \in Requests : OnData(q) \/ ResumeSystem(q))
  BY <1>2 DEF Next, GatewayStep, KafkaAnswers, Ask, AskWorker, Broadcast, OnEnd, Ends, OnError,
       WorkerWrites, KafkaAppends, KafkaRefuses, WorkerDies, CloseSocket, vars
<1> QED BY <1>1, <1>2

\* A new answer in the topic belongs to a connection that is over, a new question
\* to one that has not yet begun.
LEMMA OrderOfEntries ==
    ASSUME QuestionInv, [Next]_vars, NEW r \in Requests
    PROVE  /\ ~Logged(r, "assistant") /\ Logged(r, "assistant")' /\ question[r] =>
                 Logged(r, "user") \/ lost > 0
           /\ ~Logged(r, "user") /\ Logged(r, "user")' => ~Logged(r, "assistant")
<1> USE DEF QuestionInv, AnswerInv
<1>1. ASSUME ~Logged(r, "assistant"), Logged(r, "assistant")', question[r]
      PROVE  Logged(r, "user") \/ lost > 0
  <2>1. PICK m \in log' : m.request = r /\ m.role = "assistant" BY <1>1 DEF Logged
  <2>2. m \in sends BY <1>1, <2>1, LoggedFromSends DEF Logged
  <2>3. stage[r] = "over" BY <2>1, <2>2 DEF SaysOK
  <2> QED BY <1>1, <2>3 DEF PassedOK
<1>2. ASSUME ~Logged(r, "user"), Logged(r, "user")', Logged(r, "assistant") PROVE FALSE
  <2>1. PICK m \in log' : m.request = r /\ m.role = "user" BY <1>2 DEF Logged
  <2>2. m \in sends BY <1>2, <2>1, LoggedFromSends DEF Logged
  <2>3. stage[r] = "asking" BY <2>1, <2>2 DEF AskOK
  <2>4. stage[r] = "over" BY <1>2 DEF Logged, SaysOK
  <2> QED BY <2>3, <2>4
<1> QED BY <1>1, <1>2

\* An answer enters the topic after its question, unless Kafka refused an emit,
\* and a question never enters behind its answer: the websocket handler waits for
\* its emit before it asks the worker.
THEOREM QuestionComesFirst == Spec => QuestionFirst
<1>1. Init => QuestionInv
  <2>1. Init => AskOK /\ PassedOK BY DEF Init, AskOK, PassedOK
  <2> QED BY <2>1, AnswerInit DEF QuestionInv
<1>2. QuestionInv /\ [Next]_vars => QuestionInv'
  BY AnswerStep, AskStep, PassedStep DEF QuestionInv
<1>3. QuestionInv /\ [Next]_vars =>
        [\A r \in Requests :
          /\ ~Logged(r, "assistant") /\ Logged(r, "assistant")' /\ question[r] =>
                Logged(r, "user") \/ lost > 0
          /\ ~Logged(r, "user") /\ Logged(r, "user")' => ~Logged(r, "assistant")]_vars
  BY OrderOfEntries
<1> QED BY <1>1, <1>2, <1>3, PTL DEF Spec, QuestionFirst

=============================================================================
