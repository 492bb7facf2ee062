----------------------- MODULE ProcessRegistryProofs -----------------------
(***************************************************************************)
(* Machine-checked proofs about ProcessRegistry, for every list of         *)
(* children, whichever of them are waited for, and both kinds of           *)
(* interrupt.                                                              *)
(***************************************************************************)
EXTENDS ProcessRegistry, TLAPS

\* The children up to `spawned` have been started, and all of them before the
\* server serves; nobody waits for the others.
SpawnedOK ==
    /\ \A i \in 1..Len(Children) : proc[Children[i]] = "unborn" <=> i > spawned
    /\ \A c \in Child : proc[c] = "unborn" => waiter[c] = "none"
    /\ main \in {"starting", "serving", "killing", "grace", "clean"} => spawned = Len(Children)

\* From the interrupt on, a child that runs is one kill_all() has yet to visit.
KillOK ==
    /\ main \in {"killing", "grace", "clean"} =>
           \A c \in Child : proc[c] = "running" => c \in Range(todo)
    /\ main \in {"grace", "clean"} => todo = <<>>

ShutdownInv == TypeOK /\ SpawnedOK /\ KillOK

\* A non-empty list of children has a first one, and its tail has the others.
LEMMA TailKeepsOthers ==
    ASSUME NEW S, NEW s \in Seq(S), s # <<>>
    PROVE  /\ Head(s) \in S
           /\ Tail(s) \in Seq(S)
           /\ \A x : x \in Range(s) /\ x # Head(s) => x \in Range(Tail(s))
<1>1. Head(s) \in S /\ Tail(s) \in Seq(S) /\ Len(s) \in Nat /\ Len(s) > 0
  OBVIOUS
<1>2. Len(Tail(s)) = Len(s) - 1 /\ \A j \in 1..(Len(s) - 1) : Tail(s)[j] = s[j + 1]
  OBVIOUS
<1>3. ASSUME NEW x, x \in Range(s), x # Head(s) PROVE x \in Range(Tail(s))
  <2>1. PICK i \in DOMAIN s : s[i] = x BY <1>3 DEF Range
  <2>2. i \in 1..Len(s) OBVIOUS
  <2>3. i # 1 BY <1>1, <1>3, <2>1
  <2>4. i - 1 \in 1..(Len(s) - 1) BY <1>1, <2>2, <2>3
  <2>5. Tail(s)[i - 1] = x BY <1>2, <2>1, <2>2, <2>4
  <2>6. DOMAIN Tail(s) = 1..(Len(s) - 1) BY <1>1, <1>2
  <2> QED BY <2>4, <2>5, <2>6 DEF Range
<1> QED BY <1>1, <1>3

\* Children is a list of children, and each child is on it.
LEMMA ChildrenFacts ==
    /\ Len(Children) \in Nat
    /\ Children \in Seq(Child)
    /\ Child = {Children[i] : i \in 1..Len(Children)}
    /\ \A i \in 1..Len(Children) : Children[i] \in Child
<1>1. Children \in Seq(Child) BY RegistryAssumption DEF Child
<1>2. Len(Children) \in Nat /\ DOMAIN Children = 1..Len(Children) BY <1>1
<1> QED BY <1>1, <1>2 DEF Child, Range

\* A counter that is raised only below its bound stays within it.
LEMMA CountStays ==
    ASSUME NEW n \in Nat, NEW x \in 0..n, NEW y, y = x \/ (x < n /\ y = x + 1)
    PROVE  y \in 0..n
  OBVIOUS

\* Nothing is spawned in the initial state.
LEMMA ShutdownInit == Init => ShutdownInv
BY ChildrenFacts, RegistryAssumption
   DEF Init, ShutdownInv, TypeOK, SpawnedOK, KillOK, Ended

\* No step of the server, a waiting task, the operating system or kill_all()
\* breaks a type or lets a running child escape.
LEMMA ShutdownStep == ShutdownInv /\ [Next]_vars => ShutdownInv'
<1> USE RegistryAssumption, ChildrenFacts
<1> SUFFICES ASSUME ShutdownInv, [Next]_vars PROVE ShutdownInv'
  OBVIOUS
<1> USE DEF ShutdownInv, TypeOK, SpawnedOK, KillOK, Ended, Alive
<1>1. CASE Spawn
  <2>1. spawned + 1 \in 1..Len(Children) /\ Children[spawned + 1] \in Child
    BY <1>1 DEF Spawn
  <2>2. TypeOK'
    <3>1. spawned' \in 0..Len(Children) /\ main' \in {"spawning", "starting"}
      BY <1>1, <2>1 DEF Spawn
    <3>2. proc' \in [Child -> {"unborn", "running", "dying", "gone"}]
      BY <1>1, <2>1 DEF Spawn
    <3>3. waiter' \in [Child -> {"none", "queued", "holding", "done"}]
      BY <1>1, <2>1 DEF Spawn
    <3>4. waiter[Children[spawned + 1]] = "none"
      <4>1. spawned \in Nat /\ spawned + 1 > spawned BY <2>1
      <4>2. proc[Children[spawned + 1]] = "unborn" BY <2>1, <4>1
      <4> QED BY <2>1, <4>2
    <3>5. \A c \in Child : locker'[c] = "waiter" <=> waiter'[c] = "holding"
      BY <1>1, <2>1, <3>4 DEF Spawn
    <3> QED BY <1>1, <3>1, <3>2, <3>3, <3>5 DEF Spawn
  <2>3. SpawnedOK'
    <3>1. \A i \in 1..Len(Children) :
             Children[i] = Children[spawned + 1] => i = spawned + 1
      <4>1. DOMAIN Children = 1..Len(Children) BY ChildrenFacts
      <4> QED BY <2>1, <4>1 DEF IsInjective
    <3>2. \A i \in 1..Len(Children) :
             proc'[Children[i]] = IF i = spawned + 1 THEN "running" ELSE proc[Children[i]]
      BY <1>1, <2>1, <3>1 DEF Spawn
    <3>3. \A i \in 1..Len(Children) : proc'[Children[i]] = "unborn" <=> i > spawned'
      <4>1. spawned' = spawned + 1 /\ spawned \in Nat BY <1>1 DEF Spawn
      <4> SUFFICES ASSUME NEW i \in 1..Len(Children)
          PROVE  proc'[Children[i]] = "unborn" <=> i > spawned + 1
        BY <4>1
      <4>2. proc[Children[i]] = "unborn" <=> i > spawned OBVIOUS
      <4>3. i \in Nat OBVIOUS
      <4>4. CASE i = spawned + 1 BY <3>2, <4>1, <4>3, <4>4
      <4>5. CASE i # spawned + 1
        <5>1. i > spawned <=> i > spawned + 1 BY <4>1, <4>3, <4>5
        <5>2. proc'[Children[i]] = proc[Children[i]] BY <3>2, <4>5
        <5> QED BY <4>2, <5>1, <5>2
      <4> QED BY <4>4, <4>5
    <3>4. \A c \in Child : proc'[c] = "unborn" => waiter'[c] = "none"
      BY <1>1, <2>1 DEF Spawn
    <3>5. main' = "starting" => spawned' = Len(Children) BY <1>1 DEF Spawn
    <3>6. main' \in {"spawning", "starting"} BY <1>1 DEF Spawn
    <3> QED BY <3>3, <3>4, <3>5, <3>6
  <2>4. KillOK' BY <1>1 DEF Spawn
  <2> QED BY <2>2, <2>3, <2>4
<1>2. CASE StartFails BY <1>2 DEF StartFails
<1>3. CASE Serve BY <1>3 DEF Serve
<1>4. ASSUME NEW c \in Child, WaiterLocks(c) PROVE ShutdownInv'
  BY <1>4 DEF WaiterLocks
<1>5. ASSUME NEW c \in Child, WaiterReports(c) PROVE ShutdownInv'
  BY <1>5 DEF WaiterReports
<1>6. ASSUME NEW kind \in Interrupts, Interrupt(kind) PROVE ShutdownInv'
  <2>1. TypeOK' BY <1>6 DEF Interrupt
  <2>2. SpawnedOK'
    <3>1. \A c \in Child : proc'[c] = "unborn" <=> proc[c] = "unborn"
      BY <1>6 DEF Interrupt
    <3> QED BY <1>6, <3>1 DEF Interrupt
  <2>3. \A c \in Child : c \in Range(Children) BY DEF Child
  <2>4. KillOK' BY <1>6, <2>3 DEF Interrupt
  <2> QED BY <2>1, <2>2, <2>4
<1>7. ASSUME NEW c \in Child, Die(c) \/ Exit(c) PROVE ShutdownInv'
  <2>1. /\ proc[c] # "unborn" /\ proc' = [proc EXCEPT ![c] = "gone"]
        /\ UNCHANGED <<main, spawned, waiter, locker, todo>>
    BY <1>7 DEF Die, Exit
  <2>2. TypeOK'
    <3>1. exits' \in 0..MaxExits
      <4>1. MaxExits \in Nat /\ exits \in 0..MaxExits OBVIOUS
      <4>2. exits' = exits \/ (exits < MaxExits /\ exits' = exits + 1)
        BY <1>7 DEF Die, Exit
      <4> QED BY <4>1, <4>2, CountStays
    <3>2. proc' \in [Child -> {"unborn", "running", "dying", "gone"}] BY <2>1
    <3> QED BY <2>1, <3>1, <3>2
  <2>3. SpawnedOK' BY <2>1
  <2>4. KillOK' BY <2>1
  <2> QED BY <2>2, <2>3, <2>4
<1>8. CASE KillNext
  <2>1. /\ Head(todo) \in Child /\ Tail(todo) \in Seq(Child)
        /\ \A x : x \in Range(todo) /\ x # Head(todo) => x \in Range(Tail(todo))
    BY <1>8, TailKeepsOthers DEF KillNext
  <2>2. TypeOK' BY <1>8, <2>1 DEF KillNext
  <2>3. SpawnedOK' BY <1>8, <2>1 DEF KillNext
  <2>4. KillOK' BY <1>8, <2>1 DEF KillNext
  <2> QED BY <2>2, <2>3, <2>4
<1>9. CASE KillDone BY <1>9 DEF KillDone
<1>10. CASE GraceOver BY <1>10 DEF GraceOver
<1>11. CASE UNCHANGED vars BY <1>11 DEF vars
<1> QED
  BY <1>1, <1>2, <1>3, <1>4, <1>5, <1>6, <1>7, <1>8, <1>9, <1>10, <1>11
     DEF Next, ServerStep, WaiterStep

\* Every state of a startup, service and shutdown is well typed, and a mutex is
\* held exactly by the task that waits behind it.
THEOREM RegistryTypeCorrect == Spec => []TypeOK
<1>1. ShutdownInv => TypeOK BY DEF ShutdownInv
<1> QED BY <1>1, ShutdownInit, ShutdownStep, PTL DEF Spec

\* However many children there are, whoever waits for them and whichever way
\* the signal came: a shutdown that completes leaves none that was not killed.
THEOREM ShutdownLeavesNoChild == Spec => []CleanShutdownLeavesNoChild
<1>1. ShutdownInv => CleanShutdownLeavesNoChild
  <2> SUFFICES ASSUME ShutdownInv, main = "clean", NEW c \in Child
      PROVE  proc[c] \in {"dying", "gone"}
    BY DEF CleanShutdownLeavesNoChild
  <2>1. proc[c] \in {"unborn", "running", "dying", "gone"} BY DEF ShutdownInv, TypeOK
  <2>2. proc[c] # "unborn"
    <3>1. PICK i \in 1..Len(Children) : Children[i] = c BY ChildrenFacts
    <3>2. spawned = Len(Children) /\ Len(Children) \in Nat
      BY ChildrenFacts DEF ShutdownInv, SpawnedOK
    <3>3. ~(i > spawned) BY <3>2
    <3> QED BY <3>1, <3>3 DEF ShutdownInv, SpawnedOK
  <2>3. proc[c] # "running"
    <3>1. todo = <<>> /\ (proc[c] = "running" => c \in Range(todo))
      BY DEF ShutdownInv, KillOK
    <3> QED BY <3>1 DEF Range
  <2> QED BY <2>1, <2>2, <2>3
<1> QED BY <1>1, ShutdownInit, ShutdownStep, PTL DEF Spec
=============================================================================
