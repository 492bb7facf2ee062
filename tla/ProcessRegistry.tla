-------------------------- MODULE ProcessRegistry --------------------------
(***************************************************************************)
(* Child processes and the shutdown of the Rust server                     *)
(* (src/src/main.rs, src/src/util/process_registry.rs,                     *)
(* src/src/worker/manager.rs).                                             *)
(*                                                                         *)
(* main() spawns the Python workers, then the Node gateway, registers each *)
(* child behind a mutex and only then starts to serve and to listen for    *)
(* Ctrl+C.  A task that reports the exit of the gateway locks its mutex    *)
(* and waits for it to exit with the lock held; kill_all() locks the       *)
(* children one by one, in the order they were registered.                 *)
(***************************************************************************)
EXTENDS Integers, Sequences, SequencesExt

CONSTANTS
    Children,       \* the children in the order main() spawns them
    Waited,         \* those a task waits for with the mutex held (the gateway)
    Interrupts,     \* "group": Ctrl+C at a terminal reaches every process of
                    \* the group; "parent": a SIGINT sent to the server alone
    MaxExits        \* bound: children that exit by themselves

ASSUME RegistryAssumption ==
    /\ Children \in Seq(Range(Children))
    /\ IsInjective(Children)
    /\ Waited \subseteq Range(Children)
    /\ Interrupts \subseteq {"group", "parent"}
    /\ MaxExits \in Nat

Child == Range(Children)

VARIABLES
    main,       \* the main task: spawning, starting, serving, killing, grace, and how it ended
    spawned,    \* number of children spawned and registered
    proc,       \* proc[c]: "unborn", "running", "dying" (SIGKILL sent) or "gone"
    waiter,     \* waiter[c]: the waiting task: "none", "queued", "holding", "done"
    locker,     \* locker[c]: who holds the mutex of c
    todo,       \* children kill_all() has not visited
    exits

vars == <<main, spawned, proc, waiter, locker, todo, exits>>

Ended == {"clean", "aborted", "killed"}

TypeOK ==
    /\ main \in {"spawning", "starting", "serving", "killing", "grace"} \cup Ended
    /\ spawned \in 0..Len(Children)
    /\ proc \in [Child -> {"unborn", "running", "dying", "gone"}]
    /\ waiter \in [Child -> {"none", "queued", "holding", "done"}]
    /\ locker \in [Child -> {"nobody", "waiter"}]
    /\ \A c \in Child : locker[c] = "waiter" <=> waiter[c] = "holding"
    /\ todo \in Seq(Child)
    /\ exits \in 0..MaxExits

Init ==
    /\ main = "spawning"
    /\ spawned = 0
    /\ proc = [c \in Child |-> "unborn"]
    /\ waiter = [c \in Child |-> "none"]
    /\ locker = [c \in Child |-> "nobody"]
    /\ todo = <<>>
    /\ exits = 0

Alive == main \notin Ended

-----------------------------------------------------------------------------
\* Command::spawn, Arc<Mutex<Child>>, registry.add; for the gateway a task is
\* spawned that will wait for it.
Spawn ==
    /\ main = "spawning"
    /\ spawned < Len(Children)
    /\ LET c == Children[spawned + 1]
       IN  /\ proc' = [proc EXCEPT ![c] = "running"]
           /\ waiter' = [waiter EXCEPT ![c] = IF c \in Waited THEN "queued" ELSE "none"]
    /\ spawned' = spawned + 1
    /\ main' = IF spawned' = Len(Children) THEN "starting" ELSE "spawning"
    /\ UNCHANGED <<locker, todo, exits>>

\* A spawn panics, or RocksDB does not open, or the port is taken: main()
\* returns and nobody kills the children (kill_on_drop is off).
StartFails ==
    /\ main \in {"spawning", "starting"}
    /\ main' = "aborted"
    /\ UNCHANGED <<spawned, proc, waiter, locker, todo, exits>>

\* select! polls the server and watch_shutdown(), which installs the handler.
Serve ==
    /\ main = "starting"
    /\ main' = "serving"
    /\ UNCHANGED <<spawned, proc, waiter, locker, todo, exits>>

-----------------------------------------------------------------------------
(* The task of spawn_node_process().                                       *)

WaiterLocks(c) ==
    /\ Alive
    /\ waiter[c] = "queued" /\ locker[c] = "nobody"
    /\ waiter' = [waiter EXCEPT ![c] = "holding"]
    /\ locker' = [locker EXCEPT ![c] = "waiter"]
    /\ UNCHANGED <<main, spawned, proc, todo, exits>>

\* Faulty variant: the guard outlives the wait.
WaiterKeepsLock(c) ==
    /\ Alive
    /\ waiter[c] = "holding" /\ proc[c] = "gone"
    /\ waiter' = [waiter EXCEPT ![c] = "done"]
    /\ UNCHANGED <<main, spawned, proc, locker, todo, exits>>

\* wait() returns when the child is gone; the guard is dropped.
WaiterReports(c) ==
    /\ Alive
    /\ waiter[c] = "holding" /\ proc[c] = "gone"
    /\ waiter' = [waiter EXCEPT ![c] = "done"]
    /\ locker' = [locker EXCEPT ![c] = "nobody"]
    /\ UNCHANGED <<main, spawned, proc, todo, exits>>

-----------------------------------------------------------------------------
(* The operating system.                                                   *)

\* SIGINT.  Before the handler is installed it ends the server.  The handler
\* consumes the first one; tokio keeps it installed, so later ones do nothing
\* to the server.  No child handles SIGINT.
Interrupt(kind) ==
    /\ Alive
    /\ main' = CASE main \in {"spawning", "starting"} -> "killed"
                 [] main = "serving" -> "killing"
                 [] OTHER -> main
    /\ todo' = IF main = "serving" THEN Children ELSE todo
    /\ proc' = IF kind = "group"
               THEN [c \in Child |-> IF proc[c] = "running" THEN "dying" ELSE proc[c]]
               ELSE proc
    /\ UNCHANGED <<spawned, waiter, locker, exits>>

\* A signalled child dies.
Die(c) ==
    /\ proc[c] = "dying"
    /\ proc' = [proc EXCEPT ![c] = "gone"]
    /\ UNCHANGED <<main, spawned, waiter, locker, todo, exits>>

\* A child exits by itself; nothing restarts it.
Exit(c) ==
    /\ proc[c] = "running"
    /\ exits < MaxExits
    /\ exits' = exits + 1
    /\ proc' = [proc EXCEPT ![c] = "gone"]
    /\ UNCHANGED <<main, spawned, waiter, locker, todo>>

-----------------------------------------------------------------------------
(* kill_all().                                                             *)

\* Faulty variant: try_lock(), and a child whose mutex is taken is passed over.
KillIfUnlocked ==
    /\ main = "killing" /\ todo # <<>>
    /\ LET c == Head(todo)
       IN  proc' = [proc EXCEPT ![c] = IF @ = "running" /\ locker[c] = "nobody"
                                       THEN "dying" ELSE @]
    /\ todo' = Tail(todo)
    /\ UNCHANGED <<main, spawned, waiter, locker, exits>>

\* lock the next child, start_kill() (an error, the child being gone, is
\* ignored), unlock.
KillNext ==
    /\ main = "killing" /\ todo # <<>>
    /\ LET c == Head(todo)
       IN  /\ locker[c] = "nobody"
           /\ proc' = [proc EXCEPT ![c] = IF @ = "running" THEN "dying" ELSE @]
    /\ todo' = Tail(todo)
    /\ UNCHANGED <<main, spawned, waiter, locker, exits>>

KillDone ==
    /\ main = "killing" /\ todo = <<>>
    /\ main' = "grace"
    /\ UNCHANGED <<spawned, proc, waiter, locker, todo, exits>>

\* 300 ms later main() returns, whatever became of the children.
GraceOver ==
    /\ main = "grace"
    /\ main' = "clean"
    /\ UNCHANGED <<spawned, proc, waiter, locker, todo, exits>>

-----------------------------------------------------------------------------
ServerStep ==
    \/ Spawn \/ Serve \/ KillNext \/ KillDone \/ GraceOver

WaiterStep(c) == WaiterLocks(c) \/ WaiterReports(c)

Next ==
    \/ ServerStep
    \/ StartFails
    \/ \E c \in Child : WaiterStep(c) \/ Die(c) \/ Exit(c)
    \/ \E kind \in Interrupts : Interrupt(kind)

Spec == Init /\ [][Next]_vars

\* The tasks are scheduled and a signalled process dies; nobody has to send a
\* signal and no child has to exit.
FairSpec ==
    /\ Spec
    /\ WF_vars(ServerStep)
    /\ \A c \in Child : WF_vars(WaiterStep(c)) /\ WF_vars(Die(c))

-----------------------------------------------------------------------------
(* Properties.                                                             *)

\* A server that shut down through kill_all() leaves no child that is not at
\* least killed, whichever way the signal came and whoever waits for a child.
\* Children outlive the server only when it ended before it served.
CleanShutdownLeavesNoChild ==
    main = "clean" => \A c \in Child : proc[c] \in {"dying", "gone"}

\* Once the server is interrupted and no child that a task waits for is running,
\* the shutdown completes: the mutex kill_all() needs comes free.
ShutdownEnds ==
    (main = "killing" /\ \A c \in Waited : proc[c] # "running") ~> (main = "clean")

\* "Watches for Ctrl+C (SIGINT) and triggers full cleanup"
\* (process_registry.rs:43): an interrupt of the serving process ends it.
InterruptEnds == (main = "killing") ~> (main = "clean")
=============================================================================
