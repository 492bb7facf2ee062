----------------------------- MODULE ChatMemory -----------------------------
(***************************************************************************)
(* What the HistoryWorker promises: a cumulative memory per chat.  A user  *)
(* message may add what was learned from it, once, in the order of the     *)
(* message timestamps; nothing that was learned is ever forgotten          *)
(* (src/src/history_worker/mod.rs, the comment on merge).  The promise     *)
(* ends with a read of the state that fails and with a clock that is set   *)
(* back.                                                                   *)
(***************************************************************************)
EXTENDS Integers

CONSTANTS Chats, Ids, ChatOf, TsOf

VARIABLES
    memory,     \* memory[ch]: what load_last_for_chat answers
    trusted     \* no read has failed, and the clock was not set back

\* No state yet: last_ts = 0, no facts.
Blank == [lastTs |-> 0, facts |-> {}, summary |-> "none"]

MemoryInit == memory = [ch \in Chats |-> Blank] /\ trusted = TRUE

\* Message m is newer than all the memory covers; the facts grow by `learned`.
Absorb(m, learned) ==
    LET old == memory[ChatOf[m]]
    IN  /\ TsOf[m] > old.lastTs
        /\ \E summary \in {old.summary, "model", "fallback"} :
              memory' = [memory EXCEPT ![ChatOf[m]] =
                            [lastTs |-> TsOf[m], facts |-> old.facts \cup learned,
                             summary |-> summary]]

MemoryNext ==
    \/ trusted' /\ \E m \in Ids : \E learned \in {{}, {m}} : Absorb(m, learned)
    \/ ~trusted'

MemorySpec == MemoryInit /\ [][MemoryNext]_<<memory, trusted>>
=============================================================================
