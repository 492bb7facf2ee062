---------------------------- MODULE MessageStore ----------------------------
(***************************************************************************)
(* The RocksDB message store (src/src/storage/message_store.rs).           *)
(*                                                                         *)
(* Two column families hold every chat message: `messages_by_id`, the      *)
(* record itself under its id, and `messages_by_time`, a key "<ts>:<id>"   *)
(* that makes the record reachable in time order.  save() fills them with  *)
(* two separate puts; only delete_thread() writes a batch.  A record whose *)
(* id is in one family and not in the other is a tear: this module gives   *)
(* the state and the single writes, and MessagePipeline interleaves them.  *)
(***************************************************************************)
EXTENDS Integers, Sequences, FiniteSets, SequencesExt

CONSTANTS
    Chats,      \* chat ids
    Ids,        \* message ids (UUIDs drawn by the gateway)
    ChatOf,     \* the chat a message belongs to
    RoleOf,     \* "user", "assistant", "system", "summary" or "invalid"
    TsOf        \* the timestamp the gateway gave the message

Roles == {"user", "assistant", "system", "summary", "invalid"}

ASSUME StoreAssumption ==
    /\ Ids \subseteq Nat \ {0}
    /\ IsFiniteSet(Ids)
    /\ ChatOf \in [Ids -> Chats]
    /\ RoleOf \in [Ids -> Roles]
    /\ TsOf \in [Ids -> Nat]

VARIABLES
    primary,    \* messages_by_id: which consumer wrote the record, if any
    index       \* messages_by_time: the ids that have a time key

storeVars == <<primary, index>>

(***************************************************************************)
(* The two consumers build different records for the same id (the chat     *)
(* consumer stores user_id = None and cleaned text, the user consumer the  *)
(* event as it came), so a record is abstracted to its writer.             *)
(***************************************************************************)
Consumers == {"chat", "user"}
Record == Consumers \cup {"absent"}

StoreTypeOK ==
    /\ primary \in [Ids -> Record]
    /\ index \in SUBSET Ids

StoreInit ==
    /\ primary = [m \in Ids |-> "absent"]
    /\ index = {}

Present(m) == primary[m] # "absent"

\* Ids whose record belongs to chat ch.
RecordsOf(ch) == {m \in Ids : Present(m) /\ ChatOf[m] = ch}

\* Order of the keys "{ts:020}:{id}" in messages_by_time.
KeyLess(m, n) == TsOf[m] < TsOf[n] \/ (TsOf[m] = TsOf[n] /\ m < n)

-----------------------------------------------------------------------------
\* The writes.  The other column family is left to the caller.

PutPrimary(m, c) == primary' = [primary EXCEPT ![m] = c]

PutIndex(m) == index' = index \cup {m}

\* Faulty variant: the batch has the deletes of the time keys only.
WriteKeysOnly(ids, keys) ==
    /\ UNCHANGED primary
    /\ index' = index \ keys

\* One WriteBatch: the deletes in both families take effect together.
WriteBatch(ids, keys) ==
    /\ primary' = [m \in Ids |-> IF m \in ids THEN "absent" ELSE primary[m]]
    /\ index' = index \ keys

-----------------------------------------------------------------------------
\* The queries.

\* The members of the finite set S by the strict order Less.
InOrder(S, Less(_, _)) ==
    CHOOSE s \in [1..Cardinality(S) -> S] :
        \A i, j \in DOMAIN s : i < j => Less(s[i], s[j])

\* load_thread: the time keys in order, each looked up by id.
LoadThread(ch) == InOrder(index \cap RecordsOf(ch), KeyLess)

\* list_chat_ids: the chats of the primary records, indexed or not.
ListChatIds == {ChatOf[m] : m \in {n \in Ids : Present(n)}}
=============================================================================
