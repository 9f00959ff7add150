------------------------------- MODULE Indexer -------------------------------
(***************************************************************************)
(* The indexer of the backend (indexer.rs) with the stores it writes       *)
(* (db.rs, cache.rs, tree.rs) and the start of the process (main.rs).      *)
(*                                                                         *)
(* The chain is the sequence of the pool's transactions; a signature is a  *)
(* position in it.  A tick asks for signatures page by page from the       *)
(* newest back to the last one it remembers, then takes them from the      *)
(* oldest: each transaction is fetched, its events are stored in Postgres, *)
(* a new leaf is added to the tree in Redis.  The tree is the sequence of  *)
(* its leaves; module TreeStore has what add_leaf does inside.             *)
(*                                                                         *)
(* Faults says which calls may fail in a model, MaxFaults how many do.     *)
(***************************************************************************)
EXTENDS Integers, Sequences, FiniteSets, SequencesExt

CONSTANTS
    PAGE_SIZE,    \* config.indexer_page_size
    MAX_PAGES,    \* config.indexer_max_pages
    Nullifiers,   \* nullifier hashes that will be spent
    MaxTxs,       \* bound on the transactions of the pool
    MaxDeposits,  \* bound on the deposits among them
    Faults,       \* calls that may fail
    MaxFaults,    \* bound on failed calls
    MaxCrashes    \* bound on restarts of the backend

AllFaults == {"rpc_down",    \* getSignaturesForAddress: transport error
              "rpc_error",   \* getSignaturesForAddress: no `result` in the answer
              "rpc_lag",     \* it is answered by a node behind the others
              "tx_error",    \* getTransaction, or Postgres, returns an error
              "tx_missing",  \* getTransaction: no `logMessages` in the answer
              "tree",        \* add_leaf returns an error
              "redis_get",   \* get_last_signature fails
              "redis_set"}   \* set_last_signature fails

ASSUME IndexerAssumption ==
    /\ PAGE_SIZE \in Nat \ {0} /\ MAX_PAGES \in Nat \ {0}
    /\ MaxTxs \in Nat /\ MaxDeposits \in Nat
    /\ MaxFaults \in Nat /\ MaxCrashes \in Nat
    /\ Faults \subseteq AllFaults

None == 0    \* no signature

VARIABLES
    chain,           \* the pool's transactions, oldest first
    commitments,     \* rows of the table `commitments`
    nullifiers,      \* rows of the table `nullifiers`
    tree,            \* leaves of the tree in Redis, as signatures
    last_signature,  \* indexer:{pool}:last_signature
    pc,              \* where the process is
    todo,            \* rows startup has still to add to the tree
    last_processed, before, page, all_sigs,   \* locals of tick
    newest_signature,
    faults, crashes,
    lost,            \* history: transactions a failed call or the page limit
                     \* may have made the indexer give up
    behind           \* history: add_leaf failed in the indexer since the start

locals == <<todo, last_processed, before, page, all_sigs, newest_signature>>
db == <<commitments, nullifiers>>
redis == <<tree, last_signature>>
history == <<lost, behind>>
vars == <<chain, db, redis, pc, locals, faults, crashes, history>>

-----------------------------------------------------------------------------
(***************************************************************************)
(* The chain.                                                              *)
(***************************************************************************)

Deposits == {t \in 1 .. Len(chain) : chain[t].kind = "deposit"}
Withdrawals == {t \in 1 .. Len(chain) : chain[t].kind = "withdraw"}

\* A deposit's event carries the next leaf index.
LandDeposit ==
    /\ Len(chain) < MaxTxs
    /\ Cardinality(Deposits) < MaxDeposits
    /\ chain' = Append(chain, [kind |-> "deposit",
                               leaf_index |-> Cardinality(Deposits)])
    /\ UNCHANGED <<db, redis, pc, locals, faults, crashes, history>>

LandWithdraw(n) ==
    /\ Len(chain) < MaxTxs
    /\ \A t \in Withdrawals : chain[t].nullifier_hash # n
    /\ chain' = Append(chain, [kind |-> "withdraw", nullifier_hash |-> n])
    /\ UNCHANGED <<db, redis, pc, locals, faults, crashes, history>>

\* A transaction of the pool without an event: its creation, a failed call.
LandOther ==
    /\ Len(chain) < MaxTxs
    /\ chain' = Append(chain, [kind |-> "other"])
    /\ UNCHANGED <<db, redis, pc, locals, faults, crashes, history>>

-----------------------------------------------------------------------------
(***************************************************************************)
(* Startup (main.rs): the tree gets the rows beyond its size.              *)
(***************************************************************************)

ResetLocals ==
    /\ todo' = << >>
    /\ last_processed' = None
    /\ before' = None
    /\ page' = 0
    /\ all_sigs' = << >>
    /\ newest_signature' = None

Init ==
    /\ chain = << >>
    /\ commitments = {} /\ nullifiers = {}
    /\ tree = << >> /\ last_signature = None
    /\ pc = "starting"
    /\ todo = << >> /\ last_processed = None /\ before = None /\ page = 0
    /\ all_sigs = << >> /\ newest_signature = None
    /\ faults = 0 /\ crashes = 0 /\ lost = {} /\ behind = FALSE

Fault(f) == f \in Faults /\ faults < MaxFaults /\ faults' = faults + 1

GivesUp(transactions) == lost' = lost \cup transactions /\ UNCHANGED behind

\* get_commitments: the rows in the order of their leaf index.
get_commitments ==
    CHOOSE rows \in [1 .. Cardinality(commitments) -> commitments] :
        \A j, k \in DOMAIN rows : j < k => rows[j].leaf_index < rows[k].leaf_index

\* Mutant: the slice starts one row too late.
MissingRows_late == SubSeq(get_commitments, Len(tree) + 2, Cardinality(commitments))

\* db_commitments[current_size..]: a slice by position, not by leaf index.
MissingRows == SubSeq(get_commitments, Len(tree) + 1, Cardinality(commitments))

StartSync ==
    /\ pc = "starting"
    /\ todo' = MissingRows
    /\ pc' = "syncing"
    /\ UNCHANGED <<chain, db, redis, last_processed, before, page, all_sigs,
                   newest_signature, faults, crashes, history>>

\* Mutant: the index of the leaf is not compared with the size.
WithLeaf_any(leaves, row) == Append(leaves, row.tx_signature)

\* add_leaf: only the next leaf is added.
WithLeaf(leaves, row) ==
    IF row.leaf_index = Len(leaves) THEN Append(leaves, row.tx_signature) ELSE leaves

SyncLeaf ==
    /\ pc = "syncing"
    /\ todo # << >>
    /\ tree' = WithLeaf(tree, Head(todo))
    /\ todo' = Tail(todo)
    /\ UNCHANGED <<chain, db, last_signature, pc, last_processed, before, page,
                   all_sigs, newest_signature, faults, crashes, history>>

\* main returns the error, and the process is started again.
SyncFails ==
    /\ pc = "syncing"
    /\ todo # << >>
    /\ Fault("tree")
    /\ pc' = "starting"
    /\ ResetLocals
    /\ UNCHANGED <<chain, db, redis, crashes, history>>

SyncDone ==
    /\ pc = "syncing"
    /\ todo = << >>
    /\ pc' = "idle"
    /\ UNCHANGED <<chain, db, redis, locals, faults, crashes, history>>

-----------------------------------------------------------------------------
(***************************************************************************)
(* tick, first half: collecting signatures.                                *)
(***************************************************************************)

\* An error of get_last_signature reads as no signature.
BeginTick ==
    /\ pc = "idle"
    /\ \/ last_processed' = last_signature /\ UNCHANGED faults
       \/ last_processed' = None /\ Fault("redis_get")
    /\ before' = None
    /\ page' = 0
    /\ all_sigs' = << >>
    /\ newest_signature' = None
    /\ pc' = "paging"
    /\ UNCHANGED <<chain, db, redis, todo, crashes, history>>

\* Mutant: the page starts two below `before`.
Newest_gap(visible) == IF before = None THEN visible ELSE before - 2

\* The newest signature a page may hold: `before` itself is left out.
Newest(visible) == IF before = None THEN visible ELSE before - 1

\* getSignaturesForAddress: up to PAGE_SIZE signatures, newest first.
PageOf(visible) ==
    [k \in 1 .. (IF Newest(visible) < PAGE_SIZE THEN Newest(visible) ELSE PAGE_SIZE)
        |-> Newest(visible) - k + 1]

\* The part of a page before the last processed signature.
Fresh(sigs) ==
    SubSeq(sigs, 1, (CHOOSE k \in DOMAIN sigs : sigs[k] = last_processed) - 1)

\* all_sigs.reverse(), then the loop over it; nothing to do without signatures.
StopPaging(sigs) ==
    /\ all_sigs' = Reverse(sigs)
    /\ pc' = IF sigs = << >> THEN "idle" ELSE "processing"
    /\ UNCHANGED <<before, page>>

\* Mutant: one page more than the limit.
IsLastPage_over == page = MAX_PAGES

IsLastPage == page + 1 = MAX_PAGES

\* History: the paging ends after `sigs`, and what is older is not collected.
Older(sigs) ==
    IF sigs = << >> THEN {} ELSE (last_processed + 1) .. (Last(sigs) - 1)

BeyondLimit(sigs) == IF IsLastPage THEN Older(sigs) ELSE {}

\* One turn of the page loop, over the answer `sigs`.
TakePage(sigs) ==
    LET reached_last == \E k \in DOMAIN sigs : sigs[k] = last_processed
        collected    == all_sigs \o (IF reached_last THEN Fresh(sigs) ELSE sigs)
    IN  IF sigs = << >> \/ reached_last \/ IsLastPage
        THEN StopPaging(collected)
        ELSE /\ all_sigs' = collected
             /\ before' = Last(sigs)
             /\ page' = page + 1
             /\ UNCHANGED pc

FetchPage ==
    /\ pc = "paging"
    /\ TakePage(PageOf(Len(chain)))
    /\ GivesUp(BeyondLimit(PageOf(Len(chain))))
    /\ UNCHANGED <<chain, db, redis, todo, last_processed, newest_signature,
                   faults, crashes>>

\* A node that has not seen the newest transactions answers the first page.
FetchLaggingPage ==
    /\ pc = "paging"
    /\ before = None
    /\ Fault("rpc_lag")
    /\ \E visible \in 0 .. (Len(chain) - 1) :
            TakePage(PageOf(visible)) /\ GivesUp(BeyondLimit(PageOf(visible)))
    /\ UNCHANGED <<chain, db, redis, todo, last_processed, newest_signature, crashes>>

\* An answer without `result` reads as an empty page.
FetchErrorPage ==
    /\ pc = "paging"
    /\ Fault("rpc_error")
    /\ TakePage(<< >>)
    /\ GivesUp(Older(all_sigs))
    /\ UNCHANGED <<chain, db, redis, todo, last_processed, newest_signature, crashes>>

\* `?` on the request: the tick ends with an error, what it collected is lost.
FetchFails ==
    /\ pc = "paging"
    /\ Fault("rpc_down")
    /\ pc' = "idle"
    /\ UNCHANGED <<chain, db, redis, locals, crashes, history>>

-----------------------------------------------------------------------------
(***************************************************************************)
(* tick, second half: process_transaction on each signature.               *)
(***************************************************************************)

Current == Head(all_sigs)

\* process_transaction returned Ok for the current signature.
Processed ==
    /\ newest_signature' = Current
    /\ all_sigs' = Tail(all_sigs)

\* commitment_exists looks at the leaf index alone.
CommitmentExists(leaf_index) == \E r \in commitments : r.leaf_index = leaf_index
NullifierUsed(n) == \E r \in nullifiers : r.nullifier_hash = n

\* Mutant: the row gets the next free number, not the event's leaf index.
RowOf_next(t) == [leaf_index |-> Cardinality(commitments), tx_signature |-> t]

\* The row save_deposit inserts for the deposit of transaction t.
RowOf(t) == [leaf_index |-> chain[t].leaf_index, tx_signature |-> t]

\* Transactions with a row.
Indexed == {r.tx_signature : r \in commitments \cup nullifiers}

Process(t) == pc = "processing" /\ all_sigs # << >> /\ t = Current

\* A deposit not stored yet: save_deposit commits, add_leaf comes next.
SaveDeposit(t) ==
    /\ Process(t)
    /\ chain[t].kind = "deposit"
    /\ ~CommitmentExists(chain[t].leaf_index)
    /\ commitments' = commitments \cup {RowOf(t)}
    /\ pc' = "adding"
    /\ UNCHANGED <<chain, nullifiers, redis, locals, faults, crashes, history>>

\* add_leaf after save_deposit; an error is logged and forgotten.
AddLeaf ==
    /\ pc = "adding"
    /\ \/ tree' = WithLeaf(tree, RowOf(Current)) /\ UNCHANGED <<faults, history>>
       \/ Fault("tree") /\ behind' = TRUE /\ UNCHANGED <<tree, lost>>
    /\ Processed
    /\ pc' = "processing"
    /\ UNCHANGED <<chain, db, last_signature, todo, last_processed, before, page, crashes>>

SaveNullifier(t) ==
    /\ Process(t)
    /\ chain[t].kind = "withdraw"
    /\ ~NullifierUsed(chain[t].nullifier_hash)
    /\ nullifiers' = nullifiers \cup
            {[nullifier_hash |-> chain[t].nullifier_hash, tx_signature |-> t]}
    /\ Processed
    /\ UNCHANGED <<chain, commitments, redis, pc, todo, last_processed, before, page,
                   faults, crashes, history>>

\* Nothing to store: no event, or one stored before.
SkipTransaction(t) ==
    /\ Process(t)
    /\ chain[t].kind = "deposit" => CommitmentExists(chain[t].leaf_index)
    /\ chain[t].kind = "withdraw" => NullifierUsed(chain[t].nullifier_hash)
    /\ Processed
    /\ UNCHANGED <<chain, db, redis, pc, todo, last_processed, before, page,
                   faults, crashes, history>>

\* An answer without logs counts as processed.
MissTransaction(t) ==
    /\ Process(t)
    /\ Fault("tx_missing")
    /\ GivesUp({t} \ Indexed)
    /\ Processed
    /\ UNCHANGED <<chain, db, redis, pc, todo, last_processed, before, page, crashes>>

\* An error is logged and the loop continues with the next signature.
FailTransaction(t) ==
    /\ Process(t)
    /\ Fault("tx_error")
    /\ GivesUp({t} \ Indexed)
    /\ all_sigs' = Tail(all_sigs)
    /\ UNCHANGED <<chain, db, redis, pc, todo, last_processed, before, page,
                   newest_signature, crashes>>

\* The signature processed last is remembered, or the write fails unnoticed.
EndTick ==
    /\ pc = "processing"
    /\ all_sigs = << >>
    /\ \/ /\ last_signature' = IF newest_signature = None THEN last_signature
                                                          ELSE newest_signature
          /\ UNCHANGED faults
       \/ Fault("redis_set") /\ UNCHANGED last_signature
    /\ pc' = "idle"
    /\ UNCHANGED <<chain, db, tree, locals, crashes, history>>

-----------------------------------------------------------------------------
\* The process stops anywhere and is started again; both stores stay.
Crash ==
    /\ crashes < MaxCrashes
    /\ crashes' = crashes + 1
    /\ pc' = "starting"
    /\ ResetLocals
    /\ behind' = FALSE /\ UNCHANGED lost
    /\ UNCHANGED <<chain, db, redis, faults>>

Land == LandDeposit \/ (\E n \in Nullifiers : LandWithdraw(n)) \/ LandOther

Paging == FetchPage \/ FetchLaggingPage \/ FetchErrorPage \/ FetchFails

Processing ==
    \E t \in 1 .. Len(chain) :
        \/ SaveDeposit(t) \/ SaveNullifier(t) \/ SkipTransaction(t)
        \/ MissTransaction(t) \/ FailTransaction(t)

Run ==
    \/ StartSync \/ SyncLeaf \/ SyncFails \/ SyncDone
    \/ BeginTick \/ Paging \/ Processing \/ AddLeaf \/ EndTick

Next == Land \/ Run \/ Crash

\* The process is started again after a crash and its loop never ends; nobody
\* has to send transactions, and nothing has to fail.
Spec == Init /\ [][Next]_vars /\ WF_vars(Run)

-----------------------------------------------------------------------------
(***************************************************************************)
(* Properties.                                                             *)
(***************************************************************************)

Signatures == 1 .. MaxTxs
LeafIndices == 0 .. MaxDeposits - 1
Rows == [leaf_index : LeafIndices, tx_signature : Signatures]

\* Every variable has its type.
TypeOK ==
    /\ Len(chain) <= MaxTxs
    /\ commitments \subseteq Rows
    /\ nullifiers \subseteq [nullifier_hash : Nullifiers, tx_signature : Signatures]
    /\ tree \in Seq(Signatures)
    /\ last_signature \in Signatures \cup {None}
    /\ pc \in {"starting", "syncing", "idle", "paging", "processing", "adding"}
    /\ todo \in Seq(Rows)
    /\ last_processed \in Signatures \cup {None}
    /\ before \in Signatures \cup {None}
    /\ page \in 0 .. MAX_PAGES - 1
    /\ all_sigs \in Seq(Signatures)
    /\ newest_signature \in Signatures \cup {None}
    /\ faults \in 0 .. MaxFaults /\ crashes \in 0 .. MaxCrashes
    /\ lost \subseteq Signatures /\ behind \in BOOLEAN

\* Postgres says nothing the chain does not: a leaf is at the index its event
\* gave it, also when an earlier one is missing, and a nullifier is one that
\* was spent.  Each transaction has one row however often it is indexed
\* (indexer.rs:222-290, db.rs:46-137).
DbFaithful ==
    /\ \A r \in commitments :
            r.tx_signature \in Deposits /\ r = RowOf(r.tx_signature)
    /\ \A r \in nullifiers :
            /\ r.tx_signature \in Withdrawals
            /\ r.nullifier_hash = chain[r.tx_signature].nullifier_hash

\* Leaf k of the tree is deposit k of the chain, and Postgres has it: through
\* gaps in Postgres, failed calls and restarts the tree is a prefix of the
\* chain's (tree.rs:116-123, main.rs:309-330).
TreeIsPrefix ==
    \A k \in 1 .. Len(tree) :
        /\ tree[k] \in Deposits
        /\ chain[tree[k]].leaf_index = k - 1
        /\ RowOf(tree[k]) \in commitments

\* What is stored for a transaction with an event.
Stored(t) ==
    /\ t \in Deposits => RowOf(t) \in commitments
    /\ t \in Withdrawals => NullifierUsed(chain[t].nullifier_hash)

\* What the indexer takes for done is stored: each event up to the signature it
\* remembers, but for those a failed call or the page limit made it give up
\* (indexer.rs:94-100, 159-164).
NothingSkipped ==
    \A t \in 1 .. last_signature : Stored(t) \/ t \in lost

\* The stores are a mirror of the chain (module Mirror): a step stores one event
\* of the chain or adds the next leaf, and nothing is taken back.
Mirror == INSTANCE Mirror WITH stored <- Indexed, leaves <- Len(tree)

MirrorSpec == Mirror!Spec

\* The tree can follow the chain up to t: no deposit before is missing, and
\* add_leaf has not failed since the start.
LeafFollows(t) == ~behind /\ \A u \in Deposits : u <= t => u \notin lost

\* Every event of the chain but those given up is stored in the end, through any
\* restart, and a deposit's leaf is in the tree unless an earlier deposit was
\* given up or its add_leaf failed (indexer.rs:94-170, main.rs:309-330).
EventuallyMirrored ==
    \A t \in Signatures :
        t <= Len(chain) ~> /\ Stored(t) \/ t \in lost
                           /\ t \in Deposits /\ LeafFollows(t) => t \in ToSet(tree)
=============================================================================
