-------------------------------- MODULE Pool --------------------------------
(***************************************************************************)
(* The on-chain program of the private pool (programs/ptrans).  Solana     *)
(* runs an instruction atomically: when a constraint, a require! or a CPI  *)
(* fails, nothing the instruction wrote survives, so an instruction is one *)
(* action whose guard is the conjunction of its checks.                    *)
(*                                                                         *)
(* Roots, commitments and nullifier hashes are 32-byte strings the program *)
(* only compares: they are members of constant sets.  The program does not *)
(* compute the Merkle tree; new_root is whatever the depositor sends.      *)
(***************************************************************************)
EXTENDS Integers, Sequences, FiniteSets

CONSTANTS
    Pubkeys,             \* accounts: authorities and recipients
    Commitments,         \* what a depositor may send as `commitment`
    Roots,               \* what a caller may send as `new_root` and `root`
    EMPTY_ROOT,          \* the 32 zero bytes that fill the ring at first
    NullifierHashes,     \* what a caller may send as `nullifier_hash`
    Amounts,             \* lamports a caller may name
    MIN_DEPOSIT_AMOUNT,
    MAX_LEAVES,
    ROOT_HISTORY_SIZE,
    ReducedKey,          \* reduce_to_field, as a function on Pubkeys
    Provable,            \* public inputs for which the verifier accepts a proof
    NoPool               \* the pool account before it is created

ASSUME RingAssumption ==
    /\ ROOT_HISTORY_SIZE \in Nat \ {0}
    /\ MAX_LEAVES \in Nat
    /\ EMPTY_ROOT \in Roots

ASSUME AmountAssumption ==
    /\ MIN_DEPOSIT_AMOUNT \in Nat
    /\ Amounts \subseteq Nat

VARIABLES
    pool,               \* PoolAcc, or NoPool
    vault,              \* lamports of the vault PDA
    nullifier_records,  \* the NullifierRecord PDAs that exist
    deposits,           \* DepositEvents emitted so far, in ledger order
    withdrawals         \* WithdrawEvents emitted so far, in ledger order, each
                        \* with the root its instruction named

vars == <<pool, vault, nullifier_records, deposits, withdrawals>>

-----------------------------------------------------------------------------

RootSlots == 0 .. (ROOT_HISTORY_SIZE - 1)

PoolAcc ==
    [authority          : Pubkeys,
     next_leaf_index    : 0 .. MAX_LEAVES,
     total_deposits     : Nat,
     current_root_index : RootSlots,
     roots              : [RootSlots -> Roots]]

NullifierRecord ==
    [nullifier_hash : NullifierHashes, recipient : Pubkeys, amount : Nat]

DepositEvent ==
    [commitment : Commitments, leaf_index : Nat, new_root : Roots]

WithdrawEvent ==
    [nullifier_hash : NullifierHashes, recipient : Pubkeys, root : Roots]

ASSUME NoPoolAssumption == NoPool \notin PoolAcc

\* Mutant: the empty root is always accepted.
is_known_root_empty(p, root) ==
    root = EMPTY_ROOT \/ \E k \in RootSlots : p.roots[k] = root

\* PoolAcc::is_known_root: any slot of the ring holds the root.
is_known_root(p, root) == \E k \in RootSlots : p.roots[k] = root

\* Mutant: the ring wraps one slot early.
add_root_short(p, new_root) ==
    LET index == (p.current_root_index + 1) % (ROOT_HISTORY_SIZE - 1)
    IN  [p EXCEPT !.current_root_index = index,
                  !.roots = [@ EXCEPT ![index] = new_root]]

\* PoolAcc::add_root: the next slot of the ring takes the root.
add_root(p, new_root) ==
    LET index == (p.current_root_index + 1) % ROOT_HISTORY_SIZE
    IN  [p EXCEPT !.current_root_index = index,
                  !.roots = [@ EXCEPT ![index] = new_root]]

\* The four public inputs; a recipient enters as a field element.
encode_public_inputs(root, nullifier_hash, recipient, amount) ==
    <<root, nullifier_hash, ReducedKey[recipient], amount>>

-----------------------------------------------------------------------------

Init ==
    /\ pool = NoPool
    /\ vault = 0
    /\ nullifier_records = {}
    /\ deposits = << >>
    /\ withdrawals = << >>

\* `init` on the pool PDA: the instruction fails once the account exists.
InitPool(authority) ==
    /\ pool = NoPool
    /\ pool' = [authority          |-> authority,
                next_leaf_index    |-> 0,
                total_deposits     |-> 0,
                current_root_index |-> 0,
                roots              |-> [k \in RootSlots |-> EMPTY_ROOT]]
    /\ UNCHANGED <<vault, nullifier_records, deposits, withdrawals>>

\* Mutant: a full tree takes one more leaf.
TreeHasRoom_late(p) == p.next_leaf_index <= MAX_LEAVES

TreeHasRoom(p) == p.next_leaf_index < MAX_LEAVES

\* Mutant: the leaf index is read after the counter moved.
NewDeposit_late(p, commitment, new_root) ==
    [commitment |-> commitment,
     leaf_index |-> p.next_leaf_index + 1,
     new_root   |-> new_root]

\* The event carries the leaf index read before the counter moves.
NewDeposit(p, commitment, new_root) ==
    [commitment |-> commitment,
     leaf_index |-> p.next_leaf_index,
     new_root   |-> new_root]

Deposit(commitment, new_root, amount) ==
    /\ pool # NoPool
    /\ TreeHasRoom(pool)                                     \* TreeFull
    /\ amount >= MIN_DEPOSIT_AMOUNT                          \* DepositTooSmall
    /\ new_root # pool.roots[pool.current_root_index]        \* InvalidRoot
    /\ vault' = vault + amount
    /\ pool' = add_root([pool EXCEPT !.next_leaf_index = @ + 1,
                                     !.total_deposits  = @ + 1],
                        new_root)
    /\ deposits' = Append(deposits, NewDeposit(pool, commitment, new_root))
    /\ UNCHANGED <<nullifier_records, withdrawals>>

\* Mutant: an existing record is reused, as init_if_needed would.
NullifierUnused_never(nullifier_hash) == TRUE

\* The `init` of the nullifier record PDA runs before the handler.
NullifierUnused(nullifier_hash) ==
    \A r \in nullifier_records : r.nullifier_hash # nullifier_hash

\* `recipient` is the account passed, `to` the instruction's argument.
Withdraw(nullifier_hash, root, to, recipient, amount) ==
    /\ pool # NoPool
    /\ NullifierUnused(nullifier_hash)
    /\ recipient = to                                        \* RecipientMismatch
    /\ vault >= amount                            \* InsufficientVaultBalance
    /\ is_known_root(pool, root)                             \* InvalidRoot
    /\ encode_public_inputs(root, nullifier_hash, to, amount)
            \in Provable                                     \* InvalidProof
    /\ nullifier_records' = nullifier_records \cup
            {[nullifier_hash |-> nullifier_hash,
              recipient      |-> to,
              amount         |-> amount]}
    /\ vault' = vault - amount
    /\ withdrawals' = Append(withdrawals, [nullifier_hash |-> nullifier_hash,
                                           recipient      |-> recipient,
                                           root           |-> root])
    /\ UNCHANGED <<pool, deposits>>

Next ==
    \/ \E authority \in Pubkeys : InitPool(authority)
    \/ \E commitment \in Commitments, new_root \in Roots, amount \in Amounts :
            Deposit(commitment, new_root, amount)
    \/ \E nullifier_hash \in NullifierHashes, root \in Roots,
          to, recipient \in Pubkeys, amount \in Amounts :
            Withdraw(nullifier_hash, root, to, recipient, amount)

Spec == Init /\ [][Next]_vars

-----------------------------------------------------------------------------
(***************************************************************************)
(* Properties.                                                             *)
(***************************************************************************)

\* The type invariant of the accounts and of the event log.
TypeOK ==
    /\ pool \in PoolAcc \cup {NoPool}
    /\ vault \in Nat
    /\ nullifier_records \in SUBSET NullifierRecord
    /\ deposits \in Seq(DepositEvent)
    /\ withdrawals \in Seq(WithdrawEvent)

\* The i-th root ever current in a log of deposits, which count from 1; before
\* the first one every root is EMPTY_ROOT.
RootAt(log, i) ==
    IF i \in 1 .. Len(log) THEN log[i].new_root ELSE EMPTY_ROOT

\* The roots that were current during the last ROOT_HISTORY_SIZE - 1 deposits
\* and the one current now.
RecentRoots == {RootAt(deposits, Len(deposits) - j) : j \in RootSlots}

\* The ring buffer keeps exactly the last ROOT_HISTORY_SIZE roots: a proof made
\* against a root is refused from the ROOT_HISTORY_SIZE-th later deposit on, and
\* not before, and the slot deposits compare with is the latest root
\* (state.rs: is_known_root, add_root; deposit.rs:31-33).
RootWindow ==
    pool # NoPool =>
        /\ \A root \in Roots : is_known_root(pool, root) <=> root \in RecentRoots
        /\ pool.roots[pool.current_root_index] = RootAt(deposits, Len(deposits))

\* Events carry the leaves' positions without gap or repetition, in ledger
\* order, and the account's counters agree with the log an indexer rebuilds the
\* tree from (deposit.rs:45-56).
LeavesDense ==
    /\ \A i \in 1 .. Len(deposits) : deposits[i].leaf_index = i - 1
    /\ pool # NoPool =>
        /\ pool.next_leaf_index = Len(deposits)
        /\ pool.total_deposits = Len(deposits)
    /\ pool = NoPool => deposits = << >>

\* A nullifier hash is paid out at most once in the whole history, whatever
\* root, recipient or amount the withdrawals name, and the records and the log
\* tell the same story (withdraw.rs:13-20, 77-105).
SpentOnce ==
    /\ \A i, j \in 1 .. Len(withdrawals) :
          withdrawals[i].nullifier_hash = withdrawals[j].nullifier_hash => i = j
    /\ {r.nullifier_hash : r \in nullifier_records}
          = {withdrawals[i].nullifier_hash : i \in 1 .. Len(withdrawals)}
    /\ \A r, s \in nullifier_records : r.nullifier_hash = s.nullifier_hash => r = s

\* The abstract ledger this program implements: the sequence of roots and the
\* set of spent nullifiers, with no ring buffer and no records.
Ledger == INSTANCE Ledger WITH
    created <- pool # NoPool,
    history <- [i \in 1 .. Len(deposits) |-> deposits[i].new_root],
    spent   <- {[nullifier_hash |-> withdrawals[i].nullifier_hash,
                 root           |-> withdrawals[i].root]
                    : i \in 1 .. Len(withdrawals)}

\* The program implements the ledger: a withdrawal is accepted only for a root
\* in the window and an unspent nullifier, and no step un-spends a nullifier or
\* rewrites the history.
LedgerSpec == Ledger!Spec
=============================================================================
