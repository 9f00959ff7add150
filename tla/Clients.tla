------------------------------ MODULE Clients ------------------------------
(***************************************************************************)
(* Depositors and withdrawers end to end: browser tabs running useDeposit  *)
(* and useWithdraw, the notes they keep in localStorage, the transactions  *)
(* under way, the pool program (an instance of module Pool) and how far    *)
(* the backend's mirror of it is.                                          *)
(*                                                                         *)
(* Hashing is perfect: a commitment is what it hashes, the note's secrets  *)
(* and the amount, and the root of a tree is the sequence of its leaves.   *)
(* The backend has the first `indexed` commitments, in its table and in    *)
(* its tree (modules Indexer, TreeStore); what it answers may be older,    *)
(* since the list is cached (module ReadApi) and requests overlap.       *)
(* Recipients are keys both sides reduce alike (module FieldReduce).       *)
(***************************************************************************)
EXTENDS Integers, Sequences, SequencesExt, FiniteSetsExt

CONSTANTS
    Tabs, Browsers,
    BrowserOf,          \* the browser of a tab
    Notes,              \* pairs of secrets; a note is also its nullifier hash
    DepositAmounts,     \* lamports a depositor may choose
    FormAmount,         \* the amount WithdrawForm.vue passes on
    MIN_DEPOSIT,        \* VITE_MIN_DEPOSIT, not below the program's minimum
    MAX_LEAVES, ROOT_HISTORY_SIZE,
    EMPTY_ROOT, NoPool, \* as in Pool
    Recipient,          \* an account
    MaxSent,            \* bound on transactions sent
    MaxLosses,          \* bound on confirmations that do not arrive
    MaxReloads          \* bound on pages reloaded

ASSUME ClientAssumption ==
    /\ BrowserOf \in [Tabs -> Browsers]
    /\ DepositAmounts \subseteq Nat /\ FormAmount \in Nat /\ MIN_DEPOSIT \in Nat
    /\ MAX_LEAVES \in Nat /\ ROOT_HISTORY_SIZE \in Nat \ {0}
    /\ MaxSent \in Nat /\ MaxLosses \in Nat /\ MaxReloads \in Nat

VARIABLES
    pool, vault, nullifier_records, deposits, withdrawals,   \* the program's
    indexed,    \* deposits the backend has
    network,    \* transactions sent and not yet executed or dropped
    landed,     \* signatures of the transactions executed
    sent,       \* signatures given out
    storage,    \* localStorage of each browser: its notes
    notes,      \* the deposits store of each tab: its copy of the notes
    call,       \* the transaction each tab waits for, or NoCall
    losses, reloads

chain == <<pool, vault, nullifier_records, deposits, withdrawals>>
mirror == indexed
wire == <<network, landed, sent>>
browser == <<storage, notes, call>>
vars == <<chain, mirror, wire, browser, losses, reloads>>

-----------------------------------------------------------------------------
(***************************************************************************)
(* The circuit, and the program it is verified in.                         *)
(***************************************************************************)

\* commitment = hash_3(nullifier, secret, amount)
Commitment(note, amount) == [note |-> note, amount |-> amount]

Commitments == {Commitment(note, amount) : note \in Notes, amount \in DepositAmounts}

\* The trees a client may compute: no commitment is in one twice.
Roots == {EMPTY_ROOT} \cup
    UNION {{s \in [1 .. n -> Commitments] : \A i, j \in 1 .. n :
                s[i].note = s[j].note => i = j} : n \in 0 .. MAX_LEAVES}

\* main of the circuit: some leaf under the root is the commitment to the
\* nullifier, the secret and the amount.  The recipient is bound, not checked.
Provable == {<<root, note, Recipient, amount>> :
                root \in Roots \ {EMPTY_ROOT}, note \in Notes,
                amount \in DepositAmounts \cup {FormAmount}}

Proved(input) == Commitment(input[2], input[4]) \in ToSet(input[1])

Program == INSTANCE Pool WITH
    Pubkeys            <- {Recipient},
    NullifierHashes    <- Notes,
    Amounts            <- DepositAmounts \cup {FormAmount},
    MIN_DEPOSIT_AMOUNT <- MIN_DEPOSIT,
    ReducedKey         <- [k \in {Recipient} |-> k],
    Provable           <- {input \in Provable : Proved(input)}

ASSUME NoPoolAssumption == NoPool \notin Program!PoolAcc

NoCall == [kind |-> "none"]

Init ==
    /\ Program!Init
    /\ indexed = 0
    /\ network = {} /\ landed = {} /\ sent = 0
    /\ storage = [b \in Browsers |-> {}]
    /\ notes = [t \in Tabs |-> {}]
    /\ call = [t \in Tabs |-> NoCall]
    /\ losses = 0 /\ reloads = 0

-----------------------------------------------------------------------------
(***************************************************************************)
(* The backend.                                                            *)
(***************************************************************************)

Leaves == [i \in 1 .. Len(deposits) |-> deposits[i].commitment]

\* The backend's answers: the first n commitments, from the table or the tree.
FirstLeaves(n) == SubSeq(Leaves, 1, n)

Index ==
    /\ indexed < Len(deposits)
    /\ indexed' = indexed + 1
    /\ UNCHANGED <<chain, wire, browser, losses, reloads>>

-----------------------------------------------------------------------------
(***************************************************************************)
(* The deposits store and localStorage.                                    *)
(***************************************************************************)

\* Mutant: the tab writes its own copy back instead of reading storage again.
SavedNotes_copy(t, note) == notes[t] \cup {note}

\* saveDepositNote: what storage has now, and the new note.
SavedNotes(t, note) == storage[BrowserOf[t]] \cup {note}

MarkUsed(saved, nullifier) ==
    {IF n.note = nullifier THEN [n EXCEPT !.used = TRUE] ELSE n : n \in saved}

\* getNoteByNullifier: from the tab's copy.
HasNote(t, note) == \E n \in notes[t] : n.note = note /\ ~n.used

\* The page is loaded again: a call under way is gone, the copy is fresh.
Reload(t) ==
    /\ reloads < MaxReloads
    /\ reloads' = reloads + 1
    /\ call' = [call EXCEPT ![t] = NoCall]
    /\ notes' = [notes EXCEPT ![t] = storage[BrowserOf[t]]]
    /\ UNCHANGED <<chain, mirror, wire, storage, losses>>

-----------------------------------------------------------------------------
(***************************************************************************)
(* Sending a transaction and waiting for it.                               *)
(***************************************************************************)

Send(t, tx) ==
    /\ sent < MaxSent
    /\ sent' = sent + 1
    /\ network' = network \cup {tx}
    /\ call' = [call EXCEPT ![t] = tx]
    /\ UNCHANGED <<chain, mirror, landed, storage, notes, losses, reloads>>

\* The transaction is executed, in any order with the others.
Land(tx) ==
    /\ tx \in network
    /\ CASE tx.kind = "deposit" ->
                Program!Deposit(Commitment(tx.note, tx.amount), tx.root, tx.amount)
         [] tx.kind = "withdraw" ->
                Program!Withdraw(tx.note, tx.root, Recipient, Recipient, tx.amount)
    /\ network' = network \ {tx}
    /\ landed' = landed \cup {tx.signature}
    /\ UNCHANGED <<mirror, sent, browser, losses, reloads>>

\* It fails on chain, or its blockhash expires: nothing of it stays.
Drop(tx) ==
    /\ tx \in network
    /\ network' = network \ {tx}
    /\ UNCHANGED <<chain, mirror, landed, sent, browser, losses, reloads>>

\* Mutant: confirmation.value.err is not looked at.
Executed_ended(tx) == tx \notin network

\* confirmation.value.err is null
Executed(tx) == tx.signature \in landed

\* confirmTransaction or a later request throws: the transaction failed, or
\* nobody can say; either way the call forgets it.
Throw(t) ==
    /\ call[t] # NoCall
    /\ IF call[t] \in network \/ Executed(call[t])
       THEN losses < MaxLosses /\ losses' = losses + 1
       ELSE UNCHANGED losses
    /\ call' = [call EXCEPT ![t] = NoCall]
    /\ UNCHANGED <<chain, mirror, wire, storage, notes, reloads>>

Confirmed(t, kind) ==
    /\ call[t] # NoCall
    /\ call[t].kind = kind
    /\ Executed(call[t])
    /\ call' = [call EXCEPT ![t] = NoCall]
    /\ UNCHANGED <<chain, mirror, wire, losses, reloads>>

-----------------------------------------------------------------------------
(***************************************************************************)
(* useDeposit.                                                             *)
(***************************************************************************)

InitializePool ==
    /\ Program!InitPool(Recipient)
    /\ UNCHANGED <<mirror, wire, browser, losses, reloads>>

\* generateSecrets: secrets nobody has had.
Fresh(note) ==
    /\ \A i \in DOMAIN Leaves : Leaves[i].note # note
    /\ \A t \in Tabs : call[t] # NoCall => call[t].note # note
    /\ \A tx \in network : tx.note # note

\* Mutant: the new commitment is listed already, and put again.
NewRoot_twice(existing, commitment) == existing \o <<commitment, commitment>>

\* The merkle service's root over the listed commitments and the new one;
\* buildTree leaves out what does not fit.
NewRoot(existing, commitment) ==
    IF Len(existing) < MAX_LEAVES THEN Append(existing, commitment) ELSE existing

\* deposit, up to confirmTransaction: the list is read here, the transaction is
\* executed whenever the network does.
SendDeposit(t, note, amount, listed) ==
    /\ call[t] = NoCall
    /\ pool # NoPool
    /\ amount >= MIN_DEPOSIT
    /\ Fresh(note)
    /\ listed \in 0 .. indexed
    /\ Send(t, [kind   |-> "deposit",
                note |-> note,
                amount |-> amount,
                root |-> NewRoot(FirstLeaves(listed), Commitment(note, amount)),
                signature |-> sent + 1])

\* The note is stored only now.
ConfirmDeposit(t) ==
    /\ Confirmed(t, "deposit")
    /\ LET note == [note |-> call[t].note, amount |-> call[t].amount, used |-> FALSE]
       IN  /\ storage' = [storage EXCEPT ![BrowserOf[t]] = SavedNotes(t, note)]
           /\ notes' = [notes EXCEPT ![t] = @ \cup {note}]

-----------------------------------------------------------------------------
(***************************************************************************)
(* useWithdraw.                                                            *)
(***************************************************************************)

\* The witness for leaf i exists only if the amount of the form is the one
\* committed to: the circuit hashes it with the secrets.
Proves(note, i) == Commitment(note, FormAmount) = Leaves[i]

\* withdraw, up to confirmTransaction.  The list and the proof are two answers
\* of the backend, of different age.
SendWithdraw(t, note, listed, leaves) ==
    /\ call[t] = NoCall
    /\ HasNote(t, note)
    /\ listed \in 0 .. indexed /\ leaves \in 0 .. indexed
    /\ \E i \in 1 .. listed :
            /\ Leaves[i].note = note
            /\ i <= leaves
            /\ Proves(note, i)
    /\ Send(t, [kind   |-> "withdraw",
                note |-> note,
                amount |-> FormAmount,
                root |-> FirstLeaves(leaves),
                signature |-> sent + 1])

ConfirmWithdraw(t) ==
    /\ Confirmed(t, "withdraw")
    /\ storage' = [storage EXCEPT ![BrowserOf[t]] = MarkUsed(@, call[t].note)]
    /\ notes' = [notes EXCEPT ![t] = MarkUsed(@, call[t].note)]

-----------------------------------------------------------------------------
Next ==
    \/ InitializePool
    \/ Index
    \/ \E tx \in network : Land(tx) \/ Drop(tx)
    \/ \E t \in Tabs :
        \/ \E note \in Notes, amount \in DepositAmounts, listed \in 0 .. indexed :
                SendDeposit(t, note, amount, listed)
        \/ \E note \in Notes, listed, leaves \in 0 .. indexed :
                SendWithdraw(t, note, listed, leaves)
        \/ ConfirmDeposit(t) \/ ConfirmWithdraw(t) \/ Throw(t) \/ Reload(t)

Spec == Init /\ [][Next]_vars
-----------------------------------------------------------------------------
(***************************************************************************)
(* Properties.                                                             *)
(***************************************************************************)

Transactions ==
    [kind : {"deposit", "withdraw"}, note : Notes,
     amount : DepositAmounts \cup {FormAmount}, root : Roots,
     signature : 1 .. MaxSent]

SavedNoteType == [note : Notes, amount : DepositAmounts, used : BOOLEAN]

\* The type of the state outside the program.
TypeOK ==
    /\ indexed \in 0 .. Len(deposits)
    /\ network \subseteq Transactions
    /\ sent \in 0 .. MaxSent /\ landed \subseteq 1 .. sent
    /\ storage \in [Browsers -> SUBSET SavedNoteType]
    /\ notes \in [Tabs -> SUBSET SavedNoteType]
    /\ call \in [Tabs -> Transactions \cup {NoCall}]
    /\ losses \in 0 .. MaxLosses /\ reloads \in 0 .. MaxReloads

Spent == {r.nullifier_hash : r \in nullifier_records}

Unspent == {i \in DOMAIN Leaves : Leaves[i].note \notin Spent}

\* The vault holds exactly the deposits nobody has withdrawn, and what was paid
\* for a note is what was deposited with it: whatever tabs retry, time out or
\* race with the same note (deposit.rs:35-47, withdraw.rs:12-20, 55-99).
Solvent ==
    /\ vault = SumFunctionOnSet([i \in DOMAIN Leaves |-> Leaves[i].amount], Unspent)
    /\ \A r \in nullifier_records :
            Commitment(r.nullifier_hash, r.amount) \in ToSet(Leaves)

\* A note is marked used only if it was paid out: no lost, failed or repeated
\* withdrawal makes a browser give up a note that still has its money
\* (useWithdraw.ts:224-246).
UsedIsSpent ==
    \A b \in Browsers : \A n \in storage[b] : n.used => n.note \in Spent

\* Notes are never taken out of localStorage nor made unused again, also when
\* two tabs of a browser with different copies write in turn
\* (storage.ts:32-37, 58-83).
NotesKept ==
    [][\A b \in Browsers : \A n \in storage[b] :
            \E m \in storage'[b] : m.note = n.note /\ (n.used => m.used)]_vars

\* No two depositors have raced: each deposit's root is that of its tree.
Chained == \A i \in DOMAIN deposits : deposits[i].new_root = FirstLeaves(i)

\* As long as every deposit posted the right root, a withdrawal under way is
\* accepted if its note is unspent and fewer deposits than the ring has slots
\* came after the tree it was proved against (withdraw.rs:51-75,
\* threat-model.md:200-216).
WithdrawalsAccepted ==
    Chained =>
        \A tx \in network :
            tx.kind = "withdraw" /\ tx.note \notin Spent
                /\ Len(deposits) - Len(tx.root) < ROOT_HISTORY_SIZE
            => /\ vault >= tx.amount
               /\ Program!is_known_root(pool, tx.root)

\* "The commitment becomes a leaf in the tree" (README.md:56): the root a
\* deposit posts is that of the tree with every deposit before it.
RootIsTree ==
    deposits # << >> => pool.roots[pool.current_root_index] = Leaves

\* Deposits whose note neither a tab nor a browser has any more.
NotesLost ==
    {i \in DOMAIN Leaves :
        /\ \A t \in Tabs : call[t] # NoCall => call[t].note # Leaves[i].note
        /\ \A b \in Browsers : \A n \in storage[b] : n.note # Leaves[i].note}

\* "Stores the deposit note in localStorage" (README.md:57), which the code does
\* only after the confirmation: each confirmation that does not arrive, and each
\* reload, costs at most the one note of its call, and nothing else costs any
\* (useDeposit.ts:141-160, storage.ts:30-35).
OneNotePerLoss == Cardinality(NotesLost) <= losses + reloads
=============================================================================
