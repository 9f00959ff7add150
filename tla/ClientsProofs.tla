---------------------------- MODULE ClientsProofs ----------------------------
(***************************************************************************)
(* Theorems about depositors and withdrawers, for any number of tabs,      *)
(* browsers, notes and transactions, any ring and any tree: what they      *)
(* lose, what they are paid, and that the vault stays exactly solvent.     *)
(*                                                                         *)
(* The program's part of the state is that of PoolProofs: PP instantiates  *)
(* it as Clients instantiates Pool, and its lemmas are used here.          *)
(***************************************************************************)
EXTENDS Clients, Sums, FunctionTheorems, SequenceTheorems, TLAPS

PP == INSTANCE PoolProofs WITH
    Pubkeys            <- {Recipient},
    NullifierHashes    <- Notes,
    Amounts            <- DepositAmounts \cup {FormAmount},
    MIN_DEPOSIT_AMOUNT <- MIN_DEPOSIT,
    ReducedKey         <- [k \in {Recipient} |-> k],
    Provable           <- {input \in Provable : Proved(input)}

ProgramInv == PP!IInv

\* The notes of the leaves, and those of the deposits in the network.
LeafNotes == {Leaves[i].note : i \in DOMAIN Leaves}
DepositNotes == {tx.note : tx \in {ty \in network : ty.kind = "deposit"}}

\* Each leaf, and each deposit in the network, has a note of its own.
NotesDiffer ==
    /\ \A i, j \in DOMAIN Leaves : Leaves[i].note = Leaves[j].note => i = j
    /\ \A tx, ty \in network :
            tx.kind = "deposit" /\ ty.kind = "deposit" /\ tx.note = ty.note => tx = ty
    /\ LeafNotes \cap DepositNotes = {}

\* A deposit in the network pays an amount a depositor may choose.  A withdrawal
\* names the root of an earlier tree, which has its commitment.
NetworkInv ==
    \A tx \in network :
        /\ tx.kind = "deposit" => tx.amount \in DepositAmounts
        /\ tx.kind = "withdraw" =>
            /\ \E n \in 1 .. Len(deposits) : tx.root = FirstLeaves(n)
            /\ Commitment(tx.note, tx.amount) \in ToSet(tx.root)

\* A signature is one transaction's, and is landed when that has left the network.
SignaturesInv ==
    /\ \A tx \in network : tx.signature <= sent /\ tx.signature \notin landed
    /\ \A tx, ty \in network : tx.signature = ty.signature => tx = ty
    /\ \A t \in Tabs : call[t] # NoCall =>
        /\ call[t].signature <= sent
        /\ \A tx \in network : tx.signature = call[t].signature => tx = call[t]

\* What a tab knows of the transaction it waits for.  A deposit whose note is a
\* leaf was executed, and no other transaction deposits the note; an executed
\* withdrawal spent its note, and the note is in the browser.
CallsInv ==
    \A t \in Tabs :
        /\ call[t].kind = "deposit" =>
            /\ call[t].amount \in DepositAmounts
            /\ call[t].note \in LeafNotes => Executed(call[t])
            /\ \A tx \in network :
                tx.kind = "deposit" /\ tx.note = call[t].note => tx = call[t]
        /\ call[t].kind = "withdraw" =>
            /\ Executed(call[t]) => call[t].note \in Spent
            /\ \E n \in storage[BrowserOf[t]] : n.note = call[t].note

\* A tab has no note that its browser lacks.
CopiesInv ==
    \A t \in Tabs : \A n \in notes[t] :
        \E m \in storage[BrowserOf[t]] : m.note = n.note

\* The notes of deposits made or under way that neither a tab nor a browser has.
\* NotesLost alone is not inductive: a note nobody has any more is lost only
\* when its transaction lands.
Forgotten ==
    {n \in LeafNotes \cup DepositNotes :
        /\ \A t \in Tabs : call[t] # NoCall => call[t].note # n
        /\ \A b \in Browsers : \A m \in storage[b] : m.note # n}

ForgottenInv ==
    /\ IsFiniteSet(Forgotten)
    /\ Cardinality(Forgotten) <= losses + reloads

IInv ==
    /\ ProgramInv
    /\ TypeOK
    /\ NotesDiffer
    /\ NetworkInv
    /\ SignaturesInv
    /\ CallsInv
    /\ CopiesInv
    /\ UsedIsSpent
    /\ Solvent
    /\ ForgottenInv

-----------------------------------------------------------------------------
(***************************************************************************)
(* The program.                                                            *)
(***************************************************************************)

\* What Pool assumes of its constants holds of those Clients gives it.
LEMMA ProgramConstants ==
    PP!RingAssumption /\ PP!AmountAssumption /\ PP!NoPoolAssumption
<1>1. PP!RingAssumption
    BY ClientAssumption DEF PP!RingAssumption, Roots
<1>2. PP!AmountAssumption
    BY ClientAssumption DEF PP!AmountAssumption
<1>3. PP!NoPoolAssumption
    BY NoPoolAssumption
    DEF PP!NoPoolAssumption, PP!PoolAcc, Program!PoolAcc, PP!RootSlots, Program!RootSlots
<1>. QED
    BY <1>1, <1>2, <1>3

\* The program's instructions keep its invariant.
LEMMA ProgramStarts ==
    ASSUME Program!Init
    PROVE  ProgramInv
BY ProgramConstants, PP!IInvInit DEF ProgramInv, Program!Init, PP!Init

LEMMA ProgramInitialized ==
    ASSUME ProgramInv, Program!InitPool(Recipient)
    PROVE  ProgramInv'
<1>1. PP!InitPool(Recipient)
    BY DEF Program!InitPool, PP!InitPool, Program!RootSlots, PP!RootSlots
<1>2. Recipient \in {Recipient}
    OBVIOUS
<1>. QED
    BY <1>1, <1>2, ProgramConstants, PP!IInvInitPool DEF ProgramInv

LEMMA ProgramDeposits ==
    ASSUME ProgramInv, NEW commitment \in Commitments, NEW new_root \in Roots,
           NEW amount \in DepositAmounts,
           Program!Deposit(commitment, new_root, amount)
    PROVE  ProgramInv'
<1>1. PP!Deposit(commitment, new_root, amount)
    BY DEF Program!Deposit, PP!Deposit, Program!TreeHasRoom, PP!TreeHasRoom,
           Program!add_root, PP!add_root, Program!NewDeposit, PP!NewDeposit
<1>2. amount \in DepositAmounts \cup {FormAmount}
    OBVIOUS
<1>. QED
    BY <1>1, <1>2, ProgramConstants, PP!IInvDeposit DEF ProgramInv

LEMMA ProgramWithdraws ==
    ASSUME ProgramInv, NEW note \in Notes, NEW root \in Roots,
           NEW amount \in DepositAmounts \cup {FormAmount},
           Program!Withdraw(note, root, Recipient, Recipient, amount)
    PROVE  ProgramInv'
<1>1. PP!Withdraw(note, root, Recipient, Recipient, amount)
    BY DEF Program!Withdraw, PP!Withdraw, Program!NullifierUnused, PP!NullifierUnused,
           Program!is_known_root, PP!is_known_root, Program!RootSlots, PP!RootSlots,
           Program!encode_public_inputs, PP!encode_public_inputs
<1>2. Recipient \in {Recipient}
    OBVIOUS
<1>. QED
    BY <1>1, <1>2, ProgramConstants, PP!IInvWithdraw DEF ProgramInv

LEMMA ProgramRests ==
    ASSUME ProgramInv, UNCHANGED chain
    PROVE  ProgramInv'
BY DEF ProgramInv, chain, PP!IInv, PP!TypeOK, PP!LeavesDense, PP!SpentOnce, PP!RingInv

-----------------------------------------------------------------------------
(***************************************************************************)
(* The tree, and what each instruction does to it.                         *)
(***************************************************************************)

LEMMA CommitmentParts ==
    ASSUME NEW c \in Commitments
    PROVE  /\ c.note \in Notes /\ c.amount \in DepositAmounts /\ c.amount \in Nat
           /\ c = Commitment(c.note, c.amount)
BY ClientAssumption DEF Commitments, Commitment

LEMMA LeavesParts ==
    ASSUME ProgramInv
    PROVE  /\ Len(deposits) \in 0 .. MAX_LEAVES
           /\ pool = NoPool => deposits = << >>
           /\ Leaves \in Seq(Commitments)
           /\ Len(Leaves) = Len(deposits)
           /\ DOMAIN Leaves = 1 .. Len(deposits)
           /\ \A i \in 1 .. Len(deposits) :
                Leaves[i] = deposits[i].commitment /\ Leaves[i] \in Commitments
<1>1. /\ deposits \in Seq(PP!DepositEvent)
      /\ pool \in PP!PoolAcc \cup {NoPool}
      /\ pool = NoPool => deposits = << >>
      /\ pool # NoPool => pool.next_leaf_index = Len(deposits)
    BY DEF ProgramInv, PP!IInv, PP!TypeOK, PP!LeavesDense
<1>2. Len(deposits) \in Nat
    BY <1>1
<1>3. Len(deposits) <= MAX_LEAVES
    BY <1>1, ClientAssumption DEF PP!PoolAcc
<1>4. ASSUME NEW i \in 1 .. Len(deposits)
      PROVE  deposits[i].commitment \in Commitments
    <2>1. deposits[i] \in PP!DepositEvent
        BY <1>1, <1>4
    <2>. QED
        BY <2>1 DEF PP!DepositEvent
<1>5. Leaves \in [1 .. Len(deposits) -> Commitments]
    BY <1>4 DEF Leaves
<1>6. \A i \in 1 .. Len(deposits) : Leaves[i] = deposits[i].commitment
    BY DEF Leaves
<1>7. Leaves \in Seq(Commitments) /\ Len(Leaves) = Len(deposits)
    <2>. DEFINE n == Len(deposits)
    <2>. HIDE DEF Leaves, n
    <2>1. Leaves \in [1 .. n -> Commitments] /\ n \in Nat
        BY <1>2, <1>5 DEF n
    <2>2. Leaves \in Seq(Commitments) /\ Len(Leaves) = n
        BY <2>1, LenProperties
    <2>. QED
        BY <2>2 DEF n
<1>. QED
    BY <1>1, <1>2, <1>3, <1>4, <1>5, <1>6, <1>7

LEMMA FirstLeavesParts ==
    ASSUME ProgramInv, NEW n \in 0 .. Len(deposits)
    PROVE  /\ FirstLeaves(n) \in Seq(Commitments)
           /\ Len(FirstLeaves(n)) = n
           /\ \A i \in 1 .. n : FirstLeaves(n)[i] = Leaves[i]
<1>. DEFINE s == Leaves
<1>1. s \in Seq(Commitments) /\ Len(s) = Len(deposits) /\ Len(deposits) \in Nat
    BY LeavesParts
<1>. HIDE DEF s
<1>2. /\ SubSeq(s, 1, n) \in Seq(Commitments)
      /\ Len(SubSeq(s, 1, n)) = n
      /\ \A i \in 1 .. n : SubSeq(s, 1, n)[i] = s[i]
    BY <1>1, SubSeqProperties
<1>. QED
    BY <1>2 DEF FirstLeaves, s

LEMMA PrefixOfAppend ==
    ASSUME NEW S, NEW s \in Seq(S), NEW e \in S, NEW k \in 0 .. Len(s)
    PROVE  SubSeq(Append(s, e), 1, k) = SubSeq(s, 1, k)
<1>. DEFINE t == Append(s, e)
            a == SubSeq(s, 1, k)
            b == SubSeq(t, 1, k)
<1>1. /\ t \in Seq(S) /\ Len(s) \in Nat /\ Len(t) = Len(s) + 1
      /\ \A i \in 1 .. Len(s) : t[i] = s[i]
    OBVIOUS
<1>. HIDE DEF t
<1>2. a \in Seq(S) /\ Len(a) = k /\ \A i \in 1 .. k : a[i] = s[i]
    BY <1>1, SubSeqProperties
<1>3. k \in 0 .. Len(t)
    BY <1>1
<1>4. b \in Seq(S) /\ Len(b) = k /\ \A i \in 1 .. k : b[i] = t[i]
    BY <1>1, <1>3, SubSeqProperties
<1>. HIDE DEF a, b
<1>5. a = b
    BY <1>1, <1>2, <1>4, SeqEqual
<1>. QED
    BY <1>5 DEF a, b, t

\* A step that leaves the program alone leaves the tree alone.
LEMMA ChainRests ==
    ASSUME ProgramInv, UNCHANGED chain
    PROVE  /\ ProgramInv' /\ Leaves' = Leaves /\ LeafNotes' = LeafNotes
           /\ Spent' = Spent /\ UNCHANGED <<pool, vault, deposits>>
           /\ Solvent => Solvent'
<1>1. ProgramInv' /\ UNCHANGED <<pool, vault, nullifier_records, deposits>>
    BY ProgramRests DEF chain
<1>2. Leaves' = Leaves
    BY <1>1 DEF Leaves
<1>3. Spent' = Spent
    BY <1>1 DEF Spent
<1>4. LeafNotes' = LeafNotes
    BY <1>2 DEF LeafNotes
<1>5. Unspent' = Unspent
    BY <1>2, <1>3 DEF Unspent
<1>6. Solvent => Solvent'
    BY <1>1, <1>2, <1>5 DEF Solvent
<1>. QED
    BY <1>1, <1>2, <1>3, <1>4, <1>6

\* A deposit that lands adds its commitment after the leaves there are.
LEMMA DepositLands ==
    ASSUME IInv, NEW tx \in network, tx.kind = "deposit", Land(tx)
    PROVE  /\ ProgramInv'
           /\ tx.note \in Notes /\ tx.amount \in DepositAmounts
           /\ vault' = vault + tx.amount
           /\ Len(deposits') = Len(deposits) + 1
           /\ \A i \in 1 .. Len(deposits) :
                deposits'[i] = deposits[i] /\ Leaves'[i] = Leaves[i]
           /\ Leaves'[Len(deposits) + 1] = Commitment(tx.note, tx.amount)
           /\ Leaves' = Append(Leaves, Commitment(tx.note, tx.amount))
           /\ LeafNotes' = LeafNotes \cup {tx.note}
           /\ Spent' = Spent /\ UNCHANGED nullifier_records
           /\ \A n \in 0 .. Len(deposits) : FirstLeaves(n)' = FirstLeaves(n)
<1>. DEFINE c == Commitment(tx.note, tx.amount)
            n == Len(deposits)
<1>1. Program!Deposit(c, tx.root, tx.amount)
    BY Zenon DEF Land
<1>2. tx.note \in Notes /\ tx.root \in Roots /\ tx.amount \in DepositAmounts
    BY DEF IInv, TypeOK, Transactions, NetworkInv
<1>3. c \in Commitments
    BY <1>2 DEF Commitments
<1>4. ProgramInv /\ ProgramInv'
    BY <1>1, <1>2, <1>3, ProgramDeposits DEF IInv
<1>5. /\ deposits' = Append(deposits, Program!NewDeposit(pool, c, tx.root))
      /\ vault' = vault + tx.amount
      /\ UNCHANGED nullifier_records
    BY <1>1 DEF Program!Deposit
<1>6. /\ n \in Nat /\ Len(deposits') = n + 1
      /\ \A i \in 1 .. n : deposits'[i] = deposits[i]
      /\ deposits'[n + 1].commitment = c
    <2>1. deposits \in Seq(PP!DepositEvent)
        BY <1>4 DEF ProgramInv, PP!IInv, PP!TypeOK
    <2>. DEFINE e == Program!NewDeposit(pool, c, tx.root)
    <2>2. e.commitment = c
        BY DEF Program!NewDeposit
    <2>. HIDE DEF e, c
    <2>. QED
        BY <1>5, <2>1, <2>2 DEF e
<1>7. \A i \in 1 .. n : Leaves'[i] = Leaves[i]
    BY <1>6 DEF Leaves
<1>8. Leaves'[n + 1] = c
    BY <1>6 DEF Leaves
<1>. HIDE DEF c, n
<1>9. LeafNotes' = LeafNotes \cup {tx.note}
    <2>1. DOMAIN Leaves = 1 .. n /\ DOMAIN Leaves' = 1 .. n + 1
        BY <1>6 DEF Leaves, n
    <2>2. c.note = tx.note
        BY DEF c, Commitment
    <2>3. 1 .. n + 1 = (1 .. n) \cup {n + 1}
        BY <1>6
    <2>. QED
        BY <1>7, <1>8, <2>1, <2>2, <2>3 DEF LeafNotes
<1>10. Spent' = Spent
    BY <1>5 DEF Spent
<1>11. Leaves' = Append(Leaves, c)
    <2>. DEFINE s == Leaves
                t == Leaves'
    <2>1. s \in Seq(Commitments) /\ Len(s) = n /\ DOMAIN s = 1 .. n
        BY <1>4, LeavesParts DEF n
    <2>2. t = [i \in 1 .. n + 1 |-> t[i]]
        BY <1>6 DEF Leaves
    <2>3. \A i \in 1 .. n + 1 : t[i] = Append(s, c)[i]
        BY <1>3, <1>6, <1>7, <1>8, <2>1
    <2>. DEFINE a == Append(s, c)
    <2>4. a \in Seq(Commitments) /\ Len(a) = n + 1
        BY <1>3, <2>1
    <2>. HIDE DEF s, t, a
    <2>5. a = [i \in 1 .. n + 1 |-> a[i]]
        BY <2>4, LenProperties
    <2>6. \A i \in 1 .. n + 1 : t[i] = a[i]
        BY <2>3 DEF a
    <2>7. t = a
        BY <2>2, <2>5, <2>6
    <2>. QED
        BY <2>7 DEF s, t, a
<1>12. ASSUME NEW k \in 0 .. n
       PROVE  FirstLeaves(k)' = FirstLeaves(k)
    <2>1. Leaves \in Seq(Commitments) /\ Len(Leaves) = n
        BY <1>4, LeavesParts DEF n
    <2>. QED
        BY <1>3, <1>11, <1>12, <2>1, PrefixOfAppend DEF FirstLeaves
<1>. QED
    BY <1>2, <1>4, <1>5, <1>6, <1>7, <1>8, <1>9, <1>10, <1>11, <1>12 DEF n, c

\* A withdrawal that lands spends its note, which was not spent.
LEMMA WithdrawLands ==
    ASSUME IInv, NEW tx \in network, tx.kind = "withdraw", Land(tx)
    PROVE  /\ ProgramInv'
           /\ tx.note \in Notes /\ tx.note \notin Spent
           /\ vault >= tx.amount /\ vault' = vault - tx.amount
           /\ UNCHANGED <<pool, deposits>>
           /\ Leaves' = Leaves /\ LeafNotes' = LeafNotes
           /\ Spent' = Spent \cup {tx.note}
           /\ \A r \in nullifier_records' : r \in nullifier_records \/
                (r.nullifier_hash = tx.note /\ r.amount = tx.amount)
<1>1. Program!Withdraw(tx.note, tx.root, Recipient, Recipient, tx.amount)
    BY Zenon DEF Land
<1>2. /\ tx.note \in Notes /\ tx.root \in Roots
      /\ tx.amount \in DepositAmounts \cup {FormAmount}
    BY DEF IInv, TypeOK, Transactions
<1>3. ProgramInv'
    BY <1>1, <1>2, ProgramWithdraws DEF IInv
<1>4. /\ \A r \in nullifier_records : r.nullifier_hash # tx.note
      /\ vault >= tx.amount /\ vault' = vault - tx.amount
      /\ UNCHANGED <<pool, deposits>>
      /\ nullifier_records' = nullifier_records \cup
            {[nullifier_hash |-> tx.note, recipient |-> Recipient, amount |-> tx.amount]}
    BY <1>1 DEF Program!Withdraw, Program!NullifierUnused
<1>5. tx.note \notin Spent
    BY <1>4 DEF Spent
<1>6. Leaves' = Leaves
    BY <1>4 DEF Leaves
<1>7. LeafNotes' = LeafNotes
    BY <1>6 DEF LeafNotes
<1>. DEFINE r0 == [nullifier_hash |-> tx.note, recipient |-> Recipient, amount |-> tx.amount]
<1>8. r0.nullifier_hash = tx.note /\ r0.amount = tx.amount
    OBVIOUS
<1>9. nullifier_records' = nullifier_records \cup {r0}
    BY <1>4
<1>. HIDE DEF r0
<1>10. Spent' = Spent \cup {tx.note}
    BY <1>8, <1>9 DEF Spent
<1>. QED
    BY <1>2, <1>3, <1>4, <1>5, <1>6, <1>7, <1>8, <1>9, <1>10

-----------------------------------------------------------------------------
(***************************************************************************)
(* Facts the actions share.                                                *)
(***************************************************************************)

LEMMA CallKinds ==
    ASSUME TypeOK, NEW t \in Tabs
    PROVE  /\ call[t].kind \in {"deposit", "withdraw", "none"}
           /\ call[t] = NoCall <=> call[t].kind = "none"
           /\ call[t] # NoCall => call[t] \in Transactions
           /\ BrowserOf[t] \in Browsers
<1>1. call[t] \in Transactions \cup {NoCall}
    BY DEF TypeOK
<1>2. NoCall.kind = "none"
    BY DEF NoCall
<1>3. \A tx \in Transactions : tx.kind \in {"deposit", "withdraw"}
    BY DEF Transactions
<1>. HIDE DEF NoCall
<1>. QED
    BY <1>1, <1>2, <1>3, ClientAssumption

\* Sequences of commitments to different notes are roots.
LEMMA RootIs ==
    ASSUME NEW s \in Seq(Commitments), Len(s) <= MAX_LEAVES,
           \A i, j \in 1 .. Len(s) : s[i].note = s[j].note => i = j
    PROVE  s \in Roots
<1>1. Len(s) \in 0 .. MAX_LEAVES /\ s \in [1 .. Len(s) -> Commitments]
    BY ClientAssumption, LenProperties
<1>2. s \in {r \in [1 .. Len(s) -> Commitments] :
                \A i, j \in 1 .. Len(s) : r[i].note = r[j].note => i = j}
    BY <1>1
<1>. QED
    BY <1>1, <1>2 DEF Roots

LEMMA TreeIsRoot ==
    ASSUME ProgramInv, NotesDiffer, NEW n \in 0 .. Len(deposits)
    PROVE  FirstLeaves(n) \in Roots
<1>. DEFINE s == FirstLeaves(n)
<1>1. s \in Seq(Commitments) /\ Len(s) = n /\ \A i \in 1 .. n : s[i] = Leaves[i]
    BY FirstLeavesParts
<1>2. Len(deposits) \in 0 .. MAX_LEAVES /\ DOMAIN Leaves = 1 .. Len(deposits)
    BY LeavesParts
<1>. HIDE DEF s
<1>3. \A i, j \in 1 .. n : s[i].note = s[j].note => i = j
    BY <1>1, <1>2 DEF NotesDiffer
<1>4. s \in Roots
    BY <1>1, <1>2, <1>3, ClientAssumption, RootIs
<1>. QED
    BY <1>4 DEF s

LEMMA NewRootIsRoot ==
    ASSUME ProgramInv, NotesDiffer, NEW n \in 0 .. Len(deposits),
           NEW note \in Notes, note \notin LeafNotes, NEW amount \in DepositAmounts
    PROVE  NewRoot(FirstLeaves(n), Commitment(note, amount)) \in Roots
<1>. DEFINE s == FirstLeaves(n)
            c == Commitment(note, amount)
<1>1. s \in Seq(Commitments) /\ Len(s) = n /\ \A i \in 1 .. n : s[i] = Leaves[i]
    BY FirstLeavesParts
<1>2. Len(deposits) \in Nat /\ DOMAIN Leaves = 1 .. Len(deposits)
    BY LeavesParts
<1>3. s \in Roots
    BY TreeIsRoot
<1>4. c \in Commitments /\ c.note = note
    BY DEF Commitments, Commitment
<1>5. \A i \in 1 .. n : s[i].note # note
    BY <1>1, <1>2 DEF LeafNotes
<1>6. \A i, j \in 1 .. n : s[i].note = s[j].note => i = j
    BY <1>1, <1>2 DEF NotesDiffer
<1>. HIDE DEF s, c
<1>7. ASSUME n < MAX_LEAVES
      PROVE  Append(s, c) \in Roots
    <2>. DEFINE a == Append(s, c)
    <2>1. /\ a \in Seq(Commitments) /\ Len(a) = n + 1
          /\ \A i \in 1 .. n : a[i] = s[i]
          /\ a[n + 1] = c
        BY <1>1, <1>4
    <2>. HIDE DEF a
    <2>2. \A i, j \in 1 .. n + 1 : a[i].note = a[j].note => i = j
        BY <1>4, <1>5, <1>6, <2>1
    <2>3. a \in Roots
        BY <1>7, <2>1, <2>2, ClientAssumption, RootIs
    <2>. QED
        BY <2>3 DEF a
<1>. QED
    BY <1>1, <1>3, <1>7 DEF NewRoot, s, c

\* A step that forgets no note, and one that forgets one and counts it.
LEMMA ForgetsNone ==
    ASSUME ForgottenInv, Forgotten' \subseteq Forgotten,
           losses \in Nat, reloads \in Nat, NEW k \in Nat,
           losses' + reloads' = losses + reloads + k
    PROVE  ForgottenInv'
<1>1. IsFiniteSet(Forgotten') /\ Cardinality(Forgotten') <= Cardinality(Forgotten)
    BY FS_Subset DEF ForgottenInv
<1>. DEFINE a == Cardinality(Forgotten)
            b == Cardinality(Forgotten')
<1>2. a \in Nat /\ b \in Nat /\ b <= a /\ a <= losses + reloads
    BY <1>1, FS_CardinalityType DEF ForgottenInv
<1>. HIDE DEF a, b
<1>3. b <= losses' + reloads'
    BY <1>2
<1>. QED
    BY <1>1, <1>3 DEF ForgottenInv, b

LEMMA ForgetsOne ==
    ASSUME ForgottenInv, NEW n, Forgotten' \subseteq Forgotten \cup {n},
           losses \in Nat, reloads \in Nat,
           losses' + reloads' = losses + reloads + 1
    PROVE  ForgottenInv'
<1>. DEFINE F == Forgotten
            G == Forgotten \cup {n}
            a == Cardinality(F)
            b == Cardinality(G)
            c == Cardinality(Forgotten')
<1>1. IsFiniteSet(F) /\ a <= losses + reloads
    BY DEF ForgottenInv
<1>2. Forgotten' \in SUBSET G
    OBVIOUS
<1>3. IsFiniteSet(G) /\ b = IF n \in F THEN a ELSE a + 1
    BY <1>1, FS_AddElement
<1>. HIDE DEF F, G
<1>4. IsFiniteSet(Forgotten') /\ c <= b
    BY <1>2, <1>3, FS_Subset
<1>5. a \in Nat /\ b \in Nat /\ c \in Nat
    BY <1>1, <1>3, <1>4, FS_CardinalityType
<1>. HIDE DEF a, b, c
<1>6. c <= losses' + reloads'
    BY <1>1, <1>3, <1>4, <1>5
<1>. QED
    BY <1>4, <1>6 DEF ForgottenInv, c

\* The notes withdrawn are notes of leaves.
LEMMA SpentAreLeaves ==
    ASSUME ProgramInv, Solvent
    PROVE  Spent \subseteq LeafNotes
<1>1. ASSUME NEW r \in nullifier_records
      PROVE  r.nullifier_hash \in LeafNotes
    <2>1. PICK i \in DOMAIN Leaves : Leaves[i] = Commitment(r.nullifier_hash, r.amount)
        BY DEF Solvent, ToSet
    <2>. QED
        BY <2>1 DEF LeafNotes, Commitment
<1>. QED
    BY <1>1 DEF Spent

-----------------------------------------------------------------------------
(***************************************************************************)
(* The invariant holds at first, and every action keeps it.                *)
(***************************************************************************)

LEMMA IInvInit ==
    ASSUME Init
    PROVE  IInv
<1>1. /\ deposits = << >> /\ nullifier_records = {} /\ vault = 0 /\ Leaves = << >>
      /\ network = {} /\ landed = {} /\ sent = 0 /\ losses = 0 /\ reloads = 0
      /\ \A t \in Tabs : call[t] = NoCall
    BY DEF Init, Program!Init, Leaves
<1>2. ProgramInv
    BY ProgramStarts DEF Init
<1>3. TypeOK
    BY <1>1, ClientAssumption DEF Init, TypeOK
<1>4. NotesDiffer
    BY <1>1 DEF NotesDiffer, LeafNotes
<1>5. NetworkInv /\ SignaturesInv
    BY <1>1 DEF NetworkInv, SignaturesInv
<1>6. CallsInv
    BY <1>1 DEF CallsInv, NoCall
<1>7. CopiesInv /\ UsedIsSpent
    BY DEF Init, CopiesInv, UsedIsSpent
<1>8. Solvent
    <2>1. Unspent = {}
        BY <1>1 DEF Unspent
    <2>. QED
        BY <1>1, <2>1, SumEmpty DEF Solvent
<1>9. ForgottenInv
    <2>1. Forgotten = {}
        BY <1>1 DEF Forgotten, LeafNotes, DepositNotes
    <2>. QED
        BY <1>1, <2>1, FS_EmptySet DEF ForgottenInv
<1>. QED
    BY <1>2, <1>3, <1>4, <1>5, <1>6, <1>7, <1>8, <1>9 DEF IInv

\* A step of the program or of the backend that leaves the tree, the
\* transactions and the browsers alone.
LEMMA ClientsRest ==
    ASSUME IInv, ProgramInv',
           UNCHANGED <<vault, nullifier_records, deposits, wire, browser, losses, reloads>>,
           indexed' \in 0 .. Len(deposits)
    PROVE  IInv'
<1>. USE DEF IInv, wire, browser
<1>1. Leaves' = Leaves
    BY DEF Leaves
<1>2. LeafNotes' = LeafNotes /\ DepositNotes' = DepositNotes
    BY <1>1 DEF LeafNotes, DepositNotes
<1>3. Spent' = Spent
    BY DEF Spent
<1>4. Unspent' = Unspent
    BY <1>1, <1>3 DEF Unspent
<1>5. TypeOK'
    BY DEF TypeOK
<1>6. NotesDiffer'
    BY <1>1, <1>2 DEF NotesDiffer
<1>7. NetworkInv' /\ SignaturesInv'
    BY <1>1 DEF NetworkInv, SignaturesInv, FirstLeaves
<1>8. CallsInv'
    BY <1>2, <1>3 DEF CallsInv, Executed
<1>9. CopiesInv' /\ UsedIsSpent'
    BY <1>3 DEF CopiesInv, UsedIsSpent
<1>10. Solvent'
    BY <1>1, <1>4 DEF Solvent
<1>11. ForgottenInv'
    <2>1. Forgotten' = Forgotten
        BY <1>2 DEF Forgotten
    <2>. QED
        BY <2>1 DEF ForgottenInv
<1>. QED
    BY <1>5, <1>6, <1>7, <1>8, <1>9, <1>10, <1>11

LEMMA IInvInitializePool ==
    ASSUME IInv, InitializePool
    PROVE  IInv'
<1>1. ProgramInv'
    BY ProgramInitialized DEF InitializePool, IInv
<1>2. indexed' \in 0 .. Len(deposits)
    BY DEF InitializePool, mirror, IInv, TypeOK
<1>. QED
    BY <1>1, <1>2, ClientsRest DEF InitializePool, Program!InitPool

LEMMA IInvIndex ==
    ASSUME IInv, Index
    PROVE  IInv'
<1>1. ProgramInv'
    BY ProgramRests DEF Index, IInv
<1>2. indexed' \in 0 .. Len(deposits)
    <2>1. Len(deposits) \in Nat
        BY LeavesParts DEF IInv
    <2>. QED
        BY <2>1 DEF Index, IInv, TypeOK
<1>. QED
    BY <1>1, <1>2, ClientsRest DEF Index, chain

LEMMA IInvRests ==
    ASSUME IInv, UNCHANGED vars
    PROVE  IInv'
<1>1. ProgramInv'
    BY ProgramRests DEF vars, IInv
<1>2. indexed' \in 0 .. Len(deposits)
    BY DEF vars, mirror, IInv, TypeOK
<1>. QED
    BY <1>1, <1>2, ClientsRest DEF vars, chain

LEMMA IInvDrop ==
    ASSUME IInv, NEW tx \in network, Drop(tx)
    PROVE  IInv'
<1>. USE DEF IInv, browser
<1>1. /\ ProgramInv' /\ Leaves' = Leaves /\ LeafNotes' = LeafNotes /\ Spent' = Spent
      /\ Solvent' /\ UNCHANGED <<deposits, indexed, landed, sent, storage, notes, call, losses, reloads>>
      /\ network' = network \ {tx}
    BY ChainRests DEF Drop, mirror
<1>2. DepositNotes' \subseteq DepositNotes
    BY <1>1 DEF DepositNotes
<1>3. TypeOK'
    BY <1>1 DEF TypeOK
<1>4. NotesDiffer'
    BY <1>1, <1>2 DEF NotesDiffer
<1>5. NetworkInv' /\ SignaturesInv'
    BY <1>1 DEF NetworkInv, SignaturesInv, FirstLeaves
<1>6. CallsInv'
    BY <1>1 DEF CallsInv, Executed
<1>7. CopiesInv' /\ UsedIsSpent'
    BY <1>1 DEF CopiesInv, UsedIsSpent
<1>8. ForgottenInv'
    <2>1. Forgotten' \subseteq Forgotten
        BY <1>1, <1>2 DEF Forgotten
    <2>2. losses \in Nat /\ reloads \in Nat
        BY ClientAssumption DEF TypeOK
    <2>3. losses' + reloads' = losses + reloads + 0
        BY <1>1, <2>2
    <2>. QED
        BY <2>1, <2>2, <2>3, ForgetsNone
<1>. QED
    BY <1>1, <1>3, <1>4, <1>5, <1>6, <1>7, <1>8

\* What a tab may send: a deposit of a note nobody has had, or a withdrawal of
\* a note its browser has, against a tree with the commitment.
Sendable(t, tx) ==
    /\ tx.kind = "deposit" => tx.amount \in DepositAmounts /\ Fresh(tx.note)
    /\ tx.kind = "withdraw" =>
        /\ \E n \in 1 .. Len(deposits) : tx.root = FirstLeaves(n)
        /\ Commitment(tx.note, tx.amount) \in ToSet(tx.root)
        /\ \E m \in storage[BrowserOf[t]] : m.note = tx.note

LEMMA IInvSend ==
    ASSUME IInv, NEW t \in Tabs, call[t] = NoCall,
           NEW kind \in {"deposit", "withdraw"}, NEW note \in Notes,
           NEW amount \in DepositAmounts \cup {FormAmount}, NEW root \in Roots,
           NEW tx, tx = [kind |-> kind, note |-> note, amount |-> amount,
                         root |-> root, signature |-> sent + 1],
           Sendable(t, tx), Send(t, tx)
    PROVE  IInv'
<1>. USE DEF IInv
<1>1. /\ ProgramInv' /\ Leaves' = Leaves /\ LeafNotes' = LeafNotes /\ Spent' = Spent
      /\ Solvent' /\ UNCHANGED <<deposits, indexed, landed, storage, notes, losses, reloads>>
      /\ network' = network \cup {tx} /\ sent' = sent + 1
      /\ call' = [call EXCEPT ![t] = tx] /\ sent < MaxSent
    BY ChainRests DEF Send, mirror
<1>2. /\ sent \in Nat /\ MaxSent \in Nat /\ sent + 1 \in 1 .. MaxSent
      /\ sent + 1 \notin landed
    BY <1>1, ClientAssumption DEF TypeOK
<1>3. /\ tx \in Transactions /\ tx.kind = kind /\ tx.signature = sent + 1
      /\ tx.note = note
    BY <1>2 DEF Transactions
<1>4. tx # NoCall
    BY <1>3 DEF NoCall
<1>5. /\ call'[t] = tx /\ \A u \in Tabs \ {t} : call'[u] = call[u]
      /\ call' \in [Tabs -> Transactions \cup {NoCall}]
    BY <1>1, <1>3 DEF TypeOK
<1>6. kind = "deposit" =>
        /\ note \notin LeafNotes
        /\ \A ty \in network : ty.note # note
        /\ \A u \in Tabs : call[u] # NoCall => call[u].note # note
    BY <1>3 DEF Sendable, Fresh, LeafNotes
<1>. HIDE DEF NoCall
<1>7. TypeOK'
    BY <1>1, <1>2, <1>3, <1>5 DEF TypeOK
<1>8. NotesDiffer'
    <2>1. ASSUME NEW tx1 \in network', NEW tx2 \in network', tx1.kind = "deposit",
                 tx2.kind = "deposit", tx1.note = tx2.note
          PROVE  tx1 = tx2
        BY <1>1, <1>3, <1>6, <2>1 DEF NotesDiffer
    <2>2. LeafNotes' \cap DepositNotes' = {}
        BY <1>1, <1>3, <1>6 DEF NotesDiffer, DepositNotes
    <2>. QED
        BY <1>1, <2>1, <2>2 DEF NotesDiffer
<1>9. NetworkInv'
    BY <1>1, <1>3 DEF NetworkInv, Sendable, FirstLeaves
<1>10. SignaturesInv'
    <2>1. \A ty \in network : ty.signature \in 1 .. sent
        BY <1>2 DEF SignaturesInv, TypeOK, Transactions
    <2>2. \A u \in Tabs : call[u] # NoCall => call[u].signature \in 1 .. sent
        BY <1>2, CallKinds DEF SignaturesInv, Transactions
    <2>3. \A ty \in network' : ty.signature <= sent' /\ ty.signature \notin landed'
        BY <1>1, <1>2, <1>3, <2>1 DEF SignaturesInv
    <2>4. \A tx1, tx2 \in network' : tx1.signature = tx2.signature => tx1 = tx2
        BY <1>1, <1>2, <1>3, <2>1 DEF SignaturesInv
    <2>5. ASSUME NEW u \in Tabs, call'[u] # NoCall
          PROVE  /\ call'[u].signature <= sent'
                 /\ \A ty \in network' :
                        ty.signature = call'[u].signature => ty = call'[u]
        <3>1. CASE u = t
            BY <1>1, <1>2, <1>3, <1>5, <2>1, <3>1
        <3>2. CASE u # t
            BY <1>1, <1>2, <1>3, <1>5, <2>2, <2>5, <3>2 DEF SignaturesInv
        <3>. QED
            BY <3>1, <3>2
    <2>. QED
        BY <2>3, <2>4, <2>5 DEF SignaturesInv
<1>11. CallsInv'
    <2>1. ASSUME NEW u \in Tabs, call'[u].kind = "deposit"
          PROVE  /\ call'[u].amount \in DepositAmounts
                 /\ call'[u].note \in LeafNotes' => (call'[u].signature \in landed')
                 /\ \A ty \in network' :
                        ty.kind = "deposit" /\ ty.note = call'[u].note => ty = call'[u]
        <3>1. CASE u = t
            BY <1>1, <1>3, <1>5, <1>6, <2>1, <3>1 DEF Sendable
        <3>2. CASE u # t
            <4>1. call'[u] = call[u] /\ call[u] # NoCall
                BY <1>5, <2>1, <3>2, CallKinds
            <4>. QED
                BY <1>1, <1>3, <1>6, <2>1, <4>1 DEF CallsInv, Executed
        <3>. QED
            BY <3>1, <3>2
    <2>2. ASSUME NEW u \in Tabs, call'[u].kind = "withdraw"
          PROVE  /\ (call'[u].signature \in landed') => call'[u].note \in Spent'
                 /\ \E m \in storage'[BrowserOf[u]] : m.note = call'[u].note
        <3>1. CASE u = t
            BY <1>1, <1>2, <1>3, <1>5, <2>2, <3>1 DEF Sendable, Executed
        <3>2. CASE u # t
            BY <1>1, <1>5, <2>2, <3>2 DEF CallsInv, Executed
        <3>. QED
            BY <3>1, <3>2
    <2>. QED
        BY <2>1, <2>2 DEF CallsInv, Executed
<1>12. CopiesInv' /\ UsedIsSpent'
    BY <1>1 DEF CopiesInv, UsedIsSpent
<1>13. ForgottenInv'
    <2>1. ASSUME NEW n \in Forgotten'
          PROVE  n \in Forgotten
        <3>1. n # note
            BY <1>3, <1>4, <1>5 DEF Forgotten
        <3>2. n \in LeafNotes \cup DepositNotes
            BY <1>1, <1>3, <3>1 DEF Forgotten, DepositNotes
        <3>3. \A u \in Tabs : call[u] # NoCall => call[u].note # n
            BY <1>5 DEF Forgotten
        <3>. QED
            BY <1>1, <3>2, <3>3 DEF Forgotten
    <2>2. losses \in Nat /\ reloads \in Nat
        BY ClientAssumption DEF TypeOK
    <2>3. losses' + reloads' = losses + reloads + 0
        BY <1>1, <2>2
    <2>. QED
        BY <2>1, <2>2, <2>3, ForgetsNone
<1>. QED
    BY <1>1, <1>7, <1>8, <1>9, <1>10, <1>11, <1>12, <1>13

LEMMA IInvSendDeposit ==
    ASSUME IInv, NEW t \in Tabs, NEW note \in Notes, NEW amount \in DepositAmounts,
           NEW listed \in 0 .. indexed, SendDeposit(t, note, amount, listed)
    PROVE  IInv'
<1>. DEFINE root == NewRoot(FirstLeaves(listed), Commitment(note, amount))
            tx == [kind |-> "deposit", note |-> note, amount |-> amount,
                   root |-> root, signature |-> sent + 1]
<1>1. call[t] = NoCall /\ Fresh(note) /\ Send(t, tx)
    BY DEF SendDeposit
<1>2. listed \in 0 .. Len(deposits)
    BY LeavesParts DEF IInv, TypeOK
<1>3. note \notin LeafNotes
    BY <1>1 DEF Fresh, LeafNotes
<1>4. root \in Roots
    BY <1>2, <1>3, NewRootIsRoot DEF IInv
<1>5. Sendable(t, tx)
    BY <1>1 DEF Sendable
<1>. HIDE DEF root
<1>6. amount \in DepositAmounts \cup {FormAmount}
    OBVIOUS
<1>. QED
    BY <1>1, <1>4, <1>5, <1>6, IInvSend

LEMMA IInvSendWithdraw ==
    ASSUME IInv, NEW t \in Tabs, NEW note \in Notes,
           NEW listed \in 0 .. indexed, NEW leaves \in 0 .. indexed,
           SendWithdraw(t, note, listed, leaves)
    PROVE  IInv'
<1>. DEFINE root == FirstLeaves(leaves)
            tx == [kind |-> "withdraw", note |-> note, amount |-> FormAmount,
                   root |-> root, signature |-> sent + 1]
<1>1. call[t] = NoCall /\ HasNote(t, note) /\ Send(t, tx)
    BY DEF SendWithdraw
<1>2. PICK i \in 1 .. listed : i <= leaves /\ Commitment(note, FormAmount) = Leaves[i]
    BY DEF SendWithdraw, Proves
<1>3. leaves \in 1 .. Len(deposits) /\ i \in 1 .. leaves
    BY <1>2, LeavesParts DEF IInv, TypeOK
<1>4. root \in Roots
    BY <1>3, TreeIsRoot DEF IInv
<1>5. Commitment(note, FormAmount) \in ToSet(root)
    <2>1. root \in Seq(Commitments) /\ Len(root) = leaves /\ root[i] = Leaves[i]
        BY <1>3, FirstLeavesParts DEF IInv
    <2>2. i \in DOMAIN root
        BY <1>3, <2>1
    <2>. QED
        BY <1>2, <2>1, <2>2 DEF ToSet
<1>6. \E m \in storage[BrowserOf[t]] : m.note = note
    BY <1>1 DEF HasNote, IInv, CopiesInv
<1>7. Sendable(t, tx)
    BY <1>3, <1>5, <1>6 DEF Sendable
<1>. HIDE DEF root
<1>8. FormAmount \in DepositAmounts \cup {FormAmount}
    OBVIOUS
<1>. QED
    BY <1>1, <1>4, <1>7, <1>8, IInvSend

\* A tab's call ends, and its browser keeps its notes: only the call's note can
\* be forgotten, and only if no browser has it.
LEMMA CallEnds ==
    ASSUME IInv, NEW t \in Tabs, call' = [call EXCEPT ![t] = NoCall],
           UNCHANGED <<chain, mirror, wire>>,
           \A b \in Browsers : \A n \in storage[b] : \E m \in storage'[b] : m.note = n.note
    PROVE  /\ ProgramInv' /\ Leaves' = Leaves /\ LeafNotes' = LeafNotes /\ Spent' = Spent
           /\ UNCHANGED <<deposits, indexed, network, landed, sent>>
           /\ call' \in [Tabs -> Transactions \cup {NoCall}]
           /\ Solvent' /\ NotesDiffer' /\ NetworkInv' /\ SignaturesInv' /\ CallsInv'
           /\ \A n \in Forgotten' : n \in Forgotten \/
                (call[t] # NoCall /\ n = call[t].note)
<1>. USE DEF IInv
<1>1. /\ ProgramInv' /\ Leaves' = Leaves /\ LeafNotes' = LeafNotes /\ Spent' = Spent
      /\ Solvent' /\ UNCHANGED <<deposits, indexed, network, landed, sent>>
    BY ChainRests DEF mirror, wire
<1>2. DepositNotes' = DepositNotes
    BY <1>1 DEF DepositNotes
<1>3. /\ call' \in [Tabs -> Transactions \cup {NoCall}]
      /\ call'[t] = NoCall /\ \A u \in Tabs \ {t} : call'[u] = call[u]
    BY DEF TypeOK
<1>4. NotesDiffer'
    BY <1>1, <1>2 DEF NotesDiffer
<1>5. NetworkInv'
    BY <1>1 DEF NetworkInv, FirstLeaves
<1>6. SignaturesInv'
    <2>. HIDE DEF NoCall
    <2>1. ASSUME NEW u \in Tabs, call'[u] # NoCall
          PROVE  call'[u] = call[u]
        BY <1>3, <2>1
    <2>. QED
        BY <1>1, <2>1 DEF SignaturesInv
<1>7. CallsInv'
    <2>1. ASSUME NEW u \in Tabs, call'[u].kind # "none"
          PROVE  call'[u] = call[u]
        BY <1>3, <2>1 DEF NoCall
    <2>2. \A u \in Tabs : BrowserOf[u] \in Browsers
        BY ClientAssumption
    <2>3. ASSUME NEW u \in Tabs, call'[u].kind = "deposit"
          PROVE  /\ call'[u].amount \in DepositAmounts
                 /\ call'[u].note \in LeafNotes' => call'[u].signature \in landed'
                 /\ \A tx \in network' :
                        tx.kind = "deposit" /\ tx.note = call'[u].note => tx = call'[u]
        BY <1>1, <2>1, <2>3 DEF CallsInv, Executed
    <2>4. ASSUME NEW u \in Tabs, call'[u].kind = "withdraw"
          PROVE  /\ call'[u].signature \in landed' => call'[u].note \in Spent'
                 /\ \E m \in storage'[BrowserOf[u]] : m.note = call'[u].note
        <3>1. call'[u] = call[u]
            BY <2>1, <2>4
        <3>2. /\ call[u].signature \in landed => call[u].note \in Spent
              /\ \E n \in storage[BrowserOf[u]] : n.note = call[u].note
            BY <2>4, <3>1 DEF CallsInv, Executed
        <3>. QED
            BY <1>1, <2>2, <3>1, <3>2
    <2>. QED
        BY <2>3, <2>4 DEF CallsInv, Executed
<1>8. ASSUME NEW n \in Forgotten'
      PROVE  n \in Forgotten \/ (call[t] # NoCall /\ n = call[t].note)
    <2>1. n \in LeafNotes \cup DepositNotes
        BY <1>1, <1>2 DEF Forgotten
    <2>2. \A b \in Browsers : \A m \in storage[b] : m.note # n
        BY DEF Forgotten
    <2>3. \A u \in Tabs \ {t} : call[u] # NoCall => call[u].note # n
        BY <1>3 DEF Forgotten
    <2>. QED
        BY <2>1, <2>2, <2>3 DEF Forgotten
<1>. QED
    BY <1>1, <1>3, <1>4, <1>5, <1>6, <1>7, <1>8

LEMMA Counters ==
    ASSUME TypeOK
    PROVE  losses \in Nat /\ reloads \in Nat
BY ClientAssumption DEF TypeOK

LEMMA IInvThrow ==
    ASSUME IInv, NEW t \in Tabs, Throw(t)
    PROVE  IInv'
<1>. USE DEF IInv
<1>1. /\ call[t] # NoCall /\ call' = [call EXCEPT ![t] = NoCall]
      /\ UNCHANGED <<chain, mirror, wire, storage, notes, reloads>>
    BY DEF Throw
<1>2. /\ ProgramInv' /\ Spent' = Spent
      /\ UNCHANGED <<deposits, indexed, network, landed, sent>>
      /\ call' \in [Tabs -> Transactions \cup {NoCall}]
      /\ Solvent' /\ NotesDiffer' /\ NetworkInv' /\ SignaturesInv' /\ CallsInv'
      /\ \A n \in Forgotten' : n \in Forgotten \/ n = call[t].note
    BY <1>1, CallEnds
<1>3. losses \in Nat /\ reloads \in Nat
    BY Counters
<1>4. TypeOK'
    <2>1. losses' \in 0 .. MaxLosses
        BY <1>3, ClientAssumption DEF Throw, TypeOK
    <2>. QED
        BY <1>1, <1>2, <2>1 DEF TypeOK
<1>5. CopiesInv' /\ UsedIsSpent'
    BY <1>1, <1>2 DEF CopiesInv, UsedIsSpent
<1>6. ForgottenInv'
    <2>1. CASE call[t] \in network \/ Executed(call[t])
        <3>1. losses' + reloads' = losses + reloads + 1
            BY <1>1, <1>3, <2>1 DEF Throw
        <3>2. Forgotten' \subseteq Forgotten \cup {call[t].note}
            BY <1>2
        <3>. QED
            BY <1>3, <3>1, <3>2, ForgetsOne
    <2>2. CASE ~ (call[t] \in network \/ Executed(call[t]))
        <3>1. losses' + reloads' = losses + reloads + 0
            BY <1>1, <1>3, <2>2 DEF Throw
        <3>2. call[t].note \notin Forgotten'
            <4>1. CASE call[t].kind = "deposit"
                <5>1. call[t].note \notin LeafNotes /\ call[t].note \notin DepositNotes
                    BY <2>2, <4>1 DEF CallsInv, DepositNotes
                <5>2. LeafNotes' = LeafNotes /\ DepositNotes' = DepositNotes
                    BY <1>1, <1>2, ChainRests DEF DepositNotes
                <5>. QED
                    BY <5>1, <5>2 DEF Forgotten
            <4>2. CASE call[t].kind = "withdraw"
                BY <1>1, <4>2, CallKinds DEF CallsInv, Forgotten
            <4>. QED
                BY <1>1, <4>1, <4>2, CallKinds
        <3>3. Forgotten' \subseteq Forgotten
            BY <1>2, <3>2
        <3>. QED
            BY <1>3, <3>1, <3>3, ForgetsNone
    <2>. QED
        BY <2>1, <2>2
<1>. QED
    BY <1>2, <1>4, <1>5, <1>6

LEMMA IInvReload ==
    ASSUME IInv, NEW t \in Tabs, Reload(t)
    PROVE  IInv'
<1>. USE DEF IInv
<1>1. /\ call' = [call EXCEPT ![t] = NoCall]
      /\ notes' = [notes EXCEPT ![t] = storage[BrowserOf[t]]]
      /\ reloads < MaxReloads /\ reloads' = reloads + 1
      /\ UNCHANGED <<chain, mirror, wire, storage, losses>>
    BY DEF Reload
<1>2. /\ ProgramInv' /\ Spent' = Spent
      /\ UNCHANGED <<deposits, indexed, network, landed, sent>>
      /\ call' \in [Tabs -> Transactions \cup {NoCall}]
      /\ Solvent' /\ NotesDiffer' /\ NetworkInv' /\ SignaturesInv' /\ CallsInv'
      /\ \A n \in Forgotten' : n \in Forgotten \/ n = call[t].note
    BY <1>1, CallEnds
<1>3. losses \in Nat /\ reloads \in Nat
    BY Counters
<1>4. TypeOK'
    <2>1. reloads' \in 0 .. MaxReloads
        BY <1>1, <1>3, ClientAssumption
    <2>2. notes' \in [Tabs -> SUBSET SavedNoteType]
        BY <1>1, CallKinds DEF TypeOK
    <2>. QED
        BY <1>1, <1>2, <2>1, <2>2 DEF TypeOK
<1>5. CopiesInv'
    BY <1>1 DEF CopiesInv, TypeOK
<1>6. UsedIsSpent'
    BY <1>1, <1>2 DEF UsedIsSpent
<1>7. ForgottenInv'
    <2>1. losses' + reloads' = losses + reloads + 1
        BY <1>1, <1>3
    <2>2. Forgotten' \subseteq Forgotten \cup {call[t].note}
        BY <1>2
    <2>. QED
        BY <1>3, <2>1, <2>2, ForgetsOne
<1>. QED
    BY <1>2, <1>4, <1>5, <1>6, <1>7

LEMMA IInvConfirmDeposit ==
    ASSUME IInv, NEW t \in Tabs, ConfirmDeposit(t)
    PROVE  IInv'
<1>. USE DEF IInv
<1>. DEFINE b == BrowserOf[t]
            note == [note |-> call[t].note, amount |-> call[t].amount, used |-> FALSE]
<1>1. /\ call[t] # NoCall /\ call[t].kind = "deposit"
      /\ call' = [call EXCEPT ![t] = NoCall]
      /\ UNCHANGED <<chain, mirror, wire, losses, reloads>>
      /\ storage' = [storage EXCEPT ![b] = storage[b] \cup {note}]
      /\ notes' = [notes EXCEPT ![t] = notes[t] \cup {note}]
    BY DEF ConfirmDeposit, Confirmed, SavedNotes
<1>2. call[t] \in Transactions /\ b \in Browsers
    BY <1>1, CallKinds
<1>3. note \in SavedNoteType /\ note.note = call[t].note /\ note.used = FALSE
    BY <1>1, <1>2 DEF SavedNoteType, Transactions, CallsInv
<1>. HIDE DEF note, b
<1>4. /\ storage' \in [Browsers -> SUBSET SavedNoteType]
      /\ storage'[b] = storage[b] \cup {note}
      /\ \A c \in Browsers : storage[c] \subseteq storage'[c]
    BY <1>1, <1>2, <1>3 DEF TypeOK
<1>5. /\ ProgramInv' /\ Spent' = Spent
      /\ UNCHANGED <<deposits, indexed, network, landed, sent>>
      /\ call' \in [Tabs -> Transactions \cup {NoCall}]
      /\ Solvent' /\ NotesDiffer' /\ NetworkInv' /\ SignaturesInv' /\ CallsInv'
      /\ \A n \in Forgotten' : n \in Forgotten \/ n = call[t].note
    BY <1>1, <1>4, CallEnds
<1>6. TypeOK'
    <2>1. notes' \in [Tabs -> SUBSET SavedNoteType]
        BY <1>1, <1>3 DEF TypeOK
    <2>. QED
        BY <1>1, <1>4, <1>5, <2>1 DEF TypeOK
<1>7. CopiesInv'
    <2>1. ASSUME NEW u \in Tabs, NEW n \in notes'[u]
          PROVE  \E m \in storage'[BrowserOf[u]] : m.note = n.note
        <3>1. CASE n \in notes[u]
            <4>1. PICK m \in storage[BrowserOf[u]] : m.note = n.note
                BY <3>1 DEF CopiesInv
            <4>. QED
                BY <1>4, <4>1, ClientAssumption
        <3>2. CASE u = t /\ n = note
            BY <1>4, <3>2 DEF b
        <3>. QED
            BY <1>1, <2>1, <3>1, <3>2 DEF TypeOK
    <2>. QED
        BY <2>1 DEF CopiesInv
<1>8. UsedIsSpent'
    BY <1>1, <1>3, <1>5 DEF UsedIsSpent, TypeOK
<1>9. ForgottenInv'
    <2>1. call[t].note \notin Forgotten'
        BY <1>2, <1>3, <1>4 DEF Forgotten
    <2>2. Forgotten' \subseteq Forgotten
        BY <1>5, <2>1
    <2>3. losses \in Nat /\ reloads \in Nat
        BY Counters
    <2>4. losses' + reloads' = losses + reloads + 0
        BY <1>1, <2>3
    <2>. QED
        BY <2>2, <2>3, <2>4, ForgetsNone
<1>. QED
    BY <1>5, <1>6, <1>7, <1>8, <1>9

\* markNoteAsUsed keeps every note, and marks the notes of one nullifier only.
LEMMA MarkUsedParts ==
    ASSUME NEW saved \in SUBSET SavedNoteType, NEW nullifier
    PROVE  /\ MarkUsed(saved, nullifier) \in SUBSET SavedNoteType
           /\ \A n \in saved : \E m \in MarkUsed(saved, nullifier) :
                m.note = n.note /\ (n.used => m.used)
           /\ \A m \in MarkUsed(saved, nullifier) : \E n \in saved :
                m.note = n.note /\ (m.used => n.used \/ m.note = nullifier)
<1>. DEFINE mark(n) == IF n.note = nullifier THEN [n EXCEPT !.used = TRUE] ELSE n
<1>1. ASSUME NEW n \in saved
      PROVE  /\ mark(n) \in SavedNoteType /\ mark(n).note = n.note
             /\ n.used => mark(n).used
             /\ mark(n).used => n.used \/ n.note = nullifier
    <2>1. n \in SavedNoteType
        OBVIOUS
    <2>2. CASE n.note = nullifier
        BY <2>1, <2>2 DEF SavedNoteType
    <2>3. CASE n.note # nullifier
        BY <2>1, <2>3
    <2>. QED
        BY <2>2, <2>3
<1>2. MarkUsed(saved, nullifier) = {mark(n) : n \in saved}
    BY DEF MarkUsed
<1>. HIDE DEF mark
<1>. QED
    BY <1>1, <1>2

LEMMA IInvConfirmWithdraw ==
    ASSUME IInv, NEW t \in Tabs, ConfirmWithdraw(t)
    PROVE  IInv'
<1>. USE DEF IInv
<1>. DEFINE b == BrowserOf[t]
            x == call[t].note
<1>1. /\ call[t] # NoCall /\ call[t].kind = "withdraw" /\ Executed(call[t])
      /\ call' = [call EXCEPT ![t] = NoCall]
      /\ UNCHANGED <<chain, mirror, wire, losses, reloads>>
      /\ storage' = [storage EXCEPT ![b] = MarkUsed(storage[b], x)]
      /\ notes' = [notes EXCEPT ![t] = MarkUsed(notes[t], x)]
    BY DEF ConfirmWithdraw, Confirmed
<1>2. b \in Browsers /\ x \in Spent /\ \E n \in storage[b] : n.note = x
    BY <1>1, CallKinds DEF CallsInv
<1>. HIDE DEF b, x
<1>3. /\ storage[b] \in SUBSET SavedNoteType /\ notes[t] \in SUBSET SavedNoteType
    BY <1>2 DEF TypeOK
<1>4. /\ storage' \in [Browsers -> SUBSET SavedNoteType]
      /\ notes' \in [Tabs -> SUBSET SavedNoteType]
      /\ storage'[b] = MarkUsed(storage[b], x)
      /\ notes'[t] = MarkUsed(notes[t], x)
      /\ \A c \in Browsers \ {b} : storage'[c] = storage[c]
      /\ \A u \in Tabs \ {t} : notes'[u] = notes[u]
    BY <1>1, <1>2, <1>3, MarkUsedParts DEF TypeOK
<1>5. \A c \in Browsers : \A n \in storage[c] : \E m \in storage'[c] : m.note = n.note
    BY <1>3, <1>4, MarkUsedParts
<1>6. /\ ProgramInv' /\ Spent' = Spent
      /\ UNCHANGED <<deposits, indexed, network, landed, sent>>
      /\ call' \in [Tabs -> Transactions \cup {NoCall}]
      /\ Solvent' /\ NotesDiffer' /\ NetworkInv' /\ SignaturesInv' /\ CallsInv'
      /\ \A n \in Forgotten' : n \in Forgotten \/ n = x
    BY <1>1, <1>5, CallEnds DEF x
<1>7. TypeOK'
    BY <1>1, <1>4, <1>6 DEF TypeOK
<1>8. CopiesInv'
    <2>1. ASSUME NEW u \in Tabs, NEW n \in notes'[u]
          PROVE  \E m \in storage'[BrowserOf[u]] : m.note = n.note
        <3>1. \E o \in notes[u] : o.note = n.note
            BY <1>3, <1>4, MarkUsedParts
        <3>2. PICK m \in storage[BrowserOf[u]] : m.note = n.note
            BY <3>1 DEF CopiesInv
        <3>. QED
            BY <1>5, <3>2, ClientAssumption
    <2>. QED
        BY <2>1 DEF CopiesInv
<1>9. UsedIsSpent'
    <2>1. ASSUME NEW c \in Browsers, NEW n \in storage'[c], n.used
          PROVE  n.note \in Spent
        <3>1. CASE c = b
            <4>1. PICK o \in storage[b] :
                    n.note = o.note /\ (n.used => o.used \/ n.note = x)
                BY <1>3, <1>4, <3>1, MarkUsedParts
            <4>. QED
                BY <1>2, <2>1, <4>1 DEF UsedIsSpent
        <3>2. CASE c # b
            BY <1>4, <2>1, <3>2 DEF UsedIsSpent
        <3>. QED
            BY <3>1, <3>2
    <2>. QED
        BY <1>6, <2>1 DEF UsedIsSpent
<1>10. ForgottenInv'
    <2>1. x \notin Forgotten'
        BY <1>2, <1>5 DEF Forgotten
    <2>2. Forgotten' \subseteq Forgotten
        BY <1>6, <2>1
    <2>3. losses \in Nat /\ reloads \in Nat
        BY Counters
    <2>4. losses' + reloads' = losses + reloads + 0
        BY <1>1, <2>3
    <2>. QED
        BY <2>2, <2>3, <2>4, ForgetsNone
<1>. QED
    BY <1>6, <1>7, <1>8, <1>9, <1>10

\* The unspent leaves are finitely many, each with its amount.
LEMMA UnspentFinite ==
    ASSUME ProgramInv
    PROVE  /\ IsFiniteSet(Unspent)
           /\ \A i \in Unspent : Leaves[i].amount \in Nat
<1>1. /\ Len(deposits) \in Nat /\ DOMAIN Leaves = 1 .. Len(deposits)
      /\ \A i \in 1 .. Len(deposits) : Leaves[i] \in Commitments
    BY LeavesParts
<1>2. Unspent \in SUBSET (1 .. Len(deposits))
    BY <1>1 DEF Unspent
<1>3. IsFiniteSet(1 .. Len(deposits))
    BY <1>1, FS_Interval
<1>4. IsFiniteSet(Unspent)
    BY <1>2, <1>3, FS_Subset
<1>. QED
    BY <1>1, <1>2, <1>4, CommitmentParts

\* Money: a deposit that lands adds one unspent leaf, a withdrawal spends one.
LEMMA SolventDeposit ==
    ASSUME IInv, NEW tx \in network, tx.kind = "deposit", Land(tx)
    PROVE  Solvent'
<1>. USE DEF IInv
<1>. DEFINE n == Len(deposits)
            f == [i \in DOMAIN Leaves |-> Leaves[i].amount]
            g == [i \in DOMAIN Leaves' |-> Leaves'[i].amount]
            c == Commitment(tx.note, tx.amount)
<1>1. /\ tx.amount \in DepositAmounts /\ vault' = vault + tx.amount
      /\ Leaves \in Seq(Commitments) /\ DOMAIN Leaves = 1 .. n /\ Len(deposits) \in Nat
      /\ Leaves' = Append(Leaves, c)
      /\ \A i \in 1 .. n : Leaves'[i] = Leaves[i]
      /\ Leaves'[n + 1] = c
      /\ Spent' = Spent /\ UNCHANGED nullifier_records
      /\ c \in Commitments
    BY DepositLands, LeavesParts DEF Commitments
<1>2. DOMAIN Leaves' = 1 .. n + 1 /\ n \in Nat /\ c.note = tx.note /\ c.amount = tx.amount
    BY <1>1 DEF Commitment
<1>3. \A i \in 1 .. n : Leaves[i] \in Commitments
    BY LeavesParts
<1>4. tx.note \notin Spent
    <2>1. tx.note \in DepositNotes
        BY DEF DepositNotes
    <2>. QED
        BY <2>1, SpentAreLeaves DEF NotesDiffer
<1>. HIDE DEF c, n
<1>5. Unspent' = Unspent \cup {n + 1} /\ n + 1 \notin Unspent /\ Unspent \subseteq 1 .. n
    BY <1>1, <1>2, <1>4 DEF Unspent
<1>6. IsFiniteSet(Unspent)
    BY UnspentFinite
<1>7. /\ \A i \in Unspent : f[i] = g[i]
      /\ \A i \in Unspent \cup {n + 1} : g[i] \in Int
      /\ g[n + 1] = tx.amount
    <2>1. \A i \in 1 .. n : f[i] = g[i] /\ g[i] \in Nat
        BY <1>1, <1>2, <1>3, CommitmentParts
    <2>2. g[n + 1] = tx.amount
        <3>1. n + 1 \in DOMAIN Leaves'
            BY <1>2
        <3>2. g[n + 1] = Leaves'[n + 1].amount
            BY <3>1
        <3>. QED
            BY <1>1, <1>2, <3>2
    <2>3. tx.amount \in Nat
        BY <1>1, ClientAssumption
    <2>. HIDE DEF f, g
    <2>. QED
        BY <1>5, <2>1, <2>2, <2>3
<1>. HIDE DEF f, g
<1>8. SumFunctionOnSet(g, Unspent \cup {n + 1}) = SumFunctionOnSet(g, Unspent) + g[n + 1]
    BY <1>5, <1>6, <1>7, SumAdd
<1>9. SumFunctionOnSet(f, Unspent) = SumFunctionOnSet(g, Unspent)
    BY <1>6, <1>7, SumAgree
<1>10. vault = SumFunctionOnSet(f, Unspent)
    BY DEF Solvent, f
<1>11. vault' = SumFunctionOnSet(g, Unspent')
    BY <1>1, <1>5, <1>7, <1>8, <1>9, <1>10
<1>12. ToSet(Leaves) \subseteq ToSet(Leaves')
    BY <1>1, <1>2 DEF ToSet
<1>13. \A r \in nullifier_records' :
            Commitment(r.nullifier_hash, r.amount) \in ToSet(Leaves')
    BY <1>1, <1>12 DEF Solvent
<1>. QED
    BY <1>11, <1>13 DEF Solvent, g

\* The commitment a withdrawal proves is that of one unspent leaf.
LEMMA WithdrawnLeaf ==
    ASSUME IInv, NEW tx \in network, tx.kind = "withdraw"
    PROVE  \E i \in DOMAIN Leaves :
                /\ Leaves[i] = Commitment(tx.note, tx.amount)
                /\ \A j \in DOMAIN Leaves : Leaves[j].note = tx.note <=> j = i
<1>. USE DEF IInv
<1>1. PICK n \in 1 .. Len(deposits) : tx.root = FirstLeaves(n)
    BY DEF NetworkInv
<1>2. Commitment(tx.note, tx.amount) \in ToSet(FirstLeaves(n))
    BY <1>1 DEF NetworkInv
<1>3. /\ Len(deposits) \in Nat /\ DOMAIN Leaves = 1 .. Len(deposits)
      /\ n \in 0 .. Len(deposits)
    BY LeavesParts
<1>4. /\ FirstLeaves(n) \in Seq(Commitments) /\ Len(FirstLeaves(n)) = n
      /\ \A i \in 1 .. n : FirstLeaves(n)[i] = Leaves[i]
    BY <1>3, FirstLeavesParts
<1>5. PICK i \in 1 .. n : FirstLeaves(n)[i] = Commitment(tx.note, tx.amount)
    <2>1. DOMAIN FirstLeaves(n) = 1 .. n
        BY <1>4, LenProperties
    <2>. QED
        BY <1>2, <2>1 DEF ToSet
<1>6. i \in DOMAIN Leaves /\ Leaves[i] = Commitment(tx.note, tx.amount)
    BY <1>3, <1>4, <1>5
<1>7. Leaves[i].note = tx.note
    BY <1>6 DEF Commitment
<1>. QED
    BY <1>6, <1>7 DEF NotesDiffer

LEMMA SolventWithdraw ==
    ASSUME IInv, NEW tx \in network, tx.kind = "withdraw", Land(tx)
    PROVE  Solvent'
<1>. USE DEF IInv
<1>. DEFINE f == [i \in DOMAIN Leaves |-> Leaves[i].amount]
<1>1. /\ tx.note \notin Spent /\ vault' = vault - tx.amount
      /\ Leaves' = Leaves /\ Spent' = Spent \cup {tx.note}
      /\ \A r \in nullifier_records' : r \in nullifier_records \/
            (r.nullifier_hash = tx.note /\ r.amount = tx.amount)
    BY WithdrawLands
<1>2. PICK i \in DOMAIN Leaves :
            /\ Leaves[i] = Commitment(tx.note, tx.amount)
            /\ \A j \in DOMAIN Leaves : Leaves[j].note = tx.note <=> j = i
    BY WithdrawnLeaf
<1>3. i \in Unspent /\ Unspent' = Unspent \ {i}
    BY <1>1, <1>2 DEF Unspent
<1>4. IsFiniteSet(Unspent) /\ \A j \in Unspent : f[j] \in Int
    BY UnspentFinite DEF Unspent
<1>5. f[i] = tx.amount
    BY <1>2 DEF Commitment
<1>6. vault = SumFunctionOnSet(f, Unspent)
    BY DEF Solvent
<1>. HIDE DEF f
<1>7. /\ SumFunctionOnSet(f, Unspent) = f[i] + SumFunctionOnSet(f, Unspent \ {i})
      /\ f[i] \in Int /\ SumFunctionOnSet(f, Unspent \ {i}) \in Int
    <2>1. IsFiniteSet(Unspent \ {i})
        BY <1>4, FS_Subset
    <2>. QED
        BY <1>3, <1>4, <2>1, SumTakes
<1>8. vault' = SumFunctionOnSet(f, Unspent')
    <2>. DEFINE rest == SumFunctionOnSet(f, Unspent \ {i})
    <2>1. vault = f[i] + rest /\ rest \in Int /\ f[i] \in Int
        BY <1>6, <1>7
    <2>. HIDE DEF rest
    <2>2. vault' = rest
        BY <1>1, <1>5, <2>1
    <2>. QED
        BY <1>3, <2>2 DEF rest
<1>9. Commitment(tx.note, tx.amount) \in ToSet(Leaves)
    BY <1>2 DEF ToSet
<1>10. \A r \in nullifier_records' :
            Commitment(r.nullifier_hash, r.amount) \in ToSet(Leaves')
    BY <1>1, <1>9 DEF Solvent
<1>. QED
    BY <1>1, <1>8, <1>10 DEF Solvent, f

\* What landing a transaction does to the network and the tabs.
LEMMA LandsOnce ==
    ASSUME SignaturesInv, TypeOK, NEW tx \in network, Land(tx)
    PROVE  /\ network' = network \ {tx} /\ landed' = landed \cup {tx.signature}
           /\ UNCHANGED <<indexed, sent, storage, notes, call, losses, reloads>>
           /\ SignaturesInv'
           /\ landed' \subseteq 1 .. sent'
           /\ \A t \in Tabs : call[t] # NoCall /\ call[t].signature = tx.signature
                => call[t] = tx
<1>1. /\ network' = network \ {tx} /\ landed' = landed \cup {tx.signature}
      /\ UNCHANGED <<indexed, sent, storage, notes, call, losses, reloads>>
    BY DEF Land, mirror, browser
<1>2. SignaturesInv'
    <2>. HIDE DEF NoCall
    <2>1. \A ty \in network' : ty.signature <= sent' /\ ty.signature \notin landed'
        BY <1>1 DEF SignaturesInv
    <2>. QED
        BY <1>1, <2>1 DEF SignaturesInv
<1>3. landed' \subseteq 1 .. sent'
    <2>1. tx.signature \in 1 .. MaxSent /\ tx.signature <= sent
        BY DEF SignaturesInv, TypeOK, Transactions
    <2>2. tx.signature \in 1 .. sent
        BY <2>1, ClientAssumption DEF TypeOK
    <2>3. landed \subseteq 1 .. sent
        BY DEF TypeOK
    <2>. QED
        BY <1>1, <2>2, <2>3
<1>4. \A t \in Tabs : call[t] # NoCall /\ call[t].signature = tx.signature => call[t] = tx
    BY DEF SignaturesInv
<1>. QED
    BY <1>1, <1>2, <1>3, <1>4

LEMMA IInvLandDeposit ==
    ASSUME IInv, NEW tx \in network, tx.kind = "deposit", Land(tx)
    PROVE  IInv'
<1>. USE DEF IInv
<1>1. /\ ProgramInv'
      /\ Len(deposits') = Len(deposits) + 1
      /\ \A i \in 1 .. Len(deposits) : Leaves'[i] = Leaves[i]
      /\ Leaves'[Len(deposits) + 1] = Commitment(tx.note, tx.amount)
      /\ LeafNotes' = LeafNotes \cup {tx.note} /\ Spent' = Spent
      /\ \A n \in 0 .. Len(deposits) : FirstLeaves(n)' = FirstLeaves(n)
    BY DepositLands
<1>2. /\ network' = network \ {tx} /\ landed' = landed \cup {tx.signature}
      /\ UNCHANGED <<indexed, sent, storage, notes, call, losses, reloads>>
      /\ SignaturesInv' /\ landed' \subseteq 1 .. sent'
    BY LandsOnce
<1>3. Len(deposits) \in Nat /\ DOMAIN Leaves = 1 .. Len(deposits)
    BY LeavesParts
<1>4. DOMAIN Leaves' = 1 .. Len(deposits) + 1
    BY <1>1 DEF Leaves
<1>5. tx.note \notin LeafNotes /\ tx.note \in DepositNotes
    BY DEF NotesDiffer, DepositNotes
<1>6. DepositNotes' = DepositNotes \ {tx.note}
    BY <1>2 DEF DepositNotes, NotesDiffer
<1>7. TypeOK'
    BY <1>1, <1>2, <1>3 DEF TypeOK
<1>8. NotesDiffer'
    <2>1. ASSUME NEW i \in DOMAIN Leaves', NEW j \in DOMAIN Leaves',
                 Leaves'[i].note = Leaves'[j].note
          PROVE  i = j
        <3>1. \A k \in 1 .. Len(deposits) : Leaves'[k].note \in LeafNotes
            BY <1>1, <1>3 DEF LeafNotes
        <3>2. Leaves'[Len(deposits) + 1].note \notin LeafNotes
            BY <1>1, <1>5 DEF Commitment
        <3>3. CASE i = Len(deposits) + 1
            BY <1>3, <1>4, <2>1, <3>1, <3>2, <3>3
        <3>4. CASE j = Len(deposits) + 1
            BY <1>3, <1>4, <2>1, <3>1, <3>2, <3>4
        <3>5. CASE i \in 1 .. Len(deposits) /\ j \in 1 .. Len(deposits)
            BY <1>1, <1>3, <2>1, <3>5 DEF NotesDiffer
        <3>. QED
            BY <1>3, <1>4, <3>3, <3>4, <3>5
    <2>2. LeafNotes' \cap DepositNotes' = {}
        BY <1>1, <1>6 DEF NotesDiffer
    <2>. QED
        BY <1>2, <2>1, <2>2 DEF NotesDiffer
<1>9. NetworkInv'
    <2>1. ASSUME NEW ty \in network', ty.kind = "withdraw"
          PROVE  \E n \in 1 .. Len(deposits') : ty.root = FirstLeaves(n)'
        <3>1. PICK n \in 1 .. Len(deposits) : ty.root = FirstLeaves(n)
            BY <1>2, <2>1 DEF NetworkInv
        <3>2. n \in 1 .. Len(deposits') /\ n \in 0 .. Len(deposits)
            BY <1>1, <1>3
        <3>. QED
            BY <1>1, <3>1, <3>2
    <2>. QED
        BY <1>2, <2>1 DEF NetworkInv
<1>10. CallsInv'
    <2>1. ASSUME NEW u \in Tabs, call[u].kind = "deposit"
          PROVE  /\ call[u].amount \in DepositAmounts
                 /\ call[u].note \in LeafNotes' => call[u].signature \in landed'
                 /\ \A ty \in network' :
                        ty.kind = "deposit" /\ ty.note = call[u].note => ty = call[u]
        <3>1. /\ call[u].amount \in DepositAmounts
              /\ call[u].note \in LeafNotes => call[u].signature \in landed
              /\ \A ty \in network :
                    ty.kind = "deposit" /\ ty.note = call[u].note => ty = call[u]
            BY <2>1 DEF CallsInv, Executed
        <3>2. CASE call[u].note = tx.note
            BY <1>2, <3>1, <3>2
        <3>3. CASE call[u].note # tx.note
            BY <1>1, <1>2, <3>1, <3>3
        <3>. QED
            BY <3>2, <3>3
    <2>2. ASSUME NEW u \in Tabs, call[u].kind = "withdraw"
          PROVE  /\ call[u].signature \in landed' => call[u].note \in Spent'
                 /\ \E m \in storage'[BrowserOf[u]] : m.note = call[u].note
        <3>1. call[u].signature # tx.signature
            BY <2>2, LandsOnce, CallKinds
        <3>. QED
            BY <1>1, <1>2, <2>2, <3>1 DEF CallsInv, Executed
    <2>. QED
        BY <1>2, <2>1, <2>2 DEF CallsInv, Executed
<1>11. CopiesInv' /\ UsedIsSpent'
    BY <1>1, <1>2 DEF CopiesInv, UsedIsSpent
<1>12. Solvent'
    BY SolventDeposit
<1>13. ForgottenInv'
    <2>1. Forgotten' \subseteq Forgotten
        BY <1>1, <1>2, <1>5, <1>6 DEF Forgotten
    <2>2. losses \in Nat /\ reloads \in Nat
        BY Counters
    <2>3. losses' + reloads' = losses + reloads + 0
        BY <1>2, <2>2
    <2>. QED
        BY <2>1, <2>2, <2>3, ForgetsNone
<1>. QED
    BY <1>1, <1>2, <1>7, <1>8, <1>9, <1>10, <1>11, <1>12, <1>13

LEMMA IInvLandWithdraw ==
    ASSUME IInv, NEW tx \in network, tx.kind = "withdraw", Land(tx)
    PROVE  IInv'
<1>. USE DEF IInv
<1>1. /\ ProgramInv' /\ UNCHANGED deposits
      /\ Leaves' = Leaves /\ LeafNotes' = LeafNotes /\ Spent' = Spent \cup {tx.note}
    BY WithdrawLands
<1>2. /\ network' = network \ {tx} /\ landed' = landed \cup {tx.signature}
      /\ UNCHANGED <<indexed, sent, storage, notes, call, losses, reloads>>
      /\ SignaturesInv' /\ landed' \subseteq 1 .. sent'
    BY LandsOnce
<1>3. DepositNotes' = DepositNotes
    BY <1>2 DEF DepositNotes
<1>4. TypeOK'
    BY <1>1, <1>2 DEF TypeOK
<1>5. NotesDiffer' /\ NetworkInv'
    BY <1>1, <1>2, <1>3 DEF NotesDiffer, NetworkInv, FirstLeaves
<1>6. CallsInv'
    <2>1. ASSUME NEW u \in Tabs, call[u].kind = "deposit"
          PROVE  /\ call[u].amount \in DepositAmounts
                 /\ call[u].note \in LeafNotes' => call[u].signature \in landed'
                 /\ \A ty \in network' :
                        ty.kind = "deposit" /\ ty.note = call[u].note => ty = call[u]
        BY <1>1, <1>2, <2>1 DEF CallsInv, Executed
    <2>2. ASSUME NEW u \in Tabs, call[u].kind = "withdraw"
          PROVE  /\ call[u].signature \in landed' => call[u].note \in Spent'
                 /\ \E m \in storage'[BrowserOf[u]] : m.note = call[u].note
        <3>1. call[u].signature = tx.signature => call[u] = tx
            BY <2>2, LandsOnce, CallKinds
        <3>. QED
            BY <1>1, <1>2, <2>2, <3>1 DEF CallsInv, Executed
    <2>. QED
        BY <1>2, <2>1, <2>2 DEF CallsInv, Executed
<1>7. CopiesInv' /\ UsedIsSpent'
    BY <1>1, <1>2 DEF CopiesInv, UsedIsSpent
<1>8. Solvent'
    BY SolventWithdraw
<1>9. ForgottenInv'
    <2>1. Forgotten' = Forgotten
        BY <1>1, <1>2, <1>3 DEF Forgotten
    <2>. QED
        BY <1>2, <2>1 DEF ForgottenInv
<1>. QED
    BY <1>1, <1>2, <1>4, <1>5, <1>6, <1>7, <1>8, <1>9

LEMMA IInvNext ==
    ASSUME IInv, [Next]_vars
    PROVE  IInv'
<1>1. CASE InitializePool
    BY <1>1, IInvInitializePool
<1>2. CASE Index
    BY <1>2, IInvIndex
<1>3. ASSUME NEW tx \in network, Land(tx) \/ Drop(tx)
      PROVE  IInv'
    <2>1. tx.kind \in {"deposit", "withdraw"}
        BY DEF IInv, TypeOK, Transactions
    <2>. QED
        BY <1>3, <2>1, IInvLandDeposit, IInvLandWithdraw, IInvDrop
<1>4. ASSUME NEW t \in Tabs, NEW note \in Notes, NEW amount \in DepositAmounts,
             NEW listed \in 0 .. indexed, SendDeposit(t, note, amount, listed)
      PROVE  IInv'
    BY <1>4, IInvSendDeposit
<1>5. ASSUME NEW t \in Tabs, NEW note \in Notes, NEW listed \in 0 .. indexed,
             NEW leaves \in 0 .. indexed, SendWithdraw(t, note, listed, leaves)
      PROVE  IInv'
    BY <1>5, IInvSendWithdraw
<1>6. ASSUME NEW t \in Tabs,
             ConfirmDeposit(t) \/ ConfirmWithdraw(t) \/ Throw(t) \/ Reload(t)
      PROVE  IInv'
    BY <1>6, IInvConfirmDeposit, IInvConfirmWithdraw, IInvThrow, IInvReload
<1>7. CASE UNCHANGED vars
    BY <1>7, IInvRests
<1>. QED
    BY <1>1, <1>2, <1>3, <1>4, <1>5, <1>6, <1>7 DEF Next

LEMMA Invariance == Spec => []IInv
<1>1. Init => IInv
    BY IInvInit
<1>2. IInv /\ [Next]_vars => IInv'
    BY IInvNext
<1>. QED
    BY <1>1, <1>2, PTL DEF Spec

-----------------------------------------------------------------------------
(***************************************************************************)
(* The theorems.                                                           *)
(***************************************************************************)

\* The state outside the program is well typed.
THEOREM TypeCorrect == Spec => []TypeOK
<1>1. IInv => TypeOK
    BY DEF IInv
<1>. QED
    BY <1>1, Invariance, PTL

\* The vault holds exactly what was deposited and not withdrawn, and each record
\* is of a note deposited with the amount paid.
THEOREM SolventHolds == Spec => []Solvent
<1>1. IInv => Solvent
    BY DEF IInv
<1>. QED
    BY <1>1, Invariance, PTL

\* A note a browser marks used was paid out.
THEOREM UsedIsSpentHolds == Spec => []UsedIsSpent
<1>1. IInv => UsedIsSpent
    BY DEF IInv
<1>. QED
    BY <1>1, Invariance, PTL

\* The root of a tree is in the ring if each deposit posted that of its own tree
\* and fewer deposits than the ring has slots came after.
LEMMA RootKnown ==
    ASSUME ProgramInv, Chained, NEW n \in 1 .. Len(deposits),
           Len(deposits) - n < ROOT_HISTORY_SIZE, FirstLeaves(n) \in Roots
    PROVE  Program!is_known_root(pool, FirstLeaves(n))
<1>1. PP!RootWindow
    BY ProgramConstants, PP!RingGivesWindow DEF ProgramInv, PP!IInv
<1>2. /\ Len(deposits) \in Nat /\ pool # NoPool /\ deposits \in Seq(PP!DepositEvent)
    <2>1. deposits \in Seq(PP!DepositEvent)
        BY DEF ProgramInv, PP!IInv, PP!TypeOK
    <2>2. Len(deposits) \in Nat /\ (pool = NoPool => deposits = << >>)
        BY LeavesParts
    <2>. QED
        BY <2>1, <2>2
<1>. DEFINE j == Len(deposits) - n
<1>3. j \in PP!RootSlots
    BY <1>2, ClientAssumption DEF PP!RootSlots
<1>4. Len(deposits) - j = n
    BY <1>2
<1>5. PP!RootAt(deposits, n) = FirstLeaves(n)
    <2>1. n \in DOMAIN deposits
        BY <1>2
    <2>. QED
        BY <2>1 DEF PP!RootAt, Chained
<1>. HIDE DEF j
<1>6. FirstLeaves(n) \in PP!RecentRoots
    BY <1>3, <1>4, <1>5 DEF PP!RecentRoots
<1>7. PP!is_known_root(pool, FirstLeaves(n))
    BY <1>1, <1>2, <1>6 DEF PP!RootWindow
<1>. QED
    BY <1>7 DEF PP!is_known_root, Program!is_known_root, PP!RootSlots, Program!RootSlots

\* While no two deposits have raced, a withdrawal under way is accepted if its
\* note is unspent and its root recent.
THEOREM WithdrawalsAcceptedHolds == Spec => []WithdrawalsAccepted
<1>1. ASSUME IInv
      PROVE  WithdrawalsAccepted
    <2>. SUFFICES ASSUME Chained, NEW tx \in network, tx.kind = "withdraw",
                         tx.note \notin Spent,
                         Len(deposits) - Len(tx.root) < ROOT_HISTORY_SIZE
                  PROVE  /\ vault >= tx.amount
                         /\ Program!is_known_root(pool, tx.root)
        BY DEF WithdrawalsAccepted
    <2>. DEFINE f == [i \in DOMAIN Leaves |-> Leaves[i].amount]
    <2>1. PICK n \in 1 .. Len(deposits) : tx.root = FirstLeaves(n)
        BY <1>1 DEF IInv, NetworkInv
    <2>2. Len(tx.root) = n
        BY <1>1, <2>1, LeavesParts, FirstLeavesParts DEF IInv
    <2>3. tx.root \in Roots
        BY <1>1 DEF IInv, TypeOK, Transactions
    <2>4. Program!is_known_root(pool, tx.root)
        BY <1>1, <2>1, <2>2, <2>3, RootKnown DEF IInv
    <2>5. PICK i \in DOMAIN Leaves :
            Leaves[i] = Commitment(tx.note, tx.amount) /\ Leaves[i].note = tx.note
        BY <1>1, WithdrawnLeaf
    <2>6. i \in Unspent /\ f[i] = tx.amount
        BY <2>5 DEF Unspent, Commitment
    <2>7. IsFiniteSet(Unspent) /\ \A k \in Unspent : f[k] \in Nat
        BY <1>1, UnspentFinite DEF IInv, Unspent
    <2>8. vault = SumFunctionOnSet(f, Unspent)
        BY <1>1 DEF IInv, Solvent
    <2>. HIDE DEF f
    <2>9. f[i] <= SumFunctionOnSet(f, Unspent) /\ SumFunctionOnSet(f, Unspent) \in Nat
        BY <2>6, <2>7, SumBounds, SumNat
    <2>. QED
        BY <2>4, <2>6, <2>7, <2>8, <2>9
<1>. QED
    BY <1>1, Invariance, PTL

\* Each confirmation that does not arrive and each reload costs one note at most,
\* and nothing else costs any.
THEOREM OneNotePerLossHolds == Spec => []OneNotePerLoss
<1>1. ASSUME IInv
      PROVE  OneNotePerLoss
    <2>. DEFINE f == [i \in NotesLost |-> Leaves[i].note]
                a == Cardinality(NotesLost)
                b == Cardinality(Forgotten)
    <2>1. IsFiniteSet(Forgotten) /\ b <= losses + reloads
        BY <1>1 DEF IInv, ForgottenInv
    <2>2. f \in Injection(NotesLost, Forgotten)
        <3>1. \A i \in NotesLost : Leaves[i].note \in Forgotten
            BY DEF NotesLost, Forgotten, LeafNotes
        <3>2. \A i, k \in NotesLost : Leaves[i].note = Leaves[k].note => i = k
            BY <1>1 DEF IInv, NotesDiffer, NotesLost
        <3>. QED
            BY <3>1, <3>2, Fun_IsInj
    <2>3. IsFiniteSet(NotesLost) /\ a <= b
        BY <2>1, <2>2, FS_Injection
    <2>4. a \in Nat /\ b \in Nat /\ losses \in Nat /\ reloads \in Nat
        BY <1>1, <2>1, <2>3, FS_CardinalityType, Counters DEF IInv
    <2>. HIDE DEF a, b
    <2>5. a <= losses + reloads
        BY <2>1, <2>3, <2>4
    <2>. QED
        BY <2>5 DEF OneNotePerLoss, a
<1>. QED
    BY <1>1, Invariance, PTL

\* No step of any tab takes a note out of a browser or makes one unused again.
THEOREM NotesKeptHolds == Spec => NotesKept
<1>. DEFINE Kept == \A b \in Browsers : \A n \in storage[b] :
                        \E m \in storage'[b] : m.note = n.note /\ (n.used => m.used)
<1>1. ASSUME TypeOK, [Next]_vars
      PROVE  Kept
    <2>1. CASE UNCHANGED storage
        BY <2>1
    <2>2. ASSUME NEW t \in Tabs, ConfirmDeposit(t)
          PROVE  Kept
        <3>. DEFINE note == [note |-> call[t].note, amount |-> call[t].amount,
                             used |-> FALSE]
        <3>1. storage' = [storage EXCEPT ![BrowserOf[t]] = storage[BrowserOf[t]] \cup {note}]
            BY <2>2 DEF ConfirmDeposit, SavedNotes
        <3>. HIDE DEF note
        <3>2. \A b \in Browsers : storage[b] \subseteq storage'[b]
            BY <1>1, <3>1 DEF TypeOK
        <3>. QED
            BY <3>2
    <2>3. ASSUME NEW t \in Tabs, ConfirmWithdraw(t)
          PROVE  Kept
        <3>. DEFINE x == call[t].note
        <3>1. storage' = [storage EXCEPT ![BrowserOf[t]] = MarkUsed(storage[BrowserOf[t]], x)]
            BY <2>3 DEF ConfirmWithdraw
        <3>. HIDE DEF x
        <3>2. ASSUME NEW b \in Browsers
              PROVE  storage'[b] = storage[b] \/ storage'[b] = MarkUsed(storage[b], x)
            BY <1>1, <3>1 DEF TypeOK
        <3>3. \A b \in Browsers : storage[b] \in SUBSET SavedNoteType
            BY <1>1 DEF TypeOK
        <3>. QED
            BY <3>2, <3>3, MarkUsedParts
    <2>4. CASE \E t \in Tabs : ConfirmDeposit(t) \/ ConfirmWithdraw(t)
        BY <2>2, <2>3, <2>4
    <2>5. CASE ~ \E t \in Tabs : ConfirmDeposit(t) \/ ConfirmWithdraw(t)
        <3>1. UNCHANGED storage
            BY <1>1, <2>5
            DEF Next, InitializePool, Index, Land, Drop, SendDeposit, SendWithdraw, Send,
                Throw, Reload, browser, vars
        <3>. QED
            BY <2>1, <3>1
    <2>. QED
        BY <2>4, <2>5
<1>. QED
    BY <1>1, TypeCorrect, PTL DEF Spec, NotesKept
=============================================================================
