--------------------------- MODULE IndexerProofs ---------------------------
(***************************************************************************)
(* Theorems about the indexer, for every chain, page size, page limit and  *)
(* set of faults, and any number of failed calls and restarts.             *)
(***************************************************************************)
EXTENDS Indexer, FiniteSetTheorems, SequenceTheorems, TLAPS

Transactions ==
    [kind : {"deposit"}, leaf_index : LeafIndices]
        \cup [kind : {"withdraw"}, nullifier_hash : Nullifiers]
        \cup [kind : {"other"}]

\* The chain numbers its deposits: no two have the same leaf index.
ChainInv ==
    /\ chain \in Seq(Transactions)
    /\ Cardinality(Deposits) <= MaxDeposits
    /\ \A t \in Deposits : chain[t].leaf_index < Cardinality(Deposits)
    /\ \A t, u \in Deposits : chain[t].leaf_index = chain[u].leaf_index => t = u

Consecutive(sigs, step) ==
    \A k \in DOMAIN sigs : sigs[k] = sigs[1] + step * (k - 1)

\* Every event up to a signature is stored or was given up.
DoneUpTo(signature) == \A t \in 1 .. signature : Stored(t) \/ t \in lost

\* Rows startup has still to add are rows of the table.
TodoStored == IsFiniteSet(commitments) /\ \A k \in DOMAIN todo : todo[k] \in commitments

\* What a tick has collected, newest first, is a stretch of the chain without a
\* gap, and `before` is where it ends.
PagingInv ==
    pc = "paging" =>
        /\ Consecutive(all_sigs, -1)
        /\ before = IF all_sigs = << >> THEN None ELSE Last(all_sigs)
        /\ last_processed \in {last_signature, None}
        /\ newest_signature = None

\* What a tick has still to process, oldest first, has no gap either, and what is
\* older than it is done.
ProcessingInv ==
    pc \in {"processing", "adding"} =>
        /\ Consecutive(all_sigs, 1)
        /\ all_sigs # << >> => DoneUpTo(Current - 1)
        /\ DoneUpTo(newest_signature)

\* Between save_deposit and add_leaf the row of the current signature is there.
AddingInv ==
    pc = "adding" =>
        all_sigs # << >> /\ Current \in Deposits /\ RowOf(Current) \in commitments

\* Signatures the process remembers are on the chain.
OnChain ==
    /\ last_signature <= Len(chain)
    /\ newest_signature <= Len(chain)
    /\ \A k \in DOMAIN all_sigs : all_sigs[k] <= Len(chain)

IInv ==
    /\ ChainInv /\ TypeOK /\ DbFaithful /\ TodoStored /\ TreeIsPrefix
    /\ OnChain /\ PagingInv /\ AddingInv /\ ProcessingInv /\ NothingSkipped

-----------------------------------------------------------------------------
(***************************************************************************)
(* Sequences.                                                              *)
(***************************************************************************)

\* A function on 1 .. n is a sequence of length n.
LEMMA FunctionIsSeq ==
    ASSUME NEW S, NEW n \in Nat, NEW f \in [1 .. n -> S]
    PROVE  f \in Seq(S) /\ Len(f) = n /\ DOMAIN f = 1 .. n
<1>1. f \in Seq(S)
    BY SeqDef
<1>2. Len(f) \in Nat /\ DOMAIN f = 1 .. Len(f) /\ DOMAIN f = 1 .. n
    BY <1>1, LenProperties
<1>. QED
    BY <1>1, <1>2

\* Reverse(s) has the elements of s in the opposite order.
LEMMA Reversed ==
    ASSUME NEW S, NEW s \in Seq(S)
    PROVE  /\ Reverse(s) \in Seq(S)
           /\ Len(Reverse(s)) = Len(s)
           /\ DOMAIN Reverse(s) = 1 .. Len(s)
           /\ \A k \in 1 .. Len(s) : Reverse(s)[k] = s[Len(s) - k + 1]
<1>1. Len(s) \in Nat /\ \A k \in 1 .. Len(s) : s[k] \in S
    BY LenProperties, ElementOfSeq
<1>2. Reverse(s) \in [1 .. Len(s) -> S]
    BY <1>1 DEF Reverse
<1>. QED
    BY <1>1, <1>2, FunctionIsSeq DEF Reverse

-----------------------------------------------------------------------------
(***************************************************************************)
(* The chain.                                                              *)
(***************************************************************************)

\* Nothing on the chain changes when a transaction is appended.
LEMMA Appended ==
    ASSUME chain \in Seq(Transactions), NEW tx \in Transactions,
           chain' = Append(chain, tx)
    PROVE  /\ chain' \in Seq(Transactions)
           /\ Len(chain) \in Nat /\ Len(chain') = Len(chain) + 1
           /\ \A t \in 1 .. Len(chain) : chain'[t] = chain[t]
           /\ chain'[Len(chain) + 1] = tx
    BY AppendProperties, LenProperties

LEMMA LandAppends ==
    ASSUME ChainInv, TypeOK, Land
    PROVE  /\ \E tx \in Transactions : chain' = Append(chain, tx)
           /\ UNCHANGED <<db, redis, pc, locals, faults, crashes, history>>
           /\ ChainInv'
<1>. MaxDeposits \in Nat /\ MaxTxs \in Nat
    BY IndexerAssumption
<1>. Len(chain) \in Nat /\ DOMAIN chain = 1 .. Len(chain)
    BY LenProperties DEF ChainInv
<1>1. IsFiniteSet(Deposits) /\ Cardinality(Deposits) \in Nat
    <2>1. IsFiniteSet(1 .. Len(chain)) /\ Deposits \subseteq 1 .. Len(chain)
        BY FS_Interval DEF Deposits
    <2>. QED
        BY <2>1, FS_Subset, FS_CardinalityType
<1>2. CASE LandDeposit
    <2>. DEFINE n == Cardinality(Deposits)
                tx == [kind |-> "deposit", leaf_index |-> n]
    <2>1. tx \in Transactions /\ chain' = Append(chain, tx)
        BY <1>1, <1>2 DEF LandDeposit, Transactions, LeafIndices
    <2>2. /\ chain' \in Seq(Transactions)
          /\ Len(chain') = Len(chain) + 1
          /\ \A t \in 1 .. Len(chain) : chain'[t] = chain[t]
          /\ chain'[Len(chain) + 1] = tx
        BY <2>1, Appended DEF ChainInv
    <2>3. Deposits' = Deposits \cup {Len(chain) + 1}
        BY <2>2 DEF Deposits
    <2>4. Cardinality(Deposits)' = n + 1
        <3>1. Len(chain) + 1 \notin Deposits
            BY DEF Deposits
        <3>. QED
            BY <1>1, <2>3, <3>1, FS_AddElement
    <2>5. \A t \in Deposits : /\ chain'[t] = chain[t]
                              /\ chain[t].leaf_index \in Int
                              /\ chain[t].leaf_index < n
        <3>1. \A t \in Deposits : chain'[t] = chain[t] /\ chain[t] \in Transactions
            BY <2>2, ElementOfSeq DEF Deposits, ChainInv
        <3>. QED
            BY <3>1 DEF ChainInv, Deposits, Transactions, LeafIndices
    <2>6. chain'[Len(chain) + 1].leaf_index = n
        BY <2>2
    <2>. HIDE DEF tx
    <2>7. \A t \in Deposits' : chain'[t].leaf_index < n + 1
        BY <1>1, <2>3, <2>5, <2>6
    <2>8. \A t, u \in Deposits' : chain'[t].leaf_index = chain'[u].leaf_index => t = u
        BY <1>1, <2>3, <2>5, <2>6 DEF ChainInv
    <2>9. n < MaxDeposits
        BY <1>2 DEF LandDeposit
    <2>10. ChainInv'
        BY <1>1, <2>2, <2>4, <2>7, <2>8, <2>9 DEF ChainInv
    <2>. QED
        BY <1>2, <2>1, <2>10 DEF LandDeposit
<1>3. ASSUME NEW tx \in Transactions, tx.kind # "deposit",
             chain' = Append(chain, tx)
      PROVE  ChainInv'
    <2>1. /\ chain' \in Seq(Transactions)
          /\ Len(chain') = Len(chain) + 1
          /\ \A t \in 1 .. Len(chain) : chain'[t] = chain[t]
          /\ chain'[Len(chain) + 1] = tx
        BY <1>3, Appended DEF ChainInv
    <2>2. Deposits' = Deposits
        BY <1>3, <2>1 DEF Deposits
    <2>. QED
        BY <2>1, <2>2 DEF ChainInv, Deposits
<1>4. ASSUME NEW n \in Nullifiers, LandWithdraw(n)
      PROVE  /\ \E tx \in Transactions : tx.kind # "deposit" /\ chain' = Append(chain, tx)
             /\ UNCHANGED <<db, redis, pc, locals, faults, crashes, history>>
    BY <1>4 DEF LandWithdraw, Transactions
<1>5. CASE LandOther
    BY <1>3, <1>5 DEF LandOther, Transactions
<1>. QED
    BY <1>2, <1>3, <1>4, <1>5 DEF Land, LandDeposit

-----------------------------------------------------------------------------
(***************************************************************************)
(* The rows startup adds.                                                  *)
(***************************************************************************)

\* Two rows with the same leaf index are the same row.
LEMMA RowsDiffer ==
    ASSUME ChainInv, DbFaithful
    PROVE  \A r, s \in commitments : r.leaf_index = s.leaf_index => r = s
<1>. SUFFICES ASSUME NEW r \in commitments, NEW s \in commitments,
                     r.leaf_index = s.leaf_index
              PROVE  r = s
    OBVIOUS
<1>1. /\ r.tx_signature \in Deposits /\ s.tx_signature \in Deposits
      /\ r = RowOf(r.tx_signature) /\ s = RowOf(s.tx_signature)
    BY DEF DbFaithful
<1>2. /\ r.leaf_index = chain[r.tx_signature].leaf_index
      /\ s.leaf_index = chain[s.tx_signature].leaf_index
    BY <1>1 DEF RowOf
<1>3. r.tx_signature = s.tx_signature
    BY <1>1, <1>2 DEF ChainInv
<1>. QED
    BY <1>1, <1>3

\* There is such an order: a row's place is how many rows have at most its index.
LEMMA RowsSorted ==
    ASSUME ChainInv, TypeOK, DbFaithful, IsFiniteSet(commitments)
    PROVE  get_commitments \in [1 .. Cardinality(commitments) -> commitments]
<1>. DEFINE n == Cardinality(commitments)
            UpTo(r) == {s \in commitments : s.leaf_index <= r.leaf_index}
            place == [r \in commitments |-> Cardinality(UpTo(r))]
<1>1. n \in Nat
    BY FS_CardinalityType
<1>2. \A r \in commitments : r.leaf_index \in Int
    BY DEF TypeOK, Rows, LeafIndices
<1>3. ASSUME NEW r \in commitments
      PROVE  IsFiniteSet(UpTo(r)) /\ Cardinality(UpTo(r)) \in 1 .. n
    <2>1. UpTo(r) \in SUBSET commitments /\ r \in UpTo(r)
        BY <1>2
    <2>2. IsFiniteSet(UpTo(r)) /\ Cardinality(UpTo(r)) <= n
        BY <2>1, FS_Subset
    <2>3. Cardinality(UpTo(r)) \in Nat /\ Cardinality(UpTo(r)) # 0
        BY <2>1, <2>2, FS_CardinalityType, FS_EmptySet
    <2>. QED
        BY <1>1, <2>2, <2>3
<1>4. ASSUME NEW r \in commitments, NEW s \in commitments,
             r.leaf_index < s.leaf_index
      PROVE  place[r] < place[s]
    <2>1. UpTo(r) \in SUBSET UpTo(s) /\ s \in UpTo(s) /\ s \notin UpTo(r)
        BY <1>2, <1>4
    <2>2. Cardinality(UpTo(r)) <= Cardinality(UpTo(s))
        BY <1>3, <2>1, FS_Subset
    <2>3. Cardinality(UpTo(s)) # Cardinality(UpTo(r))
        BY <1>3, <2>1, FS_Subset
    <2>4. Cardinality(UpTo(r)) < Cardinality(UpTo(s))
        BY <1>3, <2>2, <2>3
    <2>. QED
        BY <2>4
<1>5. place \in [commitments -> 1 .. n]
    BY <1>3
<1>. HIDE DEF n, place
<1>6. place \in Injection(commitments, 1 .. n)
    <2>1. \A r, s \in commitments : place[r] = place[s] => r = s
        <3>. SUFFICES ASSUME NEW r \in commitments, NEW s \in commitments, r # s
                      PROVE  place[r] # place[s]
            OBVIOUS
        <3>1. r.leaf_index < s.leaf_index \/ s.leaf_index < r.leaf_index
            BY <1>2, RowsDiffer
        <3>2. place[r] < place[s] \/ place[s] < place[r]
            BY <1>4, <3>1
        <3>3. place[r] \in Int /\ place[s] \in Int
            BY <1>5
        <3>. QED
            BY <3>2, <3>3
    <2>. QED
        BY <1>5, <2>1 DEF Injection, IsInjective
<1>7. \A k \in 1 .. n : \E r \in commitments : place[r] = k
    <2>1. IsFiniteSet(1 .. n) /\ Cardinality(1 .. n) = n
        BY <1>1, FS_Interval
    <2>2. place \in Surjection(commitments, 1 .. n)
        BY <1>6, <2>1, FS_Injection DEF n
    <2>. QED
        BY <2>2 DEF Surjection
<1>. DEFINE rows == [k \in 1 .. n |-> CHOOSE r \in commitments : place[r] = k]
<1>8. rows \in [1 .. n -> commitments] /\ \A k \in 1 .. n : place[rows[k]] = k
    BY <1>7
<1>. HIDE DEF rows
<1>9. \A j, k \in DOMAIN rows : j < k => rows[j].leaf_index < rows[k].leaf_index
    <2>. SUFFICES ASSUME NEW j \in 1 .. n, NEW k \in 1 .. n, j < k
                  PROVE  rows[j].leaf_index < rows[k].leaf_index
        BY <1>8
    <2>1. rows[j] \in commitments /\ rows[k] \in commitments
        BY <1>8
    <2>2. rows[j] # rows[k]
        BY <1>1, <1>8
    <2>3. ~ rows[k].leaf_index < rows[j].leaf_index
        BY <1>1, <1>4, <1>8, <2>1
    <2>. QED
        BY <1>2, <2>1, <2>2, <2>3, RowsDiffer
<1>. QED
    BY <1>8, <1>9 DEF get_commitments, n

LEMMA MissingStored ==
    ASSUME ChainInv, TypeOK, DbFaithful, IsFiniteSet(commitments)
    PROVE  MissingRows \in Seq(commitments)
<1>1. Cardinality(commitments) \in Nat
    BY FS_CardinalityType
<1>2. Len(tree) \in Nat
    BY LenProperties DEF TypeOK
<1>3. \A k \in Len(tree) + 1 .. Cardinality(commitments) :
            get_commitments[k] \in commitments
    BY <1>1, <1>2, RowsSorted
<1>. QED
    BY <1>1, <1>2, <1>3, SubSeqProperties DEF MissingRows

-----------------------------------------------------------------------------
(***************************************************************************)
(* Pages.                                                                  *)
(***************************************************************************)

\* A signature is a number.
LEMMA SignaturesAreInt == \A t \in Signatures : t \in Int
    BY DEF Signatures

\* Two stretches, the second starting where the first ends, make one.
LEMMA Joined ==
    ASSUME NEW s \in Seq(Signatures), NEW u \in Seq(Signatures),
           Consecutive(s, -1), Consecutive(u, -1),
           s # << >> /\ u # << >> => u[1] = s[Len(s)] - 1
    PROVE  /\ s \o u \in Seq(Signatures)
           /\ Len(s \o u) = Len(s) + Len(u)
           /\ Consecutive(s \o u, -1)
           /\ \A k \in 1 .. Len(s) : (s \o u)[k] = s[k]
           /\ \A k \in 1 .. Len(u) : (s \o u)[Len(s) + k] = u[k]
<1>1. /\ Len(s) \in Nat /\ DOMAIN s = 1 .. Len(s)
      /\ Len(u) \in Nat /\ DOMAIN u = 1 .. Len(u)
      /\ \A k \in 1 .. Len(s) : s[k] \in Int
      /\ \A k \in 1 .. Len(u) : u[k] \in Int
    BY SignaturesAreInt, LenProperties, ElementOfSeq
<1>2. /\ s \o u \in Seq(Signatures)
      /\ Len(s \o u) = Len(s) + Len(u)
      /\ \A k \in 1 .. Len(s) + Len(u) :
            (s \o u)[k] = IF k <= Len(s) THEN s[k] ELSE u[k - Len(s)]
    BY ConcatProperties
<1>3. DOMAIN (s \o u) = 1 .. Len(s) + Len(u)
    BY <1>2, LenProperties
<1>4. ASSUME NEW k \in 1 .. Len(s) + Len(u)
      PROVE  (s \o u)[k] = (s \o u)[1] + -1 * (k - 1)
    <2>1. CASE Len(s) = 0
        <3>1. (s \o u)[k] = u[k] /\ (s \o u)[1] = u[1] /\ k \in DOMAIN u
            BY <1>1, <1>2, <1>4, <2>1
        <3>. QED
            BY <3>1 DEF Consecutive
    <2>2. CASE Len(s) # 0 /\ k <= Len(s)
        <3>1. (s \o u)[k] = s[k] /\ (s \o u)[1] = s[1] /\ k \in DOMAIN s
            BY <1>1, <1>2, <1>4, <2>2
        <3>. QED
            BY <3>1 DEF Consecutive
    <2>3. CASE Len(s) # 0 /\ k > Len(s)
        <3>1. s # << >> /\ u # << >> /\ k - Len(s) \in DOMAIN u /\ Len(s) \in DOMAIN s
            BY <1>1, <1>4, <2>3
        <3>2. (s \o u)[k] = u[k - Len(s)] /\ (s \o u)[1] = s[1]
            BY <1>1, <1>2, <1>4, <2>3
        <3>3. /\ u[k - Len(s)] = u[1] + -1 * (k - Len(s) - 1)
              /\ s[Len(s)] = s[1] + -1 * (Len(s) - 1)
            BY <3>1 DEF Consecutive
        <3>4. u[1] = s[Len(s)] - 1 /\ s[1] \in Int
            BY <1>1, <2>3, <3>1
        <3>. QED
            BY <1>1, <3>2, <3>3, <3>4
    <2>. QED
        BY <1>1, <2>1, <2>2, <2>3
<1>5. Consecutive(s \o u, -1)
    <2>. DEFINE w == s \o u
    <2>1. DOMAIN w = 1 .. Len(s) + Len(u)
        BY <1>3
    <2>2. \A k \in 1 .. Len(s) + Len(u) : w[k] = w[1] + -1 * (k - 1)
        BY <1>4
    <2>. HIDE DEF w
    <2>3. Consecutive(w, -1)
        BY <2>1, <2>2 DEF Consecutive
    <2>. QED
        BY <2>3 DEF w
<1>6. \A k \in 1 .. Len(s) : (s \o u)[k] = s[k]
    BY <1>1, <1>2
<1>7. \A k \in 1 .. Len(u) : (s \o u)[Len(s) + k] = u[k]
    <2>. SUFFICES ASSUME NEW k \in 1 .. Len(u)
                  PROVE  (s \o u)[Len(s) + k] = u[k]
        OBVIOUS
    <2>1. /\ Len(s) + k \in 1 .. Len(s) + Len(u) /\ ~ Len(s) + k <= Len(s)
          /\ Len(s) + k - Len(s) = k
        BY <1>1
    <2>. QED
        BY <1>2, <2>1
<1>. QED
    BY <1>2, <1>5, <1>6, <1>7

\* A page is a stretch of the chain, newest first, that starts at Newest.
LEMMA PageIsStretch ==
    ASSUME TypeOK, ChainInv, before <= Len(chain),
           NEW visible \in 0 .. Len(chain)
    PROVE  /\ PageOf(visible) \in Seq(Signatures)
           /\ Consecutive(PageOf(visible), -1)
           /\ \A k \in DOMAIN PageOf(visible) : PageOf(visible)[k] <= Len(chain)
           /\ PageOf(visible) # << >> => PageOf(visible)[1] = Newest(visible)
           /\ PageOf(visible) = << >> => Newest(visible) = 0
<1>. DEFINE top == Newest(visible)
            n == IF top < PAGE_SIZE THEN top ELSE PAGE_SIZE
<1>1. MaxTxs \in Nat /\ PAGE_SIZE \in Nat \ {0}
    BY IndexerAssumption
<1>2. Len(chain) \in Nat /\ Len(chain) <= MaxTxs
    BY LenProperties DEF ChainInv, TypeOK
<1>3. top \in 0 .. Len(chain)
    BY <1>1, <1>2 DEF Newest, TypeOK, Signatures, None
<1>. HIDE DEF top
<1>4. n \in Nat /\ n <= top /\ (n = 0 => top = 0)
    BY <1>1, <1>3
<1>5. PageOf(visible) = [k \in 1 .. n |-> top - k + 1]
    BY DEF PageOf, top
<1>. HIDE DEF n
<1>6. PageOf(visible) \in [1 .. n -> Signatures]
    BY <1>1, <1>2, <1>3, <1>4, <1>5 DEF Signatures
<1>7. /\ PageOf(visible) \in Seq(Signatures)
      /\ Len(PageOf(visible)) = n /\ DOMAIN PageOf(visible) = 1 .. n
    BY <1>4, <1>6, FunctionIsSeq
<1>8. \A k \in 1 .. n : PageOf(visible)[k] = top - k + 1
    BY <1>5
<1>9. n # 0 => PageOf(visible)[1] = top
    BY <1>3, <1>4, <1>8
<1>10. Consecutive(PageOf(visible), -1)
    BY <1>3, <1>4, <1>7, <1>8, <1>9 DEF Consecutive
<1>. QED
    BY <1>2, <1>3, <1>4, <1>7, <1>8, <1>9, <1>10 DEF top

\* What is stored stays so while nothing new lands.
LEMMA StoredStays ==
    ASSUME UNCHANGED chain, commitments \subseteq commitments',
           nullifiers \subseteq nullifiers'
    PROVE  \A t : Stored(t) => Stored(t)'
    BY DEF Stored, Deposits, Withdrawals, RowOf, NullifierUsed

\* The fresh part of a page ends right above the last processed signature.
LEMMA FreshPart ==
    ASSUME NEW sigs \in Seq(Signatures), Consecutive(sigs, -1),
           \E k \in DOMAIN sigs : sigs[k] = last_processed
    PROVE  /\ Fresh(sigs) \in Seq(Signatures)
           /\ Consecutive(Fresh(sigs), -1)
           /\ \A k \in DOMAIN Fresh(sigs) : k \in DOMAIN sigs /\ Fresh(sigs)[k] = sigs[k]
           /\ Fresh(sigs) # << >> => Last(Fresh(sigs)) = last_processed + 1
           /\ Fresh(sigs) = << >> => sigs[1] = last_processed
           /\ sigs # << >>
<1>. DEFINE j == CHOOSE k \in DOMAIN sigs : sigs[k] = last_processed
<1>1. Len(sigs) \in Nat /\ DOMAIN sigs = 1 .. Len(sigs)
    BY LenProperties
<1>2. j \in 1 .. Len(sigs) /\ sigs[j] = last_processed
    BY <1>1
<1>. HIDE DEF j
<1>3. \A k \in 1 .. Len(sigs) : sigs[k] \in Signatures /\ sigs[k] \in Int
    BY SignaturesAreInt, ElementOfSeq
<1>4. /\ Fresh(sigs) \in Seq(Signatures)
      /\ Len(Fresh(sigs)) = j - 1
      /\ \A k \in 1 .. j - 1 : Fresh(sigs)[k] = sigs[k]
    <2>1. \A k \in 1 .. j - 1 : sigs[k] \in Signatures
        BY <1>1, <1>2, <1>3
    <2>. QED
        BY <1>1, <1>2, <2>1, SubSeqProperties DEF Fresh, j
<1>5. DOMAIN Fresh(sigs) = 1 .. j - 1
    BY <1>4, LenProperties
<1>6. Consecutive(Fresh(sigs), -1)
    BY <1>1, <1>2, <1>3, <1>4, <1>5 DEF Consecutive
<1>7. j # 1 => Last(Fresh(sigs)) = last_processed + 1
    <2>. SUFFICES ASSUME j # 1
                  PROVE  Last(Fresh(sigs)) = last_processed + 1
        OBVIOUS
    <2>1. Last(Fresh(sigs)) = sigs[j - 1]
        BY <1>1, <1>2, <1>4 DEF Last
    <2>2. sigs[j] = sigs[1] + -1 * (j - 1) /\ sigs[j - 1] = sigs[1] + -1 * (j - 1 - 1)
        BY <1>1, <1>2 DEF Consecutive
    <2>. QED
        BY <1>1, <1>2, <1>3, <2>1, <2>2
<1>8. Fresh(sigs) = << >> <=> j = 1
    BY <1>2, <1>4, EmptySeq
<1>. QED
    BY <1>1, <1>2, <1>4, <1>5, <1>6, <1>7, <1>8, EmptySeq

\* What the loop starts on: the collected signatures from the oldest, when what
\* is older than them is done.
LEMMA StopsInOrder ==
    ASSUME NEW sigs \in Seq(Signatures), Consecutive(sigs, -1),
           \A k \in DOMAIN sigs : sigs[k] <= Len(chain),
           sigs # << >> =>
                \A t \in 1 .. Last(sigs) - 1 : Stored(t) \/ t \in lost',
           newest_signature = None,
           StopPaging(sigs),
           UNCHANGED <<chain, db, newest_signature>>
    PROVE  /\ all_sigs' \in Seq(Signatures)
           /\ \A k \in DOMAIN all_sigs' : all_sigs'[k] <= Len(chain)
           /\ PagingInv' /\ AddingInv' /\ ProcessingInv'
           /\ pc' \in {"idle", "processing"}
<1>1. /\ Len(sigs) \in Nat /\ DOMAIN sigs = 1 .. Len(sigs)
      /\ \A k \in 1 .. Len(sigs) : sigs[k] \in Int /\ sigs[k] \in Signatures
    BY SignaturesAreInt, LenProperties, ElementOfSeq
<1>2. /\ all_sigs' \in Seq(Signatures)
      /\ Len(all_sigs') = Len(sigs) /\ DOMAIN all_sigs' = 1 .. Len(sigs)
      /\ \A k \in 1 .. Len(sigs) : all_sigs'[k] = sigs[Len(sigs) - k + 1]
    BY Reversed DEF StopPaging
<1>3. \A k \in 1 .. Len(sigs) : sigs[k] = sigs[1] + -1 * (k - 1)
    BY <1>1 DEF Consecutive
<1>4. Consecutive(all_sigs', 1)
    <2>. SUFFICES ASSUME NEW k \in 1 .. Len(sigs)
                  PROVE  all_sigs'[k] = all_sigs'[1] + 1 * (k - 1)
        BY <1>2 DEF Consecutive
    <2>. DEFINE n == Len(sigs)
    <2>1. n \in 1 .. Len(sigs) /\ n - k + 1 \in 1 .. Len(sigs) /\ 1 \in 1 .. Len(sigs)
        BY <1>1
    <2>2. all_sigs'[k] = sigs[n - k + 1] /\ all_sigs'[1] = sigs[n]
        BY <1>1, <1>2, <2>1
    <2>3. /\ sigs[n - k + 1] = sigs[1] + -1 * (n - k + 1 - 1)
          /\ sigs[n] = sigs[1] + -1 * (n - 1)
        BY <1>3, <2>1
    <2>. QED
        BY <1>1, <2>1, <2>2, <2>3
<1>5. all_sigs' # << >> => DoneUpTo(Current - 1)'
    <2>. SUFFICES ASSUME all_sigs' # << >>
                  PROVE  DoneUpTo(Current - 1)'
        OBVIOUS
    <2>1. Len(sigs) # 0 /\ sigs # << >>
        BY <1>1, <1>2, EmptySeq
    <2>2. Current' = Last(sigs)
        BY <1>1, <1>2, <2>1 DEF Current, Last
    <2>. QED
        BY <2>1, <2>2, StoredStays DEF DoneUpTo, db
<1>6. DoneUpTo(newest_signature)'
    BY DEF DoneUpTo, None
<1>7. pc' \in {"idle", "processing"}
    BY DEF StopPaging
<1>8. ProcessingInv'
    BY <1>4, <1>5, <1>6 DEF ProcessingInv
<1>9. PagingInv' /\ AddingInv'
    BY <1>7 DEF PagingInv, AddingInv
<1>10. \A k \in 1 .. Len(sigs) : all_sigs'[k] <= Len(chain)
    <2>1. \A k \in 1 .. Len(sigs) : Len(sigs) - k + 1 \in DOMAIN sigs
        BY <1>1
    <2>. QED
        BY <1>2, <2>1
<1>. QED
    BY <1>2, <1>7, <1>8, <1>9, <1>10

\* One turn of the page loop over a page that continues what was collected: the
\* loop goes on with a longer stretch, or it ends and what is older is done.
LEMMA CollectsInOrder ==
    ASSUME ChainInv, TypeOK, OnChain, PagingInv, NothingSkipped, pc = "paging",
           NEW sigs \in Seq(Signatures), Consecutive(sigs, -1),
           \A k \in DOMAIN sigs : sigs[k] <= Len(chain),
           all_sigs # << >> /\ sigs # << >> => sigs[1] = before - 1,
           TakePage(sigs),
           UNCHANGED <<chain, db, last_signature, last_processed, newest_signature>>,
           lost \subseteq lost',
           IsLastPage => Older(sigs) \subseteq lost',
           sigs = << >> /\ all_sigs # << >> =>
                before = 1 \/ Older(all_sigs) \subseteq lost'
    PROVE  /\ all_sigs' \in Seq(Signatures)
           /\ \A k \in DOMAIN all_sigs' : all_sigs'[k] <= Len(chain)
           /\ PagingInv' /\ AddingInv' /\ ProcessingInv'
           /\ pc' \in {"paging", "idle", "processing"}
           /\ page' \in 0 .. MAX_PAGES - 1
           /\ before' \in Signatures \cup {None}
<1>. DEFINE reached == \E k \in DOMAIN sigs : sigs[k] = last_processed
            taken == IF reached THEN Fresh(sigs) ELSE sigs
            collected == all_sigs \o taken
<1>1. /\ all_sigs \in Seq(Signatures) /\ Consecutive(all_sigs, -1)
      /\ before = IF all_sigs = << >> THEN None ELSE Last(all_sigs)
      /\ last_processed \in {last_signature, None}
      /\ newest_signature = None
      /\ last_processed \in Int /\ before \in Int
      /\ before \in Signatures \cup {None}
      /\ page \in 0 .. MAX_PAGES - 1 /\ MAX_PAGES \in Nat
    BY IndexerAssumption DEF TypeOK, PagingInv, None, Signatures
<1>2. /\ Len(sigs) \in Nat /\ DOMAIN sigs = 1 .. Len(sigs)
      /\ Len(all_sigs) \in Nat /\ DOMAIN all_sigs = 1 .. Len(all_sigs)
      /\ \A k \in 1 .. Len(sigs) : sigs[k] \in Signatures /\ sigs[k] \in Int
      /\ \A k \in 1 .. Len(all_sigs) : all_sigs[k] \in Signatures /\ all_sigs[k] \in Int
      /\ sigs # << >> => Len(sigs) # 0
      /\ all_sigs # << >> => Len(all_sigs) # 0
    BY <1>1, SignaturesAreInt, LenProperties, ElementOfSeq, EmptySeq
<1>3. /\ taken \in Seq(Signatures) /\ Consecutive(taken, -1)
      /\ \A k \in DOMAIN taken : k \in DOMAIN sigs /\ taken[k] = sigs[k]
    BY FreshPart
<1>4. Len(taken) \in Nat /\ DOMAIN taken = 1 .. Len(taken)
    BY <1>3, LenProperties
<1>. HIDE DEF taken
<1>5. all_sigs # << >> /\ taken # << >> => taken[1] = all_sigs[Len(all_sigs)] - 1
    <2>. SUFFICES ASSUME all_sigs # << >>, taken # << >>
                  PROVE  taken[1] = all_sigs[Len(all_sigs)] - 1
        OBVIOUS
    <2>1. 1 \in DOMAIN taken
        BY <1>3, <1>4, EmptySeq
    <2>2. 1 \in DOMAIN sigs /\ taken[1] = sigs[1] /\ sigs # << >>
        BY <1>2, <1>3, <2>1, EmptySeq
    <2>. QED
        BY <1>1, <2>2 DEF Last
<1>6. /\ collected \in Seq(Signatures)
      /\ Len(collected) = Len(all_sigs) + Len(taken)
      /\ DOMAIN collected = 1 .. Len(all_sigs) + Len(taken)
      /\ Consecutive(collected, -1)
      /\ \A k \in 1 .. Len(all_sigs) : collected[k] = all_sigs[k]
      /\ \A k \in 1 .. Len(taken) : collected[Len(all_sigs) + k] = taken[k]
    <2>1. /\ collected \in Seq(Signatures)
          /\ Len(collected) = Len(all_sigs) + Len(taken)
          /\ Consecutive(collected, -1)
          /\ \A k \in 1 .. Len(all_sigs) : collected[k] = all_sigs[k]
          /\ \A k \in 1 .. Len(taken) : collected[Len(all_sigs) + k] = taken[k]
        BY <1>1, <1>3, <1>5, Joined
    <2>. QED
        BY <2>1, LenProperties
<1>. HIDE DEF collected
<1>7. \A k \in DOMAIN collected : collected[k] <= Len(chain)
    <2>. SUFFICES ASSUME NEW k \in 1 .. Len(all_sigs) + Len(taken)
                  PROVE  collected[k] <= Len(chain)
        BY <1>6
    <2>1. CASE k <= Len(all_sigs)
        <3>1. k \in DOMAIN all_sigs /\ collected[k] = all_sigs[k]
            BY <1>2, <1>4, <1>6, <2>1
        <3>. QED
            BY <3>1 DEF OnChain
    <2>2. CASE k > Len(all_sigs)
        <3>1. k - Len(all_sigs) \in 1 .. Len(taken)
            BY <1>2, <1>4, <2>2
        <3>2. /\ collected[k] = taken[k - Len(all_sigs)]
              /\ k - Len(all_sigs) \in DOMAIN sigs
              /\ taken[k - Len(all_sigs)] = sigs[k - Len(all_sigs)]
            <4>1. Len(all_sigs) + (k - Len(all_sigs)) = k
                BY <1>2, <1>4
            <4>. QED
                BY <1>3, <1>4, <1>6, <3>1, <4>1
        <3>. QED
            BY <3>2
    <2>. QED
        BY <1>2, <1>4, <2>1, <2>2
<1>8. /\ taken = << >> => Last(collected) = Last(all_sigs) \/ all_sigs = << >>
      /\ taken # << >> => Last(collected) = Last(taken)
    <2>1. taken = << >> => Len(taken) = 0
        BY EmptySeq
    <2>2. taken # << >> => Len(taken) # 0
        BY <1>3, EmptySeq
    <2>. QED
        BY <1>2, <1>4, <1>6, <2>1, <2>2 DEF Last
<1>9. collected = << >> <=> all_sigs = << >> /\ taken = << >>
    BY <1>1, <1>3, ConcatEqualIffEmpty, EmptySeq, <1>2, <1>4, <1>6
<1>10. IF sigs = << >> \/ reached \/ IsLastPage
         THEN StopPaging(collected)
         ELSE /\ all_sigs' = collected
              /\ before' = Last(sigs)
              /\ page' = page + 1
              /\ UNCHANGED pc
    BY DEF TakePage, collected, taken
<1>11. \A t \in 1 .. last_processed : Stored(t) \/ t \in lost
    BY <1>1 DEF NothingSkipped, None
<1>. HIDE DEF reached
<1>12. CASE sigs = << >> \/ reached \/ IsLastPage
    <2>1. ASSUME collected # << >>
          PROVE  \A t \in 1 .. Last(collected) - 1 : Stored(t) \/ t \in lost'
        <3>1. CASE reached
            <4>1. taken # << >> => Last(taken) = last_processed + 1
                BY <3>1, FreshPart DEF reached, taken
            <4>2. taken = << >> => sigs # << >> /\ sigs[1] = last_processed
                BY <3>1, FreshPart DEF reached, taken
            <4>3. Last(collected) = last_processed + 1
                <5>1. CASE taken # << >>
                    BY <1>8, <4>1, <5>1
                <5>2. CASE taken = << >>
                    BY <1>1, <1>8, <1>9, <2>1, <4>2, <5>2
                <5>. QED
                    BY <5>1, <5>2
            <4>. QED
                BY <1>1, <1>11, <4>3
        <3>2. CASE ~reached /\ sigs = << >>
            <4>1. taken = << >> /\ all_sigs # << >> /\ Last(collected) = before
                BY <1>1, <1>8, <1>9, <2>1, <3>2 DEF taken
            <4>2. CASE before = 1
                BY <4>1, <4>2
            <4>3. CASE Older(all_sigs) \subseteq lost'
                BY <1>1, <1>11, <4>1, <4>3 DEF Older
            <4>. QED
                BY <3>2, <4>1, <4>2, <4>3
        <3>3. CASE ~reached /\ sigs # << >>
            <4>1. taken = sigs /\ IsLastPage /\ Last(collected) = Last(sigs)
                BY <1>8, <1>12, <3>3 DEF taken
            <4>2. Last(sigs) \in Int
                BY <1>2, <3>3 DEF Last
            <4>. QED
                BY <1>1, <1>11, <3>3, <4>1, <4>2 DEF Older
        <3>. QED
            BY <3>1, <3>2, <3>3
    <2>2. StopPaging(collected)
        BY <1>10, <1>12
    <2>3. before' = before /\ page' = page
        BY <2>2 DEF StopPaging
    <2>. QED
        BY <1>1, <1>6, <1>7, <2>1, <2>2, <2>3, StopsInOrder
<1>13. CASE ~(sigs = << >> \/ reached \/ IsLastPage)
    <2>1. /\ all_sigs' = collected /\ before' = Last(sigs)
          /\ page' = page + 1 /\ pc' = "paging" /\ taken = sigs /\ sigs # << >>
        BY <1>10, <1>13 DEF taken
    <2>2. collected # << >> /\ Last(collected) = Last(sigs) /\ Last(sigs) \in Signatures
        BY <1>2, <1>8, <1>9, <2>1 DEF Last
    <2>3. last_processed' = last_processed /\ newest_signature' = None
        BY <1>1
    <2>4. page + 1 \in 0 .. MAX_PAGES - 1
        BY <1>1, <1>13 DEF IsLastPage
    <2>. QED
        BY <1>1, <1>6, <1>7, <2>1, <2>2, <2>3, <2>4 DEF PagingInv, AddingInv,
            ProcessingInv
<1>. QED
    BY <1>12, <1>13

-----------------------------------------------------------------------------
(***************************************************************************)
(* The invariant, action by action.                                        *)
(***************************************************************************)

LEMMA InitIInv == Init => IInv
<1>. SUFFICES ASSUME Init
              PROVE  IInv
    OBVIOUS
<1>. USE IndexerAssumption
<1>1. << >> \in Seq(Transactions) /\ << >> \in Seq(Signatures) /\ << >> \in Seq(Rows)
    BY EmptySeq
<1>2. Len(chain) = 0 /\ Deposits = {} /\ Cardinality({}) = 0 /\ IsFiniteSet({})
    BY EmptySeq, FS_EmptySet DEF Init, Deposits
<1>3. ChainInv
    BY <1>1, <1>2 DEF Init, ChainInv
<1>4. TypeOK
    <2>1. /\ Len(chain) <= MaxTxs /\ 0 \in 0 .. MAX_PAGES - 1
          /\ 0 \in 0 .. MaxFaults /\ 0 \in 0 .. MaxCrashes
        BY <1>2
    <2>2. tree \in Seq(Signatures) /\ todo \in Seq(Rows) /\ all_sigs \in Seq(Signatures)
        BY <1>1 DEF Init
    <2>. QED
        BY <2>1, <2>2 DEF Init, TypeOK
<1>5. DbFaithful /\ TodoStored /\ TreeIsPrefix /\ NothingSkipped
    BY <1>2 DEF Init, DbFaithful, TodoStored, TreeIsPrefix, NothingSkipped, None
<1>6. OnChain /\ PagingInv /\ AddingInv /\ ProcessingInv
    BY <1>2 DEF Init, OnChain, PagingInv, AddingInv, ProcessingInv, None
<1>. QED
    BY <1>3, <1>4, <1>5, <1>6 DEF IInv

\* A step that leaves the chain and the stores alone keeps what relates them.
LEMMA StoresKept ==
    ASSUME IInv, UNCHANGED <<chain, db, redis>>, lost \subseteq lost'
    PROVE  /\ ChainInv' /\ DbFaithful' /\ IsFiniteSet(commitments)' /\ TreeIsPrefix'
           /\ NothingSkipped'
<1>1. ChainInv'
    BY DEF IInv, ChainInv, Deposits
<1>2. DbFaithful' /\ IsFiniteSet(commitments)' /\ TreeIsPrefix'
    BY DEF IInv, DbFaithful, TodoStored, TreeIsPrefix, Deposits, Withdrawals, RowOf,
        db, redis
<1>3. NothingSkipped'
    BY StoredStays DEF IInv, NothingSkipped, db, redis
<1>. QED
    BY <1>1, <1>2, <1>3

LEMMA LandStep ==
    ASSUME IInv, Land
    PROVE  IInv'
<1>. DEFINE n == Len(chain)
<1>1. /\ \E tx \in Transactions : chain' = Append(chain, tx)
      /\ UNCHANGED <<commitments, nullifiers, tree, last_signature, pc, todo,
                     last_processed, before, page, all_sigs, newest_signature,
                     faults, crashes, lost, behind>>
      /\ ChainInv'
    BY LandAppends DEF IInv, db, redis, locals, history
<1>2. /\ n \in Nat /\ Len(chain') = n + 1
      /\ \A t \in 1 .. n : chain'[t] = chain[t]
    BY <1>1, Appended DEF IInv, ChainInv
<1>3. ASSUME NEW t \in 1 .. n
      PROVE  /\ t \in Deposits' <=> t \in Deposits
             /\ t \in Withdrawals' <=> t \in Withdrawals
             /\ RowOf(t)' = RowOf(t)
             /\ Stored(t) => Stored(t)'
    <2>1. /\ t \in Deposits' <=> t \in Deposits
          /\ t \in Withdrawals' <=> t \in Withdrawals
          /\ RowOf(t)' = RowOf(t)
        BY <1>2 DEF Deposits, Withdrawals, RowOf
    <2>2. NullifierUsed(chain[t].nullifier_hash) =>
                NullifierUsed(chain[t].nullifier_hash)'
        BY <1>1, <1>2 DEF NullifierUsed
    <2>. QED
        BY <1>1, <2>1, <2>2 DEF Stored
<1>4. Deposits \subseteq 1 .. n /\ Withdrawals \subseteq 1 .. n
    BY DEF Deposits, Withdrawals
<1>5. TypeOK'
    <2>1. Len(chain') <= MaxTxs
        <3>1. Len(chain) < MaxTxs
            BY DEF Land, LandDeposit, LandWithdraw, LandOther
        <3>2. MaxTxs \in Int
            BY IndexerAssumption
        <3>. QED
            BY <1>2, <3>1, <3>2
    <2>. QED
        BY <1>1, <2>1 DEF IInv, TypeOK
<1>6. DbFaithful' /\ TodoStored' /\ TreeIsPrefix'
    <2>1. DbFaithful'
        BY <1>1, <1>2, <1>3, <1>4 DEF IInv, DbFaithful
    <2>2. TodoStored'
        BY <1>1 DEF IInv, TodoStored
    <2>3. TreeIsPrefix'
        BY <1>1, <1>2, <1>3, <1>4 DEF IInv, TreeIsPrefix
    <2>. QED
        BY <2>1, <2>2, <2>3
<1>7. OnChain' /\ PagingInv'
    <2>1. OnChain'
        <3>1. /\ last_signature \in Int /\ newest_signature \in Int
              /\ \A k \in DOMAIN all_sigs : all_sigs[k] \in Int
            BY SignaturesAreInt, LenProperties, ElementOfSeq DEF IInv, TypeOK, None
        <3>. QED
            BY <1>1, <1>2, <3>1 DEF IInv, OnChain
    <2>2. PagingInv'
        BY <1>1 DEF IInv, PagingInv
    <2>. QED
        BY <2>1, <2>2
<1>8. \A s \in 0 .. n : DoneUpTo(s) => DoneUpTo(s)'
    BY <1>1, <1>3 DEF DoneUpTo
<1>9. NothingSkipped'
    BY <1>1, <1>3, <1>2 DEF IInv, NothingSkipped, OnChain, TypeOK, Signatures, None
<1>10. AddingInv' /\ ProcessingInv'
    <2>1. ASSUME all_sigs # << >>
          PROVE  Current' = Current /\ Current \in 1 .. n
        <3>1. 1 \in DOMAIN all_sigs /\ all_sigs[1] \in Signatures
            <4>1. all_sigs \in Seq(Signatures)
                BY DEF IInv, TypeOK
            <4>2. Len(all_sigs) \in Nat \ {0}
                BY <2>1, <4>1, EmptySeq
            <4>. QED
                BY <4>1, <4>2, LenProperties, ElementOfSeq
        <3>2. all_sigs[1] <= n /\ all_sigs[1] >= 1 /\ all_sigs[1] \in Int
            BY <3>1 DEF IInv, OnChain, Signatures
        <3>. QED
            BY <1>1, <1>2, <3>2 DEF Current
    <2>2. newest_signature \in 0 .. n
        BY <1>2 DEF IInv, OnChain, TypeOK, Signatures, None
    <2>3. AddingInv'
        BY <1>1, <1>3, <2>1 DEF IInv, AddingInv
    <2>4. ProcessingInv'
        BY <1>1, <1>2, <1>8, <2>1, <2>2 DEF IInv, ProcessingInv
    <2>. QED
        BY <2>3, <2>4
<1>. QED
    BY <1>1, <1>5, <1>6, <1>7, <1>9, <1>10 DEF IInv

\* A step that ends up outside a tick, and changes at most the tree's lag behind
\* Postgres, the locals and the counters.
LEMMA OutsideTick ==
    ASSUME IInv, UNCHANGED <<chain, db, redis>>, lost \subseteq lost',
           pc' \notin {"paging", "processing", "adding"},
           TypeOK', TodoStored',
           newest_signature' \in {newest_signature, None},
           all_sigs' = all_sigs \/ all_sigs' = << >>
    PROVE  IInv'
<1>1. /\ ChainInv' /\ DbFaithful' /\ TreeIsPrefix' /\ NothingSkipped'
    BY StoresKept
<1>2. PagingInv' /\ AddingInv' /\ ProcessingInv'
    BY DEF PagingInv, AddingInv, ProcessingInv
<1>3. OnChain'
    BY LenProperties DEF IInv, OnChain, ChainInv, redis, None
<1>. QED
    BY <1>1, <1>2, <1>3 DEF IInv

LEMMA StartSyncStep ==
    ASSUME IInv, StartSync
    PROVE  IInv'
<1>1. MissingRows \in Seq(commitments) /\ commitments \subseteq Rows
    BY MissingStored DEF IInv, TodoStored, TypeOK
<1>2. MissingRows \in Seq(Rows)
    BY <1>1, SeqMonotonic
<1>3. \A k \in DOMAIN MissingRows : MissingRows[k] \in commitments
    BY <1>1, LenProperties, ElementOfSeq
<1>4. TypeOK'
    BY <1>2 DEF IInv, TypeOK, StartSync, db, redis, history
<1>5. TodoStored'
    BY <1>3 DEF IInv, TodoStored, StartSync, db
<1>. QED
    BY <1>4, <1>5, OutsideTick DEF StartSync, history

\* add_leaf with a stored row: the tree stays a prefix.
LEMMA LeafAdded ==
    ASSUME IInv, NEW row \in commitments, tree' = WithLeaf(tree, row),
           UNCHANGED <<chain, commitments>>
    PROVE  tree' \in Seq(Signatures) /\ TreeIsPrefix'
<1>1. tree \in Seq(Signatures) /\ Len(tree) \in Nat
    BY LenProperties DEF IInv, TypeOK
<1>2. UNCHANGED Deposits /\ \A t : RowOf(t)' = RowOf(t)
    BY DEF Deposits, RowOf
<1>3. CASE row.leaf_index # Len(tree)
    BY <1>1, <1>2, <1>3 DEF WithLeaf, IInv, TreeIsPrefix
<1>4. CASE row.leaf_index = Len(tree)
    <2>. DEFINE t == row.tx_signature
    <2>1. t \in Deposits /\ row = RowOf(t) /\ t \in Signatures
        BY DEF IInv, DbFaithful, TypeOK, Rows
    <2>2. chain[t].leaf_index = Len(tree)
        BY <1>4, <2>1 DEF RowOf
    <2>. HIDE DEF t
    <2>3. tree' = Append(tree, t)
        BY <1>4 DEF WithLeaf, t
    <2>4. /\ tree' \in Seq(Signatures)
          /\ Len(tree') = Len(tree) + 1
          /\ \A k \in 1 .. Len(tree) : tree'[k] = tree[k]
          /\ tree'[Len(tree) + 1] = t
        BY <1>1, <2>1, <2>3, AppendProperties
    <2>5. \A k \in 1 .. Len(tree) + 1 : k \in 1 .. Len(tree) \/ k = Len(tree) + 1
        BY <1>1
    <2>6. TreeIsPrefix'
        <3>. SUFFICES ASSUME NEW k \in 1 .. Len(tree) + 1
                      PROVE  /\ tree'[k] \in Deposits
                             /\ chain[tree'[k]].leaf_index = k - 1
                             /\ RowOf(tree'[k]) \in commitments
            BY <1>2, <2>4 DEF TreeIsPrefix
        <3>1. CASE k \in 1 .. Len(tree)
            BY <2>4, <3>1 DEF IInv, TreeIsPrefix
        <3>2. CASE k = Len(tree) + 1
            BY <1>1, <2>1, <2>2, <2>4, <3>2
        <3>. QED
            BY <2>5, <3>1, <3>2
    <2>. QED
        BY <2>4, <2>6
<1>. QED
    BY <1>3, <1>4

LEMMA SyncLeafStep ==
    ASSUME IInv, SyncLeaf
    PROVE  IInv'
<1>. USE DEF SyncLeaf, db, history
<1>1. todo \in Seq(Rows) /\ todo # << >>
    BY DEF IInv, TypeOK
<1>2. Len(todo) \in Nat \ {0} /\ DOMAIN todo = 1 .. Len(todo)
    BY <1>1, EmptySeq, LenProperties
<1>3. todo[1] \in commitments /\ Head(todo) = todo[1]
    BY <1>1, <1>2 DEF IInv, TodoStored
<1>4. /\ Tail(todo) \in Seq(Rows)
      /\ DOMAIN Tail(todo) = 1 .. Len(todo) - 1
      /\ \A k \in 1 .. Len(todo) - 1 : Tail(todo)[k] = todo[k + 1]
    BY <1>1, HeadTailProperties, LenProperties
<1>5. \A k \in DOMAIN Tail(todo) : Tail(todo)[k] \in commitments
    BY <1>2, <1>4 DEF IInv, TodoStored
<1>6. tree' \in Seq(Signatures) /\ TreeIsPrefix'
    BY <1>3, LeafAdded
<1>7. TypeOK'
    BY <1>4, <1>6 DEF IInv, TypeOK
<1>8. ChainInv' /\ DbFaithful'
    BY DEF IInv, ChainInv, DbFaithful, Deposits, Withdrawals, RowOf
<1>9. TodoStored'
    BY <1>5 DEF IInv, TodoStored
<1>10. OnChain' /\ PagingInv' /\ AddingInv' /\ ProcessingInv'
    BY DEF IInv, OnChain, PagingInv, AddingInv, ProcessingInv
<1>11. NothingSkipped'
    BY StoredStays DEF IInv, NothingSkipped
<1>. QED
    BY <1>6, <1>7, <1>8, <1>9, <1>10, <1>11 DEF IInv

\* A failed call counts one more fault.
LEMMA FaultCounted ==
    ASSUME TypeOK, NEW f, Fault(f)
    PROVE  faults' \in 0 .. MaxFaults
    BY IndexerAssumption DEF TypeOK, Fault

LEMMA SyncFailsStep ==
    ASSUME IInv, SyncFails
    PROVE  IInv'
<1>. USE DEF SyncFails, ResetLocals, history
<1>1. faults' \in 0 .. MaxFaults
    BY FaultCounted DEF IInv
<1>2. << >> \in Seq(Rows) /\ << >> \in Seq(Signatures) /\ DOMAIN << >> = {}
    BY EmptySeq, LenProperties
<1>3. 0 \in 0 .. MAX_PAGES - 1
    BY IndexerAssumption
<1>4. TypeOK'
    BY <1>1, <1>2, <1>3 DEF IInv, TypeOK, None, db, redis
<1>5. TodoStored'
    BY <1>2 DEF IInv, TodoStored, db
<1>. QED
    BY <1>4, <1>5, OutsideTick

LEMMA SyncDoneStep ==
    ASSUME IInv, SyncDone
    PROVE  IInv'
<1>. USE DEF SyncDone, history, locals
<1>1. TypeOK'
    BY DEF IInv, TypeOK, db, redis
<1>2. TodoStored'
    BY DEF IInv, TodoStored, db
<1>. QED
    BY <1>1, <1>2, OutsideTick

LEMMA CrashStep ==
    ASSUME IInv, Crash
    PROVE  IInv'
<1>. USE DEF Crash, ResetLocals
<1>1. << >> \in Seq(Rows) /\ << >> \in Seq(Signatures) /\ DOMAIN << >> = {}
    BY EmptySeq, LenProperties
<1>2. 0 \in 0 .. MAX_PAGES - 1 /\ crashes' \in 0 .. MaxCrashes
    BY IndexerAssumption DEF IInv, TypeOK
<1>3. TypeOK'
    BY <1>1, <1>2 DEF IInv, TypeOK, None, db, redis
<1>4. TodoStored'
    BY <1>1 DEF IInv, TodoStored, db
<1>. QED
    BY <1>3, <1>4, OutsideTick

LEMMA FetchFailsStep ==
    ASSUME IInv, FetchFails
    PROVE  IInv'
<1>. USE DEF FetchFails, locals, history
<1>1. faults' \in 0 .. MaxFaults
    BY FaultCounted DEF IInv
<1>2. TypeOK'
    BY <1>1 DEF IInv, TypeOK, db, redis
<1>3. TodoStored'
    BY DEF IInv, TodoStored, db
<1>. QED
    BY <1>2, <1>3, OutsideTick

LEMMA BeginTickStep ==
    ASSUME IInv, BeginTick
    PROVE  IInv'
<1>. USE DEF BeginTick, history
<1>1. << >> \in Seq(Signatures) /\ DOMAIN << >> = {}
    BY EmptySeq, LenProperties
<1>2. 0 \in 0 .. MAX_PAGES - 1
    BY IndexerAssumption
<1>3. faults' \in 0 .. MaxFaults
    BY FaultCounted DEF IInv, TypeOK
<1>4. /\ ChainInv' /\ DbFaithful' /\ IsFiniteSet(commitments)' /\ TreeIsPrefix'
      /\ NothingSkipped'
    BY StoresKept
<1>5. TypeOK'
    BY <1>1, <1>2, <1>3 DEF IInv, TypeOK, None, db, redis
<1>6. TodoStored'
    BY DEF IInv, TodoStored, db
<1>7. OnChain'
    BY <1>1, LenProperties DEF IInv, ChainInv, OnChain, None, redis
<1>8. PagingInv'
    BY <1>1 DEF PagingInv, Consecutive, redis
<1>9. AddingInv' /\ ProcessingInv'
    BY DEF AddingInv, ProcessingInv
<1>. QED
    BY <1>4, <1>5, <1>6, <1>7, <1>8, <1>9 DEF IInv

\* The three answers to a request for a page.
LEMMA PageStep ==
    ASSUME IInv, pc = "paging",
           NEW sigs \in Seq(Signatures), Consecutive(sigs, -1),
           \A k \in DOMAIN sigs : sigs[k] <= Len(chain),
           all_sigs # << >> /\ sigs # << >> => sigs[1] = before - 1,
           TakePage(sigs),
           UNCHANGED <<chain, db, redis, todo, last_processed, newest_signature,
                       crashes, behind>>,
           faults' \in 0 .. MaxFaults, lost' \subseteq Signatures,
           lost \subseteq lost',
           IsLastPage => Older(sigs) \subseteq lost',
           sigs = << >> /\ all_sigs # << >> =>
                before = 1 \/ Older(all_sigs) \subseteq lost'
    PROVE  IInv'
<1>1. /\ all_sigs' \in Seq(Signatures)
      /\ \A k \in DOMAIN all_sigs' : all_sigs'[k] <= Len(chain)
      /\ PagingInv' /\ AddingInv' /\ ProcessingInv'
      /\ pc' \in {"paging", "idle", "processing"}
      /\ page' \in 0 .. MAX_PAGES - 1
      /\ before' \in Signatures \cup {None}
    BY CollectsInOrder DEF IInv, redis
<1>2. /\ ChainInv' /\ DbFaithful' /\ TreeIsPrefix' /\ NothingSkipped'
    BY StoresKept
<1>3. TypeOK'
    BY <1>1 DEF IInv, TypeOK, db, redis
<1>4. TodoStored'
    BY DEF IInv, TodoStored, db
<1>5. OnChain'
    BY <1>1 DEF IInv, OnChain, redis
<1>. QED
    BY <1>1, <1>2, <1>3, <1>4, <1>5 DEF IInv

\* What the paging leaves out are signatures.
LEMMA OlderAreSignatures ==
    ASSUME TypeOK, NEW sigs \in Seq(Signatures)
    PROVE  Older(sigs) \subseteq Signatures
<1>1. CASE sigs # << >>
    <2>1. Last(sigs) \in Signatures
        <3>1. Len(sigs) \in Nat \ {0}
            BY <1>1, EmptySeq
        <3>. QED
            BY <3>1, ElementOfSeq DEF Last
    <2>2. last_processed \in Nat
        BY DEF TypeOK, Signatures, None
    <2>. QED
        BY <2>1, <2>2, IndexerAssumption DEF Older, Signatures
<1>. QED
    BY <1>1 DEF Older

LEMMA FetchPageStep ==
    ASSUME IInv, pc = "paging",
           NEW visible \in 0 .. Len(chain), before = None \/ visible = Len(chain),
           TakePage(PageOf(visible)), GivesUp(BeyondLimit(PageOf(visible))),
           UNCHANGED <<chain, db, redis, todo, last_processed, newest_signature,
                       crashes>>,
           faults' \in 0 .. MaxFaults
    PROVE  IInv'
<1>. DEFINE sigs == PageOf(visible)
<1>1. /\ all_sigs \in Seq(Signatures)
      /\ before = IF all_sigs = << >> THEN None ELSE Last(all_sigs)
    BY DEF IInv, PagingInv, TypeOK
<1>2. before <= Len(chain) /\ (all_sigs # << >> => before \in Signatures)
    <2>1. CASE all_sigs = << >>
        BY <1>1, <2>1, LenProperties DEF IInv, ChainInv, None
    <2>2. CASE all_sigs # << >>
        <3>1. Len(all_sigs) \in DOMAIN all_sigs
            BY <1>1, <2>2, EmptySeq, LenProperties
        <3>2. all_sigs[Len(all_sigs)] \in Signatures
            BY <1>1, <2>2, EmptySeq, ElementOfSeq
        <3>. QED
            BY <1>1, <2>2, <3>1, <3>2 DEF IInv, OnChain, Last
    <2>. QED
        BY <2>1, <2>2
<1>3. /\ sigs \in Seq(Signatures)
      /\ Consecutive(sigs, -1)
      /\ \A k \in DOMAIN sigs : sigs[k] <= Len(chain)
      /\ sigs # << >> => sigs[1] = Newest(visible)
      /\ sigs = << >> => Newest(visible) = 0
    BY <1>2, PageIsStretch DEF IInv
<1>. HIDE DEF sigs
<1>4. all_sigs # << >> => Newest(visible) = before - 1 /\ before \in Int
    BY <1>2 DEF Newest, None, Signatures
<1>5. /\ lost' = lost \cup BeyondLimit(sigs) /\ UNCHANGED behind
      /\ TakePage(sigs)
    BY DEF GivesUp, sigs
<1>6. lost' \subseteq Signatures
    BY <1>3, <1>5, OlderAreSignatures DEF BeyondLimit, IInv, TypeOK
<1>7. IsLastPage => Older(sigs) \subseteq lost'
    BY <1>5 DEF BeyondLimit
<1>8. /\ all_sigs # << >> /\ sigs # << >> => sigs[1] = before - 1
      /\ sigs = << >> /\ all_sigs # << >> => before = 1
    BY <1>3, <1>4
<1>. QED
    BY <1>3, <1>5, <1>6, <1>7, <1>8, PageStep

LEMMA FetchErrorPageStep ==
    ASSUME IInv, FetchErrorPage
    PROVE  IInv'
<1>. USE DEF FetchErrorPage
<1>1. /\ << >> \in Seq(Signatures) /\ DOMAIN << >> = {}
      /\ all_sigs \in Seq(Signatures)
    BY EmptySeq, LenProperties DEF IInv, TypeOK
<1>2. faults' \in 0 .. MaxFaults
    BY FaultCounted DEF IInv
<1>3. lost' = lost \cup Older(all_sigs) /\ UNCHANGED behind
    BY DEF GivesUp
<1>4. lost' \subseteq Signatures
    BY <1>1, <1>3, OlderAreSignatures DEF IInv, TypeOK
<1>5. Consecutive(<< >>, -1)
    BY <1>1 DEF Consecutive
<1>6. Older(<< >>) = {}
    BY DEF Older
<1>. DEFINE sigs == << >>
<1>7. /\ sigs \in Seq(Signatures) /\ Consecutive(sigs, -1)
      /\ \A k \in DOMAIN sigs : sigs[k] <= Len(chain)
      /\ all_sigs # << >> /\ sigs # << >> => sigs[1] = before - 1
      /\ TakePage(sigs) /\ Older(sigs) \subseteq lost'
    BY <1>1, <1>5, <1>6
<1>. HIDE DEF sigs
<1>. QED
    BY <1>2, <1>3, <1>4, <1>7, PageStep

LEMMA PagingStep ==
    ASSUME IInv, Paging
    PROVE  IInv'
<1>1. Len(chain) \in Nat /\ faults \in 0 .. MaxFaults
    BY LenProperties DEF IInv, ChainInv, TypeOK
<1>2. CASE FetchPage
    BY <1>1, <1>2, FetchPageStep DEF FetchPage
<1>3. CASE FetchLaggingPage
    <2>1. PICK visible \in 0 .. (Len(chain) - 1) :
                TakePage(PageOf(visible)) /\ GivesUp(BeyondLimit(PageOf(visible)))
        BY <1>3 DEF FetchLaggingPage
    <2>2. visible \in 0 .. Len(chain)
        BY <1>1
    <2>3. faults' \in 0 .. MaxFaults
        BY <1>3, FaultCounted DEF FetchLaggingPage, IInv
    <2>. QED
        BY <1>3, <2>1, <2>2, <2>3, FetchPageStep DEF FetchLaggingPage
<1>. QED
    BY <1>2, <1>3, FetchErrorPageStep, FetchFailsStep DEF Paging

\* The current signature is a position of the chain.
LEMMA CurrentOnChain ==
    ASSUME IInv, all_sigs # << >>
    PROVE  /\ Current \in 1 .. Len(chain) /\ Current \in Signatures
           /\ chain[Current] \in Transactions
<1>1. all_sigs \in Seq(Signatures) /\ Len(all_sigs) \in Nat \ {0}
    BY EmptySeq DEF IInv, TypeOK
<1>2. all_sigs[1] \in Signatures /\ 1 \in DOMAIN all_sigs
    BY <1>1, LenProperties, ElementOfSeq
<1>3. all_sigs[1] <= Len(chain) /\ Len(chain) \in Nat /\ chain \in Seq(Transactions)
    BY <1>2, LenProperties DEF IInv, OnChain, ChainInv
<1>4. all_sigs[1] \in 1 .. Len(chain)
    BY <1>2, <1>3 DEF Signatures
<1>. QED
    BY <1>2, <1>3, <1>4, ElementOfSeq DEF Current

\* Going on to the next signature, when the current one is stored or given up.
LEMMA Advances ==
    ASSUME IInv, pc \in {"processing", "adding"}, all_sigs # << >>,
           pc' = "processing", all_sigs' = Tail(all_sigs),
           NEW t, t = Current, Stored(t)' \/ t \in lost',
           newest_signature' = t \/ newest_signature' = newest_signature,
           UNCHANGED <<chain, last_signature>>,
           commitments \subseteq commitments', nullifiers \subseteq nullifiers',
           lost \subseteq lost'
    PROVE  /\ all_sigs' \in Seq(Signatures)
           /\ newest_signature' \in Signatures \cup {None}
           /\ OnChain' /\ PagingInv' /\ AddingInv' /\ ProcessingInv' /\ NothingSkipped'
<1>1. /\ t \in 1 .. Len(chain) /\ t \in Signatures /\ Len(chain) \in Nat
      /\ all_sigs \in Seq(Signatures) /\ Consecutive(all_sigs, 1)
      /\ newest_signature \in Signatures \cup {None}
    BY CurrentOnChain, LenProperties DEF IInv, TypeOK, ProcessingInv, ChainInv
<1>2. /\ Len(all_sigs) \in Nat \ {0} /\ DOMAIN all_sigs = 1 .. Len(all_sigs)
      /\ all_sigs[1] = t
    BY <1>1, EmptySeq, LenProperties DEF Current
<1>3. /\ all_sigs' \in Seq(Signatures)
      /\ DOMAIN all_sigs' = 1 .. Len(all_sigs) - 1
      /\ \A k \in 1 .. Len(all_sigs) - 1 : all_sigs'[k] = all_sigs[k + 1]
    BY <1>1, HeadTailProperties, LenProperties
<1>4. \A k \in 1 .. Len(all_sigs) - 1 : all_sigs'[k] = t + k
    <2>. SUFFICES ASSUME NEW k \in 1 .. Len(all_sigs) - 1
                  PROVE  all_sigs'[k] = t + k
        OBVIOUS
    <2>1. k + 1 \in DOMAIN all_sigs /\ k \in Int
        BY <1>2
    <2>2. all_sigs[k + 1] = all_sigs[1] + 1 * (k + 1 - 1)
        BY <1>1, <2>1 DEF Consecutive
    <2>3. all_sigs[k + 1] = t + k
        BY <1>1, <1>2, <2>1, <2>2
    <2>. QED
        BY <1>3, <2>3
<1>5. Consecutive(all_sigs', 1)
    <2>. SUFFICES ASSUME NEW k \in 1 .. Len(all_sigs) - 1
                  PROVE  all_sigs'[k] = all_sigs'[1] + 1 * (k - 1)
        BY <1>3 DEF Consecutive
    <2>1. 1 \in 1 .. Len(all_sigs) - 1 /\ k \in Int
        BY <1>2
    <2>2. all_sigs'[k] = t + k /\ all_sigs'[1] = t + 1
        BY <1>4, <2>1
    <2>. QED
        BY <1>1, <2>1, <2>2
<1>6. OnChain'
    <2>1. \A k \in DOMAIN all_sigs' : all_sigs'[k] <= Len(chain)
        BY <1>2, <1>3 DEF IInv, OnChain
    <2>. QED
        BY <1>1, <2>1 DEF IInv, OnChain
<1>7. \A s : DoneUpTo(s) => DoneUpTo(s)'
    BY StoredStays DEF DoneUpTo
<1>8. DoneUpTo(t)'
    <2>1. DoneUpTo(t - 1)'
        BY <1>7 DEF IInv, ProcessingInv
    <2>. QED
        BY <1>1, <2>1 DEF DoneUpTo
<1>9. ProcessingInv'
    <2>1. all_sigs' # << >> => Current' = t + 1
        <3>1. all_sigs' # << >> => 1 \in 1 .. Len(all_sigs) - 1
            <4>1. all_sigs' # << >> => Len(all_sigs') \in Nat \ {0}
                BY <1>3, EmptySeq
            <4>. QED
                BY <1>2, <1>3, <4>1, LenProperties
        <3>. QED
            BY <1>4, <3>1 DEF Current
    <2>2. all_sigs' # << >> => Current' - 1 = t
        BY <1>1, <2>1
    <2>3. DoneUpTo(newest_signature)'
        <3>1. CASE newest_signature' = t
            BY <1>8, <3>1 DEF DoneUpTo
        <3>2. CASE newest_signature' = newest_signature
            BY <1>7, <3>2 DEF DoneUpTo, IInv, ProcessingInv
        <3>. QED
            BY <3>1, <3>2
    <2>4. all_sigs' # << >> => DoneUpTo(Current - 1)'
        BY <1>8, <2>2 DEF DoneUpTo
    <2>. QED
        BY <1>5, <2>3, <2>4 DEF ProcessingInv
<1>10. NothingSkipped'
    BY <1>7 DEF IInv, NothingSkipped, DoneUpTo
<1>. QED
    BY <1>1, <1>3, <1>6, <1>9, <1>10 DEF PagingInv, AddingInv

\* A transaction with a row is stored.
LEMMA IndexedIsStored ==
    ASSUME IInv, NEW t \in Indexed
    PROVE  Stored(t) /\ (t \in Deposits \/ t \in Withdrawals)
<1>1. \A u \in Deposits : u \notin Withdrawals
    BY DEF Deposits, Withdrawals
<1>2. CASE \E r \in commitments : r.tx_signature = t
    BY <1>1, <1>2 DEF IInv, DbFaithful, Stored
<1>3. CASE \E r \in nullifiers : r.tx_signature = t
    BY <1>1, <1>3 DEF IInv, DbFaithful, Stored, NullifierUsed
<1>. QED
    BY <1>2, <1>3 DEF Indexed

\* A commitment with the leaf index of a deposit is that deposit's.
LEMMA ExistsIsStored ==
    ASSUME IInv, NEW t \in Deposits, CommitmentExists(chain[t].leaf_index)
    PROVE  RowOf(t) \in commitments
<1>1. PICK r \in commitments : r.leaf_index = chain[t].leaf_index
    BY DEF CommitmentExists
<1>2. r.tx_signature \in Deposits /\ r = RowOf(r.tx_signature)
    BY DEF IInv, DbFaithful
<1>3. r.leaf_index = chain[r.tx_signature].leaf_index
    BY <1>2 DEF RowOf
<1>4. r.tx_signature = t
    BY <1>1, <1>2, <1>3 DEF IInv, ChainInv
<1>. QED
    BY <1>2, <1>4

LEMMA SaveDepositStep ==
    ASSUME IInv, NEW t, SaveDeposit(t)
    PROVE  IInv'
<1>. USE DEF SaveDeposit, Process, redis, locals, history
<1>1. /\ t = Current /\ t \in Deposits /\ t \in Signatures
      /\ chain[t] \in Transactions /\ chain[t].kind = "deposit"
    BY CurrentOnChain DEF Deposits
<1>2. RowOf(t) \in Rows /\ RowOf(t).tx_signature = t
    BY <1>1 DEF RowOf, Rows, Transactions
<1>3. commitments' = commitments \cup {RowOf(t)}
    OBVIOUS
<1>4. UNCHANGED <<Deposits, Withdrawals>> /\ \A u : RowOf(u)' = RowOf(u)
    BY DEF Deposits, Withdrawals, RowOf
<1>5. TypeOK'
    BY <1>2 DEF IInv, TypeOK
<1>6. ChainInv' /\ DbFaithful'
    <2>1. ChainInv'
        BY <1>4 DEF IInv, ChainInv
    <2>2. DbFaithful'
        BY <1>1, <1>2, <1>3, <1>4 DEF IInv, DbFaithful
    <2>. QED
        BY <2>1, <2>2
<1>7. TodoStored' /\ TreeIsPrefix'
    <2>1. IsFiniteSet(commitments')
        BY <1>3, FS_AddElement DEF IInv, TodoStored
    <2>. QED
        BY <1>3, <1>4, <2>1 DEF IInv, TodoStored, TreeIsPrefix
<1>8. \A s : DoneUpTo(s) => DoneUpTo(s)'
    BY StoredStays DEF DoneUpTo
<1>9. OnChain' /\ PagingInv' /\ NothingSkipped'
    BY <1>8 DEF IInv, OnChain, PagingInv, NothingSkipped, DoneUpTo
<1>10. AddingInv' /\ ProcessingInv'
    <2>1. UNCHANGED Current
        BY DEF Current
    <2>2. AddingInv'
        BY <1>1, <1>3, <1>4, <2>1 DEF AddingInv
    <2>3. ProcessingInv'
        BY <1>8, <2>1 DEF IInv, ProcessingInv
    <2>. QED
        BY <2>2, <2>3
<1>. QED
    BY <1>5, <1>6, <1>7, <1>9, <1>10 DEF IInv

LEMMA AddLeafStep ==
    ASSUME IInv, AddLeaf
    PROVE  IInv'
<1>. USE DEF AddLeaf, Processed, db, history
<1>. SUFFICES ASSUME NEW t, t = Current
              PROVE  IInv'
    OBVIOUS
<1>1. /\ all_sigs # << >> /\ t \in Deposits /\ RowOf(t) \in commitments
      /\ t \in Signatures
    BY CurrentOnChain DEF IInv, AddingInv
<1>2. UNCHANGED <<Deposits, Withdrawals>> /\ \A u : RowOf(u)' = RowOf(u)
    BY DEF Deposits, Withdrawals, RowOf
<1>3. Stored(t)
    BY <1>1 DEF Stored, Deposits, Withdrawals
<1>4. Stored(t)'
    BY <1>3, StoredStays
<1>5. /\ all_sigs' \in Seq(Signatures)
      /\ newest_signature' \in Signatures \cup {None}
      /\ OnChain' /\ PagingInv' /\ AddingInv' /\ ProcessingInv' /\ NothingSkipped'
    BY <1>1, <1>4, Advances
<1>6. tree' \in Seq(Signatures) /\ TreeIsPrefix'
    <2>1. CASE tree' = WithLeaf(tree, RowOf(Current))
        BY <1>1, <2>1, LeafAdded
    <2>2. CASE UNCHANGED tree
        BY <1>2, <2>2 DEF IInv, TypeOK, TreeIsPrefix
    <2>. QED
        BY <2>1, <2>2
<1>7. faults' \in 0 .. MaxFaults /\ lost' = lost /\ behind' \in BOOLEAN
    BY FaultCounted DEF IInv, TypeOK
<1>8. TypeOK'
    BY <1>5, <1>6, <1>7 DEF IInv, TypeOK
<1>9. ChainInv' /\ DbFaithful' /\ TodoStored'
    BY <1>2 DEF IInv, ChainInv, DbFaithful, TodoStored
<1>. QED
    BY <1>5, <1>6, <1>8, <1>9 DEF IInv

LEMMA SaveNullifierStep ==
    ASSUME IInv, NEW t, SaveNullifier(t)
    PROVE  IInv'
<1>. USE DEF SaveNullifier, Process, Processed, redis, history
<1>. DEFINE row == [nullifier_hash |-> chain[t].nullifier_hash, tx_signature |-> t]
<1>1. /\ t = Current /\ t \in Withdrawals /\ t \in Signatures
      /\ chain[t] \in Transactions /\ chain[t].kind = "withdraw"
    BY CurrentOnChain DEF Withdrawals
<1>2. row \in [nullifier_hash : Nullifiers, tx_signature : Signatures]
    BY <1>1 DEF Transactions
<1>3. nullifiers' = nullifiers \cup {row} /\ row.tx_signature = t
      /\ row.nullifier_hash = chain[t].nullifier_hash
    OBVIOUS
<1>. HIDE DEF row
<1>4. UNCHANGED <<Deposits, Withdrawals>> /\ \A u : RowOf(u)' = RowOf(u)
    BY DEF Deposits, Withdrawals, RowOf
<1>5. Stored(t)'
    <2>1. t \notin Deposits
        BY <1>1 DEF Deposits
    <2>2. NullifierUsed(chain[t].nullifier_hash)'
        BY <1>3 DEF NullifierUsed
    <2>. QED
        BY <1>4, <2>1, <2>2 DEF Stored
<1>6. /\ all_sigs' \in Seq(Signatures)
      /\ newest_signature' \in Signatures \cup {None}
      /\ OnChain' /\ PagingInv' /\ AddingInv' /\ ProcessingInv' /\ NothingSkipped'
    BY <1>1, <1>3, <1>5, Advances
<1>7. TypeOK'
    BY <1>2, <1>3, <1>6 DEF IInv, TypeOK
<1>8. DbFaithful'
    BY <1>1, <1>3, <1>4 DEF IInv, DbFaithful
<1>9. ChainInv' /\ TodoStored' /\ TreeIsPrefix'
    BY <1>4 DEF IInv, ChainInv, TodoStored, TreeIsPrefix
<1>. QED
    BY <1>6, <1>7, <1>8, <1>9 DEF IInv

\* The signature is passed over: its event is stored, or it is given up.
LEMMA PassedOver ==
    ASSUME IInv, NEW t, Process(t), all_sigs' = Tail(all_sigs),
           newest_signature' = t \/ newest_signature' = newest_signature,
           Stored(t) \/ t \in lost',
           UNCHANGED <<chain, db, redis, pc, todo, last_processed, before, page,
                       crashes, behind>>,
           faults' \in 0 .. MaxFaults,
           lost \subseteq lost', lost' \subseteq lost \cup {t}
    PROVE  IInv'
<1>. USE DEF Process
<1>1. t \in Signatures /\ (Stored(t)' \/ t \in lost')
    BY CurrentOnChain, StoredStays DEF db
<1>2. /\ all_sigs' \in Seq(Signatures)
      /\ newest_signature' \in Signatures \cup {None}
      /\ OnChain' /\ PagingInv' /\ AddingInv' /\ ProcessingInv' /\ NothingSkipped'
    BY <1>1, Advances DEF db, redis
<1>3. /\ ChainInv' /\ DbFaithful' /\ TreeIsPrefix' /\ NothingSkipped'
    BY StoresKept
<1>4. TypeOK'
    BY <1>2, CurrentOnChain DEF IInv, TypeOK, db, redis
<1>5. TodoStored'
    BY DEF IInv, TodoStored, db
<1>. QED
    BY <1>2, <1>3, <1>4, <1>5 DEF IInv

LEMMA SkipTransactionStep ==
    ASSUME IInv, NEW t, SkipTransaction(t)
    PROVE  IInv'
<1>. USE DEF SkipTransaction, Processed, history
<1>1. t \in Deposits => CommitmentExists(chain[t].leaf_index)
    BY DEF Deposits
<1>2. t \in Withdrawals => NullifierUsed(chain[t].nullifier_hash)
    BY DEF Withdrawals
<1>3. Stored(t)
    BY <1>1, <1>2, ExistsIsStored DEF Stored
<1>4. faults' \in 0 .. MaxFaults
    BY DEF IInv, TypeOK
<1>. QED
    BY <1>3, <1>4, PassedOver DEF Process

LEMMA MissTransactionStep ==
    ASSUME IInv, NEW t, MissTransaction(t)
    PROVE  IInv'
<1>. USE DEF MissTransaction, Processed, GivesUp
<1>1. Stored(t) \/ t \in lost'
    BY IndexedIsStored
<1>2. faults' \in 0 .. MaxFaults
    BY FaultCounted DEF IInv
<1>. QED
    BY <1>1, <1>2, PassedOver DEF Process

LEMMA FailTransactionStep ==
    ASSUME IInv, NEW t, FailTransaction(t)
    PROVE  IInv'
<1>. USE DEF FailTransaction, GivesUp
<1>1. Stored(t) \/ t \in lost'
    BY IndexedIsStored
<1>2. faults' \in 0 .. MaxFaults
    BY FaultCounted DEF IInv
<1>. QED
    BY <1>1, <1>2, PassedOver DEF Process

LEMMA EndTickStep ==
    ASSUME IInv, EndTick
    PROVE  IInv'
<1>. USE DEF EndTick, locals, history
<1>1. faults' \in 0 .. MaxFaults
    BY FaultCounted DEF IInv, TypeOK
<1>2. /\ last_signature' \in {last_signature, newest_signature}
      /\ last_signature' \in Signatures \cup {None} /\ last_signature' <= Len(chain)
    BY DEF IInv, TypeOK, OnChain
<1>3. TypeOK'
    BY <1>1, <1>2 DEF IInv, TypeOK, db
<1>4. ChainInv' /\ DbFaithful' /\ TodoStored' /\ TreeIsPrefix'
    BY DEF IInv, ChainInv, DbFaithful, TodoStored, TreeIsPrefix, Deposits, Withdrawals,
        RowOf, db
<1>5. OnChain' /\ PagingInv' /\ AddingInv' /\ ProcessingInv'
    BY <1>2 DEF IInv, OnChain, PagingInv, AddingInv, ProcessingInv
<1>6. NothingSkipped'
    BY <1>2, StoredStays DEF IInv, NothingSkipped, ProcessingInv, DoneUpTo, db
<1>. QED
    BY <1>3, <1>4, <1>5, <1>6 DEF IInv

LEMMA NextStep ==
    ASSUME IInv, [Next]_vars
    PROVE  IInv'
<1>1. CASE Run
    BY <1>1, StartSyncStep, SyncLeafStep, SyncFailsStep, SyncDoneStep, BeginTickStep,
        PagingStep, SaveDepositStep, SaveNullifierStep, SkipTransactionStep,
        MissTransactionStep, FailTransactionStep, AddLeafStep, EndTickStep
        DEF Run, Processing
<1>2. CASE UNCHANGED vars
    <2>. USE <1>2 DEF vars, db, redis, locals, history
    <2>1. /\ ChainInv' /\ DbFaithful' /\ TreeIsPrefix' /\ NothingSkipped'
        BY StoresKept
    <2>2. UNCHANGED Current /\ \A s : DoneUpTo(s) => DoneUpTo(s)'
        BY StoredStays DEF Current, DoneUpTo
    <2>3. TypeOK' /\ TodoStored' /\ OnChain' /\ PagingInv'
        BY DEF IInv, TypeOK, TodoStored, OnChain, PagingInv
    <2>4. AddingInv' /\ ProcessingInv'
        BY <2>2 DEF IInv, AddingInv, ProcessingInv, Deposits, RowOf
    <2>. QED
        BY <2>1, <2>3, <2>4 DEF IInv
<1>. QED
    BY <1>1, <1>2, LandStep, CrashStep DEF Next

LEMMA Invariance == Spec => []IInv
    BY InitIInv, NextStep, PTL DEF Spec

\* Every variable has its type, for any chain, paging and faults.
THEOREM TypeCorrect == Spec => []TypeOK
<1>1. IInv => TypeOK
    BY DEF IInv
<1>. QED
    BY <1>1, Invariance, PTL

\* Postgres says nothing the chain does not, and has one row for each event
\* however often it is indexed (indexer.rs:222-290, db.rs:46-137).
THEOREM DbFaithfulHolds == Spec => []DbFaithful
<1>1. IInv => DbFaithful
    BY DEF IInv
<1>. QED
    BY <1>1, Invariance, PTL

\* The tree is a prefix of the chain's deposits through gaps in Postgres, failed
\* calls and restarts (tree.rs:116-123, main.rs:309-330).
THEOREM TreeIsPrefixHolds == Spec => []TreeIsPrefix
<1>1. IInv => TreeIsPrefix
    BY DEF IInv
<1>. QED
    BY <1>1, Invariance, PTL

\* Up to the signature the indexer remembers every event is stored, unless a
\* failed call or the page limit made it give it up, for any page size and limit
\* (indexer.rs:94-100, 159-164).
THEOREM NothingSkippedHolds == Spec => []NothingSkipped
<1>1. IInv => NothingSkipped
    BY DEF IInv
<1>. QED
    BY <1>1, Invariance, PTL

-----------------------------------------------------------------------------
(***************************************************************************)
(* The stores implement module Mirror.                                     *)
(***************************************************************************)

\* An event is indexed at most once: it is stored already.
LEMMA NewlyIndexed ==
    ASSUME IInv, NEW t \in 1 .. Len(chain), ~ Stored(t), Mirror!HasEvent(t),
           UNCHANGED <<chain, tree>>, Indexed' = Indexed \cup {t}
    PROVE  Mirror!Store
    BY IndexedIsStored DEF Mirror!Store

\* A leaf is added for a stored deposit, the next of the chain, or for none.
LEMMA LeafMirrored ==
    ASSUME IInv, NEW row \in commitments, tree' = WithLeaf(tree, row),
           UNCHANGED <<chain, commitments, nullifiers>>
    PROVE  Mirror!AddLeaf \/ UNCHANGED <<chain, Indexed, Len(tree)>>
<1>. DEFINE t == row.tx_signature
<1>1. tree \in Seq(Signatures) /\ Len(tree) \in Nat
    BY LenProperties DEF IInv, TypeOK
<1>2. t \in Deposits /\ row = RowOf(t) /\ t \in Signatures
    BY DEF IInv, DbFaithful, TypeOK, Rows
<1>3. t \in Indexed /\ UNCHANGED Indexed
    BY DEF Indexed
<1>4. chain[t].kind = "deposit" /\ chain[t].leaf_index = row.leaf_index
    BY <1>2 DEF Deposits, RowOf
<1>. HIDE DEF t
<1>5. CASE row.leaf_index = Len(tree)
    <2>1. tree' = Append(tree, t)
        BY <1>5 DEF WithLeaf, t
    <2>2. Len(tree') = Len(tree) + 1
        BY <1>1, <1>2, <2>1, AppendProperties
    <2>. QED
        BY <1>3, <1>4, <1>5, <2>2 DEF Mirror!AddLeaf
<1>6. CASE row.leaf_index # Len(tree)
    BY <1>3, <1>6 DEF WithLeaf
<1>. QED
    BY <1>5, <1>6

LEMMA StepMirrored ==
    ASSUME IInv, [Next]_vars
    PROVE  \/ Mirror!Land \/ Mirror!Store \/ Mirror!AddLeaf
           \/ UNCHANGED <<chain, Indexed, Len(tree)>>
<1>1. CASE Land
    <2>1. /\ \E tx \in Transactions : chain' = Append(chain, tx)
          /\ UNCHANGED <<commitments, nullifiers, tree>>
        BY <1>1, LandAppends DEF IInv, db, redis
    <2>2. PICK tx \in Transactions : chain' = Append(chain, tx)
        BY <2>1
    <2>3. /\ chain \in Seq(Transactions) /\ chain' \in Seq(Transactions)
          /\ Len(chain) \in Nat /\ Len(chain') = Len(chain) + 1
          /\ \A t \in 1 .. Len(chain) : chain'[t] = chain[t]
        BY <2>2, Appended DEF IInv, ChainInv
    <2>. DEFINE s == SubSeq(chain', 1, Len(chain))
    <2>4. /\ s \in Seq(Transactions) /\ Len(s) = Len(chain)
          /\ \A t \in 1 .. Len(chain) : s[t] = chain[t]
        <3>1. \A t \in 1 .. Len(chain) : chain'[t] \in Transactions
            BY <2>3, ElementOfSeq
        <3>. QED
            BY <2>3, <3>1, SubSeqProperties
    <2>. HIDE DEF s
    <2>5. chain = s
        BY <2>3, <2>4, SeqEqual
    <2>. QED
        BY <2>1, <2>3, <2>5 DEF s, Mirror!Land, Indexed
<1>2. ASSUME NEW t, SaveDeposit(t)
      PROVE  Mirror!Store
    <2>. USE <1>2 DEF SaveDeposit, Process, redis
    <2>1. t \in 1 .. Len(chain) /\ t \in Deposits
        BY CurrentOnChain DEF Deposits
    <2>2. ~ Stored(t)
        BY <2>1 DEF Stored, CommitmentExists, RowOf
    <2>3. Indexed' = Indexed \cup {t}
        <3>1. commitments' = commitments \cup {RowOf(t)} /\ RowOf(t).tx_signature = t
            BY DEF RowOf
        <3>2. UNCHANGED nullifiers
            OBVIOUS
        <3>. QED
            BY <3>1, <3>2 DEF Indexed
    <2>4. Mirror!HasEvent(t)
        BY DEF Mirror!HasEvent
    <2>. QED
        BY <2>1, <2>2, <2>3, <2>4, NewlyIndexed
<1>3. ASSUME NEW t, SaveNullifier(t)
      PROVE  Mirror!Store
    <2>. USE <1>3 DEF SaveNullifier, Process, redis
    <2>. DEFINE row == [nullifier_hash |-> chain[t].nullifier_hash, tx_signature |-> t]
    <2>1. t \in 1 .. Len(chain) /\ t \in Withdrawals
        BY CurrentOnChain DEF Withdrawals
    <2>2. ~ Stored(t)
        BY <2>1 DEF Stored
    <2>3. Indexed' = Indexed \cup {t}
        <3>1. nullifiers' = nullifiers \cup {row} /\ row.tx_signature = t
            OBVIOUS
        <3>2. UNCHANGED commitments
            OBVIOUS
        <3>. HIDE DEF row
        <3>. QED
            BY <3>1, <3>2 DEF Indexed
    <2>4. Mirror!HasEvent(t)
        BY DEF Mirror!HasEvent
    <2>. QED
        BY <2>1, <2>2, <2>3, <2>4, NewlyIndexed
<1>4. CASE SyncLeaf
    <2>1. todo \in Seq(Rows) /\ todo # << >>
        BY <1>4 DEF SyncLeaf, IInv, TypeOK
    <2>2. Head(todo) \in commitments
        <3>1. 1 \in DOMAIN todo
            BY <2>1, EmptySeq, LenProperties
        <3>. QED
            BY <2>1, <3>1 DEF IInv, TodoStored
    <2>. QED
        BY <1>4, <2>2, LeafMirrored DEF SyncLeaf, db
<1>5. CASE AddLeaf
    <2>1. RowOf(Current) \in commitments
        BY <1>5 DEF AddLeaf, IInv, AddingInv
    <2>2. CASE tree' = WithLeaf(tree, RowOf(Current))
        BY <1>5, <2>1, <2>2, LeafMirrored DEF AddLeaf, db
    <2>3. CASE UNCHANGED tree
        BY <1>5, <2>3 DEF AddLeaf, Indexed, db
    <2>. QED
        BY <1>5, <2>2, <2>3 DEF AddLeaf
<1>6. CASE UNCHANGED <<chain, db, tree>>
    BY <1>6 DEF Indexed, db
<1>7. [Next]_vars => \/ Land \/ SyncLeaf \/ AddLeaf
                     \/ \E t : SaveDeposit(t) \/ SaveNullifier(t)
                     \/ UNCHANGED <<chain, db, tree>>
    BY DEF Next, Run, Paging, Processing, Crash, StartSync, SyncFails, SyncDone,
        BeginTick, FetchPage, FetchLaggingPage, FetchErrorPage, FetchFails, EndTick,
        SkipTransaction, MissTransaction, FailTransaction, vars, redis
<1>. QED
    BY <1>1, <1>2, <1>3, <1>4, <1>5, <1>6, <1>7

\* The stores mirror the chain: each step stores one event of the chain, adds the
\* next leaf or changes neither, and nothing is taken back
\* (indexer.rs:222-290, tree.rs:116-123).
THEOREM Refinement == Spec => MirrorSpec
<1>1. Init => Mirror!Init
    BY EmptySeq DEF Init, Mirror!Init, Indexed
<1>2. IInv /\ [Next]_vars =>
        [Mirror!Land \/ Mirror!Store \/ Mirror!AddLeaf]_<<chain, Indexed, Len(tree)>>
    BY StepMirrored
<1>. QED
    BY <1>1, <1>2, Invariance, PTL DEF Spec, MirrorSpec, Mirror!Spec
=============================================================================
