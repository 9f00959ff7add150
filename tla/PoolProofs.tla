----------------------------- MODULE PoolProofs -----------------------------
(***************************************************************************)
(* Theorems about the on-chain program, for every pool: any ring size, any *)
(* number of leaves, any sets of roots, nullifiers, keys and amounts.      *)
(***************************************************************************)
EXTENDS Pool, SequenceTheorems, TLAPS

\* How many deposits ago the ring's slot k was written, `current` being the
\* slot written last.
Age(current, k) ==
    IF k <= current THEN current - k ELSE current - k + ROOT_HISTORY_SIZE

\* Every slot holds the root that was current that many deposits ago.  This is
\* what makes RootWindow inductive: membership in a window of roots says nothing
\* of which slot the next deposit overwrites.
RingInv ==
    pool # NoPool =>
        \A k \in RootSlots :
            pool.roots[k]
                = RootAt(deposits,
                         Len(deposits) - Age(pool.current_root_index, k))

IInv == TypeOK /\ LeavesDense /\ SpentOnce /\ RingInv

-----------------------------------------------------------------------------

\* The ring index advances by one and wraps at the ring's size.
LEMMA NextSlot ==
    ASSUME NEW k \in RootSlots
    PROVE  (k + 1) % ROOT_HISTORY_SIZE
              = IF k + 1 = ROOT_HISTORY_SIZE THEN 0 ELSE k + 1
<1>. ROOT_HISTORY_SIZE \in Nat \ {0}
    BY RingAssumption
<1>1. CASE k + 1 = ROOT_HISTORY_SIZE
    BY <1>1, SMT DEF RootSlots
<1>2. CASE k + 1 < ROOT_HISTORY_SIZE
    BY <1>2, SMT DEF RootSlots
<1>. QED
    BY <1>1, <1>2 DEF RootSlots

\* An age is a number of deposits below the ring's size, and every such number
\* is the age of some slot.
LEMMA AgeRange ==
    ASSUME NEW c \in RootSlots
    PROVE  /\ \A k \in RootSlots : Age(c, k) \in RootSlots
           /\ \A j \in RootSlots : \E k \in RootSlots : Age(c, k) = j
<1>. ROOT_HISTORY_SIZE \in Nat \ {0}
    BY RingAssumption
<1>1. ASSUME NEW k \in RootSlots
      PROVE  Age(c, k) \in RootSlots
    BY DEF RootSlots, Age
<1>2. ASSUME NEW j \in RootSlots
      PROVE  \E k \in RootSlots : Age(c, k) = j
    <2>1. CASE j <= c
        <3>1. c - j \in RootSlots /\ Age(c, c - j) = j
            BY <2>1 DEF RootSlots, Age
        <3>. QED BY <3>1
    <2>2. CASE j > c
        <3>1. /\ c - j + ROOT_HISTORY_SIZE \in RootSlots
              /\ Age(c, c - j + ROOT_HISTORY_SIZE) = j
            BY <2>2 DEF RootSlots, Age
        <3>. QED BY <3>1
    <2>. QED
        BY <2>1, <2>2 DEF RootSlots
<1>. QED
    BY <1>1, <1>2

\* Writing the next slot makes it the youngest and every other slot one deposit
\* older.
LEMMA AgeShift ==
    ASSUME NEW c \in RootSlots, NEW d \in RootSlots,
           d = (c + 1) % ROOT_HISTORY_SIZE
    PROVE  /\ Age(d, d) = 0
           /\ \A k \in RootSlots \ {d} : Age(d, k) = Age(c, k) + 1
<1>. ROOT_HISTORY_SIZE \in Nat \ {0}
    BY RingAssumption
<1>1. d = IF c + 1 = ROOT_HISTORY_SIZE THEN 0 ELSE c + 1
    BY NextSlot
<1>. QED
    BY <1>1 DEF RootSlots, Age

\* The ring invariant is enough for the property a withdrawer relies on.
LEMMA RingGivesWindow ==
    ASSUME TypeOK, RingInv
    PROVE  RootWindow
<1>. SUFFICES ASSUME pool # NoPool
              PROVE  /\ \A root \in Roots :
                          is_known_root(pool, root) <=> root \in RecentRoots
                     /\ pool.roots[pool.current_root_index] = RootAt(deposits, Len(deposits))
    BY DEF RootWindow
<1>. DEFINE c == pool.current_root_index
<1>1. pool \in PoolAcc /\ c \in RootSlots /\ Len(deposits) \in Nat
    BY DEF TypeOK, PoolAcc
<1>2. \A k \in RootSlots : pool.roots[k] = RootAt(deposits, Len(deposits) - Age(c, k))
    BY DEF RingInv
<1>3. ASSUME NEW root \in Roots
      PROVE  is_known_root(pool, root) <=> root \in RecentRoots
    <2>1. ASSUME NEW k \in RootSlots, pool.roots[k] = root
          PROVE  root \in RecentRoots
        BY <1>1, <1>2, <2>1, AgeRange DEF RecentRoots
    <2>2. ASSUME NEW j \in RootSlots, root = RootAt(deposits, Len(deposits) - j)
          PROVE  \E k \in RootSlots : pool.roots[k] = root
        <3>1. PICK k \in RootSlots : Age(c, k) = j
            BY <1>1, AgeRange
        <3>. QED
            BY <1>2, <2>2, <3>1
    <2>. QED
        BY <2>1, <2>2 DEF is_known_root, RecentRoots
<1>4. pool.roots[c] = RootAt(deposits, Len(deposits))
    <2>1. Age(c, c) = 0
        BY <1>1 DEF RootSlots, Age
    <2>2. Len(deposits) - 0 = Len(deposits)
        BY <1>1
    <2>. QED
        BY <1>1, <1>2, <2>1, <2>2
<1>. QED
    BY <1>3, <1>4

-----------------------------------------------------------------------------

LEMMA IInvInit ==
    ASSUME Init
    PROVE  IInv
<1>1. TypeOK
    BY DEF Init, TypeOK, NullifierRecord
<1>2. LeavesDense
    BY DEF Init, LeavesDense
<1>3. SpentOnce
    BY DEF Init, SpentOnce
<1>4. RingInv
    BY DEF Init, RingInv
<1>. QED
    BY <1>1, <1>2, <1>3, <1>4 DEF IInv

\* add_root and the counters keep the account well typed.
LEMMA DepositedPool ==
    ASSUME NEW p \in PoolAcc, NEW new_root \in Roots,
           p.next_leaf_index < MAX_LEAVES
    PROVE  LET q == add_root([p EXCEPT !.next_leaf_index = @ + 1,
                                       !.total_deposits  = @ + 1], new_root)
               d == (p.current_root_index + 1) % ROOT_HISTORY_SIZE
           IN  /\ q \in PoolAcc
               /\ d \in RootSlots
               /\ q.current_root_index = d
               /\ q.roots[d] = new_root
               /\ \A k \in RootSlots \ {d} : q.roots[k] = p.roots[k]
               /\ q.next_leaf_index = p.next_leaf_index + 1
               /\ q.total_deposits = p.total_deposits + 1
<1>. ROOT_HISTORY_SIZE \in Nat \ {0} /\ MAX_LEAVES \in Nat
    BY RingAssumption
<1>. DEFINE d == (p.current_root_index + 1) % ROOT_HISTORY_SIZE
            p1 == [p EXCEPT !.next_leaf_index = @ + 1,
                            !.total_deposits  = @ + 1]
            q == add_root(p1, new_root)
<1>1. p.current_root_index \in RootSlots
    BY DEF PoolAcc
<1>2. d \in RootSlots
    BY <1>1, NextSlot DEF RootSlots
<1>3. /\ p1 \in PoolAcc
      /\ p1.current_root_index = p.current_root_index
      /\ p1.roots = p.roots
      /\ p1.next_leaf_index = p.next_leaf_index + 1
      /\ p1.total_deposits = p.total_deposits + 1
    <2>. DEFINE n == p.next_leaf_index + 1
                t == p.total_deposits + 1
    <2>1. n \in 0 .. MAX_LEAVES /\ t \in Nat
        BY DEF PoolAcc
    <2>2. p1 = [p EXCEPT !.next_leaf_index = n, !.total_deposits = t]
        OBVIOUS
    <2>. HIDE DEF n, t, p1
    <2>3. /\ p1 \in PoolAcc
          /\ p1.current_root_index = p.current_root_index
          /\ p1.roots = p.roots
          /\ p1.next_leaf_index = n
          /\ p1.total_deposits = t
        BY <2>1, <2>2 DEF PoolAcc
    <2>. QED
        BY <2>3 DEF n, t
<1>4. q = [p1 EXCEPT !.current_root_index = d,
                     !.roots = [p1.roots EXCEPT ![d] = new_root]]
    BY <1>3 DEF add_root
<1>. HIDE DEF d, p1, q
<1>5. /\ q \in PoolAcc
      /\ q.current_root_index = d
      /\ q.roots = [p1.roots EXCEPT ![d] = new_root]
      /\ q.next_leaf_index = p1.next_leaf_index
      /\ q.total_deposits = p1.total_deposits
    BY <1>2, <1>3, <1>4 DEF PoolAcc
<1>6. p1.roots \in [RootSlots -> Roots]
    BY <1>3 DEF PoolAcc
<1>7. q.roots[d] = new_root /\ \A k \in RootSlots \ {d} : q.roots[k] = p.roots[k]
    BY <1>2, <1>3, <1>5, <1>6
<1>8. /\ q \in PoolAcc
      /\ d \in RootSlots
      /\ q.current_root_index = d
      /\ q.roots[d] = new_root
      /\ \A k \in RootSlots \ {d} : q.roots[k] = p.roots[k]
      /\ q.next_leaf_index = p.next_leaf_index + 1
      /\ q.total_deposits = p.total_deposits + 1
    BY <1>2, <1>3, <1>5, <1>7
<1>. QED
    BY <1>8 DEF d, p1, q

LEMMA IInvInitPool ==
    ASSUME IInv, NEW authority \in Pubkeys, InitPool(authority)
    PROVE  IInv'
<1>. USE DEF IInv
<1>. ROOT_HISTORY_SIZE \in Nat \ {0} /\ MAX_LEAVES \in Nat /\ EMPTY_ROOT \in Roots
    BY RingAssumption
<1>0. 0 \in RootSlots /\ 0 \in 0 .. MAX_LEAVES
    BY DEF RootSlots
<1>1. pool' \in PoolAcc
    BY <1>0 DEF InitPool, PoolAcc
<1>2. TypeOK'
    BY <1>1 DEF InitPool, TypeOK
<1>3. LeavesDense'
    BY NoPoolAssumption, <1>1 DEF InitPool, LeavesDense
<1>4. SpentOnce'
    BY DEF InitPool, SpentOnce
<1>5. RingInv'
    <2>1. ASSUME NEW i \in Int
          PROVE  RootAt(deposits', i) = EMPTY_ROOT
        BY DEF InitPool, LeavesDense, RootAt
    <2>2. ASSUME NEW k \in RootSlots
          PROVE  pool'.roots[k]
                    = RootAt(deposits', Len(deposits') - Age(pool'.current_root_index, k))
        <3>1. pool'.roots[k] = EMPTY_ROOT /\ pool'.current_root_index = 0
            BY DEF InitPool
        <3>2. Age(0, k) \in Int /\ Len(deposits') \in Int
            BY <1>0, AgeRange DEF InitPool, TypeOK, RootSlots
        <3>3. Len(deposits') - Age(0, k) \in Int
            BY <3>2
        <3>. QED
            BY <2>1, <3>1, <3>3
    <2>. QED
        BY <2>2 DEF RingInv
<1>. QED
    BY <1>2, <1>3, <1>4, <1>5

\* What a deposit does to the history: one more root, the earlier ones in place.
LEMMA DepositHistory ==
    ASSUME TypeOK, NEW commitment \in Commitments, NEW new_root \in Roots,
           NEW amount \in Amounts, Deposit(commitment, new_root, amount)
    PROVE  /\ deposits' \in Seq(DepositEvent)
           /\ Len(deposits') = Len(deposits) + 1
           /\ \A i \in 1 .. Len(deposits) : deposits'[i] = deposits[i]
           /\ deposits'[Len(deposits) + 1].leaf_index = pool.next_leaf_index
           /\ deposits'[Len(deposits) + 1].new_root = new_root
           /\ \A i \in Int : i <= Len(deposits) => RootAt(deposits', i) = RootAt(deposits, i)
           /\ RootAt(deposits', Len(deposits) + 1) = new_root
<1>. DEFINE e == NewDeposit(pool, commitment, new_root)
<1>1. pool \in PoolAcc /\ deposits' = Append(deposits, e)
    BY DEF Deposit, TypeOK
<1>2. e \in DepositEvent
    BY <1>1, RingAssumption DEF DepositEvent, PoolAcc, NewDeposit
<1>. HIDE DEF e
<1>3. /\ deposits' \in Seq(DepositEvent)
      /\ Len(deposits') = Len(deposits) + 1
      /\ \A i \in 1 .. Len(deposits) : deposits'[i] = deposits[i]
      /\ deposits'[Len(deposits) + 1] = e
    BY <1>1, <1>2 DEF TypeOK
<1>4. Len(deposits) \in Nat
    BY DEF TypeOK
<1>5. ASSUME NEW i \in Int, i <= Len(deposits)
      PROVE  RootAt(deposits', i) = RootAt(deposits, i)
    BY <1>3, <1>4, <1>5 DEF RootAt
<1>6. RootAt(deposits', Len(deposits) + 1) = new_root
    <2>1. Len(deposits) + 1 \in 1 .. Len(deposits')
        BY <1>3, <1>4
    <2>2. e.new_root = new_root
        BY DEF e, NewDeposit
    <2>. QED
        BY <1>3, <2>1, <2>2 DEF RootAt
<1>. QED
    BY <1>3, <1>5, <1>6 DEF e, NewDeposit

LEMMA IInvDeposit ==
    ASSUME IInv, NEW commitment \in Commitments, NEW new_root \in Roots,
           NEW amount \in Amounts, Deposit(commitment, new_root, amount)
    PROVE  IInv'
<1>. USE DEF IInv
<1>. DEFINE c == pool.current_root_index
            d == (c + 1) % ROOT_HISTORY_SIZE
<1>0. /\ deposits' \in Seq(DepositEvent)
      /\ Len(deposits') = Len(deposits) + 1
      /\ \A i \in 1 .. Len(deposits) : deposits'[i] = deposits[i]
      /\ deposits'[Len(deposits) + 1].leaf_index = pool.next_leaf_index
      /\ deposits'[Len(deposits) + 1].new_root = new_root
      /\ \A i \in Int : i <= Len(deposits) =>
            RootAt(deposits', i) = RootAt(deposits, i)
      /\ RootAt(deposits', Len(deposits) + 1) = new_root
    BY DepositHistory
<1>1. /\ pool \in PoolAcc
      /\ c \in RootSlots
      /\ Len(deposits) \in Nat
      /\ pool.next_leaf_index < MAX_LEAVES
    BY DEF Deposit, TreeHasRoom, TypeOK, PoolAcc
<1>2. /\ pool' \in PoolAcc
      /\ d \in RootSlots
      /\ pool'.current_root_index = d
      /\ pool'.roots[d] = new_root
      /\ \A k \in RootSlots \ {d} : pool'.roots[k] = pool.roots[k]
      /\ pool'.next_leaf_index = pool.next_leaf_index + 1
      /\ pool'.total_deposits = pool.total_deposits + 1
    BY <1>1, DepositedPool DEF Deposit
<1>3. TypeOK'
    BY <1>0, <1>2, AmountAssumption DEF Deposit, TypeOK
<1>4. LeavesDense'
    <2>1. pool # NoPool /\ pool' # NoPool
        BY <1>1, <1>2, NoPoolAssumption
    <2>2. pool.next_leaf_index = Len(deposits)
        BY <2>1 DEF LeavesDense
    <2>3. ASSUME NEW i \in 1 .. Len(deposits')
          PROVE  deposits'[i].leaf_index = i - 1
        <3>1. CASE i \in 1 .. Len(deposits)
            BY <3>1, <1>0 DEF LeavesDense
        <3>2. CASE i = Len(deposits) + 1
            BY <1>1, <2>2, <3>2, <1>0
        <3>. QED
            BY <1>1, <3>1, <3>2, <1>0
    <2>4. /\ pool'.next_leaf_index = Len(deposits')
          /\ pool'.total_deposits = Len(deposits')
        BY <1>2, <2>1, <2>2, <1>0 DEF LeavesDense
    <2>. QED
        BY <2>1, <2>3, <2>4 DEF LeavesDense
<1>5. SpentOnce'
    BY DEF Deposit, SpentOnce
<1>6. RingInv'
    <2>1. pool # NoPool
        BY <1>1, NoPoolAssumption
    <2>2. \A k \in RootSlots : pool.roots[k] = RootAt(deposits, Len(deposits) - Age(c, k))
        BY <2>1 DEF RingInv
    <2>3. ASSUME NEW k \in RootSlots
          PROVE  pool'.roots[k] = RootAt(deposits', Len(deposits') - Age(d, k))
        <3>1. CASE k = d
            <4>1. Age(d, k) = 0
                BY <1>1, <1>2, <3>1, AgeShift
            <4>2. Len(deposits') - Age(d, k) = Len(deposits) + 1
                BY <1>1, <4>1, <1>0
            <4>. QED
                BY <1>2, <3>1, <4>2, <1>0
        <3>2. CASE k # d
            <4>1. Age(d, k) = Age(c, k) + 1
                BY <1>1, <1>2, <3>2, AgeShift
            <4>2. Age(c, k) \in Nat
                <5>1. Age(c, k) \in RootSlots
                    BY <1>1, AgeRange
                <5>. QED
                    BY <5>1 DEF RootSlots
            <4>3. Len(deposits') - Age(d, k) = Len(deposits) - Age(c, k)
                BY <1>1, <4>1, <4>2, <1>0
            <4>4. /\ Len(deposits) - Age(c, k) \in Int
                  /\ Len(deposits) - Age(c, k) <= Len(deposits)
                BY <1>1, <4>2
            <4>5. pool'.roots[k] = pool.roots[k]
                BY <1>2, <3>2
            <4>6. pool.roots[k] = RootAt(deposits, Len(deposits) - Age(c, k))
                BY <2>2
            <4>7. RootAt(deposits', Len(deposits) - Age(c, k))
                    = RootAt(deposits, Len(deposits) - Age(c, k))
                BY <1>0, <4>4
            <4>. QED
                BY <4>3, <4>5, <4>6, <4>7
        <3>. QED
            BY <3>1, <3>2
    <2>. QED
        BY <1>2, <2>3 DEF RingInv, RootAt, Age
<1>. QED
    BY <1>3, <1>4, <1>5, <1>6

LEMMA IInvWithdraw ==
    ASSUME IInv, NEW nullifier_hash \in NullifierHashes, NEW root \in Roots,
           NEW to \in Pubkeys, NEW recipient \in Pubkeys, NEW amount \in Amounts,
           Withdraw(nullifier_hash, root, to, recipient, amount)
    PROVE  IInv'
<1>. USE DEF IInv
<1>. DEFINE r0 == [nullifier_hash |-> nullifier_hash,
                   recipient      |-> to,
                   amount         |-> amount]
            e0 == [nullifier_hash |-> nullifier_hash,
                   recipient      |-> recipient,
                   root           |-> root]
<1>1. /\ r0 \in NullifierRecord
      /\ e0 \in WithdrawEvent
      /\ r0.nullifier_hash = nullifier_hash
      /\ e0.nullifier_hash = nullifier_hash
    BY AmountAssumption DEF NullifierRecord, WithdrawEvent
<1>2. /\ nullifier_records' = nullifier_records \cup {r0}
      /\ withdrawals' = Append(withdrawals, e0)
      /\ withdrawals \in Seq(WithdrawEvent)
    BY DEF Withdraw, TypeOK
<1>. HIDE DEF r0, e0
<1>3. /\ withdrawals' \in Seq(WithdrawEvent)
      /\ Len(withdrawals') = Len(withdrawals) + 1
      /\ Len(withdrawals) \in Nat
      /\ \A i \in 1 .. Len(withdrawals) : withdrawals'[i] = withdrawals[i]
      /\ withdrawals'[Len(withdrawals) + 1] = e0
    BY <1>1, <1>2
<1>4. TypeOK'
    <2>1. vault' \in Nat
        BY AmountAssumption DEF Withdraw, TypeOK
    <2>. QED
        BY <1>1, <1>2, <1>3, <2>1 DEF Withdraw, TypeOK
<1>5. LeavesDense'
    BY DEF Withdraw, LeavesDense
<1>6. SpentOnce'
    <2>1. \A r \in nullifier_records : r.nullifier_hash # nullifier_hash
        BY DEF Withdraw, NullifierUnused
    <2>2. {r.nullifier_hash : r \in nullifier_records}
            = {withdrawals[i].nullifier_hash : i \in 1 .. Len(withdrawals)}
        BY DEF SpentOnce
    <2>3. \A i \in 1 .. Len(withdrawals) :
            withdrawals[i].nullifier_hash # nullifier_hash
        BY <2>1, <2>2
    <2>4. ASSUME NEW i \in 1 .. Len(withdrawals'), NEW j \in 1 .. Len(withdrawals'),
                 withdrawals'[i].nullifier_hash = withdrawals'[j].nullifier_hash
          PROVE  i = j
        <3>1. CASE i \in 1 .. Len(withdrawals) /\ j \in 1 .. Len(withdrawals)
            BY <1>3, <2>4, <3>1 DEF SpentOnce
        <3>2. CASE i = Len(withdrawals) + 1 /\ j \in 1 .. Len(withdrawals)
            BY <1>1, <1>3, <2>3, <2>4, <3>2
        <3>3. CASE i \in 1 .. Len(withdrawals) /\ j = Len(withdrawals) + 1
            BY <1>1, <1>3, <2>3, <2>4, <3>3
        <3>4. CASE i = Len(withdrawals) + 1 /\ j = Len(withdrawals) + 1
            BY <3>4
        <3>. QED
            BY <1>3, <3>1, <3>2, <3>3, <3>4
    <2>5. {r.nullifier_hash : r \in nullifier_records'}
            = {r.nullifier_hash : r \in nullifier_records} \cup {nullifier_hash}
        BY <1>1, <1>2
    <2>6. {withdrawals'[i].nullifier_hash : i \in 1 .. Len(withdrawals')}
            = {withdrawals[i].nullifier_hash : i \in 1 .. Len(withdrawals)}
                \cup {nullifier_hash}
        <3>1. 1 .. Len(withdrawals') = 1 .. Len(withdrawals) \cup {Len(withdrawals) + 1}
            BY <1>3
        <3>. QED
            BY <1>1, <1>3, <3>1
    <2>7. ASSUME NEW r \in nullifier_records', NEW s \in nullifier_records',
                 r.nullifier_hash = s.nullifier_hash
          PROVE  r = s
        BY <1>1, <1>2, <2>1, <2>7 DEF SpentOnce
    <2>. QED
        BY <2>2, <2>4, <2>5, <2>6, <2>7 DEF SpentOnce
<1>7. RingInv'
    BY DEF Withdraw, RingInv
<1>. QED
    BY <1>4, <1>5, <1>6, <1>7

LEMMA IInvNext ==
    ASSUME IInv, [Next]_vars
    PROVE  IInv'
<1>1. ASSUME NEW authority \in Pubkeys, InitPool(authority)
      PROVE  IInv'
    BY <1>1, IInvInitPool
<1>2. ASSUME NEW commitment \in Commitments, NEW new_root \in Roots,
             NEW amount \in Amounts, Deposit(commitment, new_root, amount)
      PROVE  IInv'
    BY <1>2, IInvDeposit
<1>3. ASSUME NEW nullifier_hash \in NullifierHashes, NEW root \in Roots,
             NEW to \in Pubkeys, NEW recipient \in Pubkeys, NEW amount \in Amounts,
             Withdraw(nullifier_hash, root, to, recipient, amount)
      PROVE  IInv'
    BY <1>3, IInvWithdraw
<1>4. CASE UNCHANGED vars
    BY <1>4 DEF IInv, vars, TypeOK, LeavesDense, SpentOnce, RingInv
<1>. QED
    BY <1>1, <1>2, <1>3, <1>4 DEF Next

-----------------------------------------------------------------------------

\* The inductive invariant holds in every reachable state of every pool.
THEOREM Invariance == Spec => []IInv
<1>1. Init => IInv
    BY IInvInit
<1>2. IInv /\ [Next]_vars => IInv'
    BY IInvNext
<1>. QED
    BY <1>1, <1>2, PTL DEF Spec

\* The accounts and the event log stay well typed: in particular the leaf
\* counter never passes MAX_LEAVES and the ring index never leaves the ring.
THEOREM TypeCorrect == Spec => []TypeOK
<1>1. IInv => TypeOK
    BY DEF IInv
<1>. QED
    BY <1>1, Invariance, PTL

\* The ring buffer is the window of the last ROOT_HISTORY_SIZE roots.
THEOREM RootWindowHolds == Spec => []RootWindow
<1>1. IInv => RootWindow
    BY RingGivesWindow DEF IInv
<1>. QED
    BY <1>1, Invariance, PTL

\* The event log numbers the leaves without gap.
THEOREM LeavesDenseHolds == Spec => []LeavesDense
<1>1. IInv => LeavesDense
    BY DEF IInv
<1>. QED
    BY <1>1, Invariance, PTL

\* No nullifier is ever paid twice.
THEOREM SpentOnceHolds == Spec => []SpentOnce
<1>1. IInv => SpentOnce
    BY DEF IInv
<1>. QED
    BY <1>1, Invariance, PTL

-----------------------------------------------------------------------------

\* The ledger's view of the log.
History(log) == [i \in 1 .. Len(log) |-> log[i].new_root]

Spent(log) ==
    {[nullifier_hash |-> log[i].nullifier_hash, root |-> log[i].root]
        : i \in 1 .. Len(log)}

LEMMA HistorySeq ==
    ASSUME NEW log \in Seq(DepositEvent)
    PROVE  /\ History(log) \in Seq(Roots)
           /\ Len(History(log)) = Len(log)
           /\ \A i \in 1 .. Len(log) : History(log)[i] = log[i].new_root
<1>1. \A e \in DepositEvent : e.new_root \in Roots
    BY DEF DepositEvent
<1>2. Len(log) \in Nat /\ \A i \in 1 .. Len(log) : log[i] \in DepositEvent
    OBVIOUS
<1>. QED
    BY <1>1, <1>2 DEF History

\* The roots a withdrawal may name are the same on both sides.
LEMMA SameWindow ==
    ASSUME TypeOK
    PROVE  /\ \A i \in Int : Ledger!RootAfter(i) = RootAt(deposits, i)
           /\ Ledger!Accepted = RecentRoots
           /\ Ledger!RootAfter(Len(History(deposits)))
                = RootAt(deposits, Len(deposits))
<1>1. /\ Len(History(deposits)) = Len(deposits)
      /\ Len(deposits) \in Nat
      /\ \A i \in 1 .. Len(deposits) : History(deposits)[i] = deposits[i].new_root
    BY HistorySeq DEF TypeOK
<1>2. ASSUME NEW i \in Int
      PROVE  Ledger!RootAfter(i) = RootAt(deposits, i)
    BY <1>1 DEF Ledger!RootAfter, RootAt, History
<1>3. Ledger!Accepted
        = {Ledger!RootAfter(Len(deposits) - j) : j \in RootSlots}
    BY <1>1 DEF Ledger!Accepted, RootSlots, History
<1>4. \A j \in RootSlots : Len(deposits) - j \in Int
    BY <1>1 DEF RootSlots
<1>5. Ledger!Accepted = RecentRoots
    BY <1>2, <1>3, <1>4 DEF RecentRoots
<1>. QED
    BY <1>1, <1>2, <1>5

LEMMA LedgerInit ==
    ASSUME Init
    PROVE  Ledger!Init
<1>1. History(deposits) = << >>
    BY DEF Init, History
<1>. QED
    BY <1>1 DEF Init, Ledger!Init, History

LEMMA LedgerDeposit ==
    ASSUME IInv, NEW commitment \in Commitments, NEW new_root \in Roots,
           NEW amount \in Amounts, Deposit(commitment, new_root, amount)
    PROVE  Ledger!Post(new_root)
<1>. USE DEF IInv
<1>1. /\ deposits \in Seq(DepositEvent)
      /\ deposits' \in Seq(DepositEvent)
      /\ Len(deposits) \in Nat
      /\ Len(deposits') = Len(deposits) + 1
      /\ \A i \in 1 .. Len(deposits) : deposits'[i] = deposits[i]
      /\ deposits'[Len(deposits) + 1].new_root = new_root
    BY DepositHistory DEF TypeOK
<1>2. pool # NoPool /\ pool' # NoPool /\ pool \in PoolAcc
    <2>1. pool # NoPool /\ pool \in PoolAcc /\ pool.next_leaf_index < MAX_LEAVES
        BY DEF Deposit, TreeHasRoom, TypeOK
    <2>2. pool' \in PoolAcc
        BY <2>1, DepositedPool DEF Deposit
    <2>. QED
        BY <2>1, <2>2, NoPoolAssumption
<1>3. Len(deposits) < MAX_LEAVES
    BY <1>2 DEF Deposit, TreeHasRoom, LeavesDense
<1>4. new_root # RootAt(deposits, Len(deposits))
    BY <1>2, RingGivesWindow DEF Deposit, RootWindow
<1>5. History(deposits') = Append(History(deposits), new_root)
    <2>1. /\ History(deposits) \in Seq(Roots)
          /\ Len(History(deposits)) = Len(deposits)
          /\ \A i \in 1 .. Len(deposits) :
                History(deposits)[i] = deposits[i].new_root
        BY <1>1, HistorySeq
    <2>2. /\ History(deposits') \in Seq(Roots)
          /\ Len(History(deposits')) = Len(deposits')
          /\ \A i \in 1 .. Len(deposits') :
                History(deposits')[i] = deposits'[i].new_root
        BY <1>1, HistorySeq
    <2>. DEFINE h == Append(History(deposits), new_root)
    <2>3. /\ h \in Seq(Roots)
          /\ Len(h) = Len(deposits) + 1
          /\ \A i \in 1 .. Len(deposits) : h[i] = deposits[i].new_root
          /\ h[Len(deposits) + 1] = new_root
        BY <1>1, <2>1
    <2>. HIDE DEF h
    <2>4. ASSUME NEW i \in 1 .. Len(deposits')
          PROVE  History(deposits')[i] = h[i]
        BY <1>1, <2>2, <2>3
    <2>5. History(deposits') = h
        BY <1>1, <2>2, <2>3, <2>4, SeqEqual
    <2>. QED
        BY <2>5 DEF h
<1>6. /\ Len(History(deposits)) = Len(deposits)
      /\ Ledger!RootAfter(Len(History(deposits))) = RootAt(deposits, Len(deposits))
    BY <1>1, HistorySeq, SameWindow
<1>. QED
    BY <1>2, <1>3, <1>4, <1>5, <1>6 DEF Deposit, Ledger!Post, History

LEMMA LedgerWithdraw ==
    ASSUME IInv, NEW nullifier_hash \in NullifierHashes, NEW root \in Roots,
           NEW to \in Pubkeys, NEW recipient \in Pubkeys, NEW amount \in Amounts,
           Withdraw(nullifier_hash, root, to, recipient, amount)
    PROVE  Ledger!Spend(nullifier_hash, root)
<1>. USE DEF IInv
<1>1. pool # NoPool /\ pool' = pool /\ deposits' = deposits
    BY DEF Withdraw
<1>2. \A s \in Spent(withdrawals) : s.nullifier_hash # nullifier_hash
    <2>1. nullifier_hash \notin {r.nullifier_hash : r \in nullifier_records}
        BY DEF Withdraw, NullifierUnused
    <2>2. \A i \in 1 .. Len(withdrawals) :
            withdrawals[i].nullifier_hash # nullifier_hash
        BY <2>1 DEF SpentOnce
    <2>. QED
        BY <2>2 DEF Spent
<1>3. root \in Ledger!Accepted
    <2>1. is_known_root(pool, root)
        BY DEF Withdraw
    <2>. QED
        BY <1>1, <2>1, RingGivesWindow, SameWindow DEF RootWindow
<1>4. Spent(withdrawals')
        = Spent(withdrawals) \cup {[nullifier_hash |-> nullifier_hash, root |-> root]}
    <2>. DEFINE e0 == [nullifier_hash |-> nullifier_hash,
                       recipient      |-> recipient,
                       root           |-> root]
    <2>1. e0.nullifier_hash = nullifier_hash /\ e0.root = root
        OBVIOUS
    <2>2. e0 \in WithdrawEvent
        BY DEF WithdrawEvent
    <2>3. withdrawals \in Seq(WithdrawEvent) /\ withdrawals' = Append(withdrawals, e0)
        BY DEF Withdraw, TypeOK
    <2>. HIDE DEF e0
    <2>4. /\ 1 .. Len(withdrawals') = 1 .. Len(withdrawals) \cup {Len(withdrawals) + 1}
          /\ \A i \in 1 .. Len(withdrawals) : withdrawals'[i] = withdrawals[i]
          /\ withdrawals'[Len(withdrawals) + 1] = e0
        BY <2>2, <2>3
    <2>. QED
        BY <2>1, <2>4 DEF Spent
<1>. QED
    BY <1>1, <1>2, <1>3, <1>4 DEF Ledger!Spend, Spent

LEMMA LedgerNext ==
    ASSUME IInv, [Next]_vars
    PROVE  [Ledger!Next]_(Ledger!vars)
<1>1. ASSUME NEW authority \in Pubkeys, InitPool(authority)
      PROVE  Ledger!Create
    <2>1. pool = NoPool /\ pool' # NoPool
        <3>1. authority \in Pubkeys /\ 0 \in 0 .. MAX_LEAVES /\ 0 \in RootSlots
            BY RingAssumption DEF RootSlots
        <3>2. pool' \in PoolAcc
            BY <1>1, <3>1, RingAssumption DEF InitPool, PoolAcc
        <3>. QED
            BY <1>1, <3>2, NoPoolAssumption DEF InitPool
    <2>. QED
        BY <1>1, <2>1 DEF InitPool, Ledger!Create
<1>2. ASSUME NEW commitment \in Commitments, NEW new_root \in Roots,
             NEW amount \in Amounts, Deposit(commitment, new_root, amount)
      PROVE  Ledger!Post(new_root)
    BY <1>2, LedgerDeposit
<1>3. ASSUME NEW nullifier_hash \in NullifierHashes, NEW root \in Roots,
             NEW to \in Pubkeys, NEW recipient \in Pubkeys, NEW amount \in Amounts,
             Withdraw(nullifier_hash, root, to, recipient, amount)
      PROVE  Ledger!Spend(nullifier_hash, root)
    BY <1>3, LedgerWithdraw
<1>4. CASE UNCHANGED vars
    BY <1>4 DEF vars, Ledger!vars
<1>. QED
    BY <1>1, <1>2, <1>3, <1>4 DEF Next, Ledger!Next

\* The program implements the ledger it promises: every instruction is one step
\* of the ledger or leaves it alone.
THEOREM Refinement == Spec => LedgerSpec
<1>1. Init => Ledger!Init
    BY LedgerInit
<1>2. IInv /\ [Next]_vars => [Ledger!Next]_(Ledger!vars)
    BY LedgerNext
<1>. QED
    BY <1>1, <1>2, Invariance, PTL DEF Spec, LedgerSpec, Ledger!Spec
=============================================================================
