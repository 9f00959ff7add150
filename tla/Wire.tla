-------------------------------- MODULE Wire --------------------------------
(***************************************************************************)
(* The pool program as it meets its clients: in bytes.  Pages and the      *)
(* generated client build instructions (module Codec); the program picks   *)
(* its handler by discriminator, checks the accounts it was given, reads   *)
(* its arguments, and keeps its own accounts and events as bytes the page  *)
(* and the backend read again.                                             *)
(*                                                                         *)
(* useDeposit.ts and useWithdraw.ts lay their bytes out by hand, at their  *)
(* own offsets; the generated code has the IDL's, and the program the ones *)
(* of its structs.  Nothing in the repository tests that they agree.       *)
(***************************************************************************)
EXTENDS Codec

CONSTANTS
    Wallets,             \* names of wallets; Key(w) is the address of one
    Commitments, Roots, NullifierHashes,   \* names of 32-byte values
    EMPTY_ROOT,
    Lamports,            \* amounts
    MIN_DEPOSIT_AMOUNT, MAX_LEAVES,
    PROOF_LENGTH,        \* bytes of a whole proof
    Statements,          \* public inputs somebody can prove, as values
    NoPool, NoTx

ASSUME WireAssumption ==
    /\ EMPTY_ROOT \in Roots
    /\ Lamports \subseteq Nat
    /\ MIN_DEPOSIT_AMOUNT \in Nat /\ MAX_LEAVES \in Nat
    /\ PROOF_LENGTH \in Nat \ {0}

VARIABLES
    accounts,   \* the data of the program's accounts, by address
    vault,      \* lamports of the vault
    log,        \* instructions executed, each with the event it emitted
    tx          \* the instruction under way, with what its author meant, or NoTx

vars == <<accounts, vault, log, tx>>

Key(w) == <<"wallet", w>>
Word(w) == <<"word", w>>
TIMESTAMP == Number(0)
VERIFIER_PROGRAM_ID == ProgramKey("verifier")

-----------------------------------------------------------------------------
(***************************************************************************)
(* Building instructions.  `meant` keeps what the author wanted.           *)
(***************************************************************************)

\* data.set(bytes, offset) of a Uint8Array.
Put(data, bytes, offset) ==
    [k \in DOMAIN data |->
        IF k - offset \in DOMAIN bytes THEN bytes[k - offset] ELSE data[k]]

\* A new Uint8Array is all zeros.
Zeros(length) == [k \in 1 .. length |-> <<Number(0), 0>>]

\* Mutant: the root is put where the proof ends in a deposit of no proof.
depositData_off(commitment, targetNewRoot, amountLamports) ==
    Put(Put(Put(Put(Zeros(8 + 32 + 32 + 8),
        Bytes(Discriminator("deposit"), 8), 0),
        Bytes(commitment, 32), 8),
        Bytes(targetNewRoot, 32), 44),
        Bytes(amountLamports, 8), 72)

\* useDeposit lays its 80 bytes out at fixed offsets.
depositData(commitment, targetNewRoot, amountLamports) ==
    Put(Put(Put(Put(Zeros(8 + 32 + 32 + 8),
        Bytes(Discriminator("deposit"), 8), 0),
        Bytes(commitment, 32), 8),
        Bytes(targetNewRoot, 32), 40),
        Bytes(amountLamports, 8), 72)

\* useWithdraw moves an offset along a proof of any length.
withdrawData(proofOnly, nullifierHash, latestRoot, recipient, amountLamports) ==
    LET start == 8 + 4 + Len(proofOnly)
    IN  Put(Put(Put(Put(Put(Put(Put(Zeros(start + 32 + 32 + 32 + 8),
            Bytes(Discriminator("withdraw"), 8), 0),
            Bytes(Number(Len(proofOnly)), 4), 8),
            proofOnly, 12),
            Bytes(nullifierHash, 32), start),
            Bytes(latestRoot, 32), start + 32),
            Bytes(recipient, 32), start + 64),
            Bytes(amountLamports, 8), start + 96)

\* TransactionInstruction's keys.
Meta(pubkey, isSigner, isWritable) ==
    [address |-> pubkey, role |-> Role(isSigner, isWritable)]

depositInstruction(user, commitment, targetNewRoot, amountLamports) ==
    LET poolPda == findPoolPda
    IN  [programAddress |-> PTRANS_PROGRAM_ADDRESS,
         accounts |-> <<Meta(poolPda, FALSE, TRUE),
                        Meta(findPoolVaultPda(poolPda), FALSE, TRUE),
                        Meta(user, TRUE, TRUE),
                        Meta(SYSTEM_PROGRAM_ADDRESS, FALSE, FALSE)>>,
         data |-> depositData(commitment, targetNewRoot, amountLamports)]

\* Mutant: recipient and payer change places.
withdrawInstruction_swapped(user, proof, nullifierHash, root, recipient, amount) ==
    LET poolPda == findPoolPda
    IN  [programAddress |-> PTRANS_PROGRAM_ADDRESS,
         accounts |-> <<Meta(poolPda, FALSE, TRUE),
                        Meta(findNullifierRecordPda(poolPda, nullifierHash), FALSE, TRUE),
                        Meta(findPoolVaultPda(poolPda), FALSE, TRUE),
                        Meta(user, TRUE, TRUE),
                        Meta(recipient, FALSE, TRUE),
                        Meta(VERIFIER_PROGRAM_ID, FALSE, FALSE),
                        Meta(SYSTEM_PROGRAM_ADDRESS, FALSE, FALSE)>>,
         data |-> withdrawData(proof, nullifierHash, root, recipient, amount)]

withdrawInstruction(user, proof, nullifierHash, root, recipient, amount) ==
    LET poolPda == findPoolPda
    IN  [programAddress |-> PTRANS_PROGRAM_ADDRESS,
         accounts |-> <<Meta(poolPda, FALSE, TRUE),
                        Meta(findNullifierRecordPda(poolPda, nullifierHash), FALSE, TRUE),
                        Meta(findPoolVaultPda(poolPda), FALSE, TRUE),
                        Meta(recipient, FALSE, TRUE),
                        Meta(user, TRUE, TRUE),
                        Meta(VERIFIER_PROGRAM_ID, FALSE, FALSE),
                        Meta(SYSTEM_PROGRAM_ADDRESS, FALSE, FALSE)>>,
         data |-> withdrawData(proof, nullifierHash, root, recipient, amount)]

\* A proof of a statement; the prover may hand out the front of one (module
\* Prover), and one such proof stands for all.
Proof(statement) == Bytes(<<"proof", statement>>, PROOF_LENGTH)
Proofs == {Proof(s) : s \in Statements} \cup
          {First(Proof(CHOOSE s \in Statements : TRUE), PROOF_LENGTH - 1)}

Submit(meant, ix) ==
    /\ tx = NoTx
    /\ tx' = [meant |-> meant, ix |-> ix]
    /\ UNCHANGED <<accounts, vault, log>>

\* usePool.initializePool: the generated builder, its roles turned into flags.
SubmitPool(w) ==
    LET built == getPoolInstructionAsync(
                    [pool |-> Absent, poolVault |-> Absent,
                     authority |-> Key(w), systemProgram |-> Absent])
        isSigner(role) == role \in {2, 3}
        isWritable(role) == role \in {1, 3}
    IN  Submit([name |-> "pool", payer |-> w],
               [built EXCEPT !.accounts =
                    [k \in DOMAIN @ |-> Meta(@[k].address, isSigner(@[k].role),
                                             isWritable(@[k].role))]])

\* useDeposit.deposit, or the generated client.
SubmitDeposit(w, commitment, new_root, amount) ==
    LET meant == [name |-> "deposit", payer |-> w, commitment |-> commitment,
                  new_root |-> new_root, amount |-> amount]
    IN  \/ Submit(meant, depositInstruction(Key(w), Word(commitment), Word(new_root),
                                            Number(amount)))
        \/ LET args == [commitment |-> Word(commitment), newRoot |-> Word(new_root),
                        amount |-> Number(amount)]
               input == [pool |-> Absent, poolVault |-> Absent, depositor |-> Key(w),
                         systemProgram |-> Absent]
           IN  \/ Submit(meant, getDepositInstructionAsync(input, args))
               \/ Submit(meant, getDepositInstruction(
                    [input EXCEPT !.pool = findPoolPda,
                                  !.poolVault = findPoolVaultPda(findPoolPda)], args))

\* useWithdraw.withdraw, which names one recipient, or the generated client,
\* which may name two.
SubmitWithdraw(w, proof, nullifier_hash, root, to, recipient, amount) ==
    LET meant == [name |-> "withdraw", payer |-> w, nullifier_hash |-> nullifier_hash,
                  root |-> root, to |-> to, recipient |-> recipient, amount |-> amount]
    IN  \/ /\ recipient = to
           /\ Submit(meant, withdrawInstruction(Key(w), proof, Word(nullifier_hash),
                                                Word(root), Key(to), Number(amount)))
        \/ LET args == [proof |-> proof, nullifierHash |-> Word(nullifier_hash),
                        root |-> Word(root), to |-> Key(to), amount |-> Number(amount)]
               input == [pool |-> Absent, nullifierRecord |-> Absent,
                         poolVault |-> Absent, recipient |-> Key(recipient),
                         payer |-> Key(w), verifierProgram |-> VERIFIER_PROGRAM_ID,
                         systemProgram |-> Absent]
           IN  \/ Submit(meant, getWithdrawInstructionAsync(input, args))
               \/ Submit(meant, getWithdrawInstruction(
                    [input EXCEPT !.pool = findPoolPda,
                        !.nullifierRecord = findNullifierRecordPda(findPoolPda,
                                                                   args.nullifierHash),
                        !.poolVault = findPoolVaultPda(findPoolPda)], args))

-----------------------------------------------------------------------------
(***************************************************************************)
(* The program's side: its layouts, its account constraints, its errors.   *)
(***************************************************************************)

\* Borsh: the fields of PoolAcc and NullifierRecord behind 8 bytes, in the
\* order of the structs.
PoolAcc ==
    <<Fixed("discriminator", 8), Fixed("authority", 32), Fixed("next_leaf_index", 8),
      Fixed("total_deposits", 8), Fixed("current_root_index", 8),
      Array("roots", 32, ROOT_HISTORY_SIZE)>>

NullifierRecord ==
    <<Fixed("discriminator", 8), Fixed("pool", 32), Fixed("nullifier_hash", 32),
      Fixed("recipient", 32), Fixed("amount", 8), Fixed("timestamp", 8)>>

DepositEvent ==
    <<Fixed("discriminator", 8), Fixed("commitment", 32), Fixed("leaf_index", 8),
      Fixed("timestamp", 8), Fixed("new_root", 32)>>

WithdrawEvent ==
    <<Fixed("discriminator", 8), Fixed("nullifier_hash", 32), Fixed("recipient", 32),
      Fixed("timestamp", 8)>>

\* The arguments of the handlers, in their order.
Arguments ==
    [pool     |-> <<Fixed("discriminator", 8)>>,
     deposit  |-> <<Fixed("discriminator", 8), Fixed("commitment", 32),
                    Fixed("new_root", 32), Fixed("amount", 8)>>,
     withdraw |-> <<Fixed("discriminator", 8), Vec("proof"),
                    Fixed("nullifier_hash", 32), Fixed("root", 32),
                    Fixed("to", 32), Fixed("amount", 8)>>]

\* The seeds of the program's accounts.
PoolAddress == ProgramDerivedAddress(PTRANS_PROGRAM_ADDRESS, <<"pool3">>)

VaultAddress(pool) ==
    ProgramDerivedAddress(PTRANS_PROGRAM_ADDRESS, <<"vault3", pool>>)

RecordAddress(pool, nullifier_hash) ==
    ProgramDerivedAddress(PTRANS_PROGRAM_ADDRESS,
                          <<"nullifier_record", pool, nullifier_hash>>)

AnyKey == <<"any", 0>>
Account(isMut, isSigner, key) == [isMut |-> isMut, isSigner |-> isSigner, key |-> key]

\* #[derive(Accounts)] of InitPool, InitDeposit and InitWithdraw.
Constraints(name, args) ==
    LET pool == PoolAddress
        fixed == Account(TRUE, FALSE, pool)
        pool_vault == Account(TRUE, FALSE, VaultAddress(pool))
        payer == Account(TRUE, TRUE, AnyKey)
        system_program == Account(FALSE, FALSE, SYSTEM_PROGRAM_ADDRESS)
    IN  IF name \in {"pool", "deposit"}
        THEN <<fixed, pool_vault, payer, system_program>>
        ELSE <<fixed,
               Account(TRUE, FALSE, RecordAddress(pool, args.nullifier_hash)),
               pool_vault, Account(TRUE, FALSE, AnyKey), payer,
               Account(FALSE, FALSE, VERIFIER_PROGRAM_ID), system_program>>

Meets(meta, constraint) ==
    /\ constraint.isMut => meta.role \in {1, 3}
    /\ constraint.isSigner => meta.role \in {2, 3}
    /\ constraint.key # AnyKey => meta.address = constraint.key

HandlerOf(data) == Identify(data, DOMAIN Arguments)
ArgumentsOf(ix) == Decode(Arguments[HandlerOf(ix.data)], ix.data)

\* The instruction finds its handler, and its accounts pass what can be
\* checked of them before any data is looked at.
WellFormed(ix) ==
    /\ HandlerOf(ix.data) # "unknown"
    /\ LET constraints == Constraints(HandlerOf(ix.data), ArgumentsOf(ix))
       IN  /\ Len(ix.accounts) >= Len(constraints)
           /\ \A k \in DOMAIN constraints : Meets(ix.accounts[k], constraints[k])

\* The verifier reads a proof of the length it knows, a 12-byte header and the
\* four public inputs.
VerifierInput(proof, inputs) ==
    proof \o Bytes(<<"header", 4>>, 12)
          \o FlattenSeq([k \in 1 .. 4 |-> Bytes(inputs[k], 32)])

VerifierAccepts(proof, inputs) ==
    \E s \in Statements : VerifierInput(proof, inputs) = VerifierInput(Proof(s), s)

PoolData == Decode(PoolAcc, accounts[PoolAddress])

\* Each check with its error, in the order of the code.
Checks(ix) ==
    LET name == HandlerOf(ix.data)
        args == ArgumentsOf(ix)
        pool == PoolData
        amount == NumberOf(args.amount)
    IN  CASE name = "deposit" ->
                <<[error |-> "TreeFull",
                   fails |-> NumberOf(pool.next_leaf_index) >= MAX_LEAVES],
                  [error |-> "DepositTooSmall", fails |-> amount < MIN_DEPOSIT_AMOUNT],
                  [error |-> "InvalidRoot",
                   fails |-> args.new_root
                                = pool.roots[NumberOf(pool.current_root_index) + 1]]>>
          [] name = "withdraw" ->
                <<[error |-> "AccountInUse", fails |-> ix.accounts[2].address
                                                            \in DOMAIN accounts],
                  [error |-> "RecipientMismatch",
                   fails |-> ix.accounts[4].address # args.to],
                  [error |-> "InsufficientVaultBalance", fails |-> vault < amount],
                  [error |-> "InvalidRoot",
                   fails |-> args.root \notin ToSet(pool.roots)],
                  [error |-> "InvalidProof",
                   fails |-> ~VerifierAccepts(args.proof,
                                <<args.root, args.nullifier_hash, args.to,
                                  args.amount>>)]>>

\* #[error_code] numbers the variants from 6000.
PtransError ==
    <<"TreeFull", "InvalidRoot", "NullifierUsed", "DepositTooSmall",
      "RecipientMismatch", "InvalidVerifier", "InsufficientVaultBalance",
      "InvalidProof", "VerificationFailed", "Overflow">>

\* Errors of the framework and of the system program have other numbers.
CodeOf(error) ==
    IF error \in ToSet(PtransError)
    THEN 5999 + CHOOSE k \in DOMAIN PtransError : PtransError[k] = error
    ELSE 0

\* Why the instruction is refused, or "none".
Refusal(ix) ==
    IF ~WellFormed(ix) THEN "malformed"
    ELSE IF (HandlerOf(ix.data) = "pool") = (PoolAddress \in DOMAIN accounts)
         THEN "account"       \* created twice, or used before it is
    ELSE IF HandlerOf(ix.data) = "pool" THEN "none"
    ELSE LET failed == SelectSeq(Checks(ix), LAMBDA check : check.fails)
         IN  IF failed = << >> THEN "none" ELSE failed[1].error

-----------------------------------------------------------------------------
(***************************************************************************)
(* Executing.                                                              *)
(***************************************************************************)

Done(ix, event) ==
    /\ log' = Append(log, [data |-> ix.data, event |-> event])
    /\ tx' = NoTx

ExecutePool(ix) ==
    /\ accounts' = accounts @@ (ix.accounts[1].address :>
            Encode(PoolAcc, WithDiscriminator("PoolAcc",
                [authority          |-> ix.accounts[3].address,
                 next_leaf_index    |-> Number(0),
                 total_deposits     |-> Number(0),
                 current_root_index |-> Number(0),
                 roots |-> [k \in 1 .. ROOT_HISTORY_SIZE |-> Word(EMPTY_ROOT)]])))
    /\ UNCHANGED vault
    /\ Done(ix, << >>)

ExecuteDeposit(ix) ==
    LET args == ArgumentsOf(ix)
        pool == PoolData
        index == (NumberOf(pool.current_root_index) + 1) % ROOT_HISTORY_SIZE
    IN  /\ accounts' = [accounts EXCEPT ![ix.accounts[1].address] =
                Encode(PoolAcc,
                    [pool EXCEPT !.next_leaf_index = Number(NumberOf(@) + 1),
                                 !.total_deposits  = Number(NumberOf(@) + 1),
                                 !.current_root_index = Number(index),
                                 !.roots[index + 1] = args.new_root])]
        /\ vault' = vault + NumberOf(args.amount)
        /\ Done(ix, Encode(DepositEvent, WithDiscriminator("DepositEvent",
                [commitment |-> args.commitment,
                 leaf_index |-> pool.next_leaf_index,
                 timestamp  |-> TIMESTAMP,
                 new_root   |-> args.new_root])))

ExecuteWithdraw(ix) ==
    LET args == ArgumentsOf(ix)
    IN  /\ accounts' = accounts @@ (ix.accounts[2].address :>
                Encode(NullifierRecord, WithDiscriminator("NullifierRecord",
                    [pool           |-> ix.accounts[1].address,
                     nullifier_hash |-> args.nullifier_hash,
                     recipient      |-> args.to,
                     amount         |-> args.amount,
                     timestamp      |-> TIMESTAMP])))
        /\ vault' = vault - NumberOf(args.amount)
        /\ Done(ix, Encode(WithdrawEvent, WithDiscriminator("WithdrawEvent",
                [nullifier_hash |-> args.nullifier_hash,
                 recipient      |-> ix.accounts[4].address,
                 timestamp      |-> TIMESTAMP])))

Execute ==
    /\ tx # NoTx
    /\ Refusal(tx.ix) = "none"
    /\ CASE HandlerOf(tx.ix.data) = "pool"     -> ExecutePool(tx.ix)
         [] HandlerOf(tx.ix.data) = "deposit"  -> ExecuteDeposit(tx.ix)
         [] HandlerOf(tx.ix.data) = "withdraw" -> ExecuteWithdraw(tx.ix)

\* A refused instruction leaves nothing; its error goes back to the caller.
Refuse ==
    /\ tx # NoTx
    /\ Refusal(tx.ix) # "none"
    /\ tx' = NoTx
    /\ UNCHANGED <<accounts, vault, log>>

Init ==
    /\ accounts = << >>
    /\ vault = 0
    /\ log = << >>
    /\ tx = NoTx

Next ==
    \/ \E w \in Wallets : SubmitPool(w)
    \/ \E w \in Wallets, commitment \in Commitments, new_root \in Roots,
          amount \in Lamports :
            SubmitDeposit(w, commitment, new_root, amount)
    \/ \E w, to, recipient \in Wallets, proof \in Proofs,
          nullifier_hash \in NullifierHashes, root \in Roots, amount \in Lamports :
            SubmitWithdraw(w, proof, nullifier_hash, root, to, recipient, amount)
    \/ Execute
    \/ Refuse

Spec == Init /\ [][Next]_vars

-----------------------------------------------------------------------------
(***************************************************************************)
(* What is read back: by the page, from the accounts, and by the backend,  *)
(* from the events.                                                        *)
(***************************************************************************)

PoolRead == Decode(PoolAccData, accounts[findPoolPda])

\* Mutant: the first slot of the ring is shown.
ShownRoot_first(pool) == pool.roots[1]

ShownRoot(pool) == pool.roots[NumberOf(pool.currentRootIndex) + 1]

\* usePool.fetchPoolInfo; when its two reads happen is module Page's.
PoolInfo ==
    [vaultBalance |-> vault] @@
    (IF findPoolPda \notin DOMAIN accounts
     THEN [isInitialized |-> FALSE, nextLeafIndex |-> 0, totalDeposits |-> 0,
           currentRoot |-> Word(EMPTY_ROOT)]
     ELSE [isInitialized |-> TRUE,
           nextLeafIndex |-> NumberOf(PoolRead.nextLeafIndex),
           totalDeposits |-> NumberOf(PoolRead.totalDeposits),
           currentRoot |-> ShownRoot(PoolRead)])

\* The events of one kind, with the data of their instructions.
Emitted(name) ==
    SelectSeq(log, LAMBDA entry : identifyPtransEvent(entry.event) = name)

DepositsRead ==
    [i \in DOMAIN Emitted("DepositEvent") |->
        Decode(DepositEventData, Emitted("DepositEvent")[i].event)]

RecordsRead ==
    {Decode(NullifierRecordData, accounts[a]) : a \in
        {b \in DOMAIN accounts :
            identifyPtransAccount(accounts[b]) = "NullifierRecord"}}

-----------------------------------------------------------------------------
(***************************************************************************)
(* Properties.                                                             *)
(***************************************************************************)

\* What the author of an instruction wanted, as the handler's arguments.
Wanted(meant) ==
    CASE meant.name = "pool" -> << >>
      [] meant.name = "deposit" ->
            [commitment |-> Word(meant.commitment), new_root |-> Word(meant.new_root),
             amount |-> Number(meant.amount)]
      [] meant.name = "withdraw" ->
            [nullifier_hash |-> Word(meant.nullifier_hash), root |-> Word(meant.root),
             to |-> Key(meant.to), amount |-> Number(meant.amount)]

\* Whatever is submitted, by the page's hand-laid bytes or by the generated
\* builders, reaches the handler its author meant, passes every check on the
\* accounts' flags and addresses, and hands the handler the arguments meant: the
\* offsets 8, 40 and 72 of useDeposit.ts:106-110, the moving offset of
\* useWithdraw.ts:153-174 and the seeds of generated/pdas agree with lib.rs and
\* the Accounts structs.
FormAccepted ==
    tx # NoTx =>
        /\ WellFormed(tx.ix)
        /\ HandlerOf(tx.ix.data) = tx.meant.name
        /\ LET wanted == Wanted(tx.meant)
           IN  \A field \in DOMAIN wanted : ArgumentsOf(tx.ix)[field] = wanted[field]

\* The generated parsers take any instruction of the page apart into the
\* accounts and arguments its author meant (generated/programs/ptrans.ts,
\* instructions/*.ts: parse*Instruction).
ParsedAsMeant ==
    tx # NoTx =>
        LET parsed == parsePtransInstruction(tx.ix)
            meant == tx.meant
        IN  CASE meant.name = "pool" -> parsed.accounts.authority = Key(meant.payer)
              [] meant.name = "deposit" ->
                    /\ parsed.accounts.depositor = Key(meant.payer)
                    /\ parsed.data.commitment = Word(meant.commitment)
                    /\ parsed.data.newRoot = Word(meant.new_root)
                    /\ parsed.data.amount = Number(meant.amount)
              [] meant.name = "withdraw" ->
                    /\ parsed.accounts.payer = Key(meant.payer)
                    /\ parsed.accounts.recipient = Key(meant.recipient)
                    /\ parsed.data.to = Key(meant.to)
                    /\ parsed.data.nullifierHash = Word(meant.nullifier_hash)
                    /\ parsed.data.root = Word(meant.root)
                    /\ parsed.data.amount = Number(meant.amount)

\* Every refusal the program numbers is called by its own name on the client's
\* side: the numbers of error.rs and of generated/errors/ptrans.ts agree.
RefusalNamed ==
    tx # NoTx =>
        LET refusal == Refusal(tx.ix)
        IN  CodeOf(refusal) # 0 => getPtransErrorMessage(CodeOf(refusal)) = refusal

\* What the page shows of the pool is what the ledger's events say: as many
\* leaves as deposits, the last deposit's root, and the lamports put in less
\* those taken out (usePool.ts:54-86, accounts/poolAcc.ts).
PageShowsLedger ==
    tx = NoTx =>
    LET made == DepositsRead
        put == FoldSeq(LAMBDA entry, sum : sum +
                    NumberOf(Decode(DepositInstructionData, entry.data).amount),
                    0, Emitted("DepositEvent"))
        taken == FoldSet(LAMBDA r, sum : sum + NumberOf(r.amount), 0, RecordsRead)
    IN  /\ PoolInfo.isInitialized = (log # << >>)
        /\ PoolInfo.nextLeafIndex = Len(made)
        /\ PoolInfo.totalDeposits = Len(made)
        /\ PoolInfo.currentRoot = IF made = << >> THEN Word(EMPTY_ROOT)
                                                  ELSE made[Len(made)].newRoot
        /\ PoolInfo.vaultBalance = put - taken

Keys == {Key(w) : w \in Wallets}

\* The program of module Pool, its state read with the generated codecs.
Program == INSTANCE Pool WITH
    Pubkeys         <- Keys,
    Commitments     <- {Word(c) : c \in Commitments},
    Roots           <- {Word(r) : r \in Roots},
    EMPTY_ROOT      <- Word(EMPTY_ROOT),
    NullifierHashes <- {Word(n) : n \in NullifierHashes},
    Amounts         <- Lamports,
    ReducedKey      <- [k \in Keys |-> k],
    Provable        <- {<<s[1], s[2], s[3], NumberOf(s[4])>> : s \in Statements},
    pool <- IF findPoolPda \notin DOMAIN accounts THEN NoPool
            ELSE [authority          |-> PoolRead.authority,
                  next_leaf_index    |-> NumberOf(PoolRead.nextLeafIndex),
                  total_deposits     |-> NumberOf(PoolRead.totalDeposits),
                  current_root_index |-> NumberOf(PoolRead.currentRootIndex),
                  roots |-> [k \in 0 .. ROOT_HISTORY_SIZE - 1 |-> PoolRead.roots[k + 1]]],
    nullifier_records <- {[nullifier_hash |-> r.nullifierHash,
                           recipient      |-> r.recipient,
                           amount         |-> NumberOf(r.amount)] : r \in RecordsRead},
    deposits <- [i \in DOMAIN DepositsRead |->
                    [commitment |-> DepositsRead[i].commitment,
                     leaf_index |-> NumberOf(DepositsRead[i].leafIndex),
                     new_root   |-> DepositsRead[i].newRoot]],
    withdrawals <- [i \in DOMAIN Emitted("WithdrawEvent") |->
        LET entry == Emitted("WithdrawEvent")[i]
            event == Decode(WithdrawEventData, entry.event)
        IN  [nullifier_hash |-> event.nullifierHash,
             recipient      |-> event.recipient,
             root           |-> Decode(WithdrawInstructionData, entry.data).root]]

\* Bytes implement the program: read with the generated client, the accounts and
\* events of the program start and change only as module Pool says.  This is
\* Program!Spec, whose variables are read from three of this module's, with the
\* stuttering steps said first.
ProgramSpec ==
    /\ Program!Init
    /\ [][UNCHANGED <<accounts, vault, log>> \/ Program!Next]_vars
=============================================================================
