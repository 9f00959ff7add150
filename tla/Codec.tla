------------------------------- MODULE Codec -------------------------------
(***************************************************************************)
(* The client generated from the program's IDL                             *)
(* (app/frontend/src/generated): how instructions, accounts and events are *)
(* laid out in bytes, where the program's accounts live, which accounts an *)
(* instruction names and what its refusals are called.                     *)
(*                                                                         *)
(* A value is a pair of a sort and a name.  Its bytes are symbols: the     *)
(* i-th byte of v is <<v, i>>.  A slice is a value again only if it is all *)
(* of that value's bytes in their order; any other slice is Garbage, so a  *)
(* wrong offset, width or order of fields never decodes by accident.       *)
(***************************************************************************)
EXTENDS Integers, Sequences, SequencesExt

CONSTANT ROOT_HISTORY_SIZE   \* 10 in the code

Garbage == <<"garbage", 0>>
Number(n) == <<"number", n>>
Discriminator(name) == <<"discriminator", name>>
ProgramKey(name) == <<"program", name>>

Bytes(v, width) == [i \in 1 .. width |-> <<v, i>>]

Value(slice, width) ==
    IF Len(slice) = width /\ slice = Bytes(slice[1][1], width)
    THEN slice[1][1]
    ELSE Garbage

-----------------------------------------------------------------------------
(***************************************************************************)
(* The codecs of @solana/kit the generated code is made of: fixed-size     *)
(* fields, byte vectors behind a u32 length, arrays, and structs of those. *)
(***************************************************************************)

Fixed(name, width) == [name |-> name, form |-> "fixed", width |-> width, count |-> 1]
Vec(name) == [name |-> name, form |-> "vec", width |-> 4, count |-> 1]
Array(name, width, count) ==
    [name |-> name, form |-> "array", width |-> width, count |-> count]

First(bytes, n) == SubSeq(bytes, 1, IF n < Len(bytes) THEN n ELSE Len(bytes))
After(bytes, n) == SubSeq(bytes, n + 1, Len(bytes))

EncodeField(f, v) ==
    CASE f.form = "fixed" -> Bytes(v, f.width)
      [] f.form = "vec"   -> Bytes(Number(Len(v)), f.width) \o v
      [] f.form = "array" -> FlattenSeq([k \in 1 .. f.count |-> Bytes(v[k], f.width)])

Encode(struct, value) ==
    FlattenSeq([k \in DOMAIN struct |-> EncodeField(struct[k], value[struct[k].name])])

NumberOf(v) == IF v[1] = "number" THEN v[2] ELSE 0

\* How many bytes the field takes at the front of `rest`.
Extent(f, rest) ==
    CASE f.form = "fixed" -> f.width
      [] f.form = "vec"   -> f.width + NumberOf(Value(First(rest, f.width), f.width))
      [] f.form = "array" -> f.width * f.count

DecodeField(f, slice) ==
    CASE f.form = "fixed" -> Value(slice, f.width)
      [] f.form = "vec"   -> After(slice, f.width)
      [] f.form = "array" -> [k \in 1 .. f.count |->
                Value(First(After(slice, (k - 1) * f.width), f.width), f.width)]

\* Fields follow one another; only a vector's extent depends on the data.
Decode(struct, data) ==
    LET start[k \in DOMAIN struct] ==
            IF k = 1 THEN 0
            ELSE start[k - 1] + Extent(struct[k - 1], After(data, start[k - 1]))
        field(k) ==
            LET rest == After(data, start[k])
            IN  DecodeField(struct[k], First(rest, Extent(struct[k], rest)))
    IN  [name \in {struct[k].name : k \in DOMAIN struct} |->
            field(CHOOSE k \in DOMAIN struct : struct[k].name = name)]

-----------------------------------------------------------------------------
(***************************************************************************)
(* Instruction data, accounts and events.                                  *)
(***************************************************************************)

PoolInstructionData == <<Fixed("discriminator", 8)>>

DepositInstructionData ==
    <<Fixed("discriminator", 8), Fixed("commitment", 32), Fixed("newRoot", 32),
      Fixed("amount", 8)>>

WithdrawInstructionData ==
    <<Fixed("discriminator", 8), Vec("proof"), Fixed("nullifierHash", 32),
      Fixed("root", 32), Fixed("to", 32), Fixed("amount", 8)>>

\* Mutant: generated before total_deposits was added to the account.
PoolAccData_old ==
    <<Fixed("discriminator", 8), Fixed("authority", 32), Fixed("nextLeafIndex", 8),
      Fixed("currentRootIndex", 8), Fixed("totalDeposits", 8),
      Array("roots", 32, ROOT_HISTORY_SIZE)>>

PoolAccData ==
    <<Fixed("discriminator", 8), Fixed("authority", 32), Fixed("nextLeafIndex", 8),
      Fixed("totalDeposits", 8), Fixed("currentRootIndex", 8),
      Array("roots", 32, ROOT_HISTORY_SIZE)>>

NullifierRecordData ==
    <<Fixed("discriminator", 8), Fixed("pool", 32), Fixed("nullifierHash", 32),
      Fixed("recipient", 32), Fixed("amount", 8), Fixed("timestamp", 8)>>

DepositEventData ==
    <<Fixed("discriminator", 8), Fixed("commitment", 32), Fixed("leafIndex", 8),
      Fixed("timestamp", 8), Fixed("newRoot", 32)>>

WithdrawEventData ==
    <<Fixed("discriminator", 8), Fixed("nullifierHash", 32), Fixed("recipient", 32),
      Fixed("timestamp", 8)>>

\* The encoders put the discriminator in themselves.
WithDiscriminator(name, args) == [discriminator |-> Discriminator(name)] @@ args

StartsWith(data, name) == First(data, 8) = Bytes(Discriminator(name), 8)

\* The identify functions try one discriminator after the other, and throw.
Identify(data, names) ==
    IF \E name \in names : StartsWith(data, name)
    THEN CHOOSE name \in names : StartsWith(data, name)
    ELSE "unknown"

identifyPtransAccount(data) == Identify(data, {"NullifierRecord", "PoolAcc"})
identifyPtransEvent(data) == Identify(data, {"DepositEvent", "WithdrawEvent"})
identifyPtransInstruction(data) == Identify(data, {"deposit", "pool", "withdraw"})

-----------------------------------------------------------------------------
(***************************************************************************)
(* The program's addresses.                                                *)
(***************************************************************************)

PTRANS_PROGRAM_ADDRESS == ProgramKey("ptrans")
SYSTEM_PROGRAM_ADDRESS == ProgramKey("system")

\* getProgramDerivedAddress: different seeds, different addresses.
ProgramDerivedAddress(program, seeds) == <<"pda", <<program, seeds>>>>

findPoolPda == ProgramDerivedAddress(PTRANS_PROGRAM_ADDRESS, <<"pool3">>)

findPoolVaultPda(pool) ==
    ProgramDerivedAddress(PTRANS_PROGRAM_ADDRESS, <<"vault3", pool>>)

findNullifierRecordPda(pool, nullifierHash) ==
    ProgramDerivedAddress(PTRANS_PROGRAM_ADDRESS,
                          <<"nullifier_record", pool, nullifierHash>>)

-----------------------------------------------------------------------------
(***************************************************************************)
(* Instructions built from named accounts.                                 *)
(***************************************************************************)

Absent == <<"absent", 0>>   \* an account the caller leaves to the builder

Given(account, default) == IF account = Absent THEN default ELSE account

\* AccountRole: 0 read-only, 1 writable, and 2 more for a signer.
Role(isSigner, isWritable) ==
    (IF isSigner THEN 2 ELSE 0) + (IF isWritable THEN 1 ELSE 0)

PoolAccounts == <<"pool", "poolVault", "authority", "systemProgram">>
DepositAccounts == <<"pool", "poolVault", "depositor", "systemProgram">>
WithdrawAccounts ==
    <<"pool", "nullifierRecord", "poolVault", "recipient", "payer",
      "verifierProgram", "systemProgram">>

Signers == {"authority", "depositor", "payer"}

WritableAccounts == {"pool", "nullifierRecord", "poolVault", "recipient"} \cup Signers

Metas(names, input) ==
    [k \in DOMAIN names |->
        [address |-> input[names[k]],
         role    |-> Role(names[k] \in Signers, names[k] \in WritableAccounts)]]

\* The plain builders are given every address but the system program's.
WithSystemProgram(input) ==
    [input EXCEPT !.systemProgram = Given(@, SYSTEM_PROGRAM_ADDRESS)]

getPoolInstruction(input) ==
    [programAddress |-> PTRANS_PROGRAM_ADDRESS,
     accounts |-> Metas(PoolAccounts, WithSystemProgram(input)),
     data |-> Encode(PoolInstructionData, WithDiscriminator("pool", << >>))]

getDepositInstruction(input, args) ==
    [programAddress |-> PTRANS_PROGRAM_ADDRESS,
     accounts |-> Metas(DepositAccounts, WithSystemProgram(input)),
     data |-> Encode(DepositInstructionData, WithDiscriminator("deposit", args))]

getWithdrawInstruction(input, args) ==
    [programAddress |-> PTRANS_PROGRAM_ADDRESS,
     accounts |-> Metas(WithdrawAccounts, WithSystemProgram(input)),
     data |-> Encode(WithdrawInstructionData, WithDiscriminator("withdraw", args))]

\* The others resolve what is absent: the pool first, then what derives from it.
WithPool(input) ==
    LET pool == Given(input.pool, findPoolPda)
    IN  [input EXCEPT !.pool = pool, !.poolVault = Given(@, findPoolVaultPda(pool))]

getPoolInstructionAsync(input) == getPoolInstruction(WithPool(input))

getDepositInstructionAsync(input, args) == getDepositInstruction(WithPool(input), args)

getWithdrawInstructionAsync(input, args) ==
    LET resolved == WithPool(input)
        record == findNullifierRecordPda(resolved.pool, args.nullifierHash)
    IN  getWithdrawInstruction(
            [resolved EXCEPT !.nullifierRecord = Given(@, record)], args)

-----------------------------------------------------------------------------
(***************************************************************************)
(* Instructions taken apart again, and refusals named.                     *)
(***************************************************************************)

\* The first accounts by name; an instruction that names too few is refused.
ParseInstruction(ix, names, struct) ==
    IF Len(ix.accounts) < Len(names)
    THEN [accounts |-> << >>, data |-> Garbage]
    ELSE [accounts |-> [name \in ToSet(names) |->
                ix.accounts[CHOOSE k \in DOMAIN names : names[k] = name].address],
          data |-> Decode(struct, ix.data)]

parsePoolInstruction(ix) == ParseInstruction(ix, PoolAccounts, PoolInstructionData)
parseDepositInstruction(ix) ==
    ParseInstruction(ix, DepositAccounts, DepositInstructionData)
parseWithdrawInstruction(ix) ==
    ParseInstruction(ix, WithdrawAccounts, WithdrawInstructionData)

parsePtransInstruction(ix) ==
    CASE identifyPtransInstruction(ix.data) = "pool"     -> parsePoolInstruction(ix)
      [] identifyPtransInstruction(ix.data) = "deposit"  -> parseDepositInstruction(ix)
      [] identifyPtransInstruction(ix.data) = "withdraw" -> parseWithdrawInstruction(ix)
      [] OTHER -> [accounts |-> << >>, data |-> Garbage]

\* Mutant: the IDL the client was generated from lacked InvalidVerifier.
PtransErrorMessages_old ==
    <<"TreeFull", "InvalidRoot", "NullifierUsed", "DepositTooSmall",
      "RecipientMismatch", "InsufficientVaultBalance", "InvalidProof",
      "VerificationFailed", "Overflow">>

\* PTRANS_ERROR__TREE_FULL is 6000, and so on.
PtransErrorMessages ==
    <<"TreeFull", "InvalidRoot", "NullifierUsed", "DepositTooSmall",
      "RecipientMismatch", "InvalidVerifier", "InsufficientVaultBalance",
      "InvalidProof", "VerificationFailed", "Overflow">>

getPtransErrorMessage(code) ==
    IF code - 5999 \in DOMAIN PtransErrorMessages
    THEN PtransErrorMessages[code - 5999]
    ELSE "unknown"
=============================================================================
