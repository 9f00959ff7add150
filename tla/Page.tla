-------------------------------- MODULE Page --------------------------------
(***************************************************************************)
(* One load of the home page (views/Home.vue): the wallet button, the      *)
(* deposit form with its pool status and the withdrawal form, around a     *)
(* wallet extension that changes accounts when its user likes, an RPC node *)
(* and services that answer in any order or fail.                          *)
(*                                                                         *)
(* JavaScript runs one thing at a time, up to the next await.  A call that *)
(* awaits is an element of `calls`: the function, what it awaits and the   *)
(* local variables it will go on with.  What a button starts is guarded by *)
(* what the template shows and enables.                                    *)
(***************************************************************************)
EXTENDS Integers, Bags, FiniteSets, Functions

CONSTANTS
    Accounts, None,      \* accounts of the wallet extension, and no account
    MaxClicks,           \* bound on what the user does, page or extension
    MaxFaults            \* bound on answers that are errors

ASSUME PageAssumption ==
    /\ None \notin Accounts
    /\ MaxClicks \in Nat /\ MaxFaults \in Nat

VARIABLES
    provider,    \* the extension: [connected, account]
    created,     \* the pool account exists
    store,       \* stores/wallet.ts; a balance is whose balance it is
    handlers,    \* accountChanged handlers registered
    calls,       \* bag of calls that await
    pool,        \* usePool: [loading, initializing, isInitialized]
    form,        \* DepositForm and useDeposit: [loading, showNote, depositNote]
    withdrawal,  \* WithdrawForm and useWithdraw: [loading, proofGenerating]
    notes,       \* the deposits store: [saved, used]
    circuits,    \* poseidon.ts: what became of each circuit's promise
    fetched,     \* times each circuit was fetched
    unheard,     \* the account changed while no handler was registered
    stale,       \* the last balance written was refused or of another account
    offered,     \* notes that have been on the screen
    unseen,      \* notes stored whose call failed before they were
    clicks, faults

wallet == <<provider, store, handlers, unheard, stale>>
forms == <<form, withdrawal, notes, offered, unseen>>
cache == <<circuits, fetched>>
vars == <<wallet, forms, cache, created, calls, pool, clicks, faults>>

Circuits == {"hashes", "withdrawal"}

One(call) == SetToBag({call})
Call(fn, at, account, note, read) ==
    [fn |-> fn, at |-> at, account |-> account, note |-> note, read |-> read]
Waiting(fn) == {c \in BagToSet(calls) : c.fn = fn}

Click == clicks < MaxClicks /\ clicks' = clicks + 1 /\ UNCHANGED faults
Fault == faults < MaxFaults /\ faults' = faults + 1 /\ UNCHANGED clicks
Answer == UNCHANGED <<clicks, faults>>

Ends(c) == calls' = calls (-) One(c)
GoesOn(c, d) == calls' = (calls (-) One(c)) (+) One(d)

-----------------------------------------------------------------------------
(***************************************************************************)
(* useWallet and WalletConnect.vue.                                        *)
(***************************************************************************)

Fetch == Call("fetch", "sent", None, 0, "")
Refresh(a) == Call("refresh", "balance", a, 0, "")

setWallet(a) == [store EXCEPT !.isConnected = TRUE, !.walletAddress = a]

\* watch(isConnected) of DepositForm: the pool is fetched when a wallet comes.
Comes == ~store.isConnected
Watched == IF Comes THEN One(Fetch) ELSE EmptyBag
PoolWatched == IF Comes THEN [pool EXCEPT !.loading = TRUE] ELSE pool

handleConnect ==
    /\ Click
    /\ ~store.isConnected /\ ~store.isConnecting
    /\ store' = [store EXCEPT !.isConnecting = TRUE]
    /\ calls' = calls (+) One(Call("connect", "wallet", None, 0, ""))
    /\ UNCHANGED <<provider, handlers, unheard, stale, forms, cache, created, pool>>

\* provider.connect() answers with the account its user chose.
WalletConnects(c, a) ==
    /\ Answer
    /\ c.fn = "connect" /\ c.at = "wallet"
    /\ provider.account # None => a = provider.account
    /\ provider' = [connected |-> TRUE, account |-> a]
    /\ store' = setWallet(a)
    /\ unheard' = FALSE
    /\ calls' = (calls (-) One(c)) (+) One([c EXCEPT !.at = "balance", !.account = a])
                    (+) Watched
    /\ pool' = PoolWatched
    /\ UNCHANGED <<handlers, stale, forms, cache, created>>

WalletRefuses(c) ==
    /\ Answer
    /\ c.fn = "connect" /\ c.at = "wallet"
    /\ store' = [store EXCEPT !.isConnecting = FALSE]
    /\ Ends(c)
    /\ UNCHANGED <<provider, handlers, unheard, stale, forms, cache, created, pool>>

\* The end of refreshBalance.  An error is caught; whatever the page shows by
\* now, the answer is written.
BalanceArrives(c) ==
    /\ c.fn \in {"connect", "refresh"} /\ c.at = "balance"
    /\ LET known == IF c.fn = "connect" THEN [store EXCEPT !.isConnecting = FALSE]
                                        ELSE store
       IN  \/ /\ Answer
              /\ store' = [known EXCEPT !.balance = c.account]
              /\ stale' = (store.walletAddress # c.account)
           \/ /\ Fault
              /\ store' = known
              /\ stale' = TRUE
    /\ handlers' = IF c.fn = "connect" THEN handlers + 1 ELSE handlers
    /\ Ends(c)
    /\ UNCHANGED <<provider, unheard, forms, cache, created, pool>>

\* Mutant: the null of a closed account is taken for an address.
AccountChanged_null(a) ==
    [store |-> setWallet(a), disconnects |-> FALSE]

\* Mutant: a page that has an address keeps it.
AccountChanged_first(a) ==
    [store |-> IF store.isConnected THEN store ELSE setWallet(a),
     disconnects |-> a = None]

\* What each accountChanged handler does before it awaits.
AccountChanged(a) ==
    [store |-> IF a = None THEN store ELSE setWallet(a),
     disconnects |-> a = None]

\* Mutant: the handler leaves the balance alone.
HandlerCalls_none(a) ==
    IF AccountChanged(a).disconnects
    THEN One(Call("disconnect", "wallet", None, 0, ""))
    ELSE EmptyBag

HandlerCalls(a) ==
    IF AccountChanged(a).disconnects
    THEN One(Call("disconnect", "wallet", None, 0, ""))
    ELSE One(Refresh(a))

\* The user picks another account in the extension, or one the page may not see.
Switch(a) ==
    /\ Click
    /\ provider.connected /\ a # provider.account
    /\ provider' = [provider EXCEPT !.account = a]
    /\ IF handlers = 0
       THEN /\ unheard' = TRUE
            /\ UNCHANGED <<store, calls, pool>>
       ELSE /\ unheard' = FALSE
            /\ store' = AccountChanged(a).store
            /\ calls' = calls (+) [c \in DOMAIN HandlerCalls(a) |-> handlers]
                           (+) (IF store'.isConnected THEN Watched ELSE EmptyBag)
            /\ pool' = IF store'.isConnected THEN PoolWatched ELSE pool
    /\ UNCHANGED <<handlers, stale, forms, cache, created>>

handleDisconnect ==
    /\ Click
    /\ store.isConnected
    /\ calls' = calls (+) One(Call("disconnect", "wallet", None, 0, ""))
    /\ UNCHANGED <<wallet, forms, cache, created, pool>>

\* provider.disconnect() answers or throws; the store is emptied after it.
Disconnected(c) ==
    /\ c.fn = "disconnect"
    /\ \/ Answer /\ provider' = [connected |-> FALSE, account |-> None]
       \/ Fault /\ UNCHANGED provider
    /\ store' = [store EXCEPT !.isConnected = FALSE, !.walletAddress = None,
                              !.balance = None]
    /\ Ends(c)
    /\ UNCHANGED <<handlers, unheard, stale, forms, cache, created, pool>>

-----------------------------------------------------------------------------
(***************************************************************************)
(* usePool, as DepositForm.vue uses it.                                    *)
(***************************************************************************)

\* The node reads the account at some moment; the answer arrives at another.
NodeReads(c) ==
    /\ Answer
    /\ c.fn \in {"fetch", "init"} /\ c.at = "sent"
    /\ GoesOn(c, [c EXCEPT !.at = "answered",
                           !.read = IF created THEN "yes" ELSE "no"])
    /\ UNCHANGED <<wallet, forms, cache, created, pool>>

\* Mutant: there is no finally.
Fetched_stuck(c) ==
    [pool EXCEPT !.initializing = IF c.fn = "init" THEN FALSE ELSE @]

\* The finally of fetchPoolInfo, and initializePool's when it called it.
Fetched(c) ==
    [pool EXCEPT !.loading = FALSE,
                 !.initializing = IF c.fn = "init" THEN FALSE ELSE @]

\* An error of fetchPoolAcc, of the network too, reads as "not initialized"; if the
\* vault's balance cannot be read, what was known stays.
FetchEnds(c) ==
    /\ c.fn \in {"fetch", "init"} /\ c.at = "answered"
    /\ \/ Answer /\ pool' = [Fetched(c) EXCEPT !.isInitialized = c.read]
       \/ Fault /\ pool' = [Fetched(c) EXCEPT !.isInitialized = "no"]
       \/ Fault /\ pool' = Fetched(c)
    /\ Ends(c)
    /\ UNCHANGED <<wallet, forms, cache, created>>

handleInitializePool ==
    /\ Click
    /\ ~pool.loading /\ pool.isInitialized # "yes"
    /\ store.isConnected /\ ~pool.initializing
    /\ pool' = [pool EXCEPT !.initializing = TRUE]
    /\ calls' = calls (+) One(Call("init", "wallet", store.walletAddress, 0, ""))
    /\ UNCHANGED <<wallet, forms, cache, created>>

\* The instruction executes only while there is no pool; then it is fetched.
PoolInitialized(c) ==
    /\ Answer
    /\ c.fn = "init" /\ c.at = "confirm" /\ ~created
    /\ created' = TRUE
    /\ pool' = [pool EXCEPT !.loading = TRUE]
    /\ GoesOn(c, [c EXCEPT !.at = "sent"])
    /\ UNCHANGED <<wallet, forms, cache>>

\* Somebody else initializes the pool.
PoolAppears ==
    /\ Answer
    /\ ~created /\ created' = TRUE
    /\ UNCHANGED <<wallet, forms, cache, calls, pool>>

-----------------------------------------------------------------------------
(***************************************************************************)
(* The circuits, fetched when first needed and kept as promises.           *)
(***************************************************************************)

\* Mutant: the circuit is kept only once it is there.
Missing_late(name) == circuits[name] \in {"none", "fetching"}

Missing(name) == circuits[name] = "none"

GetNoir(name) ==
    IF Missing(name)
    THEN /\ circuits' = [circuits EXCEPT ![name] = "fetching"]
         /\ fetched' = [fetched EXCEPT ![name] = @ + 1]
    ELSE UNCHANGED cache

\* A promise that is rejected stays so.
CircuitArrives(name) ==
    /\ circuits[name] = "fetching"
    /\ \/ Answer /\ circuits' = [circuits EXCEPT ![name] = "ready"]
       \/ Fault /\ circuits' = [circuits EXCEPT ![name] = "broken"]
    /\ UNCHANGED <<fetched, wallet, forms, created, calls, pool>>

-----------------------------------------------------------------------------
(***************************************************************************)
(* DepositForm.vue with useDeposit, WithdrawForm.vue with useWithdraw.     *)
(***************************************************************************)

\* Mutant: the form stays below the note.
DepositButton_shown ==
    ~form.loading /\ store.isConnected /\ pool.isInitialized = "yes"

\* v-if and :disabled of the button, isValid.
DepositButton ==
    ~form.showNote /\ ~form.loading /\ store.isConnected /\ pool.isInitialized = "yes"

handleDeposit ==
    /\ Click
    /\ DepositButton
    /\ form' = [form EXCEPT !.loading = TRUE, !.depositNote = 0]
    /\ calls' = calls (+) One(Call("deposit", "hashes", None, 0, ""))
    /\ GetNoir("hashes")
    /\ UNCHANGED <<wallet, withdrawal, notes, offered, unseen, created, pool>>

\* The clipboard: copyNote's text, line by line.
Line(label, value) == [label |-> label, value |-> value]
CopiedNote(n) ==
    <<Line("Nullifier Secret", <<"nullifier", n>>), Line("Secret", <<"secret", n>>),
      Line("Amount", <<"amount", n>>), Line("Commitment", <<"commitment", n>>)>>

\* handleWithdraw strips the labels it expects of the first two lines.
Strip(line, label) == IF line.label = label THEN line.value ELSE <<"not hex", 0>>
ReadNote(text) ==
    [nullifierSecret |-> Strip(text[1], "Nullifier Secret"),
     secret |-> Strip(text[2], "Secret")]

\* getNoteByNullifier, or 0.
NoteOf(read) ==
    IF \E n \in notes.saved : read.nullifierSecret = <<"nullifier", n>>
    THEN CHOOSE n \in notes.saved : read.nullifierSecret = <<"nullifier", n>>
    ELSE 0

\* The user pastes a note that was on the screen.
handleWithdraw(n) ==
    /\ Click
    /\ store.isConnected /\ ~withdrawal.loading
    /\ withdrawal' = [loading |-> TRUE, proofGenerating |-> TRUE]
    /\ calls' = calls (+) One(Call("withdraw", "hashes", None,
                                   NoteOf(ReadNote(CopiedNote(n))), ""))
    /\ GetNoir("hashes")
    /\ UNCHANGED <<wallet, form, notes, offered, unseen, created, pool>>

Usable(n) == n \in notes.saved \ notes.used

\* The commitment or the nullifier hash is computed.
Hashed(c) ==
    /\ Answer
    /\ c.at = "hashes" /\ circuits["hashes"] = "ready"
    /\ \/ /\ c.fn = "deposit"
          /\ GoesOn(c, [c EXCEPT !.at = "services"])
          /\ UNCHANGED cache
       \/ /\ c.fn = "withdraw" /\ Usable(c.note)
          /\ GoesOn(c, [c EXCEPT !.at = "withdrawal"])
          /\ GetNoir("withdrawal")
    /\ UNCHANGED <<wallet, forms, created, pool>>

\* The backend has answered and the witness is there.
Witnessed(c) ==
    /\ Answer
    /\ c.at = "withdrawal" /\ circuits["withdrawal"] = "ready"
    /\ withdrawal' = [withdrawal EXCEPT !.proofGenerating = FALSE]
    /\ GoesOn(c, [c EXCEPT !.at = "services"])
    /\ UNCHANGED <<wallet, form, notes, offered, unseen, cache, created, pool>>

\* The list and the root, or the proof, have come: the transaction is built for
\* the address the store has now.
Served(c) ==
    /\ Answer
    /\ c.at = "services" /\ store.walletAddress # None
    /\ GoesOn(c, [c EXCEPT !.at = "wallet", !.account = store.walletAddress])
    /\ UNCHANGED <<wallet, forms, cache, created, pool>>

\* signTransaction: the extension signs for the account it has.
Signed(c) ==
    /\ Answer
    /\ c.fn \in {"deposit", "withdraw", "init"} /\ c.at = "wallet"
    /\ provider.connected /\ provider.account = c.account
    /\ GoesOn(c, [c EXCEPT !.at = "confirm"])
    /\ UNCHANGED <<wallet, forms, cache, created, pool>>

DepositConfirmed(c) ==
    /\ Answer
    /\ c.fn = "deposit" /\ c.at = "confirm"
    /\ LET n == Cardinality(notes.saved) + 1
       IN  /\ notes' = [notes EXCEPT !.saved = @ \cup {n}]
           /\ form' = [form EXCEPT !.depositNote = n]
           /\ GoesOn(c, [c EXCEPT !.at = "balance", !.note = n])
    /\ UNCHANGED <<wallet, withdrawal, offered, unseen, cache, created, pool>>

WithdrawConfirmed(c) ==
    /\ Answer
    /\ c.fn = "withdraw" /\ c.at = "confirm"
    /\ notes' = [notes EXCEPT !.used = @ \cup {c.note}]
    /\ GoesOn(c, [c EXCEPT !.at = "balance"])
    /\ UNCHANGED <<wallet, form, withdrawal, offered, unseen, cache, created, pool>>

\* The last await, and what the form does when the call returns.
Returns(c) ==
    /\ Answer
    /\ c.fn \in {"deposit", "withdraw"} /\ c.at = "balance"
    /\ store' = [store EXCEPT !.balance = c.account]
    /\ stale' = (store.walletAddress # c.account)
    /\ IF c.fn = "deposit"
       THEN /\ form' = [form EXCEPT !.loading = FALSE, !.showNote = TRUE]
            /\ offered' = offered \cup {form.depositNote}
            /\ UNCHANGED withdrawal
       ELSE /\ withdrawal' = [loading |-> FALSE, proofGenerating |-> FALSE]
            /\ UNCHANGED <<form, offered>>
    /\ Ends(c)
    /\ UNCHANGED <<provider, handlers, unheard, notes, unseen, cache, created, pool>>

handleReset ==
    /\ Click
    /\ form.showNote
    /\ form' = [loading |-> FALSE, showNote |-> FALSE, depositNote |-> 0]
    /\ UNCHANGED <<wallet, withdrawal, notes, offered, unseen, cache, created, calls,
                   pool>>

\* What the call finds out by itself: no circuit, no note to use, no address to
\* pay from, an account that does not sign, a pool that exists already.
Doomed(c) ==
    \/ c.at = "hashes" /\ circuits["hashes"] = "broken"
    \/ c.at = "hashes" /\ c.fn = "withdraw" /\ ~Usable(c.note)
    \/ c.at = "withdrawal" /\ circuits["withdrawal"] = "broken"
    \/ c.at = "services" /\ store.walletAddress = None
    \/ c.at = "wallet"
    \/ c.fn = "init" /\ c.at = "confirm" /\ created

\* The catch and finally of deposit, withdraw and initializePool.
Throws(c) ==
    /\ c.fn \in {"deposit", "withdraw", "init"}
    /\ c.at \notin {"sent", "answered"}
    /\ c.at = "hashes" => circuits["hashes"] # "fetching"
    /\ c.at = "withdrawal" => circuits["withdrawal"] # "fetching"
    /\ IF Doomed(c) THEN Answer ELSE Fault
    /\ CASE c.fn = "deposit" ->
                /\ form' = [form EXCEPT !.loading = FALSE]
                /\ unseen' = IF c.at = "balance" THEN unseen \cup {c.note} ELSE unseen
                /\ UNCHANGED <<withdrawal, pool>>
         [] c.fn = "withdraw" ->
                /\ withdrawal' = [loading |-> FALSE, proofGenerating |-> FALSE]
                /\ UNCHANGED <<form, unseen, pool>>
         [] c.fn = "init" ->
                /\ pool' = [pool EXCEPT !.initializing = FALSE]
                /\ UNCHANGED <<form, unseen, withdrawal>>
    /\ Ends(c)
    /\ UNCHANGED <<wallet, notes, offered, cache, created>>

-----------------------------------------------------------------------------
\* The page is mounted: the pool is fetched, and an extension that already
\* trusts the page makes it connected, without a handler.  localStorage may have
\* a note of an earlier load.
Init ==
    /\ \/ provider = [connected |-> FALSE, account |-> None]
       \/ \E a \in Accounts : provider = [connected |-> TRUE, account |-> a]
    /\ store = [isConnected |-> provider.connected, isConnecting |-> FALSE,
                walletAddress |-> provider.account, balance |-> None]
    /\ calls = IF provider.connected
               THEN One(Refresh(provider.account)) (+) One(Fetch) (+) One(Fetch)
               ELSE One(Fetch)
    /\ created \in BOOLEAN
    /\ handlers = 0
    /\ pool = [loading |-> TRUE, initializing |-> FALSE, isInitialized |-> "unknown"]
    /\ form = [loading |-> FALSE, showNote |-> FALSE, depositNote |-> 0]
    /\ withdrawal = [loading |-> FALSE, proofGenerating |-> FALSE]
    /\ \E n \in {0, 1} :
            /\ notes = [saved |-> 1 .. n, used |-> {}]
            /\ offered = 1 .. n
    /\ circuits = [name \in Circuits |-> "none"]
    /\ fetched = [name \in Circuits |-> 0]
    /\ unheard = FALSE /\ stale = FALSE
    /\ unseen = {}
    /\ clicks = 0 /\ faults = 0

\* What comes without anybody deciding: answers of nodes and services.
Resumes(c) ==
    \/ BalanceArrives(c) \/ NodeReads(c) \/ FetchEnds(c) \/ PoolInitialized(c)
    \/ Hashed(c) \/ Witnessed(c) \/ Served(c)
    \/ DepositConfirmed(c) \/ WithdrawConfirmed(c) \/ Returns(c)
    \/ c.at # "wallet" /\ Throws(c)

Next ==
    \/ handleConnect \/ handleDisconnect \/ handleInitializePool
    \/ handleDeposit \/ handleReset \/ PoolAppears
    \/ \E n \in offered : handleWithdraw(n)
    \/ \E a \in Accounts \cup {None} : Switch(a)
    \/ \E name \in Circuits : CircuitArrives(name)
    \/ \E c \in BagToSet(calls) :
        \/ \E a \in Accounts : WalletConnects(c, a)
        \/ WalletRefuses(c) \/ Disconnected(c) \/ Signed(c)
        \/ c.at = "wallet" /\ Throws(c)
        \/ Resumes(c)

Arrives ==
    \/ \E c \in BagToSet(calls) : Resumes(c)
    \/ \E name \in Circuits : CircuitArrives(name)

\* Nodes and services answer or fail: while some answer is awaited, one arrives,
\* and the bound on clicks makes that enough for each.  The user and the
\* extension need not do anything.
Fairness == WF_vars(Arrives)

Spec == Init /\ [][Next]_vars /\ Fairness

-----------------------------------------------------------------------------
(***************************************************************************)
(* Properties.                                                             *)
(***************************************************************************)

\* The type invariant.
TypeOK ==
    /\ provider \in [connected : BOOLEAN, account : Accounts \cup {None}]
    /\ store \in [isConnected : BOOLEAN, isConnecting : BOOLEAN,
                  walletAddress : Accounts \cup {None}, balance : Accounts \cup {None}]
    /\ store.isConnected <=> store.walletAddress # None
    /\ pool \in [loading : BOOLEAN, initializing : BOOLEAN,
                 isInitialized : {"unknown", "no", "yes"}]
    /\ form \in [loading : BOOLEAN, showNote : BOOLEAN, depositNote : 0 .. MaxClicks + 1]
    /\ withdrawal \in [loading : BOOLEAN, proofGenerating : BOOLEAN]
    /\ notes.used \subseteq notes.saved /\ notes.saved \subseteq 1 .. MaxClicks + 1
    /\ handlers \in 0 .. MaxClicks

Count(fn) == SumFunctionOnSet(calls, Waiting(fn))

\* A flag that disables a button is up exactly while its one call is pending, so
\* no form has two calls writing its state and no spinner outlives its call; and
\* a circuit is fetched once, also when both forms wait for it
\* (useWallet.ts:46-82, DepositForm.vue:140-166, WithdrawForm.vue:47,
\* poseidon.ts:13-64).
OneAtATime ==
    /\ Count("connect") = IF store.isConnecting THEN 1 ELSE 0
    /\ Count("init") = IF pool.initializing THEN 1 ELSE 0
    /\ Count("deposit") = IF form.loading THEN 1 ELSE 0
    /\ Count("withdraw") = IF withdrawal.loading THEN 1 ELSE 0
    /\ withdrawal.proofGenerating => withdrawal.loading
    /\ pool.loading => Count("fetch") + Count("init") > 0
    /\ \A name \in Circuits : fetched[name] <= 1

\* The page shows the account the extension will sign with, whatever the order of
\* connects, switches and disconnects, but for two cases: the account changed
\* before a handler was registered (during connect's refreshBalance, or after the
\* automatic connection, which registers none), or a disconnect is under way
\* (useWallet.ts:63-75, 84-103).
AddressFollows ==
    store.isConnected /\ ~unheard /\ Waiting("disconnect") = {} =>
        store.walletAddress = provider.account

\* Once no balance is awaited, the balance beside an address is that address's,
\* unless the last answer failed or was asked for another account: the address
\* is read before the await and the balance written after it
\* (useWallet.ts:36-44, useDeposit.ts:163-164, useWithdraw.ts:248-249).
BalanceFollows ==
    /\ store.isConnected /\ ~stale
    /\ \A c \in BagToSet(calls) : c.at # "balance"
    => store.balance = store.walletAddress

\* Every note stored is put before the user, unless the balance request after it
\* fails or is still awaited; a note on the screen stays until the user dismisses
\* it; and its text, pasted whole, is read as that note
\* (DepositForm.vue:34-64, 149-190, useDeposit.ts:151-175, WithdrawForm.vue:26-30).
NotesOffered ==
    /\ notes.saved = offered \cup unseen
                     \cup {c.note : c \in {d \in Waiting("deposit") : d.at = "balance"}}
    /\ form.showNote => form.depositNote \in offered
    /\ \A n \in offered : NoteOf(ReadNote(CopiedNote(n))) = n

\* No spinner turns for ever: the pool's stops, and a form's stops once the
\* extension has signed, on every path through try, catch and finally
\* (usePool.ts:87-92, useDeposit.ts:165-172, useWithdraw.ts:250-257).
Spinning ==
    \/ pool.loading
    \/ form.loading /\ \A c \in Waiting("deposit") : c.at # "wallet"
    \/ withdrawal.loading /\ \A c \in Waiting("withdraw") : c.at # "wallet"

LoadingEnds == []<>~Spinning
=============================================================================
